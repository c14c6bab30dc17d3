------------------------------ MODULE ClientPages ------------------------------
(* Five pages of the browser: transactions, subscriptions, reconciliation,   *)
(* statements and invoices. Their own state is shared with no other page, so *)
(* a behaviour is about one of them: part says which, and what the others    *)
(* keep does not exist. The kinds of clicks a behaviour is about are its     *)
(* scope; each page has its own set of them.                                 *)
EXTENDS SubscriptionPages

CONSTANTS
    PageTxns, PageCats, InStatement, Incoming, Reconciled, TransactionScopes,
    Debits, Credits, Windows, Close, ReconcileScopes,
    Files, StatementScopes,
    Invoices, Users, InvoiceScopes

VARIABLES part,
    srv, running, applied, hide, appliedOnce, selected, lists, status, poll, was,
    joined, tab, window, searching, deselected, manual,
    stored, account, deleting, preview, loading, results,
    shares, editing, sharing

Transactions == INSTANCE TransactionsPage WITH
    Txns <- PageTxns, Cats <- PageCats, Credits <- Incoming, Scopes <- TransactionScopes
Reconciles == INSTANCE ReconcilePage WITH Scopes <- ReconcileScopes
Statements == INSTANCE StatementsPage WITH Scopes <- StatementScopes
Bills      == INSTANCE InvoicesPage WITH Cats <- PageCats, Scopes <- InvoiceScopes

\* Nothing is none of what the server is asked for, answers or is sent.
ASSUME Marks == None # Asked

\* The states of a subscription that is not there are none of its rows, the
\* answers of queries are none of the marks, and scopes have three fields.
ASSUME SubscriptionMarks ==
    /\ {Unborn, Gone, None, Asked} \cap Sub = {} /\ {None, Asked} \cap (Form \cup Subs \cup Nat) = {}
    /\ Unborn # Gone
    /\ \A answer \in SUBSET Merchants : answer \notin {None, Asked}
    /\ \A answer \in SUBSET Txns : answer \notin {None, Asked}
    /\ \A T \in SUBSET Subs : {None, Asked} \cap [T -> Sub] = {}
    /\ \A kind \in Kinds : None \notin Call(kind)
    /\ \A s \in Scopes : s = [clicks |-> s.clicks, left |-> s.left, queries |-> s.queries]

\* A query answers rows or has not answered, and a slot holds a call or none.
ASSUME TransactionMarks ==
    /\ None \notin PageTxns /\ {None, Asked} \cap Transactions!Lists = {}
    /\ \A kind \in Transactions!Kinds : None \notin Transactions!Call(kind)

\* A window of days is a query of its own, of pairs of a debit and a credit.
ASSUME ReconcileMarks ==
    /\ Windows \cap {"unreconciled", "history"} = {}
    /\ Close \in [Windows -> SUBSET (Debits \X Credits)]
    /\ None \notin Debits \cup Credits
    /\ \A answer \in SUBSET (Debits \cup Credits) : answer \notin {None, Asked}
    /\ \A answer \in SUBSET (Debits \X Credits) : answer \notin {None, Asked}
    /\ None \notin Reconciles!Batch

\* The list answers statements or has not answered, and a slot holds a call or none.
ASSUME StatementMarks ==
    /\ None \notin Files
    /\ {None, Asked} \cap Statements!Lists = {}
    /\ \A kind \in Statements!Kinds : None \notin Statements!Call(kind)

\* The participants of an invoice are a query of its own, beside the lists.
ASSUME InvoiceMarks ==
    /\ Invoices \cap Bills!Sources = {} /\ None \notin Invoices
    /\ {None, Gone} \cap Bills!Row = {} /\ None # Gone
    /\ {None, Asked} \cap Bills!Lists = {}
    /\ \A answer \in SUBSET Users : answer \notin {None, Asked}
    /\ \A kind \in Bills!Kinds : None \notin Bills!Call(kind)

-----------------------------------------------------------------------------
subscriptionOnly == <<server, page, form, letter, jumped, sent>>
transactionOnly  == <<srv, running, applied, hide, appliedOnce, selected, lists, status, poll, was>>
reconcileOnly    == <<joined, tab, window, searching, deselected, manual>>
statementOnly    == <<stored, account, deleting, preview, loading, results>>
invoiceOnly      == <<shares, editing, sharing>>
allVars == <<vars, transactionOnly, reconcileOnly, statementOnly, invoiceOnly, part>>

NoSubscriptions ==
    /\ subs = None /\ link = None /\ log = None /\ declined = None /\ tolerant = None /\ enriching = None
    /\ page = None /\ form = None /\ letter = None /\ jumped = None /\ sent = None
NoTransactions ==
    /\ srv = None /\ running = None /\ applied = None /\ hide = None /\ appliedOnce = None
    /\ selected = None /\ lists = None /\ status = None /\ poll = None /\ was = None
NoReconciles ==
    /\ joined = None /\ tab = None /\ window = None /\ searching = None /\ deselected = None /\ manual = None
NoStatements ==
    /\ stored = None /\ account = None /\ deleting = None /\ preview = None /\ loading = None /\ results = None
NoInvoices == shares = None /\ editing = None /\ sharing = None

InitAll ==
    \/ /\ part = "subscriptions" /\ Init
       /\ NoTransactions /\ NoReconciles /\ NoStatements /\ NoInvoices
    \/ /\ part = "transactions" /\ Transactions!Init
       /\ NoSubscriptions /\ NoReconciles /\ NoStatements /\ NoInvoices /\ cache = None
    \/ /\ part = "reconcile" /\ Reconciles!Init
       /\ NoSubscriptions /\ NoTransactions /\ NoStatements /\ NoInvoices /\ modal = None
    \/ /\ part = "statements" /\ Statements!Init
       /\ NoSubscriptions /\ NoTransactions /\ NoReconciles /\ NoInvoices /\ modal = None
    \/ /\ part = "invoices" /\ Bills!Init
       /\ NoSubscriptions /\ modal = None /\ cache = None
       /\ running = None /\ hide = None /\ appliedOnce = None /\ status = None /\ poll = None /\ was = None
       /\ joined = None /\ tab = None /\ window = None /\ searching = None /\ deselected = None
       /\ stored = None /\ account = None /\ deleting = None /\ results = None

OnSubscriptions(step) ==
    part = "subscriptions" /\ step /\ UNCHANGED <<transactionOnly, reconcileOnly, statementOnly, invoiceOnly, part>>
OnTransactions(step) ==
    part = "transactions" /\ step /\ UNCHANGED <<subscriptionOnly, cache, reconcileOnly, statementOnly, invoiceOnly, part>>
OnReconcile(step) ==
    part = "reconcile" /\ step /\ UNCHANGED <<subscriptionOnly, modal, transactionOnly, statementOnly, invoiceOnly, part>>
OnStatements(step) ==
    part = "statements" /\ step /\ UNCHANGED <<subscriptionOnly, modal, transactionOnly, reconcileOnly, invoiceOnly, part>>
OnInvoices(step) ==
    /\ part = "invoices" /\ step
    /\ UNCHANGED <<subscriptionOnly, modal, cache, running, hide, appliedOnce, status, poll, was>>
    /\ UNCHANGED <<joined, tab, window, searching, deselected>>
    /\ UNCHANGED <<stored, account, deleting, results, part>>

SubscriptionsNext ==
    \/ \E k \in Keys : OnSubscriptions(Read(k)) \/ OnSubscriptions(Receive(k))
    \/ \E p \in Page : OnSubscriptions(Go(p))
    \/ OnSubscriptions(StartEdit) \/ OnSubscriptions(Edit) \/ OnSubscriptions(CancelEdit)
    \/ OnSubscriptions(CloseLetter)
    \/ \E r \in Requests :
        \/ OnSubscriptions(Approve(r)) \/ OnSubscriptions(Decline(r)) \/ OnSubscriptions(Undecline(r))
        \/ OnSubscriptions(Discover(r)) \/ OnSubscriptions(DropRow(r)) \/ OnSubscriptions(EnrichRow(r))
        \/ OnSubscriptions(CancelRow(r)) \/ OnSubscriptions(Save(r)) \/ OnSubscriptions(Enrich(r))
        \/ OnSubscriptions(OpenLetter(r)) \/ OnSubscriptions(SendLetter(r)) \/ OnSubscriptions(Link(r))
        \/ OnSubscriptions(Unlink(r)) \/ OnSubscriptions(Delete(r)) \/ OnSubscriptions(Serve(r))
        \/ OnSubscriptions(Settle(r))
    \/ \E s \in Subs : OnSubscriptions(BackgroundEnrich(s))

TransactionsNext ==
    \/ \E k \in Transactions!Keys :
        \/ OnTransactions(Transactions!Read(k)) \/ OnTransactions(Transactions!Receive(k))
        \/ OnTransactions(Transactions!Fail(k))
    \/ OnTransactions(Transactions!Refetch) \/ OnTransactions(Transactions!Apply)
    \/ OnTransactions(Transactions!Clear) \/ OnTransactions(Transactions!ToggleHide)
    \/ OnTransactions(Transactions!Reload) \/ OnTransactions(Transactions!SelectAll)
    \/ OnTransactions(Transactions!ClearSelection)
    \/ \E t \in PageTxns : OnTransactions(Transactions!Select(t))
    \/ \E r \in Requests :
        \/ OnTransactions(Transactions!MarkReviewed(r)) \/ OnTransactions(Transactions!SetCategory(r))
        \/ OnTransactions(Transactions!ReviewAll(r)) \/ OnTransactions(Transactions!BatchMarkReviewed(r))
        \/ OnTransactions(Transactions!BatchSetCategory(r)) \/ OnTransactions(Transactions!Link(r))
        \/ OnTransactions(Transactions!Create(r))
        \/ OnTransactions(Transactions!Unlink(r)) \/ OnTransactions(Transactions!Serve(r))
        \/ OnTransactions(Transactions!Settle(r)) \/ OnTransactions(Transactions!SettleLink(r))
    \/ OnTransactions(Transactions!OpenLink) \/ OnTransactions(Transactions!CloseLink)
    \/ OnTransactions(Transactions!StartJob) \/ OnTransactions(Transactions!CancelJob)
    \/ OnTransactions(Transactions!OtherStarts) \/ OnTransactions(Transactions!JobWrites)
    \/ OnTransactions(Transactions!JobEnds) \/ OnTransactions(Transactions!Poll)
    \/ OnTransactions(Transactions!ReadStatus) \/ OnTransactions(Transactions!ReceiveStatus)

ReconcileNext ==
    \/ \E k \in Reconciles!Keys : OnReconcile(Reconciles!Read(k)) \/ OnReconcile(Reconciles!Receive(k))
    \/ OnReconcile(Reconciles!OpenTab) \/ OnReconcile(Reconciles!ChangeWindow) \/ OnReconcile(Reconciles!Search)
    \/ OnReconcile(Reconciles!Toggle) \/ OnReconcile(Reconciles!ToggleAll) \/ OnReconcile(Reconciles!Pick)
    \/ \E r \in Requests :
        \/ OnReconcile(Reconciles!LinkSuggested(r)) \/ OnReconcile(Reconciles!LinkManual(r))
        \/ OnReconcile(Reconciles!Unjoin(r)) \/ OnReconcile(Reconciles!Serve(r))
        \/ OnReconcile(Reconciles!Linked(r)) \/ OnReconcile(Reconciles!Refused(r))
        \/ OnReconcile(Reconciles!Forgotten(r))

StatementsNext ==
    \/ OnStatements(Statements!Read) \/ OnStatements(Statements!Receive) \/ OnStatements(Statements!ClosePreview)
    \/ \E r \in Requests :
        \/ OnStatements(Statements!Import(r)) \/ OnStatements(Statements!Delete(r))
        \/ OnStatements(Statements!Preview(r)) \/ OnStatements(Statements!Assign(r))
        \/ OnStatements(Statements!Serve(r)) \/ OnStatements(Statements!Imported(r))
        \/ OnStatements(Statements!Deleted(r)) \/ OnStatements(Statements!Assigned(r))
        \/ OnStatements(Statements!Previewed(r))

InvoicesNext ==
    \/ \E k \in Bills!Keys :
        OnInvoices(Bills!Read(k)) \/ OnInvoices(Bills!Receive(k)) \/ OnInvoices(Bills!Fail(k))
    \/ OnInvoices(Bills!Refetch) \/ OnInvoices(Bills!Apply)
    \/ OnInvoices(Bills!SelectAll) \/ OnInvoices(Bills!ClearSelection)
    \/ \E i \in Invoices : OnInvoices(Bills!Select(i))
    \/ OnInvoices(Bills!OpenManual) \/ OnInvoices(Bills!OpenEdit) \/ OnInvoices(Bills!OpenShare)
    \/ OnInvoices(Bills!CloseModal)
    \/ \E r \in Requests :
        \/ OnInvoices(Bills!SetCategory(r)) \/ OnInvoices(Bills!BatchSetCategory(r)) \/ OnInvoices(Bills!Save(r))
        \/ OnInvoices(Bills!Delete(r)) \/ OnInvoices(Bills!Import(r)) \/ OnInvoices(Bills!ManualImport(r))
        \/ OnInvoices(Bills!Preview(r)) \/ OnInvoices(Bills!Share(r)) \/ OnInvoices(Bills!Revoke(r))
        \/ OnInvoices(Bills!Serve(r)) \/ OnInvoices(Bills!Settle(r)) \/ OnInvoices(Bills!Previewed(r))

NextAll == SubscriptionsNext \/ TransactionsNext \/ ReconcileNext \/ StatementsNext \/ InvoicesNext

SpecAll == InitAll /\ [][NextAll]_allVars

-----------------------------------------------------------------------------
\* The types of each page's state (TypeOK of the five modules).
PagesTypeOK ==
    /\ part = "subscriptions" => TypeOK
    /\ part = "transactions"  => Transactions!TypeOK
    /\ part = "reconcile"     => Reconciles!TypeOK
    /\ part = "statements"    => Statements!TypeOK
    /\ part = "invoices"      => Bills!TypeOK

\* A page at rest shows what the server has, whatever crossed on the way, with
\* the exceptions that QuietShowsServer of each of the five modules names
\* (TransactionsPage.tsx:173-226, SubscriptionDetailPage.tsx:99-148,
\* ReconcilePage.tsx:167-199, BankStatementsPage.tsx:100-120,
\* InvoicesPage.tsx:193-270).
PagesShowServer ==
    /\ part = "subscriptions" => QuietShowsServer
    /\ part = "transactions"  => Transactions!QuietShowsServer
    /\ part = "reconcile"     => Reconciles!QuietShowsServer
    /\ part = "statements"    => Statements!QuietShowsServer
    /\ part = "invoices"      => Bills!QuietShowsServer

\* Forms and letters reach what they were written for: SubscriptionPages.SentAsWritten.
FormsSentAsWritten == part = "subscriptions" => SentAsWritten

==============================================================================
