-------------------------- MODULE TransactionsPage --------------------------
(* The page of transactions: its filters and their URL, the cached lists,    *)
(* one per combination of filters, the optimistic changes of single rows and *)
(* of a selection with their rollbacks, links to subscriptions, and the      *)
(* polling of the categorisation job.                                        *)
(*                                                                           *)
(* Of the filters, "statement" stands for those the server applies, "type"   *)
(* for those the page applies to the answer (type, dates, amounts); the page *)
(* applies the category as well, and alone "open", the uncategorised rows,   *)
(* which is no id to the server.                                             *)
EXTENDS Naturals, FiniteSets

CONSTANTS Txns, Cats, Requests, None, Asked,
          InStatement,  \* the transactions of the statement
          Credits,      \* incoming ones: a type filter leaves them, no subscription takes them
          Reconciled,
          Scopes        \* the kinds of clicks a behaviour is about, and how
                        \* many there are of them (a bound)

VARIABLES
    srv,       \* srv[t]: the row of t on the server
    running,   \* the server's job is running
    applied, hide, appliedOnce,   \* the filters in force
    selected,  \* selectedHashes
    modal,     \* linkModalTx
    lists,     \* lists[k]: the cached answer for the filters k
    fetch,     \* fetch[k]: None, Asked, or the answer on its way
    behind,    \* keys whose list misses something the page was never told of
    req,       \* req[r]: a change on its way, and the lists it would restore
    status,    \* the cached status of the job
    poll,      \* None, Asked, or the status on its way
    was,       \* wasRunning
    scope

pageVars == <<applied, hide, appliedOnce, selected, modal>>
jobVars  == <<running, status, poll, was>>
vars     == <<srv, pageVars, lists, fetch, behind, req, jobVars, scope>>

Row     == [cat : Cats \cup {None}, rev : BOOLEAN, sub : BOOLEAN]
Lists   == UNION {[T -> Row] : T \in SUBSET Txns}
Filters == [statement : BOOLEAN, category : Cats \cup {"all", "open"}, type : BOOLEAN]
NoFilters == [statement |-> FALSE, category |-> "all", type |-> FALSE]

\* The key of the query, and what the server answers to it.
Keys == [statement : BOOLEAN, category : Cats \cup {"all", "open"}, hide : BOOLEAN]
KeyOf(f, h) == [statement |-> f.statement, category |-> f.category, hide |-> h]
Key == KeyOf(applied, hide)

Answer(k) ==
    [t \in {x \in Txns : /\ k.statement => x \in InStatement
                         /\ k.hide => x \notin Reconciled
                         /\ k.category \in Cats => srv[x].cat = k.category} |-> srv[t]]

\* allTxns and filtered.
All == IF lists[Key] = None THEN << >> ELSE lists[Key]

Passes(f, h, rows, t) ==
    /\ h => t \notin Reconciled
    /\ f.category = "open" => rows[t].cat = None
    /\ f.category \in Cats => rows[t].cat = f.category
    /\ f.type => t \in Credits

View == IF appliedOnce THEN {t \in DOMAIN All : Passes(applied, hide, All, t)} ELSE {}

Click(kind) ==
    /\ kind \in scope.clicks /\ scope.left > 0
    /\ scope' = [scope EXCEPT !.left = @ - 1]

\* before: the lists a change would restore; an orphan is a call of a page that
\* was loaded anew since.
LinkKinds == {"link", "unlink", "create"}
Kinds     == {"review", "reviewBulk", "cat", "catBulk"} \cup LinkKinds
Call(kind) == [kind : {kind}, hashes : SUBSET Txns, cat : Cats \cup {None},
               before : IF kind \in LinkKinds THEN {None} ELSE [Keys -> Lists \cup {None}],
               stage : {"sent", "done", "failed", "orphan"}]

Sent(kind, hashes, c, before) ==
    [kind |-> kind, hashes |-> hashes, cat |-> c, before |-> before, stage |-> "sent"]
Staged(m, stage) == [m EXCEPT !.stage = stage]

\* The first free slot: which one carries a request makes no difference.
Free(r) == req[r] = None /\ \A q \in Requests : req[q] = None => r <= q

Init ==
    /\ srv = [t \in Txns |-> [cat |-> None, rev |-> FALSE, sub |-> FALSE]]
    /\ running = FALSE
    /\ applied \in Filters
    /\ hide \in {FALSE, ~applied.statement}
    /\ appliedOnce = (applied # NoFilters)
    /\ selected = {}
    /\ modal = None
    /\ lists = [k \in Keys |-> None]
    /\ fetch = [k \in Keys |-> IF k = Key /\ appliedOnce THEN Asked ELSE None]
    /\ behind = {}
    /\ req = [r \in Requests |-> None]
    /\ status = "idle" /\ poll = None /\ was = FALSE
    /\ scope \in Scopes

-----------------------------------------------------------------------------
(* The query ['transactions', ...] *)

\* A list that is mounted, by new filters or by the first ones, is asked for
\* again, unless its answer is on its way already.
Mount(k, on) == fetch' = [fetch EXCEPT ![k] = IF on /\ @ = None THEN Asked ELSE @]

\* An answer on its way that an invalidation does not replace: of a list that is
\* not mounted, or the first one that the page waits for.
Kept(k) == fetch[k] \notin {None, Asked} /\ (k # Key \/ ~appliedOnce \/ lists[k] = None)

\* invalidateQueries asks for the mounted list anew.
Invalidate ==
    /\ fetch' = [fetch EXCEPT ![Key] = IF appliedOnce /\ ~Kept(Key) THEN Asked ELSE @]
    /\ behind' = behind \cup {k \in Keys : Kept(k)}

Refetch ==
    /\ Click("refetch")
    /\ appliedOnce
    /\ Mount(Key, TRUE)
    /\ UNCHANGED <<srv, pageVars, lists, behind, req, jobVars>>

Read(k) ==
    /\ fetch[k] = Asked
    /\ fetch' = [fetch EXCEPT ![k] = Answer(k)]
    /\ behind' = behind \ {k}
    /\ UNCHANGED <<srv, pageVars, lists, req, jobVars, scope>>

Receive(k) ==
    /\ fetch[k] \notin {None, Asked}
    /\ lists' = [lists EXCEPT ![k] = fetch[k]]
    /\ fetch' = [fetch EXCEPT ![k] = None]
    /\ UNCHANGED <<srv, pageVars, behind, req, jobVars, scope>>

\* After the last retry the page says so and keeps the rows it has.
Fail(k) ==
    /\ Click("fail")
    /\ fetch[k] = Asked
    /\ fetch' = [fetch EXCEPT ![k] = None]
    /\ behind' = behind \cup {k}
    /\ UNCHANGED <<srv, pageVars, lists, req, jobVars>>

-----------------------------------------------------------------------------
(* Filters and selection *)

\* handleApply, of a draft that TransactionFilters keeps; the effects write the
\* filters to the URL.
Apply ==
    /\ Click("filter")
    /\ applied' \in Filters
    /\ appliedOnce' = TRUE
    /\ selected' = {}
    /\ Mount(KeyOf(applied', hide), KeyOf(applied', hide) # Key \/ ~appliedOnce)
    /\ UNCHANGED <<srv, hide, modal, lists, behind, req, jobVars>>

Clear ==
    /\ Click("filter")
    /\ applied # NoFilters
    /\ applied' = NoFilters
    /\ appliedOnce' = FALSE
    /\ selected' = {}
    /\ UNCHANGED <<srv, hide, modal, lists, fetch, behind, req, jobVars>>

\* The button that shows or hides the reconciled rows keeps the selection.
ToggleHide ==
    /\ Click("filter")
    /\ appliedOnce
    /\ hide' = ~hide
    /\ Mount(KeyOf(applied, ~hide), TRUE)
    /\ UNCHANGED <<srv, applied, appliedOnce, selected, modal, lists, behind, req, jobVars>>

\* What the URL says of the page, and the page that is loaded from it. Hidden
\* reconciled rows are the default that the URL does not mention, except that
\* the page shows them when it finds a statement.
URL == [filters |-> applied, shown |-> ~hide]

Reload ==
    /\ Click("reload")
    /\ applied' = URL.filters
    /\ hide' = (~URL.shown /\ ~applied'.statement)
    /\ appliedOnce' = (applied' # NoFilters)
    /\ selected' = {}
    /\ modal' = None
    /\ lists' = [k \in Keys |-> None]
    /\ fetch' = [k \in Keys |-> IF k = KeyOf(applied', hide') /\ appliedOnce' THEN Asked ELSE None]
    /\ behind' = {}
    /\ req' = [r \in Requests |-> IF req[r] # None /\ req[r].stage = "sent"
                                  THEN Staged(req[r], "orphan") ELSE None]
    /\ status' = "idle" /\ poll' = Asked /\ was' = FALSE
    /\ UNCHANGED <<srv, running>>

Select(t) ==
    /\ Click("select")
    /\ t \in View
    /\ selected' = IF t \in selected THEN selected \ {t} ELSE selected \cup {t}
    /\ UNCHANGED <<srv, applied, hide, appliedOnce, modal, lists, fetch, behind, req, jobVars>>

\* The cross of the bar.
ClearSelection ==
    /\ Click("select")
    /\ selected # {}
    /\ selected' = {}
    /\ UNCHANGED <<srv, applied, hide, appliedOnce, modal, lists, fetch, behind, req, jobVars>>

\* toggleSelectAll compares the numbers of rows.
SelectAll ==
    /\ Click("select")
    /\ View # {}
    /\ selected' = IF Cardinality(selected) = Cardinality(View) THEN {} ELSE View
    /\ UNCHANGED <<srv, applied, hide, appliedOnce, modal, lists, fetch, behind, req, jobVars>>

-----------------------------------------------------------------------------
(* Changes *)

Reviewed(row)       == [cat |-> row.cat, rev |-> TRUE, sub |-> row.sub]
Categorised(row, c) == [cat |-> c, rev |-> TRUE, sub |-> row.sub]
Linked(row, on)     == [cat |-> row.cat, rev |-> row.rev, sub |-> on]

Change(m, row) ==
    CASE m.kind \in {"review", "reviewBulk"} -> Reviewed(row)
      [] m.kind \in {"cat", "catBulk"}       -> Categorised(row, m.cat)
      [] m.kind \in {"link", "create"}       -> Linked(row, TRUE)
      [] m.kind = "unlink"                   -> Linked(row, FALSE)

Changed(m, rows) == [t \in DOMAIN rows |-> IF t \in m.hashes THEN Change(m, rows[t]) ELSE rows[t]]

Pending(kind) == \E r \in Requests : req[r] # None /\ req[r].kind = kind /\ req[r].stage # "orphan"

Send(r, kind, hashes, c, before) ==
    /\ Free(r)
    /\ hashes # {}
    /\ req' = [req EXCEPT ![r] = Sent(kind, hashes, c, before)]

\* onMutate: all lists of transactions are cancelled, kept and changed.
Optimistic(r, kind, hashes, c) ==
    /\ Send(r, kind, hashes, c, lists)
    /\ fetch' = [k \in Keys |-> None]
    /\ behind' = behind \cup {k \in Keys \ {Key} : fetch[k] # None}
    /\ lists' = [k \in Keys |-> IF lists[k] = None THEN None
                             ELSE Changed(Sent(kind, hashes, c, lists), lists[k])]
    /\ UNCHANGED <<srv, pageVars, jobVars>>

MarkReviewed(r) ==
    \E t \in View : Click("row") /\ ~All[t].rev /\ Optimistic(r, "review", {t}, None)

SetCategory(r) ==
    \E t \in View, c \in Cats \cup {None} : Click("row") /\ Optimistic(r, "cat", {t}, c)

\* handleReviewAll, and the button of the bar that a selection opens.
ReviewAll(r) ==
    /\ Click("bulk")
    /\ ~Pending("reviewBulk")
    /\ Optimistic(r, "reviewBulk", {t \in View : ~All[t].rev}, None)

BatchMarkReviewed(r) ==
    /\ Click("bulk")
    /\ ~Pending("reviewBulk")
    /\ Optimistic(r, "reviewBulk", selected, None)

BatchSetCategory(r) ==
    /\ Click("bulk")
    /\ ~Pending("catBulk")
    /\ \E c \in Cats \cup {None} : Optimistic(r, "catBulk", selected, c)

\* The modal of a row, or of the bar; with two rows selected it links those.
OpenLink ==
    /\ Click("link")
    /\ \E t \in {x \in View \ Credits : ~All[x].sub} \cup (selected \cap DOMAIN All) : modal' = t
    /\ UNCHANGED <<srv, applied, hide, appliedOnce, selected, lists, fetch, behind, req, jobVars>>

CloseLink ==
    /\ modal # None
    /\ modal' = None
    /\ UNCHANGED <<srv, applied, hide, appliedOnce, selected, lists, fetch, behind, req, jobVars, scope>>

Link(r) ==
    /\ Click("link")
    /\ modal # None
    /\ Send(r, "link", IF Cardinality(selected) > 1 THEN selected ELSE {modal}, None, None)
    /\ UNCHANGED <<srv, pageVars, lists, fetch, behind, jobVars>>

Unlink(r) ==
    /\ Click("link")
    /\ \E t \in View \ Credits : All[t].sub /\ Send(r, "unlink", {t}, None, None)
    /\ UNCHANGED <<srv, pageVars, lists, fetch, behind, jobVars>>

\* CreateFromTransactionModal: a new subscription, and the link to it.
Create(r) ==
    /\ Click("link")
    /\ \E t \in View \ Credits : ~All[t].sub /\ Send(r, "create", {t}, None, None)
    /\ UNCHANGED <<srv, pageVars, lists, fetch, behind, jobVars>>

\* What is written for a page that was reloaded, or that takes it for a failure
\* and does not ask again, is nothing it knows of.
Untold(r, answered) ==
    \/ req[r].stage = "orphan"
    \/ ~answered /\ req[r].kind \in LinkKinds

\* The server writes all rows of a change or none; the answer may be lost.
Serve(r) ==
    /\ req[r] # None /\ req[r].stage \in {"sent", "orphan"}
    /\ \E written \in BOOLEAN, answered \in BOOLEAN :
        /\ answered => written
        /\ srv' = IF written THEN Changed(req[r], srv) ELSE srv
        /\ behind' = IF written /\ Untold(r, answered) THEN Keys ELSE behind
        /\ req' = [req EXCEPT ![r] = IF @.stage = "orphan" THEN None
                                     ELSE Staged(@, IF answered THEN "done" ELSE "failed")]
    /\ UNCHANGED <<pageVars, lists, fetch, jobVars, scope>>

Restored(before) == [k \in Keys |-> IF before[k] = None THEN lists[k] ELSE before[k]]

\* onError and onSettled of the optimistic changes.
Settle(r) ==
    /\ req[r] # None /\ req[r].stage \in {"done", "failed"} /\ req[r].kind \notin LinkKinds
    /\ lists' = IF req[r].stage = "failed" THEN Restored(req[r].before) ELSE lists
    /\ Invalidate
    /\ selected' = IF req[r].kind \in {"reviewBulk", "catBulk"} THEN {} ELSE selected
    /\ req' = [req EXCEPT ![r] = None]
    /\ UNCHANGED <<srv, applied, hide, appliedOnce, modal, jobVars, scope>>

\* onSuccess of the links; a failure leaves the modal as it is.
SettleLink(r) ==
    /\ req[r] # None /\ req[r].stage \in {"done", "failed"} /\ req[r].kind \in LinkKinds
    /\ IF req[r].stage = "done"
       THEN /\ Invalidate
            /\ IF req[r].kind = "link" THEN modal' = None /\ selected' = {} ELSE UNCHANGED <<modal, selected>>
       ELSE UNCHANGED <<fetch, behind, modal, selected>>
    /\ req' = [req EXCEPT ![r] = None]
    /\ UNCHANGED <<srv, applied, hide, appliedOnce, lists, jobVars, scope>>

-----------------------------------------------------------------------------
(* The categorisation job *)

\* startJobMutation: accepted, or refused because a job is running; both ask
\* for the status.
StartJob ==
    /\ Click("job")
    /\ status = "idle"
    /\ running \/ \E t \in Txns : srv[t].cat = None
    /\ running' = TRUE
    /\ poll' = Asked
    /\ UNCHANGED <<srv, pageVars, lists, fetch, behind, req, status, was>>

CancelJob ==
    /\ Click("job")
    /\ status = "running"
    /\ running' = FALSE
    /\ poll' = Asked
    /\ UNCHANGED <<srv, pageVars, lists, fetch, behind, req, status, was>>

\* A job of another page or of the worker; what a job writes; its end.
OtherStarts ==
    /\ Click("other")
    /\ ~running /\ \E t \in Txns : srv[t].cat = None
    /\ running' = TRUE
    /\ UNCHANGED <<srv, pageVars, lists, fetch, behind, req, status, poll, was>>

JobWrites ==
    /\ running
    /\ \E t \in Txns, c \in Cats : srv[t].cat = None /\ srv' = [srv EXCEPT ![t] = Categorised(@, c)]
    /\ behind' = IF status = "running" THEN behind ELSE Keys
    /\ UNCHANGED <<pageVars, lists, fetch, req, jobVars, scope>>

JobEnds ==
    /\ running
    /\ running' = FALSE
    /\ UNCHANGED <<srv, pageVars, lists, fetch, behind, req, status, poll, was, scope>>

\* refetchInterval: every 1.5 seconds as long as the cached status is running.
Poll ==
    /\ status = "running" /\ poll = None
    /\ poll' = Asked
    /\ UNCHANGED <<srv, pageVars, lists, fetch, behind, req, running, status, was, scope>>

ReadStatus ==
    /\ poll = Asked
    /\ poll' = IF running THEN "running" ELSE "idle"
    /\ UNCHANGED <<srv, pageVars, lists, fetch, behind, req, running, status, was, scope>>

\* The effect on jobStatus: after a run it saw the page asks for its list again.
ReceiveStatus ==
    /\ poll \in {"running", "idle"}
    /\ status' = poll
    /\ poll' = None
    /\ was' = (poll = "running")
    /\ IF poll = "idle" /\ was THEN Invalidate ELSE UNCHANGED <<fetch, behind>>
    /\ UNCHANGED <<srv, pageVars, lists, req, running, scope>>

-----------------------------------------------------------------------------
Next ==
    \/ \E k \in Keys : Read(k) \/ Receive(k) \/ Fail(k)
    \/ Refetch \/ Apply \/ Clear \/ ToggleHide \/ Reload \/ SelectAll \/ ClearSelection
    \/ \E t \in Txns : Select(t)
    \/ \E r \in Requests :
        \/ MarkReviewed(r) \/ SetCategory(r) \/ ReviewAll(r) \/ BatchMarkReviewed(r)
        \/ BatchSetCategory(r) \/ Link(r) \/ Unlink(r) \/ Create(r)
        \/ Serve(r) \/ Settle(r) \/ SettleLink(r)
    \/ OpenLink \/ CloseLink
    \/ StartJob \/ CancelJob \/ OtherStarts \/ JobWrites \/ JobEnds
    \/ Poll \/ ReadStatus \/ ReceiveStatus

Spec == Init /\ [][Next]_vars

-----------------------------------------------------------------------------
(* Properties *)

TypeOK ==
    /\ srv \in [Txns -> Row]
    /\ applied \in Filters /\ hide \in BOOLEAN /\ appliedOnce \in BOOLEAN
    /\ selected \subseteq Txns /\ modal \in Txns \cup {None}
    /\ lists \in [Keys -> Lists \cup {None}] /\ fetch \in [Keys -> Lists \cup {None, Asked}]
    /\ DOMAIN req = Requests
    /\ \A r \in Requests : req[r] = None \/ \E kind \in Kinds : req[r] \in Call(kind)
    /\ behind \subseteq Keys
    /\ status \in {"idle", "running"} /\ poll \in {None, Asked, "idle", "running"}
    /\ running \in BOOLEAN /\ was = (status = "running")

\* Nothing of the page is under way.
Quiet ==
    /\ appliedOnce /\ fetch[Key] = None
    /\ \A r \in Requests : req[r] = None \/ req[r].stage = "orphan"
    /\ status = "idle"

\* Once nothing of the page is under way its list is the server's, whatever
\* optimistic changes, rollbacks, refetches, filters and jobs crossed each other,
\* unless something was written that the page was not told of: by a job it never
\* saw running, or by a request whose answer it did not get; or the list was on
\* its way when it was told of it, and that did not ask for it again (Kept)
\* (TransactionsPage.tsx:173-226, 270-287, 464-518).
QuietShowsServer == Quiet /\ Key \notin behind => All = Answer(Key)

=============================================================================
