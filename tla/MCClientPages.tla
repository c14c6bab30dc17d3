---------------------------- MODULE MCClientPages ----------------------------
(* One instance of the five pages, with the kinds of clicks each behaviour   *)
(* is about and the state it begins in.                                      *)
EXTENDS ClientPages, TLC

CONSTANTS t1, t2, c1, m1, m2, a1, d1, d2, k1, k2, f1, f2, i1, i2, u1

SubscriptionScopes == {
    [clicks |-> {"inbox"},                        left |-> 3, queries |-> {"suggested", "declined"}],
    [clicks |-> {"go", "row", "inbox"},           left |-> 3, queries |-> {"suggested", "subs"}],
    [clicks |-> {"row", "letter"},                left |-> 3, queries |-> {"subs", "sub", "log"}],
    [clicks |-> {"go", "letter", "form"},         left |-> 4, queries |-> {"subs", "sub"}],
    [clicks |-> {"go", "link", "form", "enrich"}, left |-> 3, queries |-> {"sub", "txs", "subs", "log"}],
    [clicks |-> {"go", "link"},                   left |-> 5, queries |-> {"sub", "txs", "subs"}]}

PageScopes == {
    [clicks |-> {"filter", "row", "bulk", "select"}, left |-> 3, open |-> {"plain", "statement"}],
    [clicks |-> {"job", "other", "row", "refetch"},  left |-> 3, open |-> {"statement"}],
    [clicks |-> {"job", "other", "bulk", "select"},  left |-> 3, open |-> {"bookmark"}],
    [clicks |-> {"reload", "filter", "link", "fail"}, left |-> 3, open |-> {"plain", "statement"}],
    [clicks |-> {"link", "row", "select", "fail"},   left |-> 3, open |-> {"bookmark"}]}

PairScopes == {
    [clicks |-> {"tab", "window", "search", "select"}, left |-> 3],
    [clicks |-> {"tab", "manual", "link"},             left |-> 4],
    [clicks |-> {"select", "link", "window"},          left |-> 3]}

FileScopes == {
    [clicks |-> {"import", "delete"},  left |-> 3],
    [clicks |-> {"preview", "delete"}, left |-> 3]}

BillScopes == {
    [clicks |-> {"filter", "row", "bulk", "select"},   left |-> 3, open |-> "all"],
    [clicks |-> {"row", "form", "preview", "delete"},  left |-> 3, open |-> "all"],
    [clicks |-> {"import", "form", "filter", "fail"},  left |-> 3, open |-> "mine"],
    [clicks |-> {"share", "row", "delete", "refetch"}, left |-> 3, open |-> "all"]}

\* A wider window has one more pair for the first debit to be suggested with.
Closeness == "w7" :> {<<d1, k1>>, <<d2, k2>>} @@ "w30" :> {<<d1, k1>>, <<d2, k2>>, <<d1, k2>>}

-----------------------------------------------------------------------------
\* The subscriptions a behaviour begins with: none for the inbox alone, one for
\* the list and the inbox, else two. Each has an account, or no form of it could
\* be saved.
SomeSubscriptions ==
    /\ Tracked = CASE "subs" \notin scope.queries -> {} [] "inbox" \in scope.clicks -> {1} [] OTHER -> Subs
    /\ \A s \in Tracked : subs[s].of = m1 /\ subs[s].account = a1
    /\ \A t \in Txns : link[t] \in {None, 1}

\* The page of transactions is opened as such, from a statement, or from a
\* bookmark that shows all uncategorised rows.
Opened(how) ==
    CASE how = "plain"     -> applied = Transactions!NoFilters /\ hide
      [] how = "statement" -> applied = [Transactions!NoFilters EXCEPT !.statement = TRUE] /\ ~hide
      [] how = "bookmark"  -> applied = [Transactions!NoFilters EXCEPT !.category = "open"] /\ ~hide

\* An invoice of the user's, and one that is shared with them or, in a
\* behaviour with imports, is not there yet.
SomeInvoices ==
    /\ applied = [source |-> scope.open, category |-> "all"]
    /\ srv[i1] \in {[mine |-> TRUE, cat |-> None, split |-> s] : s \in BOOLEAN}
    /\ srv[i2] \in {None, [mine |-> FALSE, cat |-> None, split |-> TRUE]}
    /\ srv[i1].split => "form" \in scope.clicks
    /\ srv[i2] = None <=> "import" \in scope.clicks

Start ==
    /\ part = "subscriptions" => SomeSubscriptions
    /\ part = "transactions"  => \E how \in scope.open : Opened(how)
    /\ part = "invoices"      => SomeInvoices

InitStarted == InitAll /\ Start
SpecStarted == InitStarted /\ [][NextAll]_allVars

==============================================================================
