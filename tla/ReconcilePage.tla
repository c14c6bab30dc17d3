---------------------------- MODULE ReconcilePage ----------------------------
(* The page that joins transactions to internal transfers: the suggestions   *)
(* of a window of days with their check marks, the manual pair, and the list *)
(* of what is joined. A batch is one request per pair, all at once: the      *)
(* first refusal ends it for the page while the others go on.                *)
EXTENDS Naturals, FiniteSets

CONSTANTS Debits, Credits, Windows, Requests, None, Asked,
          Close,     \* Close[w]: the pairs within the window w
          Scopes     \* the kinds of clicks a behaviour is about, and how many
                     \* there are of them (a bound)

VARIABLES
    joined,      \* the stored reconciliations, <<settlement, target>>
    tab,         \* activeTab
    window,      \* matchWindowDays
    searching,   \* the search leaves but those of Found
    deselected,  \* deselectedHashes, of the debits
    manual,      \* the debit and the credit selected by hand, or None
    cache, fetch, \* of each query: the last answer; None, Asked or the answer on its way
    behind,      \* queries whose answer misses something the page was not told of
    req,         \* req[r]: a batch, or the deletion of a pair
    scope

server == joined
view   == <<tab, window, searching, deselected, manual>>
vars   == <<joined, view, cache, fetch, behind, req, scope>>

Pairs == Debits \X Credits
Batch == [kind : {"join", "delete"}, sent : SUBSET Pairs, written : BOOLEAN, refused : BOOLEAN, settled : BOOLEAN]
Tabs  == {"suggestions", "manual", "history"}
Keys  == {"unreconciled", "history"} \cup Windows

\* The query of the open tab; the others are disabled.
Used(t, w) == CASE t = "suggestions" -> w [] t = "manual" -> "unreconciled" [] t = "history" -> "history"

Taken == UNION {{p[1], p[2]} : p \in joined}
Open  == (Debits \cup Credits) \ Taken

\* Greedy: each debit with the first close credit that is left. Of the orders
\* the transactions may come in, one that leaves no free pair unsuggested.
Suggested(w) ==
    LET Free == {p \in Close[w] : p[1] \in Open /\ p[2] \in Open} IN
    {S \in SUBSET Free :
        /\ \A p, q \in S : p # q => p[1] # q[1] /\ p[2] # q[2]
        /\ \A p \in Free : \E q \in S : p[1] = q[1] \/ p[2] = q[2]}

Answers(k) ==
    CASE k = "unreconciled" -> {Open}
      [] k = "history"      -> {joined}
      [] OTHER              -> Suggested(k)

Shown(k) == IF cache[k] = None THEN {} ELSE cache[k]

Click(kind) ==
    /\ kind \in scope.clicks /\ scope.left > 0
    /\ scope' = [scope EXCEPT !.left = @ - 1]

Init ==
    /\ scope \in Scopes
    /\ joined = {}
    /\ tab = "suggestions" /\ window \in Windows /\ searching = {}
    /\ deselected = {} /\ manual = <<None, None>>
    /\ cache = [k \in Keys |-> None]
    /\ fetch = [k \in Keys |-> IF k = window THEN Asked ELSE None]
    /\ behind = {}
    /\ req = [r \in Requests |-> None]

-----------------------------------------------------------------------------
Read(k) ==
    /\ fetch[k] = Asked
    /\ \E answer \in Answers(k) : fetch' = [fetch EXCEPT ![k] = answer]
    /\ behind' = behind \ {k}
    /\ UNCHANGED <<joined, view, cache, req, scope>>

Receive(k) ==
    /\ fetch[k] \notin {None, Asked}
    /\ cache' = [cache EXCEPT ![k] = fetch[k]]
    /\ fetch' = [fetch EXCEPT ![k] = None]
    /\ UNCHANGED <<joined, view, behind, req, scope>>

Enable(t, w) == fetch' = [fetch EXCEPT ![Used(t, w)] = IF @ = None THEN Asked ELSE @]

OpenTab ==
    /\ Click("tab")
    /\ \E t \in Tabs \ {tab} : tab' = t /\ Enable(t, window)
    /\ UNCHANGED <<joined, window, searching, deselected, manual, cache, behind, req>>

ChangeWindow ==
    /\ Click("window") /\ tab = "suggestions"
    /\ \E w \in Windows \ {window} : window' = w /\ Enable(tab, w)
    /\ UNCHANGED <<joined, tab, searching, deselected, manual, cache, behind, req>>

-----------------------------------------------------------------------------
(* Suggestions *)

\* The search hides debits; what it hides stays selected.
Search ==
    /\ Click("search") /\ tab = "suggestions"
    /\ searching' \in SUBSET Debits
    /\ UNCHANGED <<joined, tab, window, deselected, manual, cache, fetch, behind, req>>

Filtered == {p \in Shown(window) : p[1] \notin searching}

Toggle ==
    /\ Click("select") /\ tab = "suggestions"
    /\ \E p \in Filtered :
        deselected' = IF p[1] \in deselected THEN deselected \ {p[1]} ELSE deselected \cup {p[1]}
    /\ UNCHANGED <<joined, tab, window, searching, manual, cache, fetch, behind, req>>

ToggleAll ==
    /\ Click("select") /\ tab = "suggestions"
    /\ LET visible == {p[1] : p \in Filtered} IN
       deselected' = IF visible \cap deselected = {} THEN deselected \cup visible ELSE deselected \ visible
    /\ UNCHANGED <<joined, tab, window, searching, manual, cache, fetch, behind, req>>

PairsToLink == {p \in Shown(window) : p[1] \notin deselected}

-----------------------------------------------------------------------------
(* Mutations *)

Free(r) == req[r] = None /\ \A q \in Requests : req[q] = None => r <= q
Pending == \E r \in Requests : req[r] # None /\ req[r].kind = "join" /\ ~req[r].settled

\* One call per pair of the batch.
Send(r, kind, pairs) ==
    /\ Free(r)
    /\ req' = [req EXCEPT ![r] = [kind |-> kind, sent |-> pairs,
                                  written |-> FALSE, refused |-> FALSE, settled |-> FALSE]]
    /\ UNCHANGED <<joined, tab, window, searching, deselected, cache, fetch, behind>>

LinkSuggested(r) ==
    /\ Click("link") /\ tab = "suggestions"
    /\ ~Pending /\ PairsToLink # {}
    /\ Send(r, "join", PairsToLink)
    /\ UNCHANGED manual

Pick ==
    /\ Click("manual") /\ tab = "manual"
    /\ \E t \in Shown("unreconciled") :
        manual' = IF t \in Debits THEN <<t, manual[2]>> ELSE <<manual[1], t>>
    /\ UNCHANGED <<joined, tab, window, searching, deselected, cache, fetch, behind, req>>

\* The picked pair, whether or not the list still has it.
LinkManual(r) ==
    /\ Click("link") /\ tab = "manual"
    /\ ~Pending /\ None \notin {manual[1], manual[2]}
    /\ Send(r, "join", {manual})
    /\ UNCHANGED manual

Unjoin(r) ==
    /\ Click("link") /\ tab = "history"
    /\ \E p \in Shown("history") : Send(r, "delete", {p})
    /\ UNCHANGED manual

After(m, p, written, answered) ==
    [kind |-> m.kind, sent |-> m.sent \ {p}, written |-> m.written \/ written,
     refused |-> m.refused \/ ~answered, settled |-> m.settled]

\* ReconcileStatements refuses what is taken; any call may fail, or be written
\* and lose its answer.
Serve(r) ==
    /\ req[r] # None
    /\ \E p \in req[r].sent, written \in BOOLEAN, answered \in BOOLEAN :
        /\ answered => written
        /\ written => IF req[r].kind = "join" THEN {p[1], p[2]} \subseteq Open ELSE p \in joined
        /\ joined' = IF ~written THEN joined ELSE IF req[r].kind = "join" THEN joined \cup {p} ELSE joined \ {p}
        /\ req' = [req EXCEPT ![r] = After(@, p, written, answered)]
        /\ behind' = IF written /\ req[r].settled THEN Keys ELSE behind
    /\ UNCHANGED <<view, cache, fetch, scope>>

\* An answer on its way that an invalidation does not replace: of a query that
\* the open tab does not use, or the first one that it waits for.
Kept(k) == fetch[k] \notin {None, Asked} /\ (k # Used(tab, window) \/ cache[k] = None)

\* handleSuccess: the open tab is asked for anew.
HandleSuccess ==
    /\ fetch' = [fetch EXCEPT ![Used(tab, window)] = IF Kept(Used(tab, window)) THEN @ ELSE Asked]
    /\ behind' = behind \cup {k \in Keys : Kept(k)}

\* Promise.all: done with the last call.
Linked(r) ==
    /\ req[r] # None /\ req[r].sent = {} /\ ~req[r].refused
    /\ HandleSuccess
    /\ IF req[r].kind = "join" THEN deselected' = {} /\ manual' = <<None, None>> ELSE UNCHANGED <<deselected, manual>>
    /\ req' = [req EXCEPT ![r] = None]
    /\ UNCHANGED <<joined, tab, window, searching, cache, scope>>

\* Promise.all: refused with the first one. The page asks for nothing anew,
\* neither for what was written before nor for what will be after.
Refused(r) ==
    /\ req[r] # None /\ req[r].refused /\ ~req[r].settled
    /\ behind' = IF req[r].written THEN Keys ELSE behind
    /\ req' = [req EXCEPT ![r].settled = TRUE]
    /\ UNCHANGED <<joined, view, cache, fetch, scope>>

\* The last call of a refused batch.
Forgotten(r) ==
    /\ req[r] # None /\ req[r].settled /\ req[r].sent = {}
    /\ req' = [req EXCEPT ![r] = None]
    /\ UNCHANGED <<joined, view, cache, fetch, behind, scope>>

-----------------------------------------------------------------------------
Next ==
    \/ \E k \in Keys : Read(k) \/ Receive(k)
    \/ OpenTab \/ ChangeWindow \/ Search \/ Toggle \/ ToggleAll \/ Pick
    \/ \E r \in Requests :
        \/ LinkSuggested(r) \/ LinkManual(r) \/ Unjoin(r)
        \/ Serve(r) \/ Linked(r) \/ Refused(r) \/ Forgotten(r)

Spec == Init /\ [][Next]_vars

-----------------------------------------------------------------------------
(* Properties *)

Fits(k, answer) == answer \subseteq (IF k = "unreconciled" THEN Debits \cup Credits ELSE Pairs)

TypeOK ==
    /\ joined \subseteq Pairs
    /\ tab \in Tabs /\ window \in Windows /\ searching \subseteq Debits /\ deselected \subseteq Debits
    /\ manual \in (Debits \cup {None}) \X (Credits \cup {None})
    /\ behind \subseteq Keys /\ DOMAIN cache = Keys /\ DOMAIN fetch = Keys /\ DOMAIN req = Requests
    /\ \A k \in Keys : /\ cache[k] = None \/ Fits(k, cache[k])
                       /\ fetch[k] \in {None, Asked} \/ Fits(k, fetch[k])
    /\ \A r \in Requests : req[r] = None \/ req[r] \in Batch

\* Once nothing is under way the open tab shows what the server has, except, until
\* it is asked for again: after a batch of which one call failed for the page and
\* one was written, before or after; and if the answer of the tab was on its way
\* when a success invalidated it (Kept). A batch of which nothing was written
\* excuses nothing (ReconcilePage.tsx:167-199).
QuietShowsServer ==
    LET k == Used(tab, window) IN
    (\A r \in Requests : req[r] = None) /\ fetch[k] = None /\ k \notin behind => cache[k] \in Answers(k)

==============================================================================
