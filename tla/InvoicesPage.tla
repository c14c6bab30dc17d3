----------------------------- MODULE InvoicesPage -----------------------------
(* The page of invoices: one cached list per source, filters, imports by     *)
(* file and by form, optimistic changes of a row and of a selection, the     *)
(* modals that preview, edit and share, and what late answers do to them.    *)
(* Of an invoice the category, its splits (there or not) and whether it is   *)
(* the user's own or shared with them are kept.                              *)
EXTENDS Naturals, FiniteSets

CONSTANTS Invoices, Cats, Users, Requests, None, Asked, Gone,
          Scopes     \* the kinds of clicks a behaviour is about, and how many
                     \* there are of them (a bound)

VARIABLES
    srv,       \* srv[i]: the invoice on the server, None before and Gone after its time
    shares,    \* shares[i]: whom the user shares it with
    applied,   \* appliedFilters
    selected,  \* selectedIds
    editing, sharing, manual,  \* editingInvoice, sharingInvoice, showManualImport
    preview,   \* previewingInvoice and its previewInfo
    loading,   \* isPreviewLoading
    lists,     \* lists[k]: the cached answer of the query k, or None
    fetch,     \* fetch[k]: None, Asked, or the answer on its way
    behind,    \* queries whose answer misses something the page does not ask for
    req,       \* req[r]: a call on its way, with what it would restore and where
    scope

server == <<srv, shares>>
modals == <<editing, sharing, manual, preview, loading>>
cached == <<lists, fetch, behind>>
vars   == <<server, applied, selected, modals, cached, req, scope>>

Row     == [mine : BOOLEAN, cat : Cats \cup {None}, split : BOOLEAN]
Sources == {"all", "mine", "shared"}
Filters == [source : Sources, category : Cats \cup {"all", "open"}]

Lists   == UNION {[T -> Row] : T \in SUBSET Invoices}

Exists(i) == srv[i] \notin {None, Gone}

\* The queries ['invoices', source] and ['invoice-shares', id].
Keys    == Sources \cup Invoices
Mounted == {applied.source} \cup ({sharing} \ {None})

\* The splits of another user's invoice stay with its owner.
Visible(row) == [mine |-> row.mine, cat |-> row.cat, split |-> row.split /\ row.mine]
Listed(source) ==
    LET shown == {i \in Invoices : Exists(i) /\ (source = "all" \/ (source = "mine") = srv[i].mine)}
    IN  [i \in shown |-> Visible(srv[i])]

Answer(k) == IF k \in Sources THEN Listed(k) ELSE shares[k]
Known(k)  == k \in Invoices => Exists(k)

\* invoices and filtered.
All == IF lists[applied.source] = None THEN << >> ELSE lists[applied.source]

Passes(f, row) ==
    /\ f.category = "open" => row.cat = None
    /\ f.category \in Cats => row.cat = f.category
    /\ f.source # "all" => row.mine = (f.source = "mine")

View == {i \in DOMAIN All : Passes(applied, All[i])}

Click(kind) ==
    /\ kind \in scope.clicks /\ scope.left > 0
    /\ scope' = [scope EXCEPT !.left = @ - 1]

\* No modal covers the table.
Uncovered == editing = None /\ sharing = None /\ ~manual /\ preview = None

Init ==
    /\ scope \in Scopes
    /\ srv \in [Invoices -> Row \cup {None}]
    /\ shares = [i \in Invoices |-> {}]
    /\ applied \in Filters
    /\ selected = {}
    /\ editing = None /\ sharing = None /\ manual = FALSE /\ preview = None /\ loading = None
    /\ lists = [k \in Keys |-> None]
    /\ fetch = [k \in Keys |-> IF k = applied.source THEN Asked ELSE None]
    /\ behind = {}
    /\ req = [r \in Requests |-> None]

-----------------------------------------------------------------------------
(* The queries *)

Mount(k) == fetch' = [fetch EXCEPT ![k] = IF @ = None THEN Asked ELSE @]

\* An answer on its way that an invalidation does not replace: of a query that is
\* not mounted, or the first one that the page waits for.
Kept(k) == fetch[k] \notin {None, Asked} /\ (k \notin Mounted \/ lists[k] = None)

\* invalidateQueries asks for what is mounted anew.
Invalidate(ks) ==
    /\ fetch' = [k \in Keys |-> IF k \in ks \cap Mounted /\ ~Kept(k) THEN Asked ELSE fetch[k]]
    /\ behind' = behind \cup {k \in ks : Kept(k)}

Refetch ==
    /\ Click("refetch")
    /\ Mount(applied.source)
    /\ UNCHANGED <<server, applied, selected, modals, lists, behind, req>>

Read(k) ==
    /\ fetch[k] = Asked /\ Known(k)
    /\ fetch' = [fetch EXCEPT ![k] = Answer(k)]
    /\ behind' = behind \ {k}
    /\ UNCHANGED <<server, applied, selected, modals, lists, req, scope>>

Receive(k) ==
    /\ fetch[k] \notin {None, Asked}
    /\ lists' = [lists EXCEPT ![k] = fetch[k]]
    /\ fetch' = [fetch EXCEPT ![k] = None]
    /\ UNCHANGED <<server, applied, selected, modals, behind, req, scope>>

\* The participants of a deleted invoice are refused; any query may fail.
Fail(k) ==
    /\ fetch[k] = Asked
    /\ Known(k) => Click("fail")
    /\ ~Known(k) => UNCHANGED scope
    /\ fetch' = [fetch EXCEPT ![k] = None]
    /\ behind' = behind \cup {k}
    /\ UNCHANGED <<server, applied, selected, modals, lists, req>>

\* of: the invoices a call is about; data: the fields it writes, of which the
\* splits may be left alone, or a user; before: the list it would restore.
Kinds   == {"update", "bulk", "delete", "import", "manual", "preview", "share", "revoke"}
Forms   == [cat : Cats \cup {None}, split : BOOLEAN]
Changes == [cat : Cats \cup {None}, split : BOOLEAN \cup {None}]
Data(kind) == IF kind \in {"update", "bulk"} THEN Changes
              ELSE IF kind = "manual" THEN Forms
              ELSE IF kind \in {"share", "revoke"} THEN Users ELSE {None}
Call(kind) == [kind : {kind}, of : SUBSET Invoices, data : Data(kind), before : Lists \cup {None},
               at : Sources, watched : BOOLEAN, stage : {"sent", "done", "failed"}]

Sent(kind, of, data, before) ==
    [kind |-> kind, of |-> of, data |-> data, before |-> before,
     at |-> applied.source, watched |-> TRUE, stage |-> "sent"]
Unwatched(m)       == [m EXCEPT !.watched = FALSE]
Moved(m, source)   == [m EXCEPT !.at = source]
Answered(m, stage) == [m EXCEPT !.stage = stage]

-----------------------------------------------------------------------------
(* Filters and selection *)

\* handleApplyFilters and clearFilters. A mutation that the page still watches
\* gets the callbacks of the latest rendering, and with them the source its
\* rollback goes to; an earlier one keeps those it had.
Apply ==
    /\ Click("filter") /\ Uncovered
    /\ applied' \in Filters \ {applied}
    /\ selected' = {}
    /\ IF applied'.source = applied.source THEN UNCHANGED fetch ELSE Mount(applied'.source)
    /\ req' = [r \in Requests |-> IF req[r] # None /\ req[r].watched
                                  THEN Moved(req[r], applied'.source) ELSE req[r]]
    /\ UNCHANGED <<server, modals, lists, behind>>

Select(i) ==
    /\ Click("select") /\ Uncovered
    /\ i \in View
    /\ selected' = IF i \in selected THEN selected \ {i} ELSE selected \cup {i}
    /\ UNCHANGED <<server, applied, modals, cached, req>>

SelectAll ==
    /\ Click("select") /\ Uncovered
    /\ View # {}
    /\ selected' = IF Cardinality(selected) = Cardinality(View) THEN {} ELSE View
    /\ UNCHANGED <<server, applied, modals, cached, req>>

ClearSelection ==
    /\ Click("select") /\ Uncovered
    /\ selected # {}
    /\ selected' = {}
    /\ UNCHANGED <<server, applied, modals, cached, req>>

-----------------------------------------------------------------------------
(* Calls *)

Free(r)       == req[r] = None /\ \A q \in Requests : req[q] = None => r <= q
Calls(kind)   == {r \in Requests : req[r] # None /\ req[r].kind = kind}
Pending(kind) == \E r \in Calls(kind) : req[r].watched

Send(r, kind, of, data, before) ==
    /\ Free(r)
    /\ req' = [q \in Requests |-> IF q = r THEN Sent(kind, of, data, before)
                                  ELSE IF q \in Calls(kind) THEN Unwatched(req[q])
                                  ELSE req[q]]

Patched(row, data) ==
    [mine |-> row.mine, cat |-> data.cat, split |-> IF data.split = None THEN row.split ELSE data.split]

\* onMutate: all lists are cancelled, the one of the source is kept and changed.
Optimistic(r, kind, of, data) ==
    LET before == lists[applied.source] IN
    /\ Send(r, kind, of, data, before)
    /\ fetch' = [k \in Keys |-> IF k \in Sources THEN None ELSE fetch[k]]
    /\ behind' = behind \cup {k \in Sources : fetch[k] # None}
    /\ lists' = IF before = None THEN lists
                ELSE [lists EXCEPT ![applied.source] =
                        [i \in DOMAIN before |-> IF i \in of THEN Patched(before[i], data) ELSE before[i]]]
    /\ UNCHANGED <<server, applied, selected, modals>>

\* The category of a row can be chosen in the table unless it has splits.
SetCategory(r) ==
    /\ Click("row") /\ Uncovered
    /\ \E i \in View, c \in Cats \cup {None} :
        ~All[i].split /\ Optimistic(r, "update", {i}, [cat |-> c, split |-> None])

BatchSetCategory(r) ==
    /\ Click("bulk") /\ Uncovered
    /\ selected # {} /\ ~Pending("bulk")
    /\ \E c \in Cats \cup {None} : Optimistic(r, "bulk", selected, [cat |-> c, split |-> None])

\* The forms of the edit modal and of the preview write all they show.
Save(r) ==
    /\ Click("form")
    /\ ~Pending("update")
    /\ \E i \in {editing, preview} \ {None}, data \in Forms : Optimistic(r, "update", {i}, data)

Delete(r) ==
    /\ Click("delete") /\ Uncovered
    /\ ~Pending("delete")
    /\ \E i \in View : Send(r, "delete", {i}, None, None)
    /\ UNCHANGED <<server, applied, selected, modals, cached>>

\* A file that is chosen or dropped, also while another one is imported.
Import(r) ==
    /\ Click("import") /\ Uncovered
    /\ Send(r, "import", {}, None, None)
    /\ UNCHANGED <<server, applied, selected, modals, cached>>

OpenManual ==
    /\ Click("import") /\ Uncovered
    /\ manual' = TRUE
    /\ UNCHANGED <<server, applied, selected, editing, sharing, preview, loading, cached, req>>

ManualImport(r) ==
    /\ Click("form")
    /\ manual /\ ~Pending("manual")
    /\ \E data \in Forms : Send(r, "manual", {}, data, None)
    /\ UNCHANGED <<server, applied, selected, modals, cached>>

\* handlePreview: what is shown waits for the file.
Preview(r) ==
    /\ Click("preview") /\ Uncovered
    /\ \E i \in View : loading # i /\ Send(r, "preview", {i}, None, None) /\ loading' = i
    /\ UNCHANGED <<server, applied, selected, editing, sharing, manual, preview, cached>>

OpenEdit ==
    /\ Click("form") /\ Uncovered
    /\ editing' \in View
    /\ UNCHANGED <<server, applied, selected, sharing, manual, preview, loading, cached, req>>

OpenShare ==
    /\ Click("share") /\ Uncovered
    /\ sharing' \in View
    /\ Mount(sharing')
    /\ UNCHANGED <<server, applied, selected, editing, manual, preview, loading, lists, behind, req>>

Participants == IF lists[sharing] = None THEN {} ELSE lists[sharing]

Share(r) ==
    /\ Click("share")
    /\ sharing # None /\ ~Pending("share")
    /\ \E u \in Users \ Participants : Send(r, "share", {sharing}, u, None)
    /\ UNCHANGED <<server, applied, selected, modals, cached>>

Revoke(r) ==
    /\ Click("share")
    /\ sharing # None /\ ~Pending("revoke")
    /\ \E u \in Participants : Send(r, "revoke", {sharing}, u, None)
    /\ UNCHANGED <<server, applied, selected, modals, cached>>

\* The mutations of the share modal end with it: their answers are no longer watched.
CloseModal ==
    /\ \/ editing # None /\ editing' = None /\ UNCHANGED <<sharing, manual, preview, req>>
       \/ manual /\ manual' = FALSE /\ UNCHANGED <<editing, sharing, preview, req>>
       \/ preview # None /\ preview' = None /\ UNCHANGED <<editing, sharing, manual, req>>
       \/ /\ sharing # None /\ sharing' = None
          /\ req' = [r \in Requests |-> IF r \in Calls("share") \cup Calls("revoke")
                                        THEN Unwatched(req[r]) ELSE req[r]]
          /\ UNCHANGED <<editing, manual, preview>>
    /\ UNCHANGED <<server, applied, selected, loading, cached, scope>>

-----------------------------------------------------------------------------
(* The server *)

\* A change without splits leaves those the caller can see; the repository
\* replaces all splits of the owner by them.
Updated(row, data) ==
    [mine |-> row.mine, cat |-> data.cat,
     split |-> IF data.split = None THEN row.split /\ row.mine ELSE data.split]
Filed(row, data) == [mine |-> row.mine, cat |-> data.cat, split |-> row.split]

Created(data) ==
    \E i \in Invoices :
        /\ srv[i] = None
        /\ srv' = [srv EXCEPT ![i] = [mine |-> TRUE, cat |-> data.cat, split |-> data.split]]

\* What a call does that is not refused: only own invoices are deleted or
\* categorised together, in silence for the others of a selection.
Done(m) ==
    \/ /\ m.kind = "update" /\ \A i \in m.of : Exists(i)
       /\ srv' = [i \in Invoices |-> IF i \in m.of THEN Updated(srv[i], m.data) ELSE srv[i]]
       /\ UNCHANGED shares
    \/ /\ m.kind = "bulk"
       /\ srv' = [i \in Invoices |-> IF i \in m.of /\ Exists(i) /\ srv[i].mine
                                     THEN Filed(srv[i], m.data) ELSE srv[i]]
       /\ UNCHANGED shares
    \/ /\ m.kind = "delete" /\ \A i \in m.of : Exists(i) /\ srv[i].mine
       /\ srv' = [i \in Invoices |-> IF i \in m.of THEN Gone ELSE srv[i]]
       /\ shares' = [i \in Invoices |-> IF i \in m.of THEN {} ELSE shares[i]]
    \/ m.kind = "import" /\ (\E c \in Cats \cup {None} : Created([cat |-> c, split |-> FALSE])) /\ UNCHANGED shares
    \/ m.kind = "manual" /\ Created(m.data) /\ UNCHANGED shares
    \/ m.kind = "preview" /\ (\A i \in m.of : Exists(i)) /\ UNCHANGED server
    \/ /\ m.kind = "share" /\ \A i \in m.of : Exists(i)
       /\ shares' = [i \in Invoices |-> IF i \in m.of THEN shares[i] \cup {m.data} ELSE shares[i]]
       /\ UNCHANGED srv
    \/ /\ m.kind = "revoke"
       /\ shares' = [i \in Invoices |-> IF i \in m.of THEN shares[i] \ {m.data} ELSE shares[i]]
       /\ UNCHANGED srv

\* Done and answered, done with the answer lost, or refused. The page asks for
\* nothing after a call it takes for a failure.
Serve(r) ==
    /\ req[r] # None /\ req[r].stage = "sent"
    /\ \/ \E answered \in BOOLEAN :
            /\ Done(req[r])
            /\ req' = [req EXCEPT ![r] = Answered(@, IF answered THEN "done" ELSE "failed")]
            /\ behind' = IF answered \/ req[r].kind = "preview" THEN behind ELSE Keys
       \/ req' = [req EXCEPT ![r] = Answered(@, "failed")] /\ UNCHANGED <<server, behind>>
    /\ UNCHANGED <<applied, selected, modals, lists, fetch, scope>>

-----------------------------------------------------------------------------
(* The callbacks *)

\* onError of the optimistic changes: the list they kept goes back, to the
\* source of the moment, and is not asked for again.
RolledBack(m) ==
    IF m.before = None THEN UNCHANGED <<lists, behind>>
    ELSE lists' = [lists EXCEPT ![m.at] = m.before] /\ behind' = behind \cup {m.at}

\* onSuccess: the lists are asked for anew. A change closes whichever modal is
\* open by then; a change or a deletion of rows empties the selection.
Settle(r) ==
    /\ req[r] # None /\ req[r].kind # "preview"
    /\ LET m == req[r] IN
        \/ /\ m.stage = "done"
           /\ Invalidate(IF m.kind \in {"share", "revoke"} THEN Sources \cup m.of ELSE Sources)
           /\ selected' = IF m.kind \in {"bulk", "delete"} THEN {} ELSE selected
           /\ manual' = (manual /\ m.kind # "manual")
           /\ IF m.kind = "update" THEN editing' = None /\ preview' = None ELSE UNCHANGED <<editing, preview>>
           /\ UNCHANGED lists
        \/ /\ m.stage = "failed"
           /\ RolledBack(m)
           /\ UNCHANGED <<fetch, selected, manual, editing, preview>>
    /\ req' = [req EXCEPT ![r] = None]
    /\ UNCHANGED <<server, applied, sharing, loading, scope>>

\* handlePreview after its await: whichever file comes last is shown.
Previewed(r) ==
    /\ r \in Calls("preview") /\ req[r].stage # "sent"
    /\ IF req[r].stage = "done" THEN preview' \in req[r].of ELSE UNCHANGED preview
    /\ loading' = None
    /\ req' = [req EXCEPT ![r] = None]
    /\ UNCHANGED <<server, applied, selected, editing, sharing, manual, cached, scope>>

-----------------------------------------------------------------------------
Next ==
    \/ \E k \in Keys : Read(k) \/ Receive(k) \/ Fail(k)
    \/ Refetch \/ Apply \/ SelectAll \/ ClearSelection
    \/ \E i \in Invoices : Select(i)
    \/ OpenManual \/ OpenEdit \/ OpenShare \/ CloseModal
    \/ \E r \in Requests :
        \/ SetCategory(r) \/ BatchSetCategory(r) \/ Save(r) \/ Delete(r) \/ Import(r)
        \/ ManualImport(r) \/ Preview(r) \/ Share(r) \/ Revoke(r)
        \/ Serve(r) \/ Settle(r) \/ Previewed(r)

Spec == Init /\ [][Next]_vars

-----------------------------------------------------------------------------
(* Properties *)

Fits(k, answer) == IF k \in Sources THEN answer \in Lists ELSE answer \subseteq Users

TypeOK ==
    /\ srv \in [Invoices -> Row \cup {None, Gone}] /\ shares \in [Invoices -> SUBSET Users]
    /\ applied \in Filters /\ selected \subseteq Invoices /\ manual \in BOOLEAN
    /\ {editing, sharing, preview, loading} \subseteq Invoices \cup {None}
    /\ DOMAIN lists = Keys /\ DOMAIN fetch = Keys /\ DOMAIN req = Requests
    /\ \A k \in Keys : /\ lists[k] = None \/ Fits(k, lists[k])
                       /\ fetch[k] \in {None, Asked} \/ Fits(k, fetch[k])
    /\ \A r \in Requests : req[r] = None \/ \E kind \in Kinds : req[r] \in Call(kind)
    /\ behind \subseteq Keys

\* Once nothing is under way the table and the participants shown are the
\* server's, however successful changes, refetches, sources and modals crossed,
\* unless a call failed for the page since: it then shows a list it kept, and
\* asks for none; or the list was on its way when a success invalidated it, and
\* that did not ask for it again (Kept)
\* (InvoicesPage.tsx:193-270, ShareInvoiceModal.tsx:30-46).
QuietShowsServer ==
    (\A r \in Requests : req[r] = None) /\ (\A k \in Mounted : fetch[k] = None)
        => \A k \in Mounted \ behind : Known(k) => lists[k] = Answer(k)

=============================================================================
