---------------------------- MODULE StatementsPage ----------------------------
(* The page of bank statements: imports of several files, deletions, the     *)
(* preview of an original file with the assignment of its account.           *)
EXTENDS Naturals, FiniteSets

CONSTANTS Files, Accounts, Requests, None, Asked,
          Scopes     \* the kinds of clicks a behaviour is about, and how many
                     \* there are of them (a bound)

VARIABLES
    stored,      \* the statements, by the file they were made from
    account,     \* account[f]: the account a statement is assigned to
    deleting,    \* deletingId
    preview,     \* previewData: the file that is shown
    loading,     \* isPreviewLoading
    results,     \* the banner: the answer of the last import
    cache, fetch, \* of the list: the last answer; None, Asked or the answer on its way
    behind,      \* the list misses something the page was not told of
    req,         \* req[r]: an import, a deletion, an assignment or a preview
    scope

server == <<stored, account>>
view   == <<deleting, preview, loading, results>>
vars   == <<server, view, cache, fetch, behind, req, scope>>

Statements == [f \in stored |-> account[f]]
Rows == IF cache = None THEN {} ELSE DOMAIN cache

Click(kind) ==
    /\ kind \in scope.clicks /\ scope.left > 0
    /\ scope' = [scope EXCEPT !.left = @ - 1]

Init ==
    /\ scope \in Scopes
    /\ stored \in SUBSET Files
    /\ account = [f \in Files |-> None]
    /\ deleting = None /\ preview = None /\ loading = None /\ results = None
    /\ cache = None /\ fetch = Asked /\ behind = FALSE
    /\ req = [r \in Requests |-> None]

Read ==
    /\ fetch = Asked
    /\ fetch' = Statements
    /\ behind' = FALSE
    /\ UNCHANGED <<server, view, cache, req, scope>>

Receive ==
    /\ fetch \notin {None, Asked}
    /\ cache' = fetch
    /\ fetch' = None
    /\ UNCHANGED <<server, view, behind, req, scope>>

-----------------------------------------------------------------------------
\* The calls: the files of an import, the file of a deletion or a preview, and
\* what an assignment assigns.
Kinds == {"import", "delete", "preview", "assign"}
About(kind) ==
    CASE kind = "import" -> SUBSET Files
      [] kind = "assign" -> [file : Files, account : Accounts \cup {None}]
      [] OTHER           -> Files
Call(kind) == [kind : {kind}, what : About(kind), got : SUBSET Files, watched : BOOLEAN,
               stage : {"sent", "done", "failed"}]

Free(r) == req[r] = None /\ \A q \in Requests : req[q] = None => r <= q
InFlight(kind) == {r \in Requests : req[r] # None /\ req[r].kind = kind}

Sent(kind, what) == [kind |-> kind, what |-> what, got |-> {}, watched |-> TRUE, stage |-> "sent"]
Unwatched(m)     == [m EXCEPT !.watched = FALSE]

\* The object that the page watches is its latest mutation of a kind.
Send(r, kind, what) ==
    /\ Free(r)
    /\ req' = [q \in Requests |->
                 IF q = r THEN Sent(kind, what) ELSE IF q \in InFlight(kind) THEN Unwatched(req[q]) ELSE req[q]]
    /\ UNCHANGED <<server, cache, fetch, behind>>

\* handleFiles: reset, which closes the banner, and then the next import.
Import(r) ==
    /\ Click("import") /\ preview = None /\ cache # None
    /\ \E F \in SUBSET Files : F # {} /\ Send(r, "import", F)
    /\ results' = None
    /\ UNCHANGED <<deleting, preview, loading>>

Delete(r) ==
    /\ Click("delete") /\ preview = None
    /\ \E f \in Rows : deleting # f /\ Send(r, "delete", f) /\ deleting' = f
    /\ UNCHANGED <<preview, loading, results>>

\* Not while another preview is shown.
Preview(r) ==
    /\ Click("preview") /\ preview = None
    /\ \E f \in Rows : loading # f /\ Send(r, "preview", f) /\ loading' = f
    /\ UNCHANGED <<deleting, preview, results>>

ClosePreview ==
    /\ preview # None
    /\ preview' = None
    /\ UNCHANGED <<server, deleting, loading, results, cache, fetch, behind, req, scope>>

Assign(r) ==
    /\ Click("preview") /\ preview # None
    /\ \E a \in Accounts \cup {None} : Send(r, "assign", [file |-> preview, account |-> a])
    /\ UNCHANGED view

\* The server imports file by file, some of them in vain. An import of which
\* nothing was stored is answered with an error status, its results in the body.
Done(m, imported) ==
    CASE m.kind = "import"  -> imported # {} /\ stored' = stored \cup imported /\ UNCHANGED account
      [] m.kind = "delete"  -> stored' = stored \ {m.what} /\ account' = [account EXCEPT ![m.what] = None]
      [] m.kind = "assign"  -> account' = [account EXCEPT ![m.what.file] = m.what.account] /\ UNCHANGED stored
      [] m.kind = "preview" -> UNCHANGED server

New(m) == IF m.kind = "import" THEN m.what \ stored ELSE {}

Accepted(m) ==
    CASE m.kind = "import"  -> New(m) # {}
      [] m.kind = "assign"  -> m.what.file \in stored
      [] OTHER              -> m.what \in stored

Answered(m, stage, got) == [kind |-> m.kind, what |-> m.what, got |-> got, watched |-> m.watched, stage |-> stage]

Serve(r) ==
    /\ req[r] # None /\ req[r].stage = "sent"
    /\ \/ /\ Accepted(req[r])
          /\ \E answered \in BOOLEAN, imported \in SUBSET (New(req[r])) :
              /\ Done(req[r], imported)
              /\ req' = [req EXCEPT ![r] = Answered(@, IF answered THEN "done" ELSE "failed", imported)]
              /\ behind' = (behind \/ (~answered /\ req[r].kind # "preview"))
       \/ /\ req' = [req EXCEPT ![r] = Answered(@, "failed", {})]
          /\ UNCHANGED <<server, behind>>
    /\ UNCHANGED <<view, cache, fetch, scope>>

Finish(r) == req' = [req EXCEPT ![r] = None] /\ UNCHANGED <<server, cache, scope>>

\* The banner shows the answer of the latest import; a failed one, with all its
\* results, is shown nowhere.
Banner(m) == IF m.stage = "done" /\ m.watched THEN m.got ELSE results

\* onSuccess asks for the list anew.
Imported(r) ==
    /\ r \in InFlight("import") /\ req[r].stage # "sent"
    /\ IF req[r].stage = "done" THEN fetch' = Asked ELSE UNCHANGED fetch
    /\ results' = Banner(req[r])
    /\ Finish(r)
    /\ UNCHANGED <<deleting, preview, loading, behind>>

\* Any deletion that ends frees the button of the latest one.
Deleted(r) ==
    /\ r \in InFlight("delete") /\ req[r].stage # "sent"
    /\ IF req[r].stage = "done" THEN fetch' = Asked ELSE UNCHANGED fetch
    /\ deleting' = None
    /\ Finish(r)
    /\ UNCHANGED <<preview, loading, results, behind>>

Assigned(r) ==
    /\ r \in InFlight("assign") /\ req[r].stage # "sent"
    /\ IF req[r].stage = "done" THEN fetch' = Asked ELSE UNCHANGED fetch
    /\ Finish(r)
    /\ UNCHANGED <<view, behind>>

\* The file is shown, whichever was asked for last.
Previewed(r) ==
    /\ r \in InFlight("preview") /\ req[r].stage # "sent"
    /\ preview' = IF req[r].stage = "done" THEN req[r].what ELSE preview
    /\ loading' = None
    /\ Finish(r)
    /\ UNCHANGED <<deleting, results, fetch, behind>>

-----------------------------------------------------------------------------
Next ==
    \/ Read \/ Receive \/ ClosePreview
    \/ \E r \in Requests :
        \/ Import(r) \/ Delete(r) \/ Preview(r) \/ Assign(r)
        \/ Serve(r) \/ Imported(r) \/ Deleted(r) \/ Assigned(r) \/ Previewed(r)

Spec == Init /\ [][Next]_vars

-----------------------------------------------------------------------------
(* Properties *)

Lists == UNION {[F -> Accounts \cup {None}] : F \in SUBSET Files}

TypeOK ==
    /\ stored \subseteq Files /\ account \in [Files -> Accounts \cup {None}]
    /\ deleting \in Files \cup {None} /\ loading \in Files \cup {None}
    /\ preview \in Files \cup {None}
    /\ results = None \/ results \subseteq Files
    /\ behind \in BOOLEAN
    /\ cache \in Lists \cup {None} /\ fetch \in Lists \cup {None, Asked}
    /\ DOMAIN req = Requests
    /\ \A r \in Requests : req[r] = None \/ \E kind \in Kinds : req[r] \in Call(kind)

\* Once nothing is under way the page lists what the server has, unless a call
\* was done whose answer was lost (BankStatementsPage.tsx:100-120, 538-545).
QuietShowsServer ==
    (\A r \in Requests : req[r] = None) /\ fetch = None /\ ~behind => cache = Statements

==============================================================================
