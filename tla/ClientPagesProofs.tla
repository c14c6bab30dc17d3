--------------------------- MODULE ClientPagesProofs ---------------------------
(* What holds of the five pages for all values of the constants: each page   *)
(* has an inductive invariant of its own, that says of each query that what  *)
(* the page shows or is about to receive is the server's, or that something  *)
(* is under way that will ask for it again.                                  *)
EXTENDS ClientPages, TLAPS

-----------------------------------------------------------------------------
(* The page of statements                                                   *)

\* A call that was done and answered, of which the list is to be told.
ToldOfStatements(m) == m # None /\ m.kind # "preview" /\ m.stage = "done"

StatementsFresh ==
    \/ behind \/ fetch = Asked
    \/ \E r \in Requests : ToldOfStatements(req[r])
    \/ (IF fetch = None THEN cache ELSE fetch) = Statements!Statements

StatementsInv == Statements!TypeOK /\ StatementsFresh

LEMMA StatementCalls ==
    ASSUME NEW kind \in Statements!Kinds, NEW m \in Statements!Call(kind)
    PROVE  /\ m # None
           /\ m = [kind |-> kind, what |-> m.what, got |-> m.got, watched |-> m.watched, stage |-> m.stage]
           /\ m.what \in Statements!About(kind) /\ m.got \in SUBSET Files
           /\ m.watched \in BOOLEAN /\ m.stage \in {"sent", "done", "failed"}
BY StatementMarks DEF Statements!Call

LEMMA StatementCallIs ==
    ASSUME NEW kind \in Statements!Kinds, NEW what \in Statements!About(kind), NEW got \in SUBSET Files,
           NEW watched \in BOOLEAN, NEW stage \in {"sent", "done", "failed"}
    PROVE  [kind |-> kind, what |-> what, got |-> got, watched |-> watched, stage |-> stage] \in Statements!Call(kind)
BY DEF Statements!Call

LEMMA StatementUnwatched ==
    ASSUME NEW kind \in Statements!Kinds, NEW m \in Statements!Call(kind)
    PROVE  /\ Statements!Unwatched(m) \in Statements!Call(kind) /\ Statements!Unwatched(m).kind = m.kind
           /\ Statements!Unwatched(m).what = m.what /\ Statements!Unwatched(m).stage = m.stage
<1>1. ASSUME NEW what, NEW got, NEW watched, NEW stage, NEW no,
             m = [kind |-> kind, what |-> what, got |-> got, watched |-> watched, stage |-> stage]
      PROVE  [m EXCEPT !.watched = no] = [kind |-> kind, what |-> what, got |-> got, watched |-> no, stage |-> stage]
      BY <1>1
<1>2. /\ m = [kind |-> kind, what |-> m.what, got |-> m.got, watched |-> m.watched, stage |-> m.stage]
      /\ m.what \in Statements!About(kind) /\ m.got \in SUBSET Files /\ m.stage \in {"sent", "done", "failed"}
      BY StatementCalls
<1>3. Statements!Unwatched(m) =
        [kind |-> kind, what |-> m.what, got |-> m.got, watched |-> FALSE, stage |-> m.stage]
      BY <1>1, <1>2, Zenon DEF Statements!Unwatched
<1>4. m.kind = kind
      BY <1>2
<1>5. [kind |-> kind, what |-> m.what, got |-> m.got, watched |-> FALSE, stage |-> m.stage] \in Statements!Call(kind)
      BY <1>2 DEF Statements!Call
<1>6. Statements!Unwatched(m) \in Statements!Call(kind)
      BY <1>3, <1>5
<1>7. Statements!Unwatched(m).kind = kind /\ Statements!Unwatched(m).what = m.what /\ Statements!Unwatched(m).stage = m.stage
      BY <1>3
<1> QED BY <1>4, <1>6, <1>7

LEMMA StatementsList ==
    ASSUME Statements!TypeOK
    PROVE  Statements!Statements \in Statements!Lists /\ Statements!Statements \notin {None, Asked}
<1>0. stored \subseteq Files /\ account \in [Files -> Accounts \cup {None}]
      BY DEF Statements!TypeOK
<1>1. Statements!Statements \in [stored -> Accounts \cup {None}]
      BY <1>0 DEF Statements!Statements
<1>2. Statements!Statements \in Statements!Lists
      BY <1>0, <1>1 DEF Statements!Lists
<1> QED BY <1>2, StatementMarks

LEMMA StatementRows ==
    ASSUME StatementsInv
    PROVE  Statements!Rows \subseteq Files
BY DEF StatementsInv, Statements!TypeOK, Statements!Rows, Statements!Lists

LEMMA StatementsStart ==
    ASSUME Statements!Init
    PROVE  StatementsInv
BY DEF Statements!Init, StatementsInv, Statements!TypeOK, StatementsFresh,
       Statements!Lists

LEMMA StatementsRead ==
    ASSUME StatementsInv, Statements!Read
    PROVE  StatementsInv'
<1> USE DEF Statements!Read, Statements!view, Statements!server
<1>0. Statements!Statements' = Statements!Statements
      BY DEF Statements!Statements
<1>1. Statements!TypeOK'
      BY StatementsList DEF StatementsInv, Statements!TypeOK
<1>2. StatementsFresh'
      BY <1>0, StatementsList DEF StatementsInv, StatementsFresh
<1> QED BY <1>1, <1>2 DEF StatementsInv

LEMMA StatementsReceive ==
    ASSUME StatementsInv, Statements!Receive
    PROVE  StatementsInv'
<1> USE DEF Statements!Receive, Statements!view, Statements!server
<1>0. Statements!Statements' = Statements!Statements
      BY DEF Statements!Statements
<1>1. Statements!TypeOK'
      BY DEF StatementsInv, Statements!TypeOK
<1>2. StatementsFresh'
      BY <1>0 DEF StatementsInv, StatementsFresh
<1> QED BY <1>1, <1>2 DEF StatementsInv

LEMMA StatementsClosePreview ==
    ASSUME StatementsInv, Statements!ClosePreview
    PROVE  StatementsInv'
<1> USE DEF Statements!ClosePreview, Statements!server
<1>0. Statements!Statements' = Statements!Statements
      BY DEF Statements!Statements
<1>1. Statements!TypeOK'
      BY DEF StatementsInv, Statements!TypeOK
<1>2. StatementsFresh'
      BY <1>0 DEF StatementsInv, StatementsFresh
<1> QED BY <1>1, <1>2 DEF StatementsInv

\* A click that sends a call.
LEMMA StatementsSend ==
    ASSUME StatementsInv, NEW r \in Requests, NEW kind \in Statements!Kinds, NEW what \in Statements!About(kind),
           Statements!Send(r, kind, what)
    PROVE  /\ DOMAIN req' = Requests
           /\ \A q \in Requests : req'[q] = None \/ \E k \in Statements!Kinds : req'[q] \in Statements!Call(k)
           /\ req'[r].kind = kind /\ req'[r].what = what /\ req'[r] # None
           /\ \A q \in Requests \ {r} : /\ req[q] = None <=> req'[q] = None
                                        /\ req[q] # None => req'[q].kind = req[q].kind /\ req'[q].what = req[q].what
           /\ (\E q \in Requests : ToldOfStatements(req[q])) => \E q \in Requests : ToldOfStatements(req'[q])
           /\ UNCHANGED <<stored, account, cache, fetch, behind>>
<1>1. req[r] = None /\ DOMAIN req' = Requests /\ UNCHANGED <<stored, account, cache, fetch, behind>>
      BY DEF Statements!Send, Statements!Free, Statements!server
<1>2. req'[r] = Statements!Sent(kind, what)
      BY DEF Statements!Send
<1>3. req'[r] \in Statements!Call(kind)
      BY <1>2 DEF Statements!Call, Statements!Sent
<1>4. req'[r] # None /\ req'[r].kind = kind /\ req'[r].what = what
  <2>1. req'[r] # None
        BY <1>3, StatementCalls
  <2>2. req'[r].kind = kind /\ req'[r].what = what
        BY <1>2 DEF Statements!Sent
  <2> QED BY <2>1, <2>2
<1>5. \A q \in Requests \ {r} :
        req'[q] = req[q] \/ (q \in Statements!InFlight(kind) /\ req'[q] = Statements!Unwatched(req[q]))
      BY DEF Statements!Send
<1>6. ASSUME NEW q \in Requests \ {r}
      PROVE  \/ req'[q] = req[q]
             \/ /\ req[q] # None /\ req'[q] # None /\ \E k \in Statements!Kinds : req'[q] \in Statements!Call(k)
                /\ req'[q].kind = req[q].kind /\ req'[q].what = req[q].what /\ req'[q].stage = req[q].stage
  <2>1. CASE req'[q] = req[q]
        BY <2>1
  <2>2. CASE q \in Statements!InFlight(kind) /\ req'[q] = Statements!Unwatched(req[q])
    <3>1. req[q] # None
          BY <2>2 DEF Statements!InFlight
    <3>2. PICK k \in Statements!Kinds : req[q] \in Statements!Call(k)
          BY <3>1 DEF StatementsInv, Statements!TypeOK
    <3>3. /\ req'[q] \in Statements!Call(k) /\ req'[q].kind = req[q].kind
          /\ req'[q].what = req[q].what /\ req'[q].stage = req[q].stage
          BY <2>2, <3>2, StatementUnwatched
    <3>4. req'[q] # None
          BY <3>3, StatementCalls
    <3> QED BY <3>1, <3>3, <3>4
  <2> QED BY <1>5, <2>1, <2>2
<1>7. \A q \in Requests : req'[q] = None \/ \E k \in Statements!Kinds : req'[q] \in Statements!Call(k)
      BY <1>3, <1>6 DEF StatementsInv, Statements!TypeOK
<1>8. \A q \in Requests \ {r} : ToldOfStatements(req[q]) => ToldOfStatements(req'[q])
      BY <1>6 DEF ToldOfStatements
<1>9. ~ToldOfStatements(req[r])
      BY <1>1 DEF ToldOfStatements
<1> QED BY <1>1, <1>4, <1>6, <1>7, <1>8, <1>9

LEMMA StatementsImport ==
    ASSUME StatementsInv, NEW r \in Requests, Statements!Import(r)
    PROVE  StatementsInv'
<1>1. PICK F \in SUBSET Files : Statements!Send(r, "import", F)
      BY DEF Statements!Import
<1>2. "import" \in Statements!Kinds /\ F \in Statements!About("import")
      BY DEF Statements!Kinds, Statements!About
<1>3. results' = None /\ UNCHANGED <<deleting, preview, loading>>
      BY DEF Statements!Import
<1>4. Statements!TypeOK'
      BY <1>1, <1>2, <1>3, StatementsSend DEF StatementsInv, Statements!TypeOK
<1>5. Statements!Statements' = Statements!Statements
      BY <1>1, <1>2, StatementsSend DEF Statements!Statements
<1>6. StatementsFresh'
      BY <1>1, <1>2, <1>5, StatementsSend DEF StatementsInv, StatementsFresh
<1> QED BY <1>4, <1>6 DEF StatementsInv

LEMMA StatementsDelete ==
    ASSUME StatementsInv, NEW r \in Requests, Statements!Delete(r)
    PROVE  StatementsInv'
<1>1. PICK f \in Statements!Rows : Statements!Send(r, "delete", f) /\ deleting' = f
      BY DEF Statements!Delete
<1>2. f \in Files
      BY StatementRows
<1>3. "delete" \in Statements!Kinds /\ f \in Statements!About("delete")
      BY <1>2 DEF Statements!Kinds, Statements!About
<1>4. UNCHANGED <<preview, loading, results>>
      BY DEF Statements!Delete
<1>5. Statements!TypeOK'
      BY <1>1, <1>2, <1>3, <1>4, StatementsSend DEF StatementsInv, Statements!TypeOK
<1>6. StatementsFresh'
      BY <1>1, <1>3, StatementsSend DEF StatementsInv, StatementsFresh, Statements!Statements
<1> QED BY <1>5, <1>6 DEF StatementsInv

LEMMA StatementsPreview ==
    ASSUME StatementsInv, NEW r \in Requests, Statements!Preview(r)
    PROVE  StatementsInv'
<1>1. PICK f \in Statements!Rows : Statements!Send(r, "preview", f) /\ loading' = f
      BY DEF Statements!Preview
<1>2. f \in Files
      BY StatementRows
<1>3. "preview" \in Statements!Kinds /\ f \in Statements!About("preview")
      BY <1>2 DEF Statements!Kinds, Statements!About
<1>4. UNCHANGED <<deleting, preview, results>>
      BY DEF Statements!Preview
<1>5. Statements!TypeOK'
      BY <1>1, <1>2, <1>3, <1>4, StatementsSend DEF StatementsInv, Statements!TypeOK
<1>6. StatementsFresh'
      BY <1>1, <1>3, StatementsSend DEF StatementsInv, StatementsFresh, Statements!Statements
<1> QED BY <1>5, <1>6 DEF StatementsInv

LEMMA StatementsAssign ==
    ASSUME StatementsInv, NEW r \in Requests, Statements!Assign(r)
    PROVE  StatementsInv'
<1>1. PICK a \in Accounts \cup {None} : Statements!Send(r, "assign", [file |-> preview, account |-> a])
      BY DEF Statements!Assign
<1>2. preview \in Files
      BY DEF Statements!Assign, StatementsInv, Statements!TypeOK
<1>3. "assign" \in Statements!Kinds /\ [file |-> preview, account |-> a] \in Statements!About("assign")
      BY <1>2 DEF Statements!Kinds, Statements!About
<1>4. UNCHANGED <<deleting, preview, loading, results>>
      BY DEF Statements!Assign, Statements!view
<1>5. Statements!TypeOK'
      BY <1>1, <1>3, <1>4, StatementsSend DEF StatementsInv, Statements!TypeOK
<1>6. StatementsFresh'
      BY <1>1, <1>3, StatementsSend DEF StatementsInv, StatementsFresh, Statements!Statements
<1> QED BY <1>5, <1>6 DEF StatementsInv

\* What the server makes of a call: the list changes with a call of which the
\* page is told, or with one whose answer is lost.
LEMMA StatementsServe ==
    ASSUME StatementsInv, NEW r \in Requests, Statements!Serve(r)
    PROVE  StatementsInv'
<1> DEFINE m == req[r]
<1>1. m # None /\ m.stage = "sent"
      BY DEF Statements!Serve
<1>2. PICK kind \in Statements!Kinds : m \in Statements!Call(kind)
      BY <1>1 DEF StatementsInv, Statements!TypeOK
<1>3. /\ m = [kind |-> kind, what |-> m.what, got |-> m.got, watched |-> m.watched, stage |-> m.stage]
      /\ m.what \in Statements!About(kind) /\ m.got \in SUBSET Files /\ m.watched \in BOOLEAN
      BY <1>2, StatementCalls
<1>4. UNCHANGED <<deleting, preview, loading, results, cache, fetch>>
      BY DEF Statements!Serve, Statements!view
\* The call afterwards, and what else is the same.
<1>5. ASSUME NEW stage \in {"done", "failed"}, NEW got \in SUBSET Files,
             req' = [req EXCEPT ![r] = Statements!Answered(m, stage, got)]
      PROVE  /\ DOMAIN req' = Requests
             /\ \A q \in Requests : req'[q] = None \/ \E k \in Statements!Kinds : req'[q] \in Statements!Call(k)
             /\ req'[r] # None /\ req'[r].kind = kind /\ req'[r].stage = stage /\ req'[r].what = m.what
             /\ \A q \in Requests \ {r} : req'[q] = req[q]
  <2>0. DOMAIN req = Requests
        BY DEF StatementsInv, Statements!TypeOK
  <2>1. DOMAIN req' = Requests /\ \A q \in Requests \ {r} : req'[q] = req[q]
        BY <1>5, <2>0
  <2> DEFINE n == [kind |-> kind, what |-> m.what, got |-> got, watched |-> m.watched, stage |-> stage]
  <2>2. req'[r] = n
    <3>1. req'[r] = Statements!Answered(m, stage, got)
          BY <1>5, <2>0
    <3>2. m.kind = kind
          BY <1>3
    <3> QED BY <3>1, <3>2 DEF Statements!Answered
  <2>3. n \in Statements!Call(kind)
        BY <1>3, StatementCallIs
  <2>4. n.kind = kind /\ n.stage = stage /\ n.what = m.what
        OBVIOUS
  <2> HIDE DEF n
  <2>5. n # None
        BY <2>3, StatementCalls
  <2>6. \A q \in Requests : req'[q] = None \/ \E k \in Statements!Kinds : req'[q] \in Statements!Call(k)
        BY <2>1, <2>2, <2>3 DEF StatementsInv, Statements!TypeOK
  <2> QED BY <2>1, <2>2, <2>4, <2>5, <2>6
<1>6. CASE /\ req' = [req EXCEPT ![r] = Statements!Answered(@, "failed", {})]
           /\ UNCHANGED <<stored, account, behind>>
  <2>1. req' = [req EXCEPT ![r] = Statements!Answered(m, "failed", {})]
        BY <1>6
  <2>2. /\ DOMAIN req' = Requests
        /\ \A q \in Requests : req'[q] = None \/ \E k \in Statements!Kinds : req'[q] \in Statements!Call(k)
        /\ req'[r] # None /\ req'[r].kind = kind /\ req'[r].stage = "failed" /\ req'[r].what = m.what
        /\ \A q \in Requests \ {r} : req'[q] = req[q]
        BY <1>5, <2>1, {} \in SUBSET Files, "failed" \in {"done", "failed"}
  <2>3. Statements!TypeOK'
        BY <1>4, <1>6, <2>2 DEF StatementsInv, Statements!TypeOK
  <2>4. \A q \in Requests : ToldOfStatements(req[q]) => ToldOfStatements(req'[q])
        BY <1>1, <2>2 DEF ToldOfStatements
  <2>5. StatementsFresh'
        BY <1>4, <1>6, <2>4 DEF StatementsInv, StatementsFresh, Statements!Statements
  <2> QED BY <2>3, <2>5 DEF StatementsInv
<1>7. ASSUME NEW answered \in BOOLEAN, NEW imported \in SUBSET Statements!New(m),
             Statements!Accepted(m), Statements!Done(m, imported),
             req' = [req EXCEPT ![r] = Statements!Answered(@, IF answered THEN "done" ELSE "failed", imported)],
             behind' = (behind \/ (~answered /\ m.kind # "preview"))
      PROVE  StatementsInv'
  <2> DEFINE stage == IF answered THEN "done" ELSE "failed"
  <2>1. imported \in SUBSET Files
        BY <1>3 DEF Statements!New, Statements!About
  <2>2. stage \in {"done", "failed"} /\ (answered <=> stage = "done")
        OBVIOUS
  <2>3. req' = [req EXCEPT ![r] = Statements!Answered(m, stage, imported)]
        BY <1>7
  <2> HIDE DEF stage
  <2>4. /\ DOMAIN req' = Requests
        /\ \A q \in Requests : req'[q] = None \/ \E k \in Statements!Kinds : req'[q] \in Statements!Call(k)
        /\ req'[r] # None /\ req'[r].kind = kind /\ req'[r].stage = stage /\ req'[r].what = m.what
        /\ \A q \in Requests \ {r} : req'[q] = req[q]
        BY <1>5, <2>1, <2>2, <2>3
  <2>5. m.kind = kind /\ kind \in {"import", "delete", "preview", "assign"}
        BY <1>3 DEF Statements!Kinds
  <2>6. stored' \subseteq Files /\ account' \in [Files -> Accounts \cup {None}]
    <3>1. stored \subseteq Files /\ account \in [Files -> Accounts \cup {None}]
          BY DEF StatementsInv, Statements!TypeOK
    <3>2. CASE kind = "import"
          BY <1>7, <2>1, <2>5, <3>1, <3>2 DEF Statements!Done
    <3>3. CASE kind = "delete"
      <4>1. stored' = stored \ {m.what} /\ account' = [account EXCEPT ![m.what] = None]
            BY <1>7, <2>5, <3>3 DEF Statements!Done
      <4> QED BY <3>1, <4>1
    <3>4. CASE kind = "preview"
          BY <1>7, <2>5, <3>1, <3>4 DEF Statements!Done, Statements!server
    <3>5. CASE kind = "assign"
      <4>1. account' = [account EXCEPT ![m.what.file] = m.what.account] /\ stored' = stored
            BY <1>7, <2>5, <3>5 DEF Statements!Done
      <4>2. m.what.account \in Accounts \cup {None}
            BY <1>3, <3>5 DEF Statements!About
      <4> QED BY <3>1, <4>1, <4>2
    <3> QED BY <2>5, <3>2, <3>3, <3>4, <3>5
  <2>7. Statements!TypeOK'
        BY <1>4, <1>7, <2>4, <2>6 DEF StatementsInv, Statements!TypeOK
  <2>8. StatementsFresh'
    <3>1. CASE kind = "preview"
      <4>1. UNCHANGED <<stored, account>>
            BY <1>7, <2>5, <3>1 DEF Statements!Done, Statements!server
      <4>2. \A q \in Requests : ToldOfStatements(req[q]) => ToldOfStatements(req'[q])
            BY <2>4, <2>5, <3>1 DEF ToldOfStatements
      <4>3. behind => behind'
            BY <1>7
      <4> QED BY <1>4, <4>1, <4>2, <4>3 DEF StatementsInv, StatementsFresh, Statements!Statements
    <3>2. CASE kind # "preview" /\ answered
          BY <2>2, <2>4, <3>2 DEF StatementsFresh, ToldOfStatements
    <3>3. CASE kind # "preview" /\ ~answered
          BY <1>7, <2>5, <3>3 DEF StatementsFresh
    <3> QED BY <3>1, <3>2, <3>3
  <2> QED BY <2>7, <2>8 DEF StatementsInv
<1> QED BY <1>6, <1>7 DEF Statements!Serve, Statements!server

\* The end of a call, of which the page asks for the list when it was done.
LEMMA StatementsEnd ==
    ASSUME StatementsInv, NEW r \in Requests, req[r] # None, req[r].stage # "sent",
           req' = [req EXCEPT ![r] = None], UNCHANGED <<stored, account, cache, behind>>,
           \/ req[r].stage = "done" /\ fetch' = Asked
           \/ (req[r].kind = "preview" \/ req[r].stage # "done") /\ fetch' = fetch,
           deleting' \in Files \cup {None}, loading' \in Files \cup {None},
           preview' \in Files \cup {None},
           results' = None \/ results' \subseteq Files
    PROVE  StatementsInv'
<1>1. /\ DOMAIN req' = Requests /\ req'[r] = None
      /\ \A q \in Requests \ {r} : req'[q] = req[q]
      BY DEF StatementsInv, Statements!TypeOK
<1>2. Statements!TypeOK'
      BY <1>1 DEF StatementsInv, Statements!TypeOK
<1>3. CASE fetch' = Asked
      BY <1>2, <1>3 DEF StatementsInv, StatementsFresh
<1>4. CASE (req[r].kind = "preview" \/ req[r].stage # "done") /\ fetch' = fetch
  <2>1. \A q \in Requests : ToldOfStatements(req[q]) => ToldOfStatements(req'[q])
        BY <1>1, <1>4 DEF ToldOfStatements
  <2>2. StatementsFresh'
        BY <1>4, <2>1 DEF StatementsInv, StatementsFresh, Statements!Statements
  <2> QED BY <1>2, <2>2 DEF StatementsInv
<1> QED BY <1>3, <1>4

LEMMA StatementsImported ==
    ASSUME StatementsInv, NEW r \in Requests, Statements!Imported(r)
    PROVE  StatementsInv'
<1>1. req[r] # None /\ req[r].kind = "import" /\ req[r].stage # "sent"
      BY DEF Statements!Imported, Statements!InFlight
<1>2. /\ req' = [req EXCEPT ![r] = None] /\ UNCHANGED <<stored, account, cache, behind>>
      /\ UNCHANGED <<deleting, preview, loading>>
      BY DEF Statements!Imported, Statements!Finish, Statements!server
<1>3. (req[r].stage = "done" /\ fetch' = Asked) \/ (req[r].stage # "done" /\ fetch' = fetch)
      BY DEF Statements!Imported
<1>4. req[r].got \subseteq Files
      BY <1>1, StatementCalls DEF StatementsInv, Statements!TypeOK
<1>5. results' = req[r].got \/ results' = results
      BY DEF Statements!Imported, Statements!Banner
<1>6. /\ deleting' \in Files \cup {None} /\ loading' \in Files \cup {None}
      /\ preview' \in Files \cup {None}
      /\ results' = None \/ results' \subseteq Files
      BY <1>2, <1>4, <1>5 DEF StatementsInv, Statements!TypeOK
<1> QED BY <1>1, <1>2, <1>3, <1>6, StatementsEnd

LEMMA StatementsDeleted ==
    ASSUME StatementsInv, NEW r \in Requests, Statements!Deleted(r)
    PROVE  StatementsInv'
<1>1. req[r] # None /\ req[r].stage # "sent"
      BY DEF Statements!Deleted, Statements!InFlight
<1>2. /\ req' = [req EXCEPT ![r] = None] /\ UNCHANGED <<stored, account, cache, behind>>
      /\ deleting' = None /\ UNCHANGED <<preview, loading, results>>
      BY DEF Statements!Deleted, Statements!Finish, Statements!server
<1>3. (req[r].stage = "done" /\ fetch' = Asked) \/ (req[r].stage # "done" /\ fetch' = fetch)
      BY DEF Statements!Deleted
<1>4. /\ deleting' \in Files \cup {None} /\ loading' \in Files \cup {None}
      /\ preview' \in Files \cup {None}
      /\ results' = None \/ results' \subseteq Files
      BY <1>2 DEF StatementsInv, Statements!TypeOK
<1> QED BY <1>1, <1>2, <1>3, <1>4, StatementsEnd

LEMMA StatementsAssigned ==
    ASSUME StatementsInv, NEW r \in Requests, Statements!Assigned(r)
    PROVE  StatementsInv'
<1>1. req[r] # None /\ req[r].stage # "sent"
      BY DEF Statements!Assigned, Statements!InFlight
<1>2. /\ req' = [req EXCEPT ![r] = None] /\ UNCHANGED <<stored, account, cache, behind>>
      /\ UNCHANGED <<deleting, preview, loading, results>>
      BY DEF Statements!Assigned, Statements!Finish, Statements!server, Statements!view
<1>3. (req[r].stage = "done" /\ fetch' = Asked) \/ (req[r].stage # "done" /\ fetch' = fetch)
      BY DEF Statements!Assigned
<1>4. /\ deleting' \in Files \cup {None} /\ loading' \in Files \cup {None}
      /\ preview' \in Files \cup {None}
      /\ results' = None \/ results' \subseteq Files
      BY <1>2 DEF StatementsInv, Statements!TypeOK
<1> QED BY <1>1, <1>2, <1>3, <1>4, StatementsEnd

LEMMA StatementsPreviewed ==
    ASSUME StatementsInv, NEW r \in Requests, Statements!Previewed(r)
    PROVE  StatementsInv'
<1>1. req[r] # None /\ req[r].kind = "preview" /\ req[r].stage # "sent"
      BY DEF Statements!Previewed, Statements!InFlight
<1>2. /\ req' = [req EXCEPT ![r] = None] /\ UNCHANGED <<stored, account, cache, behind>>
      /\ loading' = None /\ UNCHANGED <<deleting, results, fetch>>
      BY DEF Statements!Previewed, Statements!Finish, Statements!server
<1>3. preview' = req[r].what \/ preview' = preview
      BY DEF Statements!Previewed
<1>4. req[r].what \in Files
  <2>1. PICK kind \in Statements!Kinds : req[r] \in Statements!Call(kind)
        BY <1>1 DEF StatementsInv, Statements!TypeOK
  <2>2. kind = "preview" /\ req[r].what \in Statements!About(kind)
        BY <1>1, <2>1 DEF Statements!Call
  <2> QED BY <2>2 DEF Statements!About
<1>5. /\ deleting' \in Files \cup {None} /\ loading' \in Files \cup {None}
      /\ preview' \in Files \cup {None}
      /\ results' = None \/ results' \subseteq Files
      BY <1>2, <1>3, <1>4 DEF StatementsInv, Statements!TypeOK
<1> QED BY <1>1, <1>2, <1>5, StatementsEnd

LEMMA StatementsShown ==
    ASSUME StatementsInv
    PROVE  Statements!TypeOK /\ Statements!QuietShowsServer
<1>1. Statements!QuietShowsServer
  <2> SUFFICES ASSUME \A r \in Requests : req[r] = None, fetch = None, ~behind
               PROVE  cache = Statements!Statements
      BY DEF Statements!QuietShowsServer
  <2>1. ~ \E r \in Requests : ToldOfStatements(req[r])
        BY DEF ToldOfStatements
  <2>2. StatementsFresh
        BY DEF StatementsInv
  <2> QED BY <2>1, <2>2, Marks DEF StatementsFresh
<1> QED BY <1>1 DEF StatementsInv

-----------------------------------------------------------------------------
(* The page of reconciliation                                               *)

\* What a query has, or will have once its answer is there; of those that the
\* open tab does not use only the answers on their way count.
PairsFresh(k) ==
    \/ fetch[k] = Asked
    \/ fetch[k] = None /\ (k = Reconciles!Used(tab, window) => cache[k] \in Reconciles!Answers(k))
    \/ fetch[k] \in Reconciles!Answers(k)

\* No batch is under way for the page of which something has been written.
NoBatch == \A r \in Requests : req[r] = None \/ req[r].settled \/ ~req[r].written

ReconcilesInv ==
    /\ Reconciles!TypeOK
    /\ NoBatch => \A k \in Reconciles!Keys \ behind : PairsFresh(k)

LEMMA UsedKey ==
    ASSUME NEW t \in Reconciles!Tabs, NEW w \in Windows
    PROVE  Reconciles!Used(t, w) \in Reconciles!Keys
BY DEF Reconciles!Tabs, Reconciles!Used, Reconciles!Keys

LEMMA PairsAreNoMarks ==
    /\ \A a : a \subseteq Debits \cup Credits => a \notin {None, Asked}
    /\ \A a : a \subseteq Debits \X Credits => a \notin {None, Asked}
BY ReconcileMarks

LEMMA PairAnswers ==
    ASSUME Reconciles!TypeOK, NEW k \in Reconciles!Keys, NEW a \in Reconciles!Answers(k)
    PROVE  Reconciles!Fits(k, a) /\ a \notin {None, Asked}
<1>1. joined \subseteq Debits \X Credits
      BY DEF Reconciles!TypeOK, Reconciles!Pairs
<1>2. CASE k = "unreconciled"
  <2>1. a \subseteq Debits \cup Credits
        BY <1>2 DEF Reconciles!Answers, Reconciles!Open
  <2> QED BY <1>2, <2>1, PairsAreNoMarks DEF Reconciles!Fits
<1>3. CASE k = "history"
      BY <1>1, <1>3, PairsAreNoMarks DEF Reconciles!Answers, Reconciles!Fits, Reconciles!Pairs
<1>4. CASE k \in Windows /\ k \notin {"unreconciled", "history"}
  <2>1. a \in Reconciles!Suggested(k)
        BY <1>4 DEF Reconciles!Answers
  <2>2. a \subseteq Close[k]
        BY <2>1 DEF Reconciles!Suggested
  <2>3. a \subseteq Debits \X Credits
        BY <1>4, <2>2, ReconcileMarks
  <2> QED BY <1>4, <2>3, PairsAreNoMarks DEF Reconciles!Fits, Reconciles!Pairs
<1> QED BY <1>2, <1>3, <1>4, ReconcileMarks DEF Reconciles!Keys

LEMMA SameAnswers ==
    ASSUME joined' = joined
    PROVE  \A k : Reconciles!Answers(k)' = Reconciles!Answers(k)
BY DEF Reconciles!Answers, Reconciles!Suggested, Reconciles!Open, Reconciles!Taken

LEMMA BatchIs ==
    ASSUME NEW m \in Reconciles!Batch
    PROVE  /\ m # None /\ m.kind \in {"join", "delete"} /\ m.sent \subseteq Debits \X Credits
           /\ m.written \in BOOLEAN /\ m.refused \in BOOLEAN /\ m.settled \in BOOLEAN
BY ReconcileMarks DEF Reconciles!Batch, Reconciles!Pairs

LEMMA ReconcilesStart ==
    ASSUME Reconciles!Init
    PROVE  ReconcilesInv
<1> USE DEF Reconciles!Init
<1>1. window \in Reconciles!Keys
      BY DEF Reconciles!Keys
<1>2. Reconciles!TypeOK
      BY Marks DEF Reconciles!TypeOK, Reconciles!Tabs
<1>3. \A k \in Reconciles!Keys : PairsFresh(k)
      BY DEF PairsFresh, Reconciles!Used
<1> QED BY <1>2, <1>3 DEF ReconcilesInv

LEMMA ReconcilesRead ==
    ASSUME ReconcilesInv, NEW k \in Reconciles!Keys, Reconciles!Read(k)
    PROVE  ReconcilesInv'
<1> USE DEF Reconciles!view
<1>1. PICK a \in Reconciles!Answers(k) : fetch' = [fetch EXCEPT ![k] = a]
      BY DEF Reconciles!Read
<1>2. behind' = behind \ {k} /\ UNCHANGED <<joined, tab, window, searching, deselected, manual, cache, req>>
      BY DEF Reconciles!Read
<1>3. Reconciles!Fits(k, a)
      BY PairAnswers DEF ReconcilesInv
<1>4. DOMAIN fetch = Reconciles!Keys
      BY DEF ReconcilesInv, Reconciles!TypeOK
<1>5. fetch'[k] = a /\ DOMAIN fetch' = Reconciles!Keys /\ \A j \in Reconciles!Keys : j # k => fetch'[j] = fetch[j]
      BY <1>1, <1>4
<1>6. Reconciles!TypeOK'
      BY <1>2, <1>3, <1>5 DEF ReconcilesInv, Reconciles!TypeOK, Reconciles!Fits
<1>7. ASSUME NoBatch', NEW j \in Reconciles!Keys \ behind'
      PROVE  PairsFresh(j)'
  <2>1. NoBatch
        BY <1>2, <1>7 DEF NoBatch
  <2>2. CASE j = k
        BY <1>2, <1>5, <2>2, SameAnswers DEF PairsFresh
  <2>3. CASE j # k
        BY <1>2, <1>5, <2>1, <2>3, SameAnswers DEF ReconcilesInv, PairsFresh
  <2> QED BY <2>2, <2>3
<1> QED BY <1>2, <1>6, <1>7 DEF ReconcilesInv

LEMMA ReconcilesReceive ==
    ASSUME ReconcilesInv, NEW k \in Reconciles!Keys, Reconciles!Receive(k)
    PROVE  ReconcilesInv'
<1> USE DEF Reconciles!view
<1>1. /\ fetch[k] \notin {None, Asked} /\ cache' = [cache EXCEPT ![k] = fetch[k]] /\ fetch' = [fetch EXCEPT ![k] = None]
      /\ UNCHANGED <<joined, tab, window, searching, deselected, manual, behind, req>>
      BY DEF Reconciles!Receive
<1>2. DOMAIN fetch = Reconciles!Keys /\ DOMAIN cache = Reconciles!Keys
      BY DEF ReconcilesInv, Reconciles!TypeOK
<1>3. /\ DOMAIN fetch' = Reconciles!Keys /\ DOMAIN cache' = Reconciles!Keys
      /\ fetch'[k] = None /\ cache'[k] = fetch[k]
      /\ \A j \in Reconciles!Keys : j # k => fetch'[j] = fetch[j] /\ cache'[j] = cache[j]
      BY <1>1, <1>2
<1>4. Reconciles!TypeOK'
      BY <1>1, <1>3 DEF ReconcilesInv, Reconciles!TypeOK, Reconciles!Fits
<1>5. ASSUME NoBatch', NEW j \in Reconciles!Keys \ behind'
      PROVE  PairsFresh(j)'
  <2>1. PairsFresh(j)
        BY <1>1, <1>5 DEF NoBatch, ReconcilesInv
  <2> QED BY <1>1, <1>3, <2>1, SameAnswers DEF PairsFresh
<1> QED BY <1>1, <1>4, <1>5 DEF ReconcilesInv

\* The open tab, and the window, may change: the query they use is asked for.
LEMMA ReconcilesTurn ==
    ASSUME ReconcilesInv, NEW t \in Reconciles!Tabs, NEW w \in Windows, tab' = t, window' = w,
           Reconciles!Enable(t, w), UNCHANGED <<joined, searching, deselected, manual, cache, behind, req>>
    PROVE  ReconcilesInv'
<1> DEFINE u == Reconciles!Used(t, w)
<1>1. u \in Reconciles!Keys
      BY UsedKey
<1>2. DOMAIN fetch = Reconciles!Keys
      BY DEF ReconcilesInv, Reconciles!TypeOK
<1>3. /\ DOMAIN fetch' = Reconciles!Keys /\ fetch'[u] = (IF fetch[u] = None THEN Asked ELSE fetch[u])
      /\ \A j \in Reconciles!Keys : j # u => fetch'[j] = fetch[j]
      BY <1>1, <1>2 DEF Reconciles!Enable
<1>4. Reconciles!TypeOK'
      BY <1>1, <1>3 DEF ReconcilesInv, Reconciles!TypeOK, Reconciles!Fits
<1>5. ASSUME NoBatch', NEW j \in Reconciles!Keys \ behind'
      PROVE  PairsFresh(j)'
  <2>1. PairsFresh(j)
        BY <1>5 DEF NoBatch, ReconcilesInv
  <2> HIDE DEF u
  <2>2. CASE j = u
        BY <1>3, <2>1, <2>2, SameAnswers DEF PairsFresh
  <2>3. CASE j # u
    <3>1. j # Reconciles!Used(tab', window')
          BY <2>3 DEF u
    <3> QED BY <1>3, <2>1, <2>3, <3>1, SameAnswers DEF PairsFresh, Reconciles!Used
  <2> QED BY <2>2, <2>3
<1> QED BY <1>4, <1>5 DEF ReconcilesInv

LEMMA ReconcilesOpenTab ==
    ASSUME ReconcilesInv, Reconciles!OpenTab
    PROVE  ReconcilesInv'
<1>1. PICK t \in Reconciles!Tabs : tab' = t /\ Reconciles!Enable(t, window)
      BY DEF Reconciles!OpenTab
<1>2. window \in Windows
      BY DEF ReconcilesInv, Reconciles!TypeOK
<1>3. window' = window /\ UNCHANGED <<joined, searching, deselected, manual, cache, behind, req>>
      BY DEF Reconciles!OpenTab
<1> QED BY <1>1, <1>2, <1>3, ReconcilesTurn

LEMMA ReconcilesChangeWindow ==
    ASSUME ReconcilesInv, Reconciles!ChangeWindow
    PROVE  ReconcilesInv'
<1>1. PICK w \in Windows : window' = w /\ Reconciles!Enable(tab, w)
      BY DEF Reconciles!ChangeWindow
<1>2. tab \in Reconciles!Tabs
      BY DEF ReconcilesInv, Reconciles!TypeOK
<1>3. tab' = tab /\ UNCHANGED <<joined, searching, deselected, manual, cache, behind, req>>
      BY DEF Reconciles!ChangeWindow
<1> QED BY <1>1, <1>2, <1>3, ReconcilesTurn

\* Clicks that change what is searched, selected or picked, and nothing else.
LEMMA ReconcilesMark ==
    ASSUME ReconcilesInv, UNCHANGED <<joined, tab, window, cache, fetch, behind, req>>,
           searching' \subseteq Debits, deselected' \subseteq Debits,
           manual' \in (Debits \cup {None}) \X (Credits \cup {None})
    PROVE  ReconcilesInv'
<1>0. Reconciles!TypeOK
      BY DEF ReconcilesInv
<1>1. Reconciles!TypeOK'
      BY <1>0 DEF Reconciles!TypeOK, Reconciles!Fits
<1>2. ASSUME NEW k, PairsFresh(k) PROVE PairsFresh(k)'
      BY <1>2, SameAnswers DEF PairsFresh, Reconciles!Used
<1> QED BY <1>1, <1>2 DEF ReconcilesInv, NoBatch

LEMMA ShownPairs ==
    ASSUME ReconcilesInv
    PROVE  /\ Reconciles!Shown(window) \subseteq Debits \X Credits
           /\ Reconciles!Shown("history") \subseteq Debits \X Credits
           /\ Reconciles!Shown("unreconciled") \subseteq Debits \cup Credits
<1>1. window \in Reconciles!Keys \ {"unreconciled"} /\ "history" \in Reconciles!Keys /\ "unreconciled" \in Reconciles!Keys
      BY ReconcileMarks DEF ReconcilesInv, Reconciles!TypeOK, Reconciles!Keys
<1> QED BY <1>1 DEF ReconcilesInv, Reconciles!TypeOK, Reconciles!Shown, Reconciles!Fits, Reconciles!Pairs

LEMMA ReconcilesSearch ==
    ASSUME ReconcilesInv, Reconciles!Search
    PROVE  ReconcilesInv'
<1>1. searching' \subseteq Debits /\ UNCHANGED <<joined, tab, window, cache, fetch, behind, req, deselected, manual>>
      BY DEF Reconciles!Search
<1>2. deselected \subseteq Debits /\ manual \in (Debits \cup {None}) \X (Credits \cup {None})
      BY DEF ReconcilesInv, Reconciles!TypeOK
<1> QED BY <1>1, <1>2, ReconcilesMark

LEMMA ReconcilesToggle ==
    ASSUME ReconcilesInv, Reconciles!Toggle \/ Reconciles!ToggleAll
    PROVE  ReconcilesInv'
<1>1. UNCHANGED <<joined, tab, window, cache, fetch, behind, req, searching, manual>>
      BY DEF Reconciles!Toggle, Reconciles!ToggleAll
<1>2. /\ deselected \subseteq Debits /\ searching \subseteq Debits
      /\ manual \in (Debits \cup {None}) \X (Credits \cup {None})
      BY DEF ReconcilesInv, Reconciles!TypeOK
<1>3. Reconciles!Filtered \subseteq Debits \X Credits
      BY ShownPairs DEF Reconciles!Filtered
<1>4. CASE Reconciles!Toggle
  <2>1. PICK p \in Reconciles!Filtered :
          deselected' = IF p[1] \in deselected THEN deselected \ {p[1]} ELSE deselected \cup {p[1]}
        BY <1>4 DEF Reconciles!Toggle
  <2>2. p[1] \in Debits
        BY <1>3
  <2>3. deselected' \subseteq Debits
        BY <1>2, <2>1, <2>2
  <2> QED BY <1>1, <1>2, <2>3, ReconcilesMark
<1>5. CASE Reconciles!ToggleAll
  <2> DEFINE visible == {p[1] : p \in Reconciles!Filtered}
  <2>1. visible \subseteq Debits
        BY <1>3
  <2>2. deselected' = IF visible \cap deselected = {} THEN deselected \cup visible ELSE deselected \ visible
        BY <1>5 DEF Reconciles!ToggleAll
  <2> HIDE DEF visible
  <2>3. deselected' \subseteq Debits
        BY <1>2, <2>1, <2>2
  <2> QED BY <1>1, <1>2, <2>3, ReconcilesMark
<1> QED BY <1>4, <1>5

LEMMA ReconcilesPick ==
    ASSUME ReconcilesInv, Reconciles!Pick
    PROVE  ReconcilesInv'
<1>1. PICK t \in Reconciles!Shown("unreconciled") :
        manual' = IF t \in Debits THEN <<t, manual[2]>> ELSE <<manual[1], t>>
      BY DEF Reconciles!Pick
<1>2. UNCHANGED <<joined, tab, window, cache, fetch, behind, req, searching, deselected>>
      BY DEF Reconciles!Pick
<1>3. /\ deselected \subseteq Debits /\ searching \subseteq Debits
      /\ manual \in (Debits \cup {None}) \X (Credits \cup {None})
      BY DEF ReconcilesInv, Reconciles!TypeOK
<1>4. t \in Debits \cup Credits
      BY ShownPairs
<1>5. manual' \in (Debits \cup {None}) \X (Credits \cup {None})
      BY <1>1, <1>3, <1>4
<1> QED BY <1>2, <1>3, <1>5, ReconcilesMark

\* A batch that is sent: nothing of it has been written yet.
LEMMA ReconcilesSend ==
    ASSUME ReconcilesInv, NEW r \in Requests, NEW kind \in {"join", "delete"}, NEW pairs \in SUBSET (Debits \X Credits),
           Reconciles!Send(r, kind, pairs), manual' = manual
    PROVE  ReconcilesInv'
<1> DEFINE m == [kind |-> kind, sent |-> pairs, written |-> FALSE, refused |-> FALSE, settled |-> FALSE]
<1>1. /\ req[r] = None /\ req' = [req EXCEPT ![r] = m]
      /\ UNCHANGED <<joined, tab, window, searching, deselected, cache, fetch, behind>>
      BY DEF Reconciles!Send, Reconciles!Free
<1>2. m \in Reconciles!Batch
      BY DEF Reconciles!Batch, Reconciles!Pairs
<1> HIDE DEF m
<1>3. DOMAIN req = Requests
      BY DEF ReconcilesInv, Reconciles!TypeOK
<1>4. req'[r] = m /\ DOMAIN req' = Requests /\ \A q \in Requests : q # r => req'[q] = req[q]
      BY <1>1, <1>3
<1>5. Reconciles!TypeOK'
      BY <1>1, <1>2, <1>4 DEF ReconcilesInv, Reconciles!TypeOK, Reconciles!Fits
<1>6. NoBatch' => NoBatch
      BY <1>1, <1>4 DEF NoBatch
<1>7. ASSUME NEW k, PairsFresh(k) PROVE PairsFresh(k)'
      BY <1>1, <1>7, SameAnswers DEF PairsFresh, Reconciles!Used
<1> QED BY <1>1, <1>5, <1>6, <1>7 DEF ReconcilesInv

LEMMA ReconcilesLink ==
    ASSUME ReconcilesInv, NEW r \in Requests,
           Reconciles!LinkSuggested(r) \/ Reconciles!LinkManual(r) \/ Reconciles!Unjoin(r)
    PROVE  ReconcilesInv'
<1>1. CASE Reconciles!LinkSuggested(r)
  <2>1. Reconciles!PairsToLink \subseteq Debits \X Credits
        BY ShownPairs DEF Reconciles!PairsToLink
  <2> QED BY <1>1, <2>1, ReconcilesSend DEF Reconciles!LinkSuggested
<1>2. CASE Reconciles!LinkManual(r)
  <2>1. manual \in Debits \X Credits
        BY <1>2 DEF Reconciles!LinkManual, ReconcilesInv, Reconciles!TypeOK
  <2> QED BY <1>2, <2>1, ReconcilesSend DEF Reconciles!LinkManual
<1>3. CASE Reconciles!Unjoin(r)
  <2>1. PICK p \in Reconciles!Shown("history") : Reconciles!Send(r, "delete", {p})
        BY <1>3 DEF Reconciles!Unjoin
  <2>2. {p} \subseteq Debits \X Credits
        BY ShownPairs
  <2> QED BY <1>3, <2>1, <2>2, ReconcilesSend DEF Reconciles!Unjoin
<1> QED BY <1>1, <1>2, <1>3


LEMMA ReconcilesServe ==
    ASSUME ReconcilesInv, NEW r \in Requests, Reconciles!Serve(r)
    PROVE  ReconcilesInv'
<1> USE DEF Reconciles!view
<1>1. PICK p \in req[r].sent, written \in BOOLEAN, answered \in BOOLEAN :
        /\ answered => written
        /\ joined' = IF ~written THEN joined ELSE IF req[r].kind = "join" THEN joined \cup {p} ELSE joined \ {p}
        /\ req' = [req EXCEPT ![r] = Reconciles!After(@, p, written, answered)]
        /\ behind' = IF written /\ req[r].settled THEN Reconciles!Keys ELSE behind
      BY DEF Reconciles!Serve
<1>2. req[r] # None /\ UNCHANGED <<tab, window, searching, deselected, manual, cache, fetch>>
      BY DEF Reconciles!Serve
<1>3. req[r] \in Reconciles!Batch
      BY <1>2 DEF ReconcilesInv, Reconciles!TypeOK
<1>4. DOMAIN req = Requests
      BY DEF ReconcilesInv, Reconciles!TypeOK
<1> DEFINE m == Reconciles!After(req[r], p, written, answered)
<1>5. req'[r] = m /\ DOMAIN req' = Requests /\ \A q \in Requests : q # r => req'[q] = req[q]
      BY <1>1, <1>4
<1>6. m \in Reconciles!Batch /\ m.settled = req[r].settled /\ (m.written <=> req[r].written \/ written)
  <2>1. /\ req[r].kind \in {"join", "delete"} /\ req[r].sent \in SUBSET Reconciles!Pairs
        /\ req[r].written \in BOOLEAN /\ req[r].refused \in BOOLEAN /\ req[r].settled \in BOOLEAN
        BY <1>3 DEF Reconciles!Batch
  <2>2. m = [kind |-> req[r].kind, sent |-> req[r].sent \ {p}, written |-> req[r].written \/ written,
             refused |-> req[r].refused \/ ~answered, settled |-> req[r].settled]
        BY DEF Reconciles!After
  <2>3. m \in Reconciles!Batch
        BY <2>1, <2>2 DEF Reconciles!Batch
  <2>4. m.settled = req[r].settled /\ m.written = (req[r].written \/ written)
        BY <2>2
  <2> QED BY <2>1, <2>3, <2>4
<1>7. p \in Debits \X Credits
      BY <1>3, BatchIs
<1> HIDE DEF m
<1>8. Reconciles!TypeOK'
  <2>1. joined' \subseteq Reconciles!Pairs /\ behind' \subseteq Reconciles!Keys
        BY <1>1, <1>7 DEF ReconcilesInv, Reconciles!TypeOK, Reconciles!Pairs
  <2>2. \A q \in Requests : req'[q] = None \/ req'[q] \in Reconciles!Batch
        BY <1>5, <1>6 DEF ReconcilesInv, Reconciles!TypeOK
  <2> QED BY <1>2, <1>5, <2>1, <2>2 DEF ReconcilesInv, Reconciles!TypeOK, Reconciles!Fits
<1>9. ASSUME NoBatch', NEW j \in Reconciles!Keys \ behind'
      PROVE  PairsFresh(j)'
  <2>1. m.settled \/ ~m.written
        BY <1>5, <1>6, <1>9, BatchIs DEF NoBatch
  <2>2. ~written
        BY <1>1, <1>6, <1>9, <2>1
  <2>3. NoBatch
        BY <1>5, <1>6, <1>9, <2>1, <2>2 DEF NoBatch
  <2>4. joined' = joined /\ behind' = behind
        BY <1>1, <2>2
  <2>5. PairsFresh(j)
        BY <1>9, <2>3, <2>4 DEF ReconcilesInv
  <2> QED BY <1>2, <2>4, <2>5, SameAnswers DEF PairsFresh, Reconciles!Used
<1> QED BY <1>8, <1>9 DEF ReconcilesInv

LEMMA ReconcilesLinked ==
    ASSUME ReconcilesInv, NEW r \in Requests, Reconciles!Linked(r)
    PROVE  ReconcilesInv'
<1> DEFINE u == Reconciles!Used(tab, window)
<1>1. /\ Reconciles!HandleSuccess /\ req' = [req EXCEPT ![r] = None]
      /\ UNCHANGED <<joined, tab, window, searching, cache>>
      /\ (deselected' = {} /\ manual' = <<None, None>>) \/ UNCHANGED <<deselected, manual>>
      BY DEF Reconciles!Linked
<1>2. /\ DOMAIN req = Requests /\ DOMAIN fetch = Reconciles!Keys /\ u \in Reconciles!Keys
      BY UsedKey DEF ReconcilesInv, Reconciles!TypeOK
<1>3. /\ DOMAIN fetch' = Reconciles!Keys /\ fetch'[u] = IF Reconciles!Kept(u) THEN fetch[u] ELSE Asked
      /\ \A k \in Reconciles!Keys : k # u => fetch'[k] = fetch[k]
      /\ behind' = behind \cup {k \in Reconciles!Keys : Reconciles!Kept(k)}
      BY <1>1, <1>2 DEF Reconciles!HandleSuccess
<1>4. DOMAIN req' = Requests /\ req'[r] = None /\ \A q \in Requests : q # r => req'[q] = req[q]
      BY <1>1, <1>2
<1> HIDE DEF u
<1>5. Reconciles!TypeOK'
  <2>1. deselected' \subseteq Debits /\ manual' \in (Debits \cup {None}) \X (Credits \cup {None})
        BY <1>1 DEF ReconcilesInv, Reconciles!TypeOK
  <2>2. behind' \subseteq Reconciles!Keys
        BY <1>3 DEF ReconcilesInv, Reconciles!TypeOK
  <2>3. \A k \in Reconciles!Keys : fetch'[k] \in {None, Asked} \/ Reconciles!Fits(k, fetch'[k])
        BY <1>3 DEF ReconcilesInv, Reconciles!TypeOK
  <2> QED BY <1>1, <1>3, <1>4, <2>1, <2>2, <2>3 DEF ReconcilesInv, Reconciles!TypeOK, Reconciles!Fits
<1>6. ASSUME NEW j \in Reconciles!Keys \ behind'
      PROVE  PairsFresh(j)'
  <2>0. ~Reconciles!Kept(j)
        BY <1>3, <1>6
  <2>1. CASE j = u
        BY <1>3, <2>0, <2>1 DEF PairsFresh
  <2>2. CASE j # u
    <3>1. fetch'[j] \in {None, Asked}
          BY <1>3, <2>0, <2>2 DEF Reconciles!Kept, u
    <3>2. j # Reconciles!Used(tab, window)'
          BY <1>1, <2>2 DEF u, Reconciles!Used
    <3> QED BY <3>1, <3>2 DEF PairsFresh
  <2> QED BY <2>1, <2>2
<1> QED BY <1>5, <1>6 DEF ReconcilesInv

LEMMA ReconcilesRefused ==
    ASSUME ReconcilesInv, NEW r \in Requests, Reconciles!Refused(r)
    PROVE  ReconcilesInv'
<1> USE DEF Reconciles!view
<1> DEFINE m == [req[r] EXCEPT !.settled = TRUE]
<1>1. /\ req[r] # None /\ req' = [req EXCEPT ![r].settled = TRUE]
      /\ behind' = IF req[r].written THEN Reconciles!Keys ELSE behind
      /\ UNCHANGED <<joined, tab, window, searching, deselected, manual, cache, fetch>>
      BY DEF Reconciles!Refused
<1>2. DOMAIN req = Requests /\ req[r] \in Reconciles!Batch
      BY <1>1 DEF ReconcilesInv, Reconciles!TypeOK
<1>3. req'[r] = m /\ DOMAIN req' = Requests /\ \A q \in Requests : q # r => req'[q] = req[q]
      BY <1>1, <1>2
<1>4. m \in Reconciles!Batch
      BY <1>2 DEF Reconciles!Batch
<1> HIDE DEF m
<1>5. Reconciles!TypeOK'
      BY <1>1, <1>3, <1>4 DEF ReconcilesInv, Reconciles!TypeOK, Reconciles!Fits
<1>6. ~req[r].written /\ NoBatch' => NoBatch
      BY <1>3 DEF NoBatch
<1>7. ASSUME NEW k, PairsFresh(k) PROVE PairsFresh(k)'
      BY <1>1, <1>7, SameAnswers DEF PairsFresh, Reconciles!Used
<1>8. CASE req[r].written
      BY <1>1, <1>5, <1>8 DEF ReconcilesInv
<1>9. CASE ~req[r].written
      BY <1>1, <1>5, <1>6, <1>7, <1>9 DEF ReconcilesInv
<1> QED BY <1>8, <1>9

LEMMA ReconcilesForgotten ==
    ASSUME ReconcilesInv, NEW r \in Requests, Reconciles!Forgotten(r)
    PROVE  ReconcilesInv'
<1> USE DEF Reconciles!view
<1>1. /\ req[r] # None /\ req[r].settled /\ req' = [req EXCEPT ![r] = None]
      /\ UNCHANGED <<joined, tab, window, searching, deselected, manual, cache, fetch, behind>>
      BY DEF Reconciles!Forgotten
<1>2. DOMAIN req = Requests
      BY DEF ReconcilesInv, Reconciles!TypeOK
<1>3. req'[r] = None /\ DOMAIN req' = Requests /\ \A q \in Requests : q # r => req'[q] = req[q]
      BY <1>1, <1>2
<1>4. Reconciles!TypeOK'
      BY <1>1, <1>3 DEF ReconcilesInv, Reconciles!TypeOK, Reconciles!Fits
<1>5. NoBatch' => NoBatch
      BY <1>1, <1>3 DEF NoBatch
<1>6. ASSUME NEW k, PairsFresh(k) PROVE PairsFresh(k)'
      BY <1>1, <1>6, SameAnswers DEF PairsFresh, Reconciles!Used
<1> QED BY <1>1, <1>4, <1>5, <1>6 DEF ReconcilesInv

LEMMA ReconcilesShown ==
    ASSUME ReconcilesInv
    PROVE  Reconciles!TypeOK /\ Reconciles!QuietShowsServer
<1> DEFINE k == Reconciles!Used(tab, window)
<1>1. Reconciles!TypeOK /\ k \in Reconciles!Keys
      BY UsedKey DEF ReconcilesInv, Reconciles!TypeOK
<1>2. ASSUME \A r \in Requests : req[r] = None, fetch[k] = None, k \notin behind
      PROVE  cache[k] \in Reconciles!Answers(k)
  <2>1. PairsFresh(k)
        BY <1>1, <1>2 DEF ReconcilesInv, NoBatch
  <2>2. None \notin Reconciles!Answers(k)
        BY <1>1, PairAnswers
  <2> HIDE DEF k
  <2> QED BY <1>2, <2>1, <2>2, Marks DEF PairsFresh, k
<1> QED BY <1>1, <1>2 DEF Reconciles!QuietShowsServer

-----------------------------------------------------------------------------
(* The pages of subscriptions                                               *)

\* What nobody has approved yet is on no page, in no list and in no call.
UnbornUnknown ==
    \A s \in Subs : subs[s] = Unborn =>
        /\ page # Detail(s)
        /\ \A k \in KeysOf(s) : fetch[k] = None
        /\ cache[<<"subs">>] # None => s \notin DOMAIN cache[<<"subs">>]
        /\ fetch[<<"subs">>] \notin {None, Asked} => s \notin DOMAIN fetch[<<"subs">>]
        /\ \A r \in Requests : req[r] # None /\ req[r].kind \notin OfMerchant => req[r].about # s

\* A letter is asked for on the page of a subscription.
PreviewsOnPage ==
    \A r \in Requests : req[r] # None /\ req[r].kind = "preview" /\ req[r].here => page.at = "detail"

\* As long as no page has turned to another subscription, what it keeps and what
\* it has sent are of the one it shows.
WrittenForPage ==
    \/ jumped
    \/ /\ form # None => form.of = page.id
       /\ letter # None => letter = page.id
       /\ \A r \in Requests : req[r] # None =>
            /\ req[r].kind = "preview" /\ req[r].here => req[r].about = page.id
            /\ req[r].kind = "update" => req[r].about = req[r].what.of
            /\ req[r].kind = "cancel" => req[r].about = req[r].what

\* A call that was done and answered, of which a query is to be told.
Tells(m, k) == m # None /\ m.stage = "done" /\ k \in Invalid(m, m.about)

\* A query of the list, or of a subscription that is still there.
Live(k) == k[1] \in {"sub", "txs", "log"} => Stored(k[2])

\* What a query has, or will have once its answer is there; of those that the
\* page does not use only the answers on their way count.
SubscriptionFresh(k) ==
    Live(k) /\ (\A r \in Requests : ~Tells(req[r], k)) =>
        \/ fetch[k] = Asked
        \/ fetch[k] = None /\ (k \in Used(page) => cache[k] = Answer(k))
        \/ fetch[k] = Answer(k)

SubscriptionsInv ==
    /\ TypeOK /\ SentAsWritten
    /\ UnbornUnknown /\ PreviewsOnPage /\ WrittenForPage
    /\ \A k \in Keys \ behind : SubscriptionFresh(k)

LEMMA SubscriptionKeys ==
    /\ \A k \in Keys : \/ k \in {<<"subs">>, <<"suggested">>, <<"declined">>}
                       \/ \E s \in Subs : k \in {<<"sub", s>>, <<"txs", s>>, <<"log", s>>}
    /\ {<<"subs">>, <<"suggested">>, <<"declined">>} \subseteq Keys
    /\ \A s \in Subs : {<<"sub", s>>, <<"txs", s>>, <<"log", s>>} \subseteq Keys
BY DEF Keys, ListKeys, KeysOf

LEMMA SubscriptionAnswers ==
    /\ \A s : s \in Sub => s \notin {Unborn, Gone, None, Asked}
    /\ \A a : a \subseteq Merchants => a \notin {None, Asked}
    /\ \A a : a \subseteq Txns => a \notin {None, Asked}
    /\ \A T : T \subseteq Subs => \A a \in [T -> Sub] : a \notin {None, Asked}
    /\ \A n : n \in Nat \cup Subs \cup Form => n \notin {None, Asked}
BY SubscriptionMarks

LEMMA AnswerFits ==
    ASSUME TypeOK, NEW k \in Keys, Known(k)
    PROVE  Fits(k, Answer(k)) /\ Answer(k) \notin {None, Asked}
<1>0. subs \in [Subs -> Sub \cup {Unborn, Gone}] /\ declined \subseteq Merchants /\ log \in [Subs -> Nat]
      BY DEF TypeOK
<1>1. CASE k = <<"subs">>
  <2>1. \A s \in Tracked : subs[s] \in Sub
        BY <1>0 DEF Tracked, Stored
  <2>2. Tracked \subseteq Subs
        BY DEF Tracked
  <2>3. [s \in Tracked |-> subs[s]] \in [Tracked -> Sub]
        BY <2>1
  <2>4. Answer(k) = [s \in Tracked |-> subs[s]]
        BY <1>1 DEF Answer
  <2>5. Answer(k) \in UNION {[T -> Sub] : T \in SUBSET Subs}
        BY <2>2, <2>3, <2>4
  <2>6. Fits(k, Answer(k))
        BY <1>1, <2>5 DEF Fits
  <2> QED BY <2>2, <2>3, <2>4, <2>6, SubscriptionAnswers
<1>2. CASE k = <<"suggested">>
  <2>1. Answer(k) = Suggested
        BY <1>2 DEF Answer
  <2>2. Suggested \subseteq Merchants
        BY DEF Suggested
  <2> QED BY <1>2, <2>1, <2>2, SubscriptionAnswers DEF Fits
<1>3. CASE k = <<"declined">>
  <2>1. Answer(k) = declined
        BY <1>3 DEF Answer
  <2> QED BY <1>0, <1>3, <2>1, SubscriptionAnswers DEF Fits
<1>4. ASSUME NEW s \in Subs, k = <<"sub", s>> PROVE Fits(k, Answer(k)) /\ Answer(k) \notin {None, Asked}
  <2>1. Answer(k) = subs[s] /\ Stored(s)
        BY <1>4 DEF Answer, Known
  <2>2. subs[s] \in Sub
        BY <1>0, <2>1 DEF Stored
  <2> QED BY <1>4, <2>1, <2>2, SubscriptionAnswers DEF Fits
<1>5. ASSUME NEW s \in Subs, k = <<"txs", s>> PROVE Fits(k, Answer(k)) /\ Answer(k) \notin {None, Asked}
  <2>1. Answer(k) \subseteq Txns
        BY <1>5 DEF Answer
  <2> QED BY <1>5, <2>1, SubscriptionAnswers DEF Fits
<1>6. ASSUME NEW s \in Subs, k = <<"log", s>> PROVE Fits(k, Answer(k)) /\ Answer(k) \notin {None, Asked}
  <2>1. Answer(k) = log[s]
        BY <1>6 DEF Answer
  <2> QED BY <1>0, <1>6, <2>1, SubscriptionAnswers DEF Fits
<1> QED BY <1>1, <1>2, <1>3, <1>4, <1>5, <1>6, SubscriptionKeys

LEMMA CallIs ==
    ASSUME NEW kind \in Kinds, NEW m \in Call(kind)
    PROVE  /\ m # None /\ m.kind = kind /\ m.about \in About(kind) /\ m.what \in What(kind)
           /\ m.here \in BOOLEAN /\ m.stage \in {"sent", "done", "failed"}
           /\ m = [kind |-> kind, about |-> m.about, what |-> m.what, here |-> m.here, stage |-> m.stage]
BY SubscriptionMarks DEF Call

LEMMA SentIs ==
    ASSUME NEW kind \in Kinds, NEW about \in About(kind), NEW what \in What(kind)
    PROVE  /\ Sent(kind, about, what) \in Call(kind)
           /\ Sent(kind, about, what).kind = kind /\ Sent(kind, about, what).about = about
           /\ Sent(kind, about, what).what = what /\ Sent(kind, about, what).stage = "sent"
BY DEF Call, Sent

LEMMA LeftIs ==
    ASSUME NEW kind \in Kinds, NEW m \in Call(kind)
    PROVE  /\ Left(m) \in Call(kind) /\ Left(m).kind = kind /\ Left(m).about = m.about
           /\ Left(m).what = m.what /\ Left(m).stage = m.stage /\ Left(m).here = FALSE
<1>1. ASSUME NEW about, NEW what, NEW here, NEW stage, NEW no,
             m = [kind |-> kind, about |-> about, what |-> what, here |-> here, stage |-> stage]
      PROVE  [m EXCEPT !.here = no] = [kind |-> kind, about |-> about, what |-> what, here |-> no, stage |-> stage]
      BY <1>1
<1>e. m = [kind |-> kind, about |-> m.about, what |-> m.what, here |-> m.here, stage |-> m.stage]
      BY CallIs
<1>2. Left(m) = [kind |-> kind, about |-> m.about, what |-> m.what, here |-> FALSE, stage |-> m.stage]
      BY <1>1, <1>e, Zenon DEF Left
<1>3. m.about \in About(kind) /\ m.what \in What(kind) /\ m.stage \in {"sent", "done", "failed"}
      BY CallIs
<1>4. [kind |-> kind, about |-> m.about, what |-> m.what, here |-> FALSE, stage |-> m.stage] \in Call(kind)
      BY <1>3 DEF Call
<1>5. Left(m) \in Call(kind)
      BY <1>2, <1>4
<1>6. Left(m).kind = kind /\ Left(m).about = m.about /\ Left(m).what = m.what /\ Left(m).stage = m.stage
      BY <1>2
<1>7. Left(m).here = FALSE
      BY <1>2
<1> QED BY <1>5, <1>6, <1>7

LEMMA AnsweredIs ==
    ASSUME NEW kind \in Kinds, NEW m \in Call(kind), NEW stage \in {"sent", "done", "failed"}
    PROVE  /\ Answered(m, stage) \in Call(kind) /\ Answered(m, stage).kind = kind
           /\ Answered(m, stage).about = m.about /\ Answered(m, stage).what = m.what
           /\ Answered(m, stage).stage = stage /\ Answered(m, stage).here = m.here
<1>1. ASSUME NEW about, NEW what, NEW here, NEW old,
             m = [kind |-> kind, about |-> about, what |-> what, here |-> here, stage |-> old]
      PROVE  [m EXCEPT !.stage = stage] = [kind |-> kind, about |-> about, what |-> what, here |-> here, stage |-> stage]
      BY <1>1
<1>e. m = [kind |-> kind, about |-> m.about, what |-> m.what, here |-> m.here, stage |-> m.stage]
      BY CallIs
<1>2. Answered(m, stage) = [kind |-> kind, about |-> m.about, what |-> m.what, here |-> m.here, stage |-> stage]
      BY <1>1, <1>e, Zenon DEF Answered
<1>3. m.about \in About(kind) /\ m.what \in What(kind) /\ m.here \in BOOLEAN
      BY CallIs
<1>4. [kind |-> kind, about |-> m.about, what |-> m.what, here |-> m.here, stage |-> stage] \in Call(kind)
      BY <1>3 DEF Call
<1>5. Answered(m, stage) \in Call(kind)
      BY <1>2, <1>4
<1>6. /\ Answered(m, stage).kind = kind /\ Answered(m, stage).about = m.about
      /\ Answered(m, stage).what = m.what /\ Answered(m, stage).stage = stage
      BY <1>2
<1>7. Answered(m, stage).here = m.here
      BY <1>2
<1> QED BY <1>5, <1>6, <1>7

LEMMA SameAnswersHere ==
    ASSUME UNCHANGED <<subs, link, log, declined, tolerant>>
    PROVE  /\ \A k : Answer(k)' = Answer(k)
           /\ \A k : Live(k)' <=> Live(k)
           /\ Tracked' = Tracked
<1>1. Tracked' = Tracked /\ \A s : Stored(s)' <=> Stored(s)
      BY DEF Tracked, Stored
<1>2. Suggested' = Suggested
      BY <1>1 DEF Suggested
<1>3. \A k : Live(k)' <=> Live(k)
      BY <1>1 DEF Live
<1> QED BY <1>1, <1>2, <1>3 DEF Answer

LEMMA SubscriptionsStart ==
    ASSUME Init
    PROVE  SubscriptionsInv
<1> USE DEF Init
<1>1. PICK T \in SUBSET Subs, m \in Merchants \ Faint, a \in Accounts \cup {None} :
        subs = [s \in Subs |-> IF s \in T THEN [of |-> m, text |-> "found", account |-> a, status |-> "active"]
                               ELSE Unborn]
      OBVIOUS
<1>2. subs \in [Subs -> Sub \cup {Unborn, Gone}]
  <2>1. [of |-> m, text |-> "found", account |-> a, status |-> "active"] \in Sub
        BY DEF Sub
  <2> QED BY <1>1, <2>1
<1>3. Tracked \subseteq Subs
      BY DEF Tracked
<1>4. page = ListPage /\ page \in Page /\ page.at = "list" /\ page.id = None
      BY DEF ListPage, Page
<1>5. TypeOK
  <2>1. link \in [Txns -> Subs \cup {None}] /\ log \in [Subs -> Nat]
        BY <1>3
  <2>2. /\ DOMAIN cache = Keys /\ DOMAIN fetch = Keys /\ DOMAIN req = Requests
        /\ \A k \in Keys : cache[k] = None /\ fetch[k] \in {None, Asked}
        /\ \A r \in Requests : req[r] = None
        OBVIOUS
  <2>3. scope = [clicks |-> scope.clicks, left |-> scope.left, queries |-> scope.queries]
        BY SubscriptionMarks
  <2> QED BY <1>2, <1>4, <2>1, <2>2, <2>3 DEF TypeOK
<1>6. SentAsWritten /\ PreviewsOnPage /\ WrittenForPage
      BY DEF SentAsWritten, PreviewsOnPage, WrittenForPage
<1>7. UnbornUnknown
  <2>1. \A s \in Subs : page # Detail(s)
        BY <1>4 DEF Detail
  <2>2. \A s \in Subs : \A k \in KeysOf(s) : k \in Keys /\ k \notin Used(page)
        BY <1>4 DEF Keys, KeysOf, ListKeys, Used
  <2>3. \A s \in Subs : \A k \in KeysOf(s) : fetch[k] = None
        BY <2>2
  <2>4. cache[<<"subs">>] = None /\ fetch[<<"subs">>] \in {None, Asked}
        BY SubscriptionKeys
  <2>5. \A r \in Requests : req[r] = None
        OBVIOUS
  <2> QED BY <2>1, <2>3, <2>4, <2>5 DEF UnbornUnknown
<1>8. \A k \in Keys : SubscriptionFresh(k)
      BY DEF SubscriptionFresh
<1> QED BY <1>5, <1>6, <1>7, <1>8 DEF SubscriptionsInv

-----------------------------------------------------------------------------
\* A click keeps what is said of the scope.
LEMMA ScopeKept ==
    ASSUME TypeOK, scope' = scope \/ \E kind : Click(kind)
    PROVE  /\ scope' = [clicks |-> scope'.clicks, left |-> scope'.left, queries |-> scope'.queries]
           /\ \A p : Used(p)' = Used(p)
<1>1. scope = [clicks |-> scope.clicks, left |-> scope.left, queries |-> scope.queries]
      BY DEF TypeOK
<1>2. ASSUME NEW c, NEW l, NEW q, NEW n, scope = [clicks |-> c, left |-> l, queries |-> q]
      PROVE  [scope EXCEPT !.left = n] = [clicks |-> c, left |-> n, queries |-> q]
      BY <1>2
<1>3. scope' = scope \/ scope' = [clicks |-> scope.clicks, left |-> scope.left - 1, queries |-> scope.queries]
  <2>1. CASE \E kind : Click(kind)
    <3>1. scope' = [scope EXCEPT !.left = scope.left - 1]
          BY <2>1 DEF Click
    <3> QED BY <1>1, <1>2, <3>1
  <2> QED BY <2>1
<1>4. scope'.queries = scope.queries
      BY <1>3
<1>5. scope' = [clicks |-> scope'.clicks, left |-> scope'.left, queries |-> scope'.queries]
      BY <1>1, <1>3
<1> QED BY <1>4, <1>5 DEF Used

LEMMA FreshKept ==
    ASSUME SubscriptionsInv, UNCHANGED <<subs, link, log, declined, tolerant, fetch, cache, behind, page>>,
           \A p : Used(p)' = Used(p),
           \A k \in Keys, r \in Requests : Tells(req[r], k) => \E q \in Requests : Tells(req'[q], k)
    PROVE  \A k \in Keys \ behind' : SubscriptionFresh(k)'
<1> SUFFICES ASSUME NEW k \in Keys \ behind, Live(k)', \A r \in Requests : ~Tells(req'[r], k)
             PROVE  \/ fetch[k] = Asked
                    \/ fetch[k] = None /\ (k \in Used(page) => cache[k] = Answer(k))
                    \/ fetch[k] = Answer(k)
    BY SameAnswersHere DEF SubscriptionFresh, Tells
<1>1. Live(k) /\ \A r \in Requests : ~Tells(req[r], k)
      BY SameAnswersHere
<1> QED BY <1>1 DEF SubscriptionsInv, SubscriptionFresh

\* A call that a page may send.
GoodSend(r, kind, about, what) ==
    /\ req[r] = None /\ req' = [req EXCEPT ![r] = Sent(kind, about, what)]
    /\ about \in About(kind) /\ what \in What(kind)
    /\ kind \notin OfMerchant => subs[about] # Unborn
    /\ kind = "preview" => page.at = "detail" /\ (jumped \/ about = page.id)
    /\ kind = "update" => jumped \/ about = what.of
    /\ kind = "cancel" => jumped \/ about = what

LEMMA GoodSendKeeps ==
    ASSUME SubscriptionsInv, NEW r \in Requests, NEW kind \in Kinds, NEW about, NEW what, GoodSend(r, kind, about, what),
           UNCHANGED <<subs, page, jumped>>
    PROVE  /\ DOMAIN req' = Requests
           /\ \A q \in Requests : req'[q] = None \/ \E k \in Kinds : req'[q] \in Call(k)
           /\ \A q \in Requests \ {r} : req'[q] = req[q]
           /\ \A k : ~Tells(req[r], k) /\ ~Tells(req'[r], k)
           /\ req'[r].kind = kind /\ req'[r].about = about /\ req'[r].what = what /\ req'[r] # None
<1>1. DOMAIN req = Requests
      BY DEF SubscriptionsInv, TypeOK
<1>2. DOMAIN req' = Requests /\ req'[r] = Sent(kind, about, what) /\ \A q \in Requests \ {r} : req'[q] = req[q]
      BY <1>1 DEF GoodSend
<1>3. /\ req'[r] \in Call(kind) /\ req'[r].kind = kind /\ req'[r].about = about
      /\ req'[r].what = what /\ req'[r].stage = "sent"
      BY <1>2, SentIs DEF GoodSend
<1>4. req'[r] # None
      BY <1>3, CallIs
<1>5. \A q \in Requests : req'[q] = None \/ \E k \in Kinds : req'[q] \in Call(k)
      BY <1>2, <1>3 DEF SubscriptionsInv, TypeOK
<1>6. \A k : ~Tells(req[r], k) /\ ~Tells(req'[r], k)
      BY <1>3 DEF Tells, GoodSend
<1> QED BY <1>2, <1>3, <1>4, <1>5, <1>6

\* What a click does that leaves the page where it is.
LEMMA ClickKeeps ==
    ASSUME SubscriptionsInv,
           UNCHANGED <<subs, link, log, declined, tolerant, enriching, page, jumped, cache, fetch, behind, sent>>,
           scope' = scope \/ \E kind : Click(kind),
           form' \in Form \cup {None}, letter' \in Subs \cup {None}, modal' \in BOOLEAN,
           page.at # "detail" => form' = None /\ letter' = None /\ ~modal',
           jumped \/ ((form' # None => form'.of = page.id) /\ (letter' # None => letter' = page.id)),
           req' = req \/ \E r \in Requests, kind \in Kinds : \E about, what : GoodSend(r, kind, about, what)
    PROVE  SubscriptionsInv'
<1>1. /\ DOMAIN req' = Requests
      /\ \A q \in Requests : req'[q] = None \/ \E k \in Kinds : req'[q] \in Call(k)
  <2>1. CASE req' = req
        BY <2>1 DEF SubscriptionsInv, TypeOK
  <2>2. CASE \E r \in Requests, kind \in Kinds : \E about, what : GoodSend(r, kind, about, what)
        BY <2>2, GoodSendKeeps
  <2> QED BY <2>1, <2>2
<1>2. TypeOK'
  <2>1. Tracked' = Tracked
        BY SameAnswersHere
  <2>2. scope' = [clicks |-> scope'.clicks, left |-> scope'.left, queries |-> scope'.queries]
        BY ScopeKept DEF SubscriptionsInv
  <2> QED BY <1>1, <2>1, <2>2 DEF SubscriptionsInv, TypeOK, Fits
<1>3. SentAsWritten'
      BY DEF SubscriptionsInv, SentAsWritten
<1>4. UnbornUnknown' /\ PreviewsOnPage' /\ WrittenForPage'
  <2>1. CASE req' = req
        BY <2>1 DEF SubscriptionsInv, UnbornUnknown, PreviewsOnPage, WrittenForPage
  <2>2. ASSUME NEW r \in Requests, NEW kind \in Kinds, NEW about, NEW what, GoodSend(r, kind, about, what)
        PROVE  UnbornUnknown' /\ PreviewsOnPage' /\ WrittenForPage'
    <3>1. /\ \A q \in Requests \ {r} : req'[q] = req[q]
          /\ req'[r].kind = kind /\ req'[r].about = about /\ req'[r].what = what /\ req'[r] # None
          BY <2>2, GoodSendKeeps
    <3>2. UnbornUnknown'
          BY <2>2, <3>1 DEF SubscriptionsInv, UnbornUnknown, GoodSend
    <3>3. PreviewsOnPage'
          BY <2>2, <3>1 DEF SubscriptionsInv, PreviewsOnPage, GoodSend
    <3>4. WrittenForPage'
          BY <2>2, <3>1 DEF SubscriptionsInv, WrittenForPage, GoodSend
    <3> QED BY <3>2, <3>3, <3>4
  <2> QED BY <2>1, <2>2
<1>5. \A k \in Keys \ behind' : SubscriptionFresh(k)'
  <2>1. \A k \in Keys, r \in Requests : Tells(req[r], k) => \E q \in Requests : Tells(req'[q], k)
    <3>1. CASE req' = req
          BY <3>1
    <3>2. ASSUME NEW r \in Requests, NEW kind \in Kinds, NEW about, NEW what, GoodSend(r, kind, about, what)
          PROVE  \A k \in Keys, q \in Requests : Tells(req[q], k) => Tells(req'[q], k)
      <4>1. \A q \in Requests \ {r} : req'[q] = req[q]
            BY <3>2, GoodSendKeeps
      <4>2. \A k : ~Tells(req[r], k)
            BY <3>2, GoodSendKeeps
      <4> QED BY <4>1, <4>2
    <3> QED BY <3>1, <3>2
  <2> QED BY <2>1, ScopeKept, FreshKept DEF SubscriptionsInv
<1> QED BY <1>2, <1>3, <1>4, <1>5 DEF SubscriptionsInv

\* What a page can be clicked on about.
LEMMA Clickable ==
    ASSUME SubscriptionsInv
    PROVE  /\ Shown(<<"suggested">>, {}) \subseteq Merchants /\ Shown(<<"declined">>, {}) \subseteq Merchants
           /\ DOMAIN Rows \subseteq {s \in Subs : subs[s] # Unborn}
           /\ Loaded => page = Detail(page.id) /\ page.id \in Subs /\ subs[page.id] # Unborn /\ This \in Sub
           /\ Loaded => Shown(<<"txs", page.id>>, {}) \subseteq Txns
<1> DEFINE c(k) == cache[k] = None \/ Fits(k, cache[k])
<1>1. \A k \in Keys : c(k)
      BY DEF SubscriptionsInv, TypeOK
<1>2. Shown(<<"suggested">>, {}) \subseteq Merchants /\ Shown(<<"declined">>, {}) \subseteq Merchants
  <2>1. c(<<"suggested">>) /\ c(<<"declined">>)
        BY <1>1, SubscriptionKeys
  <2> QED BY <2>1 DEF Shown, Fits
<1>3. DOMAIN Rows \subseteq {s \in Subs : subs[s] # Unborn}
  <2>1. c(<<"subs">>)
        BY <1>1, SubscriptionKeys
  <2>2. CASE cache[<<"subs">>] = None
        BY <2>2 DEF Rows, Shown
  <2>3. CASE cache[<<"subs">>] # None
    <3>1. Rows = cache[<<"subs">>]
          BY <2>3 DEF Rows, Shown
    <3>2. PICK T \in SUBSET Subs : Rows \in [T -> Sub]
          BY <2>1, <2>3, <3>1 DEF Fits
    <3>3. \A s \in T : subs[s] # Unborn
          BY <2>3, <3>1, <3>2 DEF SubscriptionsInv, UnbornUnknown
    <3> QED BY <3>2, <3>3
  <2> QED BY <2>2, <2>3
<1>4. ASSUME Loaded
      PROVE  page = Detail(page.id) /\ page.id \in Subs /\ subs[page.id] # Unborn /\ This \in Sub
  <2>1. page.at = "detail" /\ page \in Page /\ This \in Sub
        BY <1>4 DEF Loaded, This, SubscriptionsInv, TypeOK
  <2>2. page = Detail(page.id) /\ page.id \in Subs
        BY <2>1 DEF Page, Detail
  <2>3. subs[page.id] # Unborn
        BY <2>2 DEF SubscriptionsInv, UnbornUnknown
  <2> QED BY <2>1, <2>2, <2>3
<1>5. ASSUME Loaded PROVE Shown(<<"txs", page.id>>, {}) \subseteq Txns
  <2>1. c(<<"txs", page.id>>)
        BY <1>1, <1>4, <1>5, SubscriptionKeys
  <2> QED BY <2>1 DEF Shown, Fits
<1> QED BY <1>2, <1>3, <1>4, <1>5

\* The form and the letter of a page that stays.
LEMMA SubscriptionsForm ==
    ASSUME SubscriptionsInv, StartEdit \/ Edit \/ CancelEdit \/ CloseLetter
    PROVE  SubscriptionsInv'
<1> USE DEF GoodSend
<1>0. /\ form \in Form \cup {None} /\ letter \in Subs \cup {None} /\ modal \in BOOLEAN
      /\ page.at # "detail" => form = None /\ letter = None /\ ~modal
      /\ jumped \/ ((form # None => form.of = page.id) /\ (letter # None => letter = page.id))
      BY DEF SubscriptionsInv, TypeOK, WrittenForPage
<1>1. CASE StartEdit
  <2>1. FormOf(page.id, This) \in Form /\ FormOf(page.id, This).of = page.id
        BY <1>1, Clickable DEF StartEdit, FormOf, Form, Sub
  <2>2. page.at = "detail"
        BY <1>1 DEF StartEdit, Loaded
  <2> QED BY <1>0, <1>1, <2>1, <2>2, ClickKeeps DEF StartEdit, server
<1>2. CASE Edit
  <2>1. form \in Form /\ page.at = "detail"
        BY <1>0, <1>2 DEF Edit, Loaded
  <2>2. form' \in Form /\ form'.of = form.of
        BY <1>2, <2>1 DEF Edit, Form
  <2>3. form # None
        BY <1>2 DEF Edit
  <2> QED BY <1>0, <1>2, <2>1, <2>2, <2>3, ClickKeeps DEF Edit, server
<1>3. CASE CancelEdit
      BY <1>0, <1>3, ClickKeeps DEF CancelEdit, server
<1>4. CASE CloseLetter
      BY <1>0, <1>4, ClickKeeps DEF CloseLetter, server
<1> QED BY <1>1, <1>2, <1>3, <1>4

LEMMA SendIsGood ==
    ASSUME NEW r, NEW kind \in Kinds, NEW about, NEW what, Send(r, kind, about, what),
           about \in About(kind), what \in What(kind),
           kind \notin OfMerchant => subs[about] # Unborn,
           kind = "preview" => page.at = "detail" /\ (jumped \/ about = page.id),
           kind = "update" => jumped \/ about = what.of,
           kind = "cancel" => jumped \/ about = what
    PROVE  GoodSend(r, kind, about, what)
BY DEF Send, Free, GoodSend

\* The calls of the list and of the inbox.
LEMMA SubscriptionsListCall ==
    ASSUME SubscriptionsInv, NEW r \in Requests,
           \/ Approve(r) \/ Decline(r) \/ Undecline(r) \/ Discover(r) \/ DropRow(r) \/ EnrichRow(r)
    PROVE  SubscriptionsInv'
<1>0. /\ form \in Form \cup {None} /\ letter \in Subs \cup {None} /\ modal \in BOOLEAN
      /\ page.at # "detail" => form = None /\ letter = None /\ ~modal
      /\ jumped \/ ((form # None => form.of = page.id) /\ (letter # None => letter = page.id))
      /\ tolerant \in BOOLEAN
      BY DEF SubscriptionsInv, TypeOK, WrittenForPage
<1>1. UNCHANGED view /\ \E kind : Click(kind)
      BY DEF Approve, Decline, Undecline, Discover, DropRow, EnrichRow
<1>2. \E kind \in Kinds : \E about, what : Send(r, kind, about, what) /\ GoodSend(r, kind, about, what)
  <2> USE DEF Kinds, OfMerchant, About, What
  <2>1. CASE Approve(r)
    <3>1. PICK m \in Shown(<<"suggested">>, {}) : Send(r, "approve", m, None)
          BY <2>1 DEF Approve
    <3>2. GoodSend(r, "approve", m, None)
          BY <3>1, Clickable, SendIsGood
    <3> QED BY <3>1, <3>2
  <2>2. CASE Decline(r)
    <3>1. PICK m \in Shown(<<"suggested">>, {}) : Send(r, "decline", m, None)
          BY <2>2 DEF Decline
    <3>2. GoodSend(r, "decline", m, None)
          BY <3>1, Clickable, SendIsGood
    <3> QED BY <3>1, <3>2
  <2>3. CASE Undecline(r)
    <3>1. PICK m \in Shown(<<"declined">>, {}) : Send(r, "undecline", m, None)
          BY <2>3 DEF Undecline
    <3>2. GoodSend(r, "undecline", m, None)
          BY <3>1, Clickable, SendIsGood
    <3> QED BY <3>1, <3>2
  <2>4. CASE Discover(r)
    <3>1. Send(r, "discover", None, ~tolerant)
          BY <2>4 DEF Discover
    <3>2. GoodSend(r, "discover", None, ~tolerant)
          BY <1>0, <3>1, SendIsGood
    <3> QED BY <3>1, <3>2
  <2>5. CASE DropRow(r)
    <3>1. PICK s \in DOMAIN Rows : Send(r, "drop", s, None)
          BY <2>5 DEF DropRow
    <3>2. GoodSend(r, "drop", s, None)
          BY <3>1, Clickable, SendIsGood
    <3> QED BY <3>1, <3>2
  <2>6. CASE EnrichRow(r)
    <3>1. PICK s \in DOMAIN Rows : Send(r, "enrichRow", s, None)
          BY <2>6 DEF EnrichRow
    <3>2. GoodSend(r, "enrichRow", s, None)
          BY <3>1, Clickable, SendIsGood
    <3> QED BY <3>1, <3>2
  <2> QED BY <2>1, <2>2, <2>3, <2>4, <2>5, <2>6
<1>3. UNCHANGED <<subs, link, log, declined, tolerant, enriching, cache, fetch, behind, sent>>
      BY <1>2 DEF Send, server
<1>4. UNCHANGED <<page, form, letter, modal, jumped>>
      BY <1>1 DEF view
<1> QED BY <1>0, <1>1, <1>2, <1>3, <1>4, ClickKeeps

\* The calls of the page of one subscription.
LEMMA SubscriptionsPageCall ==
    ASSUME SubscriptionsInv, NEW r \in Requests,
           \/ Save(r) \/ Enrich(r) \/ OpenLetter(r) \/ SendLetter(r) \/ Link(r) \/ Unlink(r) \/ Delete(r)
    PROVE  SubscriptionsInv'
<1>0. /\ form \in Form \cup {None} /\ letter \in Subs \cup {None} /\ modal \in BOOLEAN
      /\ page.at # "detail" => form = None /\ letter = None /\ ~modal
      /\ jumped \/ ((form # None => form.of = page.id) /\ (letter # None => letter = page.id))
      BY DEF SubscriptionsInv, TypeOK, WrittenForPage
<1>1. Loaded /\ \E kind : Click(kind)
      BY DEF Save, Enrich, OpenLetter, SendLetter, Link, Unlink, Delete
<1>2. UNCHANGED <<page, form, letter, jumped>> /\ modal' \in {modal, TRUE}
      BY DEF Save, Enrich, OpenLetter, SendLetter, Link, Unlink, Delete, view
<1>3. page = Detail(page.id) /\ page.id \in Subs /\ subs[page.id] # Unborn /\ page.at = "detail"
      BY <1>1, Clickable DEF Loaded
<1>4. \E kind \in Kinds : \E about, what : Send(r, kind, about, what) /\ GoodSend(r, kind, about, what)
  <2> USE DEF Kinds, OfMerchant, About, What
  <2>1. CASE Save(r)
    <3>1. Send(r, "update", page.id, form) /\ form # None
          BY <2>1 DEF Save
    <3>2. GoodSend(r, "update", page.id, form)
          BY <1>0, <1>3, <3>1, SendIsGood
    <3> QED BY <3>1, <3>2
  <2>2. CASE Enrich(r)
    <3>1. Send(r, "enrich", page.id, None)
          BY <2>2 DEF Enrich
    <3>2. GoodSend(r, "enrich", page.id, None)
          BY <1>3, <3>1, SendIsGood
    <3> QED BY <3>1, <3>2
  <2>3. CASE OpenLetter(r)
    <3>1. Send(r, "preview", page.id, None)
          BY <2>3 DEF OpenLetter
    <3>2. GoodSend(r, "preview", page.id, None)
          BY <1>3, <3>1, SendIsGood
    <3> QED BY <3>1, <3>2
  <2>4. CASE SendLetter(r)
    <3>1. Send(r, "cancel", page.id, letter) /\ letter # None
          BY <2>4 DEF SendLetter
    <3>2. GoodSend(r, "cancel", page.id, letter)
          BY <1>0, <1>3, <3>1, SendIsGood
    <3> QED BY <3>1, <3>2
  <2>5. CASE Link(r)
    <3>1. PICK T \in SUBSET {t \in Txns : link[t] = None} : Send(r, "link", page.id, T)
          BY <2>5 DEF Link
    <3>2. T \in SUBSET Txns
          OBVIOUS
    <3>3. GoodSend(r, "link", page.id, T)
          BY <1>3, <3>1, <3>2, SendIsGood
    <3> QED BY <3>1, <3>3
  <2>6. CASE Unlink(r)
    <3>1. PICK t \in Shown(<<"txs", page.id>>, {}) : Send(r, "unlink", page.id, {t})
          BY <2>6 DEF Unlink
    <3>2. {t} \in SUBSET Txns
          BY <1>1, <3>1, Clickable
    <3>3. GoodSend(r, "unlink", page.id, {t})
          BY <1>3, <3>1, <3>2, SendIsGood
    <3> QED BY <3>1, <3>3
  <2>7. CASE Delete(r)
    <3>1. Send(r, "delete", page.id, None)
          BY <2>7 DEF Delete
    <3>2. GoodSend(r, "delete", page.id, None)
          BY <1>3, <3>1, SendIsGood
    <3> QED BY <3>1, <3>2
  <2> QED BY <2>1, <2>2, <2>3, <2>4, <2>5, <2>6, <2>7
<1>5. UNCHANGED <<subs, link, log, declined, tolerant, enriching, cache, fetch, behind, sent>>
      BY <1>4 DEF Send, server
<1>6. modal' \in BOOLEAN
      BY <1>0, <1>2
<1>7. \E q \in Requests, kind \in Kinds : \E about, what : GoodSend(q, kind, about, what)
      BY <1>4
<1> QED BY <1>0, <1>1, <1>2, <1>3, <1>5, <1>6, <1>7, ClickKeeps

\* What an answer leaves of the types.
LEMMA TypeKept ==
    ASSUME TypeOK,
           UNCHANGED <<subs, link, log, declined, tolerant, enriching, page, form, letter, modal, req, sent, scope>>,
           DOMAIN fetch' = Keys, DOMAIN cache' = Keys, behind' \subseteq Keys,
           \A k \in Keys : /\ cache'[k] = None \/ Fits(k, cache'[k])
                           /\ fetch'[k] \in {None, Asked} \/ Fits(k, fetch'[k])
    PROVE  TypeOK'
<1>1. Tracked' = Tracked
      BY SameAnswersHere
<1> QED BY <1>1 DEF TypeOK, Fits

LEMMA SubscriptionsRead ==
    ASSUME SubscriptionsInv, NEW k \in Keys, Read(k)
    PROVE  SubscriptionsInv'
<1>1. UNCHANGED <<subs, link, log, declined, tolerant, enriching, page, form, letter, modal, jumped, cache, req, sent, scope>>
      BY DEF Read, server, view
<1>2. /\ DOMAIN fetch' = Keys /\ \A j \in Keys \ {k} : fetch'[j] = fetch[j]
      /\ behind' \subseteq Keys /\ behind \ {k} \subseteq behind'
      /\ \/ Known(k) /\ fetch'[k] = Answer(k)
         \/ ~Known(k) /\ fetch'[k] = None /\ k \in behind'
      BY DEF Read, SubscriptionsInv, TypeOK
<1>3. /\ \A j : Answer(j)' = Answer(j)
      /\ \A j : Live(j)' <=> Live(j)
      /\ Tracked' = Tracked
      BY <1>1, SameAnswersHere
<1>4. TypeOK'
  <2>1. \A j \in Keys : fetch'[j] \in {None, Asked} \/ Fits(j, fetch'[j])
        BY <1>2, AnswerFits DEF SubscriptionsInv, TypeOK
  <2>2. \A j \in Keys : cache[j] = None \/ Fits(j, cache[j])
        BY DEF SubscriptionsInv, TypeOK
  <2>3. TypeOK
        BY DEF SubscriptionsInv
  <2>4. DOMAIN cache' = Keys /\ \A j \in Keys : cache'[j] = None \/ Fits(j, cache'[j])
        BY <1>1, <2>2, <2>3 DEF TypeOK
  <2>5. /\ DOMAIN fetch' = Keys /\ behind' \subseteq Keys
        /\ \A j \in Keys : /\ cache'[j] = None \/ Fits(j, cache'[j])
                           /\ fetch'[j] \in {None, Asked} \/ Fits(j, fetch'[j])
        BY <1>2, <2>1, <2>4
  <2> QED BY <1>1, <2>3, <2>4, <2>5, TypeKept
<1>5. SentAsWritten' /\ PreviewsOnPage' /\ WrittenForPage'
      BY <1>1 DEF SubscriptionsInv, SentAsWritten, PreviewsOnPage, WrittenForPage
<1>6. UnbornUnknown'
  <2> SUFFICES ASSUME NEW s \in Subs, subs[s] = Unborn
               PROVE  /\ \A j \in KeysOf(s) : fetch'[j] = None
                      /\ fetch'[<<"subs">>] \notin {None, Asked} => s \notin DOMAIN fetch'[<<"subs">>]
      BY <1>1 DEF UnbornUnknown, SubscriptionsInv
  <2>1. \A j \in KeysOf(s) : j \in Keys /\ fetch[j] = None
        BY DEF SubscriptionsInv, UnbornUnknown, Keys
  <2>2. k \notin KeysOf(s)
        BY <2>1, Marks DEF Read
  <2>3. CASE k = <<"subs">>
    <3>1. fetch'[k] = None \/ fetch'[k] = [x \in Tracked |-> subs[x]]
          BY <1>2, <2>3 DEF Answer
    <3>2. s \notin Tracked
          BY DEF Tracked, Stored
    <3> QED BY <1>2, <2>1, <2>2, <2>3, <3>1, <3>2
  <2>4. CASE k # <<"subs">>
        BY <1>2, <2>1, <2>2, <2>4, SubscriptionKeys DEF SubscriptionsInv, UnbornUnknown
  <2> QED BY <2>3, <2>4
<1>7. ASSUME NEW j \in Keys \ behind' PROVE SubscriptionFresh(j)'
  <2>1. CASE j = k
        BY <1>2, <1>3, <2>1 DEF SubscriptionFresh
  <2>2. CASE j # k
    <3>1. SubscriptionFresh(j) /\ fetch'[j] = fetch[j]
          BY <1>2, <2>2 DEF SubscriptionsInv
    <3>2. /\ Answer(j)' = Answer(j) /\ (Live(j)' <=> Live(j))
          /\ Used(page)' = Used(page) /\ cache' = cache /\ req' = req
          BY <1>1, <1>3 DEF Used
    <3> QED BY <3>1, <3>2 DEF SubscriptionFresh, Tells
  <2> QED BY <2>1, <2>2
<1> QED BY <1>4, <1>5, <1>6, <1>7 DEF SubscriptionsInv

LEMMA SubscriptionsReceive ==
    ASSUME SubscriptionsInv, NEW k \in Keys, Receive(k)
    PROVE  SubscriptionsInv'
<1>1. UNCHANGED <<subs, link, log, declined, tolerant, enriching, page, form, letter, modal, jumped, behind, req, sent, scope>>
      BY DEF Receive, server, view
<1>2. /\ DOMAIN fetch' = Keys /\ DOMAIN cache' = Keys
      /\ \A j \in Keys \ {k} : fetch'[j] = fetch[j] /\ cache'[j] = cache[j]
      /\ fetch[k] \notin {None, Asked} /\ cache'[k] = fetch[k] /\ fetch'[k] = None
      BY DEF Receive, SubscriptionsInv, TypeOK
<1>3. /\ \A j : Answer(j)' = Answer(j)
      /\ \A j : Live(j)' <=> Live(j)
      /\ Tracked' = Tracked
      BY <1>1, SameAnswersHere
<1>4. TypeOK'
  <2>1. \A j \in Keys : /\ cache'[j] = None \/ Fits(j, cache'[j])
                        /\ fetch'[j] \in {None, Asked} \/ Fits(j, fetch'[j])
        BY <1>2 DEF SubscriptionsInv, TypeOK
  <2>2. TypeOK
        BY DEF SubscriptionsInv
  <2>3. behind' \subseteq Keys
        BY <1>1, <2>2 DEF TypeOK
  <2> QED BY <1>1, <1>2, <2>1, <2>2, <2>3, TypeKept
<1>5. SentAsWritten' /\ PreviewsOnPage' /\ WrittenForPage'
      BY <1>1 DEF SubscriptionsInv, SentAsWritten, PreviewsOnPage, WrittenForPage
<1>6. UnbornUnknown'
  <2> SUFFICES ASSUME NEW s \in Subs, subs[s] = Unborn
               PROVE  /\ \A j \in KeysOf(s) : fetch'[j] = None
                      /\ cache'[<<"subs">>] # None => s \notin DOMAIN cache'[<<"subs">>]
                      /\ fetch'[<<"subs">>] \notin {None, Asked} => s \notin DOMAIN fetch'[<<"subs">>]
      BY <1>1 DEF UnbornUnknown, SubscriptionsInv
  <2>1. \A j \in KeysOf(s) : j \in Keys /\ fetch[j] = None
        BY DEF SubscriptionsInv, UnbornUnknown, Keys
  <2> QED BY <1>2, <2>1, SubscriptionKeys DEF SubscriptionsInv, UnbornUnknown
<1>7. ASSUME NEW j \in Keys \ behind' PROVE SubscriptionFresh(j)'
  <2>1. SubscriptionFresh(j)
        BY <1>1 DEF SubscriptionsInv
  <2>2. /\ Answer(j)' = Answer(j) /\ (Live(j)' <=> Live(j))
        /\ Used(page)' = Used(page) /\ req' = req
        BY <1>1, <1>3 DEF Used
  <2> QED BY <1>2, <2>1, <2>2 DEF SubscriptionFresh, Tells
<1> QED BY <1>4, <1>5, <1>6, <1>7 DEF SubscriptionsInv

\* A call that may be on its way while page p is shown.
GoodCall(m, p, turned) ==
    \E kind \in Kinds :
        /\ m \in Call(kind)
        /\ kind \notin OfMerchant => subs[m.about] # Unborn
        /\ kind = "preview" /\ m.here => p.at = "detail" /\ (turned \/ m.about = p.id)
        /\ kind = "update" => turned \/ m.about = m.what.of
        /\ kind = "cancel" => turned \/ m.about = m.what

LEMMA CallsGood ==
    ASSUME SubscriptionsInv, NEW r \in Requests, req[r] # None
    PROVE  GoodCall(req[r], page, jumped)
<1>1. PICK kind \in Kinds : req[r] \in Call(kind)
      BY DEF SubscriptionsInv, TypeOK
<1>2. req[r].kind = kind /\ req[r].about \in About(kind)
      BY <1>1, CallIs
<1>3. kind \notin OfMerchant => subs[req[r].about] # Unborn
  <2>1. SUFFICES ASSUME kind \notin OfMerchant PROVE subs[req[r].about] # Unborn
        OBVIOUS
  <2>2. About(kind) = Subs
        BY <2>1 DEF About, OfMerchant
  <2> QED BY <1>2, <2>1, <2>2 DEF SubscriptionsInv, UnbornUnknown
<1>4. kind = "preview" /\ req[r].here => page.at = "detail" /\ (jumped \/ req[r].about = page.id)
      BY <1>2 DEF SubscriptionsInv, PreviewsOnPage, WrittenForPage
<1>5. /\ kind = "update" => jumped \/ req[r].about = req[r].what.of
      /\ kind = "cancel" => jumped \/ req[r].about = req[r].what
      BY <1>2 DEF SubscriptionsInv, WrittenForPage
<1> QED BY <1>1, <1>3, <1>4, <1>5 DEF GoodCall

LEMMA LeftGood ==
    ASSUME NEW m, NEW p, NEW q, NEW turned, NEW after, GoodCall(m, p, turned), turned => after
    PROVE  /\ GoodCall(Left(m), q, after) /\ \A k : Tells(m, k) => Tells(Left(m), k)
           /\ m # None
<1>1. PICK kind \in Kinds :
        /\ m \in Call(kind)
        /\ kind \notin OfMerchant => subs[m.about] # Unborn
        /\ kind = "update" => turned \/ m.about = m.what.of
        /\ kind = "cancel" => turned \/ m.about = m.what
      BY DEF GoodCall
<1>2. /\ Left(m) \in Call(kind) /\ Left(m).kind = kind /\ Left(m).about = m.about
      /\ Left(m).what = m.what /\ Left(m).stage = m.stage /\ Left(m).here = FALSE
      BY <1>1, LeftIs
<1>3. GoodCall(Left(m), q, after)
      BY <1>1, <1>2 DEF GoodCall
<1>4. m # None /\ Left(m) # None /\ m.kind = kind
      BY <1>1, <1>2, CallIs
<1>5. Invalid(Left(m), m.about) = Invalid(m, m.about)
      BY <1>2, <1>4 DEF Invalid
<1> QED BY <1>2, <1>3, <1>4, <1>5 DEF Tells

LEMMA UnbornUnused ==
    ASSUME SubscriptionsInv, NEW k \in Keys, NEW s \in Subs, k \in KeysOf(s), subs[s] = Unborn
    PROVE  fetch[k] = None /\ k \notin Used(page)
<1>1. fetch[k] = None /\ page # Detail(s) /\ page \in Page
      BY DEF SubscriptionsInv, UnbornUnknown, TypeOK
<1>2. CASE page.at = "detail"
  <2>1. page = Detail(page.id)
        BY <1>1, <1>2 DEF Page, Detail
  <2>2. page.id # s
        BY <1>1, <2>1
  <2>3. k \notin KeysOf(page.id)
        BY <2>2 DEF KeysOf
  <2> QED BY <1>1, <1>2, <2>3 DEF Used
<1>3. CASE page.at # "detail"
      BY <1>1, <1>3 DEF Used, ListKeys, KeysOf
<1> QED BY <1>2, <1>3

\* What a page asks for when another one is turned to.
TurnsTo(p, invalid) ==
    /\ DOMAIN fetch' = Keys
    /\ \A k \in Keys : fetch'[k] = IF \/ k \in invalid \cap Used(page) /\ ~Kept(k)
                                      \/ k \in Used(p) \ Used(page) /\ fetch[k] = None
                                   THEN Asked ELSE fetch[k]

\* Of what was told by now the page asks for what it uses.
LEMMA TurnKeeps ==
    ASSUME SubscriptionsInv, NEW p \in Page, NEW invalid \in SUBSET Keys, NEW told \in SUBSET Keys,
           TurnsTo(p, invalid), page' = p, told \cap Used(page) \subseteq invalid,
           behind' = behind \cup {k \in invalid \cup told : Kept(k)},
           UNCHANGED <<subs, link, log, declined, tolerant, enriching, cache, sent>>,
           scope' = scope \/ \E kind : Click(kind),
           \A s \in Subs : subs[s] = Unborn => p # Detail(s),
           jumped => jumped',
           form' \in Form \cup {None}, letter' \in Subs \cup {None}, modal' \in BOOLEAN,
           p.at # "detail" => form' = None /\ letter' = None /\ ~modal',
           jumped' \/ ((form' # None => form'.of = p.id) /\ (letter' # None => letter' = p.id)),
           DOMAIN req' = Requests,
           \A r \in Requests : req'[r] = None \/ GoodCall(req'[r], p, jumped'),
           \A k \in Keys \ told, r \in Requests :
              Tells(req[r], k) => \E q \in Requests : Tells(req'[q], k)
    PROVE  SubscriptionsInv'
<1> USE DEF TurnsTo
<1>0. TypeOK
      BY DEF SubscriptionsInv
<1>1. /\ \A j : Answer(j)' = Answer(j)
      /\ \A j : Live(j)' <=> Live(j)
      /\ Tracked' = Tracked
      BY SameAnswersHere
<1>2. /\ scope' = [clicks |-> scope'.clicks, left |-> scope'.left, queries |-> scope'.queries]
      /\ \A x : Used(x)' = Used(x)
      BY <1>0, ScopeKept
<1>3. TypeOK'
  <2>1. behind' \subseteq Keys
        BY <1>0 DEF TypeOK
  <2>2. \A k \in Keys : /\ cache'[k] = None \/ Fits(k, cache'[k])
                        /\ fetch'[k] \in {None, Asked} \/ Fits(k, fetch'[k])
        BY <1>0 DEF TypeOK
  <2>3. \A r \in Requests : req'[r] = None \/ \E kind \in Kinds : req'[r] \in Call(kind)
        BY DEF GoodCall
  <2>4. /\ subs' \in [Subs -> Sub \cup {Unborn, Gone}]
        /\ link' \in [Txns -> Subs \cup {None}] /\ log' \in [Subs -> Nat]
        /\ declined' \subseteq Merchants /\ tolerant' \in BOOLEAN /\ enriching' \subseteq Tracked'
        /\ page' \in Page
        /\ sent' \subseteq Subs \X Subs
        /\ DOMAIN cache' = Keys
        BY <1>0, <1>1 DEF TypeOK
  <2> QED BY <1>2, <2>1, <2>2, <2>3, <2>4 DEF TypeOK, Fits
<1>4. SentAsWritten'
      BY DEF SubscriptionsInv, SentAsWritten
<1>5. ASSUME NEW r \in Requests, req'[r] # None
      PROVE  /\ req'[r].kind \notin OfMerchant => subs[req'[r].about] # Unborn
             /\ req'[r].kind = "preview" /\ req'[r].here => p.at = "detail" /\ (jumped' \/ req'[r].about = p.id)
             /\ req'[r].kind = "update" => jumped' \/ req'[r].about = req'[r].what.of
             /\ req'[r].kind = "cancel" => jumped' \/ req'[r].about = req'[r].what
  <2>1. PICK kind \in Kinds :
        /\ req'[r] \in Call(kind)
        /\ kind \notin OfMerchant => subs[req'[r].about] # Unborn
        /\ kind = "preview" /\ req'[r].here => p.at = "detail" /\ (jumped' \/ req'[r].about = p.id)
        /\ kind = "update" => jumped' \/ req'[r].about = req'[r].what.of
        /\ kind = "cancel" => jumped' \/ req'[r].about = req'[r].what
        BY <1>5 DEF GoodCall
  <2>2. req'[r].kind = kind
        BY <2>1, CallIs
  <2> QED BY <2>1, <2>2
<1>6. PreviewsOnPage' /\ WrittenForPage'
      BY <1>5 DEF PreviewsOnPage, WrittenForPage
<1>7. UnbornUnknown'
  <2> SUFFICES ASSUME NEW s \in Subs, subs[s] = Unborn
               PROVE  /\ \A k \in KeysOf(s) : fetch'[k] = None
                      /\ cache[<<"subs">>] # None => s \notin DOMAIN cache[<<"subs">>]
                      /\ fetch'[<<"subs">>] \notin {None, Asked} => s \notin DOMAIN fetch'[<<"subs">>]
                      /\ \A r \in Requests : req'[r] # None /\ req'[r].kind \notin OfMerchant => req'[r].about # s
      BY DEF UnbornUnknown
  <2>1. \A k \in KeysOf(s) : k \in Keys /\ fetch[k] = None
        BY DEF SubscriptionsInv, UnbornUnknown, Keys
  <2>2. ASSUME NEW k \in KeysOf(s) PROVE k \notin Used(p)
    <3>1. CASE p.at = "detail"
      <4>1. p.id # s /\ p.id \in Subs
            BY <3>1 DEF Page, Detail
      <4>2. k \notin KeysOf(p.id)
            BY <4>1 DEF KeysOf
      <4> QED BY <3>1, <4>2 DEF Used
    <3>2. CASE p.at # "detail"
          BY <3>2 DEF Used, ListKeys, KeysOf
    <3> QED BY <3>1, <3>2
  <2>3. \A k \in KeysOf(s) : fetch'[k] = None
        BY <2>1, <2>2, UnbornUnused
  <2>4. /\ cache[<<"subs">>] # None => s \notin DOMAIN cache[<<"subs">>]
        /\ fetch[<<"subs">>] \notin {None, Asked} => s \notin DOMAIN fetch[<<"subs">>]
        BY DEF SubscriptionsInv, UnbornUnknown
  <2>5. fetch'[<<"subs">>] \notin {None, Asked} => s \notin DOMAIN fetch'[<<"subs">>]
        BY <2>4, SubscriptionKeys
  <2> QED BY <1>5, <2>3, <2>4, <2>5
<1>8. ASSUME NEW k \in Keys \ behind' PROVE SubscriptionFresh(k)'
  <2> SUFFICES ASSUME Live(k), \A r \in Requests : ~Tells(req'[r], k)
               PROVE  \/ fetch'[k] = Asked
                      \/ fetch'[k] = None /\ (k \in Used(p) => cache[k] = Answer(k))
                      \/ fetch'[k] = Answer(k)
      BY <1>1, <1>2 DEF SubscriptionFresh, Tells
  <2>1. CASE k \in told
    <3>1. ~Kept(k)
          BY <1>8, <2>1
    <3>2. CASE k \in Used(page)
          BY <2>1, <3>1, <3>2
    <3>3. CASE k \notin Used(page)
      <4>1. fetch[k] \in {None, Asked}
            BY <3>1, <3>3 DEF Kept
      <4> QED BY <3>3, <4>1
    <3> QED BY <3>2, <3>3
  <2>2. CASE k \notin told
    <3>1. \A r \in Requests : ~Tells(req[r], k)
          BY <2>2
    <3>2. \/ fetch[k] = Asked
          \/ fetch[k] = None /\ (k \in Used(page) => cache[k] = Answer(k))
          \/ fetch[k] = Answer(k)
          BY <1>8, <3>1 DEF SubscriptionsInv, SubscriptionFresh
    <3> QED BY <3>2
  <2> QED BY <2>1, <2>2
<1> QED BY <1>3, <1>4, <1>6, <1>7, <1>8 DEF SubscriptionsInv

LEMMA AskingTurns ==
    ASSUME NEW p, NEW invalid, Asking(p, invalid)
    PROVE  TurnsTo(p, invalid)
BY DEF Asking, TurnsTo

\* A callback invalidates what it is about, by the name its page has for it.
LEMMA MutationKeys ==
    ASSUME SubscriptionsInv, NEW m, GoodCall(m, page, jumped)
    PROVE  /\ Invalid(m, Turned(m)) \in SUBSET Keys /\ Invalid(m, m.about) \in SUBSET Keys
           /\ Invalid(m, m.about) \cap Used(page) \subseteq Invalid(m, Turned(m))
<1>1. PICK kind \in Kinds : m \in Call(kind)
      BY DEF GoodCall
<1>2. m.kind = kind /\ m.about \in About(kind)
      BY <1>1, CallIs
<1>3. page.at = "detail" => page.id \in Subs
      BY DEF SubscriptionsInv, TypeOK, Page
<1>4. kind \notin OfMerchant => m.about \in Subs /\ Turned(m) \in Subs
      BY <1>2, <1>3 DEF About, OfMerchant, Turned
<1>5. ASSUME NEW s, kind \notin OfMerchant => s \in Subs PROVE Invalid(m, s) \in SUBSET Keys
  <2>1. kind \notin OfMerchant => {<<"sub", s>>, <<"txs", s>>, <<"log", s>>} \subseteq Keys
        BY <1>5, SubscriptionKeys
  <2> QED BY <1>2, <2>1, SubscriptionKeys DEF Invalid, Kinds, OfMerchant
<1>6. ASSUME NEW k \in Invalid(m, m.about), k \in Used(page) PROVE k \in Invalid(m, Turned(m))
  <2>1. CASE Turned(m) = m.about
        BY <1>6, <2>1
  <2>2. CASE Turned(m) # m.about
    <3>1. page.at = "detail" /\ Turned(m) = page.id /\ k \in KeysOf(page.id)
          BY <1>6, <2>2 DEF Turned, Used
    <3>2. k \in ListKeys \cup KeysOf(m.about)
          BY <1>2, <1>6 DEF Invalid, Kinds, OfMerchant, ListKeys, KeysOf
    <3>3. KeysOf(page.id) \cap (ListKeys \cup KeysOf(m.about)) = {}
          BY <2>2, <3>1 DEF KeysOf, ListKeys
    <3> QED BY <3>1, <3>2, <3>3
  <2> QED BY <2>1, <2>2
<1> QED BY <1>4, <1>5, <1>6

\* The requests of a page that another one takes the place of.
LEMMA LeaveGood ==
    ASSUME SubscriptionsInv, NEW p \in Page, NEW turned,
           jumped \/ (Same(p) /\ p # page) => turned
    PROVE  /\ DOMAIN Leave(p, req) = Requests
           /\ \A r \in Requests : /\ Leave(p, req)[r] = None \/ GoodCall(Leave(p, req)[r], p, turned)
                                  /\ req[r] = None => Leave(p, req)[r] = None
                                  /\ \A k : Tells(req[r], k) => Tells(Leave(p, req)[r], k)
<1>1. DOMAIN Leave(p, req) = Requests
      BY DEF Leave
<1>2. ASSUME NEW r \in Requests
      PROVE  /\ Leave(p, req)[r] = None \/ GoodCall(Leave(p, req)[r], p, turned)
             /\ req[r] = None => Leave(p, req)[r] = None
             /\ \A k : Tells(req[r], k) => Tells(Leave(p, req)[r], k)
  <2>1. Leave(p, req)[r] = IF req[r] # None /\ ~Same(p) THEN Left(req[r]) ELSE req[r]
        BY DEF Leave
  <2>2. CASE req[r] = None
        BY <2>1, <2>2 DEF Tells
  <2>3. CASE req[r] # None
    <3>1. GoodCall(req[r], page, jumped)
          BY <2>3, CallsGood
    <3>2. CASE Same(p)
      <4>1. Leave(p, req)[r] = req[r]
            BY <2>1, <3>2
      <4>2. p.at = "detail" /\ page.at = "detail" /\ (turned \/ p = page)
            BY <3>2 DEF Same
      <4>3. GoodCall(req[r], p, turned)
            BY <3>1, <4>2 DEF GoodCall
      <4> QED BY <2>3, <4>1, <4>3
    <3>3. CASE ~Same(p)
          BY <2>1, <2>3, <3>1, <3>3, LeftGood
    <3> QED BY <3>2, <3>3
  <2> QED BY <2>2, <2>3
<1> QED BY <1>1, <1>2

\* The form and the letter that the next page finds.
LEMMA LandForms ==
    ASSUME SubscriptionsInv, NEW p \in Page, Land(p)
    PROVE  /\ page' = p /\ (jumped => jumped') /\ (jumped \/ (Same(p) /\ p # page) => jumped')
           /\ form' \in Form \cup {None} /\ letter' \in Subs \cup {None} /\ modal' \in BOOLEAN
           /\ p.at # "detail" => form' = None /\ letter' = None /\ ~modal'
           /\ jumped' \/ ((form' # None => form'.of = p.id) /\ (letter' # None => letter' = p.id))
<1>1. page' = p /\ (jumped => jumped') /\ (jumped \/ (Same(p) /\ p # page) => jumped')
      BY DEF Land
<1>2. CASE Same(p)
  <2>1. UNCHANGED <<form, letter, modal>> /\ p.at = "detail"
        BY <1>2 DEF Land, Same
  <2>2. form \in Form \cup {None} /\ letter \in Subs \cup {None} /\ modal \in BOOLEAN
        BY DEF SubscriptionsInv, TypeOK
  <2>3. jumped' \/ (~jumped /\ p = page)
        BY <1>1, <1>2
  <2>4. jumped \/ ((form # None => form.of = page.id) /\ (letter # None => letter = page.id))
        BY DEF SubscriptionsInv, WrittenForPage
  <2> QED BY <1>1, <2>1, <2>2, <2>3, <2>4
<1>3. CASE ~Same(p)
      BY <1>1, <1>3 DEF Land
<1> QED BY <1>2, <1>3

LEMMA SubscriptionsGo ==
    ASSUME SubscriptionsInv, NEW p \in Page, Go(p)
    PROVE  SubscriptionsInv'
<1>1. UNCHANGED <<subs, link, log, declined, tolerant, enriching, cache, behind, sent>> /\ \E kind : Click(kind)
      BY DEF Go, server
<1>2. Land(p) /\ TurnsTo(p, {}) /\ req' = Leave(p, req)
      BY AskingTurns DEF Go
<1>3. /\ page' = p /\ (jumped => jumped') /\ (jumped \/ (Same(p) /\ p # page) => jumped')
      /\ form' \in Form \cup {None} /\ letter' \in Subs \cup {None} /\ modal' \in BOOLEAN
      /\ p.at # "detail" => form' = None /\ letter' = None /\ ~modal'
      /\ jumped' \/ ((form' # None => form'.of = p.id) /\ (letter' # None => letter' = p.id))
      BY <1>2, LandForms
<1>4. /\ DOMAIN req' = Requests
      /\ \A r \in Requests : req'[r] = None \/ GoodCall(req'[r], p, jumped')
      /\ \A r \in Requests : \A k : Tells(req[r], k) => Tells(req'[r], k)
      BY <1>2, <1>3, LeaveGood
<1>5. \A s \in Subs : subs[s] = Unborn => p # Detail(s)
  <2>1. p.at = "detail" => p.id \in DOMAIN Rows
        BY DEF Go
  <2>2. \A s \in Subs : Detail(s).at = "detail" /\ Detail(s).id = s
        BY DEF Detail
  <2> QED BY <2>1, <2>2, Clickable
<1>6. {} \in SUBSET Keys
      OBVIOUS
<1> QED BY <1>1, <1>2, <1>3, <1>4, <1>5, <1>6, TurnKeeps

LEMMA SubscriptionsCancelRow ==
    ASSUME SubscriptionsInv, NEW r \in Requests, CancelRow(r)
    PROVE  SubscriptionsInv'
<1>1. UNCHANGED <<subs, link, log, declined, tolerant, enriching, cache, behind, sent, jumped>> /\ \E kind : Click(kind)
      BY DEF CancelRow, server
<1>2. PICK s \in DOMAIN Rows :
        /\ page' = Detail(s) /\ modal' = TRUE /\ form' = None /\ letter' = None
        /\ Asking(Detail(s), {})
        /\ req' = [Leave(Detail(s), req) EXCEPT ![r] = Sent("preview", s, None)]
      BY DEF CancelRow
<1>3. s \in Subs /\ subs[s] # Unborn
      BY Clickable
<1>4. Detail(s) \in Page /\ Detail(s).at = "detail" /\ Detail(s).id = s /\ ~Same(Detail(s))
      BY <1>3 DEF Detail, Page, CancelRow, ListPage, Same
<1>5. TurnsTo(Detail(s), {}) /\ {} \in SUBSET Keys
      BY <1>2, AskingTurns
<1>6. req[r] = None
      BY DEF CancelRow, Free
<1> DEFINE after == Leave(Detail(s), req)
<1>7. /\ DOMAIN after = Requests
      /\ \A q \in Requests : after[q] = None \/ GoodCall(after[q], Detail(s), jumped)
      /\ \A q \in Requests : \A k : Tells(req[q], k) => Tells(after[q], k)
      BY <1>4, LeaveGood
<1> HIDE DEF after
<1>8. DOMAIN req' = Requests /\ req'[r] = Sent("preview", s, None) /\ \A q \in Requests \ {r} : req'[q] = after[q]
      BY <1>2, <1>7 DEF after
<1>9. GoodCall(req'[r], Detail(s), jumped')
  <2>1. "preview" \in Kinds /\ s \in About("preview") /\ None \in What("preview")
        BY <1>3 DEF Kinds, About, What, OfMerchant
  <2>2. req'[r] \in Call("preview") /\ req'[r].kind = "preview" /\ req'[r].about = s
        BY <1>8, <2>1, SentIs
  <2> QED BY <1>3, <1>4, <2>1, <2>2 DEF GoodCall
<1>10. \A q \in Requests : req'[q] = None \/ GoodCall(req'[q], Detail(s), jumped')
      BY <1>1, <1>7, <1>8, <1>9
<1>11. \A q \in Requests : \A k : Tells(req[q], k) => Tells(req'[q], k)
      BY <1>6, <1>7, <1>8 DEF Tells
<1>12. \A x \in Subs : subs[x] = Unborn => Detail(s) # Detail(x)
      BY <1>3 DEF Detail
<1>13. /\ form' \in Form \cup {None} /\ letter' \in Subs \cup {None} /\ modal' \in BOOLEAN
       /\ Detail(s).at # "detail" => form' = None /\ letter' = None /\ ~modal'
       /\ jumped' \/ ((form' # None => form'.of = Detail(s).id) /\ (letter' # None => letter' = Detail(s).id))
      BY <1>2, <1>4
<1> QED BY <1>1, <1>2, <1>4, <1>5, <1>8, <1>10, <1>11, <1>12, <1>13, TurnKeeps

LEMMA SubscriptionsSettle ==
    ASSUME SubscriptionsInv, NEW r \in Requests, Settle(r)
    PROVE  SubscriptionsInv'
<1> DEFINE m == req[r]
           p == Leads(m)
           left == [req EXCEPT ![r] = None]
           invalid == Invalid(m, Turned(m))
           told == Invalid(m, m.about)
<1>0. UNCHANGED <<subs, link, log, declined, tolerant, enriching, cache, sent, scope>>
      BY DEF Settle, server
<1>1. m # None /\ m.stage \in {"done", "failed"} /\ GoodCall(m, page, jumped)
      BY CallsGood DEF Settle
<1>2. DOMAIN req = Requests /\ page \in Page
      BY DEF SubscriptionsInv, TypeOK
<1>3. DOMAIN left = Requests /\ left[r] = None /\ \A q \in Requests \ {r} : left[q] = req[q]
      BY <1>2
<1>4. \A s \in Subs : subs[s] = Unborn => page # Detail(s)
      BY DEF SubscriptionsInv, UnbornUnknown
<1>5. /\ form \in Form \cup {None} /\ letter \in Subs \cup {None} /\ modal \in BOOLEAN
      /\ page.at # "detail" => form = None /\ letter = None /\ ~modal
      /\ jumped \/ ((form # None => form.of = page.id) /\ (letter # None => letter = page.id))
      BY DEF SubscriptionsInv, TypeOK, WrittenForPage
<1>6. CASE m.stage = "failed"
  <2>1. req' = left /\ UNCHANGED <<page, form, letter, modal, jumped, fetch, behind>>
        BY <1>6 DEF Settle, view
  <2>2. \A k : ~Tells(m, k)
        BY <1>6 DEF Tells
  <2>3. TurnsTo(page, {}) /\ {} \in SUBSET Keys
    <3>1. DOMAIN fetch = Keys
          BY DEF SubscriptionsInv, TypeOK
    <3> QED BY <2>1, <3>1 DEF TurnsTo
  <2>4. \A q \in Requests : req[q] # None => GoodCall(req[q], page, jumped)
        BY CallsGood
  <2> HIDE DEF left
  <2>5. \A q \in Requests : req'[q] = None \/ GoodCall(req'[q], page, jumped')
        BY <1>3, <2>1, <2>4
  <2>6. \A k : \A q \in Requests : Tells(req[q], k) => Tells(req'[q], k)
        BY <1>3, <2>1, <2>2 DEF m
  <2>7. page' = page /\ DOMAIN req' = Requests /\ (jumped => jumped')
        BY <1>3, <2>1
  <2>8. /\ form' \in Form \cup {None} /\ letter' \in Subs \cup {None} /\ modal' \in BOOLEAN
        /\ page.at # "detail" => form' = None /\ letter' = None /\ ~modal'
        /\ jumped' \/ ((form' # None => form'.of = page.id) /\ (letter' # None => letter' = page.id))
        BY <1>5, <2>1
  <2> QED BY <1>0, <1>2, <1>4, <2>1, <2>3, <2>5, <2>6, <2>7, <2>8, TurnKeeps
<1>7. CASE m.stage = "done"
  <2>1. /\ Asking(p, invalid) /\ behind' = behind \cup {k \in invalid \cup told : Kept(k)}
        /\ \/ p # page /\ Land(p) /\ req' = Leave(p, left)
           \/ p = page /\ Closing(m) /\ req' = left /\ UNCHANGED <<page, jumped>>
        BY <1>7 DEF Settle
  <2>2. /\ TurnsTo(p, invalid) /\ invalid \in SUBSET Keys /\ told \in SUBSET Keys
        /\ told \cap Used(page) \subseteq invalid
        BY <1>1, <2>1, AskingTurns, MutationKeys
  <2>3. p \in Page /\ \A s \in Subs : subs[s] = Unborn => p # Detail(s)
    <3>1. CASE m.kind = "delete"
          BY <3>1 DEF Leads, ListPage, Page, Detail
    <3>2. CASE m.kind = "enrichRow"
      <4>1. PICK kind \in Kinds : m \in Call(kind) /\ (kind \notin OfMerchant => subs[m.about] # Unborn)
            BY <1>1 DEF GoodCall
      <4>2. m.kind = kind /\ m.about \in About(kind)
            BY <4>1, CallIs
      <4>3. m.about \in Subs /\ subs[m.about] # Unborn
            BY <3>2, <4>1, <4>2 DEF About, OfMerchant
      <4>4. p = Detail(m.about)
            BY <3>2 DEF Leads
      <4> QED BY <4>3, <4>4 DEF Detail, Page
    <3>3. CASE m.kind \notin {"delete", "enrichRow"}
      <4>1. p = page
            BY <3>3 DEF Leads
      <4> QED BY <1>2, <1>4, <4>1
    <3> QED BY <3>1, <3>2, <3>3
  <2>4. ASSUME NEW k \in Keys \ told, NEW q \in Requests, Tells(req[q], k)
        PROVE  q # r
        BY <2>4 DEF Tells
  <2>5. CASE p # page
    <3>1. Land(p) /\ req' = Leave(p, left)
          BY <2>1, <2>5
    <3>2. /\ page' = p /\ (jumped => jumped') /\ (jumped \/ (Same(p) /\ p # page) => jumped')
          /\ form' \in Form \cup {None} /\ letter' \in Subs \cup {None} /\ modal' \in BOOLEAN
          /\ p.at # "detail" => form' = None /\ letter' = None /\ ~modal'
          /\ jumped' \/ ((form' # None => form'.of = p.id) /\ (letter' # None => letter' = p.id))
          BY <2>3, <3>1, LandForms
    <3> DEFINE after == Leave(p, req)
    <3>3. /\ \A q \in Requests : after[q] = None \/ GoodCall(after[q], p, jumped')
          /\ \A q \in Requests : \A k : Tells(req[q], k) => Tells(after[q], k)
          BY <2>3, <3>2, LeaveGood
    <3>4. DOMAIN req' = Requests /\ req'[r] = None /\ \A q \in Requests \ {r} : req'[q] = after[q]
          BY <1>3, <3>1 DEF Leave
    <3> HIDE DEF after
    <3>5. \A q \in Requests : req'[q] = None \/ GoodCall(req'[q], p, jumped')
          BY <3>3, <3>4
    <3>6. \A k \in Keys \ told, q \in Requests :
            Tells(req[q], k) => \E x \in Requests : Tells(req'[x], k)
          BY <2>4, <3>3, <3>4
    <3>7. page' = p
          BY <3>2
    <3> HIDE DEF p, m, invalid, told
    <3> QED BY <1>0, <2>1, <2>2, <2>3, <3>2, <3>4, <3>5, <3>6, TurnKeeps
  <2>6. CASE p = page
    <3>1. Closing(m) /\ req' = left /\ UNCHANGED <<page, jumped>>
          BY <2>1, <2>6
    <3>2. /\ form' \in Form \cup {None} /\ letter' \in Subs \cup {None} /\ modal' \in BOOLEAN
          /\ page.at # "detail" => form' = None /\ letter' = None /\ ~modal'
          /\ jumped \/ ((form' # None => form'.of = page.id) /\ (letter' # None => letter' = page.id))
      <4>1. CASE m.kind = "preview" /\ m.here
        <5>1. letter' = m.about /\ UNCHANGED <<form, modal>>
              BY <3>1, <4>1 DEF Closing
        <5>2. PICK kind \in Kinds : m \in Call(kind) /\ (kind = "preview" /\ m.here => page.at = "detail" /\ (jumped \/ m.about = page.id))
              BY <1>1 DEF GoodCall
        <5>3. m.kind = kind /\ m.about \in About(kind)
              BY <5>2, CallIs
        <5>4. m.about \in Subs /\ page.at = "detail" /\ (jumped \/ m.about = page.id)
              BY <4>1, <5>2, <5>3 DEF About, OfMerchant
        <5> QED BY <1>5, <5>1, <5>4
      <4>2. CASE ~(m.kind = "preview" /\ m.here)
        <5>1. CASE UNCHANGED <<form, letter, modal>>
              BY <1>5, <5>1
        <5>2. CASE form' = None /\ UNCHANGED <<letter, modal>>
              BY <1>5, <5>2
        <5>3. CASE letter' = None /\ modal' = FALSE /\ UNCHANGED form
              BY <1>5, <5>3
        <5>4. \/ UNCHANGED <<form, letter, modal>>
              \/ form' = None /\ UNCHANGED <<letter, modal>>
              \/ letter' = None /\ modal' = FALSE /\ UNCHANGED form
          <6>1. CASE ~m.here
            <7>1. (m.here = FALSE) /\ Closing(m)
                  BY <1>1, <3>1, <6>1, CallIs DEF GoodCall
            <7> QED BY <7>1 DEF Closing
          <6>2. CASE m.here /\ m.kind = "update"
                BY <3>1, <6>2 DEF Closing
          <6>3. CASE m.here /\ m.kind = "cancel"
                BY <3>1, <6>3 DEF Closing
          <6>4. CASE m.here /\ m.kind \notin {"update", "cancel", "preview"}
                BY <3>1, <6>4 DEF Closing
          <6> QED BY <4>2, <6>1, <6>2, <6>3, <6>4
        <5> QED BY <5>1, <5>2, <5>3, <5>4
      <4> QED BY <4>1, <4>2
    <3>3. \A q \in Requests : req[q] # None => GoodCall(req[q], page, jumped)
          BY CallsGood
    <3> HIDE DEF left
    <3>4. DOMAIN req' = Requests /\ \A q \in Requests : req'[q] = None \/ GoodCall(req'[q], page, jumped')
          BY <1>3, <3>1, <3>3
    <3>5. \A k \in Keys \ told, q \in Requests :
            Tells(req[q], k) => \E x \in Requests : Tells(req'[x], k)
          BY <1>3, <2>4, <3>1
    <3> HIDE DEF m, p, invalid, told
    <3>6. TurnsTo(page, invalid)
          BY <2>2, <2>6
    <3> QED BY <1>0, <1>2, <1>4, <2>1, <2>2, <3>1, <3>2, <3>4, <3>5, <3>6, TurnKeeps
  <2> QED BY <2>5, <2>6
<1> QED BY <1>1, <1>6, <1>7

\* A write of one subscription changes what these queries answer.
LEMMA RewrittenKeeps ==
    ASSUME TypeOK, NEW s \in Subs, subs[s] \in Sub, NEW new \in Sub, new.of = subs[s].of,
           subs' = [subs EXCEPT ![s] = new], UNCHANGED <<link, declined, tolerant>>,
           \A x \in Subs \ {s} : log'[x] = log[x]
    PROVE  /\ subs' \in [Subs -> Sub \cup {Unborn, Gone}] /\ Tracked' = Tracked
           /\ \A x \in Subs : (subs'[x] = Unborn => subs[x] = Unborn) /\ (Stored(x)' => Stored(x))
           /\ \A k \in Keys \ {<<"subs">>, <<"sub", s>>, <<"log", s>>} : Answer(k)' = Answer(k)
<1>1. /\ subs' \in [Subs -> Sub \cup {Unborn, Gone}] /\ subs'[s] = new
      /\ \A x \in Subs \ {s} : subs'[x] = subs[x]
      BY DEF TypeOK
<1>2. subs[s] \notin {Unborn, Gone} /\ new \notin {Unborn, Gone}
      BY SubscriptionAnswers
<1>3. \A x \in Subs : Stored(x)' <=> Stored(x)
      BY <1>1, <1>2 DEF Stored
<1>4. Tracked' = Tracked
      BY <1>3 DEF Tracked
<1>5. \A x \in Subs : subs'[x].of = subs[x].of
      BY <1>1
<1>6. Suggested' = Suggested
  <2>1. \A x \in Tracked : subs'[x].of = subs[x].of
        BY <1>5 DEF Tracked
  <2> QED BY <1>4, <2>1 DEF Suggested
<1>7. ASSUME NEW k \in Keys \ {<<"subs">>, <<"sub", s>>, <<"log", s>>}
      PROVE  Answer(k)' = Answer(k)
  <2>1. CASE k \in {<<"suggested">>, <<"declined">>}
        BY <1>6, <2>1 DEF Answer
  <2>2. ASSUME NEW x \in Subs \ {s}, k \in {<<"sub", x>>, <<"log", x>>}
        PROVE  Answer(k)' = Answer(k)
        BY <1>1, <2>2 DEF Answer
  <2>3. ASSUME NEW x \in Subs, k = <<"txs", x>>
        PROVE  Answer(k)' = Answer(k)
        BY <2>3 DEF Answer
  <2> QED BY <1>7, <2>1, <2>2, <2>3, SubscriptionKeys
<1>8. \A x \in Subs : subs'[x] = Unborn => subs[x] = Unborn
      BY <1>1, <1>2
<1> QED BY <1>1, <1>3, <1>4, <1>7, <1>8

LEMMA EnrichedWrites ==
    ASSUME TypeOK, NEW s \in Subs, Stored(s), Enriched(s)
    PROVE  \E new \in Sub : new.of = subs[s].of /\ subs' = [subs EXCEPT ![s] = new]
<1>1. subs[s] \in Sub /\ subs \in [Subs -> Sub \cup {Unborn, Gone}]
      BY DEF TypeOK, Stored
<1>2. [subs[s] EXCEPT !.text = "enriched"] \in Sub /\ [subs[s] EXCEPT !.text = "enriched"].of = subs[s].of
      BY <1>1 DEF Sub
<1>3. subs' = [subs EXCEPT ![s] = [subs[s] EXCEPT !.text = "enriched"]]
      BY <1>1 DEF Enriched
<1> QED BY <1>2, <1>3

\* Of what a call changes the callback of its answer tells the queries, but for
\* what it leaves out and for those of a subscription that nobody knew of.
LEMMA ServedWrites ==
    ASSUME SubscriptionsInv, NEW kind \in Kinds, NEW m \in Call(kind), Accepted(m), Served(m)
    PROVE  /\ subs' \in [Subs -> Sub \cup {Unborn, Gone}]
           /\ link' \in [Txns -> Subs \cup {None}] /\ log' \in [Subs -> Nat]
           /\ declined' \subseteq Merchants /\ tolerant' \in BOOLEAN /\ enriching' \subseteq Tracked'
           /\ \A s \in Subs : /\ subs'[s] = Unborn => subs[s] = Unborn
                              /\ Stored(s)' => Stored(s) \/ subs[s] = Unborn
           /\ \A k \in Keys \ (Invalid(m, m.about) \cup Untold(m)) : Live(k)' =>
                \/ Answer(k)' = Answer(k)
                \/ \E s \in Subs : k \in KeysOf(s) /\ subs[s] = Unborn
<1>0. TypeOK
      BY DEF SubscriptionsInv
<1>1. /\ subs \in [Subs -> Sub \cup {Unborn, Gone}]
      /\ link \in [Txns -> Subs \cup {None}] /\ log \in [Subs -> Nat]
      /\ declined \subseteq Merchants /\ tolerant \in BOOLEAN /\ enriching \subseteq Tracked
      BY <1>0 DEF TypeOK
<1>2. m.kind = kind /\ m.about \in About(kind) /\ m.what \in What(kind)
      BY CallIs
<1>3. kind \notin OfMerchant => m.about \in Subs /\ Stored(m.about) /\ subs[m.about] \in Sub
      BY <1>1, <1>2 DEF About, OfMerchant, Accepted, Stored
<1>4. CASE kind = "approve"
  <2>1. PICK s \in Subs :
          /\ subs[s] = Unborn
          /\ subs' = [subs EXCEPT ![s] = [of |-> m.about, text |-> "found", account |-> None, status |-> "active"]]
          /\ log' = [log EXCEPT ![s] = 1]
          /\ enriching' = enriching \cup {s}
          /\ UNCHANGED <<link, declined, tolerant>>
    <3>1. \E x \in Subs : subs[x] = Unborn
          BY <1>2, <1>4 DEF Accepted
    <3>2. LET s == CHOOSE x \in Subs : subs[x] = Unborn IN
          /\ subs' = [subs EXCEPT ![s] = [of |-> m.about, text |-> "found", account |-> None, status |-> "active"]]
          /\ log' = [log EXCEPT ![s] = 1]
          /\ enriching' = enriching \cup {s}
          /\ UNCHANGED <<link, declined, tolerant>>
          BY <1>2, <1>4 DEF Served
    <3> QED BY <3>1, <3>2
  <2>2. [of |-> m.about, text |-> "found", account |-> None, status |-> "active"] \in Sub
        BY <1>2, <1>4 DEF Sub, About, OfMerchant
  <2>3. /\ subs' \in [Subs -> Sub \cup {Unborn, Gone}] /\ log' \in [Subs -> Nat]
        /\ subs'[s] \in Sub /\ \A x \in Subs \ {s} : subs'[x] = subs[x]
        BY <1>1, <2>1, <2>2
  <2>4. subs'[s] \notin {Unborn, Gone}
        BY <2>3, SubscriptionAnswers
  <2>5. Tracked \subseteq Tracked' /\ s \in Tracked'
        BY <2>1, <2>3, <2>4 DEF Tracked, Stored
  <2>6. ASSUME NEW k \in Keys \ Invalid(m, m.about)
        PROVE  \/ Answer(k)' = Answer(k)
               \/ \E x \in Subs : k \in KeysOf(x) /\ subs[x] = Unborn
    <3>1. k \notin {<<"subs">>, <<"suggested">>}
          BY <1>2, <1>4, <2>6 DEF Invalid
    <3>2. CASE k = <<"declined">>
          BY <2>1, <3>2 DEF Answer
    <3>3. ASSUME NEW x \in Subs, k \in {<<"sub", x>>, <<"log", x>>}
          PROVE  \/ Answer(k)' = Answer(k)
                 \/ \E y \in Subs : k \in KeysOf(y) /\ subs[y] = Unborn
      <4>1. CASE x = s
            BY <2>1, <3>3, <4>1 DEF KeysOf
      <4>2. CASE x # s
            BY <1>1, <2>1, <2>3, <3>3, <4>2 DEF Answer
      <4> QED BY <4>1, <4>2
    <3>4. ASSUME NEW x \in Subs, k = <<"txs", x>>
          PROVE  Answer(k)' = Answer(k)
          BY <2>1, <3>4 DEF Answer
    <3> QED BY <2>6, <3>1, <3>2, <3>3, <3>4, SubscriptionKeys
  <2>7. \A x \in Subs : /\ (subs'[x] = Unborn => subs[x] = Unborn)
                        /\ (Stored(x)' => Stored(x) \/ subs[x] = Unborn)
        BY <2>1, <2>3, <2>4 DEF Stored
  <2> QED BY <1>1, <2>1, <2>3, <2>5, <2>6, <2>7
<1>5. CASE kind \in {"decline", "undecline", "discover"}
  <2>1. /\ UNCHANGED <<subs, link, log, enriching>>
        /\ declined' \subseteq Merchants /\ tolerant' \in BOOLEAN
    <3>1. CASE kind = "decline"
          BY <1>1, <1>2, <3>1 DEF Served, About, OfMerchant
    <3>2. CASE kind = "undecline"
          BY <1>1, <1>2, <3>2 DEF Served, About, OfMerchant
    <3>3. CASE kind = "discover"
      <4>1. UNCHANGED <<subs, link, log, enriching, declined>> /\ tolerant' = m.what
            BY <1>2, <3>3 DEF Served
      <4>2. m.what \in BOOLEAN
            BY <1>2, <3>3 DEF What
      <4> QED BY <1>1, <4>1, <4>2
    <3> QED BY <1>5, <3>1, <3>2, <3>3
  <2>2. Tracked' = Tracked /\ \A s : Stored(s)' <=> Stored(s)
        BY <2>1 DEF Tracked, Stored
  <2>3. ASSUME NEW k \in Keys \ Invalid(m, m.about) PROVE Answer(k)' = Answer(k)
    <3>1. k # <<"suggested">> /\ (k = <<"declined">> => kind = "discover")
          BY <1>2, <1>5, <2>3 DEF Invalid
    <3>2. kind = "discover" => declined' = declined
          BY <1>2 DEF Served
    <3>3. CASE k = <<"subs">>
          BY <2>1, <2>2, <3>3 DEF Answer
    <3>4. CASE k = <<"declined">>
          BY <3>1, <3>2, <3>4 DEF Answer
    <3>5. ASSUME NEW x \in Subs, k \in {<<"sub", x>>, <<"txs", x>>, <<"log", x>>} PROVE Answer(k)' = Answer(k)
          BY <2>1, <3>5 DEF Answer
    <3> QED BY <3>1, <3>3, <3>4, <3>5, SubscriptionKeys
  <2> QED BY <1>1, <2>1, <2>2, <2>3
<1>6. CASE kind \in {"drop", "delete"}
  <2>1. /\ subs' = [subs EXCEPT ![m.about] = Gone]
        /\ link' = [t \in Txns |-> IF link[t] = m.about THEN None ELSE link[t]]
        /\ enriching' = enriching \ {m.about}
        /\ UNCHANGED <<log, declined, tolerant>>
        BY <1>2, <1>6 DEF Served
  <2>2. m.about \in Subs
        BY <1>3, <1>6 DEF OfMerchant
  <2>3. /\ subs' \in [Subs -> Sub \cup {Unborn, Gone}] /\ link' \in [Txns -> Subs \cup {None}]
        /\ subs'[m.about] = Gone /\ \A x \in Subs \ {m.about} : subs'[x] = subs[x]
        BY <1>1, <2>1, <2>2
  <2>4. enriching' \subseteq Tracked'
        BY <1>1, <2>1, <2>3 DEF Tracked, Stored
  <2>5. ASSUME NEW k \in Keys \ (Invalid(m, m.about) \cup Untold(m)), Live(k)'
        PROVE  Answer(k)' = Answer(k)
    <3>1. k \notin {<<"subs">>, <<"suggested">>}
          BY <1>2, <1>6, <2>5 DEF Invalid, Untold
    <3>2. CASE k = <<"declined">>
          BY <2>1, <3>2 DEF Answer
    <3>3. \A x : k \in {<<"sub", x>>, <<"txs", x>>, <<"log", x>>} => x # m.about
          BY <2>3, <2>5 DEF Live, Stored
    <3>4. ASSUME NEW x \in Subs \ {m.about}, k \in {<<"sub", x>>, <<"log", x>>}
          PROVE  Answer(k)' = Answer(k)
          BY <2>1, <2>3, <3>4 DEF Answer
    <3>5. ASSUME NEW x \in Subs \ {m.about}, k = <<"txs", x>>
          PROVE  Answer(k)' = Answer(k)
      <4>1. \A t \in Txns : link'[t] = x <=> link[t] = x
        <5>1. m.about # None /\ x # None
              BY <2>2, SubscriptionAnswers
        <5> QED BY <2>1, <5>1
      <4>2. Answer(k) = {t \in Txns : link[t] = x} /\ Answer(k)' = {t \in Txns : link'[t] = x}
            BY <3>5 DEF Answer
      <4> QED BY <4>1, <4>2
    <3> QED BY <2>5, <3>1, <3>2, <3>3, <3>4, <3>5, SubscriptionKeys
  <2>6. \A x \in Subs : (subs'[x] = Unborn => subs[x] = Unborn) /\ (Stored(x)' => Stored(x))
        BY <2>3, SubscriptionMarks DEF Stored
  <2> QED BY <1>1, <2>1, <2>3, <2>4, <2>5, <2>6
<1>7. CASE kind \in {"enrich", "enrichRow", "update", "cancel"}
  <2>1. m.about \in Subs /\ Stored(m.about) /\ subs[m.about] \in Sub
        BY <1>3, <1>7 DEF OfMerchant
  <2>2. /\ UNCHANGED <<link, declined, tolerant, enriching>> /\ log' \in [Subs -> Nat]
        /\ \A x \in Subs \ {m.about} : log'[x] = log[x]
    <3>1. CASE kind \in {"enrich", "enrichRow"}
      <4>1. Enriched(m.about) /\ UNCHANGED <<link, declined, tolerant, enriching>>
            BY <1>2, <3>1 DEF Served
      <4> QED BY <1>1, <2>1, <4>1 DEF Enriched
    <3>2. CASE kind = "update"
          BY <1>1, <1>2, <2>1, <3>2 DEF Served
    <3>3. CASE kind = "cancel"
          BY <1>1, <1>2, <2>1, <3>3 DEF Served
    <3> QED BY <1>7, <3>1, <3>2, <3>3
  <2>3. \E new \in Sub : new.of = subs[m.about].of /\ subs' = [subs EXCEPT ![m.about] = new]
    <3>1. CASE kind \in {"enrich", "enrichRow"}
      <4>1. Enriched(m.about)
            BY <1>2, <3>1 DEF Served
      <4> QED BY <1>0, <2>1, <4>1, EnrichedWrites
    <3>2. CASE kind = "update"
      <4>1. subs' = [subs EXCEPT ![m.about] = Edited(subs[m.about], m.what)]
            BY <1>2, <3>2 DEF Served
      <4>2. m.what \in Form
            BY <1>2, <3>2 DEF What
      <4>3. Edited(subs[m.about], m.what) \in Sub /\ Edited(subs[m.about], m.what).of = subs[m.about].of
            BY <2>1, <4>2 DEF Edited, Sub, Form
      <4> QED BY <4>1, <4>3
    <3>3. CASE kind = "cancel"
      <4>1. [subs[m.about] EXCEPT !.status = "pending"] \in Sub
            BY <2>1 DEF Sub
      <4>2. [subs[m.about] EXCEPT !.status = "pending"].of = subs[m.about].of
            BY <2>1 DEF Sub
      <4>3. subs' = [subs EXCEPT ![m.about] = [subs[m.about] EXCEPT !.status = "pending"]]
            BY <1>2, <3>3 DEF Served
      <4> QED BY <4>1, <4>2, <4>3
    <3> QED BY <1>7, <3>1, <3>2, <3>3
  <2>4. /\ subs' \in [Subs -> Sub \cup {Unborn, Gone}] /\ Tracked' = Tracked
        /\ \A x \in Subs : (subs'[x] = Unborn => subs[x] = Unborn) /\ (Stored(x)' => Stored(x))
        /\ \A k \in Keys \ {<<"subs">>, <<"sub", m.about>>, <<"log", m.about>>} : Answer(k)' = Answer(k)
        BY <1>0, <2>1, <2>2, <2>3, RewrittenKeeps
  <2>5. ASSUME NEW k \in Keys \ (Invalid(m, m.about) \cup Untold(m)), k \in {<<"subs">>, <<"sub", m.about>>, <<"log", m.about>>}
        PROVE  Answer(k)' = Answer(k)
    <3>1. CASE kind \in {"enrich", "enrichRow", "cancel"}
          BY <1>2, <2>5, <3>1 DEF Invalid, Untold
    <3>2. CASE kind = "update"
          BY <1>2, <2>5, <3>2 DEF Invalid, Untold
    <3> QED BY <1>7, <3>1, <3>2
  <2> QED BY <1>1, <2>2, <2>4, <2>5
<1>8. CASE kind \in {"link", "unlink"}
  <2>1. m.about \in Subs
        BY <1>3, <1>8 DEF OfMerchant
  <2>2. /\ link' = [t \in Txns |-> IF t \notin m.what THEN link[t] ELSE IF m.kind = "link" THEN m.about ELSE None]
        /\ log' = [log EXCEPT ![m.about] = @ + 1]
        /\ UNCHANGED <<subs, declined, tolerant, enriching>>
        BY <1>2, <1>8 DEF Served
  <2>3. link' \in [Txns -> Subs \cup {None}] /\ log' \in [Subs -> Nat]
        BY <1>1, <2>1, <2>2
  <2>4. Tracked' = Tracked /\ Suggested' = Suggested
        BY <2>2 DEF Tracked, Stored, Suggested
  <2>5. ASSUME NEW k \in Keys \ (Invalid(m, m.about) \cup Untold(m)) PROVE Answer(k)' = Answer(k)
    <3>1. CASE k \in {<<"subs">>, <<"suggested">>, <<"declined">>}
          BY <2>2, <2>4, <3>1 DEF Answer
    <3>2. ASSUME NEW x \in Subs, k \in {<<"sub", x>>, <<"txs", x>>, <<"log", x>>} PROVE Answer(k)' = Answer(k)
      <4>1. k # <<"txs", x>> /\ (k = <<"log", x>> => x # m.about)
            BY <1>2, <1>8, <2>5 DEF Invalid, Untold
      <4> QED BY <1>1, <2>1, <2>2, <3>2, <4>1 DEF Answer
    <3> QED BY <2>5, <3>1, <3>2, SubscriptionKeys
  <2>6. \A x \in Subs : (subs'[x] = Unborn => subs[x] = Unborn) /\ (Stored(x)' => Stored(x))
        BY <2>2 DEF Stored
  <2> QED BY <1>1, <2>2, <2>3, <2>4, <2>5, <2>6
<1>9. CASE kind = "preview"
  <2>1. UNCHANGED <<subs, link, log, declined, tolerant, enriching>>
        BY <1>2, <1>9 DEF Served, server
  <2>2. \A x \in Subs : Stored(x)' => Stored(x)
        BY <2>1 DEF Stored
  <2> QED BY <1>1, <2>1, <2>2, SameAnswersHere
<1> QED BY <1>4, <1>5, <1>6, <1>7, <1>8, <1>9 DEF Kinds, OfMerchant

\* What a write of the server leaves true of the pages.
LEMMA WriteKeeps ==
    ASSUME SubscriptionsInv,
           UNCHANGED <<page, form, letter, modal, jumped, cache, fetch, scope>>,
           /\ subs' \in [Subs -> Sub \cup {Unborn, Gone}]
           /\ link' \in [Txns -> Subs \cup {None}] /\ log' \in [Subs -> Nat]
           /\ declined' \subseteq Merchants /\ tolerant' \in BOOLEAN /\ enriching' \subseteq Tracked',
           behind' \subseteq Keys, sent' \subseteq Subs \X Subs, SentAsWritten',
           \A s \in Subs : subs'[s] = Unborn => subs[s] = Unborn,
           DOMAIN req' = Requests,
           \A r \in Requests : \/ req'[r] = req[r]
                               \/ \E stage \in {"done", "failed"} : req[r] # None /\ req'[r] = Answered(req[r], stage),
           \A k \in Keys \ behind' : SubscriptionFresh(k)'
    PROVE  SubscriptionsInv'
<1>1. ASSUME NEW r \in Requests
      PROVE  /\ req'[r] = None \/ \E kind \in Kinds : req'[r] \in Call(kind)
             /\ req'[r] # None => /\ req[r] # None /\ req'[r].kind = req[r].kind /\ req'[r].about = req[r].about
                                  /\ req'[r].what = req[r].what /\ req'[r].here = req[r].here
  <2>1. req[r] = None \/ \E kind \in Kinds : req[r] \in Call(kind)
        BY DEF SubscriptionsInv, TypeOK
  <2>2. CASE req'[r] = req[r]
        BY <2>1, <2>2
  <2>3. ASSUME NEW stage \in {"done", "failed"}, req[r] # None, req'[r] = Answered(req[r], stage)
        PROVE  /\ \E kind \in Kinds : req'[r] \in Call(kind)
               /\ req'[r].kind = req[r].kind /\ req'[r].about = req[r].about
               /\ req'[r].what = req[r].what /\ req'[r].here = req[r].here
    <3>1. PICK kind \in Kinds : req[r] \in Call(kind)
          BY <2>1, <2>3
    <3>2. stage \in {"sent", "done", "failed"} /\ req[r].kind = kind
          BY <3>1, CallIs
    <3> QED BY <2>3, <3>1, <3>2, AnsweredIs
  <2> QED BY <2>2, <2>3
<1>2. TypeOK'
  <2>1. \A r \in Requests : req'[r] = None \/ \E kind \in Kinds : req'[r] \in Call(kind)
        BY <1>1
  <2> QED BY <2>1 DEF SubscriptionsInv, TypeOK, Fits
<1>3. UnbornUnknown'
      BY <1>1 DEF SubscriptionsInv, UnbornUnknown
<1>4. PreviewsOnPage'
      BY <1>1 DEF SubscriptionsInv, PreviewsOnPage
<1>5. WrittenForPage'
  <2>1. CASE jumped
        BY <2>1 DEF WrittenForPage
  <2>2. CASE ~jumped
    <3>1. /\ form # None => form.of = page.id
          /\ letter # None => letter = page.id
          /\ \A r \in Requests : req[r] # None =>
               /\ req[r].kind = "preview" /\ req[r].here => req[r].about = page.id
               /\ req[r].kind = "update" => req[r].about = req[r].what.of
               /\ req[r].kind = "cancel" => req[r].about = req[r].what
          BY <2>2 DEF SubscriptionsInv, WrittenForPage
    <3> QED BY <1>1, <3>1 DEF WrittenForPage
  <2> QED BY <2>1, <2>2
<1> QED BY <1>2, <1>3, <1>4, <1>5 DEF SubscriptionsInv

LEMMA SubscriptionsServe ==
    ASSUME SubscriptionsInv, NEW r \in Requests, Serve(r)
    PROVE  SubscriptionsInv'
<1> DEFINE m == req[r]
<1>0. /\ m # None /\ m.stage = "sent" /\ DOMAIN req = Requests /\ behind \subseteq Keys
      /\ UNCHANGED <<page, form, letter, modal, jumped, cache, fetch, scope>>
      BY DEF Serve, view, SubscriptionsInv, TypeOK
<1>1. PICK kind \in Kinds :
        /\ m \in Call(kind)
        /\ kind = "update" => jumped \/ m.about = m.what.of
        /\ kind = "cancel" => jumped \/ m.about = m.what
      BY <1>0, CallsGood DEF GoodCall
<1>2. m.kind = kind /\ m.about \in About(kind) /\ m.what \in What(kind)
      BY <1>1, CallIs
<1>3. CASE /\ Accepted(m)
           /\ Served(m)
           /\ sent' = IF m.kind = "update" THEN sent \cup {<<m.about, m.what.of>>}
                      ELSE IF m.kind = "cancel" THEN sent \cup {<<m.about, m.what>>}
                      ELSE sent
           /\ \E answered \in BOOLEAN :
                /\ req' = [req EXCEPT ![r] = Answered(m, IF answered THEN "done" ELSE "failed")]
                /\ behind' = behind \cup (IF answered THEN Changed \cap Untold(m) ELSE Changed)
  <2>1. /\ subs' \in [Subs -> Sub \cup {Unborn, Gone}]
        /\ link' \in [Txns -> Subs \cup {None}] /\ log' \in [Subs -> Nat]
        /\ declined' \subseteq Merchants /\ tolerant' \in BOOLEAN /\ enriching' \subseteq Tracked'
        /\ \A s \in Subs : /\ subs'[s] = Unborn => subs[s] = Unborn
                           /\ Stored(s)' => Stored(s) \/ subs[s] = Unborn
        /\ \A k \in Keys \ (Invalid(m, m.about) \cup Untold(m)) : Live(k)' =>
             \/ Answer(k)' = Answer(k)
             \/ \E s \in Subs : k \in KeysOf(s) /\ subs[s] = Unborn
        BY <1>1, <1>3, ServedWrites
  <2>2. sent' \subseteq Subs \X Subs /\ SentAsWritten'
    <3>1. sent \subseteq Subs \X Subs /\ (jumped \/ \A p \in sent : p[1] = p[2])
          BY DEF SubscriptionsInv, TypeOK, SentAsWritten
    <3>2. CASE kind = "update"
      <4>1. m.about \in Subs /\ m.what.of \in Subs /\ (jumped \/ m.about = m.what.of)
            BY <1>1, <1>2, <3>2 DEF About, What, OfMerchant, Form
      <4>2. sent' = sent \cup {<<m.about, m.what.of>>}
            BY <1>2, <1>3, <3>2
      <4> HIDE DEF m
      <4> QED BY <1>0, <3>1, <4>1, <4>2 DEF SentAsWritten
    <3>3. CASE kind = "cancel"
      <4>1. m.about \in Subs /\ m.what \in Subs /\ (jumped \/ m.about = m.what)
            BY <1>1, <1>2, <3>3 DEF About, What, OfMerchant
      <4>2. sent' = sent \cup {<<m.about, m.what>>}
            BY <1>2, <1>3, <3>3
      <4> HIDE DEF m
      <4> QED BY <1>0, <3>1, <4>1, <4>2 DEF SentAsWritten
    <3>4. CASE kind \notin {"update", "cancel"}
      <4>1. sent' = sent
            BY <1>2, <1>3, <3>4
      <4> QED BY <1>0, <3>1, <4>1 DEF SentAsWritten
    <3> QED BY <3>2, <3>3, <3>4
  <2>3. PICK answered \in BOOLEAN :
          /\ req' = [req EXCEPT ![r] = Answered(m, IF answered THEN "done" ELSE "failed")]
          /\ behind' = behind \cup (IF answered THEN Changed \cap Untold(m) ELSE Changed)
        BY <1>3
  <2>4. /\ DOMAIN req' = Requests /\ req'[r] = Answered(m, IF answered THEN "done" ELSE "failed")
        /\ \A q \in Requests \ {r} : req'[q] = req[q]
        BY <1>0, <2>3
  <2>5. behind' \subseteq Keys
        BY <1>0, <2>3 DEF Changed
  <2>6. \A q \in Requests : \/ req'[q] = req[q]
                            \/ \E stage \in {"done", "failed"} : req[q] # None /\ req'[q] = Answered(req[q], stage)
        BY <1>0, <2>4
  <2>7. ASSUME NEW k \in Keys \ behind' PROVE SubscriptionFresh(k)'
    <3> SUFFICES ASSUME Live(k)', \A q \in Requests : ~Tells(req'[q], k)
                 PROVE  \/ fetch[k] = Asked
                        \/ fetch[k] = None /\ (k \in Used(page) => cache[k] = Answer(k)')
                        \/ fetch[k] = Answer(k)'
      <4>1. Used(page)' = Used(page)
            BY <1>0 DEF Used
      <4> QED BY <1>0, <4>1 DEF SubscriptionFresh, Tells
    <3>1. answered => k \notin Invalid(m, m.about)
      <4>1. SUFFICES ASSUME answered PROVE k \notin Invalid(m, m.about)
            OBVIOUS
      <4>2. req'[r] = Answered(m, "done") /\ "done" \in {"sent", "done", "failed"}
            BY <2>4, <4>1
      <4>3. /\ req'[r] \in Call(kind) /\ req'[r].kind = m.kind /\ req'[r].about = m.about /\ req'[r].stage = "done"
            BY <1>1, <1>2, <4>2, AnsweredIs
      <4>4. req'[r] # None
            BY <4>3, CallIs
      <4>5. Invalid(req'[r], req'[r].about) = Invalid(m, m.about)
            BY <4>3 DEF Invalid
      <4> QED BY <4>3, <4>4, <4>5 DEF Tells
    <3>2. \A q \in Requests : ~Tells(req[q], k)
      <4>1. ~Tells(req[r], k)
            BY <1>0 DEF Tells
      <4> QED BY <2>4, <4>1
    <3>3. k \notin behind /\ (Answer(k)' = Answer(k) \/ (answered /\ k \notin Untold(m)))
      <4>1. k \in Changed <=> Answer(k)' # Answer(k)
            BY DEF Changed
      <4> HIDE DEF m
      <4> QED BY <2>3, <2>7, <4>1
    <3>4. CASE \E s \in Subs : k \in KeysOf(s) /\ subs[s] = Unborn
          BY <3>4, UnbornUnused
    <3>5. CASE ~ \E s \in Subs : k \in KeysOf(s) /\ subs[s] = Unborn
      <4>1. Live(k)
        <5>1. CASE k \in ListKeys
              BY <5>1 DEF ListKeys, Live
        <5>2. ASSUME NEW s \in Subs, k \in KeysOf(s) PROVE Live(k)
          <6>1. k[1] \in {"sub", "txs", "log"} /\ k[2] = s
                BY <5>2 DEF KeysOf
          <6>2. Stored(s)'
                BY <6>1 DEF Live
          <6>3. Stored(s)
                BY <2>1, <3>5, <5>2, <6>2
          <6> QED BY <6>1, <6>3 DEF Live
        <5> QED BY <5>1, <5>2 DEF Keys
      <4>2. Answer(k)' = Answer(k)
            BY <2>1, <3>1, <3>3, <3>5
      <4> QED BY <3>2, <3>3, <4>1, <4>2 DEF SubscriptionsInv, SubscriptionFresh
    <3> QED BY <3>4, <3>5
  <2> HIDE DEF m
  <2> QED BY <1>0, <2>1, <2>2, <2>4, <2>5, <2>6, <2>7, WriteKeeps
<1>4. CASE req' = [req EXCEPT ![r] = Answered(m, "failed")] /\ UNCHANGED <<server, sent, behind>>
  <2>1. UNCHANGED <<subs, link, log, declined, tolerant, enriching, sent, behind>>
        BY <1>4 DEF server
  <2>2. DOMAIN req' = Requests /\ req'[r] = Answered(m, "failed") /\ \A q \in Requests \ {r} : req'[q] = req[q]
        BY <1>0, <1>4
  <2>3. \A q \in Requests : \/ req'[q] = req[q]
                            \/ \E stage \in {"done", "failed"} : req[q] # None /\ req'[q] = Answered(req[q], stage)
        BY <1>0, <2>2
  <2>4. \A p : Used(p)' = Used(p)
        BY <1>0 DEF Used
  <2>5. \A k \in Keys, q \in Requests : Tells(req[q], k) => \E x \in Requests : Tells(req'[x], k)
        BY <1>0, <2>2 DEF Tells
  <2>6. \A k \in Keys \ behind' : SubscriptionFresh(k)'
        BY <1>0, <2>1, <2>4, <2>5, FreshKept
  <2>7. /\ subs' \in [Subs -> Sub \cup {Unborn, Gone}]
        /\ link' \in [Txns -> Subs \cup {None}] /\ log' \in [Subs -> Nat]
        /\ declined' \subseteq Merchants /\ tolerant' \in BOOLEAN /\ enriching' \subseteq Tracked'
        /\ behind' \subseteq Keys /\ sent' \subseteq Subs \X Subs /\ SentAsWritten'
        /\ \A s \in Subs : subs'[s] = Unborn => subs[s] = Unborn
    <3>1. Tracked' = Tracked
          BY <2>1, SameAnswersHere
    <3> QED BY <1>0, <2>1, <3>1 DEF SubscriptionsInv, TypeOK, SentAsWritten
  <2> HIDE DEF m
  <2> QED BY <1>0, <2>2, <2>3, <2>6, <2>7, WriteKeeps
<1> QED BY <1>3, <1>4 DEF Serve

LEMMA SubscriptionsBackgroundEnrich ==
    ASSUME SubscriptionsInv, NEW s \in Subs, BackgroundEnrich(s)
    PROVE  SubscriptionsInv'
<1>1. /\ UNCHANGED <<link, declined, tolerant, page, form, letter, modal, jumped, cache, fetch, req, sent, scope>>
      /\ enriching' = enriching \ {s} /\ s \in enriching /\ Enriched(s)
      /\ behind' = behind \cup Changed
      BY DEF BackgroundEnrich, view
<1>2. TypeOK
      BY DEF SubscriptionsInv
<1>3. Stored(s) /\ subs[s] \in Sub
      BY <1>1, <1>2 DEF TypeOK, Tracked, Stored
<1>4. PICK new \in Sub : new.of = subs[s].of /\ subs' = [subs EXCEPT ![s] = new]
      BY <1>1, <1>2, <1>3, EnrichedWrites
<1>5. log' \in [Subs -> Nat] /\ \A x \in Subs \ {s} : log'[x] = log[x]
      BY <1>1, <1>2 DEF TypeOK, Enriched
<1>6. /\ subs' \in [Subs -> Sub \cup {Unborn, Gone}] /\ Tracked' = Tracked
      /\ \A x \in Subs : (subs'[x] = Unborn => subs[x] = Unborn) /\ (Stored(x)' => Stored(x))
      BY <1>1, <1>2, <1>3, <1>4, <1>5, RewrittenKeeps
<1>7. /\ link' \in [Txns -> Subs \cup {None}] /\ declined' \subseteq Merchants /\ tolerant' \in BOOLEAN
      /\ enriching' \subseteq Tracked' /\ behind' \subseteq Keys /\ sent' \subseteq Subs \X Subs
      /\ DOMAIN req' = Requests
  <2>1. /\ link \in [Txns -> Subs \cup {None}] /\ declined \subseteq Merchants /\ tolerant \in BOOLEAN
        /\ enriching \subseteq Tracked /\ behind \subseteq Keys /\ sent \subseteq Subs \X Subs
        /\ DOMAIN req = Requests
        BY <1>2 DEF TypeOK
  <2> QED BY <1>1, <1>6, <2>1 DEF Changed
<1>8. SentAsWritten'
      BY <1>1 DEF SubscriptionsInv, SentAsWritten
<1>9. ASSUME NEW k \in Keys \ behind' PROVE SubscriptionFresh(k)'
  <2>1. SubscriptionFresh(k) /\ Answer(k)' = Answer(k)
        BY <1>1 DEF SubscriptionsInv, Changed
  <2>2. Live(k)' => Live(k)
    <3>1. \A x \in Subs : k \in KeysOf(x) => k[2] = x
          BY DEF KeysOf
    <3>2. k \in ListKeys => k[1] \notin {"sub", "txs", "log"}
          BY DEF ListKeys
    <3> QED BY <1>6, <3>1, <3>2 DEF Live, Keys
  <2>3. Used(page)' = Used(page)
        BY <1>1 DEF Used
  <2> QED BY <1>1, <2>1, <2>2, <2>3 DEF SubscriptionFresh, Tells
<1>10. \A r \in Requests : req'[r] = req[r]
      BY <1>1
<1> QED BY <1>1, <1>5, <1>6, <1>7, <1>8, <1>9, <1>10, WriteKeeps

\* What the invariant says of a quiet page.
LEMMA SubscriptionsShown ==
    ASSUME SubscriptionsInv
    PROVE  TypeOK /\ QuietShowsServer /\ SentAsWritten
<1>1. TypeOK /\ SentAsWritten
      BY DEF SubscriptionsInv
<1>2. QuietShowsServer
  <2> SUFFICES ASSUME \A r \in Requests : req[r] = None, page.at = "detail" => Stored(page.id),
                      NEW k \in Used(page) \ behind, fetch[k] = None
               PROVE  cache[k] = Answer(k)
      BY DEF QuietShowsServer
  <2>1. k \in Keys /\ SubscriptionFresh(k) /\ Live(k)
    <3>1. k \in Keys /\ SubscriptionFresh(k)
          BY DEF Used, SubscriptionsInv
    <3>2. CASE page.at = "detail"
      <4>1. k \in KeysOf(page.id) /\ Stored(page.id)
            BY <3>2 DEF Used
      <4> QED BY <3>1, <4>1 DEF KeysOf, Live
    <3>3. CASE page.at # "detail"
          BY <3>1, <3>3 DEF Used, ListKeys, Live
    <3> QED BY <3>2, <3>3
  <2>2. \A r \in Requests : ~Tells(req[r], k)
        BY DEF Tells
  <2>3. Answer(k) # None
        BY <1>1, <2>1, AnswerFits DEF Live, Known
  <2> QED BY <2>1, <2>2, <2>3, Marks DEF SubscriptionFresh
<1> QED BY <1>1, <1>2

-----------------------------------------------------------------------------
(* The page of invoices                                                     *)

\* Of an invoice that is not there yet the page has heard nothing.
Seen == {i \in Invoices : srv[i] # None}
OnlySeen ==
    /\ \A k \in Bills!Sources : /\ lists[k] # None => DOMAIN lists[k] \subseteq Seen
                                /\ fetch[k] \notin {None, Asked} => DOMAIN fetch[k] \subseteq Seen
    /\ \A r \in Requests : req[r] # None /\ req[r].before # None => DOMAIN req[r].before \subseteq Seen /\ req[r].kind # "preview"
    /\ sharing # None => sharing \in Seen
    /\ \A i \in Invoices \ Seen : fetch[i] = None

\* A call that was done and answered, of which a query is to be told, and one
\* that has changed a list and keeps what it was.
TellsOf(m) == IF m.kind = "preview" THEN {}
              ELSE Bills!Sources \cup (IF m.kind \in {"share", "revoke"} THEN m.of ELSE {})
TellsBill(m, k) == m # None /\ m.stage = "done" /\ k \in TellsOf(m)
Keeps(m, k)     == m # None /\ m.before # None /\ m.at = k

\* What a query has, or will have once its answer is there; of those that are
\* not mounted only the answers on their way count.
BillFresh(k) ==
    Bills!Known(k) /\ (\A r \in Requests : ~TellsBill(req[r], k)) =>
        \/ fetch[k] = Asked
        \/ fetch[k] = None /\ (k \in Bills!Mounted =>
                                 lists[k] = Bills!Answer(k) \/ \E r \in Requests : Keeps(req[r], k))
        \/ fetch[k] = Bills!Answer(k)

InvoicesInv == Bills!TypeOK /\ OnlySeen /\ \A k \in Bills!Keys \ behind : BillFresh(k)

LEMMA BillKeys ==
    /\ Bills!Keys = Bills!Sources \cup Invoices /\ Bills!Sources \cap Invoices = {}
    /\ \A l \in Bills!Lists : l \notin {None, Asked} /\ l \in [DOMAIN l -> Bills!Row] /\ DOMAIN l \subseteq Invoices
    /\ \A T \in SUBSET Invoices : [T -> Bills!Row] \subseteq Bills!Lists
    /\ \A a : a \subseteq Users => a \notin {None, Asked}
BY InvoiceMarks DEF Bills!Keys, Bills!Lists

LEMMA BillAnswerFits ==
    ASSUME Bills!TypeOK, NEW k \in Bills!Keys
    PROVE  /\ Bills!Fits(k, Bills!Answer(k)) /\ Bills!Answer(k) \notin {None, Asked}
           /\ k \in Bills!Sources => DOMAIN Bills!Answer(k) \subseteq Seen
<1>0. srv \in [Invoices -> Bills!Row \cup {None, Gone}] /\ shares \in [Invoices -> SUBSET Users]
      BY DEF Bills!TypeOK
<1>1. CASE k \in Bills!Sources
  <2> DEFINE shown == {i \in Invoices : Bills!Exists(i) /\ (k = "all" \/ (k = "mine") = srv[i].mine)}
  <2>1. \A i \in shown : srv[i] \in Bills!Row /\ srv[i] # None /\ i \in Invoices
        BY <1>0 DEF Bills!Exists
  <2>2. \A row \in Bills!Row : Bills!Visible(row) \in Bills!Row
        BY DEF Bills!Visible, Bills!Row
  <2>3. Bills!Answer(k) = [i \in shown |-> Bills!Visible(srv[i])]
        BY <1>1 DEF Bills!Answer, Bills!Listed
  <2>4. shown \in SUBSET Invoices /\ shown \subseteq Seen
        BY <2>1 DEF Seen
  <2> HIDE DEF shown
  <2>5. Bills!Answer(k) \in [shown -> Bills!Row]
        BY <2>1, <2>2, <2>3
  <2>6. Bills!Answer(k) \in Bills!Lists
        BY <2>4, <2>5, BillKeys
  <2> QED BY <1>1, <2>4, <2>5, <2>6, BillKeys DEF Bills!Fits
<1>2. CASE k \in Invoices
  <2>1. k \notin Bills!Sources
        BY <1>2, BillKeys
  <2>2. Bills!Answer(k) \subseteq Users
        BY <1>0, <1>2, <2>1 DEF Bills!Answer
  <2> QED BY <2>1, <2>2, BillKeys DEF Bills!Fits
<1> QED BY <1>1, <1>2, BillKeys

LEMMA BillSame ==
    ASSUME UNCHANGED <<srv, shares>>
    PROVE  /\ \A k : Bills!Answer(k)' = Bills!Answer(k)
           /\ \A k : Bills!Known(k)' <=> Bills!Known(k)
           /\ Seen' = Seen
<1>1. \A i : Bills!Exists(i)' <=> Bills!Exists(i)
      BY DEF Bills!Exists
<1>2. \A k : Bills!Listed(k)' = Bills!Listed(k)
      BY <1>1 DEF Bills!Listed
<1> QED BY <1>1, <1>2 DEF Bills!Answer, Bills!Known, Seen

\* A call that may be on its way.
GoodBill(m) ==
    \E kind \in Bills!Kinds : m \in Bills!Call(kind) /\ (m.before # None => DOMAIN m.before \subseteq Seen /\ m.kind # "preview")

LEMMA BillCallIs ==
    ASSUME NEW kind \in Bills!Kinds, NEW m \in Bills!Call(kind)
    PROVE  /\ m # None /\ m.kind = kind /\ m.of \in SUBSET Invoices /\ m.data \in Bills!Data(kind)
           /\ m.before \in Bills!Lists \cup {None} /\ m.at \in Bills!Sources /\ m.watched \in BOOLEAN
           /\ m.stage \in {"sent", "done", "failed"}
           /\ m = [kind |-> kind, of |-> m.of, data |-> m.data, before |-> m.before,
                   at |-> m.at, watched |-> m.watched, stage |-> m.stage]
BY InvoiceMarks DEF Bills!Call

LEMMA BillUnwatched ==
    ASSUME NEW m, GoodBill(m)
    PROVE  /\ GoodBill(Bills!Unwatched(m)) /\ m # None
           /\ \A k : TellsBill(m, k) => TellsBill(Bills!Unwatched(m), k)
           /\ \A k : Keeps(m, k) => Keeps(Bills!Unwatched(m), k)
<1>1. PICK kind \in Bills!Kinds : m \in Bills!Call(kind) /\ (m.before # None => DOMAIN m.before \subseteq Seen /\ m.kind # "preview")
      BY DEF GoodBill
<1>2. /\ m # None /\ m.kind = kind /\ m.of \in SUBSET Invoices /\ m.data \in Bills!Data(kind)
      /\ m.before \in Bills!Lists \cup {None} /\ m.at \in Bills!Sources
      /\ m.stage \in {"sent", "done", "failed"}
      /\ m = [kind |-> kind, of |-> m.of, data |-> m.data, before |-> m.before,
              at |-> m.at, watched |-> m.watched, stage |-> m.stage]
      BY <1>1, BillCallIs
<1>e. m = [kind |-> kind, of |-> m.of, data |-> m.data, before |-> m.before,
           at |-> m.at, watched |-> m.watched, stage |-> m.stage]
      BY <1>1, BillCallIs
<1>3. ASSUME NEW of, NEW data, NEW before, NEW at, NEW watched, NEW stage, NEW no,
             m = [kind |-> kind, of |-> of, data |-> data, before |-> before,
                  at |-> at, watched |-> watched, stage |-> stage]
      PROVE  [m EXCEPT !.watched = no] = [kind |-> kind, of |-> of, data |-> data, before |-> before,
                                          at |-> at, watched |-> no, stage |-> stage]
      BY <1>3
<1>4. Bills!Unwatched(m) = [kind |-> kind, of |-> m.of, data |-> m.data, before |-> m.before,
                            at |-> m.at, watched |-> FALSE, stage |-> m.stage]
      BY <1>3, <1>e, Zenon DEF Bills!Unwatched
<1>f. [kind |-> kind, of |-> m.of, data |-> m.data, before |-> m.before,
       at |-> m.at, watched |-> FALSE, stage |-> m.stage] \in Bills!Call(kind)
      BY <1>2 DEF Bills!Call
<1>5. Bills!Unwatched(m) \in Bills!Call(kind)
      BY <1>4, <1>f
<1>6. LET n == Bills!Unwatched(m) IN
      n # None /\ n.kind = m.kind /\ n.of = m.of /\ n.before = m.before /\ n.at = m.at /\ n.stage = m.stage
  <2>1. Bills!Unwatched(m) # None
        BY <1>5, BillCallIs
  <2> QED BY <1>2, <1>4, <2>1
<1> QED BY <1>1, <1>2, <1>5, <1>6 DEF GoodBill, TellsBill, TellsOf, Keeps

LEMMA BillMoved ==
    ASSUME NEW m, GoodBill(m), NEW source \in Bills!Sources
    PROVE  /\ GoodBill(Bills!Moved(m, source)) /\ m # None
           /\ \A k : TellsBill(m, k) => TellsBill(Bills!Moved(m, source), k)
           /\ Keeps(m, m.at) => Keeps(Bills!Moved(m, source), source)
<1>1. PICK kind \in Bills!Kinds : m \in Bills!Call(kind) /\ (m.before # None => DOMAIN m.before \subseteq Seen /\ m.kind # "preview")
      BY DEF GoodBill
<1>2. /\ m # None /\ m.kind = kind /\ m.of \in SUBSET Invoices /\ m.data \in Bills!Data(kind)
      /\ m.before \in Bills!Lists \cup {None} /\ m.watched \in BOOLEAN
      /\ m.stage \in {"sent", "done", "failed"}
      /\ m = [kind |-> kind, of |-> m.of, data |-> m.data, before |-> m.before,
              at |-> m.at, watched |-> m.watched, stage |-> m.stage]
      BY <1>1, BillCallIs
<1>e. m = [kind |-> kind, of |-> m.of, data |-> m.data, before |-> m.before,
           at |-> m.at, watched |-> m.watched, stage |-> m.stage]
      BY <1>1, BillCallIs
<1>3. ASSUME NEW of, NEW data, NEW before, NEW at, NEW watched, NEW stage, NEW x,
             m = [kind |-> kind, of |-> of, data |-> data, before |-> before,
                  at |-> at, watched |-> watched, stage |-> stage]
      PROVE  [m EXCEPT !.at = x] = [kind |-> kind, of |-> of, data |-> data, before |-> before,
                                    at |-> x, watched |-> watched, stage |-> stage]
      BY <1>3
<1>4. Bills!Moved(m, source) = [kind |-> kind, of |-> m.of, data |-> m.data, before |-> m.before,
                                at |-> source, watched |-> m.watched, stage |-> m.stage]
  <2>1. [m EXCEPT !.at = source] = [kind |-> kind, of |-> m.of, data |-> m.data, before |-> m.before,
                                     at |-> source, watched |-> m.watched, stage |-> m.stage]
        BY <1>3, <1>e
  <2> QED BY <2>1 DEF Bills!Moved
<1>f. [kind |-> kind, of |-> m.of, data |-> m.data, before |-> m.before,
       at |-> source, watched |-> m.watched, stage |-> m.stage] \in Bills!Call(kind)
      BY <1>2 DEF Bills!Call
<1>5. Bills!Moved(m, source) \in Bills!Call(kind)
      BY <1>4, <1>f
<1>6. LET n == Bills!Moved(m, source) IN
      n # None /\ n.kind = m.kind /\ n.of = m.of /\ n.before = m.before /\ n.at = source /\ n.stage = m.stage
  <2>1. Bills!Moved(m, source) # None
        BY <1>5, BillCallIs
  <2> QED BY <1>2, <1>4, <2>1
<1> QED BY <1>1, <1>2, <1>5, <1>6 DEF GoodBill, TellsBill, TellsOf, Keeps

LEMMA BillAnswered ==
    ASSUME NEW m, GoodBill(m), NEW stage \in {"sent", "done", "failed"}
    PROVE  LET n == Bills!Answered(m, stage) IN
           /\ \E kind \in Bills!Kinds : n \in Bills!Call(kind)
           /\ n # None /\ n.kind = m.kind /\ n.of = m.of /\ n.before = m.before /\ n.at = m.at /\ n.stage = stage
<1>1. PICK kind \in Bills!Kinds : m \in Bills!Call(kind)
      BY DEF GoodBill
<1>2. /\ m # None /\ m.kind = kind /\ m.of \in SUBSET Invoices /\ m.data \in Bills!Data(kind)
      /\ m.before \in Bills!Lists \cup {None} /\ m.at \in Bills!Sources /\ m.watched \in BOOLEAN
      /\ m = [kind |-> kind, of |-> m.of, data |-> m.data, before |-> m.before,
              at |-> m.at, watched |-> m.watched, stage |-> m.stage]
      BY <1>1, BillCallIs
<1>e. m = [kind |-> kind, of |-> m.of, data |-> m.data, before |-> m.before,
           at |-> m.at, watched |-> m.watched, stage |-> m.stage]
      BY <1>1, BillCallIs
<1>3. ASSUME NEW of, NEW data, NEW before, NEW at, NEW watched, NEW old, NEW x,
             m = [kind |-> kind, of |-> of, data |-> data, before |-> before,
                  at |-> at, watched |-> watched, stage |-> old]
      PROVE  [m EXCEPT !.stage = x] = [kind |-> kind, of |-> of, data |-> data, before |-> before,
                                       at |-> at, watched |-> watched, stage |-> x]
      BY <1>3
<1>4. Bills!Answered(m, stage) = [kind |-> kind, of |-> m.of, data |-> m.data, before |-> m.before,
                                  at |-> m.at, watched |-> m.watched, stage |-> stage]
      BY <1>3, <1>e, Zenon DEF Bills!Answered
<1>f. [kind |-> kind, of |-> m.of, data |-> m.data, before |-> m.before,
       at |-> m.at, watched |-> m.watched, stage |-> stage] \in Bills!Call(kind)
      BY <1>2 DEF Bills!Call
<1>5. Bills!Answered(m, stage) \in Bills!Call(kind)
      BY <1>4, <1>f
<1> QED BY <1>2, <1>4, <1>5, BillCallIs

LEMMA BillsGood ==
    ASSUME InvoicesInv, NEW r \in Requests, req[r] # None
    PROVE  GoodBill(req[r])
BY DEF InvoicesInv, Bills!TypeOK, OnlySeen, GoodBill

LEMMA InvoicesStart ==
    ASSUME Bills!Init
    PROVE  InvoicesInv
<1> USE DEF Bills!Init
<1>1. Bills!TypeOK
  <2>1. srv \in [Invoices -> Bills!Row \cup {None, Gone}] /\ shares \in [Invoices -> SUBSET Users]
        OBVIOUS
  <2> QED BY <2>1 DEF Bills!TypeOK
<1>2. OnlySeen
  <2>1. applied.source \in Bills!Sources
        BY DEF Bills!Filters
  <2>2. /\ \A k \in Bills!Sources : lists[k] = None /\ fetch[k] \in {None, Asked}
        /\ \A i \in Invoices : fetch[i] = None
        BY <2>1, BillKeys
  <2> QED BY <2>2 DEF OnlySeen
<1>3. \A k \in Bills!Keys : BillFresh(k)
  <2>1. sharing = None /\ \A k \in Bills!Keys : fetch[k] = IF k = applied.source THEN Asked ELSE None
        OBVIOUS
  <2> QED BY <2>1 DEF BillFresh, Bills!Mounted
<1> QED BY <1>1, <1>2, <1>3 DEF InvoicesInv

\* What of the types a step of the page changes.
LEMMA BillTypes ==
    ASSUME Bills!TypeOK,
           srv' \in [Invoices -> Bills!Row \cup {None, Gone}], shares' \in [Invoices -> SUBSET Users],
           applied' \in Bills!Filters, selected' \subseteq Invoices, manual' \in BOOLEAN,
           editing' \in Invoices \cup {None}, sharing' \in Invoices \cup {None},
           preview' \in Invoices \cup {None}, loading' \in Invoices \cup {None},
           DOMAIN lists' = Bills!Keys, DOMAIN fetch' = Bills!Keys, DOMAIN req' = Requests,
           \A k \in Bills!Keys : /\ lists'[k] = None \/ Bills!Fits(k, lists'[k])
                                 /\ fetch'[k] \in {None, Asked} \/ Bills!Fits(k, fetch'[k]),
           \A r \in Requests : req'[r] = None \/ \E kind \in Bills!Kinds : req'[r] \in Bills!Call(kind),
           behind' \subseteq Bills!Keys
    PROVE  Bills!TypeOK'
BY DEF Bills!TypeOK, Bills!Fits

\* A step of the page that mounts and unmounts queries and begins calls.
LEMMA InvoicesTurn ==
    ASSUME InvoicesInv, UNCHANGED <<srv, shares, lists, behind>>,
           applied' \in Bills!Filters, selected' \subseteq Invoices, manual' \in BOOLEAN,
           editing' \in Invoices \cup {None}, sharing' \in Seen \cup {None},
           preview' \in Invoices \cup {None}, loading' \in Invoices \cup {None},
           DOMAIN fetch' = Bills!Keys,
           \A k \in Bills!Keys : \/ fetch'[k] = fetch[k]
                                 \/ fetch[k] = None /\ fetch'[k] = Asked /\ k \in Bills!Mounted',
           \A k \in Bills!Mounted' \ Bills!Mounted : fetch'[k] # None,
           DOMAIN req' = Requests,
           \A r \in Requests : req'[r] = None \/ GoodBill(req'[r]),
           \A k \in Bills!Keys, r \in Requests : TellsBill(req[r], k) => \E q \in Requests : TellsBill(req'[q], k),
           \A k \in Bills!Mounted \cap Bills!Mounted', r \in Requests :
              Keeps(req[r], k) => \E q \in Requests : Keeps(req'[q], k)
    PROVE  InvoicesInv'
<1>0. Bills!TypeOK /\ OnlySeen /\ Seen \subseteq Invoices
      BY DEF InvoicesInv, Seen
<1>1. /\ \A j : Bills!Answer(j)' = Bills!Answer(j)
      /\ \A j : Bills!Known(j)' <=> Bills!Known(j)
      /\ Seen' = Seen
      BY BillSame
<1>2. Bills!TypeOK'
  <2>1. /\ srv' \in [Invoices -> Bills!Row \cup {None, Gone}] /\ shares' \in [Invoices -> SUBSET Users]
        /\ sharing' \in Invoices \cup {None} /\ behind' \subseteq Bills!Keys
        /\ DOMAIN lists' = Bills!Keys
        BY <1>0 DEF Bills!TypeOK
  <2>2. \A k \in Bills!Keys : /\ lists'[k] = None \/ Bills!Fits(k, lists'[k])
                              /\ fetch'[k] \in {None, Asked} \/ Bills!Fits(k, fetch'[k])
        BY <1>0 DEF Bills!TypeOK
  <2>3. \A r \in Requests : req'[r] = None \/ \E kind \in Bills!Kinds : req'[r] \in Bills!Call(kind)
        BY DEF GoodBill
  <2> QED BY <1>0, <2>1, <2>2, <2>3, BillTypes
<1>3. OnlySeen'
  <2>1. \A k \in Bills!Sources : /\ lists'[k] # None => DOMAIN lists'[k] \subseteq Seen
                                 /\ fetch'[k] \notin {None, Asked} => DOMAIN fetch'[k] \subseteq Seen
        BY <1>0, BillKeys DEF OnlySeen
  <2>2. \A r \in Requests : req'[r] # None /\ req'[r].before # None => DOMAIN req'[r].before \subseteq Seen /\ req'[r].kind # "preview"
        BY DEF GoodBill
  <2>3. ASSUME NEW i \in Invoices \ Seen PROVE fetch'[i] = None
    <3>1. i \notin Bills!Mounted'
      <4>1. applied'.source \in Bills!Sources
            BY DEF Bills!Filters
      <4> QED BY <4>1, BillKeys DEF Bills!Mounted
    <3>2. fetch[i] = None /\ i \in Bills!Keys
          BY <1>0, BillKeys DEF OnlySeen
    <3> QED BY <3>1, <3>2
  <2>4. sharing' # None => sharing' \in Seen
        OBVIOUS
  <2> QED BY <1>1, <2>1, <2>2, <2>3, <2>4 DEF OnlySeen
<1>4. ASSUME NEW k \in Bills!Keys \ behind' PROVE BillFresh(k)'
  <2> SUFFICES ASSUME Bills!Known(k), \A r \in Requests : ~TellsBill(req'[r], k)
               PROVE  \/ fetch'[k] = Asked
                      \/ fetch'[k] = None /\ (k \in Bills!Mounted' =>
                                   lists[k] = Bills!Answer(k) \/ \E r \in Requests : Keeps(req'[r], k))
                      \/ fetch'[k] = Bills!Answer(k)
      BY <1>1 DEF BillFresh, TellsBill, Keeps
  <2>1. \A r \in Requests : ~TellsBill(req[r], k)
        OBVIOUS
  <2>2. \/ fetch[k] = Asked
        \/ fetch[k] = None /\ (k \in Bills!Mounted =>
                                 lists[k] = Bills!Answer(k) \/ \E r \in Requests : Keeps(req[r], k))
        \/ fetch[k] = Bills!Answer(k)
        BY <2>1 DEF InvoicesInv, BillFresh
  <2>3. Bills!Answer(k) # None /\ Asked # None
        BY <1>0, BillAnswerFits, Marks
  <2> QED BY <2>2, <2>3
<1> QED BY <1>2, <1>3, <1>4 DEF InvoicesInv

\* What of the invoices the table can show.
LEMMA BillView ==
    ASSUME InvoicesInv
    PROVE  /\ Bills!View \subseteq Seen /\ Seen \subseteq Invoices /\ applied.source \in Bills!Sources
           /\ applied.source \in Bills!Keys /\ applied.source \in Bills!Mounted
           /\ lists[applied.source] # None => lists[applied.source] \in Bills!Lists
<1>1. applied.source \in Bills!Sources
      BY DEF InvoicesInv, Bills!TypeOK, Bills!Filters
<1>2. lists[applied.source] # None => DOMAIN lists[applied.source] \subseteq Seen
      BY <1>1 DEF InvoicesInv, OnlySeen
<1>3. Bills!View \subseteq Seen
  <2>1. CASE lists[applied.source] = None
    <3>1. DOMAIN Bills!All = {}
          BY <2>1 DEF Bills!All
    <3> QED BY <3>1 DEF Bills!View
  <2>2. CASE lists[applied.source] # None
    <3>1. Bills!All = lists[applied.source]
          BY <2>2 DEF Bills!All
    <3> QED BY <1>2, <2>2, <3>1 DEF Bills!View
  <2> QED BY <2>1, <2>2
<1>4. lists[applied.source] # None => lists[applied.source] \in Bills!Lists
      BY <1>1, BillKeys DEF InvoicesInv, Bills!TypeOK, Bills!Fits
<1> QED BY <1>1, <1>3, <1>4, BillKeys DEF Seen, Bills!Mounted

LEMMA BillSends ==
    ASSUME InvoicesInv, NEW r \in Requests, NEW kind \in Bills!Kinds, NEW of \in SUBSET Invoices,
           NEW data \in Bills!Data(kind), NEW before \in Bills!Lists \cup {None},
           before # None => DOMAIN before \subseteq Seen /\ kind # "preview",
           Bills!Send(r, kind, of, data, before)
    PROVE  /\ DOMAIN req' = Requests
           /\ \A q \in Requests : req'[q] = None \/ GoodBill(req'[q])
           /\ \A q \in Requests : \A k : TellsBill(req[q], k) => TellsBill(req'[q], k)
           /\ \A q \in Requests : \A k : Keeps(req[q], k) => Keeps(req'[q], k)
           /\ req'[r] # None /\ req'[r].before = before /\ req'[r].at = applied.source
<1>1. /\ DOMAIN req' = Requests /\ req[r] = None
      /\ req'[r] = Bills!Sent(kind, of, data, before)
      /\ \A q \in Requests \ {r} : req'[q] = IF q \in Bills!Calls(kind) THEN Bills!Unwatched(req[q]) ELSE req[q]
      BY DEF Bills!Send, Bills!Free
<1>2. applied.source \in Bills!Sources /\ TRUE \in BOOLEAN
      BY BillView
<1>3. req'[r] = [kind |-> kind, of |-> of, data |-> data, before |-> before,
                 at |-> applied.source, watched |-> TRUE, stage |-> "sent"]
      BY <1>1 DEF Bills!Sent
<1>4. [kind |-> kind, of |-> of, data |-> data, before |-> before,
       at |-> applied.source, watched |-> TRUE, stage |-> "sent"] \in Bills!Call(kind)
      BY <1>2 DEF Bills!Call
<1>5. req'[r] \in Bills!Call(kind) /\ req'[r].before = before /\ req'[r].at = applied.source
      BY <1>3, <1>4
<1>6. req'[r] # None
      BY <1>5, BillCallIs
<1>7. GoodBill(req'[r])
      BY <1>5, BillCallIs DEF GoodBill
<1>8. ASSUME NEW q \in Requests \ {r}
      PROVE  /\ req'[q] = None \/ GoodBill(req'[q])
             /\ \A k : TellsBill(req[q], k) => TellsBill(req'[q], k)
             /\ \A k : Keeps(req[q], k) => Keeps(req'[q], k)
  <2>1. CASE q \in Bills!Calls(kind)
    <3>1. req[q] # None /\ req'[q] = Bills!Unwatched(req[q])
          BY <1>1, <2>1 DEF Bills!Calls
    <3>2. GoodBill(req[q])
          BY <3>1, BillsGood
    <3> QED BY <3>1, <3>2, BillUnwatched
  <2>2. CASE q \notin Bills!Calls(kind)
        BY <1>1, <2>2, BillsGood
  <2> QED BY <2>1, <2>2
<1>9. /\ \A k : TellsBill(req[r], k) => TellsBill(req'[r], k)
      /\ \A k : Keeps(req[r], k) => Keeps(req'[r], k)
      BY <1>1 DEF TellsBill, Keeps
<1> QED BY <1>1, <1>5, <1>6, <1>7, <1>8, <1>9

LEMMA BillPage ==
    ASSUME InvoicesInv
    PROVE  /\ applied \in Bills!Filters /\ selected \subseteq Invoices /\ manual \in BOOLEAN
           /\ editing \in Invoices \cup {None} /\ sharing \in Seen \cup {None}
           /\ preview \in Invoices \cup {None} /\ loading \in Invoices \cup {None}
           /\ DOMAIN fetch = Bills!Keys /\ DOMAIN req = Requests /\ DOMAIN lists = Bills!Keys
           /\ \A r \in Requests : req[r] = None \/ GoodBill(req[r])
BY BillsGood DEF InvoicesInv, Bills!TypeOK, OnlySeen

LEMMA InvoicesClick ==
    ASSUME InvoicesInv,
           \/ \E i \in Invoices : Bills!Select(i)
           \/ Bills!SelectAll \/ Bills!ClearSelection \/ Bills!OpenManual \/ Bills!OpenEdit
    PROVE  InvoicesInv'
<1>1. UNCHANGED <<srv, shares, lists, fetch, behind, req, applied, sharing, preview, loading>>
      BY DEF Bills!Select, Bills!SelectAll, Bills!ClearSelection, Bills!OpenManual, Bills!OpenEdit,
             Bills!server, Bills!modals, Bills!cached
<1>2. selected' \subseteq Invoices
  <2>1. ASSUME NEW i \in Invoices, Bills!Select(i) PROVE selected' \subseteq Invoices
        BY <2>1, BillPage DEF Bills!Select
  <2>2. CASE Bills!SelectAll
        BY <2>2, BillView DEF Bills!SelectAll
  <2>3. CASE Bills!ClearSelection \/ Bills!OpenManual \/ Bills!OpenEdit
        BY <2>3, BillPage DEF Bills!ClearSelection, Bills!OpenManual, Bills!OpenEdit
  <2> QED BY <2>1, <2>2, <2>3
<1>3. manual' \in BOOLEAN
  <2>1. manual' = manual \/ manual' = TRUE
        BY DEF Bills!Select, Bills!SelectAll, Bills!ClearSelection, Bills!OpenManual, Bills!OpenEdit, Bills!modals
  <2> QED BY <2>1, BillPage
<1>4. editing' \in Invoices \cup {None}
  <2>1. editing' = editing \/ editing' \in Bills!View
        BY DEF Bills!Select, Bills!SelectAll, Bills!ClearSelection, Bills!OpenManual, Bills!OpenEdit, Bills!modals
  <2> QED BY <2>1, BillPage, BillView
<1>5. Bills!Mounted' = Bills!Mounted
      BY <1>1 DEF Bills!Mounted
<1> QED BY <1>1, <1>2, <1>3, <1>4, <1>5, BillPage, InvoicesTurn

LEMMA InvoicesCloseModal ==
    ASSUME InvoicesInv, Bills!CloseModal
    PROVE  InvoicesInv'
<1>1. UNCHANGED <<srv, shares, lists, fetch, behind, applied, selected, loading>>
      BY DEF Bills!CloseModal, Bills!server, Bills!cached
<1>2. /\ editing' \in {editing, None} /\ sharing' \in {sharing, None} /\ preview' \in {preview, None}
      /\ manual' = manual \/ manual' = FALSE
      BY DEF Bills!CloseModal
<1>3. \/ req' = req
      \/ req' = [r \in Requests |-> IF r \in Bills!Calls("share") \cup Bills!Calls("revoke")
                                    THEN Bills!Unwatched(req[r]) ELSE req[r]]
      BY DEF Bills!CloseModal
<1>4. /\ DOMAIN req' = Requests
      /\ \A r \in Requests : req'[r] = req[r] \/ (req[r] # None /\ req'[r] = Bills!Unwatched(req[r]))
      BY <1>3, BillPage DEF Bills!Calls
<1>5. ASSUME NEW r \in Requests
      PROVE  /\ req'[r] = None \/ GoodBill(req'[r])
             /\ \A k : TellsBill(req[r], k) => TellsBill(req'[r], k)
             /\ \A k : Keeps(req[r], k) => Keeps(req'[r], k)
      BY <1>4, BillsGood, BillUnwatched
<1>6. Bills!Mounted' \subseteq Bills!Mounted
      BY <1>1, <1>2 DEF Bills!Mounted
<1>7. /\ editing' \in Invoices \cup {None} /\ sharing' \in Seen \cup {None} /\ preview' \in Invoices \cup {None}
      /\ manual' \in BOOLEAN
      BY <1>2, BillPage
<1> QED BY <1>1, <1>4, <1>5, <1>6, <1>7, BillPage, InvoicesTurn

LEMMA InvoicesSend ==
    ASSUME InvoicesInv, NEW r \in Requests,
           \/ Bills!Delete(r) \/ Bills!Import(r) \/ Bills!ManualImport(r) \/ Bills!Preview(r)
           \/ Bills!Share(r) \/ Bills!Revoke(r)
    PROVE  InvoicesInv'
<1>0. Bills!View \subseteq Invoices
      BY BillView
<1>1. /\ UNCHANGED <<srv, shares, lists, fetch, behind, applied, selected, editing, sharing, manual, preview>>
      /\ loading' = loading \/ loading' \in Bills!View
      BY DEF Bills!Delete, Bills!Import, Bills!ManualImport, Bills!Preview, Bills!Share, Bills!Revoke,
             Bills!server, Bills!modals, Bills!cached
<1>2. \E kind \in Bills!Kinds, of \in SUBSET Invoices : \E data \in Bills!Data(kind) : Bills!Send(r, kind, of, data, None)
  <2> USE DEF Bills!Kinds, Bills!Data
  <2>1. CASE Bills!Delete(r)
    <3>1. PICK i \in Bills!View : Bills!Send(r, "delete", {i}, None, None)
          BY <2>1 DEF Bills!Delete
    <3> QED BY <1>0, <3>1
  <2>2. CASE Bills!Import(r)
    <3>1. Bills!Send(r, "import", {}, None, None)
          BY <2>2 DEF Bills!Import
    <3> QED BY <3>1
  <2>3. CASE Bills!ManualImport(r)
    <3>1. PICK data \in Bills!Forms : Bills!Send(r, "manual", {}, data, None)
          BY <2>3 DEF Bills!ManualImport
    <3> QED BY <3>1
  <2>4. CASE Bills!Preview(r)
    <3>1. PICK i \in Bills!View : Bills!Send(r, "preview", {i}, None, None)
          BY <2>4 DEF Bills!Preview
    <3> QED BY <1>0, <3>1
  <2>5. CASE Bills!Share(r)
    <3>1. PICK u \in Users : Bills!Send(r, "share", {sharing}, u, None)
          BY <2>5 DEF Bills!Share
    <3>2. {sharing} \in SUBSET Invoices
          BY <2>5, BillPage DEF Bills!Share, Seen
    <3> QED BY <3>1, <3>2
  <2>6. CASE Bills!Revoke(r)
    <3>1. PICK u \in Bills!Participants : Bills!Send(r, "revoke", {sharing}, u, None)
          BY <2>6 DEF Bills!Revoke
    <3>2. sharing \in Invoices
          BY <2>6, BillPage DEF Bills!Revoke, Seen
    <3>3. lists[sharing] = None \/ lists[sharing] \subseteq Users
          BY <3>2, BillKeys DEF InvoicesInv, Bills!TypeOK, Bills!Fits
    <3>4. u \in Users
          BY <3>3 DEF Bills!Participants
    <3>5. {sharing} \in SUBSET Invoices
          BY <3>2
    <3> QED BY <3>1, <3>4, <3>5
  <2> QED BY <2>1, <2>2, <2>3, <2>4, <2>5, <2>6
<1>3. /\ DOMAIN req' = Requests
      /\ \A q \in Requests : req'[q] = None \/ GoodBill(req'[q])
      /\ \A q \in Requests : \A k : TellsBill(req[q], k) => TellsBill(req'[q], k)
      /\ \A q \in Requests : \A k : Keeps(req[q], k) => Keeps(req'[q], k)
      BY <1>2, BillSends
<1>4. Bills!Mounted' = Bills!Mounted
      BY <1>1 DEF Bills!Mounted
<1>5. loading' \in Invoices \cup {None}
      BY <1>0, <1>1, BillPage
<1> QED BY <1>1, <1>3, <1>4, <1>5, BillPage, InvoicesTurn

LEMMA InvoicesMount ==
    ASSUME InvoicesInv, Bills!Refetch \/ Bills!OpenShare
    PROVE  InvoicesInv'
<1>1. /\ UNCHANGED <<srv, shares, lists, behind, req, applied, selected, editing, manual, preview, loading>>
      /\ sharing' = sharing \/ sharing' \in Bills!View
      BY DEF Bills!Refetch, Bills!OpenShare, Bills!server, Bills!modals
<1>2. PICK m \in {applied.source, sharing'} :
          /\ Bills!Mount(m) /\ Bills!Mounted' \subseteq Bills!Mounted \cup {m} /\ m \in Bills!Mounted'
  <2>1. CASE Bills!Refetch
    <3>1. Bills!Mount(applied.source) /\ UNCHANGED <<applied, sharing>>
          BY <2>1 DEF Bills!Refetch, Bills!modals
    <3> QED BY <3>1 DEF Bills!Mounted
  <2>2. CASE Bills!OpenShare
    <3>1. Bills!Mount(sharing') /\ sharing' \in Bills!View /\ sharing = None
          BY <2>2 DEF Bills!OpenShare, Bills!Uncovered
    <3>2. sharing' # None
          BY <3>1, BillView, InvoiceMarks
    <3> QED BY <1>1, <3>1, <3>2 DEF Bills!Mounted
  <2> QED BY <2>1, <2>2
<1>3. /\ DOMAIN fetch' = Bills!Keys
      /\ \A k \in Bills!Keys : fetch'[k] = IF k = m /\ fetch[k] = None THEN Asked ELSE fetch[k]
      BY <1>2, BillPage DEF Bills!Mount
<1>4. sharing' \in Seen \cup {None}
      BY <1>1, BillPage, BillView
<1>5. \A k \in Bills!Mounted' : k \in Bills!Keys
  <2>1. applied' \in Bills!Filters /\ Seen \subseteq Invoices
        BY <1>1, BillPage DEF Seen
  <2> QED BY <1>4, <2>1, BillKeys DEF Bills!Mounted, Bills!Filters
<1> QED BY <1>1, <1>2, <1>3, <1>4, <1>5, BillPage, Marks, InvoicesTurn

LEMMA InvoicesApply ==
    ASSUME InvoicesInv, Bills!Apply
    PROVE  InvoicesInv'
<1>1. /\ UNCHANGED <<srv, shares, lists, behind, editing, sharing, manual, preview, loading>>
      /\ applied' \in Bills!Filters /\ selected' = {}
      /\ IF applied'.source = applied.source THEN UNCHANGED fetch ELSE Bills!Mount(applied'.source)
      /\ req' = [r \in Requests |-> IF req[r] # None /\ req[r].watched
                                    THEN Bills!Moved(req[r], applied'.source) ELSE req[r]]
      BY DEF Bills!Apply, Bills!server, Bills!modals
<1>2. applied'.source \in Bills!Sources /\ applied.source \in Bills!Sources
      BY <1>1, BillView DEF Bills!Filters
<1>3. /\ DOMAIN fetch' = Bills!Keys
      /\ \A k \in Bills!Keys : \/ fetch'[k] = fetch[k]
                               \/ fetch[k] = None /\ fetch'[k] = Asked /\ k = applied'.source
      /\ applied'.source # applied.source => fetch'[applied'.source] # None
      BY <1>1, <1>2, BillPage, BillKeys, Marks DEF Bills!Mount
<1>4. /\ Bills!Mounted' = {applied'.source} \cup ({sharing} \ {None})
      /\ Bills!Mounted = {applied.source} \cup ({sharing} \ {None})
      /\ sharing \notin Bills!Sources \/ sharing = None
      BY <1>1, BillPage, BillKeys DEF Bills!Mounted, Seen
<1>5. DOMAIN req' = Requests
      BY <1>1
<1>6. ASSUME NEW r \in Requests
      PROVE  /\ req'[r] = None \/ GoodBill(req'[r])
             /\ \A k : TellsBill(req[r], k) => TellsBill(req'[r], k)
             /\ \A k \in Bills!Mounted \cap Bills!Mounted' : Keeps(req[r], k) => Keeps(req'[r], k)
  <2>1. CASE req[r] # None /\ req[r].watched
    <3>1. req'[r] = Bills!Moved(req[r], applied'.source) /\ GoodBill(req[r])
          BY <1>1, <2>1, BillsGood
    <3>2. /\ GoodBill(req'[r]) /\ \A k : TellsBill(req[r], k) => TellsBill(req'[r], k)
          /\ Keeps(req[r], req[r].at) => Keeps(req'[r], applied'.source)
          BY <1>2, <3>1, BillMoved
    <3>3. req[r].at \in Bills!Sources
          BY <3>1, BillCallIs DEF GoodBill
    <3>4. ASSUME NEW k \in Bills!Mounted \cap Bills!Mounted', Keeps(req[r], k) PROVE Keeps(req'[r], k)
      <4>1. k = req[r].at
            BY <3>4 DEF Keeps
      <4>2. k = applied'.source
            BY <1>4, <3>3, <3>4, <4>1
      <4> QED BY <3>2, <3>4, <4>1, <4>2
    <3> QED BY <3>2, <3>4
  <2>2. CASE ~(req[r] # None /\ req[r].watched)
        BY <1>1, <2>2, BillsGood
  <2> QED BY <2>1, <2>2
<1>7. /\ \A k \in Bills!Keys : \/ fetch'[k] = fetch[k]
                               \/ fetch[k] = None /\ fetch'[k] = Asked /\ k \in Bills!Mounted'
      /\ \A k \in Bills!Mounted' \ Bills!Mounted : fetch'[k] # None
      BY <1>3, <1>4
<1> QED BY <1>1, <1>3, <1>5, <1>6, <1>7, BillPage, InvoicesTurn

\* A step that leaves the server and what is mounted as they are.
LEMMA InvoicesRest ==
    ASSUME InvoicesInv, UNCHANGED <<srv, shares, applied, sharing>>,
           selected' \subseteq Invoices, manual' \in BOOLEAN, editing' \in Invoices \cup {None},
           preview' \in Invoices \cup {None}, loading' \in Invoices \cup {None},
           DOMAIN lists' = Bills!Keys, DOMAIN fetch' = Bills!Keys, DOMAIN req' = Requests,
           \A k \in Bills!Keys : \/ lists'[k] \in {lists[k], None}
                                 \/ /\ Bills!Fits(k, lists'[k])
                                    /\ k \in Bills!Sources => DOMAIN lists'[k] \subseteq Seen,
           \A k \in Bills!Keys : \/ fetch'[k] \in {fetch[k], None}
                                 \/ fetch'[k] = Asked /\ k \in Bills!Sources \cup Seen
                                 \/ /\ Bills!Fits(k, fetch'[k]) /\ k \in Bills!Sources \cup Seen
                                    /\ k \in Bills!Sources => DOMAIN fetch'[k] \subseteq Seen,
           \A r \in Requests : req'[r] = None \/ GoodBill(req'[r]),
           behind' \subseteq Bills!Keys,
           \A k \in Bills!Keys \ behind' : BillFresh(k)'
    PROVE  InvoicesInv'
<1>0. Bills!TypeOK /\ OnlySeen /\ Seen \subseteq Invoices /\ Seen' = Seen
      BY BillSame DEF InvoicesInv, Seen
<1>2. Bills!TypeOK'
  <2>1. /\ srv' \in [Invoices -> Bills!Row \cup {None, Gone}] /\ shares' \in [Invoices -> SUBSET Users]
        /\ sharing' \in Invoices \cup {None} /\ applied' \in Bills!Filters
        BY <1>0 DEF Bills!TypeOK
  <2>2. \A k \in Bills!Keys : /\ lists'[k] = None \/ Bills!Fits(k, lists'[k])
                              /\ fetch'[k] \in {None, Asked} \/ Bills!Fits(k, fetch'[k])
        BY <1>0 DEF Bills!TypeOK
  <2>3. \A r \in Requests : req'[r] = None \/ \E kind \in Bills!Kinds : req'[r] \in Bills!Call(kind)
        BY DEF GoodBill
  <2> QED BY <1>0, <2>1, <2>2, <2>3, BillTypes
<1>3. OnlySeen'
  <2>1. \A k \in Bills!Sources : /\ lists'[k] # None => DOMAIN lists'[k] \subseteq Seen
                                 /\ fetch'[k] \notin {None, Asked} => DOMAIN fetch'[k] \subseteq Seen
        BY <1>0, BillKeys DEF OnlySeen
  <2>2. \A r \in Requests : req'[r] # None /\ req'[r].before # None => DOMAIN req'[r].before \subseteq Seen /\ req'[r].kind # "preview"
        BY DEF GoodBill
  <2>3. ASSUME NEW i \in Invoices \ Seen PROVE fetch'[i] = None
    <3>1. fetch[i] = None /\ i \in Bills!Keys /\ i \notin Bills!Sources \cup Seen
          BY <1>0, BillKeys DEF OnlySeen
    <3> QED BY <3>1
  <2>4. sharing' # None => sharing' \in Seen
        BY <1>0 DEF OnlySeen
  <2> QED BY <1>0, <2>1, <2>2, <2>3, <2>4 DEF OnlySeen
<1> QED BY <1>2, <1>3 DEF InvoicesInv

\* A query of which a step neither changes what is there nor what it is told.
LEMMA BillStays ==
    ASSUME InvoicesInv, UNCHANGED <<srv, shares, applied, sharing>>, NEW k \in Bills!Keys \ behind,
           lists'[k] = lists[k], fetch'[k] = fetch[k],
           \A r \in Requests : TellsBill(req[r], k) => TellsBill(req'[r], k),
           \A r \in Requests : Keeps(req[r], k) => Keeps(req'[r], k)
    PROVE  BillFresh(k)'
<1>1. BillFresh(k)
      BY DEF InvoicesInv
<1>2. Bills!Mounted' = Bills!Mounted
      BY DEF Bills!Mounted
<1>3. (Bills!Answer(k)' = Bills!Answer(k)) /\ (Bills!Known(k)' <=> Bills!Known(k))
      BY BillSame
<1> SUFFICES ASSUME Bills!Known(k), \A r \in Requests : ~TellsBill(req'[r], k)
             PROVE  \/ fetch'[k] = Asked
                    \/ fetch'[k] = None /\ (k \in Bills!Mounted =>
                                 lists'[k] = Bills!Answer(k) \/ \E r \in Requests : Keeps(req'[r], k))
                    \/ fetch'[k] = Bills!Answer(k)
    BY <1>2, <1>3 DEF BillFresh, TellsBill, Keeps
<1>4. \A r \in Requests : ~TellsBill(req[r], k)
      OBVIOUS
<1> QED BY <1>1, <1>4 DEF BillFresh

LEMMA InvoicesRead ==
    ASSUME InvoicesInv, NEW k \in Bills!Keys, Bills!Read(k)
    PROVE  InvoicesInv'
<1>1. /\ UNCHANGED <<srv, shares, applied, sharing, selected, editing, manual, preview, loading, lists, req>>
      /\ fetch[k] = Asked /\ Bills!Known(k) /\ behind' = behind \ {k}
      /\ fetch' = [fetch EXCEPT ![k] = Bills!Answer(k)]
      BY DEF Bills!Read, Bills!server, Bills!modals
<1>2. /\ DOMAIN fetch' = Bills!Keys /\ fetch'[k] = Bills!Answer(k)
      /\ \A j \in Bills!Keys \ {k} : fetch'[j] = fetch[j]
      BY <1>1, BillPage
<1>3. /\ Bills!Fits(k, Bills!Answer(k))
      /\ k \in Bills!Sources => DOMAIN Bills!Answer(k) \subseteq Seen
      BY BillAnswerFits DEF InvoicesInv
<1>4. k \in Bills!Sources \cup Seen
  <2>1. k \in Invoices => k \in Seen
        BY <1>1 DEF Bills!Known, Bills!Exists, Seen
  <2> QED BY <2>1, BillKeys
<1>5. behind' \subseteq Bills!Keys
      BY <1>1 DEF InvoicesInv, Bills!TypeOK
<1>6. BillFresh(k)'
  <2>1. Bills!Answer(k)' = Bills!Answer(k)
        BY <1>1, BillSame
  <2> QED BY <1>2, <2>1 DEF BillFresh
<1>7. ASSUME NEW j \in Bills!Keys \ behind', j # k PROVE BillFresh(j)'
      BY <1>1, <1>2, <1>7, BillStays
<1> QED BY <1>1, <1>2, <1>3, <1>4, <1>5, <1>6, <1>7, BillPage, InvoicesRest

LEMMA InvoicesReceive ==
    ASSUME InvoicesInv, NEW k \in Bills!Keys, Bills!Receive(k)
    PROVE  InvoicesInv'
<1>1. /\ UNCHANGED <<srv, shares, applied, sharing, selected, editing, manual, preview, loading, behind, req>>
      /\ fetch[k] \notin {None, Asked}
      /\ fetch' = [fetch EXCEPT ![k] = None] /\ lists' = [lists EXCEPT ![k] = fetch[k]]
      BY DEF Bills!Receive, Bills!server, Bills!modals
<1>2. /\ DOMAIN fetch' = Bills!Keys /\ fetch'[k] = None
      /\ DOMAIN lists' = Bills!Keys /\ lists'[k] = fetch[k]
      /\ \A j \in Bills!Keys \ {k} : fetch'[j] = fetch[j] /\ lists'[j] = lists[j]
      BY <1>1, BillPage
<1>3. Bills!Fits(k, lists'[k]) /\ (k \in Bills!Sources => DOMAIN lists'[k] \subseteq Seen)
      BY <1>1, <1>2 DEF InvoicesInv, Bills!TypeOK, OnlySeen
<1>5. behind' \subseteq Bills!Keys
      BY <1>1 DEF InvoicesInv, Bills!TypeOK
<1>6. ASSUME k \notin behind PROVE BillFresh(k)'
  <2>1. (Bills!Answer(k)' = Bills!Answer(k)) /\ (Bills!Known(k)' <=> Bills!Known(k))
        BY <1>1, BillSame
  <2>2. \A r \in Requests : TellsBill(req[r], k) => TellsBill(req'[r], k)
        BY <1>1
  <2>3. BillFresh(k)
        BY <1>6 DEF InvoicesInv
  <2> SUFFICES ASSUME Bills!Known(k), \A r \in Requests : ~TellsBill(req'[r], k)
               PROVE  fetch'[k] = None /\ lists'[k] = Bills!Answer(k)
      BY <2>1 DEF BillFresh, TellsBill
  <2> QED BY <1>1, <1>2, <2>2, <2>3 DEF BillFresh
<1>7. ASSUME NEW j \in Bills!Keys \ behind', j # k PROVE BillFresh(j)'
      BY <1>1, <1>2, <1>7, BillStays
<1> QED BY <1>1, <1>2, <1>3, <1>5, <1>6, <1>7, BillPage, InvoicesRest

LEMMA InvoicesFail ==
    ASSUME InvoicesInv, NEW k \in Bills!Keys, Bills!Fail(k)
    PROVE  InvoicesInv'
<1>1. /\ UNCHANGED <<srv, shares, applied, sharing, selected, editing, manual, preview, loading, lists, req>>
      /\ behind' = behind \cup {k}
      /\ fetch' = [fetch EXCEPT ![k] = None]
      BY DEF Bills!Fail, Bills!server, Bills!modals
<1>2. /\ DOMAIN fetch' = Bills!Keys /\ fetch'[k] = None
      /\ \A j \in Bills!Keys \ {k} : fetch'[j] = fetch[j]
      BY <1>1, BillPage
<1>5. behind' \subseteq Bills!Keys
      BY <1>1 DEF InvoicesInv, Bills!TypeOK
<1>7. ASSUME NEW j \in Bills!Keys \ behind' PROVE BillFresh(j)'
      BY <1>1, <1>2, BillStays
<1> QED BY <1>1, <1>2, <1>5, <1>7, BillPage, InvoicesRest

LEMMA InvoicesPreviewed ==
    ASSUME InvoicesInv, NEW r \in Requests, Bills!Previewed(r)
    PROVE  InvoicesInv'
<1>1. /\ UNCHANGED <<srv, shares, applied, sharing, selected, editing, manual, lists, fetch, behind>>
      /\ req[r] # None /\ req[r].kind = "preview" /\ loading' = None
      /\ req' = [req EXCEPT ![r] = None]
      /\ preview' = preview \/ preview' \in req[r].of
      BY DEF Bills!Previewed, Bills!Calls, Bills!server, Bills!cached
<1>2. /\ DOMAIN req' = Requests /\ req'[r] = None
      /\ \A q \in Requests \ {r} : req'[q] = req[q]
      BY <1>1, BillPage
<1>3. req[r].before = None /\ req[r].of \subseteq Invoices
  <2>1. GoodBill(req[r])
        BY <1>1, BillsGood
  <2> QED BY <1>1, <2>1, BillCallIs DEF GoodBill
<1>4. ASSUME NEW k \in Bills!Keys \ behind' PROVE BillFresh(k)'
  <2>1. ~TellsBill(req[r], k) /\ ~Keeps(req[r], k)
        BY <1>1, <1>3 DEF TellsBill, TellsOf, Keeps
  <2>2. \A q \in Requests : (TellsBill(req[q], k) => TellsBill(req'[q], k)) /\ (Keeps(req[q], k) => Keeps(req'[q], k))
        BY <1>2, <2>1
  <2> QED BY <1>1, <2>2, BillStays
<1>5. /\ preview' \in Invoices \cup {None} /\ loading' \in Invoices \cup {None}
      /\ \A q \in Requests : req'[q] = None \/ GoodBill(req'[q])
      /\ behind' \subseteq Bills!Keys
      BY <1>1, <1>2, <1>3, BillPage DEF InvoicesInv, Bills!TypeOK
<1> QED BY <1>1, <1>2, <1>4, <1>5, BillPage, InvoicesRest

LEMMA InvoicesSettled ==
    ASSUME InvoicesInv, NEW r \in Requests, Bills!Settle(r), req[r].stage = "done"
    PROVE  InvoicesInv'
<1> DEFINE m  == req[r]
           ks == IF m.kind \in {"share", "revoke"} THEN Bills!Sources \cup m.of ELSE Bills!Sources
<1>1. /\ UNCHANGED <<srv, shares, applied, sharing, loading, lists>>
      /\ m # None /\ m.kind # "preview"
      /\ req' = [req EXCEPT ![r] = None]
      /\ Bills!Invalidate(ks)
      BY DEF Bills!Settle, Bills!server
<1>2. /\ selected' \in {selected, {}} /\ manual' \in {manual, FALSE}
      /\ editing' \in {editing, None} /\ preview' \in {preview, None}
  <2>1. /\ selected' = IF m.kind \in {"bulk", "delete"} THEN {} ELSE selected
        /\ manual' = (manual /\ m.kind # "manual")
        /\ IF m.kind = "update" THEN editing' = None /\ preview' = None ELSE UNCHANGED <<editing, preview>>
        BY DEF Bills!Settle
  <2>2. manual \in BOOLEAN
        BY BillPage
  <2> QED BY <2>1, <2>2
<1>3. GoodBill(m)
      BY <1>1, BillsGood
<1>4. m.of \subseteq Invoices /\ m.at \in Bills!Sources
      BY <1>3, BillCallIs DEF GoodBill
<1>5. ks = TellsOf(m) /\ Bills!Sources \subseteq ks /\ ks \subseteq Bills!Keys
      BY <1>1, <1>4, BillKeys DEF TellsOf
<1> HIDE DEF ks
<1>6. /\ DOMAIN fetch' = Bills!Keys
      /\ \A k \in Bills!Keys : fetch'[k] = IF k \in ks \cap Bills!Mounted /\ ~Bills!Kept(k) THEN Asked ELSE fetch[k]
      /\ behind' = behind \cup {k \in ks : Bills!Kept(k)}
      BY <1>1 DEF Bills!Invalidate
<1>7. Bills!Mounted \subseteq Bills!Sources \cup Seen
      BY BillPage, BillView DEF Bills!Mounted
<1>8. behind' \subseteq Bills!Keys
      BY <1>5, <1>6 DEF InvoicesInv, Bills!TypeOK
<1>9. /\ DOMAIN req' = Requests /\ req'[r] = None
      /\ \A q \in Requests \ {r} : req'[q] = req[q]
      BY <1>1, BillPage
<1>10. ASSUME NEW k \in Bills!Keys \ behind' PROVE BillFresh(k)'
  <2>1. CASE k \in ks \cap Bills!Mounted
    <3>1. fetch'[k] = Asked
          BY <1>6, <1>10, <2>1
    <3> QED BY <3>1 DEF BillFresh
  <2>2. CASE k \in ks \ Bills!Mounted
    <3>1. fetch'[k] = fetch[k] /\ fetch[k] \in {None, Asked}
          BY <1>6, <1>10, <2>2 DEF Bills!Kept
    <3>2. k \notin Bills!Mounted'
          BY <1>1, <2>2 DEF Bills!Mounted
    <3> QED BY <3>1, <3>2 DEF BillFresh
  <2>3. CASE k \notin ks
    <3>1. ~TellsBill(m, k) /\ ~Keeps(m, k)
          BY <1>4, <1>5, <2>3 DEF TellsBill, Keeps
    <3>2. \A q \in Requests : (TellsBill(req[q], k) => TellsBill(req'[q], k)) /\ (Keeps(req[q], k) => Keeps(req'[q], k))
          BY <1>9, <3>1
    <3>3. fetch'[k] = fetch[k] /\ lists'[k] = lists[k] /\ k \notin behind
          BY <1>1, <1>6, <2>3
    <3> QED BY <1>1, <3>2, <3>3, BillStays
  <2> QED BY <2>1, <2>2, <2>3
<1>11. \A k \in Bills!Keys : fetch'[k] = fetch[k] \/ (fetch'[k] = Asked /\ k \in Bills!Sources \cup Seen)
      BY <1>6, <1>7
<1>12. /\ selected' \subseteq Invoices /\ manual' \in BOOLEAN /\ loading' \in Invoices \cup {None}
       /\ editing' \in Invoices \cup {None} /\ preview' \in Invoices \cup {None}
       /\ DOMAIN lists' = Bills!Keys
       /\ \A q \in Requests : req'[q] = None \/ GoodBill(req'[q])
      BY <1>1, <1>2, <1>9, BillPage
<1> QED BY <1>1, <1>6, <1>8, <1>9, <1>10, <1>11, <1>12, InvoicesRest

LEMMA InvoicesRolledBack ==
    ASSUME InvoicesInv, NEW r \in Requests, Bills!Settle(r), req[r].stage = "failed"
    PROVE  InvoicesInv'
<1> DEFINE m == req[r]
<1>1. /\ UNCHANGED <<srv, shares, applied, sharing, loading, fetch, selected, manual, editing, preview>>
      /\ m # None /\ m.kind # "preview" /\ Bills!RolledBack(m)
      /\ req' = [req EXCEPT ![r] = None]
      BY DEF Bills!Settle, Bills!server
<1>2. /\ m.at \in Bills!Sources
      /\ m.before # None => m.before \in Bills!Lists /\ DOMAIN m.before \subseteq Seen
  <2>1. GoodBill(m)
        BY <1>1, BillsGood
  <2> QED BY <2>1, BillCallIs DEF GoodBill
<1>3. /\ DOMAIN req' = Requests /\ req'[r] = None
      /\ \A q \in Requests \ {r} : req'[q] = req[q]
      BY <1>1, BillPage
<1>4. /\ DOMAIN lists' = Bills!Keys
      /\ \A k \in Bills!Keys : IF m.before # None /\ k = m.at THEN lists'[k] = m.before /\ k \in behind'
                               ELSE lists'[k] = lists[k]
      /\ behind \subseteq behind' /\ behind' \subseteq behind \cup {m.at}
      BY <1>1, BillPage DEF Bills!RolledBack
<1>5. ASSUME NEW k \in Bills!Keys \ behind' PROVE BillFresh(k)'
  <2>1. ~TellsBill(m, k) /\ ~Keeps(m, k)
        BY <1>4 DEF TellsBill, Keeps
  <2>2. \A q \in Requests : (TellsBill(req[q], k) => TellsBill(req'[q], k)) /\ (Keeps(req[q], k) => Keeps(req'[q], k))
        BY <1>3, <2>1
  <2>3. fetch'[k] = fetch[k] /\ lists'[k] = lists[k] /\ k \notin behind
        BY <1>1, <1>4
  <2> QED BY <1>1, <2>2, <2>3, BillStays
<1>6. \A k \in Bills!Keys : \/ lists'[k] = lists[k]
                            \/ Bills!Fits(k, lists'[k]) /\ DOMAIN lists'[k] \subseteq Seen
      BY <1>2, <1>4 DEF Bills!Fits
<1>7. /\ \A q \in Requests : req'[q] = None \/ GoodBill(req'[q])
      /\ behind' \subseteq Bills!Keys
      BY <1>2, <1>3, <1>4, BillPage, BillKeys DEF InvoicesInv, Bills!TypeOK
<1> HIDE DEF m
<1> QED BY <1>1, <1>3, <1>4, <1>5, <1>6, <1>7, BillPage, InvoicesRest

LEMMA InvoicesSettle ==
    ASSUME InvoicesInv, NEW r \in Requests, Bills!Settle(r)
    PROVE  InvoicesInv'
<1>1. req[r].stage = "done" \/ req[r].stage = "failed"
      BY DEF Bills!Settle
<1> QED BY <1>1, InvoicesSettled, InvoicesRolledBack

\* A list with the category of some of its rows, and perhaps their splits, changed.
LEMMA BillPatched ==
    ASSUME NEW list \in Bills!Lists, NEW of, NEW data \in Bills!Changes
    PROVE  [i \in DOMAIN list |-> IF i \in of THEN Bills!Patched(list[i], data) ELSE list[i]] \in Bills!Lists
<1>1. list \in [DOMAIN list -> Bills!Row] /\ DOMAIN list \in SUBSET Invoices
      BY BillKeys
<1>2. data.cat \in PageCats \cup {None} /\ data.split \in BOOLEAN \cup {None}
      BY DEF Bills!Changes
<1>3. ASSUME NEW row \in Bills!Row PROVE Bills!Patched(row, data) \in Bills!Row
  <2>1. (IF data.split = None THEN row.split ELSE data.split) \in BOOLEAN /\ row.mine \in BOOLEAN
        BY <1>2 DEF Bills!Row
  <2> QED BY <1>2, <2>1 DEF Bills!Patched, Bills!Row
<1>4. \A i \in DOMAIN list : (IF i \in of THEN Bills!Patched(list[i], data) ELSE list[i]) \in Bills!Row
      BY <1>1, <1>3
<1>5. [i \in DOMAIN list |-> IF i \in of THEN Bills!Patched(list[i], data) ELSE list[i]] \in [DOMAIN list -> Bills!Row]
      BY <1>4
<1> QED BY <1>1, <1>5, BillKeys

LEMMA InvoicesOptimistic ==
    ASSUME InvoicesInv, NEW r \in Requests, NEW kind \in {"update", "bulk"}, NEW of \in SUBSET Invoices,
           NEW data \in Bills!Changes, Bills!Optimistic(r, kind, of, data)
    PROVE  InvoicesInv'
<1> DEFINE at     == applied.source
           before == lists[at]
           after  == [i \in DOMAIN before |-> IF i \in of THEN Bills!Patched(before[i], data) ELSE before[i]]
<1>1. /\ UNCHANGED <<srv, shares, applied, selected, editing, sharing, manual, preview, loading>>
      /\ Bills!Send(r, kind, of, data, before)
      /\ fetch' = [k \in Bills!Keys |-> IF k \in Bills!Sources THEN None ELSE fetch[k]]
      /\ behind' = behind \cup {k \in Bills!Sources : fetch[k] # None}
      /\ lists' = IF before = None THEN lists ELSE [lists EXCEPT ![at] = after]
      BY DEF Bills!Optimistic, Bills!server, Bills!modals
<1>2. /\ at \in Bills!Sources /\ at \in Bills!Keys
      /\ before # None => before \in Bills!Lists /\ DOMAIN before \subseteq Seen
  <2>1. at \in Bills!Sources
        BY BillView
  <2>2. before # None => DOMAIN before \subseteq Seen
        BY <2>1 DEF InvoicesInv, OnlySeen
  <2> QED BY <2>1, <2>2, BillView
<1>3. before # None => after \in Bills!Lists /\ DOMAIN after = DOMAIN before
      BY <1>2, BillPatched
<1>4. /\ DOMAIN req' = Requests
      /\ \A q \in Requests : req'[q] = None \/ GoodBill(req'[q])
      /\ \A q \in Requests : \A k : TellsBill(req[q], k) => TellsBill(req'[q], k)
      /\ \A q \in Requests : \A k : Keeps(req[q], k) => Keeps(req'[q], k)
      /\ req'[r] # None /\ req'[r].before = before /\ req'[r].at = at
  <2>1. kind \in Bills!Kinds /\ data \in Bills!Data(kind) /\ kind # "preview"
        BY DEF Bills!Kinds, Bills!Data
  <2>2. before \in Bills!Lists \cup {None}
        BY <1>2
  <2> QED BY <1>1, <1>2, <2>1, <2>2, BillSends
<1> HIDE DEF before, after, at
<1>5. /\ DOMAIN lists' = Bills!Keys
      /\ before # None => lists'[at] = after
      /\ \A k \in Bills!Keys : (k = at /\ before # None) \/ lists'[k] = lists[k]
      BY <1>1, <1>2, BillPage
<1>6. /\ DOMAIN fetch' = Bills!Keys
      /\ \A k \in Bills!Keys : fetch'[k] = IF k \in Bills!Sources THEN None ELSE fetch[k]
      BY <1>1
<1>7. ASSUME NEW k \in Bills!Keys \ behind' PROVE BillFresh(k)'
  <2>1. fetch'[k] = fetch[k] /\ k \notin behind
        BY <1>1, <1>6, <1>7
  <2>2. CASE k = at /\ before # None
    <3>1. fetch'[k] = None
          BY <1>2, <1>6, <2>2
    <3>2. (\E q \in Requests : Keeps(req'[q], k))
          BY <1>4, <2>2 DEF Keeps
    <3> QED BY <3>1, <3>2 DEF BillFresh, Keeps
  <2>3. CASE ~(k = at /\ before # None)
        BY <1>1, <1>4, <1>5, <2>1, <2>3, BillStays
  <2> QED BY <2>2, <2>3
<1>8. behind' \subseteq Bills!Keys
      BY <1>1, BillKeys DEF InvoicesInv, Bills!TypeOK
<1>9. \A k \in Bills!Keys : \/ lists'[k] = lists[k]
                            \/ Bills!Fits(k, lists'[k]) /\ DOMAIN lists'[k] \subseteq Seen
      BY <1>2, <1>3, <1>5 DEF Bills!Fits
<1> QED BY <1>1, <1>4, <1>5, <1>6, <1>7, <1>8, <1>9, BillPage, InvoicesRest

LEMMA InvoicesChange ==
    ASSUME InvoicesInv, NEW r \in Requests, Bills!SetCategory(r) \/ Bills!BatchSetCategory(r) \/ Bills!Save(r)
    PROVE  InvoicesInv'
<1>1. CASE Bills!SetCategory(r)
  <2>1. PICK i \in Bills!View, c \in PageCats \cup {None} : Bills!Optimistic(r, "update", {i}, [cat |-> c, split |-> None])
        BY <1>1 DEF Bills!SetCategory
  <2>2. {i} \in SUBSET Invoices /\ [cat |-> c, split |-> None] \in Bills!Changes
        BY BillView DEF Bills!Changes
  <2> QED BY <2>1, <2>2, InvoicesOptimistic
<1>2. CASE Bills!BatchSetCategory(r)
  <2>1. PICK c \in PageCats \cup {None} : Bills!Optimistic(r, "bulk", selected, [cat |-> c, split |-> None])
        BY <1>2 DEF Bills!BatchSetCategory
  <2>2. selected \in SUBSET Invoices /\ [cat |-> c, split |-> None] \in Bills!Changes
        BY BillPage DEF Bills!Changes
  <2> QED BY <2>1, <2>2, InvoicesOptimistic
<1>3. CASE Bills!Save(r)
  <2>1. PICK i \in {editing, preview} \ {None}, data \in Bills!Forms : Bills!Optimistic(r, "update", {i}, data)
        BY <1>3 DEF Bills!Save
  <2>2. {i} \in SUBSET Invoices /\ data \in Bills!Changes
        BY BillPage DEF Bills!Forms, Bills!Changes
  <2> QED BY <2>1, <2>2, InvoicesOptimistic
<1> QED BY <1>1, <1>2, <1>3

LEMMA BillRows ==
    ASSUME NEW row \in Bills!Row, NEW data \in Bills!Changes
    PROVE  /\ Bills!Updated(row, data) \in Bills!Row /\ Bills!Filed(row, data) \in Bills!Row
           /\ data.split # None => [mine |-> TRUE, cat |-> data.cat, split |-> data.split] \in Bills!Row
<1>1. data.cat \in PageCats \cup {None} /\ data.split \in BOOLEAN \cup {None}
      BY DEF Bills!Changes
<1>2. row.mine \in BOOLEAN /\ row.split \in BOOLEAN
      BY DEF Bills!Row
<1>3. Bills!Updated(row, data) \in Bills!Row
  <2>1. (IF data.split = None THEN row.split /\ row.mine ELSE data.split) \in BOOLEAN
        BY <1>1, <1>2
  <2> QED BY <1>1, <1>2, <2>1 DEF Bills!Updated, Bills!Row
<1>4. Bills!Filed(row, data) \in Bills!Row
      BY <1>1, <1>2 DEF Bills!Filed, Bills!Row
<1>5. data.split # None => [mine |-> TRUE, cat |-> data.cat, split |-> data.split] \in Bills!Row
      BY <1>1 DEF Bills!Row
<1> QED BY <1>3, <1>4, <1>5

\* An invoice that is created has a mark of its own until then.
LEMMA BillCreated ==
    ASSUME srv \in [Invoices -> Bills!Row \cup {None, Gone}], NEW data,
           [mine |-> TRUE, cat |-> data.cat, split |-> data.split] \in Bills!Row, Bills!Created(data)
    PROVE  /\ srv' \in [Invoices -> Bills!Row \cup {None, Gone}] /\ Seen \subseteq Seen'
           /\ \A k \in Invoices : srv'[k] = srv[k] \/ srv[k] = None
<1> DEFINE row == [mine |-> TRUE, cat |-> data.cat, split |-> data.split]
<1>1. PICK i \in Invoices : srv[i] = None /\ srv' = [srv EXCEPT ![i] = row]
      BY DEF Bills!Created
<1>2. row \in Bills!Row /\ row # None
      BY InvoiceMarks
<1> HIDE DEF row
<1>3. srv' \in [Invoices -> Bills!Row \cup {None, Gone}]
      BY <1>1, <1>2
<1>4. \A k \in Invoices : srv'[k] = srv[k] \/ srv[k] = None
      BY <1>1
<1>5. Seen \subseteq Seen'
      BY <1>4 DEF Seen
<1> QED BY <1>3, <1>4, <1>5

\* What a call that is done leaves as it was for the queries it does not tell.
LEMMA BillDone ==
    ASSUME Bills!TypeOK, NEW m, GoodBill(m), Bills!Done(m)
    PROVE  /\ srv' \in [Invoices -> Bills!Row \cup {None, Gone}] /\ shares' \in [Invoices -> SUBSET Users]
           /\ Seen \subseteq Seen'
           /\ m.kind = "preview" => UNCHANGED <<srv, shares>>
           /\ m.kind # "preview" =>
                \A k \in Invoices \ TellsOf(m) : Bills!Exists(k)' =>
                    shares'[k] = shares[k] /\ (Bills!Exists(k) \/ k \notin Seen)
<1>0. srv \in [Invoices -> Bills!Row \cup {None, Gone}] /\ shares \in [Invoices -> SUBSET Users]
      BY DEF Bills!TypeOK
<1>k. PICK kind \in Bills!Kinds : m \in Bills!Call(kind)
      BY DEF GoodBill
<1>1. m.kind \in Bills!Kinds /\ m.of \in SUBSET Invoices /\ m.data \in Bills!Data(m.kind)
      BY <1>k, BillCallIs
<1>m. \A row \in Bills!Row : row # None /\ row # Gone
      BY InvoiceMarks
<1>g. None # Gone
      BY InvoiceMarks
<1>2. CASE m.kind = "update"
  <2>1. /\ \A i \in m.of : Bills!Exists(i)
        /\ srv' = [i \in Invoices |-> IF i \in m.of THEN Bills!Updated(srv[i], m.data) ELSE srv[i]]
        /\ shares' = shares
        BY <1>2 DEF Bills!Done
  <2>2. m.data \in Bills!Changes
        BY <1>1, <1>2 DEF Bills!Data
  <2>3. \A i \in m.of : srv[i] \in Bills!Row
        BY <1>0, <1>1, <2>1 DEF Bills!Exists
  <2>4. \A i \in m.of : Bills!Updated(srv[i], m.data) \in Bills!Row
        BY <2>2, <2>3, BillRows
  <2>5. srv' \in [Invoices -> Bills!Row \cup {None, Gone}]
        BY <1>0, <2>1, <2>4
  <2>6. \A i \in Invoices : srv'[i] = srv[i] \/ (srv[i] \in Bills!Row /\ srv'[i] \in Bills!Row)
        BY <2>1, <2>3, <2>4
  <2>7. Seen \subseteq Seen'
        BY <1>m, <2>6 DEF Seen
  <2>8. \A i \in Invoices : Bills!Exists(i)' => Bills!Exists(i)
        BY <1>m, <2>6 DEF Bills!Exists
  <2> QED BY <1>0, <1>2, <2>1, <2>5, <2>7, <2>8
<1>3. CASE m.kind = "bulk"
  <2>1. /\ srv' = [i \in Invoices |-> IF i \in m.of /\ Bills!Exists(i) /\ srv[i].mine
                                      THEN Bills!Filed(srv[i], m.data) ELSE srv[i]]
        /\ shares' = shares
        BY <1>3 DEF Bills!Done
  <2>2. m.data \in Bills!Changes
        BY <1>1, <1>3 DEF Bills!Data
  <2>3. \A i \in Invoices : Bills!Exists(i) => srv[i] \in Bills!Row
        BY <1>0 DEF Bills!Exists
  <2>4. \A i \in Invoices : Bills!Exists(i) => Bills!Filed(srv[i], m.data) \in Bills!Row
        BY <2>2, <2>3, BillRows
  <2>5. srv' \in [Invoices -> Bills!Row \cup {None, Gone}]
        BY <1>0, <2>1, <2>4
  <2>6. \A i \in Invoices : srv'[i] = srv[i] \/ (srv[i] \in Bills!Row /\ srv'[i] \in Bills!Row)
        BY <2>1, <2>3, <2>4
  <2>7. Seen \subseteq Seen'
        BY <1>m, <2>6 DEF Seen
  <2>8. \A i \in Invoices : Bills!Exists(i)' => Bills!Exists(i)
        BY <1>m, <2>6 DEF Bills!Exists
  <2> QED BY <1>0, <1>3, <2>1, <2>5, <2>7, <2>8
<1>4. CASE m.kind = "delete"
  <2>1. /\ srv' = [i \in Invoices |-> IF i \in m.of THEN Gone ELSE srv[i]]
        /\ shares' = [i \in Invoices |-> IF i \in m.of THEN {} ELSE shares[i]]
        BY <1>4 DEF Bills!Done
  <2>2. Seen \subseteq Seen'
        BY <1>g, <2>1 DEF Seen
  <2>3. srv' \in [Invoices -> Bills!Row \cup {None, Gone}]
        BY <1>0, <2>1
  <2>4. shares' \in [Invoices -> SUBSET Users]
        BY <1>0, <2>1
  <2>5. \A i \in Invoices : Bills!Exists(i)' => shares'[i] = shares[i] /\ Bills!Exists(i)
        BY <2>1 DEF Bills!Exists
  <2> QED BY <1>4, <2>2, <2>3, <2>4, <2>5
<1>5. CASE m.kind \in {"import", "manual"}
  <2>1. shares' = shares
        BY <1>5 DEF Bills!Done
  <2>2. PICK data : Bills!Created(data) /\ [mine |-> TRUE, cat |-> data.cat, split |-> data.split] \in Bills!Row
    <3>1. CASE m.kind = "import"
      <4>1. PICK c \in PageCats \cup {None} : Bills!Created([cat |-> c, split |-> FALSE])
            BY <3>1 DEF Bills!Done
      <4> DEFINE data == [cat |-> c, split |-> FALSE]
      <4>2. [mine |-> TRUE, cat |-> data.cat, split |-> data.split] \in Bills!Row
            BY DEF Bills!Row
      <4>3. Bills!Created(data)
            BY <4>1
      <4> HIDE DEF data
      <4> QED BY <4>2, <4>3
    <3>2. CASE m.kind = "manual"
      <4>1. Bills!Created(m.data)
            BY <3>2 DEF Bills!Done
      <4>2. m.data \in Bills!Forms
            BY <1>1, <3>2 DEF Bills!Data
      <4>3. [mine |-> TRUE, cat |-> m.data.cat, split |-> m.data.split] \in Bills!Row
            BY <4>2 DEF Bills!Forms, Bills!Row
      <4> QED BY <4>1, <4>3
    <3> QED BY <1>5, <3>1, <3>2
  <2>3. /\ srv' \in [Invoices -> Bills!Row \cup {None, Gone}] /\ Seen \subseteq Seen'
        /\ \A k \in Invoices : srv'[k] = srv[k] \/ srv[k] = None
        BY <1>0, <2>2, BillCreated
  <2>4. \A k \in Invoices : Bills!Exists(k)' => Bills!Exists(k) \/ k \notin Seen
        BY <2>3 DEF Bills!Exists, Seen
  <2> QED BY <1>0, <1>5, <2>1, <2>3, <2>4
<1>6. CASE m.kind = "preview"
  <2>1. UNCHANGED <<srv, shares>>
        BY <1>6 DEF Bills!Done, Bills!server
  <2>2. Seen' = Seen
        BY <2>1 DEF Seen
  <2> QED BY <1>0, <1>6, <2>1, <2>2
<1>7. CASE m.kind = "share" \/ m.kind = "revoke"
  <2>1. m.data \in Users
        BY <1>1, <1>7 DEF Bills!Data
  <2>2. /\ srv' = srv
        /\ \/ shares' = [i \in Invoices |-> IF i \in m.of THEN shares[i] \cup {m.data} ELSE shares[i]]
           \/ shares' = [i \in Invoices |-> IF i \in m.of THEN shares[i] \ {m.data} ELSE shares[i]]
        BY <1>7 DEF Bills!Done
  <2>3. shares' \in [Invoices -> SUBSET Users]
        BY <1>0, <2>1, <2>2
  <2>4. \A k \in Invoices \ m.of : shares'[k] = shares[k]
        BY <2>2
  <2>5. Seen' = Seen /\ \A k : Bills!Exists(k)' <=> Bills!Exists(k)
        BY <2>2 DEF Seen, Bills!Exists
  <2>6. m.of \subseteq TellsOf(m)
        BY <1>7 DEF TellsOf
  <2> QED BY <1>0, <1>7, <2>2, <2>3, <2>4, <2>5, <2>6
<1> QED BY <1>1, <1>2, <1>3, <1>4, <1>5, <1>6, <1>7 DEF Bills!Kinds

LEMMA InvoicesServe ==
    ASSUME InvoicesInv, NEW r \in Requests, Bills!Serve(r)
    PROVE  InvoicesInv'
<1> DEFINE m == req[r]
<1>1. /\ UNCHANGED <<applied, sharing, selected, editing, manual, preview, loading, lists, fetch>>
      /\ m # None /\ m.stage = "sent"
      BY DEF Bills!Serve, Bills!modals
<1>2. PICK stage \in {"done", "failed"} :
          /\ req' = [req EXCEPT ![r] = Bills!Answered(m, stage)]
          /\ \/ Bills!Done(m) /\ behind' = IF stage = "done" \/ m.kind = "preview" THEN behind ELSE Bills!Keys
             \/ stage = "failed" /\ UNCHANGED <<srv, shares, behind>>
      BY DEF Bills!Serve, Bills!server
<1>3. GoodBill(m)
      BY <1>1, BillsGood
<1>4. /\ DOMAIN req' = Requests /\ req'[r] = Bills!Answered(m, stage)
      /\ \A q \in Requests \ {r} : req'[q] = req[q]
      BY <1>2, BillPage
<1>5. /\ \E kind \in Bills!Kinds : req'[r] \in Bills!Call(kind)
      /\ req'[r] # None /\ req'[r].kind = m.kind /\ req'[r].of = m.of /\ req'[r].before = m.before
      /\ req'[r].at = m.at /\ req'[r].stage = stage
      BY <1>3, <1>4, BillAnswered
<1>6. /\ \A q \in Requests : \A k : TellsBill(req[q], k) => TellsBill(req'[q], k)
      /\ \A q \in Requests : \A k : Keeps(req[q], k) => Keeps(req'[q], k)
  <2>1. \A k : ~TellsBill(m, k) /\ (Keeps(m, k) => Keeps(req'[r], k))
        BY <1>1, <1>5 DEF TellsBill, Keeps
  <2> QED BY <1>4, <2>1
<1>7. behind' \subseteq Bills!Keys
      BY <1>2 DEF InvoicesInv, Bills!TypeOK
<1>8. m.before # None => DOMAIN m.before \subseteq Seen /\ m.kind # "preview"
      BY <1>3 DEF GoodBill
<1> HIDE DEF m
<1>9. CASE UNCHANGED <<srv, shares>> /\ (UNCHANGED behind \/ behind' = Bills!Keys)
  <2>1. \A q \in Requests : req'[q] = None \/ GoodBill(req'[q])
    <3>1. GoodBill(req'[r])
          BY <1>5, <1>8 DEF GoodBill
    <3> QED BY <1>4, <3>1, BillPage
  <2>2. ASSUME NEW k \in Bills!Keys \ behind' PROVE BillFresh(k)'
        BY <1>1, <1>6, <1>9, <2>2, BillStays
  <2> QED BY <1>1, <1>4, <1>7, <1>9, <2>1, <2>2, BillPage, InvoicesRest
<1>10. CASE Bills!Done(m) /\ m.kind # "preview" /\ behind' = IF stage = "done" THEN behind ELSE Bills!Keys
  <2>0. Bills!TypeOK /\ OnlySeen
        BY DEF InvoicesInv
  <2>1. /\ srv' \in [Invoices -> Bills!Row \cup {None, Gone}] /\ shares' \in [Invoices -> SUBSET Users]
        /\ Seen \subseteq Seen'
        /\ \A k \in Invoices \ TellsOf(m) : Bills!Exists(k)' =>
                    shares'[k] = shares[k] /\ (Bills!Exists(k) \/ k \notin Seen)
        BY <1>3, <1>10, <2>0, BillDone
  <2>2. \A q \in Requests : req'[q] = None \/ \E kind \in Bills!Kinds : req'[q] \in Bills!Call(kind)
        BY <1>4, <1>5, BillPage DEF GoodBill
  <2>3. Bills!TypeOK'
    <3>1. \A k \in Bills!Keys : /\ lists'[k] = None \/ Bills!Fits(k, lists'[k])
                                /\ fetch'[k] \in {None, Asked} \/ Bills!Fits(k, fetch'[k])
          BY <1>1, <2>0 DEF Bills!TypeOK
    <3>2. /\ applied' \in Bills!Filters /\ selected' \subseteq Invoices /\ manual' \in BOOLEAN
          /\ editing' \in Invoices \cup {None} /\ sharing' \in Invoices \cup {None}
          /\ preview' \in Invoices \cup {None} /\ loading' \in Invoices \cup {None}
          /\ DOMAIN lists' = Bills!Keys /\ DOMAIN fetch' = Bills!Keys
          BY <1>1, BillPage DEF Seen
    <3> QED BY <1>4, <1>7, <2>0, <2>1, <2>2, <3>1, <3>2, BillTypes
  <2>4. OnlySeen'
    <3>1. \A k \in Bills!Sources : /\ lists'[k] # None => DOMAIN lists'[k] \subseteq Seen'
                                   /\ fetch'[k] \notin {None, Asked} => DOMAIN fetch'[k] \subseteq Seen'
          BY <1>1, <2>0, <2>1 DEF OnlySeen
    <3>2. \A q \in Requests : req'[q] # None /\ req'[q].before # None =>
                DOMAIN req'[q].before \subseteq Seen' /\ req'[q].kind # "preview"
      <4>1. req'[r].before # None => DOMAIN req'[r].before \subseteq Seen' /\ req'[r].kind # "preview"
            BY <1>5, <1>8, <2>1
      <4>2. \A q \in Requests \ {r} : req'[q] # None /\ req'[q].before # None =>
                DOMAIN req'[q].before \subseteq Seen' /\ req'[q].kind # "preview"
            BY <1>4, <2>0, <2>1 DEF OnlySeen
      <4> QED BY <4>1, <4>2
    <3>3. sharing' # None => sharing' \in Seen'
          BY <1>1, <2>0, <2>1 DEF OnlySeen
    <3>4. \A i \in Invoices \ Seen' : fetch'[i] = None
          BY <1>1, <2>0, <2>1 DEF OnlySeen
    <3> QED BY <3>1, <3>2, <3>3, <3>4 DEF OnlySeen
  <2>5. ASSUME NEW k \in Bills!Keys \ behind' PROVE BillFresh(k)'
    <3>1. stage = "done" /\ k \notin behind
          BY <1>10, <2>5
    <3>2. TellsOf(req'[r]) = TellsOf(m)
          BY <1>5 DEF TellsOf
    <3>3. CASE k \in TellsOf(m)
      <4>1. TellsBill(req'[r], k)
            BY <1>5, <3>1, <3>2, <3>3 DEF TellsBill
      <4> QED BY <4>1 DEF BillFresh, TellsBill, TellsOf
    <3>4. CASE k \notin TellsOf(m)
      <4>1. k \in Invoices /\ k \notin Bills!Sources
            BY <1>10, <3>4, BillKeys DEF TellsOf
      <4>2. Bills!Known(k) <=> Bills!Exists(k)
            BY <4>1 DEF Bills!Known
      <4>3. Bills!Known(k)' <=> Bills!Exists(k)'
            BY <4>1 DEF Bills!Known
      <4>4. Bills!Answer(k)' = shares'[k] /\ Bills!Answer(k) = shares[k]
            BY <4>1 DEF Bills!Answer
      <4>5. Bills!Mounted' = Bills!Mounted
            BY <1>1 DEF Bills!Mounted
      <4> SUFFICES ASSUME Bills!Exists(k)', \A q \in Requests : ~TellsBill(req'[q], k)
                   PROVE  \/ fetch[k] = Asked
                          \/ fetch[k] = None /\ (k \in Bills!Mounted =>
                                   lists[k] = shares'[k] \/ \E q \in Requests : Keeps(req'[q], k))
                          \/ fetch[k] = shares'[k]
          BY <1>1, <4>3, <4>4, <4>5 DEF BillFresh, TellsBill, Keeps
      <4>6. shares'[k] = shares[k] /\ (Bills!Exists(k) \/ k \notin Seen)
            BY <2>1, <3>4, <4>1
      <4>7. CASE Bills!Exists(k)
        <5>1. BillFresh(k) /\ \A q \in Requests : ~TellsBill(req[q], k)
              BY <1>6, <3>1 DEF InvoicesInv
        <5> QED BY <1>6, <4>2, <4>4, <4>6, <4>7, <5>1 DEF BillFresh
      <4>8. CASE k \notin Seen
        <5>1. fetch[k] = None /\ k \notin Bills!Mounted
          <6>1. fetch[k] = None
                BY <2>0, <4>1, <4>8 DEF OnlySeen
          <6>2. k \notin Bills!Mounted
                BY <4>1, <4>8, BillPage, BillView DEF Bills!Mounted
          <6> QED BY <6>1, <6>2
        <5> QED BY <5>1
      <4> QED BY <4>6, <4>7, <4>8
    <3> QED BY <3>3, <3>4
  <2> QED BY <2>3, <2>4, <2>5 DEF InvoicesInv
<1>11. CASE Bills!Done(m) /\ m.kind = "preview"
  <2>1. UNCHANGED <<srv, shares>>
        BY <1>3, <1>11, BillDone DEF InvoicesInv
  <2>2. UNCHANGED behind
        BY <1>2, <1>11
  <2> QED BY <1>9, <2>1, <2>2
<1> QED BY <1>2, <1>9, <1>10, <1>11

LEMMA InvoicesShown ==
    ASSUME InvoicesInv
    PROVE  Bills!TypeOK /\ Bills!QuietShowsServer
<1>1. ASSUME \A r \in Requests : req[r] = None, \A k \in Bills!Mounted : fetch[k] = None,
             NEW k \in Bills!Mounted \ behind, Bills!Known(k)
      PROVE  lists[k] = Bills!Answer(k)
  <2>1. k \in Bills!Keys
    <3>1. sharing \in Seen \cup {None} /\ Seen \subseteq Invoices
          BY BillPage, BillView
    <3> QED BY <3>1, BillView, BillKeys DEF Bills!Mounted
  <2>2. BillFresh(k) /\ Bills!Answer(k) # None /\ Asked # None
        BY <2>1, BillAnswerFits, Marks DEF InvoicesInv
  <2>3. \A r \in Requests : ~TellsBill(req[r], k) /\ ~Keeps(req[r], k)
        BY <1>1 DEF TellsBill, Keeps
  <2> QED BY <1>1, <2>2, <2>3 DEF BillFresh
<1> QED BY <1>1 DEF InvoicesInv, Bills!QuietShowsServer

LEMMA InvoicesStep ==
    ASSUME InvoicesInv, InvoicesNext \/ UNCHANGED Bills!vars
    PROVE  InvoicesInv'
<1>1. CASE UNCHANGED Bills!vars
  <2>1. UNCHANGED <<srv, shares, applied, selected, editing, sharing, manual, preview, loading, lists, fetch, behind, req, scope>>
        BY <1>1 DEF Bills!vars, Bills!server, Bills!modals, Bills!cached
  <2>2. Bills!Mounted' = Bills!Mounted
        BY <2>1 DEF Bills!Mounted
  <2> QED BY <2>1, <2>2, BillPage, InvoicesTurn
<1>2. ASSUME NEW k \in Bills!Keys,
             OnInvoices(Bills!Read(k)) \/ OnInvoices(Bills!Receive(k)) \/ OnInvoices(Bills!Fail(k))
      PROVE  InvoicesInv'
      BY <1>2, InvoicesRead, InvoicesReceive, InvoicesFail DEF OnInvoices
<1>3. CASE \/ OnInvoices(Bills!Refetch) \/ OnInvoices(Bills!Apply) \/ OnInvoices(Bills!OpenShare)
           \/ OnInvoices(Bills!CloseModal)
      BY <1>3, InvoicesMount, InvoicesApply, InvoicesCloseModal DEF OnInvoices
<1>4. CASE \/ \E i \in Invoices : OnInvoices(Bills!Select(i))
           \/ OnInvoices(Bills!SelectAll) \/ OnInvoices(Bills!ClearSelection)
           \/ OnInvoices(Bills!OpenManual) \/ OnInvoices(Bills!OpenEdit)
      BY <1>4, InvoicesClick DEF OnInvoices
<1>5. ASSUME NEW r \in Requests,
             OnInvoices(Bills!SetCategory(r)) \/ OnInvoices(Bills!BatchSetCategory(r)) \/ OnInvoices(Bills!Save(r))
      PROVE  InvoicesInv'
      BY <1>5, InvoicesChange DEF OnInvoices
<1>6. ASSUME NEW r \in Requests,
             \/ OnInvoices(Bills!Delete(r)) \/ OnInvoices(Bills!Import(r)) \/ OnInvoices(Bills!ManualImport(r))
             \/ OnInvoices(Bills!Preview(r)) \/ OnInvoices(Bills!Share(r)) \/ OnInvoices(Bills!Revoke(r))
      PROVE  InvoicesInv'
      BY <1>6, InvoicesSend DEF OnInvoices
<1>7. ASSUME NEW r \in Requests,
             OnInvoices(Bills!Serve(r)) \/ OnInvoices(Bills!Settle(r)) \/ OnInvoices(Bills!Previewed(r))
      PROVE  InvoicesInv'
      BY <1>7, InvoicesServe, InvoicesSettle, InvoicesPreviewed DEF OnInvoices
<1> QED BY <1>1, <1>2, <1>3, <1>4, <1>5, <1>6, <1>7 DEF InvoicesNext

-----------------------------------------------------------------------------
(* The page of transactions                                                 *)

\* A call after which the page will ask for its list anew: any change of rows
\* it has made ahead of the server, and a link that is done.
ToldOf(m) == m # None /\ m.stage # "orphan" /\ (m.kind \in Transactions!LinkKinds => m.stage = "done")

Here(k) == appliedOnce /\ k = Transactions!Key

\* What a list is, or will be once its answer is there, while neither a call
\* nor a job that the page sees running will have it asked for again; of lists
\* that are not shown only the answers on their way count.
ListFresh(k) ==
    status = "idle" /\ (\A r \in Requests : ~ToldOf(req[r])) =>
        \/ fetch[k] = Asked
        \/ fetch[k] = None /\ (Here(k) => lists[k] = Transactions!Answer(k))
        \/ fetch[k] = Transactions!Answer(k)

TransactionsInv == Transactions!TypeOK /\ \A k \in Transactions!Keys \ behind : ListFresh(k)

LEMMA ListsAre ==
    /\ \A l \in Transactions!Lists : l \notin {None, Asked} /\ l \in [DOMAIN l -> Transactions!Row] /\ DOMAIN l \subseteq PageTxns
    /\ \A T \in SUBSET PageTxns : [T -> Transactions!Row] \subseteq Transactions!Lists
BY TransactionMarks DEF Transactions!Lists

LEMMA KeyIs ==
    ASSUME NEW f \in Transactions!Filters, NEW h \in BOOLEAN
    PROVE  Transactions!KeyOf(f, h) \in Transactions!Keys
BY DEF Transactions!KeyOf, Transactions!Filters, Transactions!Keys

LEMMA ListAnswer ==
    ASSUME Transactions!TypeOK, NEW k \in Transactions!Keys
    PROVE  Transactions!Answer(k) \in Transactions!Lists /\ Transactions!Answer(k) \notin {None, Asked}
<1> DEFINE T == {x \in PageTxns : /\ k.statement => x \in InStatement
                                  /\ k.hide => x \notin Reconciled
                                  /\ k.category \in PageCats => srv[x].cat = k.category}
<1>1. Transactions!Answer(k) = [t \in T |-> srv[t]]
      BY DEF Transactions!Answer
<1>2. \A t \in PageTxns : srv[t] \in Transactions!Row
      BY DEF Transactions!TypeOK
<1>3. T \in SUBSET PageTxns
      OBVIOUS
<1> HIDE DEF T
<1>4. Transactions!Answer(k) \in [T -> Transactions!Row]
      BY <1>1, <1>2, <1>3
<1> QED BY <1>3, <1>4, ListsAre

LEMMA ListSame ==
    ASSUME UNCHANGED srv
    PROVE  \A k : Transactions!Answer(k)' = Transactions!Answer(k)
BY DEF Transactions!Answer

LEMMA TxnCallIs ==
    ASSUME NEW kind \in Transactions!Kinds, NEW m \in Transactions!Call(kind)
    PROVE  /\ m # None /\ m.kind = kind /\ m.hashes \in SUBSET PageTxns /\ m.cat \in PageCats \cup {None}
           /\ m.before \in IF kind \in Transactions!LinkKinds THEN {None}
                           ELSE [Transactions!Keys -> Transactions!Lists \cup {None}]
           /\ m.stage \in {"sent", "done", "failed", "orphan"}
           /\ m = [kind |-> kind, hashes |-> m.hashes, cat |-> m.cat, before |-> m.before, stage |-> m.stage]
BY TransactionMarks DEF Transactions!Call

GoodTxn(m) == \E kind \in Transactions!Kinds : m \in Transactions!Call(kind)

LEMMA TxnStaged ==
    ASSUME NEW m, GoodTxn(m), NEW stage \in {"sent", "done", "failed", "orphan"}
    PROVE  LET n == Transactions!Staged(m, stage) IN
           GoodTxn(n) /\ n # None /\ n.kind = m.kind /\ n.hashes = m.hashes /\ n.stage = stage
<1>1. PICK kind \in Transactions!Kinds : m \in Transactions!Call(kind)
      BY DEF GoodTxn
<1>2. /\ m # None /\ m.kind = kind /\ m.hashes \in SUBSET PageTxns /\ m.cat \in PageCats \cup {None}
      /\ m.before \in IF kind \in Transactions!LinkKinds THEN {None}
                      ELSE [Transactions!Keys -> Transactions!Lists \cup {None}]
      BY <1>1, TxnCallIs
<1>e. m = [kind |-> kind, hashes |-> m.hashes, cat |-> m.cat, before |-> m.before, stage |-> m.stage]
      BY <1>1, TxnCallIs
<1>3. ASSUME NEW hashes, NEW c, NEW before, NEW old, NEW x,
             m = [kind |-> kind, hashes |-> hashes, cat |-> c, before |-> before, stage |-> old]
      PROVE  [m EXCEPT !.stage = x] = [kind |-> kind, hashes |-> hashes, cat |-> c, before |-> before, stage |-> x]
      BY <1>3
<1>4. Transactions!Staged(m, stage) =
          [kind |-> kind, hashes |-> m.hashes, cat |-> m.cat, before |-> m.before, stage |-> stage]
      BY <1>3, <1>e, Zenon DEF Transactions!Staged
<1>f. [kind |-> kind, hashes |-> m.hashes, cat |-> m.cat, before |-> m.before, stage |-> stage]
          \in Transactions!Call(kind)
      BY <1>2 DEF Transactions!Call
<1>5. Transactions!Staged(m, stage) \in Transactions!Call(kind)
      BY <1>4, <1>f
<1>6. Transactions!Staged(m, stage) # None
      BY <1>5, TxnCallIs
<1> QED BY <1>1, <1>2, <1>4, <1>5, <1>6 DEF GoodTxn

\* A change of rows leaves them rows.
LEMMA RowsChanged ==
    ASSUME NEW row \in Transactions!Row, NEW m, GoodTxn(m)
    PROVE  Transactions!Change(m, row) \in Transactions!Row
<1>1. m.kind \in Transactions!Kinds /\ m.cat \in PageCats \cup {None}
      BY TxnCallIs DEF GoodTxn
<1>2. row.cat \in PageCats \cup {None} /\ row.rev \in BOOLEAN /\ row.sub \in BOOLEAN
      BY DEF Transactions!Row
<1>3. CASE m.kind \in {"review", "reviewBulk"}
  <2>1. Transactions!Change(m, row) = Transactions!Reviewed(row)
        BY <1>3 DEF Transactions!Change
  <2> QED BY <1>2, <2>1 DEF Transactions!Reviewed, Transactions!Row
<1>4. CASE m.kind \in {"cat", "catBulk"}
  <2>1. Transactions!Change(m, row) = Transactions!Categorised(row, m.cat)
        BY <1>4 DEF Transactions!Change
  <2> QED BY <1>1, <1>2, <2>1 DEF Transactions!Categorised, Transactions!Row
<1>5. CASE m.kind \in {"link", "create"}
  <2>1. Transactions!Change(m, row) = [cat |-> row.cat, rev |-> row.rev, sub |-> TRUE]
        BY <1>5 DEF Transactions!Change, Transactions!Linked
  <2> QED BY <1>2, <2>1 DEF Transactions!Row
<1>6. CASE m.kind = "unlink"
  <2>1. Transactions!Change(m, row) = [cat |-> row.cat, rev |-> row.rev, sub |-> FALSE]
        BY <1>6 DEF Transactions!Change, Transactions!Linked
  <2> QED BY <1>2, <2>1 DEF Transactions!Row
<1> QED BY <1>1, <1>3, <1>4, <1>5, <1>6 DEF Transactions!Kinds, Transactions!LinkKinds

LEMMA ListChanged ==
    ASSUME NEW T \in SUBSET PageTxns, NEW list \in [T -> Transactions!Row], NEW m, GoodTxn(m)
    PROVE  Transactions!Changed(m, list) \in [T -> Transactions!Row]
<1>1. \A t \in T : (IF t \in m.hashes THEN Transactions!Change(m, list[t]) ELSE list[t]) \in Transactions!Row
      BY RowsChanged
<1> QED BY <1>1 DEF Transactions!Changed

LEMMA TransactionsStart ==
    ASSUME Transactions!Init
    PROVE  TransactionsInv
<1> USE DEF Transactions!Init
<1>1. Transactions!TypeOK
  <2>1. srv \in [PageTxns -> Transactions!Row]
        BY DEF Transactions!Row
  <2>2. hide \in BOOLEAN /\ appliedOnce \in BOOLEAN
        BY DEF Transactions!Filters
  <2> QED BY <2>1, <2>2 DEF Transactions!TypeOK
<1>2. ASSUME NEW k \in Transactions!Keys PROVE ListFresh(k)
  <2>1. fetch[k] = IF k = Transactions!Key /\ appliedOnce THEN Asked ELSE None
        OBVIOUS
  <2> QED BY <2>1 DEF ListFresh, Here
<1> QED BY <1>1, <1>2 DEF TransactionsInv

LEMMA TxnPage ==
    ASSUME TransactionsInv
    PROVE  /\ srv \in [PageTxns -> Transactions!Row]
           /\ applied \in Transactions!Filters /\ hide \in BOOLEAN /\ appliedOnce \in BOOLEAN
           /\ selected \subseteq PageTxns /\ modal \in PageTxns \cup {None} /\ running \in BOOLEAN
           /\ poll \in {None, Asked, "idle", "running"} /\ status \in {"idle", "running"}
           /\ was = (status = "running")
           /\ lists \in [Transactions!Keys -> Transactions!Lists \cup {None}]
           /\ fetch \in [Transactions!Keys -> Transactions!Lists \cup {None, Asked}]
           /\ DOMAIN lists = Transactions!Keys /\ DOMAIN fetch = Transactions!Keys /\ DOMAIN req = Requests
           /\ \A k \in Transactions!Keys : /\ lists[k] \in Transactions!Lists \cup {None}
                                           /\ fetch[k] \in Transactions!Lists \cup {None, Asked}
           /\ \A r \in Requests : req[r] = None \/ GoodTxn(req[r])
           /\ behind \subseteq Transactions!Keys
           /\ Transactions!Key \in Transactions!Keys
BY KeyIs DEF TransactionsInv, Transactions!TypeOK, GoodTxn, Transactions!Key

\* The rows that can be clicked at.
LEMMA TxnView ==
    ASSUME TransactionsInv
    PROVE  Transactions!View \subseteq PageTxns /\ DOMAIN Transactions!All \subseteq PageTxns
<1>1. DOMAIN Transactions!All \subseteq PageTxns
  <2>1. CASE lists[Transactions!Key] = None
    <3>1. DOMAIN Transactions!All = {}
          BY <2>1 DEF Transactions!All
    <3> QED BY <3>1
  <2>2. CASE lists[Transactions!Key] # None
    <3>1. lists[Transactions!Key] \in Transactions!Lists
          BY <2>2, TxnPage
    <3>2. DOMAIN lists[Transactions!Key] \subseteq PageTxns
          BY <3>1, ListsAre
    <3> QED BY <2>2, <3>2 DEF Transactions!All
  <2> QED BY <2>1, <2>2
<1> QED BY <1>1 DEF Transactions!View

LEMMA TxnTypes ==
    ASSUME srv' \in [PageTxns -> Transactions!Row],
           applied' \in Transactions!Filters, hide' \in BOOLEAN, appliedOnce' \in BOOLEAN,
           selected' \subseteq PageTxns, modal' \in PageTxns \cup {None}, running' \in BOOLEAN,
           poll' \in {None, Asked, "idle", "running"}, status' \in {"idle", "running"},
           was' = (status' = "running"),
           lists' \in [Transactions!Keys -> Transactions!Lists \cup {None}],
           fetch' \in [Transactions!Keys -> Transactions!Lists \cup {None, Asked}], DOMAIN req' = Requests,
           \A r \in Requests : req'[r] = None \/ GoodTxn(req'[r]),
           behind' \subseteq Transactions!Keys
    PROVE  Transactions!TypeOK'
BY DEF Transactions!TypeOK, GoodTxn

\* A list of which a step changes neither what is there nor what is told.
LEMMA ListStays ==
    ASSUME TransactionsInv, UNCHANGED srv, NEW k \in Transactions!Keys \ behind,
           lists'[k] = lists[k],
           \/ fetch'[k] = fetch[k]
           \/ fetch[k] = None /\ fetch'[k] = Asked,
           Here(k)' => Here(k) \/ fetch'[k] # None,
           status' = "idle" => status = "idle",
           \A r \in Requests : ToldOf(req[r]) => ToldOf(req'[r])
    PROVE  ListFresh(k)'
<1>1. ListFresh(k)
      BY DEF TransactionsInv
<1>2. Transactions!Answer(k)' = Transactions!Answer(k)
      BY ListSame
<1> SUFFICES ASSUME status' = "idle", \A r \in Requests : ~ToldOf(req'[r])
             PROVE  \/ fetch'[k] = Asked
                    \/ fetch'[k] = None /\ (Here(k)' => lists[k] = Transactions!Answer(k))
                    \/ fetch'[k] = Transactions!Answer(k)
    BY <1>2 DEF ListFresh, ToldOf
<1>3. \/ fetch[k] = Asked
      \/ fetch[k] = None /\ (Here(k) => lists[k] = Transactions!Answer(k))
      \/ fetch[k] = Transactions!Answer(k)
      BY <1>1 DEF ListFresh
<1>4. Transactions!Answer(k) # None
      BY ListAnswer DEF TransactionsInv
<1> QED BY <1>3, <1>4, Marks

\* A step of the page that shows other lists, begins calls or asks for the status.
LEMMA TransactionsTurn ==
    ASSUME TransactionsInv, UNCHANGED <<srv, lists, behind, status, was>>,
           applied' \in Transactions!Filters, hide' \in BOOLEAN, appliedOnce' \in BOOLEAN,
           selected' \subseteq PageTxns, modal' \in PageTxns \cup {None}, running' \in BOOLEAN,
           poll' \in {None, Asked, "idle", "running"},
           fetch' \in [Transactions!Keys -> Transactions!Lists \cup {None, Asked}], DOMAIN req' = Requests,
           \A k \in Transactions!Keys : /\ \/ fetch'[k] = fetch[k]
                                           \/ fetch[k] = None /\ fetch'[k] = Asked
                                        /\ Here(k)' => Here(k) \/ fetch'[k] # None,
           \A r \in Requests : /\ req'[r] = None \/ GoodTxn(req'[r])
                               /\ ToldOf(req[r]) => ToldOf(req'[r])
    PROVE  TransactionsInv'
<1>1. Transactions!TypeOK'
      BY TxnPage, TxnTypes
<1>2. ASSUME NEW k \in Transactions!Keys \ behind' PROVE ListFresh(k)'
      BY <1>2, ListStays
<1> QED BY <1>1, <1>2 DEF TransactionsInv

LEMMA TransactionsClick ==
    ASSUME TransactionsInv,
           \/ \E t \in PageTxns : Transactions!Select(t)
           \/ Transactions!SelectAll \/ Transactions!ClearSelection
           \/ Transactions!OpenLink \/ Transactions!CloseLink
    PROVE  TransactionsInv'
<1>1. UNCHANGED <<srv, lists, behind, fetch, req, applied, hide, appliedOnce, running, poll, status, was>>
      BY DEF Transactions!Select, Transactions!SelectAll, Transactions!ClearSelection,
             Transactions!OpenLink, Transactions!CloseLink, Transactions!jobVars
<1>2. selected' \subseteq PageTxns
  <2>1. ASSUME NEW t \in PageTxns, Transactions!Select(t) PROVE selected' \subseteq PageTxns
        BY <2>1, TxnPage DEF Transactions!Select
  <2>2. CASE Transactions!SelectAll
        BY <2>2, TxnView DEF Transactions!SelectAll
  <2>3. CASE Transactions!ClearSelection \/ Transactions!OpenLink \/ Transactions!CloseLink
        BY <2>3, TxnPage DEF Transactions!ClearSelection, Transactions!OpenLink, Transactions!CloseLink
  <2> QED BY <2>1, <2>2, <2>3
<1>3. modal' \in PageTxns \cup {None}
  <2>1. CASE Transactions!OpenLink
    <3>1. modal' \in Transactions!View \cup DOMAIN Transactions!All
          BY <2>1 DEF Transactions!OpenLink
    <3> QED BY <3>1, TxnView
  <2>2. CASE ~Transactions!OpenLink
    <3>1. modal' \in {modal, None}
          BY <2>2 DEF Transactions!Select, Transactions!SelectAll, Transactions!ClearSelection, Transactions!CloseLink
    <3> QED BY <3>1, TxnPage
  <2> QED BY <2>1, <2>2
<1>4. \A k : Here(k)' <=> Here(k)
      BY <1>1 DEF Here, Transactions!Key
<1> QED BY <1>1, <1>2, <1>3, <1>4, TxnPage, TransactionsTurn

LEMMA TransactionsJob ==
    ASSUME TransactionsInv,
           \/ Transactions!StartJob \/ Transactions!CancelJob \/ Transactions!OtherStarts
           \/ Transactions!JobEnds \/ Transactions!Poll \/ Transactions!ReadStatus
    PROVE  TransactionsInv'
<1>1. /\ UNCHANGED <<srv, lists, behind, fetch, req, applied, hide, appliedOnce, selected, modal, status, was>>
      /\ running' \in {running, TRUE, FALSE} /\ poll' \in {poll, Asked, "idle", "running"}
      BY DEF Transactions!StartJob, Transactions!CancelJob, Transactions!OtherStarts, Transactions!JobEnds,
             Transactions!Poll, Transactions!ReadStatus, Transactions!pageVars
<1>2. \A k : Here(k)' <=> Here(k)
      BY <1>1 DEF Here, Transactions!Key
<1> QED BY <1>1, <1>2, TxnPage, TransactionsTurn

LEMMA TransactionsRefetch ==
    ASSUME TransactionsInv, Transactions!Refetch
    PROVE  TransactionsInv'
<1>1. /\ UNCHANGED <<srv, lists, behind, req, applied, hide, appliedOnce, selected, modal, running, poll, status, was>>
      /\ Transactions!Mount(Transactions!Key, TRUE)
      BY DEF Transactions!Refetch, Transactions!pageVars, Transactions!jobVars
<1>2. /\ fetch' \in [Transactions!Keys -> Transactions!Lists \cup {None, Asked}]
      /\ \A k \in Transactions!Keys : fetch'[k] = fetch[k] \/ (fetch[k] = None /\ fetch'[k] = Asked)
      BY <1>1, TxnPage DEF Transactions!Mount
<1>3. \A k : Here(k)' <=> Here(k)
      BY <1>1 DEF Here, Transactions!Key
<1> QED BY <1>1, <1>2, <1>3, TxnPage, TransactionsTurn

LEMMA TransactionsApply ==
    ASSUME TransactionsInv, Transactions!Apply
    PROVE  TransactionsInv'
<1> DEFINE k2 == Transactions!KeyOf(applied', hide)
           on == k2 # Transactions!Key \/ ~appliedOnce
<1>1. /\ UNCHANGED <<srv, lists, behind, req, hide, modal, running, poll, status, was>>
      /\ applied' \in Transactions!Filters /\ appliedOnce' = TRUE /\ selected' = {}
      /\ Transactions!Mount(k2, on)
      BY DEF Transactions!Apply, Transactions!jobVars
<1>2. k2 \in Transactions!Keys
      BY <1>1, TxnPage, KeyIs
<1>3. k2 = Transactions!Key'
      BY <1>1 DEF Transactions!Key
<1>4. on <=> ~Here(k2)
      BY TxnPage DEF Here
<1> HIDE DEF k2, on
<1>5. /\ fetch' \in [Transactions!Keys -> Transactions!Lists \cup {None, Asked}]
      /\ \A k \in Transactions!Keys : fetch'[k] = fetch[k] \/ (fetch[k] = None /\ fetch'[k] = Asked)
      /\ Here(k2) \/ fetch'[k2] # None
      BY <1>1, <1>2, <1>4, TxnPage, Marks DEF Transactions!Mount
<1>6. \A k \in Transactions!Keys : Here(k)' => Here(k) \/ fetch'[k] # None
      BY <1>3, <1>5 DEF Here
<1> QED BY <1>1, <1>5, <1>6, TxnPage, TransactionsTurn

LEMMA TransactionsClear ==
    ASSUME TransactionsInv, Transactions!Clear
    PROVE  TransactionsInv'
<1>1. /\ UNCHANGED <<srv, lists, fetch, behind, req, hide, modal, running, poll, status, was>>
      /\ applied' = Transactions!NoFilters /\ appliedOnce' = FALSE /\ selected' = {}
      BY DEF Transactions!Clear, Transactions!jobVars
<1>2. applied' \in Transactions!Filters
      BY <1>1 DEF Transactions!NoFilters, Transactions!Filters
<1>3. \A k : ~Here(k)'
      BY <1>1 DEF Here
<1> QED BY <1>1, <1>2, <1>3, TxnPage, TransactionsTurn

LEMMA TransactionsToggleHide ==
    ASSUME TransactionsInv, Transactions!ToggleHide
    PROVE  TransactionsInv'
<1> DEFINE k2 == Transactions!KeyOf(applied, ~hide)
<1>1. /\ UNCHANGED <<srv, lists, behind, req, applied, appliedOnce, selected, modal, running, poll, status, was>>
      /\ hide' = ~hide /\ Transactions!Mount(k2, TRUE)
      BY DEF Transactions!ToggleHide, Transactions!jobVars
<1>2. hide' \in BOOLEAN
      BY <1>1
<1>3. k2 = Transactions!KeyOf(applied, hide')
      BY <1>1
<1>4. k2 \in Transactions!Keys
      BY <1>2, <1>3, TxnPage, KeyIs
<1>5. k2 = Transactions!Key'
      BY <1>1, <1>3 DEF Transactions!Key
<1> HIDE DEF k2
<1>6. /\ fetch' \in [Transactions!Keys -> Transactions!Lists \cup {None, Asked}]
      /\ \A k \in Transactions!Keys : fetch'[k] = fetch[k] \/ (fetch[k] = None /\ fetch'[k] = Asked)
      /\ fetch'[k2] # None
      BY <1>1, <1>4, TxnPage, Marks DEF Transactions!Mount
<1>7. \A k \in Transactions!Keys : Here(k)' => Here(k) \/ fetch'[k] # None
      BY <1>5, <1>6 DEF Here
<1> QED BY <1>1, <1>2, <1>6, <1>7, TxnPage, TransactionsTurn

LEMMA TxnSends ==
    ASSUME TransactionsInv, NEW r \in Requests, NEW kind \in Transactions!Kinds, NEW hashes \in SUBSET PageTxns,
           NEW c \in PageCats \cup {None}, NEW before,
           before \in IF kind \in Transactions!LinkKinds THEN {None}
                      ELSE [Transactions!Keys -> Transactions!Lists \cup {None}],
           Transactions!Send(r, kind, hashes, c, before)
    PROVE  /\ DOMAIN req' = Requests
           /\ \A q \in Requests : /\ req'[q] = None \/ GoodTxn(req'[q])
                                  /\ ToldOf(req[q]) => ToldOf(req'[q])
           /\ kind \notin Transactions!LinkKinds => ToldOf(req'[r])
           /\ GoodTxn(Transactions!Sent(kind, hashes, c, before))
<1>1. req[r] = None /\ req' = [req EXCEPT ![r] = Transactions!Sent(kind, hashes, c, before)]
      BY DEF Transactions!Send, Transactions!Free
<1>2. Transactions!Sent(kind, hashes, c, before) \in Transactions!Call(kind)
      BY DEF Transactions!Sent, Transactions!Call
<1>3. /\ DOMAIN req' = Requests /\ req'[r] = Transactions!Sent(kind, hashes, c, before)
      /\ \A q \in Requests \ {r} : req'[q] = req[q]
      BY <1>1, TxnPage
<1>4. req'[r] # None /\ req'[r].kind = kind
      BY <1>2, <1>3, TxnCallIs
<1>5. req'[r].stage = "sent"
      BY <1>3 DEF Transactions!Sent
<1>6. ~ToldOf(req[r])
      BY <1>1 DEF ToldOf
<1> QED BY <1>2, <1>3, <1>4, <1>5, <1>6, TxnPage DEF ToldOf, GoodTxn

LEMMA TransactionsLink ==
    ASSUME TransactionsInv, NEW r \in Requests,
           Transactions!Link(r) \/ Transactions!Unlink(r) \/ Transactions!Create(r)
    PROVE  TransactionsInv'
<1>1. /\ UNCHANGED <<srv, lists, fetch, behind, applied, hide, appliedOnce, selected, modal>>
      /\ UNCHANGED <<running, poll, status, was>>
      BY DEF Transactions!Link, Transactions!Unlink, Transactions!Create, Transactions!pageVars, Transactions!jobVars
<1>2. PICK kind \in Transactions!LinkKinds, hashes \in SUBSET PageTxns : Transactions!Send(r, kind, hashes, None, None)
  <2>1. CASE Transactions!Link(r)
    <3>1. PICK hashes \in {selected, {modal}} : Transactions!Send(r, "link", hashes, None, None)
          BY <2>1 DEF Transactions!Link
    <3>2. modal # None
          BY <2>1 DEF Transactions!Link
    <3>3. hashes \in SUBSET PageTxns
          BY <3>1, <3>2, TxnPage
    <3> QED BY <3>1, <3>3 DEF Transactions!LinkKinds
  <2>2. CASE Transactions!Unlink(r)
    <3>1. PICK t \in Transactions!View : Transactions!Send(r, "unlink", {t}, None, None)
          BY <2>2 DEF Transactions!Unlink
    <3> QED BY <3>1, TxnView DEF Transactions!LinkKinds
  <2>3. CASE Transactions!Create(r)
    <3>1. PICK t \in Transactions!View : Transactions!Send(r, "create", {t}, None, None)
          BY <2>3 DEF Transactions!Create
    <3> QED BY <3>1, TxnView DEF Transactions!LinkKinds
  <2> QED BY <2>1, <2>2, <2>3
<1>3. /\ DOMAIN req' = Requests
      /\ \A q \in Requests : /\ req'[q] = None \/ GoodTxn(req'[q])
                             /\ ToldOf(req[q]) => ToldOf(req'[q])
  <2>1. kind \in Transactions!Kinds /\ None \in IF kind \in Transactions!LinkKinds THEN {None}
                      ELSE [Transactions!Keys -> Transactions!Lists \cup {None}]
        BY DEF Transactions!Kinds
  <2> QED BY <1>2, <2>1, TxnSends
<1>4. \A k : Here(k)' <=> Here(k)
      BY <1>1 DEF Here, Transactions!Key
<1> QED BY <1>1, <1>3, <1>4, TxnPage, TransactionsTurn

LEMMA TransactionsReload ==
    ASSUME TransactionsInv, Transactions!Reload
    PROVE  TransactionsInv'
<1>1. /\ UNCHANGED <<srv, running, applied>>
      /\ hide' \in BOOLEAN /\ appliedOnce' \in BOOLEAN /\ selected' = {} /\ modal' = None
      /\ lists' = [k \in Transactions!Keys |-> None]
      /\ fetch' = [k \in Transactions!Keys |->
                      IF k = Transactions!KeyOf(applied', hide') /\ appliedOnce' THEN Asked ELSE None]
      /\ behind' = {}
      /\ req' = [r \in Requests |-> IF req[r] # None /\ req[r].stage = "sent"
                                    THEN Transactions!Staged(req[r], "orphan") ELSE None]
      /\ status' = "idle" /\ poll' = Asked /\ was' = FALSE
      BY DEF Transactions!Reload, Transactions!URL
<1>2. \A r \in Requests : req'[r] = None \/ GoodTxn(req'[r])
      BY <1>1, TxnPage, TxnStaged
<1>3. Transactions!TypeOK'
  <2>1. DOMAIN req' = Requests
        BY <1>1
  <2>2. /\ lists' \in [Transactions!Keys -> Transactions!Lists \cup {None}]
        /\ fetch' \in [Transactions!Keys -> Transactions!Lists \cup {None, Asked}]
        BY <1>1
  <2>3. /\ srv' \in [PageTxns -> Transactions!Row] /\ applied' \in Transactions!Filters /\ running' \in BOOLEAN
        BY <1>1, TxnPage
  <2>4. was' = (status' = "running")
        BY <1>1
  <2> QED BY <1>1, <1>2, <2>1, <2>2, <2>3, <2>4, TxnTypes
<1>4. ASSUME NEW k \in Transactions!Keys PROVE ListFresh(k)'
  <2>1. Here(k)' => k = Transactions!KeyOf(applied', hide') /\ appliedOnce'
        BY DEF Here, Transactions!Key
  <2>2. fetch'[k] = IF k = Transactions!KeyOf(applied', hide') /\ appliedOnce' THEN Asked ELSE None
        BY <1>1
  <2>3. fetch'[k] = Asked \/ (fetch'[k] = None /\ ~Here(k)')
        BY <2>1, <2>2
  <2> QED BY <2>3 DEF ListFresh
<1> QED BY <1>3, <1>4 DEF TransactionsInv

LEMMA TransactionsRead ==
    ASSUME TransactionsInv, NEW k \in Transactions!Keys, Transactions!Read(k)
    PROVE  TransactionsInv'
<1>1. /\ UNCHANGED <<srv, lists, req, applied, hide, appliedOnce, selected, modal, running, poll, status, was>>
      /\ fetch' = [fetch EXCEPT ![k] = Transactions!Answer(k)] /\ behind' = behind \ {k}
      BY DEF Transactions!Read, Transactions!pageVars, Transactions!jobVars
<1>2. /\ DOMAIN fetch' = Transactions!Keys /\ fetch'[k] = Transactions!Answer(k)
      /\ \A j \in Transactions!Keys \ {k} : fetch'[j] = fetch[j]
      BY <1>1, TxnPage
<1>3. fetch' \in [Transactions!Keys -> Transactions!Lists \cup {None, Asked}]
  <2>1. Transactions!Answer(k) \in Transactions!Lists
        BY ListAnswer DEF TransactionsInv
  <2> QED BY <1>1, <2>1, TxnPage
<1>4. Transactions!TypeOK'
      BY <1>1, <1>2, <1>3, TxnPage, TxnTypes
<1>5. ListFresh(k)'
  <2>1. Transactions!Answer(k)' = Transactions!Answer(k)
        BY <1>1, ListSame
  <2> QED BY <1>2, <2>1 DEF ListFresh
<1>6. ASSUME NEW j \in Transactions!Keys \ behind', j # k PROVE ListFresh(j)'
  <2>1. Here(j)' <=> Here(j)
        BY <1>1 DEF Here, Transactions!Key
  <2> QED BY <1>1, <1>2, <1>6, <2>1, ListStays
<1> QED BY <1>4, <1>5, <1>6 DEF TransactionsInv

LEMMA TransactionsReceive ==
    ASSUME TransactionsInv, NEW k \in Transactions!Keys, Transactions!Receive(k)
    PROVE  TransactionsInv'
<1>1. /\ UNCHANGED <<srv, behind, req, applied, hide, appliedOnce, selected, modal, running, poll, status, was>>
      /\ fetch[k] \notin {None, Asked}
      /\ fetch' = [fetch EXCEPT ![k] = None] /\ lists' = [lists EXCEPT ![k] = fetch[k]]
      BY DEF Transactions!Receive, Transactions!pageVars, Transactions!jobVars
<1>2. /\ DOMAIN fetch' = Transactions!Keys /\ fetch'[k] = None
      /\ DOMAIN lists' = Transactions!Keys /\ lists'[k] = fetch[k]
      /\ \A j \in Transactions!Keys \ {k} : fetch'[j] = fetch[j] /\ lists'[j] = lists[j]
      BY <1>1, TxnPage
<1>3. /\ lists' \in [Transactions!Keys -> Transactions!Lists \cup {None}]
      /\ fetch' \in [Transactions!Keys -> Transactions!Lists \cup {None, Asked}]
      BY <1>1, TxnPage
<1>4. Transactions!TypeOK'
      BY <1>1, <1>2, <1>3, TxnPage, TxnTypes
<1>5. ASSUME k \notin behind PROVE ListFresh(k)'
  <2>1. Transactions!Answer(k)' = Transactions!Answer(k)
        BY <1>1, ListSame
  <2>2. ListFresh(k)
        BY <1>5 DEF TransactionsInv
  <2> SUFFICES ASSUME status = "idle", \A r \in Requests : ~ToldOf(req[r])
               PROVE  fetch'[k] = None /\ lists'[k] = Transactions!Answer(k)
      BY <1>1, <2>1 DEF ListFresh, ToldOf
  <2> QED BY <1>1, <1>2, <2>2 DEF ListFresh
<1>6. ASSUME NEW j \in Transactions!Keys \ behind', j # k PROVE ListFresh(j)'
  <2>1. Here(j)' <=> Here(j)
        BY <1>1 DEF Here, Transactions!Key
  <2> QED BY <1>1, <1>2, <1>6, <2>1, ListStays
<1> QED BY <1>1, <1>4, <1>5, <1>6 DEF TransactionsInv

LEMMA TransactionsFail ==
    ASSUME TransactionsInv, NEW k \in Transactions!Keys, Transactions!Fail(k)
    PROVE  TransactionsInv'
<1>1. /\ UNCHANGED <<srv, lists, req, applied, hide, appliedOnce, selected, modal, running, poll, status, was>>
      /\ fetch' = [fetch EXCEPT ![k] = None] /\ behind' = behind \cup {k}
      BY DEF Transactions!Fail, Transactions!pageVars, Transactions!jobVars
<1>2. /\ DOMAIN fetch' = Transactions!Keys /\ fetch'[k] = None
      /\ \A j \in Transactions!Keys \ {k} : fetch'[j] = fetch[j]
      BY <1>1, TxnPage
<1>3. /\ lists' \in [Transactions!Keys -> Transactions!Lists \cup {None}]
      /\ fetch' \in [Transactions!Keys -> Transactions!Lists \cup {None, Asked}]
      BY <1>1, TxnPage
<1>4. Transactions!TypeOK'
      BY <1>1, <1>2, <1>3, TxnPage, TxnTypes
<1>6. ASSUME NEW j \in Transactions!Keys \ behind' PROVE ListFresh(j)'
  <2>1. Here(j)' <=> Here(j)
        BY <1>1 DEF Here, Transactions!Key
  <2> QED BY <1>1, <1>2, <1>6, <2>1, ListStays
<1> QED BY <1>4, <1>6 DEF TransactionsInv

\* Asking for the list anew makes up for whatever it missed.
LEMMA ListsAsked ==
    ASSUME TransactionsInv, UNCHANGED <<applied, hide, appliedOnce>>, Transactions!Invalidate
    PROVE  /\ fetch' \in [Transactions!Keys -> Transactions!Lists \cup {None, Asked}]
           /\ behind' \subseteq Transactions!Keys
           /\ \A k \in Transactions!Keys \ behind' : ListFresh(k)'
<1>1. /\ fetch' = [fetch EXCEPT ![Transactions!Key] =
                            IF appliedOnce /\ ~Transactions!Kept(Transactions!Key) THEN Asked ELSE @]
      /\ behind' = behind \cup {k \in Transactions!Keys : Transactions!Kept(k)}
      BY DEF Transactions!Invalidate
<1>2. /\ fetch' \in [Transactions!Keys -> Transactions!Lists \cup {None, Asked}]
      /\ \A k \in Transactions!Keys :
            fetch'[k] = IF k = Transactions!Key /\ appliedOnce /\ ~Transactions!Kept(k) THEN Asked ELSE fetch[k]
      BY <1>1, TxnPage
<1>3. ASSUME NEW k \in Transactions!Keys \ behind' PROVE ListFresh(k)'
  <2>1. Here(k)' <=> (k = Transactions!Key /\ appliedOnce)
        BY DEF Here, Transactions!Key
  <2>2. fetch'[k] = Asked \/ (fetch'[k] = None /\ ~Here(k)')
        BY <1>1, <1>2, <1>3, <2>1 DEF Transactions!Kept
  <2> QED BY <2>2 DEF ListFresh
<1>4. behind' \subseteq Transactions!Keys
      BY <1>1, TxnPage
<1> QED BY <1>2, <1>3, <1>4, TxnPage

LEMMA TransactionsSettle ==
    ASSUME TransactionsInv, NEW r \in Requests, Transactions!Settle(r)
    PROVE  TransactionsInv'
<1>1. /\ UNCHANGED <<srv, applied, hide, appliedOnce, modal, running, poll, status, was>>
      /\ req[r] # None /\ req[r].kind \notin Transactions!LinkKinds
      /\ lists' = IF req[r].stage = "failed" THEN Transactions!Restored(req[r].before) ELSE lists
      /\ Transactions!Invalidate
      /\ selected' \in {selected, {}}
      /\ req' = [req EXCEPT ![r] = None]
      BY DEF Transactions!Settle, Transactions!jobVars
<1>2. /\ DOMAIN req' = Requests
      /\ \A q \in Requests : req'[q] = None \/ GoodTxn(req'[q])
      BY <1>1, TxnPage
<1>3. lists' \in [Transactions!Keys -> Transactions!Lists \cup {None}]
  <2>1. req[r].before \in [Transactions!Keys -> Transactions!Lists \cup {None}]
    <3>1. GoodTxn(req[r])
          BY <1>1, TxnPage
    <3> QED BY <1>1, <3>1, TxnCallIs DEF GoodTxn
  <2>2. \A k \in Transactions!Keys :
            (IF req[r].before[k] = None THEN lists[k] ELSE req[r].before[k]) \in Transactions!Lists \cup {None}
        BY <2>1, TxnPage
  <2> QED BY <1>1, <2>2, TxnPage DEF Transactions!Restored
<1>4. Transactions!TypeOK'
  <2>1. selected' \subseteq PageTxns
        BY <1>1, TxnPage
  <2> QED BY <1>1, <1>2, <1>3, <2>1, TxnPage, ListsAsked, TxnTypes
<1> QED BY <1>1, <1>4, ListsAsked DEF TransactionsInv

LEMMA TransactionsSettleLink ==
    ASSUME TransactionsInv, NEW r \in Requests, Transactions!SettleLink(r)
    PROVE  TransactionsInv'
<1>1. /\ UNCHANGED <<srv, lists, applied, hide, appliedOnce, running, poll, status, was>>
      /\ req[r] # None /\ req[r].kind \in Transactions!LinkKinds
      /\ IF req[r].stage = "done" THEN Transactions!Invalidate ELSE UNCHANGED <<fetch, behind>>
      /\ selected' \in {selected, {}} /\ modal' \in {modal, None}
      /\ req' = [req EXCEPT ![r] = None]
      BY DEF Transactions!SettleLink, Transactions!jobVars
<1>2. /\ DOMAIN req' = Requests /\ req'[r] = None
      /\ \A q \in Requests \ {r} : req'[q] = req[q]
      /\ \A q \in Requests : req'[q] = None \/ GoodTxn(req'[q])
      BY <1>1, TxnPage
<1>3. selected' \subseteq PageTxns /\ modal' \in PageTxns \cup {None}
      BY <1>1, TxnPage
<1>4. CASE req[r].stage = "done"
  <2>1. Transactions!Invalidate
        BY <1>1, <1>4
  <2>2. Transactions!TypeOK'
        BY <1>1, <1>2, <1>3, <2>1, TxnPage, ListsAsked, TxnTypes
  <2> QED BY <1>1, <2>1, <2>2, ListsAsked DEF TransactionsInv
<1>5. CASE req[r].stage # "done"
  <2>1. UNCHANGED <<fetch, behind>>
        BY <1>1, <1>5
  <2>2. \A q \in Requests : ToldOf(req[q]) => ToldOf(req'[q])
    <3>1. ~ToldOf(req[r])
          BY <1>1, <1>5 DEF ToldOf
    <3> QED BY <1>2, <3>1
  <2>3. \A k : Here(k)' <=> Here(k)
        BY <1>1 DEF Here, Transactions!Key
  <2> QED BY <1>1, <1>2, <1>3, <2>1, <2>2, <2>3, TxnPage, TransactionsTurn
<1> QED BY <1>4, <1>5

LEMMA TransactionsReceiveStatus ==
    ASSUME TransactionsInv, Transactions!ReceiveStatus
    PROVE  TransactionsInv'
<1>1. /\ UNCHANGED <<srv, lists, req, applied, hide, appliedOnce, selected, modal, running>>
      /\ poll \in {"running", "idle"} /\ status' = poll /\ poll' = None /\ was' = (poll = "running")
      /\ IF poll = "idle" /\ was THEN Transactions!Invalidate ELSE UNCHANGED <<fetch, behind>>
      BY DEF Transactions!ReceiveStatus, Transactions!pageVars
<1>2. was' = (status' = "running") /\ status' \in {"idle", "running"}
      BY <1>1
<1>4. CASE poll = "idle" /\ was
  <2>1. Transactions!Invalidate
        BY <1>1, <1>4
  <2>2. Transactions!TypeOK'
        BY <1>1, <1>2, <2>1, TxnPage, ListsAsked, TxnTypes
  <2> QED BY <1>1, <2>1, <2>2, ListsAsked DEF TransactionsInv
<1>5. CASE ~(poll = "idle" /\ was)
  <2>1. UNCHANGED <<fetch, behind>>
        BY <1>1, <1>5
  <2>2. Transactions!TypeOK'
        BY <1>1, <1>2, <2>1, TxnPage, TxnTypes
  <2>3. status' = "idle" => status = "idle"
        BY <1>1, <1>5, TxnPage
  <2>4. ASSUME NEW k \in Transactions!Keys \ behind' PROVE ListFresh(k)'
    <3>1. Here(k)' <=> Here(k)
          BY <1>1 DEF Here, Transactions!Key
    <3> QED BY <1>1, <2>1, <2>3, <2>4, <3>1, ListStays
  <2> QED BY <2>2, <2>4 DEF TransactionsInv
<1> QED BY <1>4, <1>5

LEMMA TransactionsOptimistic ==
    ASSUME TransactionsInv, NEW r \in Requests,
           NEW kind \in Transactions!Kinds \ Transactions!LinkKinds, NEW hashes \in SUBSET PageTxns,
           NEW c \in PageCats \cup {None}, Transactions!Optimistic(r, kind, hashes, c)
    PROVE  TransactionsInv'
<1> DEFINE m == Transactions!Sent(kind, hashes, c, lists)
<1>1. /\ UNCHANGED <<srv, applied, hide, appliedOnce, selected, modal, running, poll, status, was>>
      /\ Transactions!Send(r, kind, hashes, c, lists)
      /\ fetch' = [k \in Transactions!Keys |-> None]
      /\ behind' = behind \cup {k \in Transactions!Keys \ {Transactions!Key} : fetch[k] # None}
      /\ lists' = [k \in Transactions!Keys |-> IF lists[k] = None THEN None ELSE Transactions!Changed(m, lists[k])]
      BY DEF Transactions!Optimistic, Transactions!pageVars, Transactions!jobVars
<1>2. /\ DOMAIN req' = Requests
      /\ \A q \in Requests : req'[q] = None \/ GoodTxn(req'[q])
      /\ ToldOf(req'[r]) /\ GoodTxn(m)
  <2>1. lists \in [Transactions!Keys -> Transactions!Lists \cup {None}]
        BY TxnPage
  <2> QED BY <1>1, <2>1, TxnSends
<1> HIDE DEF m
<1>3. lists' \in [Transactions!Keys -> Transactions!Lists \cup {None}]
  <2>1. ASSUME NEW k \in Transactions!Keys, lists[k] # None
        PROVE  Transactions!Changed(m, lists[k]) \in Transactions!Lists
    <3>1. lists[k] \in Transactions!Lists
          BY <2>1, TxnPage
    <3>2. lists[k] \in [DOMAIN lists[k] -> Transactions!Row] /\ DOMAIN lists[k] \in SUBSET PageTxns
          BY <3>1, ListsAre
    <3>3. Transactions!Changed(m, lists[k]) \in [DOMAIN lists[k] -> Transactions!Row]
          BY <1>2, <3>2, ListChanged
    <3> QED BY <3>2, <3>3, ListsAre
  <2> QED BY <1>1, <2>1
<1>4. fetch' \in [Transactions!Keys -> Transactions!Lists \cup {None, Asked}]
      BY <1>1
<1>5. behind' \subseteq Transactions!Keys
      BY <1>1, TxnPage
<1>6. Transactions!TypeOK'
      BY <1>1, <1>2, <1>3, <1>4, <1>5, TxnPage, TxnTypes
<1>7. ASSUME NEW k \in Transactions!Keys PROVE ListFresh(k)'
      BY <1>2 DEF ListFresh, ToldOf
<1> QED BY <1>6, <1>7 DEF TransactionsInv

LEMMA TransactionsChange ==
    ASSUME TransactionsInv, NEW r \in Requests,
           \/ Transactions!MarkReviewed(r) \/ Transactions!SetCategory(r) \/ Transactions!ReviewAll(r)
           \/ Transactions!BatchMarkReviewed(r) \/ Transactions!BatchSetCategory(r)
    PROVE  TransactionsInv'
<1> USE DEF Transactions!Kinds, Transactions!LinkKinds
<1>1. CASE Transactions!MarkReviewed(r)
  <2>1. PICK t \in Transactions!View : Transactions!Optimistic(r, "review", {t}, None)
        BY <1>1 DEF Transactions!MarkReviewed
  <2>2. {t} \in SUBSET PageTxns
        BY TxnView
  <2> QED BY <2>1, <2>2, TransactionsOptimistic
<1>2. CASE Transactions!SetCategory(r)
  <2>1. PICK t \in Transactions!View, c \in PageCats \cup {None} : Transactions!Optimistic(r, "cat", {t}, c)
        BY <1>2 DEF Transactions!SetCategory
  <2>2. {t} \in SUBSET PageTxns
        BY TxnView
  <2> QED BY <2>1, <2>2, TransactionsOptimistic
<1>3. CASE Transactions!ReviewAll(r)
  <2>1. PICK hashes \in SUBSET Transactions!View : Transactions!Optimistic(r, "reviewBulk", hashes, None)
        BY <1>3 DEF Transactions!ReviewAll
  <2>2. hashes \in SUBSET PageTxns
        BY TxnView
  <2> QED BY <2>1, <2>2, TransactionsOptimistic
<1>4. CASE Transactions!BatchMarkReviewed(r)
  <2>1. Transactions!Optimistic(r, "reviewBulk", selected, None)
        BY <1>4 DEF Transactions!BatchMarkReviewed
  <2>2. selected \in SUBSET PageTxns
        BY TxnPage
  <2> QED BY <2>1, <2>2, TransactionsOptimistic
<1>5. CASE Transactions!BatchSetCategory(r)
  <2>1. PICK c \in PageCats \cup {None} : Transactions!Optimistic(r, "catBulk", selected, c)
        BY <1>5 DEF Transactions!BatchSetCategory
  <2>2. selected \in SUBSET PageTxns
        BY TxnPage
  <2> QED BY <2>1, <2>2, TransactionsOptimistic
<1> QED BY <1>1, <1>2, <1>3, <1>4, <1>5

LEMMA TransactionsJobWrites ==
    ASSUME TransactionsInv, Transactions!JobWrites
    PROVE  TransactionsInv'
<1>1. /\ UNCHANGED <<lists, fetch, req, applied, hide, appliedOnce, selected, modal, running, poll, status, was>>
      /\ behind' = IF status = "running" THEN behind ELSE Transactions!Keys
      BY DEF Transactions!JobWrites, Transactions!pageVars, Transactions!jobVars
<1>2. srv' \in [PageTxns -> Transactions!Row]
  <2>1. PICK t \in PageTxns, c \in PageCats : srv' = [srv EXCEPT ![t] = Transactions!Categorised(srv[t], c)]
        BY DEF Transactions!JobWrites
  <2>2. srv[t] \in Transactions!Row
        BY TxnPage
  <2>3. Transactions!Categorised(srv[t], c) \in Transactions!Row
        BY <2>2 DEF Transactions!Categorised, Transactions!Row
  <2> QED BY <2>1, <2>3, TxnPage
<1>3. behind' \subseteq Transactions!Keys
      BY <1>1, TxnPage
<1>4. Transactions!TypeOK'
      BY <1>1, <1>2, <1>3, TxnPage, TxnTypes
<1>5. ASSUME NEW k \in Transactions!Keys \ behind' PROVE ListFresh(k)'
  <2>1. status' = "running"
        BY <1>1, <1>5
  <2> QED BY <2>1 DEF ListFresh
<1> QED BY <1>4, <1>5 DEF TransactionsInv

LEMMA TransactionsServe ==
    ASSUME TransactionsInv, NEW r \in Requests, Transactions!Serve(r)
    PROVE  TransactionsInv'
<1> DEFINE m == req[r]
<1>1. /\ UNCHANGED <<lists, fetch, applied, hide, appliedOnce, selected, modal, running, poll, status, was>>
      /\ m # None /\ m.stage \in {"sent", "orphan"}
      BY DEF Transactions!Serve, Transactions!pageVars, Transactions!jobVars
<1>2. PICK written \in BOOLEAN, answered \in BOOLEAN :
        /\ answered => written
        /\ srv' = IF written THEN Transactions!Changed(m, srv) ELSE srv
        /\ behind' = IF written /\ Transactions!Untold(r, answered) THEN Transactions!Keys ELSE behind
        /\ req' = [req EXCEPT ![r] = IF m.stage = "orphan" THEN None
                                     ELSE Transactions!Staged(m, IF answered THEN "done" ELSE "failed")]
      BY DEF Transactions!Serve
<1>3. GoodTxn(m)
      BY <1>1, TxnPage
<1>4. srv' \in [PageTxns -> Transactions!Row]
      BY <1>2, <1>3, TxnPage, ListChanged
<1>5. PICK stage \in {"done", "failed"} :
          /\ answered <=> stage = "done"
          /\ DOMAIN req' = Requests
          /\ \A q \in Requests \ {r} : req'[q] = req[q]
          /\ req'[r] = IF m.stage = "orphan" THEN None ELSE Transactions!Staged(m, stage)
      BY <1>2, TxnPage
<1>6. LET n == Transactions!Staged(m, stage) IN
           GoodTxn(n) /\ n # None /\ n.kind = m.kind /\ n.stage = stage
      BY <1>3, TxnStaged
<1>7. \A q \in Requests : req'[q] = None \/ GoodTxn(req'[q])
      BY <1>5, <1>6, TxnPage
<1>8. Transactions!Untold(r, answered) <=> m.stage = "orphan" \/ (~answered /\ m.kind \in Transactions!LinkKinds)
      BY DEF Transactions!Untold
<1> HIDE DEF m
<1>9. behind' \subseteq Transactions!Keys
      BY <1>2, TxnPage
<1>10. Transactions!TypeOK'
      BY <1>1, <1>4, <1>5, <1>7, <1>9, TxnPage, TxnTypes
<1>11. \A q \in Requests : ToldOf(req[q]) => ToldOf(req'[q])
  <2>1. ToldOf(m) => ToldOf(req'[r])
        BY <1>1, <1>5, <1>6 DEF ToldOf
  <2> QED BY <1>5, <2>1 DEF m
<1>12. ASSUME NEW k \in Transactions!Keys \ behind' PROVE ListFresh(k)'
  <2>1. CASE ~written
    <3>1. UNCHANGED <<srv, behind>>
          BY <1>2, <2>1
    <3>2. Here(k)' <=> Here(k)
          BY <1>1 DEF Here, Transactions!Key
    <3> QED BY <1>1, <1>11, <1>12, <3>1, <3>2, ListStays
  <2>2. CASE written
    <3>1. m.stage # "orphan" /\ (answered \/ m.kind \notin Transactions!LinkKinds)
          BY <1>2, <1>8, <1>12, <2>2
    <3>2. ToldOf(req'[r])
          BY <1>5, <1>6, <3>1 DEF ToldOf
    <3> QED BY <3>2 DEF ListFresh, ToldOf
  <2> QED BY <2>1, <2>2
<1> QED BY <1>10, <1>12 DEF TransactionsInv

LEMMA TransactionsShown ==
    ASSUME TransactionsInv
    PROVE  Transactions!TypeOK /\ Transactions!QuietShowsServer
<1>1. ASSUME Transactions!Quiet, Transactions!Key \notin behind
      PROVE  Transactions!All = Transactions!Answer(Transactions!Key)
  <2> DEFINE k == Transactions!Key
  <2>1. k \in Transactions!Keys /\ Here(k)
        BY <1>1, TxnPage DEF Transactions!Quiet, Here
  <2>2. \A r \in Requests : ~ToldOf(req[r])
        BY <1>1 DEF Transactions!Quiet, ToldOf
  <2>3. fetch[k] = None /\ status = "idle"
        BY <1>1 DEF Transactions!Quiet
  <2>4. ListFresh(k)
        BY <1>1, <2>1 DEF TransactionsInv
  <2>5. Transactions!Answer(k) # None /\ None # Asked
        BY <2>1, ListAnswer, Marks DEF TransactionsInv
  <2>6. lists[k] = Transactions!Answer(k)
        BY <2>1, <2>2, <2>3, <2>4, <2>5 DEF ListFresh
  <2> QED BY <2>5, <2>6 DEF Transactions!All
<1> QED BY <1>1 DEF TransactionsInv, Transactions!QuietShowsServer

LEMMA TransactionsStep ==
    ASSUME TransactionsInv, TransactionsNext \/ UNCHANGED Transactions!vars
    PROVE  TransactionsInv'
<1>1. CASE UNCHANGED Transactions!vars
  <2>1. UNCHANGED <<srv, lists, behind, fetch, req, applied, hide, appliedOnce, selected, modal,
                    running, poll, status, was>>
        BY <1>1 DEF Transactions!vars, Transactions!pageVars, Transactions!jobVars
  <2>2. \A k : Here(k)' <=> Here(k)
        BY <2>1 DEF Here, Transactions!Key
  <2> QED BY <2>1, <2>2, TxnPage, TransactionsTurn
<1>2. ASSUME NEW k \in Transactions!Keys,
             \/ OnTransactions(Transactions!Read(k)) \/ OnTransactions(Transactions!Receive(k))
             \/ OnTransactions(Transactions!Fail(k))
      PROVE  TransactionsInv'
      BY <1>2, TransactionsRead, TransactionsReceive, TransactionsFail DEF OnTransactions
<1>3. CASE \/ OnTransactions(Transactions!Refetch) \/ OnTransactions(Transactions!Apply)
           \/ OnTransactions(Transactions!Clear) \/ OnTransactions(Transactions!ToggleHide)
           \/ OnTransactions(Transactions!Reload)
      BY <1>3, TransactionsRefetch, TransactionsApply, TransactionsClear, TransactionsToggleHide,
         TransactionsReload DEF OnTransactions
<1>4. CASE \/ \E t \in PageTxns : OnTransactions(Transactions!Select(t))
           \/ OnTransactions(Transactions!SelectAll) \/ OnTransactions(Transactions!ClearSelection)
           \/ OnTransactions(Transactions!OpenLink) \/ OnTransactions(Transactions!CloseLink)
      BY <1>4, TransactionsClick DEF OnTransactions
<1>5. ASSUME NEW r \in Requests,
             \/ OnTransactions(Transactions!MarkReviewed(r)) \/ OnTransactions(Transactions!SetCategory(r))
             \/ OnTransactions(Transactions!ReviewAll(r)) \/ OnTransactions(Transactions!BatchMarkReviewed(r))
             \/ OnTransactions(Transactions!BatchSetCategory(r))
      PROVE  TransactionsInv'
      BY <1>5, TransactionsChange DEF OnTransactions
<1>6. ASSUME NEW r \in Requests,
             \/ OnTransactions(Transactions!Link(r)) \/ OnTransactions(Transactions!Create(r))
             \/ OnTransactions(Transactions!Unlink(r)) \/ OnTransactions(Transactions!Serve(r))
             \/ OnTransactions(Transactions!Settle(r)) \/ OnTransactions(Transactions!SettleLink(r))
      PROVE  TransactionsInv'
      BY <1>6, TransactionsLink, TransactionsServe, TransactionsSettle, TransactionsSettleLink DEF OnTransactions
<1>7. CASE \/ OnTransactions(Transactions!StartJob) \/ OnTransactions(Transactions!CancelJob)
           \/ OnTransactions(Transactions!OtherStarts) \/ OnTransactions(Transactions!JobWrites)
           \/ OnTransactions(Transactions!JobEnds) \/ OnTransactions(Transactions!Poll)
           \/ OnTransactions(Transactions!ReadStatus) \/ OnTransactions(Transactions!ReceiveStatus)
      BY <1>7, TransactionsJob, TransactionsJobWrites, TransactionsReceiveStatus DEF OnTransactions
<1> QED BY <1>1, <1>2, <1>3, <1>4, <1>5, <1>6, <1>7 DEF TransactionsNext

-----------------------------------------------------------------------------
(* All pages                                                                *)

LEMMA SubscriptionsStep ==
    ASSUME SubscriptionsInv, SubscriptionsNext \/ UNCHANGED vars
    PROVE  SubscriptionsInv'
<1>1. CASE UNCHANGED vars
  <2>1. UNCHANGED <<subs, link, log, declined, tolerant, enriching, page, form, letter, modal, jumped,
                    cache, fetch, behind, req, sent, scope>>
        BY <1>1 DEF vars, server, view
  <2>2. /\ form \in Form \cup {None} /\ letter \in Subs \cup {None} /\ modal \in BOOLEAN
        /\ page.at # "detail" => form = None /\ letter = None /\ ~modal
        /\ jumped \/ ((form # None => form.of = page.id) /\ (letter # None => letter = page.id))
        BY DEF SubscriptionsInv, TypeOK, WrittenForPage
  <2> QED BY <2>1, <2>2, ClickKeeps
<1>2. ASSUME NEW k \in Keys, OnSubscriptions(Read(k)) \/ OnSubscriptions(Receive(k)) PROVE SubscriptionsInv'
      BY <1>2, SubscriptionsRead, SubscriptionsReceive DEF OnSubscriptions
<1>3. ASSUME NEW p \in Page, OnSubscriptions(Go(p)) PROVE SubscriptionsInv'
      BY <1>3, SubscriptionsGo DEF OnSubscriptions
<1>4. CASE \/ OnSubscriptions(StartEdit) \/ OnSubscriptions(Edit) \/ OnSubscriptions(CancelEdit)
           \/ OnSubscriptions(CloseLetter)
      BY <1>4, SubscriptionsForm DEF OnSubscriptions
<1>5. ASSUME NEW r \in Requests,
             \/ OnSubscriptions(Approve(r)) \/ OnSubscriptions(Decline(r)) \/ OnSubscriptions(Undecline(r))
             \/ OnSubscriptions(Discover(r)) \/ OnSubscriptions(DropRow(r)) \/ OnSubscriptions(EnrichRow(r))
      PROVE  SubscriptionsInv'
      BY <1>5, SubscriptionsListCall DEF OnSubscriptions
<1>6. ASSUME NEW r \in Requests,
             \/ OnSubscriptions(Save(r)) \/ OnSubscriptions(Enrich(r))
             \/ OnSubscriptions(OpenLetter(r)) \/ OnSubscriptions(SendLetter(r)) \/ OnSubscriptions(Link(r))
             \/ OnSubscriptions(Unlink(r)) \/ OnSubscriptions(Delete(r))
      PROVE  SubscriptionsInv'
      BY <1>6, SubscriptionsPageCall DEF OnSubscriptions
<1>7. ASSUME NEW r \in Requests,
             OnSubscriptions(CancelRow(r)) \/ OnSubscriptions(Serve(r)) \/ OnSubscriptions(Settle(r))
      PROVE  SubscriptionsInv'
      BY <1>7, SubscriptionsCancelRow, SubscriptionsServe, SubscriptionsSettle DEF OnSubscriptions
<1>8. ASSUME NEW s \in Subs, OnSubscriptions(BackgroundEnrich(s)) PROVE SubscriptionsInv'
      BY <1>8, SubscriptionsBackgroundEnrich DEF OnSubscriptions
<1> QED BY <1>1, <1>2, <1>3, <1>4, <1>5, <1>6, <1>7, <1>8 DEF SubscriptionsNext

LEMMA ReconcilesStep ==
    ASSUME ReconcilesInv, ReconcileNext \/ UNCHANGED Reconciles!vars
    PROVE  ReconcilesInv'
<1>1. CASE UNCHANGED Reconciles!vars
  <2>1. UNCHANGED <<joined, tab, window, searching, deselected, manual, cache, fetch, behind, req, scope>>
        BY <1>1 DEF Reconciles!vars, Reconciles!view
  <2>2. Reconciles!TypeOK'
        BY <2>1 DEF ReconcilesInv, Reconciles!TypeOK, Reconciles!Fits
  <2>3. NoBatch' => NoBatch
        BY <2>1 DEF NoBatch
  <2>4. ASSUME NEW k \in Reconciles!Keys \ behind, PairsFresh(k) PROVE PairsFresh(k)'
        BY <2>1, <2>4, SameAnswers DEF PairsFresh
  <2> QED BY <2>1, <2>2, <2>3, <2>4 DEF ReconcilesInv
<1>2. ASSUME NEW k \in Reconciles!Keys, OnReconcile(Reconciles!Read(k)) \/ OnReconcile(Reconciles!Receive(k))
      PROVE  ReconcilesInv'
      BY <1>2, ReconcilesRead, ReconcilesReceive DEF OnReconcile
<1>3. CASE \/ OnReconcile(Reconciles!OpenTab) \/ OnReconcile(Reconciles!ChangeWindow) \/ OnReconcile(Reconciles!Search)
           \/ OnReconcile(Reconciles!Toggle) \/ OnReconcile(Reconciles!ToggleAll) \/ OnReconcile(Reconciles!Pick)
      BY <1>3, ReconcilesOpenTab, ReconcilesChangeWindow, ReconcilesSearch, ReconcilesToggle, ReconcilesPick DEF OnReconcile
<1>4. ASSUME NEW r \in Requests,
             \/ OnReconcile(Reconciles!LinkSuggested(r)) \/ OnReconcile(Reconciles!LinkManual(r))
             \/ OnReconcile(Reconciles!Unjoin(r)) \/ OnReconcile(Reconciles!Serve(r))
             \/ OnReconcile(Reconciles!Linked(r)) \/ OnReconcile(Reconciles!Refused(r))
             \/ OnReconcile(Reconciles!Forgotten(r))
      PROVE  ReconcilesInv'
      BY <1>4, ReconcilesLink, ReconcilesServe, ReconcilesLinked, ReconcilesRefused, ReconcilesForgotten DEF OnReconcile
<1> QED BY <1>1, <1>2, <1>3, <1>4 DEF ReconcileNext

LEMMA StatementsStep ==
    ASSUME StatementsInv, StatementsNext \/ UNCHANGED Statements!vars
    PROVE  StatementsInv'
<1>1. CASE UNCHANGED Statements!vars
  <2>1. UNCHANGED <<stored, account, deleting, preview, loading, results, cache, fetch, behind, req, scope>>
        BY <1>1 DEF Statements!vars, Statements!server, Statements!view
  <2>2. Statements!TypeOK'
        BY <2>1 DEF StatementsInv, Statements!TypeOK
  <2>3. Statements!Statements' = Statements!Statements
        BY <2>1 DEF Statements!Statements
  <2>4. StatementsFresh'
        BY <2>1, <2>3 DEF StatementsInv, StatementsFresh
  <2> QED BY <2>2, <2>4 DEF StatementsInv
<1>2. CASE OnStatements(Statements!Read) \/ OnStatements(Statements!Receive) \/ OnStatements(Statements!ClosePreview)
      BY <1>2, StatementsRead, StatementsReceive, StatementsClosePreview DEF OnStatements
<1>3. ASSUME NEW r \in Requests,
             \/ OnStatements(Statements!Import(r)) \/ OnStatements(Statements!Delete(r))
             \/ OnStatements(Statements!Preview(r)) \/ OnStatements(Statements!Assign(r))
      PROVE  StatementsInv'
      BY <1>3, StatementsImport, StatementsDelete, StatementsPreview, StatementsAssign DEF OnStatements
<1>4. ASSUME NEW r \in Requests,
             \/ OnStatements(Statements!Serve(r)) \/ OnStatements(Statements!Imported(r))
             \/ OnStatements(Statements!Deleted(r)) \/ OnStatements(Statements!Assigned(r))
             \/ OnStatements(Statements!Previewed(r))
      PROVE  StatementsInv'
      BY <1>4, StatementsServe, StatementsImported, StatementsDeleted, StatementsAssigned, StatementsPreviewed DEF OnStatements
<1> QED BY <1>1, <1>2, <1>3, <1>4 DEF StatementsNext

-----------------------------------------------------------------------------
\* One page at a time: what is said of each of them while it is the one.
PagesInv ==
    /\ part = "subscriptions" => SubscriptionsInv
    /\ part = "transactions"  => TransactionsInv
    /\ part = "reconcile"     => ReconcilesInv
    /\ part = "statements"    => StatementsInv
    /\ part = "invoices"      => InvoicesInv

LEMMA PagesStart == InitAll => PagesInv
BY SubscriptionsStart, TransactionsStart, ReconcilesStart, StatementsStart, InvoicesStart DEF InitAll, PagesInv

LEMMA PagesStep == PagesInv /\ [NextAll]_allVars => PagesInv'
<1> SUFFICES ASSUME PagesInv, [NextAll]_allVars PROVE PagesInv'
    OBVIOUS
<1>1. part' = part
      BY DEF NextAll, SubscriptionsNext, TransactionsNext, ReconcileNext, StatementsNext, InvoicesNext,
             OnSubscriptions, OnTransactions, OnReconcile, OnStatements, OnInvoices, allVars
<1>2. CASE part = "subscriptions"
  <2>1. SubscriptionsNext \/ UNCHANGED vars
    <3>1. CASE UNCHANGED allVars
          BY <3>1 DEF allVars
    <3>2. CASE NextAll
          BY <1>2, <3>2 DEF NextAll, TransactionsNext, ReconcileNext, StatementsNext, InvoicesNext,
             OnTransactions, OnReconcile, OnStatements, OnInvoices
    <3> QED BY <3>1, <3>2
  <2>2. SubscriptionsInv
        BY <1>2 DEF PagesInv
  <2> QED BY <1>1, <1>2, <2>1, <2>2, SubscriptionsStep DEF PagesInv
<1>3. CASE part = "transactions"
  <2>1. TransactionsNext \/ UNCHANGED Transactions!vars
    <3>1. CASE UNCHANGED allVars
          BY <3>1 DEF allVars, vars, view, transactionOnly, Transactions!vars, Transactions!pageVars, Transactions!jobVars
    <3>2. CASE NextAll
          BY <1>3, <3>2 DEF NextAll, SubscriptionsNext, ReconcileNext, StatementsNext, InvoicesNext,
             OnSubscriptions, OnReconcile, OnStatements, OnInvoices
    <3> QED BY <3>1, <3>2
  <2>2. TransactionsInv
        BY <1>3 DEF PagesInv
  <2> QED BY <1>1, <1>3, <2>1, <2>2, TransactionsStep DEF PagesInv
<1>4. CASE part = "reconcile"
  <2>1. ReconcileNext \/ UNCHANGED Reconciles!vars
    <3>1. CASE UNCHANGED allVars
          BY <3>1 DEF allVars, vars, reconcileOnly, Reconciles!vars, Reconciles!view
    <3>2. CASE NextAll
          BY <1>4, <3>2 DEF NextAll, SubscriptionsNext, TransactionsNext, StatementsNext, InvoicesNext,
             OnSubscriptions, OnTransactions, OnStatements, OnInvoices
    <3> QED BY <3>1, <3>2
  <2>2. ReconcilesInv
        BY <1>4 DEF PagesInv
  <2> QED BY <1>1, <1>4, <2>1, <2>2, ReconcilesStep DEF PagesInv
<1>5. CASE part = "statements"
  <2>1. StatementsNext \/ UNCHANGED Statements!vars
    <3>1. CASE UNCHANGED allVars
          BY <3>1 DEF allVars, vars, statementOnly, Statements!vars, Statements!server, Statements!view
    <3>2. CASE NextAll
          BY <1>5, <3>2 DEF NextAll, SubscriptionsNext, TransactionsNext, ReconcileNext, InvoicesNext,
             OnSubscriptions, OnTransactions, OnReconcile, OnInvoices
    <3> QED BY <3>1, <3>2
  <2>2. StatementsInv
        BY <1>5 DEF PagesInv
  <2> QED BY <1>1, <1>5, <2>1, <2>2, StatementsStep DEF PagesInv
<1>6. CASE part = "invoices"
  <2>1. InvoicesNext \/ UNCHANGED Bills!vars
    <3>1. CASE UNCHANGED allVars
          BY <3>1 DEF allVars, vars, transactionOnly, reconcileOnly, statementOnly, invoiceOnly, Bills!vars, Bills!server, Bills!modals, Bills!cached
    <3>2. CASE NextAll
          BY <1>6, <3>2 DEF NextAll, SubscriptionsNext, TransactionsNext, ReconcileNext, StatementsNext,
             OnSubscriptions, OnTransactions, OnReconcile, OnStatements
    <3> QED BY <3>1, <3>2
  <2>2. InvoicesInv
        BY <1>6 DEF PagesInv
  <2> QED BY <1>1, <1>6, <2>1, <2>2, InvoicesStep DEF PagesInv
<1>7. CASE part \notin {"subscriptions", "transactions", "reconcile", "statements", "invoices"}
      BY <1>1, <1>7 DEF PagesInv
<1> QED BY <1>2, <1>3, <1>4, <1>5, <1>6, <1>7

LEMMA PagesShown == PagesInv => PagesTypeOK /\ PagesShowServer /\ FormsSentAsWritten
<1> SUFFICES ASSUME PagesInv PROVE PagesTypeOK /\ PagesShowServer /\ FormsSentAsWritten
    OBVIOUS
<1>1. PagesTypeOK
      BY SubscriptionsShown, TransactionsShown, ReconcilesShown, StatementsShown, InvoicesShown DEF PagesInv, PagesTypeOK
<1>2. PagesShowServer
      BY SubscriptionsShown, TransactionsShown, ReconcilesShown, StatementsShown, InvoicesShown DEF PagesInv, PagesShowServer
<1>3. FormsSentAsWritten
      BY SubscriptionsShown DEF PagesInv, FormsSentAsWritten
<1> QED BY <1>1, <1>2, <1>3

\* The state of each page is of the types its code declares (the useState and
\* useQuery declarations at the head of the five pages).
THEOREM PagesTyped == SpecAll => []PagesTypeOK
BY PagesStart, PagesStep, PagesShown, PTL DEF SpecAll

\* Once nothing is under way a page shows what the server has, whichever calls,
\* queries, filters, tabs and modals crossed, with the exceptions that each page's
\* QuietShowsServer names: above all what the callbacks of the subscriptions leave
\* out (Untold) and lost answers (TransactionsPage.tsx:173-226,
\* SubscriptionDetailPage.tsx:99-148, ReconcilePage.tsx:167-199,
\* BankStatementsPage.tsx:100-120, InvoicesPage.tsx:193-270).
THEOREM PagesCatchUp == SpecAll => []PagesShowServer
BY PagesStart, PagesStep, PagesShown, PTL DEF SpecAll

\* Forms and letters reach what they were written for, unless a late answer has
\* turned the page (SubscriptionDetailPage.tsx:94-125).
THEOREM FormsReachTheirSubscription == SpecAll => []FormsSentAsWritten
BY PagesStart, PagesStep, PagesShown, PTL DEF SpecAll

================================================================================
