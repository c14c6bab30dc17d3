------------------------ MODULE BankConnectionProofs ------------------------
(* Proofs about BankConnection, for any connections, authorisations and days. *)
EXTENDS BankConnection, TLAPS

\* What the functions of the state are defined on.
Shape ==
    /\ status \in [Conns -> {"none", "initialized", "linked", "deleted"}]
    /\ DOMAIN requisition = Conns
    /\ accounts \in [Conns -> SUBSET Flows]
    /\ empty \subseteq Flows
    /\ DOMAIN pc = Flows
    /\ conn \in [Flows -> Conns]

\* No flow is under way for a connection that was not created yet.
NoneIsUntouched ==
    \A f \in Flows : status[conn[f]] = "none" => pc[f] = "unused"

\* The bank has been asked for the accounts of a connection, and what it named
\* is there.
Stocked(c) == accounts[c] # {} \/ \E f \in empty : conn[f] = c

\* What FinishConnection has already written when it gets to a step.
WrittenSoFar ==
    \A f \in Flows : Exists(conn[f]) =>
        /\ pc[f] \in {"reset", "accounts", "status"} => requisition[conn[f]] \in Flows
        /\ pc[f] = "status" => Stocked(conn[f])

\* A requisition that is a session stays one: the inductive invariant.
IInv == Shape /\ NoneIsUntouched /\ WrittenSoFar /\ LinkedIsComplete

LEMMA InitIInv == Init => IInv
BY DEF Init, IInv, Shape, NoneIsUntouched, WrittenSoFar, LinkedIsComplete, Exists, Stocked

\* The steps that leave connections, accounts and flows alone.
LEMMA Elsewhere ==
    IInv /\ UNCHANGED <<status, requisition, accounts, empty, pc, conn>> => IInv'
BY DEF IInv, Shape, NoneIsUntouched, WrittenSoFar, LinkedIsComplete, Exists, Stocked

\* The steps of a flow that only move it on, to where nothing more is claimed.
LEMMA MovesOn ==
    ASSUME NEW f \in Flows, NEW l, IInv, Goto(f, l),
           UNCHANGED <<status, requisition, accounts, empty, conn>>,
           status[conn[f]] # "none",
           \/ l \notin {"reset", "accounts", "status"}
           \/ l = "accounts" /\ pc[f] = "reset"
    PROVE  IInv'
<1> USE DEF IInv
<1>1. pc' = [pc EXCEPT ![f] = l] /\ f \in DOMAIN pc
      BY DEF Goto, Shape
<1>2. Shape'
      BY <1>1 DEF Shape
<1>3. NoneIsUntouched'
      BY <1>1 DEF NoneIsUntouched, Shape
<1>4. WrittenSoFar'
      BY <1>1 DEF WrittenSoFar, Stocked, Exists, Shape
<1>5. LinkedIsComplete'
      BY DEF LinkedIsComplete, Exists
<1> QED BY <1>2, <1>3, <1>4, <1>5

LEMMA CreateKeeps ==
    ASSUME NEW f \in Flows, IInv, CreateConnection(f) PROVE IInv'
<1> USE DEF IInv
<1>1. /\ status' = [status EXCEPT ![conn[f]] = "initialized"]
      /\ pc' = [pc EXCEPT ![f] = "authorising"]
      /\ UNCHANGED <<requisition, accounts, empty, conn>>
      /\ status[conn[f]] = "none"
      BY DEF CreateConnection, Goto
<1>2. Shape'
      BY <1>1 DEF Shape
<1>3. NoneIsUntouched'
      BY <1>1 DEF NoneIsUntouched, Shape
<1>4. WrittenSoFar'
  <2> SUFFICES ASSUME NEW g \in Flows, Exists(conn[g])',
                      pc'[g] \in {"reset", "accounts", "status"}
               PROVE  /\ requisition[conn[g]] \in Flows
                      /\ pc'[g] = "status" => Stocked(conn[g])'
      BY <1>1 DEF WrittenSoFar
  <2>1. g # f /\ pc'[g] = pc[g]
        BY <1>1 DEF Shape
  <2>2. conn[g] # conn[f]
        BY <1>1, <2>1 DEF NoneIsUntouched
  <2> QED BY <1>1, <2>1, <2>2 DEF WrittenSoFar, Stocked, Exists, Shape
<1>5. LinkedIsComplete'
      BY <1>1 DEF LinkedIsComplete, Exists, Shape
<1> QED BY <1>2, <1>3, <1>4, <1>5

LEMMA RequisitionKeeps ==
    ASSUME NEW f \in Flows, IInv, UpdateRequisitionID(f) PROVE IInv'
<1> USE DEF IInv
<1>1. /\ requisition' = IF Exists(conn[f]) THEN [requisition EXCEPT ![conn[f]] = f]
                        ELSE requisition
      /\ pc' = [pc EXCEPT ![f] = "reset"]
      /\ UNCHANGED <<status, accounts, empty, conn>>
      /\ pc[f] = "session"
      BY DEF UpdateRequisitionID, Goto
<1>2. Shape'
      BY <1>1 DEF Shape
<1>3. NoneIsUntouched'
      BY <1>1 DEF NoneIsUntouched, Shape
<1>4. \A c \in Conns : requisition[c] \in Flows => requisition'[c] \in Flows
      BY <1>1 DEF Shape
<1>5. WrittenSoFar'
      BY <1>1, <1>4 DEF WrittenSoFar, Stocked, Exists, Shape
<1>6. LinkedIsComplete'
      BY <1>1, <1>4 DEF LinkedIsComplete, Exists
<1> QED BY <1>2, <1>3, <1>5, <1>6

LEMMA UpsertKeeps ==
    ASSUME NEW f \in Flows, IInv, UpsertAccounts(f) PROVE IInv'
<1> USE DEF IInv
<1>1. /\ \/ /\ accounts' = IF Exists(conn[f])
                           THEN [accounts EXCEPT ![conn[f]] = @ \cup {f}] ELSE accounts
            /\ empty' = empty
         \/ empty' = empty \cup {f} /\ accounts' = accounts
      /\ pc' = [pc EXCEPT ![f] = "status"]
      /\ UNCHANGED <<status, requisition, conn>>
      /\ pc[f] = "accounts" /\ conn[f] \in Conns
      BY DEF UpsertAccounts, Goto, Shape
<1>2. Shape'
      BY <1>1 DEF Shape
<1>3. NoneIsUntouched'
      BY <1>1 DEF NoneIsUntouched, Shape
<1>4. \A c \in Conns : Stocked(c) => Stocked(c)'
      BY <1>1 DEF Shape, Stocked
<1>5. Exists(conn[f]) => Stocked(conn[f])'
      BY <1>1 DEF Shape, Stocked
<1>6. WrittenSoFar'
  <2>1. \A g \in Flows : conn[g] \in Conns /\ (g # f => pc'[g] = pc[g])
        BY <1>1 DEF Shape
  <2>2. \A g \in Flows : Exists(conn[g])' = Exists(conn[g])
        BY <1>1 DEF Exists
  <2>3. requisition' = requisition /\ conn' = conn
        BY <1>1
  <2> QED BY <1>1, <1>4, <1>5, <2>1, <2>2, <2>3 DEF WrittenSoFar, Shape
<1>7. LinkedIsComplete'
  <2>1. ASSUME NEW c \in Conns, accounts'[c] # {} PROVE Exists(c)'
        BY <1>1, <2>1 DEF LinkedIsComplete, Exists, Shape
  <2>2. ASSUME NEW c \in Conns, status'[c] = "linked"
        PROVE  requisition'[c] \in Flows /\ Stocked(c)'
        BY <1>1, <1>4, <2>2 DEF LinkedIsComplete, Stocked
  <2> QED BY <2>1, <2>2 DEF LinkedIsComplete, Stocked
<1> QED BY <1>2, <1>3, <1>6, <1>7

LEMMA LinkKeeps ==
    ASSUME NEW f \in Flows, IInv, LinkConnection(f) PROVE IInv'
<1> USE DEF IInv
<1>1. /\ status' = IF Exists(conn[f]) THEN [status EXCEPT ![conn[f]] = "linked"]
                   ELSE status
      /\ pc' = [pc EXCEPT ![f] = "done"]
      /\ UNCHANGED <<requisition, accounts, empty, conn>>
      /\ pc[f] = "status"
      BY DEF LinkConnection, Goto
<1>2. Shape'
      BY <1>1 DEF Shape
<1>3. \A c \in Conns : /\ (status'[c] = "none") = (status[c] = "none")
                       /\ Exists(c)' = Exists(c)
      BY <1>1 DEF Exists, Shape
<1>4. NoneIsUntouched'
      BY <1>1, <1>3 DEF NoneIsUntouched, Shape
<1>5. WrittenSoFar'
      BY <1>1, <1>3 DEF WrittenSoFar, Stocked, Shape
<1>6. LinkedIsComplete'
      BY <1>1, <1>3 DEF LinkedIsComplete, WrittenSoFar, Shape, Stocked
<1> QED BY <1>2, <1>4, <1>5, <1>6

LEMMA DeleteKeeps ==
    ASSUME NEW c \in Conns, IInv, DeleteConnection(c) PROVE IInv'
<1> USE DEF IInv
<1>1. /\ status' = [status EXCEPT ![c] = "deleted"]
      /\ accounts' = [accounts EXCEPT ![c] = {}]
      /\ UNCHANGED <<requisition, empty, pc, conn>>
      BY DEF DeleteConnection
<1>2. Shape'
      BY <1>1 DEF Shape
<1>3. NoneIsUntouched'
      BY <1>1 DEF NoneIsUntouched, Shape
<1>4. WrittenSoFar'
      BY <1>1 DEF WrittenSoFar, Stocked, Exists, Shape
<1>5. LinkedIsComplete'
      BY <1>1 DEF LinkedIsComplete, Exists, Shape
<1> QED BY <1>2, <1>3, <1>4, <1>5

LEMMA StopKeeps == IInv /\ Stop => IInv'
<1> SUFFICES ASSUME IInv, Stop PROVE IInv'
    OBVIOUS
<1> USE DEF IInv
<1>1. /\ UNCHANGED <<status, requisition, accounts, empty, conn>>
      /\ DOMAIN pc' = Flows
      /\ \A f \in Flows : \/ pc'[f] = "failed" /\ pc[f] # "unused"
                          \/ pc'[f] = pc[f]
      BY DEF Stop, table
<1> QED BY <1>1 DEF Shape, NoneIsUntouched, WrittenSoFar, LinkedIsComplete, Exists, Stocked

LEMMA NextIInv == IInv /\ [Next]_vars => IInv'
<1> SUFFICES ASSUME IInv, [Next]_vars PROVE IInv'
    OBVIOUS
<1> USE DEF table, notifier
<1>1. ASSUME NEW f \in Flows, CreateConnection(f) PROVE IInv'
      BY <1>1, CreateKeeps
<1>2. ASSUME NEW f \in Flows, RefreshConnection(f) PROVE IInv'
      BY <1>2, MovesOn DEF RefreshConnection, Exists
<1>3. ASSUME NEW f \in Flows, FinishStep(f) PROVE IInv'
  <2>1. CASE pc[f] # "unused"
    <3>1. status[conn[f]] # "none"
          BY <2>1 DEF IInv, NoneIsUntouched
    <3>2. CASE Lookup(f)
          BY <3>1, <3>2, MovesOn DEF Lookup
    <3>3. CASE Exchange(f)
          BY <3>1, <3>3, MovesOn DEF Exchange
    <3>4. CASE UpdateRequisitionID(f)
          BY <3>4, RequisitionKeeps
    <3>5. CASE ResetNotified(f)
          BY <3>1, <3>5, MovesOn DEF ResetNotified
    <3>6. CASE UpsertAccounts(f)
          BY <3>6, UpsertKeeps
    <3>7. CASE LinkConnection(f)
          BY <3>7, LinkKeeps
    <3>8. CASE FinishFails(f)
          BY <3>1, <3>8, MovesOn DEF FinishFails
    <3> QED BY <1>3, <3>2, <3>3, <3>4, <3>5, <3>6, <3>7, <3>8 DEF FinishStep
  <2>2. CASE pc[f] = "unused"
        BY <1>3, <2>2 DEF FinishStep, Lookup, Exchange, UpdateRequisitionID,
           ResetNotified, UpsertAccounts, LinkConnection, FinishFails
  <2> QED BY <2>1, <2>2
<1>4. ASSUME NEW c \in Conns, DeleteConnection(c) PROVE IInv'
      BY <1>4, DeleteKeeps
<1>5. ASSUME NEW c \in Conns, SendWarning(c) PROVE IInv'
      BY <1>5, Elsewhere DEF SendWarning
<1>6. CASE ListExpiring
      BY <1>6, Elsewhere DEF ListExpiring
<1>7. CASE MarkNotified
      BY <1>7, Elsewhere DEF MarkNotified
<1>8. CASE Tick
      BY <1>8, Elsewhere DEF Tick
<1>9. CASE Stop
      BY <1>9, StopKeeps
<1>10. CASE Start
      BY <1>10, Elsewhere DEF Start
<1>11. CASE UNCHANGED vars
      BY <1>11, Elsewhere DEF vars
<1> QED BY <1>1, <1>2, <1>3, <1>4, <1>5, <1>6, <1>7, <1>8, <1>9, <1>10, <1>11
        DEF Next

\* However many authorisations of a connection run side by side, fail half-way
\* or outlive it: a linked connection has a session, and its accounts unless the
\* bank named none; and accounts have a connection.
THEOREM LinkedComplete == Spec => []LinkedIsComplete
<1>1. Init => IInv
      BY InitIInv
<1>2. IInv /\ [Next]_vars => IInv'
      BY NextIInv
<1>3. IInv => LinkedIsComplete
      BY DEF IInv
<1> QED BY <1>1, <1>2, <1>3, PTL DEF Spec

-----------------------------------------------------------------------------
\* The types, on top of the invariant, which knows the domains.
LEMMA InitTypes == Init => TypeOK
<1> SUFFICES ASSUME Init PROVE TypeOK
    OBVIOUS
<1>1. day \in 0..Horizon
      BY TimeAssumption DEF Init
<1>2. \A c \in Conns : requisition[c] \in {c} \cup Flows
      BY DEF Init
<1>3. /\ status \in [Conns -> {"none", "initialized", "linked", "deleted"}]
      /\ expires \in [Conns -> Nat]
      /\ notified \in [Conns -> BOOLEAN]
      /\ accounts \in [Conns -> SUBSET Flows]
      /\ mails \in [Conns -> Nat] /\ again \in [Conns -> Nat]
      BY DEF Init
<1>4. pc \in [Flows -> {"unused", "authorising", "exchange", "session", "reset",
                        "accounts", "status", "done", "failed"}]
      BY DEF Init
<1> QED BY <1>1, <1>2, <1>3, <1>4 DEF Init, TypeOK

LEMMA BumpedType ==
    ASSUME again \in [Conns -> Nat], NEW c \in Conns
    PROVE  Bumped(c) \in [Conns -> Nat]
BY DEF Bumped

LEMMA NextTypes == IInv /\ TypeOK /\ [Next]_vars => TypeOK'
<1> SUFFICES ASSUME IInv, TypeOK, [Next]_vars PROVE TypeOK'
    OBVIOUS
<1> USE DEF table, notifier
<1>1. DOMAIN requisition = Conns
      BY DEF IInv, Shape
<1>2. ASSUME NEW f \in Flows, CreateConnection(f) PROVE TypeOK'
      BY <1>2, TimeAssumption DEF CreateConnection, Goto, TypeOK
<1>3. ASSUME NEW f \in Flows, RefreshConnection(f) PROVE TypeOK'
      BY <1>3 DEF RefreshConnection, Goto, TypeOK
<1>4. ASSUME NEW f \in Flows, Lookup(f) PROVE TypeOK'
      BY <1>4 DEF Lookup, Goto, TypeOK
<1>5. ASSUME NEW f \in Flows, Exchange(f) PROVE TypeOK'
      BY <1>5 DEF Exchange, Goto, TypeOK
<1>6. ASSUME NEW f \in Flows, UpdateRequisitionID(f) PROVE TypeOK'
      BY <1>1, <1>6 DEF UpdateRequisitionID, Goto, TypeOK
<1>7. ASSUME NEW f \in Flows, ResetNotified(f) PROVE TypeOK'
  <2>1. conn[f] \in Conns /\ again' \in [Conns -> Nat] /\ notified' \in [Conns -> BOOLEAN]
    <3>1. conn[f] \in Conns
          BY DEF TypeOK
    <3>2. again' = Bumped(conn[f]) \/ again' = again
          BY <1>7 DEF ResetNotified
    <3>3. notified' = [notified EXCEPT ![conn[f]] = FALSE] \/ notified' = notified
          BY <1>7 DEF ResetNotified
    <3>4. again' \in [Conns -> Nat]
          BY <3>1, <3>2, BumpedType DEF TypeOK
    <3> QED BY <3>1, <3>3, <3>4 DEF TypeOK
  <2> QED BY <1>7, <2>1 DEF ResetNotified, Goto, TypeOK
<1>8. ASSUME NEW f \in Flows, UpsertAccounts(f) PROVE TypeOK'
      BY <1>8 DEF UpsertAccounts, Goto, TypeOK
<1>9. ASSUME NEW f \in Flows, LinkConnection(f) PROVE TypeOK'
      BY <1>9 DEF LinkConnection, Goto, TypeOK
<1>10. ASSUME NEW f \in Flows, FinishFails(f) PROVE TypeOK'
      BY <1>10 DEF FinishFails, Goto, TypeOK
<1>11. ASSUME NEW c \in Conns, DeleteConnection(c) PROVE TypeOK'
      BY <1>11 DEF DeleteConnection, TypeOK
<1>12. ASSUME NEW c \in Conns, SendWarning(c) PROVE TypeOK'
      BY <1>12 DEF SendWarning, TypeOK
<1>13. CASE ListExpiring
      BY <1>13 DEF ListExpiring, TypeOK
<1>14. CASE MarkNotified
  <2>1. sent \in Conns
        BY <1>14 DEF MarkNotified, TypeOK
  <2>2. again' \in [Conns -> Nat] /\ notified' \in [Conns -> BOOLEAN]
        BY <1>14, <2>1, BumpedType DEF MarkNotified, TypeOK
  <2> QED BY <1>14, <2>2 DEF MarkNotified, TypeOK
<1>15. CASE Tick
  <2>1. day' \in 0..Horizon
        BY <1>15, TimeAssumption DEF Tick, TypeOK
  <2>2. excused' \subseteq Conns /\ checked' \in BOOLEAN
        BY <1>15 DEF Tick, TypeOK
  <2> QED BY <1>15, <2>1, <2>2 DEF Tick, TypeOK
<1>16. CASE Stop
  <2>1. again' \in [Conns -> Nat]
        BY <1>16, BumpedType DEF Stop, TypeOK
  <2> QED BY <1>16, <2>1 DEF Stop, TypeOK
<1>17. CASE Start
      BY <1>17 DEF Start, TypeOK
<1>18. CASE UNCHANGED vars
      BY <1>18 DEF vars, TypeOK
<1> QED BY <1>2, <1>3, <1>4, <1>5, <1>6, <1>7, <1>8, <1>9, <1>10, <1>11, <1>12,
        <1>13, <1>14, <1>15, <1>16, <1>17, <1>18 DEF Next, FinishStep

\* Every value keeps its type; a process that is down has no round of the
\* notifier under way.
THEOREM TypeCorrect == Spec => []TypeOK
<1>1. Init => IInv /\ TypeOK
      BY InitIInv, InitTypes
<1>2. IInv /\ TypeOK /\ [Next]_vars => IInv' /\ TypeOK'
      BY NextIInv, NextTypes
<1> QED BY <1>1, <1>2, PTL DEF Spec

-----------------------------------------------------------------------------
\* One mail is covered by the mark, or by the mark that is about to be set; a
\* connection that is listed has neither.
OncePart(c) ==
    /\ mails[c] <= MaxMails
    /\ ~notified[c] /\ sent # c => mails[c] <= again[c]
    /\ mails[c] <= 1 + again[c]
    /\ c \in todo => ~notified[c] /\ sent # c

\* A mark stands for a mail; on the warning day the notifier has dealt with
\* the connection as soon as it has looked.
InTimePart(c) ==
    /\ notified[c] \/ sent = c => mails[c] > 0 \/ c \in excused
    /\ Exists(c) /\ day + WarningDays >= expires[c] /\ c \notin excused =>
           \/ day + WarningDays = expires[c] /\ ~checked
           \/ mails[c] > 0 \/ c \in todo

WInv == \A c \in Conns : OncePart(c) /\ InTimePart(c)

LEMMA InitWInv == Init => WInv
<1> SUFFICES ASSUME Init, NEW c \in Conns PROVE OncePart(c) /\ InTimePart(c)
    BY DEF WInv
<1>1. mails[c] = 0 /\ again[c] = 0 /\ ~notified[c] /\ sent # c /\ todo = {} /\ ~Exists(c)
      BY IdsAssumption DEF Init, Exists
<1> QED BY <1>1, TimeAssumption DEF OncePart, InTimePart

\* The types the arithmetic needs.
LEMMA Numbers ==
    ASSUME TypeOK, NEW c \in Conns
    PROVE  /\ mails[c] \in Nat /\ again[c] \in Nat /\ expires[c] \in Nat
           /\ day \in Nat /\ WarningDays \in Nat /\ Validity \in Nat /\ MaxMails \in Nat
           /\ WarningDays < Validity
<1>1. day \in Nat
      BY TimeAssumption DEF TypeOK
<1> QED BY <1>1, TimeAssumption DEF TypeOK

\* What a counted reason to mail again is for.
LEMMA BumpedCovers ==
    ASSUME TypeOK, NEW c \in Conns, NEW d \in Conns, OncePart(d)
    PROVE  /\ again[d] <= Bumped(c)[d]
           /\ d = c => mails[d] <= Bumped(c)[d]
<1>1. /\ d # c => Bumped(c)[d] = again[d]
      /\ d = c => Bumped(c)[d] = IF again[d] < MaxMails THEN again[d] + 1 ELSE again[d]
      BY DEF Bumped, TypeOK
<1> QED BY <1>1, Numbers DEF OncePart

\* The steps that leave the clock and the notifier alone and create nothing.
LEMMA Unnoticed ==
    ASSUME WInv, UNCHANGED <<day, expires, notified, notifier>>,
           \A c \in Conns : Exists(c)' => Exists(c)
    PROVE  WInv'
BY DEF WInv, OncePart, InTimePart, notifier

LEMMA CreateWarns ==
    ASSUME TypeOK, WInv, NEW f \in Flows, CreateConnection(f) PROVE WInv'
<1>1. /\ expires' = [expires EXCEPT ![conn[f]] = day + Validity]
      /\ status' = [status EXCEPT ![conn[f]] = "initialized"]
      /\ UNCHANGED <<day, notified, notifier>>
      BY DEF CreateConnection
<1> SUFFICES ASSUME NEW c \in Conns PROVE OncePart(c)' /\ InTimePart(c)'
    BY DEF WInv
<1>2. OncePart(c)'
      BY <1>1 DEF WInv, OncePart, notifier
<1>3. CASE c = conn[f]
  <2>1. expires'[c] = day + Validity
        BY <1>1, <1>3 DEF TypeOK
  <2>2. ~(day' + WarningDays' >= expires'[c])
        BY <1>1, <2>1, Numbers
  <2> QED BY <1>1, <1>2, <2>2 DEF WInv, InTimePart, notifier
<1>4. CASE c # conn[f]
      BY <1>1, <1>2, <1>4 DEF WInv, InTimePart, notifier, Exists, TypeOK
<1> QED BY <1>3, <1>4

LEMMA ResetWarns ==
    ASSUME TypeOK, WInv, NEW f \in Flows, ResetNotified(f) PROVE WInv'
<1> SUFFICES ASSUME NEW c \in Conns PROVE OncePart(c)' /\ InTimePart(c)'
    BY DEF WInv
<1>1. UNCHANGED <<day, status, expires, checked, todo, sent, mails, excused>>
      BY DEF ResetNotified
<1>2. conn[f] \in Conns /\ OncePart(c) /\ InTimePart(c)
      BY DEF WInv, TypeOK
<1>3. \/ UNCHANGED <<notified, again>>
      \/ /\ notified' = [notified EXCEPT ![conn[f]] = FALSE]
         /\ again' = IF notified[conn[f]] THEN Bumped(conn[f]) ELSE again
      BY DEF ResetNotified
<1>4. notified'[c] => notified[c]
      BY <1>2, <1>3 DEF TypeOK
<1>5. again[c] <= again'[c]
      BY <1>2, <1>3, BumpedCovers, Numbers
<1>6. ~notified'[c] => ~notified[c] \/ mails[c] <= again'[c]
      BY <1>2, <1>3, BumpedCovers DEF TypeOK
<1>7. again'[c] \in Nat
      BY <1>2, <1>3, BumpedType DEF TypeOK
<1>8. OncePart(c)'
      BY <1>1, <1>2, <1>4, <1>5, <1>6, <1>7, Numbers DEF OncePart
<1>9. InTimePart(c)'
      BY <1>1, <1>2, <1>4 DEF InTimePart, Exists
<1> QED BY <1>8, <1>9

LEMMA ListWarns == TypeOK /\ WInv /\ ListExpiring => WInv'
<1> SUFFICES ASSUME TypeOK, WInv, ListExpiring, NEW c \in Conns
             PROVE  OncePart(c)' /\ InTimePart(c)'
    BY DEF WInv
<1>1. /\ UNCHANGED <<day, table, sent, mails, again>>
      /\ todo = {} /\ sent = Unset /\ checked' = TRUE
      /\ \/ todo' = {d \in Conns : Due(d)} /\ excused' = excused
         \/ todo' = todo /\ excused' = excused \cup {d \in Conns : Due(d)}
      BY DEF ListExpiring
<1>2. OncePart(c) /\ InTimePart(c) /\ sent # c
      BY <1>1, IdsAssumption DEF WInv
<1>3. OncePart(c)'
      BY <1>1, <1>2 DEF OncePart, Due, table
<1>4. InTimePart(c)'
      BY <1>1, <1>2 DEF InTimePart, Due, Expiring, Exists, table
<1> QED BY <1>3, <1>4

LEMMA SendWarns ==
    ASSUME TypeOK, WInv, NEW c \in Conns, SendWarning(c) PROVE WInv'
<1> SUFFICES ASSUME NEW d \in Conns PROVE OncePart(d)' /\ InTimePart(d)'
    BY DEF WInv
<1>1. /\ UNCHANGED <<day, table, checked, again>>
      /\ c \in todo /\ sent = Unset /\ todo' = todo \ {c}
      /\ \/ /\ mails[c] < MaxMails /\ sent' = c /\ excused' = excused
            /\ mails' = [mails EXCEPT ![c] = @ + 1]
         \/ /\ sent' \in {c, Unset}
            /\ excused' = excused \cup {c} /\ mails' = mails
      BY DEF SendWarning
<1>2. OncePart(d) /\ InTimePart(d) /\ sent # d
      BY <1>1, IdsAssumption DEF WInv
<1>3. CASE d # c
  <2>1. mails'[d] = mails[d] /\ sent' # d /\ (d \in excused' <=> d \in excused)
        BY <1>1, <1>3, IdsAssumption DEF TypeOK
  <2> QED BY <1>1, <1>2, <1>3, <2>1 DEF OncePart, InTimePart, Exists, table
<1>4. CASE d = c
  <2>1. ~notified[d] /\ mails[d] <= again[d]
        BY <1>1, <1>2, <1>4 DEF OncePart
  <2>2. \/ mails[c] < MaxMails /\ sent' = c /\ mails'[d] = mails[d] + 1
        \/ mails'[d] = mails[d] /\ d \in excused'
        BY <1>1, <1>4 DEF TypeOK
  <2>3. OncePart(d)'
        BY <1>1, <1>2, <1>4, <2>1, <2>2, Numbers DEF OncePart, table
  <2>4. mails'[d] > 0 \/ d \in excused'
        BY <2>2, Numbers
  <2> QED BY <2>3, <2>4 DEF InTimePart
<1> QED BY <1>3, <1>4

LEMMA MarkWarns == TypeOK /\ WInv /\ MarkNotified => WInv'
<1> SUFFICES ASSUME TypeOK, WInv, MarkNotified, NEW c \in Conns
             PROVE  OncePart(c)' /\ InTimePart(c)'
    BY DEF WInv
<1>1. /\ UNCHANGED <<day, status, requisition, expires, checked, todo, mails, excused>>
      /\ sent' = Unset
      /\ \/ notified' = [notified EXCEPT ![sent] = TRUE] /\ again' = again
         \/ again' = Bumped(sent) /\ notified' = notified
      BY DEF MarkNotified
<1>2. sent \in Conns
      BY DEF MarkNotified, TypeOK
<1>3. OncePart(c) /\ InTimePart(c) /\ sent' # c
      BY <1>1, IdsAssumption DEF WInv
<1>4. notified'[c] => notified[c] \/ sent = c
      BY <1>1, <1>2 DEF TypeOK
<1>5. /\ again[c] <= again'[c] /\ again'[c] \in Nat
      /\ sent = c => notified'[c] \/ mails[c] <= again'[c]
      /\ sent # c => notified'[c] = notified[c]
      BY <1>1, <1>2, <1>3, BumpedCovers, BumpedType, Numbers DEF TypeOK
<1>6. OncePart(c)'
      BY <1>1, <1>3, <1>4, <1>5, Numbers DEF OncePart
<1>7. InTimePart(c)'
      BY <1>1, <1>3, <1>4 DEF InTimePart, Exists
<1> QED BY <1>6, <1>7

LEMMA TickWarns == TypeOK /\ WInv /\ Tick => WInv'
<1> SUFFICES ASSUME TypeOK, WInv, Tick, NEW c \in Conns
             PROVE  OncePart(c)' /\ InTimePart(c)'
    BY DEF WInv
<1>1. /\ UNCHANGED <<table, todo, sent, mails, again>>
      /\ day' = day + 1 /\ checked' = FALSE
      /\ excused' = IF checked THEN excused ELSE excused \cup {d \in Conns : Due(d)}
      BY DEF Tick
<1>2. OncePart(c) /\ InTimePart(c)
      BY DEF WInv
<1>3. OncePart(c)'
      BY <1>1, <1>2 DEF OncePart, table
<1>4. ASSUME Exists(c), day + WarningDays >= expires[c], c \notin excused'
      PROVE  mails[c] > 0 \/ c \in todo
  <2>1. CASE checked
        BY <1>1, <1>2, <1>4, <2>1 DEF InTimePart
  <2>2. CASE ~checked
        BY <1>1, <1>2, <1>4, <2>2 DEF InTimePart, Due, Expiring
  <2> QED BY <2>1, <2>2
<1>5. day' + WarningDays > expires[c] => day + WarningDays >= expires[c]
      BY <1>1, Numbers
<1>6. day' + WarningDays >= expires[c] =>
          day' + WarningDays = expires[c] \/ day' + WarningDays > expires[c]
      BY <1>1, Numbers
<1>7. InTimePart(c)'
      BY <1>1, <1>2, <1>4, <1>5, <1>6 DEF InTimePart, Exists, table
<1> QED BY <1>3, <1>7

LEMMA StopWarns == TypeOK /\ WInv /\ Stop => WInv'
<1> SUFFICES ASSUME TypeOK, WInv, Stop, NEW c \in Conns
             PROVE  OncePart(c)' /\ InTimePart(c)'
    BY DEF WInv
<1>1. /\ UNCHANGED <<day, table, mails>>
      /\ excused' = excused \cup todo
      /\ again' = IF sent = Unset THEN again ELSE Bumped(sent)
      /\ todo' = {} /\ sent' = Unset /\ checked' = FALSE
      BY DEF Stop
<1>2. OncePart(c) /\ InTimePart(c) /\ sent' # c
      BY <1>1, IdsAssumption DEF WInv
<1>3. sent # Unset => sent \in Conns
      BY DEF TypeOK
<1>4. /\ again[c] <= again'[c] /\ again'[c] \in Nat
      /\ sent = c => mails[c] <= again'[c]
      BY <1>1, <1>2, <1>3, IdsAssumption, BumpedCovers, BumpedType, Numbers DEF TypeOK
<1>5. OncePart(c)'
      BY <1>1, <1>2, <1>4, Numbers DEF OncePart, table
<1>6. InTimePart(c)'
      BY <1>1, <1>2 DEF InTimePart, Exists, table
<1> QED BY <1>5, <1>6

LEMMA NextWInv == TypeOK /\ WInv /\ [Next]_vars => WInv'
<1> SUFFICES ASSUME TypeOK, WInv, [Next]_vars PROVE WInv'
    OBVIOUS
<1> USE DEF table
<1>1. ASSUME NEW f \in Flows, CreateConnection(f) PROVE WInv'
      BY <1>1, CreateWarns
<1>2. ASSUME NEW f \in Flows, RefreshConnection(f) PROVE WInv'
      BY <1>2, Unnoticed DEF RefreshConnection, Exists
<1>3. ASSUME NEW f \in Flows, FinishStep(f) PROVE WInv'
  <2>1. CASE ResetNotified(f)
        BY <2>1, ResetWarns
  <2>2. CASE Lookup(f) \/ Exchange(f) \/ FinishFails(f)
        BY <2>2, Unnoticed DEF Lookup, Exchange, FinishFails, Exists
  <2>3. CASE UpdateRequisitionID(f) \/ UpsertAccounts(f)
        BY <2>3, Unnoticed DEF UpdateRequisitionID, UpsertAccounts, Exists
  <2>4. CASE LinkConnection(f)
    <3>1. \A c \in Conns : Exists(c)' => Exists(c)
          BY <2>4 DEF LinkConnection, Exists, TypeOK
    <3> QED BY <2>4, <3>1, Unnoticed DEF LinkConnection
  <2> QED BY <1>3, <2>1, <2>2, <2>3, <2>4 DEF FinishStep
<1>4. ASSUME NEW c \in Conns, DeleteConnection(c) PROVE WInv'
  <2>1. \A d \in Conns : Exists(d)' => Exists(d)
        BY <1>4 DEF DeleteConnection, Exists, TypeOK
  <2> QED BY <1>4, <2>1, Unnoticed DEF DeleteConnection
<1>5. ASSUME NEW c \in Conns, SendWarning(c) PROVE WInv'
      BY <1>5, SendWarns
<1>6. CASE ListExpiring
      BY <1>6, ListWarns
<1>7. CASE MarkNotified
      BY <1>7, MarkWarns
<1>8. CASE Tick
      BY <1>8, TickWarns
<1>9. CASE Stop
      BY <1>9, StopWarns
<1>10. CASE Start
      BY <1>10, Unnoticed DEF Start, Exists
<1>11. CASE UNCHANGED vars
      BY <1>11, Unnoticed DEF vars, notifier, Exists
<1> QED BY <1>1, <1>2, <1>3, <1>4, <1>5, <1>6, <1>7, <1>8, <1>9, <1>10, <1>11
        DEF Next

LEMMA SpecWInv == Spec => [](TypeOK /\ WInv)
<1>1. Init => IInv /\ TypeOK /\ WInv
      BY InitIInv, InitTypes, InitWInv
<1>2. IInv /\ TypeOK /\ WInv /\ [Next]_vars => IInv' /\ TypeOK' /\ WInv'
      BY NextIInv, NextTypes, NextWInv
<1> QED BY <1>1, <1>2, PTL DEF Spec

\* For any validity, lead time and number of connections: no warning day passes
\* without a warning, unless the worker was down all day or a query, the user
\* or the mail failed.
THEOREM WarningInTime == Spec => []WarnedInTime
<1>1. TypeOK /\ WInv => WarnedInTime
  <2> SUFFICES ASSUME TypeOK, WInv, NEW c \in Conns, Exists(c),
                      day + WarningDays > expires[c], c \notin excused
               PROVE  mails[c] > 0 \/ c \in todo
      BY DEF WarnedInTime
  <2>1. day + WarningDays >= expires[c] /\ day + WarningDays # expires[c]
        BY Numbers
  <2> QED BY <2>1 DEF WInv, InTimePart
<1> QED BY <1>1, SpecWInv, PTL

\* One warning per connection, and one more only for every mark that failed,
\* got lost in a crash or was reset, wherever the worker was interrupted.
THEOREM WarningOnce == Spec => []WarnedOnce
<1>1. TypeOK /\ WInv => WarnedOnce
      BY DEF WInv, OncePart, WarnedOnce
<1> QED BY <1>1, SpecWInv, PTL

=============================================================================
