------------------------ MODULE ReconciliationProofs ------------------------
(* Proofs about Reconciliation, for any users, transactions and calls. *)
EXTENDS Reconciliation, TLAPS

LEMMA InitTypeOK == Init => TypeOK
BY DEF Init, TypeOK, Request

LEMMA NextTypeOK == TypeOK /\ [Next]_vars => TypeOK'
<1> SUFFICES ASSUME TypeOK, [Next]_vars PROVE TypeOK'
    OBVIOUS
<1> USE DEF TypeOK
<1>1. ASSUME NEW c \in Calls, Check(c) PROVE TypeOK'
      BY <1>1 DEF Check
<1>2. ASSUME NEW c \in Calls, Save(c) PROVE TypeOK'
  <2> DEFINE q == request[c]
  <2>1. OwnNamed(q) \subseteq rows /\ Cleaned(q) \subseteq recs
        BY DEF OwnNamed, Cleaned
  <2>2. \A x \in Rows \ rows : ~reconciled'[x] /\ recOf'[x] = Unset
        BY <1>2, <2>1 DEF Save
  <2>3. recs' \subseteq {d \in Calls : pc'[d] = "done"}
        BY <1>2, <2>1 DEF Save
  <2>4. reconciled' \in [Rows -> BOOLEAN]
        BY <1>2 DEF Save
  <2>5. recOf' \in [Rows -> Calls \cup {Unset}]
        BY <1>2 DEF Save
  <2>6. disturbed' \in BOOLEAN
        BY <1>2, Zenon DEF Save
  <2> QED BY <1>2, <2>2, <2>3, <2>4, <2>5, <2>6 DEF Save
<1>3. ASSUME NEW c \in Calls, SaveFails(c) PROVE TypeOK'
      BY <1>3 DEF SaveFails
<1>4. ASSUME NEW r \in Calls, NEW u \in Users, DeleteReconciliation(r, u)
      PROVE TypeOK'
      BY <1>4 DEF DeleteReconciliation
<1>5. ASSUME NEW s \in Statements, DeleteStatement(s) PROVE TypeOK'
  <2>1. rows' = {x \in rows : Statement[x] # s}
        BY <1>5 DEF DeleteStatement
  <2>2. \A x \in Rows \ rows' : ~reconciled'[x] /\ recOf'[x] = Unset
        BY <1>5, <2>1 DEF DeleteStatement
  <2>3. disturbed' \in BOOLEAN
        BY <1>5, Zenon DEF DeleteStatement
  <2>4. reconciled' \in [Rows -> BOOLEAN] /\ recOf' \in [Rows -> Calls \cup {Unset}]
        BY <1>5 DEF DeleteStatement
  <2> QED BY <1>5, <2>1, <2>2, <2>3, <2>4 DEF DeleteStatement
<1>6. ASSUME NEW s \in Statements, Reimport(s) PROVE TypeOK'
      BY <1>6 DEF Reimport
<1>7. CASE UNCHANGED vars
      BY <1>7 DEF vars
<1> QED BY <1>1, <1>2, <1>3, <1>4, <1>5, <1>6, <1>7 DEF Next

\* Whatever statements, transactions and calls there are: every value keeps its
\* type, and a transaction that is gone leaves no mark behind.
THEOREM TypeCorrect == Spec => []TypeOK
<1>1. Init => TypeOK
      BY InitTypeOK
<1>2. TypeOK /\ [Next]_vars => TypeOK'
      BY NextTypeOK
<1> QED BY <1>1, <1>2, PTL DEF Spec

-----------------------------------------------------------------------------
LEMMA NextMarks ==
    TypeOK /\ MarksPointToOwnRecords /\ [Next]_vars => MarksPointToOwnRecords'
<1> SUFFICES ASSUME TypeOK, MarksPointToOwnRecords, [Next]_vars,
                    NEW x \in rows', recOf'[x] # Unset
             PROVE  /\ reconciled'[x]
                    /\ recOf'[x] \in recs'
                    /\ request'[recOf'[x]].user = Owner[x]
                    /\ Hash[x] \in NamedBy(request'[recOf'[x]])
    BY DEF MarksPointToOwnRecords, NamedBy
<1> DEFINE Goal == /\ reconciled'[x]
                   /\ recOf'[x] \in recs'
                   /\ request'[recOf'[x]].user = Owner[x]
                   /\ Hash[x] \in NamedBy(request'[recOf'[x]])
<1> USE DEF TypeOK
\* Steps that touch neither records nor marks.
<1>1. ASSUME UNCHANGED <<request, recs, rows, reconciled, recOf>> PROVE Goal
      BY <1>1 DEF MarksPointToOwnRecords, NamedBy
\* The rows that are marked are the caller's and have a hash of the request;
\* every other pointer leads to a record the clean-up spared.
<1>2. ASSUME NEW c \in Calls, Save(c) PROVE Goal
  <2>1. CASE x \in OwnNamed(request[c])
        BY <1>2, <2>1 DEF Save, OwnNamed, NamedBy
  <2>2. CASE x \notin OwnNamed(request[c])
    <3>1. /\ recOf'[x] = recOf[x]
          /\ recOf[x] \notin Cleaned(request[c])
          /\ x \in rows
          BY <1>2, <2>2 DEF Save
    <3> QED BY <1>2, <2>2, <3>1 DEF Save, MarksPointToOwnRecords, NamedBy
  <2> QED BY <2>1, <2>2
<1>3. ASSUME NEW r \in Calls, NEW u \in Users, DeleteReconciliation(r, u)
      PROVE Goal
  <2>1. recOf[x] # r /\ recOf'[x] = recOf[x] /\ x \in rows
        BY <1>3 DEF DeleteReconciliation
  <2> QED BY <1>3, <2>1 DEF DeleteReconciliation, MarksPointToOwnRecords, NamedBy
<1>4. ASSUME NEW s \in Statements, DeleteStatement(s) PROVE Goal
  <2>1. Statement[x] # s /\ recOf'[x] = recOf[x] /\ x \in rows
        BY <1>4 DEF DeleteStatement
  <2> QED BY <1>4, <2>1 DEF DeleteStatement, MarksPointToOwnRecords, NamedBy
\* What comes back from a file was gone before, hence without a mark.
<1>5. ASSUME NEW s \in Statements, Reimport(s) PROVE Goal
  <2>1. x \in rows
        BY <1>5 DEF Reimport
  <2> QED BY <1>5, <2>1 DEF Reimport, MarksPointToOwnRecords, NamedBy
<1>6. ASSUME NEW c \in Calls, Check(c) \/ SaveFails(c) PROVE Goal
      BY <1>1, <1>6 DEF Check, SaveFails
<1>7. CASE UNCHANGED vars
      BY <1>1, <1>7 DEF vars
<1> QED BY <1>2, <1>3, <1>4, <1>5, <1>6, <1>7 DEF Next

\* A transaction that refers to a reconciliation is marked, and the record
\* exists, belongs to the transaction's owner and names it: sharing, stale
\* checks and re-imports never mark another user's transaction.
THEOREM Tenancy == Spec => []MarksPointToOwnRecords
<1>1. Init => MarksPointToOwnRecords
      BY DEF Init, MarksPointToOwnRecords
<1>2. TypeOK /\ MarksPointToOwnRecords /\ [Next]_vars => MarksPointToOwnRecords'
      BY NextMarks
<1> QED BY <1>1, <1>2, TypeCorrect, PTL DEF Spec

-----------------------------------------------------------------------------
LEMMA NextRoles ==
    RolesAreUnique /\ [Next]_vars => RolesAreUnique'
<1> SUFFICES ASSUME RolesAreUnique, [Next]_vars PROVE RolesAreUnique'
    OBVIOUS
<1> USE DEF RolesAreUnique
<1>1. ASSUME NEW c \in Calls, Save(c) PROVE RolesAreUnique'
  <2>1. request' = request /\ recs' = (recs \ Cleaned(request[c])) \cup {c}
        BY <1>1 DEF Save
  <2>2. \A r \in recs \ Cleaned(request[c]) :
            request[r].user = request[c].user =>
               /\ request[r].settlement # request[c].settlement
               /\ request[r].target # request[c].target
        BY DEF Cleaned
  <2> QED BY <2>1, <2>2
<1>2. ASSUME NEW r \in Calls, NEW u \in Users, DeleteReconciliation(r, u)
      PROVE RolesAreUnique'
      BY <1>2 DEF DeleteReconciliation
<1>3. CASE UNCHANGED <<request, recs>>
      BY <1>3
<1>4. ASSUME NEW c \in Calls, Check(c) \/ SaveFails(c) PROVE RolesAreUnique'
      BY <1>3, <1>4 DEF Check, SaveFails
<1>5. ASSUME NEW s \in Statements, DeleteStatement(s) \/ Reimport(s)
      PROVE RolesAreUnique'
      BY <1>3, <1>5 DEF DeleteStatement, Reimport
<1> QED BY <1>1, <1>2, <1>3, <1>4, <1>5 DEF Next, vars

\* The clean-up before an insertion always suffices: however many records there
\* are, no user ever has two with one settlement or two with one target.
THEOREM CleanupSuffices == Spec => []RolesAreUnique
<1>1. Init => RolesAreUnique
      BY DEF Init, RolesAreUnique
<1>2. RolesAreUnique /\ [Next]_vars => RolesAreUnique'
      BY NextRoles
<1> QED BY <1>1, <1>2, PTL DEF Spec

-----------------------------------------------------------------------------
\* A save that disturbs nothing finds both transactions among the user's own,
\* open ones, so that no record named them: the clean-up deletes nothing.
LEMMA SaveFindsOpen ==
    ASSUME TypeOK, MarksPointToOwnRecords, OneToOneUndisturbed,
           NEW c \in Calls, Save(c), ~disturbed'
    PROVE  /\ \A x \in OwnNamed(request[c]) : ~reconciled[x] /\ recOf[x] = Unset
           /\ \A h \in NamedBy(request[c]) :
                  \E x \in OwnNamed(request[c]) : Hash[x] = h
           /\ Cleaned(request[c]) = {}
<1> DEFINE q == request[c]
<1>1. ~disturbed /\ {Hash[x] : x \in {x \in OwnNamed(q) : ~reconciled[x]}} = NamedBy(q)
      BY DEF Save
<1>2. \A h \in NamedBy(q) : \E x \in OwnNamed(q) : Hash[x] = h /\ ~reconciled[x]
      BY <1>1
<1>3. ASSUME NEW x \in OwnNamed(q) PROVE ~reconciled[x] /\ recOf[x] = Unset
  <2>1. PICK z \in OwnNamed(q) : Hash[z] = Hash[x] /\ ~reconciled[z]
        BY <1>2 DEF OwnNamed
  <2>2. z = x
        BY <2>1, RowsAssumption DEF OwnNamed, TypeOK
  <2> QED BY <2>1, <2>2 DEF MarksPointToOwnRecords, OwnNamed
<1>4. ASSUME NEW r \in Cleaned(q) PROVE FALSE
  <2>1. r \in recs /\ r \in Calls /\ request[r].user = q.user
        BY DEF Cleaned, TypeOK
  <2>2. PICK h \in NamedBy(request[r]) : h \in NamedBy(q)
        BY DEF Cleaned, NamedBy
  <2>3. PICK x \in rows : Owner[x] = q.user /\ Hash[x] = h /\ recOf[x] = r
        BY <1>1, <2>1, <2>2 DEF OneToOneUndisturbed
  <2>4. x \in OwnNamed(q)
        BY <2>2, <2>3 DEF OwnNamed
  <2> QED BY <1>3, <2>1, <2>3, <2>4, UnsetAssumption
<1> QED BY <1>2, <1>3, <1>4

LEMMA NextOneToOne ==
    /\ TypeOK /\ MarksPointToOwnRecords /\ OneToOneUndisturbed
    /\ [Next]_vars
    => OneToOneUndisturbed'
<1> SUFFICES ASSUME TypeOK, MarksPointToOwnRecords, OneToOneUndisturbed,
                    [Next]_vars, ~disturbed'
             PROVE  /\ \A x \in rows' : reconciled'[x] => recOf'[x] \in recs'
                    /\ \A r \in recs' : \A h \in NamedBy(request'[r]) :
                           \E x \in rows' : /\ Owner[x] = request'[r].user
                                            /\ Hash[x] = h /\ recOf'[x] = r
    BY DEF OneToOneUndisturbed, NamedBy
<1> DEFINE Marks == \A x \in rows' : reconciled'[x] => recOf'[x] \in recs'
           Named == \A r \in recs' : \A h \in NamedBy(request'[r]) :
                        \E x \in rows' : /\ Owner[x] = request'[r].user
                                         /\ Hash[x] = h /\ recOf'[x] = r
<1>0. /\ ~disturbed =>
             /\ \A x \in rows : reconciled[x] => recOf[x] \in recs
             /\ \A r \in recs : \A h \in NamedBy(request[r]) :
                    \E x \in rows : Owner[x] = request[r].user /\ Hash[x] = h /\ recOf[x] = r
      BY DEF OneToOneUndisturbed
\* Steps that touch neither records nor marks.
<1>1. ASSUME UNCHANGED <<request, recs, rows, reconciled, recOf, disturbed>>
      PROVE Marks /\ Named
      BY <1>0, <1>1
<1>2. ASSUME NEW c \in Calls, Save(c) PROVE Marks /\ Named
  <2> DEFINE q == request[c]
  <2>1. /\ recs' = recs \cup {c} /\ c \notin recs
        /\ rows' = rows /\ request' = request /\ ~disturbed
        /\ reconciled' = [x \in Rows |-> reconciled[x] \/ x \in OwnNamed(q)]
        /\ \A x \in rows : recOf'[x] = IF x \in OwnNamed(q) THEN c ELSE recOf[x]
        BY <1>2, SaveFindsOpen DEF Save, TypeOK
  <2>2. /\ \A x \in rows : reconciled[x] => recOf[x] \in recs
        /\ \A r \in recs : \A h \in NamedBy(request[r]) :
               \E x \in rows : Owner[x] = request[r].user /\ Hash[x] = h /\ recOf[x] = r
        BY <2>1 DEF OneToOneUndisturbed
  <2>3. Marks
        BY <2>1, <2>2 DEF TypeOK
  <2>4. ASSUME NEW h \in NamedBy(q)
        PROVE  \E x \in rows' : Owner[x] = request'[c].user /\ Hash[x] = h /\ recOf'[x] = c
    <3>1. PICK x \in OwnNamed(q) : Hash[x] = h
          BY <1>2, SaveFindsOpen
    <3> QED BY <2>1, <3>1 DEF OwnNamed
  <2>5. ASSUME NEW r \in recs, NEW h \in NamedBy(request[r])
        PROVE  \E x \in rows' : Owner[x] = request'[r].user /\ Hash[x] = h /\ recOf'[x] = r
    <3>1. PICK x \in rows : Owner[x] = request[r].user /\ Hash[x] = h /\ recOf[x] = r
          BY <2>2
    <3>2. x \notin OwnNamed(q)
          BY <1>2, <3>1, SaveFindsOpen, UnsetAssumption DEF TypeOK
    <3> QED BY <2>1, <3>1, <3>2
  <2> QED BY <2>1, <2>3, <2>4, <2>5
<1>3. ASSUME NEW r \in Calls, NEW u \in Users, DeleteReconciliation(r, u)
      PROVE Marks /\ Named
  <2>1. /\ recs' = recs \ {r} /\ rows' = rows /\ request' = request
        /\ ~disturbed /\ request[r].user = u
        /\ recOf' = [x \in Rows |-> IF recOf[x] = r THEN Unset ELSE recOf[x]]
        /\ reconciled' = [x \in Rows |-> /\ reconciled[x]
                                         /\ x \notin {z \in Rows : recOf[z] = r /\ Owner[z] = u}]
        BY <1>3 DEF DeleteReconciliation
  <2>2. ASSUME NEW x \in rows, reconciled'[x] PROVE recOf'[x] \in recs'
    <3>1. x \in Rows /\ reconciled[x] /\ ~(recOf[x] = r /\ Owner[x] = u)
          BY <2>1, <2>2 DEF TypeOK
    <3>2. recOf[x] \in recs /\ recOf[x] # Unset
          BY <1>0, <2>1, <3>1, UnsetAssumption DEF TypeOK
    <3>3. recOf[x] # r
          BY <2>1, <3>1, <3>2 DEF MarksPointToOwnRecords
    <3> QED BY <2>1, <3>1, <3>2, <3>3
  <2>3. ASSUME NEW o \in recs', NEW h \in NamedBy(request'[o])
        PROVE  \E x \in rows' : Owner[x] = request'[o].user /\ Hash[x] = h /\ recOf'[x] = o
    <3>1. o \in recs /\ o # r /\ h \in NamedBy(request[o])
          BY <2>1
    <3>2. PICK x \in rows : Owner[x] = request[o].user /\ Hash[x] = h /\ recOf[x] = o
          BY <1>0, <2>1, <3>1
    <3>3. x \in Rows /\ recOf'[x] = o
          BY <2>1, <3>1, <3>2 DEF TypeOK
    <3>4. rows' = rows /\ request' = request
          BY <2>1
    <3> QED BY <3>2, <3>3, <3>4
  <2>4. rows' = rows
        BY <2>1
  <2> QED BY <2>2, <2>3, <2>4
<1>4. ASSUME NEW s \in Statements, DeleteStatement(s) PROVE Marks /\ Named
  <2>0. ~disturbed /\ \A x \in rows : ~(Statement[x] = s /\ reconciled[x])
        BY <1>4, Zenon DEF DeleteStatement
  <2>1. /\ rows' = {x \in rows : Statement[x] # s}
        /\ \A x \in rows : reconciled[x] => Statement[x] # s
        /\ ~disturbed /\ request' = request /\ recs' = recs
        /\ \A x \in rows' : recOf'[x] = recOf[x] /\ reconciled'[x] = reconciled[x]
        BY <1>4, <2>0 DEF DeleteStatement, TypeOK
  <2>2. ASSUME NEW r \in recs, NEW h \in NamedBy(request[r])
        PROVE  \E x \in rows' : Owner[x] = request'[r].user /\ Hash[x] = h /\ recOf'[x] = r
    <3>1. PICK x \in rows : Owner[x] = request[r].user /\ Hash[x] = h /\ recOf[x] = r
          BY <1>0, <2>1
    <3>2. reconciled[x]
          BY <3>1, UnsetAssumption DEF MarksPointToOwnRecords, TypeOK
    <3> QED BY <2>1, <3>1, <3>2
  <2> QED BY <1>0, <2>1, <2>2
<1>5. ASSUME NEW s \in Statements, Reimport(s) PROVE Marks /\ Named
  <2>1. /\ rows \subseteq rows' /\ rows' \subseteq Rows
        /\ UNCHANGED <<request, recs, reconciled, recOf>> /\ ~disturbed
        BY <1>5 DEF Reimport, TypeOK
  <2>2. \A x \in rows' : reconciled'[x] => x \in rows
        BY <2>1 DEF TypeOK
  <2> QED BY <1>0, <2>1, <2>2
<1>6. ASSUME NEW c \in Calls, Check(c) \/ SaveFails(c) PROVE Marks /\ Named
      BY <1>1, <1>6 DEF Check, SaveFails
<1>7. CASE UNCHANGED vars
      BY <1>1, <1>7 DEF vars
<1> QED BY <1>2, <1>3, <1>4, <1>5, <1>6, <1>7 DEF Next

\* As long as no check went stale, no foreign row was reconciled and no
\* reconciled statement was deleted, records and marks are a matching, for any
\* number of users, transactions and calls.
THEOREM OneToOne == Spec => []OneToOneUndisturbed
<1>1. Init => OneToOneUndisturbed
      BY DEF Init, OneToOneUndisturbed
<1>2. /\ TypeOK /\ MarksPointToOwnRecords /\ OneToOneUndisturbed
      /\ [Next]_vars
      => OneToOneUndisturbed'
      BY NextOneToOne
<1> QED BY <1>1, <1>2, TypeCorrect, Tenancy, PTL DEF Spec

=============================================================================
