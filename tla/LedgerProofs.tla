---------------------------- MODULE LedgerProofs ----------------------------
(* Proofs about Ledger, for any files, spellings, imports and               *)
(* synchronisations.                                                        *)
EXTENDS Ledger, FiniteSetTheorems, TLAPS

\* A row's id names the call that inserted it and the line or text it is for:
\* it settles the text.
TextOf(id) == IF id[1] \in Imports THEN Lines[file[id[1]]][id[2]] ELSE id[2]

RowsKeepText == \A r \in rows : r.hash.text = TextOf(r.id)

\* What an import is going to link is similar to one of its lines, also after
\* the row was deleted.
FitsFile(i, id) ==
    \E k \in LineNos(file[i]) : <<Lines[file[i]][k], TextOf(id)>> \in Similar

LinksFit == \A i \in Imports : \A id \in links[i] : FitsFile(i, id)

\* The inductive invariant: LinkedRowsAreListed needs to know of the rows that
\* are still to be linked.
IInv ==
    /\ TypeOK /\ DOMAIN match = Imports
    /\ RowsKeepText /\ LinksFit /\ LinkedRowsAreListed

-----------------------------------------------------------------------------
\* The lines of a file, and their hashes.
LEMMA LineTypes ==
    ASSUME NEW f \in Files, NEW k \in LineNos(f)
    PROVE  Lines[f][k] \in Texts /\ k \in Nat /\ LineHash(f, k) \in Hash
<1>1. Lines[f] \in Seq(Texts)
      BY FilesAssumption
<1>2. Lines[f][k] \in Texts /\ k \in Nat
      BY <1>1 DEF LineNos
<1>3. IsFiniteSet(1..k)
      BY <1>2, FS_Interval
<1>4. Occurrence(f, k) \in Nat
      BY <1>3, FS_Subset, FS_CardinalityType DEF Occurrence
<1> QED BY <1>2, <1>4 DEF LineHash, Hash

\* What an import may insert.
LEMMA NewRows ==
    ASSUME IInv, NEW i \in Imports, NEW k \in LineNos(file[i]),
           NEW r, r = [id |-> <<i, k>>, hash |-> LineHash(file[i], k), stmt |-> i]
    PROVE  /\ r \in Row
           /\ r.stmt = i
           /\ r.hash.text = Lines[file[i]][k]
           /\ r.hash.text = TextOf(r.id)
           /\ SameBooking(Lines[file[i]][k], r)
<1>1. file[i] \in Files
      BY DEF IInv, TypeOK
<1>2. Lines[file[i]][k] \in Texts /\ k \in Nat /\ LineHash(file[i], k) \in Hash
      BY <1>1, LineTypes
<1>3. <<i, k>> \in RowIds
      BY <1>2 DEF RowIds
<1>4. r \in Row
      BY <1>2, <1>3 DEF Row
<1>5. r.hash.text = Lines[file[i]][k] /\ r.id = <<i, k>> /\ r.stmt = i
      BY DEF LineHash
<1>6. TextOf(r.id) = Lines[file[i]][k]
      BY <1>5 DEF TextOf
<1>7. SameBooking(Lines[file[i]][k], r)
      BY <1>2, <1>5, TextsAssumption DEF SameBooking
<1> QED BY <1>4, <1>5, <1>6, <1>7

-----------------------------------------------------------------------------
LEMMA InitIInv == Init => IInv
BY DEF Init, IInv, TypeOK, RowsKeepText, LinksFit, LinkedRowsAreListed

\* Steps that at most forget matches and links.
LEMMA Forgets ==
    ASSUME IInv, UNCHANGED <<file, stmts, rows, synced, deleted>>,
           pc' \in [Imports -> {"idle", "save", "link", "done"}],
           DOMAIN match' = Imports,
           \A i \in Imports : pc'[i] = "save" => pc[i] = "save" /\ match'[i] = match[i],
           links' \in [Imports -> SUBSET RowIds],
           \A i \in Imports : links'[i] \subseteq links[i]
    PROVE  IInv'
<1>1. TypeOK'
      BY DEF IInv, TypeOK
<1>2. RowsKeepText'
      BY DEF IInv, RowsKeepText, TextOf
<1>3. LinksFit'
      BY DEF IInv, LinksFit, FitsFile, TextOf
<1>4. LinkedRowsAreListed'
      BY DEF IInv, LinkedRowsAreListed, SameBooking
<1> QED BY <1>1, <1>2, <1>3, <1>4 DEF IInv

LEMMA DeduplicateKeeps ==
    ASSUME IInv, NEW i \in Imports, Deduplicate(i) PROVE IInv'
<1>1. PICK m \in [LineNos(file[i]) -> {r.id : r \in rows} \cup {NoRow}] :
          /\ \/ Duplicates(file[i], rows, m)
             \/ \A k \in LineNos(file[i]) : m[k] = NoRow
          /\ match' = [match EXCEPT ![i] = m]
          /\ links' = [links EXCEPT ![i] = {m[k] : k \in LineNos(file[i])} \ {NoRow}]
      BY DEF Deduplicate
<1>2. /\ pc' = [pc EXCEPT ![i] = "save"]
      /\ UNCHANGED <<file, stmts, rows, synced, deleted>>
      BY DEF Deduplicate, Goto
<1>3. {r.id : r \in rows} \subseteq RowIds
      BY DEF IInv, TypeOK, Row
<1>4. {m[k] : k \in LineNos(file[i])} \ {NoRow} \subseteq {r.id : r \in rows}
      OBVIOUS
<1>5. TypeOK'
  <2>1. m \in [LineNos(file[i]) -> RowIds \cup {NoRow}]
        BY <1>3
  <2>2. links' \in [Imports -> SUBSET RowIds]
        BY <1>1, <1>3, <1>4 DEF IInv, TypeOK
  <2>3. ASSUME NEW j \in Imports, pc'[j] = "save"
        PROVE  match'[j] \in [LineNos(file'[j]) -> RowIds \cup {NoRow}]
        BY <1>1, <1>2, <2>1, <2>3 DEF IInv, TypeOK
  <2> QED BY <1>2, <2>2, <2>3 DEF IInv, TypeOK
<1>6. RowsKeepText'
      BY <1>2 DEF IInv, RowsKeepText, TextOf
<1>7. LinksFit'
  <2> SUFFICES ASSUME NEW j \in Imports, NEW id \in links'[j]
               PROVE  FitsFile(j, id)'
      BY DEF LinksFit
  <2>1. CASE j = i
    <3>1. PICK k \in LineNos(file[i]) : id = m[k] /\ m[k] # NoRow
          BY <1>1, <2>1 DEF IInv, TypeOK
    <3>2. Duplicates(file[i], rows, m)
          BY <1>1, <3>1
    <3>3. PICK r \in rows : r.id = id /\ SameBooking(Lines[file[i]][k], r)
          BY <3>1, <3>2 DEF Duplicates
    <3> QED BY <1>2, <2>1, <3>3 DEF IInv, RowsKeepText, SameBooking, FitsFile, TextOf
  <2>2. CASE j # i
        BY <1>1, <1>2, <2>2 DEF IInv, TypeOK, LinksFit, FitsFile, TextOf
  <2> QED BY <2>1, <2>2
<1>8. LinkedRowsAreListed'
      BY <1>2 DEF IInv, LinkedRowsAreListed, SameBooking
<1> QED BY <1>1, <1>5, <1>6, <1>7, <1>8 DEF IInv

LEMMA SaveKeeps ==
    ASSUME IInv, NEW i \in Imports, Save(i) PROVE IInv'
<1>1. /\ stmts' = stmts \cup {i}
      /\ rows' = Inserted(i)
      /\ match' = [match EXCEPT ![i] = <<>>]
      /\ pc' = [pc EXCEPT ![i] = "link"]
      /\ UNCHANGED <<file, links, synced, deleted>>
      BY DEF Save, Goto
<1>2. ASSUME NEW r \in rows', r \notin rows
      PROVE  /\ r \in Row /\ r.stmt = i
             /\ r.hash.text = TextOf(r.id)
             /\ \E k \in LineNos(file[i]) : SameBooking(Lines[file[i]][k], r)
  <2>1. PICK k \in LineNos(file[i]) :
            r = [id |-> <<i, k>>, hash |-> LineHash(file[i], k), stmt |-> i]
        BY <1>1, <1>2 DEF Inserted, Merged
  <2> QED BY <2>1, NewRows
<1>3. TypeOK'
      BY <1>1, <1>2 DEF IInv, TypeOK
<1>4. RowsKeepText'
      BY <1>1, <1>2 DEF IInv, RowsKeepText, TextOf
<1>5. LinksFit'
      BY <1>1 DEF IInv, LinksFit, FitsFile, TextOf
<1>6. LinkedRowsAreListed'
      BY <1>1, <1>2 DEF IInv, LinkedRowsAreListed, SameBooking
<1> QED BY <1>1, <1>3, <1>4, <1>5, <1>6 DEF IInv

LEMMA LinkKeeps ==
    ASSUME IInv, NEW i \in Imports, Link(i) PROVE IInv'
<1>1. PICK x \in links[i] :
          /\ links' = [links EXCEPT ![i] = @ \ {x}]
          /\ \/ /\ i \in stmts
                /\ rows' = {IF r.id = x THEN [r EXCEPT !.stmt = i] ELSE r : r \in rows}
             \/ UNCHANGED rows
      BY DEF Link
<1>2. UNCHANGED <<file, pc, match, stmts, synced, deleted>>
      BY DEF Link
<1>3. /\ links' \in [Imports -> SUBSET RowIds]
      /\ \A j \in Imports : links'[j] \subseteq links[j]
      BY <1>1 DEF IInv, TypeOK
<1>4. CASE UNCHANGED rows
      BY <1>2, <1>3, <1>4, Forgets DEF IInv, TypeOK
<1>5. CASE /\ i \in stmts
           /\ rows' = {IF r.id = x THEN [r EXCEPT !.stmt = i] ELSE r : r \in rows}
  <2>1. ASSUME NEW r \in rows'
        PROVE  \/ r \in rows
               \/ /\ r \in Row /\ r.stmt = i /\ r.id = x
                  /\ r.hash.text = TextOf(r.id)
    <3>1. PICK o \in rows : r = IF o.id = x THEN [o EXCEPT !.stmt = i] ELSE o
          BY <1>5
    <3>2. o \in Row /\ o.hash.text = TextOf(o.id)
          BY DEF IInv, TypeOK, RowsKeepText
    <3>3. CASE o.id = x
      <4>1. /\ r \in Row /\ r.stmt = i /\ r.id = o.id /\ r.hash = o.hash
            BY <3>1, <3>2, <3>3 DEF Row
      <4> QED BY <3>2, <3>3, <4>1
    <3> QED BY <3>1, <3>3
  <2>2. FitsFile(i, x)
        BY DEF IInv, LinksFit
  <2>3. TypeOK'
        BY <1>2, <1>3, <2>1 DEF IInv, TypeOK
  <2>4. RowsKeepText'
        BY <1>2, <2>1 DEF IInv, RowsKeepText, TextOf
  <2>5. LinksFit'
        BY <1>2, <1>3 DEF IInv, LinksFit, FitsFile, TextOf
  <2>6. LinkedRowsAreListed'
        BY <1>2, <1>5, <2>1, <2>2
        DEF IInv, LinkedRowsAreListed, SameBooking, FitsFile
  <2> QED BY <1>2, <2>3, <2>4, <2>5, <2>6 DEF IInv
<1> QED BY <1>1, <1>4, <1>5

LEMMA SyncKeeps ==
    ASSUME IInv, NEW y \in Syncs, Sync(y) PROVE IInv'
<1>1. PICK W \in SUBSET Feed :
          rows' = Merged({[id |-> <<y, t>>, hash |-> SyncHash(t), stmt |-> NoStatement] :
                             t \in W})
      BY DEF Sync
<1>2. /\ synced' = synced \cup {y}
      /\ UNCHANGED <<file, pc, match, links, stmts, deleted>>
      BY DEF Sync
<1>3. ASSUME NEW r \in rows', r \notin rows
      PROVE  r \in Row /\ r.stmt = NoStatement /\ r.hash.text = TextOf(r.id)
  <2>1. PICK t \in W :
            r = [id |-> <<y, t>>, hash |-> SyncHash(t), stmt |-> NoStatement]
        BY <1>1, <1>3 DEF Merged
  <2>2. t \in Texts
        BY TextsAssumption
  <2>3. r \in Row
        BY <2>1, <2>2 DEF Row, RowIds, Hash, SyncHash
  <2>4. TextOf(r.id) = t
        BY <2>1, RunsAssumption DEF TextOf
  <2> QED BY <2>1, <2>3, <2>4 DEF SyncHash
<1>4. TypeOK'
      BY <1>2, <1>3 DEF IInv, TypeOK
<1>5. RowsKeepText'
      BY <1>2, <1>3 DEF IInv, RowsKeepText, TextOf
<1>6. LinksFit'
      BY <1>2 DEF IInv, LinksFit, FitsFile, TextOf
<1>7. LinkedRowsAreListed'
      BY <1>2, <1>3 DEF IInv, LinkedRowsAreListed, SameBooking
<1> QED BY <1>2, <1>4, <1>5, <1>6, <1>7 DEF IInv

LEMMA DeleteKeeps ==
    ASSUME IInv, NEW s \in Imports, DeleteStatement(s) PROVE IInv'
<1>1. /\ stmts' = stmts \ {s}
      /\ rows' = {r \in rows : r.stmt # s}
      /\ deleted' = deleted \cup {s}
      /\ UNCHANGED <<file, pc, match, links, synced>>
      BY DEF DeleteStatement
<1>2. TypeOK'
      BY <1>1 DEF IInv, TypeOK
<1>3. RowsKeepText'
      BY <1>1 DEF IInv, RowsKeepText, TextOf
<1>4. LinksFit'
      BY <1>1 DEF IInv, LinksFit, FitsFile, TextOf
<1>5. LinkedRowsAreListed'
      BY <1>1 DEF IInv, LinkedRowsAreListed, SameBooking
<1> QED BY <1>1, <1>2, <1>3, <1>4, <1>5 DEF IInv

LEMMA NextIInv == IInv /\ [Next]_vars => IInv'
<1> SUFFICES ASSUME IInv, [Next]_vars PROVE IInv'
    OBVIOUS
<1>1. ASSUME NEW i \in Imports, Deduplicate(i) PROVE IInv'
      BY <1>1, DeduplicateKeeps
<1>2. ASSUME NEW i \in Imports, Save(i) PROVE IInv'
      BY <1>2, SaveKeeps
<1>3. ASSUME NEW i \in Imports, SaveFails(i) PROVE IInv'
      BY <1>3, Forgets DEF SaveFails, Goto, IInv, TypeOK
<1>4. ASSUME NEW i \in Imports, Link(i) PROVE IInv'
      BY <1>4, LinkKeeps
<1>5. ASSUME NEW i \in Imports, ImportDone(i) PROVE IInv'
      BY <1>5, Forgets DEF ImportDone, Goto, IInv, TypeOK
<1>6. ASSUME NEW y \in Syncs, Sync(y) PROVE IInv'
      BY <1>6, SyncKeeps
<1>7. ASSUME NEW s \in Imports, DeleteStatement(s) PROVE IInv'
      BY <1>7, DeleteKeeps
<1>8. CASE Restart
      BY <1>8, Forgets DEF Restart, IInv, TypeOK
<1>9. CASE UNCHANGED vars
      BY <1>9, Forgets DEF vars, IInv, TypeOK
<1> QED BY <1>1, <1>2, <1>3, <1>4, <1>5, <1>6, <1>7, <1>8, <1>9 DEF Next, ImportStep

-----------------------------------------------------------------------------
\* Every value keeps its type, and what an import still has to link are ids
\* that rows can have.
THEOREM TypeCorrect == Spec => []TypeOK
<1>1. Init => IInv
      BY InitIInv
<1>2. IInv /\ [Next]_vars => IInv'
      BY NextIInv
<1>3. IInv => TypeOK
      BY DEF IInv
<1> QED BY <1>1, <1>2, <1>3, PTL DEF Spec

\* However imports, synchronisations, deletions and crashes interleave, and
\* whichever spellings count as one booking: a transaction belongs to a
\* statement that exists and lists it, so that deleting a statement takes only
\* bookings it showed.
THEOREM LinkedListed == Spec => []LinkedRowsAreListed
<1>1. Init => IInv
      BY InitIInv
<1>2. IInv /\ [Next]_vars => IInv'
      BY NextIInv
<1>3. IInv => LinkedRowsAreListed
      BY DEF IInv
<1> QED BY <1>1, <1>2, <1>3, PTL DEF Spec

-----------------------------------------------------------------------------
(* Bookings by their hashes.  A row's hash is its own, so that counting a     *)
(* booking's rows and counting its hashes is the same; and a link changes no  *)
(* hash, so that hashes only come, as long as no statement is deleted.        *)
Hashes     == {r.hash : r \in rows}
Spelled(t) == {h \in Hashes : <<t, h.text>> \in Similar}

\* Lines of a file with the text t, and those among the first b.
LinesOf(f, t)      == {k \in LineNos(f) : Lines[f][k] = t}
LinesUpTo(f, t, b) == {k \in LinesOf(f, t) : k <= b}

\* What an import of f will insert of them, given its matches.
Brings(f, m, t, b) == {LineHash(f, k) : k \in {k \in LinesUpTo(f, t, b) : m[k] = NoRow}}

HashesUnique == \A r, s \in rows : r.hash = s.hash => r = s

\* A line with the number n is not alone: the booking is there n times.
NumberedHaveCompany ==
    \A h \in Hashes : Cardinality(Spelled(h.text)) >= h.n

\* With what an import is about to insert, every booking will be there as often
\* as it is listed, in the whole file and up to any line.
ImportsSuffice ==
    \A i \in Imports : pc[i] = "save" =>
        \A t \in Texts, b \in Nat :
            Cardinality(Spelled(t) \cup Brings(file[i], match[i], t, b))
                >= Cardinality(LinesUpTo(file[i], t, b))

StatementsKept ==
    \A s \in stmts : \A t \in Texts :
        Cardinality(Spelled(t)) >= Cardinality(LinesOf(file[s], t))

\* The inductive invariant of the bookings: BookingsKept needs to know what the
\* imports that are not saved yet will bring, and that needs the numbers.
BookingsInv ==
    /\ IsFiniteSet(rows) /\ HashesUnique
    /\ deleted = {} => NumberedHaveCompany /\ ImportsSuffice /\ StatementsKept

-----------------------------------------------------------------------------
\* Counting through a function that loses no element, or leaves none out.
LEMMA Into ==
    ASSUME NEW S, NEW T, IsFiniteSet(T), NEW g \in [S -> T],
           \A x, y \in S : g[x] = g[y] => x = y
    PROVE  IsFiniteSet(S) /\ Cardinality(S) <= Cardinality(T)
<1>1. g \in Injection(S, T)
      BY DEF Injection, IsInjective
<1> QED BY <1>1, FS_Injection

LEMMA Onto ==
    ASSUME NEW S, NEW T, IsFiniteSet(S), NEW g \in [S -> T],
           \A y \in T : \E x \in S : g[x] = y
    PROVE  IsFiniteSet(T) /\ Cardinality(T) <= Cardinality(S)
<1>1. g \in Surjection(S, T)
      BY DEF Surjection
<1> QED BY <1>1, FS_Surjection

LEMMA LinesAreFinite ==
    ASSUME NEW f \in Files
    PROVE  /\ IsFiniteSet(LineNos(f))
           /\ LineNos(f) = 1..Len(Lines[f]) /\ Len(Lines[f]) \in Nat
           /\ \A t : IsFiniteSet(LinesOf(f, t)) /\ Cardinality(LinesOf(f, t)) \in Nat
           /\ \A t, b : /\ IsFiniteSet(LinesUpTo(f, t, b))
                        /\ Cardinality(LinesUpTo(f, t, b)) \in Nat
<1>1. LineNos(f) = 1..Len(Lines[f]) /\ Len(Lines[f]) \in Nat
      BY FilesAssumption DEF LineNos
<1>2. IsFiniteSet(LineNos(f))
      BY <1>1, FS_Interval
<1>3. ASSUME NEW t PROVE IsFiniteSet(LinesOf(f, t)) /\ Cardinality(LinesOf(f, t)) \in Nat
  <2>1. LinesOf(f, t) \in SUBSET LineNos(f)
        BY DEF LinesOf
  <2> QED BY <1>2, <2>1, FS_Subset, FS_CardinalityType
<1>4. ASSUME NEW t, NEW b
      PROVE  IsFiniteSet(LinesUpTo(f, t, b)) /\ Cardinality(LinesUpTo(f, t, b)) \in Nat
  <2>1. LinesUpTo(f, t, b) \in SUBSET LinesOf(f, t)
        BY DEF LinesUpTo
  <2> QED BY <1>3, <2>1, FS_Subset, FS_CardinalityType
<1> QED BY <1>1, <1>2, <1>3, <1>4

\* A line's number is how many lines with its text there are up to it.
LEMMA NumberIsCount ==
    ASSUME NEW f \in Files, NEW k \in LineNos(f)
    PROVE  /\ Occurrence(f, k) = Cardinality(LinesUpTo(f, Lines[f][k], k))
           /\ k \in LinesUpTo(f, Lines[f][k], k)
           /\ Occurrence(f, k) \in Nat \ {0}
<1>1. k \in 1..Len(Lines[f]) /\ Len(Lines[f]) \in Nat
      BY LinesAreFinite
<1>2. {i \in 1..k : Lines[f][i] = Lines[f][k]} = LinesUpTo(f, Lines[f][k], k)
      BY <1>1, LinesAreFinite DEF LinesUpTo, LinesOf
<1>3. k \in LinesUpTo(f, Lines[f][k], k)
      BY <1>1 DEF LinesUpTo, LinesOf
<1>4. Cardinality(LinesUpTo(f, Lines[f][k], k)) \in Nat \ {0}
      BY <1>3, LinesAreFinite, FS_EmptySet
<1> QED BY <1>2, <1>3, <1>4 DEF Occurrence

LEMMA NumbersGrow ==
    ASSUME NEW f \in Files, NEW k \in LineNos(f), NEW l \in LineNos(f),
           Lines[f][k] = Lines[f][l], k < l
    PROVE  Occurrence(f, k) < Occurrence(f, l)
<1> DEFINE t == Lines[f][k]
           S == LinesUpTo(f, t, k)
           T == LinesUpTo(f, t, l)
<1>1. k \in Nat /\ l \in Nat /\ LineNos(f) \subseteq Nat
      BY LinesAreFinite
<1>2. S \in SUBSET T
      BY <1>1 DEF LinesUpTo, LinesOf
<1>3. l \in T /\ l \notin S
      BY <1>1 DEF LinesUpTo, LinesOf
<1>4. IsFiniteSet(T) /\ Cardinality(T) \in Nat /\ Cardinality(S) \in Nat
      BY LinesAreFinite
<1>5. Cardinality(S) <= Cardinality(T) /\ Cardinality(S) # Cardinality(T)
      BY <1>2, <1>3, <1>4, FS_Subset
<1>6. Occurrence(f, k) = Cardinality(S) /\ Occurrence(f, l) = Cardinality(T)
      BY NumberIsCount
<1> QED BY <1>4, <1>5, <1>6

LEMMA LineHashesUnique ==
    ASSUME NEW f \in Files, NEW k \in LineNos(f), NEW l \in LineNos(f)
    PROVE  LineHash(f, k) = LineHash(f, l) => k = l
<1>1. k \in Nat /\ l \in Nat
      BY LinesAreFinite
<1>2. Occurrence(f, k) \in Nat /\ Occurrence(f, l) \in Nat
      BY NumberIsCount
<1>3. k < l \/ l < k \/ k = l
      BY <1>1
<1> SUFFICES ASSUME LineHash(f, k) = LineHash(f, l) PROVE k = l
    OBVIOUS
<1>4. Lines[f][k] = Lines[f][l] /\ Occurrence(f, k) = Occurrence(f, l)
      BY DEF LineHash
<1> QED BY <1>2, <1>3, <1>4, NumbersGrow

-----------------------------------------------------------------------------
LEMMA HashesAreFinite ==
    ASSUME IsFiniteSet(rows)
    PROVE  /\ IsFiniteSet(Hashes)
           /\ \A t : IsFiniteSet(Spelled(t)) /\ Cardinality(Spelled(t)) \in Nat
<1> DEFINE g == [r \in rows |-> r.hash]
<1>1. g \in [rows -> Hashes]
      BY DEF Hashes
<1>2. \A h \in Hashes : \E r \in rows : g[r] = h
      BY DEF Hashes
<1>3. IsFiniteSet(Hashes)
      BY <1>1, <1>2, Onto
<1>4. ASSUME NEW t PROVE IsFiniteSet(Spelled(t)) /\ Cardinality(Spelled(t)) \in Nat
  <2>1. Spelled(t) \in SUBSET Hashes
        BY DEF Spelled
  <2> QED BY <1>3, <2>1, FS_Subset, FS_CardinalityType
<1> QED BY <1>3, <1>4

\* A booking's rows are as many as its hashes.
LEMMA RowsAreHashes ==
    ASSUME IsFiniteSet(rows), HashesUnique, NEW t
    PROVE  /\ IsFiniteSet(Known(t))
           /\ Cardinality(Known(t)) = Cardinality(Spelled(t))
<1> DEFINE g == [r \in Known(t) |-> r.hash]
<1>1. Known(t) \in SUBSET rows
      BY DEF Known
<1>2. IsFiniteSet(Known(t)) /\ Cardinality(Known(t)) \in Nat
      BY <1>1, FS_Subset, FS_CardinalityType
<1>3. g \in [Known(t) -> Spelled(t)]
      BY DEF Known, Spelled, Hashes, SameBooking
<1>4. \A h \in Spelled(t) : \E r \in Known(t) : g[r] = h
      BY DEF Known, Spelled, Hashes, SameBooking
<1>5. \A x, y \in Known(t) : g[x] = g[y] => x = y
      BY <1>1 DEF HashesUnique
<1>6. Cardinality(Spelled(t)) <= Cardinality(Known(t))
      BY <1>2, <1>3, <1>4, Onto
<1>7. IsFiniteSet(Spelled(t)) /\ Cardinality(Spelled(t)) \in Nat
      BY HashesAreFinite
<1>8. Cardinality(Known(t)) <= Cardinality(Spelled(t))
      BY <1>3, <1>5, <1>7, Into
<1> QED BY <1>2, <1>6, <1>7, <1>8

-----------------------------------------------------------------------------
\* The search for duplicates leaves enough lines of a text unmatched.  Of the
\* lines up to b, those numbered up to K, as often as the booking is known, are
\* at most K; and a line with a higher number is new: it was not matched, for
\* then it and all before it would have taken more than K rows, and its hash
\* is not there, for it would have company.
LEMMA SearchSuffices ==
    ASSUME IsFiniteSet(rows), HashesUnique, NumberedHaveCompany,
           NEW f \in Files,
           NEW m \in [LineNos(f) -> {r.id : r \in rows} \cup {NoRow}],
           \/ Duplicates(f, rows, m)
           \/ \A k \in LineNos(f) : m[k] = NoRow,
           NEW t \in Texts, NEW b \in Nat
    PROVE  Cardinality(Spelled(t) \cup Brings(f, m, t, b)) >= Cardinality(LinesUpTo(f, t, b))
<1> DEFINE K    == Cardinality(Spelled(t))
           L    == LinesUpTo(f, t, b)
           Low  == {k \in L : Occurrence(f, k) <= K}
           High == {k \in L : Occurrence(f, k) > K}
           B    == Brings(f, m, t, b)
           Free(k) == {r.id : r \in {r \in rows : SameBooking(Lines[f][k], r)}}
                          \ {m[i] : i \in 1..(k - 1)}
<1>1. /\ IsFiniteSet(Spelled(t)) /\ K \in Nat
      /\ IsFiniteSet(L)
      BY HashesAreFinite, LinesAreFinite
<1>2. \A k \in L : k \in LineNos(f) /\ k \in Nat /\ Lines[f][k] = t
      BY LinesAreFinite DEF LinesUpTo, LinesOf
<1>3. \A k \in L : Occurrence(f, k) \in Nat \ {0}
      BY <1>2, NumberIsCount
<1>4. Cardinality(Low) <= K
  <2> DEFINE g == [k \in Low |-> Occurrence(f, k)]
  <2>1. g \in [Low -> 1..K]
        BY <1>1, <1>3
  <2>2. ASSUME NEW k \in Low, NEW l \in Low, g[k] = g[l] PROVE k = l
    <3>1. LineHash(f, k) = LineHash(f, l)
          BY <1>2, <2>2 DEF LineHash
    <3> QED BY <1>2, <3>1, LineHashesUnique
  <2>3. IsFiniteSet(1..K) /\ Cardinality(1..K) = K
        BY <1>1, FS_Interval
  <2> QED BY <2>1, <2>2, <2>3, Into
<1>5. ASSUME NEW k \in High PROVE m[k] = NoRow
  <2> SUFFICES ASSUME Duplicates(f, rows, m), Free(k) # {} PROVE FALSE
      BY <1>2 DEF Duplicates
  <2> DEFINE P   == LinesUpTo(f, t, k)
             Ids == {r.id : r \in Known(t)}
             g   == [i \in P |-> m[i]]
             n   == [r \in Known(t) |-> r.id]
  <2>1. \A i \in P : i \in LineNos(f) /\ i \in Nat /\ Lines[f][i] = t /\ i <= k
        BY LinesAreFinite DEF LinesUpTo, LinesOf
  <2>2. ASSUME NEW i \in P PROVE m[i] \in Free(i)
    <3>1. Free(k) \subseteq Free(i)
          BY <1>2, <2>1
    <3> QED BY <2>1, <3>1 DEF Duplicates
  <2>3. g \in [P -> Ids]
        BY <2>1, <2>2 DEF Known
  <2>4. ASSUME NEW i \in P, NEW j \in P, i < j PROVE g[i] # g[j]
    <3>1. i \in 1..(j - 1)
          BY <2>1, LinesAreFinite, <2>4
    <3> QED BY <2>2, <3>1
  <2>5. \A i, j \in P : g[i] = g[j] => i = j
    <3> SUFFICES ASSUME NEW i \in P, NEW j \in P, i # j PROVE g[i] # g[j]
        OBVIOUS
    <3>1. i < j \/ j < i
          BY <2>1
    <3> QED BY <2>4, <3>1
  <2>6. IsFiniteSet(Known(t)) /\ Cardinality(Known(t)) = K
        BY RowsAreHashes
  <2>7. IsFiniteSet(Ids) /\ Cardinality(Ids) <= K
    <3>1. n \in [Known(t) -> Ids] /\ \A x \in Ids : \E r \in Known(t) : n[r] = x
          OBVIOUS
    <3> HIDE DEF n, Ids
    <3>2. IsFiniteSet(Ids) /\ Cardinality(Ids) <= Cardinality(Known(t))
          BY <2>6, <3>1, Onto
    <3> QED BY <2>6, <3>2
  <2>8. Cardinality(P) <= Cardinality(Ids)
        BY <2>3, <2>5, <2>7, Into
  <2>9. Occurrence(f, k) = Cardinality(P) /\ Occurrence(f, k) > K
        BY <1>2, NumberIsCount
  <2> QED BY <1>1, <1>3, <2>7, <2>8, <2>9, FS_CardinalityType
<1>6. ASSUME NEW k \in High PROVE LineHash(f, k) \in B \ Spelled(t)
  <2>1. LineHash(f, k) \in B
        BY <1>2, <1>5 DEF Brings
  <2>2. LineHash(f, k).text = t /\ LineHash(f, k).n = Occurrence(f, k)
        BY <1>2 DEF LineHash
  <2>3. LineHash(f, k) \notin Hashes
    <3> SUFFICES ASSUME LineHash(f, k) \in Hashes PROVE FALSE
        OBVIOUS
    <3>1. K >= Occurrence(f, k)
          BY <2>2 DEF NumberedHaveCompany
    <3> QED BY <1>1, <1>3, <3>1
  <2> QED BY <2>1, <2>3 DEF Spelled
<1>7. IsFiniteSet(B)
  <2> DEFINE U == {k \in L : m[k] = NoRow}
             g == [k \in U |-> LineHash(f, k)]
  <2>1. IsFiniteSet(U)
        BY <1>1, FS_Subset
  <2>2. g \in [U -> B] /\ \A h \in B : \E k \in U : g[k] = h
        BY DEF Brings
  <2> HIDE DEF U, g, B
  <2> QED BY <2>1, <2>2, Onto
<1>8. Cardinality(High) <= Cardinality(B \ Spelled(t))
  <2> DEFINE g == [k \in High |-> LineHash(f, k)]
  <2>1. g \in [High -> B \ Spelled(t)]
        BY <1>6
  <2>2. \A k, l \in High : g[k] = g[l] => k = l
        BY <1>2, LineHashesUnique
  <2> QED BY <1>7, <2>1, <2>2, Into, FS_Difference
<1>9. Cardinality(Spelled(t) \cup B) = K + Cardinality(B \ Spelled(t))
  <2>1. Spelled(t) \cup B = Spelled(t) \cup (B \ Spelled(t))
        OBVIOUS
  <2>2. Spelled(t) \cap (B \ Spelled(t)) = {}
        OBVIOUS
  <2>3. IsFiniteSet(B \ Spelled(t)) /\ Cardinality(B \ Spelled(t)) \in Nat
        BY <1>7, FS_Difference, FS_CardinalityType
  <2> QED BY <1>1, <2>1, <2>2, <2>3, FS_Union, FS_EmptySet
<1>10. Cardinality(L) = Cardinality(Low) + Cardinality(High)
  <2>1. Low \in SUBSET L /\ High \in SUBSET L
        OBVIOUS
  <2>2. L = Low \cup High /\ Low \cap High = {}
        BY <1>1, <1>3
  <2>3. IsFiniteSet(Low) /\ IsFiniteSet(High)
        BY <1>1, <2>1, FS_Subset
  <2>4. Cardinality(Low) \in Nat /\ Cardinality(High) \in Nat
        BY <2>3, FS_CardinalityType
  <2> QED BY <2>2, <2>3, <2>4, FS_Union, FS_EmptySet
<1>11. /\ Cardinality(Low) \in Nat /\ Cardinality(High) \in Nat
       /\ Cardinality(B \ Spelled(t)) \in Nat
  <2>1. Low \in SUBSET L /\ High \in SUBSET L
        OBVIOUS
  <2>2. IsFiniteSet(B \ Spelled(t))
        BY <1>7, FS_Difference
  <2> QED BY <1>1, <2>1, <2>2, FS_Subset, FS_CardinalityType
<1> QED BY <1>1, <1>4, <1>8, <1>9, <1>10, <1>11

-----------------------------------------------------------------------------
LEMMA FiniteImage ==
    ASSUME NEW R, IsFiniteSet(R) PROVE IsFiniteSet({r.hash : r \in R})
<1> DEFINE H == {r.hash : r \in R}
           g == [r \in R |-> r.hash]
<1>1. g \in [R -> H] /\ \A h \in H : \E r \in R : g[r] = h
      OBVIOUS
<1> HIDE DEF H, g
<1>2. IsFiniteSet(H)
      BY <1>1, Onto
<1> QED BY <1>2 DEF H

\* What an import brings depends on its file and matches alone.
LEMMA SufficeNext ==
    ASSUME UNCHANGED file,
           \A i \in Imports : pc'[i] = "save" =>
               \A t \in Texts, b \in Nat :
                   Cardinality(Spelled(t)' \cup Brings(file[i], match'[i], t, b))
                       >= Cardinality(LinesUpTo(file[i], t, b))
    PROVE  ImportsSuffice'
<1>1. ASSUME NEW i \in Imports, NEW t, NEW b
      PROVE  /\ LinesUpTo(file[i], t, b)' = LinesUpTo(file[i], t, b)
             /\ Brings(file[i], match[i], t, b)' = Brings(file[i], match'[i], t, b)
      BY DEF Brings, LineHash, LinesUpTo, LinesOf, LineNos, Occurrence
<1> QED BY <1>1 DEF ImportsSuffice

\* Steps after which all hashes are still there: what is there often enough
\* stays so, and only new hashes and new statements need a look.
LEMMA HashesGrow ==
    ASSUME IInv, BookingsInv, IsFiniteSet(rows'), HashesUnique',
           UNCHANGED <<file, deleted>>,
           Hashes \subseteq Hashes',
           \A i \in Imports : pc'[i] = "save" => pc[i] = "save" /\ match'[i] = match[i],
           deleted = {} =>
               /\ \A h \in Hashes' \ Hashes : Cardinality(Spelled(h.text)') >= h.n
               /\ \A s \in stmts' \ stmts : \A t \in Texts :
                      Cardinality(Spelled(t)') >= Cardinality(LinesOf(file[s], t))
    PROVE  BookingsInv'
<1> SUFFICES ASSUME deleted = {}
             PROVE  (NumberedHaveCompany /\ ImportsSuffice /\ StatementsKept)'
    BY DEF BookingsInv
<1>1. IsFiniteSet(Hashes')
      BY FiniteImage DEF Hashes
<1>2. ASSUME NEW t
      PROVE  /\ Spelled(t) \subseteq Spelled(t)'
             /\ IsFiniteSet(Spelled(t)') /\ Cardinality(Spelled(t)') \in Nat
             /\ Cardinality(Spelled(t)) \in Nat
             /\ Cardinality(Spelled(t)) <= Cardinality(Spelled(t)')
  <2>1. Spelled(t) \in SUBSET (Spelled(t)')
        BY DEF Spelled
  <2>2. Spelled(t)' \in SUBSET (Hashes')
        BY DEF Spelled
  <2>3. IsFiniteSet(Spelled(t)') /\ Cardinality(Spelled(t)') \in Nat
        BY <1>1, <2>2, FS_Subset, FS_CardinalityType
  <2>4. Cardinality(Spelled(t)) \in Nat
        BY HashesAreFinite DEF BookingsInv
  <2>5. Cardinality(Spelled(t)) <= Cardinality(Spelled(t)')
        BY <2>1, <2>3, FS_Subset
  <2> QED BY <2>1, <2>3, <2>4, <2>5
<1>3. Hashes \subseteq Hash /\ \A h \in Hashes : h.n \in Nat
      BY DEF Hashes, IInv, TypeOK, Row, Hash
<1>4. NumberedHaveCompany'
  <2> SUFFICES ASSUME NEW h \in Hashes' PROVE Cardinality(Spelled(h.text)') >= h.n
      BY DEF NumberedHaveCompany
  <2>1. CASE h \in Hashes
    <3>1. Cardinality(Spelled(h.text)) >= h.n
          BY <2>1 DEF BookingsInv, NumberedHaveCompany
    <3> QED BY <1>2, <1>3, <2>1, <3>1
  <2> QED BY <2>1
<1>5. ImportsSuffice'
  <2> SUFFICES ASSUME NEW i \in Imports, pc'[i] = "save", NEW t \in Texts, NEW b \in Nat
               PROVE  Cardinality(Spelled(t)' \cup Brings(file[i], match'[i], t, b))
                          >= Cardinality(LinesUpTo(file[i], t, b))
      BY SufficeNext
  <2> DEFINE B == Brings(file[i], match[i], t, b)
             S == Spelled(t) \cup B
             T == Spelled(t)' \cup B
  <2>1. file[i] \in Files
        BY DEF IInv, TypeOK
  <2>2. IsFiniteSet(B)
    <3> DEFINE U == {k \in LinesUpTo(file[i], t, b) : match[i][k] = NoRow}
               g == [k \in U |-> LineHash(file[i], k)]
    <3>1. IsFiniteSet(U)
          BY <2>1, LinesAreFinite, FS_Subset
    <3>2. g \in [U -> B] /\ \A h \in B : \E k \in U : g[k] = h
          BY DEF Brings
    <3> HIDE DEF U, g, B
    <3> QED BY <3>1, <3>2, Onto
  <2>3. IsFiniteSet(T)
        BY <1>2, <2>2, FS_Union
  <2>4. S \in SUBSET T
        BY <1>2
  <2>5. Cardinality(S) \in Nat /\ Cardinality(T) \in Nat /\ Cardinality(S) <= Cardinality(T)
    <3> HIDE DEF S, T
    <3> QED BY <2>3, <2>4, FS_Subset, FS_CardinalityType
  <2>6. Cardinality(S) >= Cardinality(LinesUpTo(file[i], t, b))
        BY DEF BookingsInv, ImportsSuffice
  <2>7. Cardinality(LinesUpTo(file[i], t, b)) \in Nat
        BY <2>1, LinesAreFinite
  <2>8. Cardinality(T) >= Cardinality(LinesUpTo(file[i], t, b))
    <3> HIDE DEF S, T
    <3> QED BY <2>5, <2>6, <2>7
  <2> QED BY <2>8
<1>6. StatementsKept'
  <2> SUFFICES ASSUME NEW s \in stmts', NEW t \in Texts
               PROVE  Cardinality(Spelled(t)') >= Cardinality(LinesOf(file[s], t))
      BY DEF StatementsKept, LinesOf, LineNos
  <2>1. CASE s \in stmts
    <3>1. file[s] \in Files
          BY <2>1 DEF IInv, TypeOK
    <3>2. Cardinality(Spelled(t)) >= Cardinality(LinesOf(file[s], t))
          BY <2>1 DEF BookingsInv, StatementsKept
    <3> QED BY <1>2, <3>1, <3>2, LinesAreFinite
  <2> QED BY <2>1
<1> QED BY <1>4, <1>5, <1>6

-----------------------------------------------------------------------------
LEMMA InitBookings == Init => BookingsInv
<1> SUFFICES ASSUME Init PROVE BookingsInv
    OBVIOUS
<1>1. IsFiniteSet(rows) /\ HashesUnique /\ Hashes = {} /\ stmts = {}
      BY FS_EmptySet DEF Init, HashesUnique, Hashes
<1>2. \A i \in Imports : pc[i] # "save"
      BY DEF Init
<1> QED BY <1>1, <1>2 DEF BookingsInv, NumberedHaveCompany, ImportsSuffice, StatementsKept

\* Steps that leave the rows and the statements alone.
LEMMA BookingsUndisturbed ==
    ASSUME IInv, BookingsInv, UNCHANGED <<file, stmts, rows, deleted>>,
           \A i \in Imports : pc'[i] = "save" => pc[i] = "save" /\ match'[i] = match[i]
    PROVE  BookingsInv'
<1>1. IsFiniteSet(rows') /\ HashesUnique' /\ Hashes' = Hashes
      BY DEF BookingsInv, HashesUnique, Hashes
<1> QED BY <1>1, HashesGrow

LEMMA DeduplicateKeepsBookings ==
    ASSUME IInv, BookingsInv, NEW i \in Imports, Deduplicate(i) PROVE BookingsInv'
<1>1. PICK m \in [LineNos(file[i]) -> {r.id : r \in rows} \cup {NoRow}] :
          /\ \/ Duplicates(file[i], rows, m)
             \/ \A k \in LineNos(file[i]) : m[k] = NoRow
          /\ match' = [match EXCEPT ![i] = m]
      BY DEF Deduplicate
<1>2. /\ pc' = [pc EXCEPT ![i] = "save"]
      /\ UNCHANGED <<file, stmts, rows, deleted>>
      BY DEF Deduplicate, Goto
<1>3. /\ IsFiniteSet(rows') /\ HashesUnique'
      /\ Hashes' = Hashes /\ \A t : Spelled(t)' = Spelled(t)
      BY <1>2 DEF BookingsInv, HashesUnique, Hashes, Spelled
<1> SUFFICES ASSUME deleted = {}
             PROVE  (NumberedHaveCompany /\ ImportsSuffice /\ StatementsKept)'
    BY <1>2, <1>3 DEF BookingsInv
<1>4. NumberedHaveCompany' /\ StatementsKept'
      BY <1>2, <1>3
      DEF BookingsInv, NumberedHaveCompany, StatementsKept, LinesOf, LineNos
<1>5. ImportsSuffice'
  <2>3. file' = file
        BY <1>2
  <2> SUFFICES ASSUME NEW j \in Imports, pc'[j] = "save", NEW t \in Texts, NEW b \in Nat
               PROVE  Cardinality(Spelled(t)' \cup Brings(file[j], match'[j], t, b))
                          >= Cardinality(LinesUpTo(file[j], t, b))
      BY <2>3, SufficeNext
  <2>1. CASE j = i
    <3>1. match'[j] = m /\ file[i] \in Files
          BY <1>1, <2>1 DEF IInv, TypeOK
    <3>2. Cardinality(Spelled(t) \cup Brings(file[i], m, t, b))
              >= Cardinality(LinesUpTo(file[i], t, b))
          BY <1>1, <3>1, SearchSuffices DEF BookingsInv
    <3> QED BY <1>3, <2>1, <3>1, <3>2
  <2>2. CASE j # i
    <3>1. pc[j] = "save" /\ match'[j] = match[j]
          BY <1>1, <1>2, <2>2 DEF IInv, TypeOK
    <3> QED BY <1>3, <3>1 DEF BookingsInv, ImportsSuffice
  <2> QED BY <2>1, <2>2
<1> QED BY <1>4, <1>5

LEMMA SaveKeepsBookings ==
    ASSUME IInv, BookingsInv, NEW i \in Imports, Save(i) PROVE BookingsInv'
<1> DEFINE f == file[i]
           m == match[i]
           U == {k \in LineNos(f) : m[k] = NoRow}
           r(k) == [id |-> <<i, k>>, hash |-> LineHash(f, k), stmt |-> i]
           New == {r(k) : k \in U}
<1>1. /\ pc[i] = "save" /\ stmts' = stmts \cup {i}
      /\ rows' = rows \cup {s \in New : \A old \in rows : old.hash # s.hash}
      /\ match' = [match EXCEPT ![i] = <<>>]
      /\ pc' = [pc EXCEPT ![i] = "link"]
      /\ UNCHANGED <<file, deleted>>
      BY DEF Save, Goto, Inserted, Merged
<1>2. f \in Files
      BY DEF IInv, TypeOK
<1>3. IsFiniteSet(rows')
  <2> DEFINE g == [k \in U |-> r(k)]
  <2>1. IsFiniteSet(U)
        BY <1>2, LinesAreFinite, FS_Subset
  <2>2. g \in [U -> New] /\ \A s \in New : \E k \in U : g[k] = s
        OBVIOUS
  <2>3. IsFiniteSet(New)
    <3> HIDE DEF U, g, New
    <3> QED BY <2>1, <2>2, Onto
  <2> DEFINE Add == {s \in New : \A old \in rows : old.hash # s.hash}
  <2>4. IsFiniteSet(Add)
    <3>1. Add \in SUBSET New
          OBVIOUS
    <3> HIDE DEF Add, New
    <3> QED BY <2>3, <3>1, FS_Subset
  <2>5. rows' = rows \cup Add
        BY <1>1
  <2> HIDE DEF Add
  <2> QED BY <2>4, <2>5, FS_Union DEF BookingsInv
<1>4. HashesUnique'
  <2>1. ASSUME NEW a \in New, NEW b \in New, a.hash = b.hash PROVE a = b
    <3>1. PICK k \in U : a = r(k)
          OBVIOUS
    <3>2. PICK l \in U : b = r(l)
          OBVIOUS
    <3>3. LineHash(f, k) = LineHash(f, l)
          BY <2>1, <3>1, <3>2
    <3> QED BY <1>2, <3>1, <3>2, <3>3, LineHashesUnique
  <2> HIDE DEF New
  <2> QED BY <1>1, <2>1 DEF BookingsInv, HashesUnique
<1>5. Hashes \subseteq Hashes'
      BY <1>1 DEF Hashes
<1>6. \A k \in U : LineHash(f, k) \in Hashes'
  <2> SUFFICES ASSUME NEW k \in U PROVE LineHash(f, k) \in Hashes'
      OBVIOUS
  <2>1. r(k) \in New /\ r(k).hash = LineHash(f, k)
        OBVIOUS
  <2>2. CASE \E old \in rows : old.hash = r(k).hash
        BY <1>5, <2>1, <2>2 DEF Hashes
  <2>3. CASE \A old \in rows : old.hash # r(k).hash
        BY <1>1, <2>1, <2>3 DEF Hashes
  <2> QED BY <2>2, <2>3
<1>7. ASSUME deleted = {}, NEW t \in Texts, NEW b \in Nat
      PROVE  Cardinality(Spelled(t)') >= Cardinality(LinesUpTo(f, t, b))
  <2> DEFINE S == Spelled(t) \cup Brings(f, m, t, b)
  <2>1. \A h \in Brings(f, m, t, b) : h \in Hashes' /\ h.text = t
        BY <1>6 DEF Brings, LinesUpTo, LinesOf, LineHash
  <2>2. S \in SUBSET (Spelled(t)')
        BY <1>5, <2>1, TextsAssumption DEF Spelled
  <2>3. IsFiniteSet(Spelled(t)')
    <3>1. Spelled(t)' \in SUBSET (Hashes')
          BY DEF Spelled
    <3>2. IsFiniteSet(Hashes')
          BY <1>3, FiniteImage DEF Hashes
    <3> QED BY <3>1, <3>2, FS_Subset
  <2>4. Cardinality(S) >= Cardinality(LinesUpTo(f, t, b))
        BY <1>1, <1>7 DEF BookingsInv, ImportsSuffice
  <2> HIDE DEF S
  <2>5. /\ Cardinality(S) \in Nat /\ Cardinality(Spelled(t)') \in Nat
        /\ Cardinality(S) <= Cardinality(Spelled(t)')
        BY <2>2, <2>3, FS_Subset, FS_CardinalityType
  <2>6. Cardinality(LinesUpTo(f, t, b)) \in Nat
        BY <1>2, LinesAreFinite
  <2> QED BY <2>4, <2>5, <2>6
<1>8. ASSUME deleted = {}, NEW h \in Hashes' \ Hashes
      PROVE  Cardinality(Spelled(h.text)') >= h.n
  <2>1. PICK k \in U : h = LineHash(f, k)
        BY <1>1 DEF Hashes
  <2>2. h.text = Lines[f][k] /\ h.n = Occurrence(f, k)
        BY <2>1 DEF LineHash
  <2>3. Lines[f][k] \in Texts /\ k \in Nat
        BY <1>2, LineTypes
  <2> QED BY <1>2, <1>7, <1>8, <2>2, <2>3, NumberIsCount
<1>9. ASSUME deleted = {}, NEW s \in stmts' \ stmts, NEW t \in Texts
      PROVE  Cardinality(Spelled(t)') >= Cardinality(LinesOf(file[s], t))
  <2>1. s = i
        BY <1>1
  <2>2. LinesUpTo(f, t, Len(Lines[f])) = LinesOf(f, t) /\ Len(Lines[f]) \in Nat
        BY <1>2, LinesAreFinite DEF LinesUpTo, LinesOf
  <2> QED BY <1>7, <1>9, <2>1, <2>2
<1>10. \A j \in Imports : pc'[j] = "save" => pc[j] = "save" /\ match'[j] = match[j]
      BY <1>1 DEF IInv, TypeOK
<1> HIDE DEF New, U, f, m
<1> QED BY <1>1, <1>3, <1>4, <1>5, <1>8, <1>9, <1>10, HashesGrow

LEMMA LinkKeepsBookings ==
    ASSUME IInv, BookingsInv, NEW i \in Imports, Link(i) PROVE BookingsInv'
<1>1. UNCHANGED <<file, pc, match, stmts, deleted>>
      BY DEF Link
<1>2. CASE UNCHANGED rows
      BY <1>1, <1>2, BookingsUndisturbed
<1>3. ASSUME NEW x, rows' = {IF r.id = x THEN [r EXCEPT !.stmt = i] ELSE r : r \in rows}
      PROVE  BookingsInv'
  <2> DEFINE new(r) == IF r.id = x THEN [r EXCEPT !.stmt = i] ELSE r
             g == [r \in rows |-> new(r)]
  <2>1. \A r \in rows : new(r).hash = r.hash
        BY DEF IInv, TypeOK, Row
  <2>2. g \in [rows -> rows'] /\ \A s \in rows' : \E r \in rows : g[r] = s
        BY <1>3
  <2>3. IsFiniteSet(rows')
    <3> HIDE DEF g
    <3> QED BY <2>2, Onto DEF BookingsInv
  <2>4. HashesUnique'
    <3> SUFFICES ASSUME NEW a \in rows', NEW b \in rows', a.hash = b.hash PROVE a = b
        BY DEF HashesUnique
    <3>1. PICK r \in rows : a = new(r)
          BY <1>3
    <3>2. PICK s \in rows : b = new(s)
          BY <1>3
    <3>3. r.hash = s.hash
          BY <2>1, <3>1, <3>2
    <3> QED BY <3>1, <3>2, <3>3 DEF BookingsInv, HashesUnique
  <2>5. Hashes' = Hashes
    <3>1. ASSUME NEW h \in Hashes' PROVE h \in Hashes
          BY <1>3, <2>1, <3>1 DEF Hashes
    <3>2. ASSUME NEW h \in Hashes PROVE h \in Hashes'
      <4>1. PICK r \in rows : h = r.hash
            BY DEF Hashes
      <4>2. new(r) \in rows' /\ new(r).hash = h
            BY <1>3, <2>1, <4>1
      <4> QED BY <4>2 DEF Hashes
    <3> QED BY <3>1, <3>2
  <2> HIDE DEF g
  <2> QED BY <1>1, <2>3, <2>4, <2>5, HashesGrow
<1> QED BY <1>2, <1>3 DEF Link

LEMMA SyncKeepsBookings ==
    ASSUME IInv, BookingsInv, NEW y \in Syncs, Sync(y) PROVE BookingsInv'
<1> DEFINE r(t) == [id |-> <<y, t>>, hash |-> SyncHash(t), stmt |-> NoStatement]
<1>1. UNCHANGED <<file, pc, match, stmts, deleted>>
      BY DEF Sync
<1>2. PICK W \in SUBSET Feed :
          rows' = rows \cup {s \in {r(t) : t \in W} : \A old \in rows : old.hash # s.hash}
      BY DEF Sync, Merged
<1> DEFINE New == {r(t) : t \in W}
<1>3. IsFiniteSet(rows')
  <2> DEFINE g == [t \in W |-> r(t)]
             Add == {s \in New : \A old \in rows : old.hash # s.hash}
  <2>1. W \in SUBSET Texts
        BY TextsAssumption
  <2>2. IsFiniteSet(W)
        BY <2>1, FS_Subset, TextsAssumption
  <2>3. g \in [W -> New] /\ \A s \in New : \E t \in W : g[t] = s
        OBVIOUS
  <2>4. Add \in SUBSET New /\ rows' = rows \cup Add
        BY <1>2
  <2> HIDE DEF g, New, Add
  <2>5. IsFiniteSet(New)
        BY <2>2, <2>3, Onto
  <2>6. IsFiniteSet(Add)
        BY <2>4, <2>5, FS_Subset
  <2> QED BY <2>4, <2>6, FS_Union DEF BookingsInv
<1>4. HashesUnique'
  <2>1. \A a, b \in New : a.hash = b.hash => a = b
        BY DEF SyncHash
  <2> HIDE DEF New
  <2> QED BY <1>2, <2>1 DEF BookingsInv, HashesUnique, New
<1>5. Hashes \subseteq Hashes'
      BY <1>2 DEF Hashes
<1>6. ASSUME NEW h \in Hashes' \ Hashes
      PROVE  Cardinality(Spelled(h.text)') >= h.n
  <2>1. h.n = 0
        BY <1>2 DEF Hashes, SyncHash
  <2>2. Spelled(h.text)' \in SUBSET (Hashes')
        BY DEF Spelled
  <2>3. IsFiniteSet(Hashes')
        BY <1>3, FiniteImage DEF Hashes
  <2>4. Cardinality(Spelled(h.text)') \in Nat
        BY <2>2, <2>3, FS_Subset, FS_CardinalityType
  <2> QED BY <2>1, <2>4
<1> HIDE DEF New
<1> QED BY <1>1, <1>3, <1>4, <1>5, <1>6, HashesGrow

LEMMA DeleteKeepsBookings ==
    ASSUME IInv, BookingsInv, NEW s \in Imports, DeleteStatement(s) PROVE BookingsInv'
<1>1. rows' = {r \in rows : r.stmt # s} /\ deleted' # {}
      BY DEF DeleteStatement
<1>2. IsFiniteSet(rows') /\ HashesUnique'
      BY <1>1, FS_Subset DEF BookingsInv, HashesUnique
<1> QED BY <1>1, <1>2 DEF BookingsInv

LEMMA NextBookings == IInv /\ BookingsInv /\ [Next]_vars => BookingsInv'
<1> SUFFICES ASSUME IInv, BookingsInv, [Next]_vars PROVE BookingsInv'
    OBVIOUS
<1>1. ASSUME NEW i \in Imports, Deduplicate(i) PROVE BookingsInv'
      BY <1>1, DeduplicateKeepsBookings
<1>2. ASSUME NEW i \in Imports, Save(i) PROVE BookingsInv'
      BY <1>2, SaveKeepsBookings
<1>3. ASSUME NEW i \in Imports, SaveFails(i) PROVE BookingsInv'
      BY <1>3, BookingsUndisturbed DEF SaveFails, Goto, IInv, TypeOK
<1>4. ASSUME NEW i \in Imports, Link(i) PROVE BookingsInv'
      BY <1>4, LinkKeepsBookings
<1>5. ASSUME NEW i \in Imports, ImportDone(i) PROVE BookingsInv'
      BY <1>5, BookingsUndisturbed DEF ImportDone, Goto, IInv, TypeOK
<1>6. ASSUME NEW y \in Syncs, Sync(y) PROVE BookingsInv'
      BY <1>6, SyncKeepsBookings
<1>7. ASSUME NEW s \in Imports, DeleteStatement(s) PROVE BookingsInv'
      BY <1>7, DeleteKeepsBookings
<1>8. CASE Restart
      BY <1>8, BookingsUndisturbed DEF Restart
<1>9. CASE UNCHANGED vars
      BY <1>9, BookingsUndisturbed DEF vars
<1> QED BY <1>1, <1>2, <1>3, <1>4, <1>5, <1>6, <1>7, <1>8, <1>9 DEF Next, ImportStep

\* However imports, synchronisations, failures and crashes interleave, and
\* whichever spellings count as one booking: as long as no statement was
\* deleted, what a saved statement lists is there as often as it lists it.
THEOREM NoBookingLost == Spec => []BookingsKept
<1>1. Init => IInv /\ BookingsInv
      BY InitIInv, InitBookings
<1>2. IInv /\ BookingsInv /\ [Next]_vars => (IInv /\ BookingsInv)'
      BY NextIInv, NextBookings
<1>3. IInv /\ BookingsInv => BookingsKept
  <2> SUFFICES ASSUME IInv, BookingsInv, deleted = {},
                      NEW s \in stmts, NEW k \in LineNos(file[s])
               PROVE  Cardinality(Known(Lines[file[s]][k])) >= Listed(file[s], Lines[file[s]][k])
      BY DEF BookingsKept
  <2>1. file[s] \in Files
        BY DEF IInv, TypeOK
  <2>2. Lines[file[s]][k] \in Texts
        BY <2>1, LineTypes
  <2> QED BY <2>2, RowsAreHashes DEF BookingsInv, StatementsKept, LinesOf, Listed
<1> QED BY <1>1, <1>2, <1>3, PTL DEF Spec

-----------------------------------------------------------------------------
(* How often a booking can come to be in the ledger.                          *)

\* A hash is that of a line of some file or of what the bank reports.
HashesAreListed ==
    \A h \in Hashes :
        \/ \E g \in Files : \E k \in LineNos(g) : h = LineHash(g, k)
        \/ \E u \in Feed : h = SyncHash(u)

LEMMA InitListed == Init => HashesAreListed
BY DEF Init, HashesAreListed, Hashes

LEMMA NextListed == IInv /\ HashesAreListed /\ [Next]_vars => HashesAreListed'
<1> SUFFICES ASSUME IInv, HashesAreListed, [Next]_vars PROVE HashesAreListed'
    OBVIOUS
<1>1. ASSUME \A h \in Hashes' \ Hashes :
                 \/ \E g \in Files : \E k \in LineNos(g) : h = LineHash(g, k)
                 \/ \E u \in Feed : h = SyncHash(u)
      PROVE  HashesAreListed'
      BY <1>1 DEF HashesAreListed
<1>2. ASSUME UNCHANGED rows PROVE HashesAreListed'
      BY <1>1, <1>2 DEF Hashes
<1>3. ASSUME NEW i \in Imports, Save(i) PROVE HashesAreListed'
  <2>1. file[i] \in Files
        BY DEF IInv, TypeOK
  <2>2. ASSUME NEW h \in Hashes' \ Hashes
        PROVE  \E k \in LineNos(file[i]) : h = LineHash(file[i], k)
        BY <1>3, <2>2 DEF Save, Inserted, Merged, Hashes
  <2> QED BY <1>1, <2>1, <2>2
<1>4. ASSUME NEW i \in Imports, Link(i) PROVE HashesAreListed'
  <2>1. ASSUME NEW x,
               rows' = {IF r.id = x THEN [r EXCEPT !.stmt = i] ELSE r : r \in rows}
        PROVE  Hashes' \subseteq Hashes
        BY <2>1 DEF Hashes, IInv, TypeOK, Row
  <2> QED BY <1>1, <1>2, <1>4, <2>1 DEF Link
<1>5. ASSUME NEW y \in Syncs, Sync(y) PROVE HashesAreListed'
  <2>1. ASSUME NEW h \in Hashes' \ Hashes PROVE \E u \in Feed : h = SyncHash(u)
        BY <1>5, <2>1 DEF Sync, Merged, Hashes
  <2> QED BY <1>1, <2>1
<1>6. ASSUME NEW s \in Imports, DeleteStatement(s) PROVE HashesAreListed'
      BY <1>1, <1>6 DEF DeleteStatement, Hashes
<1> QED BY <1>2, <1>3, <1>4, <1>5, <1>6
        DEF Next, ImportStep, Deduplicate, SaveFails, ImportDone, Restart, vars

\* In one spelling a booking is at most as often numbered as one file lists it:
\* were every file's count below the number of hashes, so would be their numbers.
LEMMA NumberedAsListed ==
    ASSUME HashesAreListed, NEW t,
           NEW N, N \subseteq {h \in Hashes : h.text = t /\ h.n # 0}, IsFiniteSet(N)
    PROVE  \E n \in {0} \cup {Listed(g, t) : g \in Files} : n \in Nat /\ Cardinality(N) <= n
<1>0. \A g \in Files : Listed(g, t) \in Nat
      BY LinesAreFinite DEF Listed, LinesOf
<1> SUFFICES ASSUME /\ ~(Cardinality(N) <= 0)
                    /\ \A g \in Files : ~(Cardinality(N) <= Listed(g, t))
             PROVE  FALSE
    BY <1>0
<1> DEFINE c == Cardinality(N)
           num == [h \in N |-> h.n]
<1>1. c \in Nat
      BY FS_CardinalityType
<1>2. \A g \in Files : Listed(g, t) \in Nat /\ Listed(g, t) < c
      BY <1>0, <1>1
<1>3. c \in Nat \ {0}
      BY <1>1
<1>4. ASSUME NEW h \in N PROVE h.text = t /\ h.n \in 1..(c - 1) /\ h = [text |-> t, n |-> h.n]
  <2>1. PICK g \in Files : \E k \in LineNos(g) : h = LineHash(g, k)
        BY <1>4 DEF HashesAreListed, SyncHash
  <2>0. PICK k \in LineNos(g) : h = LineHash(g, k)
        BY <2>1
  <2>2. Lines[g][k] = t /\ h.n = Occurrence(g, k)
        BY <1>4, <2>0 DEF LineHash
  <2>3. LinesUpTo(g, t, k) \in SUBSET LinesOf(g, t)
        BY DEF LinesUpTo
  <2>4. Cardinality(LinesUpTo(g, t, k)) <= Cardinality(LinesOf(g, t))
        BY <2>3, LinesAreFinite, FS_Subset
  <2>5. h.n \in Nat \ {0} /\ h.n <= Listed(g, t)
        BY <2>2, <2>4, NumberIsCount DEF Listed, LinesOf
  <2> QED BY <1>2, <1>3, <2>0, <2>2, <2>5 DEF LineHash
<1>5. num \in [N -> 1..(c - 1)]
      BY <1>4
<1>6. ASSUME NEW x \in N, NEW y \in N, num[x] = num[y] PROVE x = y
  <2>1. x.n = y.n
        BY <1>6
  <2>2. x = [text |-> t, n |-> x.n] /\ y = [text |-> t, n |-> y.n]
        BY <1>4
  <2> QED BY <2>1, <2>2
<1>7. IsFiniteSet(1..(c - 1)) /\ Cardinality(1..(c - 1)) = c - 1
  <2> HIDE DEF c
  <2>1. 1 \in Int /\ c - 1 \in Int
        BY <1>3
  <2>2. IsFiniteSet(1..(c - 1))
        BY <2>1, FS_Interval
  <2>3. Cardinality(1..(c - 1)) = IF 1 > c - 1 THEN 0 ELSE (c - 1) - 1 + 1
        BY <2>1, FS_Interval
  <2> QED BY <1>3, <2>2, <2>3
<1> HIDE DEF num
<1>8. c <= Cardinality(1..(c - 1))
      BY <1>5, <1>6, <1>7, Into
<1> QED BY <1>3, <1>7, <1>8

LEMMA BoundedRepetition ==
    ASSUME BookingsInv, HashesAreListed PROVE RepetitionIsBounded
<1> SUFFICES ASSUME NEW t \in Texts
             PROVE  \E n \in {0} \cup {Listed(f, t) : f \in Files} :
                        Cardinality(InSpelling(t)) <= n + IF t \in Feed THEN 1 ELSE 0
    BY DEF RepetitionIsBounded
<1> DEFINE All == {h \in Hashes : h.text = t}
           Num == {h \in All : h.n # 0}
           Syn == {h \in All : h.n = 0}
<1>1. /\ IsFiniteSet(All) /\ IsFiniteSet(InSpelling(t))
      /\ Cardinality(InSpelling(t)) <= Cardinality(All)
  <2> DEFINE g == [r \in InSpelling(t) |-> r.hash]
  <2>1. All \in SUBSET Hashes
        OBVIOUS
  <2>2. g \in [InSpelling(t) -> All]
        BY DEF InSpelling, Hashes
  <2>3. \A x, y \in InSpelling(t) : g[x] = g[y] => x = y
        BY DEF InSpelling, BookingsInv, HashesUnique
  <2> HIDE DEF All, g
  <2>4. IsFiniteSet(All)
        BY <2>1, HashesAreFinite, FS_Subset DEF BookingsInv
  <2> QED BY <2>2, <2>3, <2>4, Into
<1>2. /\ IsFiniteSet(Num) /\ IsFiniteSet(Syn)
      /\ Cardinality(Num) \in Nat /\ Cardinality(Syn) \in Nat
  <2>1. Num \in SUBSET All /\ Syn \in SUBSET All
        OBVIOUS
  <2> HIDE DEF All, Num, Syn
  <2> QED BY <1>1, <2>1, FS_Subset, FS_CardinalityType
<1>3. Cardinality(All) = Cardinality(Num) + Cardinality(Syn)
  <2>1. All = Num \cup Syn /\ Num \cap Syn = {}
        OBVIOUS
  <2> HIDE DEF All, Num, Syn
  <2>2. Cardinality(Num \cup Syn) =
            Cardinality(Num) + Cardinality(Syn) - Cardinality(Num \cap Syn)
        BY <1>2, FS_Union
  <2>3. Cardinality(Num \cap Syn) = 0
        BY <2>1, FS_EmptySet
  <2> QED BY <1>2, <2>1, <2>2, <2>3
<1>4. PICK n \in {0} \cup {Listed(f, t) : f \in Files} : n \in Nat /\ Cardinality(Num) <= n
  <2>1. Num \subseteq {h \in Hashes : h.text = t /\ h.n # 0}
        OBVIOUS
  <2> HIDE DEF Num
  <2> QED BY <1>2, <2>1, NumberedAsListed
<1>5. Cardinality(Syn) <= IF t \in Feed THEN 1 ELSE 0
  <2>1. ASSUME NEW h \in Syn PROVE t \in Feed /\ h = SyncHash(t)
    <3>1. h \in Hashes /\ h.text = t /\ h.n = 0
          OBVIOUS
    <3>2. \A e \in Files : \A l \in LineNos(e) : h # LineHash(e, l)
          BY <3>1, NumberIsCount DEF LineHash
    <3>3. PICK u \in Feed : h = SyncHash(u)
          BY <3>1, <3>2 DEF HashesAreListed
    <3> QED BY <3>1, <3>3 DEF SyncHash
  <2> HIDE DEF Syn
  <2>2. CASE t \in Feed
    <3>1. Syn \in SUBSET {SyncHash(t)}
          BY <2>1
    <3>2. IsFiniteSet({SyncHash(t)}) /\ Cardinality({SyncHash(t)}) = 1
          BY FS_Singleton
    <3> QED BY <2>2, <3>1, <3>2, FS_Subset
  <2>3. CASE t \notin Feed
    <3>1. Syn = {}
          BY <2>1, <2>3
    <3> QED BY <2>3, <3>1, FS_EmptySet
  <2> QED BY <2>2, <2>3
<1>6. Cardinality(InSpelling(t)) <= n + IF t \in Feed THEN 1 ELSE 0
  <2> HIDE DEF All, Num, Syn
  <2>1. Cardinality(InSpelling(t)) \in Nat
        BY <1>1, FS_CardinalityType
  <2> QED BY <1>1, <1>2, <1>3, <1>4, <1>5, <2>1
<1> QED BY <1>4, <1>6

\* For any files, spellings, imports and synchronisations, also after statements
\* were deleted: in one spelling a booking is at most as often in the ledger as
\* some file lists it so, and once more if the bank's interface reports it so.
THEOREM RepetitionBounded == Spec => []RepetitionIsBounded
<1>1. Init => IInv /\ BookingsInv /\ HashesAreListed
      BY InitIInv, InitBookings, InitListed
<1>2. /\ IInv /\ BookingsInv /\ HashesAreListed
      /\ [Next]_vars
      => (IInv /\ BookingsInv /\ HashesAreListed)'
      BY NextIInv, NextBookings, NextListed
<1>3. IInv /\ BookingsInv /\ HashesAreListed => RepetitionIsBounded
      BY BoundedRepetition
<1> QED BY <1>1, <1>2, <1>3, PTL DEF Spec

=============================================================================
