--------------------------- MODULE Reconciliation ---------------------------
(***************************************************************************)
(* The 1:1 reconciliation of two transactions (reconciliation_service.go,  *)
(* reconciliation_repository.go): an internal transfer shows up once on    *)
(* each account, and joining the two bookings by a record takes both out   *)
(* of the analytics.  A call looks the two transactions up, by their       *)
(* content hashes and among what the user may see, and then saves the      *)
(* record in a database transaction of its own.  Records outlive the       *)
(* transactions they name: they hold hashes, not references.               *)
(***************************************************************************)
EXTENDS FiniteSets

CONSTANTS
    Users,
    Hashes,      \* content hashes
    Statements,
    Rows,        \* transactions: one per owner and hash
    Owner, Hash, \* user_id, content_hash
    Statement,   \* bank_statement_id
    Account,     \* bank_account_id
    Visible,     \* the rows a user sees: own and shared ones
    Calls,       \* identities of calls; also the ids of the records they save
    Unset        \* NULL

ASSUME RowsAssumption ==
    /\ Owner \in [Rows -> Users]
    /\ Hash \in [Rows -> Hashes]
    /\ Statement \in [Rows -> Statements \cup {Unset}]
    /\ \A x, z \in Rows : Owner[x] = Owner[z] /\ Hash[x] = Hash[z] => x = z
    /\ Visible \in [Users -> SUBSET Rows]
    /\ \A x \in Rows : x \in Visible[Owner[x]]
ASSUME UnsetAssumption == Unset \notin Calls \cup Statements

VARIABLES
    pc,         \* where a call of ReconcileStatements is
    request,    \* its user and the two hashes
    recs,       \* reconciliations: the calls whose record is stored
    rows,       \* the transactions that exist
    reconciled, \* is_reconciled
    recOf,      \* reconciliation_id
    disturbed   \* history: a pair was saved that was no pair of open own rows
                \* any more, or a reconciled transaction was deleted

vars == <<pc, request, recs, rows, reconciled, recOf, disturbed>>

Request == [user : Users, settlement : Hashes, target : Hashes]
NamedBy(q) == {q.settlement, q.target}

\* Mutated: the rows by hash alone.
MutOwnNamed(q) == {x \in rows : Hash[x] \in NamedBy(q)}

\* The rows the final UPDATE reaches: by hash, and the user's own only.
OwnNamed(q) == {x \in rows : Hash[x] \in NamedBy(q) /\ Owner[x] = q.user}

\* Mutated: the clean-up joins its two conditions by AND.
MutCleaned(q) ==
    {r \in recs : /\ request[r].user = q.user
                  /\ request[r].settlement = q.settlement
                  /\ request[r].target = q.target}

\* The records Save deletes first, "orphaned" or not.
Cleaned(q) ==
    {r \in recs : /\ request[r].user = q.user
                  /\ \/ request[r].settlement = q.settlement
                     \/ request[r].target = q.target}

\* What a search for unreconciled transactions finds under a hash.
Open(u, h) == {x \in rows \cap Visible[u] : Hash[x] = h /\ ~reconciled[x]}

\* The check before ErrSameAccount.  A second one compares the statements, which
\* the search does not load: it refuses nothing.
Separate(x, z) == Account[x] = Unset \/ Account[x] # Account[z]

-----------------------------------------------------------------------------
Init ==
    /\ pc = [c \in Calls |-> "idle"]
    /\ request \in [Calls -> Request]
    /\ recs = {}
    /\ rows = Rows
    /\ reconciled = [x \in Rows |-> FALSE]
    /\ recOf = [x \in Rows |-> Unset]
    /\ disturbed = FALSE

\* ReconcileStatements up to the save.  Of several visible rows with one hash
\* the loop keeps the last.
Check(c) ==
    /\ pc[c] = "idle"
    /\ \E x \in Open(request[c].user, request[c].settlement) :
       \E z \in Open(request[c].user, request[c].target) :
          /\ Separate(x, z)
          /\ request[c].settlement = request[c].target => x = z
    /\ pc' = [pc EXCEPT ![c] = "save"]
    /\ UNCHANGED <<request, recs, rows, reconciled, recOf, disturbed>>

\* Save, one database transaction: clean up (the foreign key clears the
\* pointers to what is deleted), insert, mark.  The uniqueness constraints are
\* left out; RolesAreUnique shows that they are never in the way.
Save(c) ==
    LET q == request[c] IN
    /\ pc[c] = "save"
    /\ pc' = [pc EXCEPT ![c] = "done"]
    /\ recs' = (recs \ Cleaned(q)) \cup {c}
    /\ reconciled' = [x \in Rows |-> reconciled[x] \/ x \in OwnNamed(q)]
    /\ recOf' = [x \in Rows |-> IF x \in OwnNamed(q) THEN c
                                ELSE IF recOf[x] \in Cleaned(q) THEN Unset ELSE recOf[x]]
    /\ disturbed' = \/ disturbed
                    \/ {Hash[x] : x \in {x \in OwnNamed(q) : ~reconciled[x]}} # NamedBy(q)
    /\ UNCHANGED <<request, rows>>

\* Save fails, rolled back; or the process stops in between.
SaveFails(c) ==
    /\ pc[c] = "save"
    /\ pc' = [pc EXCEPT ![c] = "done"]
    /\ UNCHANGED <<request, recs, rows, reconciled, recOf, disturbed>>

\* Mutated: the record is deleted and the foreign key does the rest.
MutDeleteReconciliation(r, u) ==
    /\ r \in recs
    /\ request[r].user = u
    /\ recs' = recs \ {r}
    /\ recOf' = [x \in Rows |-> IF recOf[x] = r THEN Unset ELSE recOf[x]]
    /\ UNCHANGED <<pc, request, rows, reconciled, disturbed>>

\* Delete, one database transaction: the user's rows are released, then the
\* record goes.  Another user's record is not found, and all is rolled back.
DeleteReconciliation(r, u) ==
    LET freed == {x \in Rows : recOf[x] = r /\ Owner[x] = u} IN
    /\ r \in recs
    /\ request[r].user = u
    /\ recs' = recs \ {r}
    /\ reconciled' = [x \in Rows |-> reconciled[x] /\ x \notin freed]
    /\ recOf' = [x \in Rows |-> IF recOf[x] = r THEN Unset ELSE recOf[x]]
    /\ UNCHANGED <<pc, request, rows, disturbed>>

\* Mutated: the transactions are only hidden and come back as they were.
MutDeleteStatement(s) ==
    /\ \E x \in rows : Statement[x] = s
    /\ rows' = {x \in rows : Statement[x] # s}
    /\ disturbed' = (disturbed \/ \E x \in rows : Statement[x] = s /\ reconciled[x])
    /\ UNCHANGED <<pc, request, recs, reconciled, recOf>>

\* DeleteStatement takes its transactions along, and no record.
DeleteStatement(s) ==
    /\ \E x \in rows : Statement[x] = s
    /\ rows' = {x \in rows : Statement[x] # s}
    /\ reconciled' = [x \in Rows |-> reconciled[x] /\ Statement[x] # s]
    /\ recOf' = [x \in Rows |-> IF Statement[x] = s THEN Unset ELSE recOf[x]]
    /\ disturbed' = (disturbed \/ \E x \in rows : Statement[x] = s /\ reconciled[x])
    /\ UNCHANGED <<pc, request, recs>>

\* The file is imported again: the same hashes, not reconciled.
Reimport(s) ==
    /\ \A x \in rows : Statement[x] # s
    /\ \E x \in Rows : Statement[x] = s
    /\ rows' = rows \cup {x \in Rows : Statement[x] = s}
    /\ UNCHANGED <<pc, request, recs, reconciled, recOf, disturbed>>

Next ==
    \/ \E c \in Calls : Check(c) \/ Save(c) \/ SaveFails(c)
    \/ \E r \in Calls, u \in Users : DeleteReconciliation(r, u)
    \/ \E s \in Statements : DeleteStatement(s) \/ Reimport(s)

Spec == Init /\ [][Next]_vars

-----------------------------------------------------------------------------
\* A transaction that is gone has no mark.
TypeOK ==
    /\ pc \in [Calls -> {"idle", "save", "done"}]
    /\ request \in [Calls -> Request]
    /\ recs \subseteq {c \in Calls : pc[c] = "done"}
    /\ rows \subseteq Rows
    /\ reconciled \in [Rows -> BOOLEAN]
    /\ recOf \in [Rows -> Calls \cup {Unset}]
    /\ disturbed \in BOOLEAN
    /\ \A x \in Rows \ rows : ~reconciled[x] /\ recOf[x] = Unset

\* A transaction that refers to a record is reconciled, and the record exists,
\* is its owner's and names it: reconciling a shared transaction never marks
\* the other user's row, whatever was deleted, re-imported or saved late.
MarksPointToOwnRecords ==
    \A x \in rows : recOf[x] # Unset =>
        /\ reconciled[x]
        /\ recOf[x] \in recs
        /\ request[recOf[x]].user = Owner[x]
        /\ Hash[x] \in NamedBy(request[recOf[x]])

\* No user has two records with one settlement or with one target: the clean-up
\* makes room for every record, after re-imports too, so that the constraints
\* of the table refuse none of them.
RolesAreUnique ==
    \A r, s \in recs :
        /\ request[r].user = request[s].user
        /\ \/ request[r].settlement = request[s].settlement
           \/ request[r].target = request[s].target
        => r = s

\* Unless a pair was saved after its check had gone stale, a foreign row was
\* reconciled, or a reconciled statement was deleted, records and marks are a
\* matching: a transaction is reconciled exactly when one record names it, and
\* then both transactions of the record point back to it.
OneToOneUndisturbed ==
    ~disturbed =>
        /\ \A x \in rows : reconciled[x] => recOf[x] \in recs
        /\ \A r \in recs : \A h \in NamedBy(request[r]) :
               \E x \in rows : Owner[x] = request[r].user /\ Hash[x] = h /\ recOf[x] = r

\* What Save's comment says of the records it deletes: "orphaned reconciliation
\* records (e.g., from deleted/re-imported statements)".  A record is live when
\* every transaction of its user that it names points to it; none of these may
\* be left reconciled with nothing, which no call could undo.
Live(r) == /\ \E x \in rows : recOf[x] = r
           /\ \A x \in OwnNamed(request[r]) : recOf[x] = r
OnlyOrphansCleaned ==
    [][\A c \in Calls : Save(c) =>
          \A r \in recs \ recs' :
             Live(r) => \A x \in OwnNamed(request[r]) : recOf'[x] # Unset]_vars

=============================================================================
