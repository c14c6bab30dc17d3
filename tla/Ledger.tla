------------------------------- MODULE Ledger -------------------------------
(***************************************************************************)
(* How transactions get into a user's ledger and out of it again           *)
(* (bank_statement_service.go, bank_service.go).  A statement file is      *)
(* parsed, compared with the transactions already there, saved with the    *)
(* lines that are new, and the lines that were known are re-linked to the  *)
(* new statement one by one.  A bank synchronisation inserts what the      *)
(* bank's interface reports.  Deleting a statement deletes the             *)
(* transactions linked to it.  Uploads, the import directory's worker,     *)
(* synchronisations and deletions run at the same time.                    *)
(*                                                                         *)
(* A text stands for what identifies a booking in one spelling: IBAN, day, *)
(* amount, description, reference.  The bank's interface and a statement   *)
(* spell the same booking differently; Similar says which spellings        *)
(* findDuplicateIndex takes for the same booking.  Two bookings of a day   *)
(* may have the same text.                                                 *)
(***************************************************************************)
EXTENDS Naturals, FiniteSets, Sequences

CONSTANTS
    Texts,
    Similar,     \* pairs of a new and a known text
    Files,       \* statements, told apart by their content hash
    Lines,       \* the texts of a statement's lines
    Feed,        \* the texts the bank's interface reports
    Imports,     \* identities of calls of ImportFromFile
    Syncs,       \* identities of calls of SyncAccount: bounds them
    NoStatement, \* bank_statement_id IS NULL
    NoRow        \* findDuplicateIndex = -1

ASSUME TextsAssumption ==
    /\ Similar \subseteq Texts \X Texts
    /\ \A t \in Texts : <<t, t>> \in Similar
    /\ Feed \subseteq Texts
    /\ IsFiniteSet(Texts)
ASSUME FilesAssumption ==
    /\ IsFiniteSet(Files)
    /\ Lines \in [Files -> Seq(Texts)]
ASSUME RunsAssumption ==
    /\ IsFiniteSet(Imports)
    /\ Imports \cap Syncs = {}
    /\ NoStatement \notin Imports

VARIABLES
    file,     \* the file a call of ImportFromFile was given
    pc,       \* where it is
    match,    \* for each line the id of the row it duplicates, or NoRow
    links,    \* linkTxIDs not yet linked
    stmts,    \* bank_statements, named by the import that saved them
    rows,     \* transactions
    synced,   \* synchronisations done
    deleted   \* history: statements that were deleted

vars == <<file, pc, match, links, stmts, rows, synced, deleted>>

\* txCounts[baseStr] when line k of the file is hashed.
Occurrence(f, k) == Cardinality({i \in 1..k : Lines[f][i] = Lines[f][k]})

\* content_hash.  A file's lines are hashed with the counter; a synchronised
\* transaction is hashed by another scheme and without one.
LineHash(f, k) == [text |-> Lines[f][k], n |-> Occurrence(f, k)]
SyncHash(t)    == [text |-> t, n |-> 0]

LineNos(f) == DOMAIN Lines[f]

\* findDuplicateIndex takes row r for the booking of this text.
SameBooking(t, r) == <<t, r.hash.text>> \in Similar

\* Mutated: one known row may stand for several lines.
MutDuplicates(f, known, m) ==
    \A k \in LineNos(f) :
        LET free == {r.id : r \in {r \in known : SameBooking(Lines[f][k], r)}}
        IN  IF free = {} THEN m[k] = NoRow ELSE m[k] \in free

\* The loop over the lines: each takes the first known row that is similar and
\* not taken yet out of availableTxns.
Duplicates(f, known, m) ==
    \A k \in LineNos(f) :
        LET free == {r.id : r \in {r \in known : SameBooking(Lines[f][k], r)}}
                        \ {m[i] : i \in 1..(k - 1)}
        IN  IF free = {} THEN m[k] = NoRow ELSE m[k] \in free

\* An insertion with ON CONFLICT (content_hash, user_id): what is known stays.
Merged(new) == rows \cup {r \in new : \A old \in rows : old.hash # r.hash}

\* The rows after Save has inserted the statement's new lines.
Inserted(i) ==
    LET f == file[i]
    IN  Merged({[id |-> <<i, k>>, hash |-> LineHash(f, k), stmt |-> i] :
                   k \in {k \in LineNos(f) : match[i][k] = NoRow}})

-----------------------------------------------------------------------------
Init ==
    /\ file \in [Imports -> Files]
    /\ pc = [i \in Imports |-> "idle"]
    /\ match = [i \in Imports |-> <<>>]
    /\ links = [i \in Imports |-> {}]
    /\ stmts = {}
    /\ rows = {}
    /\ synced = {}
    /\ deleted = {}

Goto(i, l) == pc' = [pc EXCEPT ![i] = l]

\* ImportFromFile up to the save: parse, hash, and look for duplicates among
\* the rows that exist now.  If they cannot be read there are no duplicates.
Deduplicate(i) ==
    /\ pc[i] = "idle"
    /\ \E m \in [LineNos(file[i]) -> {r.id : r \in rows} \cup {NoRow}] :
           /\ \/ Duplicates(file[i], rows, m)
              \/ \A k \in LineNos(file[i]) : m[k] = NoRow
           /\ match' = [match EXCEPT ![i] = m]
           /\ links' = [links EXCEPT ![i] = {m[k] : k \in LineNos(file[i])} \ {NoRow}]
    /\ Goto(i, "save")
    /\ UNCHANGED <<file, stmts, rows, synced, deleted>>

\* Mutated: the statement is known by its content hash instead of its id.
MutSave(i) ==
    /\ pc[i] = "save"
    /\ \A s \in stmts : s # file[i]
    /\ stmts' = stmts \cup {file[i]}
    /\ rows' = Inserted(i)
    /\ match' = [match EXCEPT ![i] = <<>>]
    /\ Goto(i, "link")
    /\ UNCHANGED <<file, links, synced, deleted>>

\* Save, one database transaction.  A statement with the same content hash is
\* ErrDuplicate, and the whole import ends there.
Save(i) ==
    /\ pc[i] = "save"
    /\ \A s \in stmts : file[s] # file[i]
    /\ stmts' = stmts \cup {i}
    /\ rows' = Inserted(i)
    /\ match' = [match EXCEPT ![i] = <<>>]
    /\ Goto(i, "link")
    /\ UNCHANGED <<file, links, synced, deleted>>

\* ErrDuplicate, or any other failure of Save: it is rolled back.
SaveFails(i) ==
    /\ pc[i] = "save"
    /\ match' = [match EXCEPT ![i] = <<>>]
    /\ links' = [links EXCEPT ![i] = {}]
    /\ Goto(i, "done")
    /\ UNCHANGED <<file, stmts, rows, synced, deleted>>

\* Mutated: a link that does not look whether the statement is still there.
MutLink(i) ==
    /\ pc[i] = "link"
    /\ \E x \in links[i] :
           /\ links' = [links EXCEPT ![i] = @ \ {x}]
           /\ rows' = {IF r.id = x THEN [r EXCEPT !.stmt = i] ELSE r : r \in rows}
    /\ UNCHANGED <<file, pc, match, stmts, synced, deleted>>

\* One LinkTransactionToStatement.  It fails, and the loop goes on, when the
\* row is gone, or when the statement is and the foreign key refuses it.
Link(i) ==
    /\ pc[i] = "link"
    /\ \E x \in links[i] :
           /\ links' = [links EXCEPT ![i] = @ \ {x}]
           /\ \/ /\ i \in stmts
                 /\ rows' = {IF r.id = x THEN [r EXCEPT !.stmt = i] ELSE r : r \in rows}
              \/ UNCHANGED rows
    /\ UNCHANGED <<file, pc, match, stmts, synced, deleted>>

ImportDone(i) ==
    /\ pc[i] = "link"
    /\ links[i] = {}
    /\ Goto(i, "done")
    /\ UNCHANGED <<file, match, links, stmts, rows, synced, deleted>>

\* Mutated: the synchronisation hashes its transactions as new each time.
MutSync(y) ==
    /\ y \notin synced
    /\ \E W \in SUBSET Feed :
           rows' = rows \cup {[id |-> <<y, t>>, hash |-> [text |-> t, n |-> 0],
                               stmt |-> NoStatement] : t \in W}
    /\ synced' = synced \cup {y}
    /\ UNCHANGED <<file, pc, match, links, stmts, deleted>>

\* SyncAccount: what the bank reports for the window of days is inserted in one
\* batch.  It reads nothing of the ledger first.
Sync(y) ==
    /\ y \notin synced
    /\ \E W \in SUBSET Feed :
           rows' = Merged({[id |-> <<y, t>>, hash |-> SyncHash(t), stmt |-> NoStatement] :
                              t \in W})
    /\ synced' = synced \cup {y}
    /\ UNCHANGED <<file, pc, match, links, stmts, deleted>>

\* DeleteStatement, with ON DELETE CASCADE of its transactions.
DeleteStatement(s) ==
    /\ s \in stmts
    /\ stmts' = stmts \ {s}
    /\ rows' = {r \in rows : r.stmt # s}
    /\ deleted' = deleted \cup {s}
    /\ UNCHANGED <<file, pc, match, links, synced>>

\* The process stops: imports end where they are, the database stays.
Restart ==
    /\ \E i \in Imports : pc[i] \in {"save", "link"}
    /\ pc' = [i \in Imports |-> IF pc[i] = "idle" THEN "idle" ELSE "done"]
    /\ match' = [i \in Imports |-> <<>>]
    /\ links' = [i \in Imports |-> {}]
    /\ UNCHANGED <<file, stmts, rows, synced, deleted>>

ImportStep(i) == Save(i) \/ SaveFails(i) \/ Link(i) \/ ImportDone(i)

Next ==
    \/ \E i \in Imports : Deduplicate(i) \/ ImportStep(i)
    \/ \E y \in Syncs : Sync(y)
    \/ \E s \in Imports : DeleteStatement(s)
    \/ Restart

Spec == Init /\ [][Next]_vars

-----------------------------------------------------------------------------
Hash   == [text : Texts, n : Nat]
RowIds == (Imports \X Nat) \cup (Syncs \X Texts)
Row    == [id : RowIds, hash : Hash, stmt : Imports \cup {NoStatement}]

TypeOK ==
    /\ file \in [Imports -> Files]
    /\ pc \in [Imports -> {"idle", "save", "link", "done"}]
    /\ \A i \in Imports :
           pc[i] = "save" =>
               match[i] \in [LineNos(file[i]) -> RowIds \cup {NoRow}]
    /\ links \in [Imports -> SUBSET RowIds]
    /\ stmts \subseteq Imports
    /\ rows \subseteq Row
    /\ synced \subseteq Syncs
    /\ deleted \subseteq Imports

\* How often a file lists a text.
Listed(f, t) == Cardinality({k \in LineNos(f) : Lines[f][k] = t})
Known(t)      == {r \in rows : SameBooking(t, r)}
InSpelling(t) == {r \in rows : r.hash.text = t}

\* As long as no statement was deleted, every saved statement's bookings are
\* in the ledger, repeated ones as often as the statement lists them, whatever
\* ran at the same time, failed or crashed.
BookingsKept ==
    deleted = {} => \A s \in stmts : \A k \in LineNos(file[s]) :
        Cardinality(Known(Lines[file[s]][k])) >= Listed(file[s], Lines[file[s]][k])

\* A transaction belongs to a statement that exists and that lists it: a
\* deletion never takes a booking the deleted statement did not show.
LinkedRowsAreListed ==
    \A r \in rows : r.stmt # NoStatement =>
        /\ r.stmt \in stmts
        /\ \E k \in LineNos(file[r.stmt]) : SameBooking(Lines[file[r.stmt]][k], r)

\* However often and in whatever order files are imported and deleted and the
\* account is synchronised: in one spelling, a booking is in the ledger at most
\* as often as some one file lists it so, and once more if the bank's interface
\* reports it so.
RepetitionIsBounded ==
    \A t \in Texts :
        \E n \in {0} \cup {Listed(f, t) : f \in Files} :
            Cardinality(InSpelling(t)) <= n + IF t \in Feed THEN 1 ELSE 0


=============================================================================
