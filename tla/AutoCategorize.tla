--------------------------- MODULE AutoCategorize ---------------------------
(***************************************************************************)
(* Auto-categorisation (transaction_service.go): a caller snapshots the    *)
(* user's uncategorised transactions, registers a run with the shared      *)
(* JobManager and starts a goroutine that works through the snapshot in    *)
(* batches: a historical match in the database first, the language model   *)
(* for the rest, one bulk update per category the model named.  Between    *)
(* any two of these calls other callers start runs, a client cancels,      *)
(* users categorise by hand, statements are deleted, and the process may   *)
(* stop and come back with an empty tracker.                               *)
(*                                                                         *)
(* A run is a member of Jobs, used once.  Texts are abstracted to Key: two *)
(* transactions with the same description and counterparty have one key.   *)
(* The order of work inside a batch is not fixed: no result depends on it. *)
(***************************************************************************)
EXTENDS JobManager, FiniteSets, Sequences, FiniteSetsExt, SequencesExt

CONSTANTS
    Jobs,        \* identities of runs
    Txns,        \* content hashes
    Cats,        \* category ids
    Keys,        \* description|counterparty
    Users,
    Owner,       \* the user a transaction belongs to
    Key,         \* its dedupKey
    CatsOf,      \* the categories a user sees, those shared with it included
    NoCat,       \* category_id IS NULL
    BatchSize,
    Cancels,     \* the runs clients may cancel: bounds the environment
    Edits        \* the rows users edit by hand or delete: bounds it likewise

ASSUME JobsAssumption == NoJob \notin Jobs
ASSUME TxnsAssumption ==
    /\ IsFiniteSet(Txns)
    /\ Owner \in [Txns -> Users]
    /\ Key \in [Txns -> Keys]
    /\ CatsOf \in [Users -> SUBSET Cats]
    /\ IsFiniteSet(Cats) /\ NoCat \notin Cats
ASSUME BatchAssumption == BatchSize \in Nat \ {0}
ASSUME CancelsAssumption == Cancels \subseteq Jobs
ASSUME EditsAssumption == Edits \subseteq Txns

VARIABLES
    jm,        \* the JobManager
    ctxDone,   \* runs whose context was cancelled
    rows,      \* the transactions that exist
    category,  \* transactions.category_id
    foreign,   \* history: categories a user set by hand without seeing them
    pc,        \* where the caller, then the goroutine, of a run is
    user,      \* whose transactions a run works on
    txns,      \* toCategorize: the snapshot, in query order
    next,      \* the loop variable i
    todo,      \* the batch's transactions not yet looked up in the database
    hit,       \* matchedID: the transaction just looked up and its match
    viaLLM,    \* the batch's transactions left for the model
    answer,    \* (key, category) pairs of the model not yet written
    found      \* successfulResults of the batch

batchVars == <<next, todo, hit, viaLLM, answer, found>>
vars == <<jm, ctxDone, rows, category, foreign, pc, user, txns, batchVars>>

Working  == {"check", "match", "llm", "write"}   \* inside runCategorizeLoop
Leaving  == {"defer", "finish"}                  \* its deferred function
Live     == Working \cup Leaving
Location == {"idle", "starting", "done"} \cup Live

LiveJobs    == {j \in Jobs : pc[j] \in Live}
WorkingJobs == {j \in Jobs : pc[j] \in Working}

Uncategorised(u) == {t \in rows : Owner[t] = u /\ category[t] = NoCat}

\* What a user may set without seeing it: categories of somebody else.
Foreign == {p \in Users \X Cats : p[2] \notin CatsOf[p[1]]}

\* end := i + batchSize, clamped; batch := txns[i:end].
BatchEnd(j) == IF next[j] + BatchSize > Len(txns[j]) THEN Len(txns[j])
                                                     ELSE next[j] + BatchSize
Batch(j)    == {txns[j][k] : k \in (next[j] + 1)..BatchEnd(j)}

\* Mutated: the historical match without its user_id condition.
MutCategorised(u) == {t \in rows : category[t] # NoCat}

\* FindMatchingCategory: a categorised transaction of the user with the same
\* texts decides; otherwise a similar one may, or none is found.
Categorised(u) == {t \in rows : Owner[t] = u /\ category[t] # NoCat}
Matches(u, t) ==
    LET exact == {x \in Categorised(u) : Key[x] = Key[t]}
    IN  IF exact # {} THEN {category[x] : x \in exact}
                      ELSE {category[x] : x \in Categorised(u)} \cup {NoCat}

-----------------------------------------------------------------------------
Init ==
    /\ jm = IdleTracker
    /\ ctxDone = {}
    /\ rows = Txns
    /\ category = [t \in Txns |-> NoCat]
    /\ foreign = {}
    /\ pc = [j \in Jobs |-> "idle"]
    /\ user \in [Jobs -> Users]
    /\ txns = [j \in Jobs |-> <<>>]
    /\ next = [j \in Jobs |-> 0]
    /\ todo = [j \in Jobs |-> {}]
    /\ hit = [j \in Jobs |-> {}]
    /\ viaLLM = [j \in Jobs |-> {}]
    /\ answer = [j \in Jobs |-> {}]
    /\ found = [j \in Jobs |-> {}]

Goto(j, l) == pc' = [pc EXCEPT ![j] = l]

\* StartAutoCategorizeAsync up to JobTracker.Start: read what has no category.
\* An empty snapshot is ErrNothingToCategorize and changes nothing.
Snapshot(j) ==
    /\ pc[j] = "idle"
    /\ Uncategorised(user[j]) # {}
    /\ \E s \in SetToSeqs(Uncategorised(user[j])) :
           txns' = [txns EXCEPT ![j] = s]
    /\ Goto(j, "starting")
    /\ UNCHANGED <<jm, ctxDone, rows, category, foreign, user, batchVars>>

\* The rest of it: the tracker takes the run and the goroutine begins, or the
\* caller gets ErrJobAlreadyRunning and the snapshot is dropped.
StartAccepted(j) ==
    /\ pc[j] = "starting"
    /\ ~AlreadyRunning(jm)
    /\ jm' = Started(jm, Len(txns[j]), j)
    /\ Goto(j, "check")
    /\ UNCHANGED <<ctxDone, rows, category, foreign, user, txns, batchVars>>

StartRejected(j) ==
    /\ pc[j] = "starting"
    /\ AlreadyRunning(jm)
    /\ txns' = [txns EXCEPT ![j] = <<>>]
    /\ Goto(j, "idle")
    /\ UNCHANGED <<jm, ctxDone, rows, category, foreign, user, batchVars>>

\* The head of the batch loop: ctx.Done() first, then the loop condition.
CheckCancelled(j) ==
    /\ pc[j] = "check"
    /\ next[j] < Len(txns[j])
    /\ j \in ctxDone
    /\ jm' = Finished(jm, "cancelled")
    /\ Goto(j, "defer")
    /\ UNCHANGED <<ctxDone, rows, category, foreign, user, txns, batchVars>>

NextBatch(j) ==
    /\ pc[j] = "check"
    /\ next[j] < Len(txns[j])
    /\ j \notin ctxDone
    /\ todo' = [todo EXCEPT ![j] = Batch(j)]
    /\ hit' = [hit EXCEPT ![j] = {}]
    /\ viaLLM' = [viaLLM EXCEPT ![j] = {}]
    /\ found' = [found EXCEPT ![j] = {}]
    /\ Goto(j, "match")
    /\ UNCHANGED <<jm, ctxDone, rows, category, foreign, user, txns, next, answer>>

\* Mutated: the loop ends without the deferred function.
MutLoopDone(j) ==
    /\ pc[j] = "check"
    /\ next[j] >= Len(txns[j])
    /\ Goto(j, "done")
    /\ UNCHANGED <<jm, ctxDone, rows, category, foreign, user, txns, batchVars>>

LoopDone(j) ==
    /\ pc[j] = "check"
    /\ next[j] >= Len(txns[j])
    /\ Goto(j, "defer")
    /\ UNCHANGED <<jm, ctxDone, rows, category, foreign, user, txns, batchVars>>

\* FindMatchingCategory names a category for one transaction of the batch.  The
\* queries carry the run's context: none works once it is cancelled.
FindMatch(j) ==
    /\ pc[j] = "match"
    /\ j \notin ctxDone
    /\ hit[j] = {}
    /\ \E t \in todo[j] : \E c \in Matches(user[j], t) \ {NoCat} :
           /\ hit' = [hit EXCEPT ![j] = {<<t, c>>}]
           /\ todo' = [todo EXCEPT ![j] = @ \ {t}]
    /\ UNCHANGED <<jm, ctxDone, rows, category, foreign, pc, user, txns,
                   next, viaLLM, answer, found>>

\* UpdateTransactionCategory sets it, whatever the row holds by now.
MatchInDatabase(j) ==
    /\ pc[j] = "match"
    /\ j \notin ctxDone
    /\ \E p \in hit[j] :
           /\ p[1] \in rows
           /\ category' = [category EXCEPT ![p[1]] = p[2]]
           /\ found' = [found EXCEPT ![j] = @ \cup {Result(p[1], p[2])}]
    /\ hit' = [hit EXCEPT ![j] = {}]
    /\ UNCHANGED <<jm, ctxDone, rows, foreign, pc, user, txns, next, todo, viaLLM, answer>>

\* No match, or the lookup failed: the model will be asked.
LeaveForLLM(j) ==
    /\ pc[j] = "match"
    /\ hit[j] = {}
    /\ \E t \in todo[j] :
           /\ todo' = [todo EXCEPT ![j] = @ \ {t}]
           /\ viaLLM' = [viaLLM EXCEPT ![j] = @ \cup {t}]
    /\ UNCHANGED <<jm, ctxDone, rows, category, foreign, pc, user, txns,
                   next, hit, answer, found>>

\* The update failed, which includes a row that is gone, or only its answer was
\* lost: the model will be asked all the same.
MatchFails(j) ==
    /\ pc[j] = "match"
    /\ \E p \in hit[j] :
           /\ viaLLM' = [viaLLM EXCEPT ![j] = @ \cup {p[1]}]
           /\ \/ UNCHANGED category
              \/ p[1] \in rows /\ category' = [category EXCEPT ![p[1]] = p[2]]
    /\ hit' = [hit EXCEPT ![j] = {}]
    /\ UNCHANGED <<jm, ctxDone, rows, foreign, pc, user, txns, next, todo, answer, found>>

CallLLM(j) ==
    /\ pc[j] = "match"
    /\ todo[j] = {} /\ hit[j] = {}
    /\ Goto(j, IF viaLLM[j] = {} THEN "write" ELSE "llm")
    /\ UNCHANGED <<jm, ctxDone, rows, category, foreign, user, txns, batchVars>>

\* The model's answer, reduced to what the code keeps of it: for keys of the
\* batch, names that are categories of the user (a key may get several).
LLMAnswers(j) ==
    /\ pc[j] = "llm"
    /\ \E a \in SUBSET ({Key[t] : t \in viaLLM[j]} \X CatsOf[user[j]]) :
           answer' = [answer EXCEPT ![j] = a]
    /\ Goto(j, "write")
    /\ UNCHANGED <<jm, ctxDone, rows, category, foreign, user, txns, next, todo, hit, viaLLM, found>>

\* Mutated: i advanced before the batch is counted.
MutReport(j) ==
    /\ jm' = Added(jm, BatchEnd(j) - (next[j] + BatchSize), found[j])
    /\ next' = [next EXCEPT ![j] = next[j] + BatchSize]
    /\ Goto(j, "check")
    /\ UNCHANGED <<ctxDone, rows, category, foreign, user, txns, todo, hit, viaLLM, answer, found>>

\* AddResults(len(batch), successfulResults), then the next round.
Report(j) ==
    /\ jm' = Added(jm, BatchEnd(j) - next[j], found[j])
    /\ next' = [next EXCEPT ![j] = next[j] + BatchSize]
    /\ Goto(j, "check")
    /\ UNCHANGED <<ctxDone, rows, category, foreign, user, txns, todo, hit, viaLLM, answer, found>>

LLMFails(j) ==
    /\ pc[j] = "llm"
    /\ IF j \in ctxDone
       THEN /\ jm' = Finished(jm, "cancelled")
            /\ Goto(j, "defer")
            /\ UNCHANGED <<ctxDone, rows, category, foreign, user, txns, batchVars>>
       ELSE Report(j)

\* One UpdateTransactionCategoriesBulk: the rows that still exist are set and
\* every hash of the group is reported.  A failure, a cancelled context among
\* them, loses the report, and may come after the rows were set.
WriteGroup(j) ==
    /\ pc[j] = "write"
    /\ \E c \in {p[2] : p \in answer[j]} :
           LET hashes == {t \in viaLLM[j] : <<Key[t], c>> \in answer[j]}
           IN  /\ answer' = [answer EXCEPT ![j] = {p \in @ : p[2] # c}]
               /\ \/ UNCHANGED <<category, found>>
                  \/ /\ category' = [t \in Txns |-> IF t \in hashes \cap rows
                                                    THEN c ELSE category[t]]
                     /\ \/ UNCHANGED found
                        \/ /\ j \notin ctxDone
                           /\ found' = [found EXCEPT
                                          ![j] = @ \cup {Result(t, c) : t \in hashes}]
    /\ UNCHANGED <<jm, ctxDone, rows, foreign, pc, user, txns, next, todo, hit, viaLLM>>

BatchDone(j) ==
    /\ pc[j] = "write"
    /\ answer[j] = {}
    /\ Report(j)

\* Mutated: a deferred function that waits for somebody else's Finish.
MutDeferRead(j) ==
    /\ pc[j] = "defer"
    /\ jm.status = "running"
    /\ Goto(j, "finish")
    /\ UNCHANGED <<jm, ctxDone, rows, category, foreign, user, txns, batchVars>>

\* The deferred function reads the status and, in a second call, finishes.
DeferRead(j) ==
    /\ pc[j] = "defer"
    /\ Goto(j, IF jm.status = "running" THEN "finish" ELSE "done")
    /\ UNCHANGED <<jm, ctxDone, rows, category, foreign, user, txns, batchVars>>

DeferFinish(j) ==
    /\ pc[j] = "finish"
    /\ jm' = Finished(jm, "completed")
    /\ Goto(j, "done")
    /\ UNCHANGED <<ctxDone, rows, category, foreign, user, txns, batchVars>>

-----------------------------------------------------------------------------
\* CancelJob, from the cancel button of any user or from the shutdown sequence.
Cancel ==
    /\ Cancellable(jm)
    /\ jm.cancelFunc \in Cancels
    /\ ctxDone' = ctxDone \cup {jm.cancelFunc}
    /\ jm' = Cancelled(jm)
    /\ UNCHANGED <<rows, category, foreign, pc, user, txns, batchVars>>

\* A user sets or clears a category by hand (UpdateCategory).  The row must be
\* the user's own, the category may be any id.
UpdateCategory(t) ==
    /\ t \in rows
    /\ \E c \in Cats \cup {NoCat} :
           /\ category' = [category EXCEPT ![t] = c]
           /\ foreign' = foreign \cup ({<<Owner[t], c>>} \cap Foreign)
    /\ UNCHANGED <<jm, ctxDone, rows, pc, user, txns, batchVars>>

\* A statement with this transaction is deleted.
DeleteRow(t) ==
    /\ t \in rows
    /\ rows' = rows \ {t}
    /\ category' = [category EXCEPT ![t] = NoCat]
    /\ UNCHANGED <<jm, ctxDone, foreign, pc, user, txns, batchVars>>

\* The process stops and starts again: the tracker and the goroutines are
\* memory, the rows are not.
Restart ==
    /\ jm' = IdleTracker
    /\ pc' = [j \in Jobs |-> IF pc[j] = "idle" THEN "idle" ELSE "done"]
    /\ UNCHANGED <<ctxDone, rows, category, foreign, user, txns, batchVars>>

JobStep(j) ==
    \/ StartAccepted(j) \/ StartRejected(j)
    \/ CheckCancelled(j) \/ NextBatch(j) \/ LoopDone(j)
    \/ FindMatch(j) \/ MatchInDatabase(j) \/ LeaveForLLM(j) \/ MatchFails(j) \/ CallLLM(j)
    \/ LLMAnswers(j) \/ LLMFails(j) \/ WriteGroup(j) \/ BatchDone(j)
    \/ DeferRead(j) \/ DeferFinish(j)

Next ==
    \/ \E j \in Jobs : Snapshot(j) \/ JobStep(j)
    \/ Cancel
    \/ \E t \in Edits : UpdateCategory(t) \/ DeleteRow(t)
    \/ Restart

Spec == Init /\ [][Next]_vars

\* A goroutine is scheduled again and again, and its calls return: the model's
\* HTTP client has a timeout of two minutes, and the database is assumed to
\* answer or to fail.  Nobody is obliged to start, cancel, edit or restart.
FairSpec == Spec /\ \A j \in Jobs : WF_vars(JobStep(j))

-----------------------------------------------------------------------------
Results == [hash : Txns, category : Cats]
Tracker ==
    [isRunning : BOOLEAN,
     status : {"idle", "running", "cancelled", "completed"},
     total : Nat, processed : Nat,
     results : SUBSET Results,
     cancelFunc : Jobs \cup {NoJob}]

TypeOK ==
    /\ jm \in Tracker
    /\ ctxDone \subseteq Jobs
    /\ rows \subseteq Txns
    /\ category \in [Txns -> Cats \cup {NoCat}]
    /\ foreign \subseteq Foreign
    /\ pc \in [Jobs -> Location]
    /\ user \in [Jobs -> Users]
    /\ txns \in [Jobs -> Seq(Txns)]
    /\ next \in [Jobs -> Nat]
    /\ todo \in [Jobs -> SUBSET Txns]
    /\ hit \in [Jobs -> SUBSET (Txns \X Cats)]
    /\ viaLLM \in [Jobs -> SUBSET Txns]
    /\ answer \in [Jobs -> SUBSET (Keys \X Cats)]
    /\ found \in [Jobs -> SUBSET Results]

\* Nobody has cancelled anything yet.
Undisturbed == ctxDone = {}

\* What ErrJobAlreadyRunning promises ("a batch categorization job is already
\* running"): two goroutines never categorise at the same time.
AtMostOneRunner == \A i, j \in LiveJobs : i = j

\* The same as far as the code keeps it: as long as no run was cancelled, the
\* tracker's check excludes a second goroutine, the deferred Finish included.
ExclusiveUndisturbed == Undisturbed => AtMostOneRunner

\* What the rejection of a start means: a run is in progress.
RunningMeansInProgress == jm.isRunning => LiveJobs # {}

\* The status page never shows "running" when no goroutine is left: a tracker
\* that is stuck is stuck as "cancelled", whoever finished whose run.
StatusRunningIsLive ==
    jm.isRunning /\ jm.status = "running" => jm.cancelFunc \in LiveJobs

\* A run that ended as "completed" without any cancellation has accounted for
\* every transaction of its snapshot, and never for more than those.
ProgressIsExact ==
    Undisturbed => /\ jm.processed <= jm.total
                   /\ jm.status = "completed" => jm.processed = jm.total

\* Results are those of the run that is registered: they name transactions of
\* its snapshot that it has already accounted for.
ResultsAreOwn ==
    Undisturbed => \A j \in LiveJobs : \A r \in jm.results :
        \E k \in 1..Len(txns[j]) : k <= jm.processed /\ txns[j][k] = r.hash

\* A run brings no category into a user's transactions that the user does not
\* see: what is there was set by hand, or belongs to the user or is shared with
\* it, however many runs of different users share the tracker.
CategoriesStayWithOwner ==
    \A t \in Txns : category[t] # NoCat /\ category[t] \notin CatsOf[Owner[t]] =>
                        <<Owner[t], category[t]>> \in foreign

\* Every goroutine that starts comes to its end, cancelled or not.
EveryRunEnds == \A j \in Jobs : pc[j] = "check" ~> pc[j] = "done"

-----------------------------------------------------------------------------
\* The abstract job: the live run holds the right, a run that is done is over.
Exclusive ==
    INSTANCE ExclusiveJob WITH
        holder <- IF LiveJobs = {} THEN NoJob ELSE CHOOSE j \in LiveJobs : TRUE,
        over   <- {j \in Jobs : pc[j] = "done"}

\* Without cancellation the tracker implements the exclusive job, with its
\* promise that the holder gives the right back.
ImplementsExclusiveJob == Exclusive!Spec

=============================================================================
