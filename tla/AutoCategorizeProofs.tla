------------------------ MODULE AutoCategorizeProofs ------------------------
(***************************************************************************)
(* Proofs about AutoCategorize, for every number of runs, transactions,    *)
(* users and categories and every batch size.                              *)
(***************************************************************************)
EXTENDS AutoCategorize, FiniteSetTheorems, SequenceTheorems, TLAPS

-----------------------------------------------------------------------------
\* The tracker's methods map trackers to trackers.

LEMMA IdleTrackerType == IdleTracker \in Tracker
  BY DEF IdleTracker, Tracker

LEMMA StartedType ==
  ASSUME NEW m \in Tracker, NEW n \in Nat, NEW j \in Jobs
  PROVE  Started(m, n, j) \in Tracker
  BY DEF Started, Tracker

LEMMA AddedType ==
  ASSUME NEW m \in Tracker, NEW n \in Nat, NEW rs \in SUBSET Results
  PROVE  Added(m, n, rs) \in Tracker
<1>1. m.processed + n \in Nat /\ m.results \cup rs \in SUBSET Results
  BY DEF Tracker
<1> QED
  BY <1>1 DEF Added, Tracker

LEMMA FinishedType ==
  ASSUME NEW m \in Tracker, NEW s \in {"cancelled", "completed"}
  PROVE  Finished(m, s) \in Tracker
  BY DEF Finished, Tracker

LEMMA CancelledType ==
  ASSUME NEW m \in Tracker
  PROVE  Cancelled(m) \in Tracker
  BY DEF Cancelled, Tracker

\* A snapshot is a sequence of transactions of the user it was taken for.
LEMMA SnapshotType ==
  ASSUME TypeOK, NEW u \in Users, NEW s \in SetToSeqs(Uncategorised(u))
  PROVE  s \in Seq(Txns)
<1> DEFINE S == Uncategorised(u)
<1>1. S \subseteq Txns
  BY DEF Uncategorised, TypeOK
<1>2. Cardinality(S) \in Nat
  BY <1>1, TxnsAssumption, FS_Subset, FS_CardinalityType
<1>3. s \in [1..Cardinality(S) -> S]
  BY DEF SetToSeqs
<1>4. s \in [1..Cardinality(S) -> Txns]
  BY <1>1, <1>3
<1> QED
  BY <1>2, <1>4, IsASeq

\* The batch is a set of transactions, and its size a natural number.
LEMMA BatchType ==
  ASSUME TypeOK, NEW j \in Jobs
  PROVE  /\ Batch(j) \subseteq Txns
         /\ next[j] <= Len(txns[j]) => BatchEnd(j) - next[j] \in Nat
         /\ next[j] + BatchSize \in Nat
<1>1. /\ txns[j] \in Seq(Txns)
      /\ Len(txns[j]) \in Nat
      /\ next[j] \in Nat
      /\ BatchSize \in Nat
  BY BatchAssumption DEF TypeOK
<1>2. BatchEnd(j) <= Len(txns[j]) /\ BatchEnd(j) \in Nat
  BY <1>1 DEF BatchEnd
<1>3. ASSUME NEW k \in (next[j] + 1)..BatchEnd(j)
      PROVE  txns[j][k] \in Txns
  <2>1. k \in 1..Len(txns[j])
    BY <1>1, <1>2
  <2> QED
    BY <1>1, <2>1, ElementOfSeq
<1>4. next[j] <= Len(txns[j]) => BatchEnd(j) - next[j] \in Nat
  BY <1>1, BatchAssumption DEF BatchEnd
<1> QED
  BY <1>1, <1>3, <1>4 DEF Batch

-----------------------------------------------------------------------------
\* Inside a batch the loop condition held: there is something to count.
InBatch ==
    \A j \in Jobs : pc[j] \in {"match", "llm", "write"} => next[j] < Len(txns[j])

TypeInv == TypeOK /\ InBatch

LEMMA TypeInit == Init => TypeInv
<1> SUFFICES ASSUME Init PROVE TypeInv
  OBVIOUS
<1>1. <<>> \in Seq(Txns)
  BY EmptySeq
<1>2. TypeOK
  BY <1>1, IdleTrackerType DEF Init, TypeOK, Location, Live
<1> QED
  BY <1>2 DEF Init, InBatch, TypeInv

LEMMA ReportType ==
  ASSUME TypeInv, NEW j \in Jobs, Report(j), pc[j] \in {"llm", "write"}
  PROVE  TypeInv'
<1> USE DEF TypeInv
<1>1. /\ BatchEnd(j) - next[j] \in Nat
      /\ next[j] + BatchSize \in Nat
  BY BatchType DEF InBatch, TypeOK
<1>2. jm' \in Tracker
  BY <1>1, AddedType DEF Report, TypeOK
<1>3. TypeOK'
  BY <1>1, <1>2 DEF Report, Goto, TypeOK, Location, Live, Working
<1>4. InBatch'
  BY DEF Report, Goto, InBatch, TypeOK
<1> QED
  BY <1>3, <1>4

LEMMA TypeStep == TypeInv /\ [Next]_vars => TypeInv'
<1> SUFFICES ASSUME TypeInv, [Next]_vars PROVE TypeInv'
  OBVIOUS
<1> USE DEF TypeInv
<1>1. ASSUME NEW j \in Jobs, Snapshot(j) PROVE TypeInv'
  <2>1. user[j] \in Users
    BY DEF TypeOK
  <2>2. txns' \in [Jobs -> Seq(Txns)]
    BY <1>1, <2>1, SnapshotType DEF Snapshot, TypeOK
  <2>3. TypeOK'
    BY <1>1, <2>2 DEF Snapshot, Goto, TypeOK, Location, batchVars
  <2>4. InBatch'
    BY <1>1 DEF Snapshot, Goto, InBatch, TypeOK, batchVars
  <2> QED
    BY <2>3, <2>4
<1>2. ASSUME NEW j \in Jobs, StartAccepted(j) PROVE TypeInv'
  <2>1. Len(txns[j]) \in Nat
    BY DEF TypeOK
  <2>2. jm' \in Tracker
    BY <1>2, <2>1, StartedType DEF StartAccepted, TypeOK
  <2>3. TypeOK'
    BY <1>2, <2>2 DEF StartAccepted, Goto, TypeOK, Location, Live, Working, batchVars
  <2>4. InBatch'
    BY <1>2 DEF StartAccepted, Goto, InBatch, TypeOK, batchVars
  <2> QED
    BY <2>3, <2>4
<1>3. ASSUME NEW j \in Jobs, StartRejected(j) PROVE TypeInv'
  <2>1. TypeOK'
    BY <1>3, EmptySeq DEF StartRejected, Goto, TypeOK, Location, batchVars
  <2>2. InBatch'
    BY <1>3 DEF StartRejected, Goto, InBatch, TypeOK, batchVars
  <2> QED
    BY <2>1, <2>2
<1>4. ASSUME NEW j \in Jobs, CheckCancelled(j) PROVE TypeInv'
  <2>1. jm' \in Tracker
    BY <1>4, FinishedType DEF CheckCancelled, TypeOK
  <2>2. TypeOK'
    BY <1>4, <2>1 DEF CheckCancelled, Goto, TypeOK, Location, Live, Leaving, batchVars
  <2>3. InBatch'
    BY <1>4 DEF CheckCancelled, Goto, InBatch, TypeOK, batchVars
  <2> QED
    BY <2>2, <2>3
<1>5. ASSUME NEW j \in Jobs, NextBatch(j) PROVE TypeInv'
  <2>1. Batch(j) \in SUBSET Txns
    BY BatchType
  <2>2. TypeOK'
    BY <1>5, <2>1 DEF NextBatch, Goto, TypeOK, Location, Live, Working
  <2>3. InBatch'
    BY <1>5 DEF NextBatch, Goto, InBatch, TypeOK
  <2> QED
    BY <2>2, <2>3
<1>6. ASSUME NEW j \in Jobs, LoopDone(j) PROVE TypeInv'
  <2>1. TypeOK'
    BY <1>6 DEF LoopDone, Goto, TypeOK, Location, Live, Leaving, batchVars
  <2>2. InBatch'
    BY <1>6 DEF LoopDone, Goto, InBatch, TypeOK, batchVars
  <2> QED
    BY <2>1, <2>2
<1>7. ASSUME NEW j \in Jobs, FindMatch(j) PROVE TypeInv'
  <2>0. PICK t \in todo[j] : \E c \in Matches(user[j], t) \ {NoCat} :
             /\ hit' = [hit EXCEPT ![j] = {<<t, c>>}]
             /\ todo' = [todo EXCEPT ![j] = @ \ {t}]
    BY <1>7 DEF FindMatch
  <2>1. PICK c \in Matches(user[j], t) \ {NoCat} :
             /\ hit' = [hit EXCEPT ![j] = {<<t, c>>}]
             /\ todo' = [todo EXCEPT ![j] = @ \ {t}]
    BY <2>0
  <2>2. t \in Txns /\ c \in Cats
    BY <2>0, <2>1 DEF TypeOK, Matches, Categorised
  <2>3. /\ {<<t, c>>} \in SUBSET (Txns \X Cats)
        /\ todo[j] \ {t} \in SUBSET Txns
    BY <2>2 DEF TypeOK
  <2>4. TypeOK'
    BY <1>7, <2>1, <2>3 DEF FindMatch, TypeOK
  <2>5. InBatch'
    BY <1>7 DEF FindMatch, InBatch
  <2> QED
    BY <2>4, <2>5
<1>21. ASSUME NEW j \in Jobs, MatchInDatabase(j) PROVE TypeInv'
  <2>1. PICK p \in hit[j] :
             /\ category' = [category EXCEPT ![p[1]] = p[2]]
             /\ found' = [found EXCEPT ![j] = @ \cup {Result(p[1], p[2])}]
    BY <1>21 DEF MatchInDatabase
  <2>2. p[1] \in Txns /\ p[2] \in Cats
    BY <2>1 DEF TypeOK
  <2>3. found[j] \cup {Result(p[1], p[2])} \in SUBSET Results
    BY <2>2 DEF TypeOK, Result, Results
  <2>4. TypeOK'
    BY <1>21, <2>1, <2>2, <2>3 DEF MatchInDatabase, TypeOK
  <2>5. InBatch'
    BY <1>21 DEF MatchInDatabase, InBatch
  <2> QED
    BY <2>4, <2>5
<1>22. ASSUME NEW j \in Jobs, MatchFails(j) PROVE TypeInv'
  <2>1. PICK p \in hit[j] :
             /\ viaLLM' = [viaLLM EXCEPT ![j] = @ \cup {p[1]}]
             /\ \/ UNCHANGED category
                \/ category' = [category EXCEPT ![p[1]] = p[2]]
    BY <1>22 DEF MatchFails
  <2>2. p[1] \in Txns /\ p[2] \in Cats
    BY <2>1 DEF TypeOK
  <2>3. /\ viaLLM[j] \cup {p[1]} \in SUBSET Txns
        /\ category' \in [Txns -> Cats \cup {NoCat}]
    BY <2>1, <2>2 DEF TypeOK
  <2>4. TypeOK'
    BY <1>22, <2>1, <2>3 DEF MatchFails, TypeOK
  <2>5. InBatch'
    BY <1>22 DEF MatchFails, InBatch
  <2> QED
    BY <2>4, <2>5
<1>8. ASSUME NEW j \in Jobs, LeaveForLLM(j) PROVE TypeInv'
  <2>1. PICK t \in todo[j] :
             /\ todo' = [todo EXCEPT ![j] = @ \ {t}]
             /\ viaLLM' = [viaLLM EXCEPT ![j] = @ \cup {t}]
    BY <1>8 DEF LeaveForLLM
  <2>2. /\ todo[j] \ {t} \in SUBSET Txns
        /\ viaLLM[j] \cup {t} \in SUBSET Txns
    BY <2>1 DEF TypeOK
  <2>3. TypeOK'
    BY <1>8, <2>1, <2>2 DEF LeaveForLLM, TypeOK
  <2>4. InBatch'
    BY <1>8 DEF LeaveForLLM, InBatch
  <2> QED
    BY <2>3, <2>4
<1>9. ASSUME NEW j \in Jobs, CallLLM(j) PROVE TypeInv'
  <2>1. TypeOK'
    BY <1>9 DEF CallLLM, Goto, TypeOK, Location, Live, Working, batchVars
  <2>2. InBatch'
    BY <1>9 DEF CallLLM, Goto, InBatch, TypeOK, batchVars
  <2> QED
    BY <2>1, <2>2
<1>10. ASSUME NEW j \in Jobs, LLMAnswers(j) PROVE TypeInv'
  <2>1. PICK a \in SUBSET ({Key[t] : t \in viaLLM[j]} \X CatsOf[user[j]]) :
             answer' = [answer EXCEPT ![j] = a]
    BY <1>10 DEF LLMAnswers
  <2>2. a \in SUBSET (Keys \X Cats)
    <3>1. {Key[t] : t \in viaLLM[j]} \subseteq Keys
      BY TxnsAssumption DEF TypeOK
    <3>2. CatsOf[user[j]] \subseteq Cats
      BY TxnsAssumption DEF TypeOK
    <3> QED
      BY <2>1, <3>1, <3>2
  <2>3. TypeOK'
    BY <1>10, <2>1, <2>2 DEF LLMAnswers, Goto, TypeOK, Location, Live, Working
  <2>4. InBatch'
    BY <1>10 DEF LLMAnswers, Goto, InBatch, TypeOK
  <2> QED
    BY <2>3, <2>4
<1>11. ASSUME NEW j \in Jobs, LLMFails(j) PROVE TypeInv'
  <2>1. CASE j \in ctxDone
    <3>1. jm' \in Tracker
      BY <1>11, <2>1, FinishedType DEF LLMFails, TypeOK
    <3>2. TypeOK'
      BY <1>11, <2>1, <3>1 DEF LLMFails, Goto, TypeOK, Location, Live, Leaving, batchVars
    <3>3. InBatch'
      BY <1>11, <2>1 DEF LLMFails, Goto, InBatch, TypeOK, batchVars
    <3> QED
      BY <3>2, <3>3
  <2>2. CASE j \notin ctxDone
    BY <1>11, <2>2, ReportType DEF LLMFails
  <2> QED
    BY <2>1, <2>2
<1>12. ASSUME NEW j \in Jobs, WriteGroup(j) PROVE TypeInv'
  <2>1. PICK c \in {p[2] : p \in answer[j]} :
             LET hashes == {t \in viaLLM[j] : <<Key[t], c>> \in answer[j]}
             IN  /\ answer' = [answer EXCEPT ![j] = {p \in @ : p[2] # c}]
                 /\ \/ UNCHANGED category
                    \/ category' = [t \in Txns |-> IF t \in hashes \cap rows
                                                   THEN c ELSE category[t]]
                 /\ \/ UNCHANGED found
                    \/ found' = [found EXCEPT
                                   ![j] = @ \cup {Result(t, c) : t \in hashes}]
    BY <1>12 DEF WriteGroup
  <2> DEFINE hashes == {t \in viaLLM[j] : <<Key[t], c>> \in answer[j]}
  <2>2. answer[j] \subseteq Keys \X Cats
    BY DEF TypeOK
  <2>3. c \in Cats /\ hashes \subseteq Txns
    BY <2>1, <2>2 DEF TypeOK
  <2>4. answer' \in [Jobs -> SUBSET (Keys \X Cats)]
    <3>1. {p \in answer[j] : p[2] # c} \in SUBSET (Keys \X Cats)
      BY <2>2
    <3> QED
      BY <2>1, <3>1 DEF TypeOK
  <2>5. category' \in [Txns -> Cats \cup {NoCat}]
    BY <2>1, <2>3 DEF TypeOK
  <2>6. found' \in [Jobs -> SUBSET Results]
    <3>0. ASSUME NEW t \in hashes PROVE Result(t, c) \in Results
      BY <2>3 DEF Result, Results
    <3>1. {Result(t, c) : t \in hashes} \subseteq Results
      BY <3>0
    <3>2. found[j] \cup {Result(t, c) : t \in hashes} \in SUBSET Results
      BY <3>1 DEF TypeOK
    <3> QED
      BY <2>1, <3>2 DEF TypeOK
  <2>7. TypeOK'
    BY <1>12, <2>4, <2>5, <2>6 DEF WriteGroup, TypeOK
  <2>8. InBatch'
    BY <1>12 DEF WriteGroup, InBatch
  <2> QED
    BY <2>7, <2>8
<1>13. ASSUME NEW j \in Jobs, BatchDone(j) PROVE TypeInv'
  BY <1>13, ReportType DEF BatchDone
<1>14. ASSUME NEW j \in Jobs, DeferRead(j) PROVE TypeInv'
  <2>1. TypeOK'
    BY <1>14 DEF DeferRead, Goto, TypeOK, Location, Live, Leaving, batchVars
  <2>2. InBatch'
    BY <1>14 DEF DeferRead, Goto, InBatch, TypeOK, batchVars
  <2> QED
    BY <2>1, <2>2
<1>15. ASSUME NEW j \in Jobs, DeferFinish(j) PROVE TypeInv'
  <2>1. jm' \in Tracker
    BY <1>15, FinishedType DEF DeferFinish, TypeOK
  <2>2. TypeOK'
    BY <1>15, <2>1 DEF DeferFinish, Goto, TypeOK, Location, batchVars
  <2>3. InBatch'
    BY <1>15 DEF DeferFinish, Goto, InBatch, TypeOK, batchVars
  <2> QED
    BY <2>2, <2>3
<1>16. ASSUME Cancel PROVE TypeInv'
  <2>1. jm' \in Tracker
    BY <1>16, CancelledType DEF Cancel, TypeOK
  <2>2. ctxDone' \subseteq Jobs
    BY <1>16, CancelsAssumption DEF Cancel, TypeOK
  <2>3. TypeOK'
    BY <1>16, <2>1, <2>2 DEF Cancel, TypeOK, batchVars
  <2>4. InBatch'
    BY <1>16 DEF Cancel, InBatch, batchVars
  <2> QED
    BY <2>3, <2>4
<1>17. ASSUME NEW t \in Txns, UpdateCategory(t) PROVE TypeInv'
  <2>1. category' \in [Txns -> Cats \cup {NoCat}]
    BY <1>17 DEF UpdateCategory, TypeOK
  <2>2. foreign' \subseteq Foreign
    BY <1>17 DEF UpdateCategory, TypeOK
  <2>3. TypeOK'
    BY <1>17, <2>1, <2>2 DEF UpdateCategory, TypeOK, batchVars
  <2>4. InBatch'
    BY <1>17 DEF UpdateCategory, InBatch, batchVars
  <2> QED
    BY <2>3, <2>4
<1>18. ASSUME NEW t \in Txns, DeleteRow(t) PROVE TypeInv'
  <2>1. TypeOK'
    BY <1>18 DEF DeleteRow, TypeOK, batchVars
  <2>2. InBatch'
    BY <1>18 DEF DeleteRow, InBatch, batchVars
  <2> QED
    BY <2>1, <2>2
<1>19. ASSUME Restart PROVE TypeInv'
  <2>1. TypeOK'
    BY <1>19, IdleTrackerType DEF Restart, TypeOK, Location, batchVars
  <2>2. InBatch'
    BY <1>19 DEF Restart, InBatch, TypeOK, batchVars
  <2> QED
    BY <2>1, <2>2
<1>20. CASE UNCHANGED vars
  <2>1. TypeOK'
    BY <1>20 DEF vars, batchVars, TypeOK
  <2>2. InBatch'
    BY <1>20 DEF vars, batchVars, InBatch
  <2> QED
    BY <2>1, <2>2
<1> QED
  BY EditsAssumption, <1>1, <1>2, <1>3, <1>4, <1>5, <1>6, <1>7, <1>8, <1>9, <1>10,
     <1>11, <1>12, <1>13, <1>14, <1>15, <1>16, <1>17, <1>18, <1>19, <1>20, <1>21, <1>22
  DEF Next, JobStep

\* The state of the tracker, the rows and every run is well-formed, and a
\* batch in progress is never empty.
THEOREM TypeCorrect == Spec => [](TypeOK /\ InBatch)
<1>1. Spec => []TypeInv
  BY TypeInit, TypeStep, PTL DEF Spec
<1>2. TypeInv => TypeOK /\ InBatch
  BY DEF TypeInv
<1> QED
  BY <1>1, <1>2, PTL

-----------------------------------------------------------------------------
\* The tracker and the goroutines.  Until something is cancelled, a live
\* goroutine is the one registered, under a status nobody has touched.
SoleRunner ==
    Undisturbed =>
        \A j \in LiveJobs :
            jm.isRunning /\ jm.status = "running" /\ jm.cancelFunc = j

RunInv == StatusRunningIsLive /\ SoleRunner

\* Most steps move no goroutine in or out and leave the registration alone.
QuietStep ==
    /\ LiveJobs' = LiveJobs
    /\ jm'.isRunning = jm.isRunning
    /\ jm'.status = jm.status
    /\ jm'.cancelFunc = jm.cancelFunc
    /\ ctxDone' = ctxDone

LEMMA QuietKeepsRunInv == RunInv /\ QuietStep => RunInv'
  BY DEF RunInv, StatusRunningIsLive, SoleRunner, Undisturbed, QuietStep

LEMMA MovePcLive ==
  ASSUME TypeOK, NEW j \in Jobs, NEW l, Goto(j, l), pc[j] \in Live <=> l \in Live
  PROVE  LiveJobs' = LiveJobs
  BY DEF TypeOK, Goto, LiveJobs

LEMMA ReportIsQuiet ==
  ASSUME TypeOK, NEW j \in Jobs, Report(j), pc[j] \in {"llm", "write"}
  PROVE  QuietStep
<1>1. LiveJobs' = LiveJobs
  BY MovePcLive DEF Report, Live, Working
<1>2. /\ jm'.isRunning = jm.isRunning
      /\ jm'.status = jm.status
      /\ jm'.cancelFunc = jm.cancelFunc
  BY DEF Report, Added, TypeOK, Tracker
<1> QED
  BY <1>1, <1>2 DEF Report, QuietStep

\* Finish clears the registration, whoever calls it.
LEMMA FinishKeepsRunInv ==
  ASSUME TypeOK, RunInv, NEW j \in Jobs, NEW l, NEW s,
         jm' = Finished(jm, s), Goto(j, l), ctxDone' = ctxDone,
         Undisturbed => pc[j] \in Live /\ l \notin Live
  PROVE  RunInv'
<1>1. jm'.isRunning = FALSE
  BY DEF Finished, TypeOK, Tracker
<1>2. StatusRunningIsLive'
  BY <1>1 DEF StatusRunningIsLive
<1>3. ASSUME Undisturbed', NEW i \in LiveJobs' PROVE FALSE
  <2>1. Undisturbed
    BY <1>3 DEF Undisturbed
  <2>2. i # j /\ i \in LiveJobs /\ j \in LiveJobs
    BY <1>3, <2>1 DEF LiveJobs, Goto, TypeOK
  <2> QED
    BY <2>1, <2>2 DEF RunInv, SoleRunner
<1> QED
  BY <1>2, <1>3 DEF RunInv, SoleRunner

LEMMA RunInit == Init => RunInv
<1> SUFFICES ASSUME Init PROVE RunInv
  OBVIOUS
<1>1. LiveJobs = {}
  BY DEF Init, LiveJobs, Live, Working, Leaving
<1>2. jm.isRunning = FALSE
  BY DEF Init, IdleTracker
<1> QED
  BY <1>1, <1>2 DEF RunInv, StatusRunningIsLive, SoleRunner

LEMMA RunStep == TypeInv /\ RunInv /\ [Next]_vars => RunInv'
<1> SUFFICES ASSUME TypeInv, RunInv, [Next]_vars PROVE RunInv'
  OBVIOUS
<1>t. TypeOK
  BY DEF TypeInv
<1> USE <1>t
<1>1. ASSUME NEW j \in Jobs, StartAccepted(j) PROVE RunInv'
  <2>1. LiveJobs' = LiveJobs \cup {j}
    BY <1>1 DEF StartAccepted, Goto, LiveJobs, Live, Working, TypeOK
  <2>2. jm'.isRunning /\ jm'.status = "running" /\ jm'.cancelFunc = j
    BY <1>1 DEF StartAccepted, Started
  <2>3. StatusRunningIsLive'
    BY <2>1, <2>2 DEF StatusRunningIsLive
  <2>4. Undisturbed' => LiveJobs = {}
    BY <1>1 DEF StartAccepted, AlreadyRunning, RunInv, SoleRunner, Undisturbed
  <2>5. SoleRunner'
    BY <2>1, <2>2, <2>4 DEF SoleRunner
  <2> QED
    BY <2>3, <2>5 DEF RunInv
<1>2. ASSUME NEW j \in Jobs, CheckCancelled(j) PROVE RunInv'
  BY <1>2, FinishKeepsRunInv DEF CheckCancelled, Undisturbed
<1>3. ASSUME NEW j \in Jobs, LLMFails(j) PROVE RunInv'
  <2>1. CASE j \in ctxDone
    BY <1>3, <2>1, FinishKeepsRunInv DEF LLMFails, Undisturbed
  <2>2. CASE j \notin ctxDone
    BY <1>3, <2>2, ReportIsQuiet, QuietKeepsRunInv DEF LLMFails
  <2> QED
    BY <2>1, <2>2
<1>4. ASSUME NEW j \in Jobs, BatchDone(j) PROVE RunInv'
  BY <1>4, ReportIsQuiet, QuietKeepsRunInv DEF BatchDone
<1>5. ASSUME NEW j \in Jobs, DeferRead(j) PROVE RunInv'
  <2>1. CASE jm.status = "running"
    <3>1. LiveJobs' = LiveJobs
      BY <1>5, <2>1, MovePcLive DEF DeferRead, Live, Leaving
    <3> QED
      BY <1>5, <3>1, QuietKeepsRunInv DEF DeferRead, QuietStep
  <2>2. CASE jm.status # "running"
    <3>1. StatusRunningIsLive'
      BY <1>5, <2>2 DEF DeferRead, StatusRunningIsLive
    <3>2. j \in LiveJobs
      BY <1>5 DEF DeferRead, LiveJobs, Live, Leaving
    <3>3. ~Undisturbed
      BY <2>2, <3>2 DEF RunInv, SoleRunner
    <3> QED
      BY <1>5, <3>1, <3>3 DEF DeferRead, RunInv, SoleRunner, Undisturbed
  <2> QED
    BY <2>1, <2>2
<1>6. ASSUME NEW j \in Jobs, DeferFinish(j) PROVE RunInv'
  <2>1. pc[j] \in Live /\ "done" \notin Live
    BY <1>6 DEF DeferFinish, Live, Working, Leaving
  <2> QED
    BY <1>6, <2>1, FinishKeepsRunInv DEF DeferFinish
<1>7. ASSUME Cancel PROVE RunInv'
  <2>1. jm'.status = "cancelled"
    BY <1>7 DEF Cancel, Cancelled, TypeOK, Tracker
  <2>2. ~Undisturbed'
    BY <1>7 DEF Cancel, Undisturbed
  <2> QED
    BY <2>1, <2>2 DEF RunInv, StatusRunningIsLive, SoleRunner
<1>8. ASSUME Restart PROVE RunInv'
  <2>1. LiveJobs' = {}
    BY <1>8 DEF Restart, LiveJobs, Live, Working, Leaving, TypeOK
  <2>2. jm'.isRunning = FALSE
    BY <1>8 DEF Restart, IdleTracker
  <2> QED
    BY <2>1, <2>2 DEF RunInv, StatusRunningIsLive, SoleRunner
<1>9. ASSUME NEW j \in Jobs,
             Snapshot(j) \/ StartRejected(j) \/ NextBatch(j) \/ LoopDone(j)
               \/ CallLLM(j) \/ LLMAnswers(j)
      PROVE  RunInv'
  <2>1. \E l \in Location : Goto(j, l) /\ (pc[j] \in Live <=> l \in Live)
    BY <1>9 DEF Snapshot, StartRejected, NextBatch, LoopDone, CallLLM,
                LLMAnswers, Location, Live, Working, Leaving
  <2>2. LiveJobs' = LiveJobs
    BY <2>1, MovePcLive
  <2>3. jm' = jm /\ ctxDone' = ctxDone
    BY <1>9 DEF Snapshot, StartRejected, NextBatch, LoopDone, CallLLM, LLMAnswers
  <2> QED
    BY <2>2, <2>3, QuietKeepsRunInv DEF QuietStep
<1>10. ASSUME UNCHANGED <<jm, pc, ctxDone>> PROVE RunInv'
  BY <1>10, QuietKeepsRunInv DEF QuietStep, LiveJobs
<1>11. ASSUME NEW j \in Jobs, \/ FindMatch(j) \/ MatchInDatabase(j) \/ LeaveForLLM(j)
                             \/ MatchFails(j) \/ WriteGroup(j)
       PROVE  RunInv'
  BY <1>10, <1>11 DEF FindMatch, MatchInDatabase, LeaveForLLM, MatchFails, WriteGroup
<1>12. ASSUME NEW t \in Txns, UpdateCategory(t) \/ DeleteRow(t) PROVE RunInv'
  BY <1>10, <1>12 DEF UpdateCategory, DeleteRow
<1>13. CASE UNCHANGED vars
  BY <1>10, <1>13 DEF vars
<1> QED
  BY <1>1, <1>2, <1>3, <1>4, <1>5, <1>6, <1>7, <1>8, <1>9, <1>11, <1>12, <1>13,
     EditsAssumption
  DEF Next, JobStep

\* A tracker that says "running" is never left behind by its goroutine, and
\* without cancellation two goroutines never run at the same time.
THEOREM TrackerSound ==
  Spec => [](StatusRunningIsLive /\ ExclusiveUndisturbed)
<1>1. RunInv => StatusRunningIsLive /\ ExclusiveUndisturbed
  BY DEF RunInv, SoleRunner, ExclusiveUndisturbed, AtMostOneRunner
<1>2. Init => TypeInv /\ RunInv
  BY TypeInit, RunInit
<1>3. TypeInv /\ RunInv /\ [Next]_vars => TypeInv' /\ RunInv'
  BY TypeStep, RunStep
<1> QED
  BY <1>1, <1>2, <1>3, PTL DEF Spec

\* What a caller rejected as "already running" is told is true as long as
\* nothing was cancelled: two goroutines never run at the same time.
THEOREM RunsExclude == Spec => []ExclusiveUndisturbed
  BY TrackerSound, PTL

-----------------------------------------------------------------------------
\* What a run has accounted for when it is at the head of its loop.
Accounted(j) == IF next[j] > Len(txns[j]) THEN Len(txns[j]) ELSE next[j]

ReportedOf(j, n) == {txns[j][k] : k \in 1..n}

\* The tracker's counters and results are those of the run that is live.
TrackerOf(j) ==
    /\ jm.total = Len(txns[j])
    /\ jm.processed = Accounted(j)
    /\ pc[j] \in Leaving => next[j] >= Len(txns[j])
    /\ \A r \in jm.results : r.hash \in ReportedOf(j, jm.processed)

Counted ==
    Undisturbed =>
        /\ jm.processed <= jm.total
        /\ jm.status = "completed" => jm.processed = jm.total
        /\ \A j \in LiveJobs : TrackerOf(j)

\* A run that has not begun starts at the front.
AtFront == \A j \in Jobs : pc[j] \in {"idle", "starting"} => next[j] = 0

\* Inside a batch, its work and what it found are of the batch.
WorkIsOfBatch ==
    \A j \in Jobs : pc[j] \in {"match", "llm", "write"} =>
        /\ todo[j] \cup viaLLM[j] \subseteq Batch(j)
        /\ \A p \in hit[j] : p[1] \in Batch(j)
        /\ \A r \in found[j] : r.hash \in Batch(j)

CountInv == Counted /\ AtFront /\ WorkIsOfBatch

LEMMA CountInit == Init => CountInv
<1> SUFFICES ASSUME Init PROVE CountInv
  OBVIOUS
<1>1. LiveJobs = {} /\ jm.processed = 0 /\ jm.total = 0
  BY DEF Init, LiveJobs, Live, Working, Leaving, IdleTracker
<1>2. Counted
  BY <1>1 DEF Counted
<1>3. AtFront /\ WorkIsOfBatch
  BY DEF Init, AtFront, WorkIsOfBatch
<1> QED
  BY <1>2, <1>3 DEF CountInv

\* Steps that leave the tracker and the live runs' position alone.
LEMMA QuietCounts ==
  ASSUME Counted, jm' = jm, ctxDone' = ctxDone, LiveJobs' \subseteq LiveJobs,
         \A j \in LiveJobs' : /\ txns'[j] = txns[j] /\ next'[j] = next[j]
                              /\ pc'[j] \in Leaving =>
                                    pc[j] \in Leaving \/ next[j] >= Len(txns[j])
  PROVE  Counted'
<1>1. ASSUME NEW j \in LiveJobs', TrackerOf(j) PROVE TrackerOf(j)'
  BY <1>1 DEF TrackerOf, Accounted, ReportedOf
<1> QED
  BY <1>1 DEF Counted, Undisturbed

\* Steps that leave every run's place in its loop alone.
LEMMA SamePlace ==
  ASSUME AtFront, WorkIsOfBatch, UNCHANGED <<pc, txns, next, todo, hit, viaLLM, found>>
  PROVE  AtFront' /\ WorkIsOfBatch'
  BY DEF AtFront, WorkIsOfBatch, Batch, BatchEnd

\* Steps of a run that take it to a place where nothing is claimed.
LEMMA OutOfBatch ==
  ASSUME TypeOK, AtFront, WorkIsOfBatch, NEW j \in Jobs, NEW l, Goto(j, l),
         l \notin {"match", "llm", "write"},
         l \in {"idle", "starting"} => next'[j] = 0,
         \A i \in Jobs \ {j} :
             UNCHANGED <<txns[i], next[i], todo[i], hit[i], viaLLM[i], found[i]>>
  PROVE  AtFront' /\ WorkIsOfBatch'
<1>1. pc'[j] = l /\ \A i \in Jobs \ {j} : pc'[i] = pc[i]
  BY DEF Goto, TypeOK
<1>2. AtFront'
  BY <1>1 DEF AtFront
<1>3. WorkIsOfBatch'
  <2> SUFFICES ASSUME NEW i \in Jobs, pc'[i] \in {"match", "llm", "write"}
               PROVE  /\ (todo[i] \cup viaLLM[i] \subseteq Batch(i))'
                      /\ (\A p \in hit[i] : p[1] \in Batch(i))'
                      /\ (\A r \in found[i] : r.hash \in Batch(i))'
    BY DEF WorkIsOfBatch
  <2>1. i # j /\ pc[i] = pc'[i]
    BY <1>1
  <2>2. Batch(i)' = Batch(i)
    BY <2>1 DEF Batch, BatchEnd
  <2> QED
    BY <2>1, <2>2 DEF WorkIsOfBatch
<1> QED
  BY <1>2, <1>3

\* What a run finds is added to its own results.
LEMMA FoundGrows ==
  ASSUME TypeOK, NEW j \in Jobs, NEW F, found' = [found EXCEPT ![j] = @ \cup F]
  PROVE  \A i \in Jobs : \A r \in found'[i] : r \in found[i] \/ (i = j /\ r \in F)
<1>1. found \in [Jobs -> SUBSET Results]
  BY DEF TypeOK
<1>2. found'[j] = found[j] \cup F /\ \A i \in Jobs \ {j} : found'[i] = found[i]
  BY <1>1
<1> QED
  BY <1>2

LEMMA ReportCounts ==
  ASSUME TypeInv, RunInv, CountInv, NEW j \in Jobs, Report(j), pc[j] \in {"llm", "write"}
  PROVE  CountInv'
<1> USE DEF TypeInv, CountInv
<1>1. /\ jm' = Added(jm, BatchEnd(j) - next[j], found[j])
      /\ next' = [next EXCEPT ![j] = next[j] + BatchSize]
      /\ pc' = [pc EXCEPT ![j] = "check"]
      /\ UNCHANGED <<ctxDone, txns, todo, hit, viaLLM, found>>
  BY DEF Report, Goto
<1>2. /\ Len(txns[j]) \in Nat /\ next[j] \in Nat /\ BatchSize \in Nat
      /\ next[j] < Len(txns[j])
  BY BatchAssumption DEF TypeOK, InBatch
<1>3. next'[j] = next[j] + BatchSize /\ \A i \in Jobs \ {j} : next'[i] = next[i]
  BY <1>1 DEF TypeOK
<1>4. AtFront' /\ WorkIsOfBatch'
  BY <1>1, <1>3, OutOfBatch DEF Report
<1>5. ASSUME Undisturbed' PROVE LiveJobs' = {j} /\ TrackerOf(j)' /\ jm'.status = "running"
  <2>1. Undisturbed /\ j \in LiveJobs
    BY <1>1, <1>5 DEF Undisturbed, LiveJobs, Live, Working
  <2>2. TrackerOf(j) /\ jm.status = "running" /\ LiveJobs = {j}
    BY <2>1 DEF Counted, RunInv, SoleRunner
  <2>3. jm.processed = next[j] /\ jm.total = Len(txns[j])
    BY <1>2, <2>2 DEF TrackerOf, Accounted
  <2>4. /\ jm'.total = jm.total /\ jm'.status = jm.status
        /\ jm'.processed = jm.processed + (BatchEnd(j) - next[j])
        /\ jm'.results = jm.results \cup found[j]
    BY <1>1 DEF Added, TypeOK, Tracker
  <2>5. BatchEnd(j) \in Nat /\ next[j] <= BatchEnd(j) /\ BatchEnd(j) <= Len(txns[j])
    BY <1>2 DEF BatchEnd
  <2>6. jm'.processed = BatchEnd(j)
    BY <1>2, <2>3, <2>4, <2>5
  <2>7. Accounted(j)' = BatchEnd(j)
    BY <1>1, <1>3 DEF Accounted, BatchEnd
  <2>8. ASSUME NEW r \in jm'.results PROVE r.hash \in ReportedOf(j, BatchEnd(j))
    <3>1. CASE r \in jm.results
      <4>1. PICK k \in 1..next[j] : r.hash = txns[j][k]
        BY <2>2, <2>3, <3>1 DEF TrackerOf, ReportedOf
      <4>2. k \in 1..BatchEnd(j)
        BY <1>2, <2>5
      <4> QED
        BY <4>1, <4>2 DEF ReportedOf
    <3>2. CASE r \in found[j]
      <4>1. PICK k \in (next[j] + 1)..BatchEnd(j) : r.hash = txns[j][k]
        BY <3>2 DEF WorkIsOfBatch, Batch
      <4>2. k \in 1..BatchEnd(j)
        BY <1>2, <2>5
      <4> QED
        BY <4>1, <4>2 DEF ReportedOf
    <3> QED
      BY <2>4, <2>8, <3>1, <3>2
  <2>9. pc'[j] = "check"
    BY <1>1 DEF TypeOK
  <2>10. TrackerOf(j)'
    BY <1>1, <2>3, <2>4, <2>6, <2>7, <2>8, <2>9 DEF TrackerOf, ReportedOf, Leaving
  <2>11. LiveJobs' = {j}
    BY <1>1, <2>2, MovePcLive DEF Goto, Live, Working
  <2> QED
    BY <2>2, <2>4, <2>10, <2>11
<1>6. Counted'
  <2> SUFFICES ASSUME Undisturbed'
               PROVE  /\ jm'.processed <= jm'.total
                      /\ jm'.status = "completed" => jm'.processed = jm'.total
                      /\ \A i \in LiveJobs' : TrackerOf(i)'
    BY DEF Counted
  <2>1. LiveJobs' = {j} /\ TrackerOf(j)' /\ jm'.status = "running"
    BY <1>5
  <2>2. jm'.total = Len(txns[j]) /\ jm'.processed = Accounted(j)'
    BY <1>1, <2>1 DEF TrackerOf
  <2>3. Accounted(j)' <= Len(txns[j])
    BY <1>1, <1>2, <1>3 DEF Accounted
  <2> QED
    BY <2>1, <2>2, <2>3
<1> QED
  BY <1>4, <1>6

LEMMA CountStep == TypeInv /\ RunInv /\ CountInv /\ [Next]_vars => CountInv'
<1> SUFFICES ASSUME TypeInv, RunInv, CountInv, [Next]_vars PROVE CountInv'
  OBVIOUS
<1>t. TypeOK /\ Counted /\ AtFront /\ WorkIsOfBatch
  BY DEF TypeInv, CountInv
<1> USE <1>t
<1>1. ASSUME NEW j \in Jobs, Snapshot(j) \/ StartRejected(j) PROVE CountInv'
  <2>1. PICK l \in {"idle", "starting"} : Goto(j, l)
    BY <1>1 DEF Snapshot, StartRejected
  <2>2. /\ jm' = jm /\ ctxDone' = ctxDone
        /\ UNCHANGED <<next, todo, hit, viaLLM, found>>
        /\ pc[j] \in {"idle", "starting"}
        /\ \A i \in Jobs \ {j} : txns'[i] = txns[i]
    BY <1>1 DEF Snapshot, StartRejected, batchVars, TypeOK
  <2>3. next'[j] = 0
    BY <2>2 DEF AtFront
  <2>4. AtFront' /\ WorkIsOfBatch'
    BY <2>1, <2>2, <2>3, OutOfBatch
  <2>5. pc'[j] \notin Live /\ \A i \in Jobs \ {j} : pc'[i] = pc[i]
    BY <2>1 DEF Goto, TypeOK, Live, Working, Leaving
  <2>6. LiveJobs' \subseteq LiveJobs \ {j}
    BY <2>5 DEF LiveJobs
  <2>7. Counted'
    BY <2>2, <2>5, <2>6, QuietCounts DEF LiveJobs
  <2> QED
    BY <2>4, <2>7 DEF CountInv
<1>2. ASSUME NEW j \in Jobs, StartAccepted(j) PROVE CountInv'
  <2>1. Goto(j, "check") /\ jm' = Started(jm, Len(txns[j]), j)
        /\ UNCHANGED <<ctxDone, txns, next, todo, hit, viaLLM, found>>
    BY <1>2 DEF StartAccepted, batchVars
  <2>2. AtFront' /\ WorkIsOfBatch'
    BY <2>1, OutOfBatch
  <2>3. next[j] = 0 /\ Len(txns[j]) \in Nat
    BY <1>2 DEF StartAccepted, AtFront, TypeOK
  <2>4. Undisturbed => LiveJobs = {}
    BY <1>2 DEF StartAccepted, AlreadyRunning, RunInv, SoleRunner
  <2>5. pc'[j] = "check" /\ LiveJobs' = LiveJobs \cup {j}
    BY <2>1 DEF Goto, LiveJobs, Live, Working, TypeOK
  <2>6. /\ jm'.total = Len(txns[j]) /\ jm'.processed = 0 /\ jm'.results = {}
        /\ jm'.status = "running"
    BY <2>1 DEF Started
  <2>7. TrackerOf(j)'
    BY <2>1, <2>3, <2>5, <2>6 DEF TrackerOf, Accounted, Leaving
  <2>8. Counted'
    BY <2>1, <2>3, <2>4, <2>5, <2>6, <2>7 DEF Counted, Undisturbed
  <2> QED
    BY <2>2, <2>8 DEF CountInv
<1>3. ASSUME NEW j \in Jobs, j \in ctxDone, CheckCancelled(j) \/ LLMFails(j)
      PROVE  CountInv'
  <2>1. /\ Goto(j, "defer") /\ ctxDone' = ctxDone
        /\ UNCHANGED <<txns, next, todo, hit, viaLLM, found>>
    BY <1>3 DEF CheckCancelled, LLMFails, batchVars
  <2>2. AtFront' /\ WorkIsOfBatch'
    BY <2>1, OutOfBatch
  <2>3. Counted'
    BY <1>3, <2>1 DEF Counted, Undisturbed
  <2> QED
    BY <2>2, <2>3 DEF CountInv
<1>4. ASSUME NEW j \in Jobs, j \notin ctxDone, LLMFails(j) PROVE CountInv'
  BY <1>4, ReportCounts DEF LLMFails
<1>5. ASSUME NEW j \in Jobs, BatchDone(j) PROVE CountInv'
  BY <1>5, ReportCounts DEF BatchDone
<1>6. ASSUME NEW j \in Jobs, NextBatch(j) PROVE CountInv'
  <2>1. /\ pc' = [pc EXCEPT ![j] = "match"] /\ pc[j] = "check"
        /\ todo' = [todo EXCEPT ![j] = Batch(j)]
        /\ hit' = [hit EXCEPT ![j] = {}]
        /\ viaLLM' = [viaLLM EXCEPT ![j] = {}]
        /\ found' = [found EXCEPT ![j] = {}]
        /\ UNCHANGED <<jm, ctxDone, txns, next>>
    BY <1>6 DEF NextBatch, Goto
  <2>2. \A i \in Jobs : Batch(i)' = Batch(i)
    BY <2>1 DEF Batch, BatchEnd
  <2>3. WorkIsOfBatch'
    BY <2>1, <2>2 DEF WorkIsOfBatch, TypeOK
  <2>4. AtFront'
    BY <2>1 DEF AtFront, TypeOK
  <2>5. LiveJobs' = LiveJobs /\ \A i \in Jobs : pc'[i] \in Leaving => pc[i] \in Leaving
    BY <2>1 DEF LiveJobs, Live, Working, Leaving, TypeOK
  <2>6. Counted'
    BY <2>1, <2>5, QuietCounts DEF LiveJobs
  <2> QED
    BY <2>3, <2>4, <2>6 DEF CountInv
<1>7. ASSUME NEW j \in Jobs, LoopDone(j) \/ DeferRead(j) PROVE CountInv'
  <2>1. PICK l \in {"defer", "finish", "done"} : Goto(j, l)
    BY <1>7 DEF LoopDone, DeferRead
  <2>2. UNCHANGED <<jm, ctxDone, txns, next, todo, hit, viaLLM, found>>
    BY <1>7 DEF LoopDone, DeferRead, batchVars
  <2>3. AtFront' /\ WorkIsOfBatch'
    BY <2>1, <2>2, OutOfBatch
  <2>4. pc[j] \in Leaving \/ next[j] >= Len(txns[j])
    BY <1>7 DEF LoopDone, DeferRead, Leaving
  <2>5. j \in LiveJobs /\ \A i \in Jobs \ {j} : pc'[i] = pc[i]
    BY <1>7, <2>1 DEF LoopDone, DeferRead, Goto, TypeOK, LiveJobs, Live, Working, Leaving
  <2>6. Counted'
    BY <2>2, <2>4, <2>5, QuietCounts DEF LiveJobs
  <2> QED
    BY <2>3, <2>6 DEF CountInv
<1>8. ASSUME UNCHANGED <<jm, ctxDone, txns, next, pc>> PROVE Counted' /\ AtFront'
  BY <1>8, QuietCounts DEF LiveJobs, AtFront
<1>9. ASSUME NEW j \in Jobs, MatchInDatabase(j) PROVE CountInv'
  <2>1. PICK p \in hit[j] : found' = [found EXCEPT ![j] = @ \cup {Result(p[1], p[2])}]
    BY <1>9 DEF MatchInDatabase
  <2>2. /\ UNCHANGED <<jm, ctxDone, pc, txns, next, todo, viaLLM>> /\ pc[j] = "match"
        /\ hit' = [hit EXCEPT ![j] = {}]
    BY <1>9 DEF MatchInDatabase
  <2>3. \A i \in Jobs : Batch(i)' = Batch(i)
    BY <2>2 DEF Batch, BatchEnd
  <2>4. p[1] \in Batch(j) /\ Result(p[1], p[2]).hash = p[1]
    BY <2>1, <2>2 DEF WorkIsOfBatch, Result
  <2>5. WorkIsOfBatch'
    BY <2>1, <2>2, <2>3, <2>4 DEF WorkIsOfBatch, TypeOK
  <2> QED
    BY <1>8, <2>2, <2>5 DEF CountInv
<1>18. ASSUME NEW j \in Jobs, FindMatch(j) PROVE CountInv'
  <2>1. PICK t \in todo[j] : \E c \in Matches(user[j], t) :
             /\ hit' = [hit EXCEPT ![j] = {<<t, c>>}]
             /\ todo' = [todo EXCEPT ![j] = @ \ {t}]
    BY <1>18 DEF FindMatch
  <2>2. UNCHANGED <<jm, ctxDone, pc, txns, next, viaLLM, found>> /\ pc[j] = "match"
    BY <1>18 DEF FindMatch
  <2>3. \A i \in Jobs : Batch(i)' = Batch(i)
    BY <2>2 DEF Batch, BatchEnd
  <2>4. t \in Batch(j)
    BY <2>1, <2>2 DEF WorkIsOfBatch
  <2>5. WorkIsOfBatch'
    BY <2>1, <2>2, <2>3, <2>4 DEF WorkIsOfBatch, TypeOK
  <2> QED
    BY <1>8, <2>2, <2>5 DEF CountInv
<1>19. ASSUME NEW j \in Jobs, MatchFails(j) PROVE CountInv'
  <2>1. PICK p \in hit[j] : viaLLM' = [viaLLM EXCEPT ![j] = @ \cup {p[1]}]
    BY <1>19 DEF MatchFails
  <2>2. /\ UNCHANGED <<jm, ctxDone, pc, txns, next, todo, found>> /\ pc[j] = "match"
        /\ hit' = [hit EXCEPT ![j] = {}]
    BY <1>19 DEF MatchFails
  <2>3. \A i \in Jobs : Batch(i)' = Batch(i)
    BY <2>2 DEF Batch, BatchEnd
  <2>4. p[1] \in Batch(j)
    BY <2>1, <2>2 DEF WorkIsOfBatch
  <2>5. WorkIsOfBatch'
    BY <2>1, <2>2, <2>3, <2>4 DEF WorkIsOfBatch, TypeOK
  <2> QED
    BY <1>8, <2>2, <2>5 DEF CountInv
<1>10. ASSUME NEW j \in Jobs, LeaveForLLM(j) PROVE CountInv'
  <2>1. PICK t \in todo[j] :
             /\ todo' = [todo EXCEPT ![j] = @ \ {t}]
             /\ viaLLM' = [viaLLM EXCEPT ![j] = @ \cup {t}]
    BY <1>10 DEF LeaveForLLM
  <2>2. UNCHANGED <<jm, ctxDone, pc, txns, next, hit, found>> /\ pc[j] = "match"
    BY <1>10 DEF LeaveForLLM
  <2>3. \A i \in Jobs : Batch(i)' = Batch(i)
    BY <2>2 DEF Batch, BatchEnd
  <2>4. WorkIsOfBatch'
    BY <2>1, <2>2, <2>3 DEF WorkIsOfBatch, TypeOK
  <2> QED
    BY <1>8, <2>2, <2>4 DEF CountInv
<1>11. ASSUME NEW j \in Jobs, CallLLM(j) \/ LLMAnswers(j) PROVE CountInv'
  <2>1. PICK l \in {"llm", "write"} : pc' = [pc EXCEPT ![j] = l]
    BY <1>11 DEF CallLLM, LLMAnswers, Goto
  <2>2. /\ UNCHANGED <<jm, ctxDone, txns, next, todo, hit, viaLLM, found>>
        /\ pc[j] \in {"match", "llm"}
    BY <1>11 DEF CallLLM, LLMAnswers, batchVars
  <2>3. \A i \in Jobs : Batch(i)' = Batch(i)
    BY <2>2 DEF Batch, BatchEnd
  <2>4. WorkIsOfBatch'
    BY <2>1, <2>2, <2>3 DEF WorkIsOfBatch, TypeOK
  <2>5. AtFront'
    BY <2>1, <2>2 DEF AtFront, TypeOK
  <2>6. LiveJobs' = LiveJobs /\ \A i \in Jobs : pc'[i] \in Leaving => pc[i] \in Leaving
    BY <2>1, <2>2 DEF LiveJobs, Live, Working, Leaving, TypeOK
  <2>7. Counted'
    BY <2>2, <2>6, QuietCounts DEF LiveJobs
  <2> QED
    BY <2>4, <2>5, <2>7 DEF CountInv
<1>12. ASSUME NEW j \in Jobs, WriteGroup(j) PROVE CountInv'
  <2>1. PICK c \in {p[2] : p \in answer[j]} :
             LET hashes == {t \in viaLLM[j] : <<Key[t], c>> \in answer[j]}
             IN  \/ found' = [found EXCEPT ![j] = @ \cup {Result(t, c) : t \in hashes}]
                 \/ found' = found
    BY <1>12 DEF WriteGroup
  <2> DEFINE hashes == {t \in viaLLM[j] : <<Key[t], c>> \in answer[j]}
  <2>2. /\ UNCHANGED <<jm, ctxDone, pc, txns, next, todo, hit, viaLLM>>
        /\ pc[j] = "write"
    BY <1>12 DEF WriteGroup
  <2>3. \A i \in Jobs : Batch(i)' = Batch(i)
    BY <2>2 DEF Batch, BatchEnd
  <2>4. \A t \in hashes : t \in Batch(j) /\ Result(t, c).hash = t
    BY <2>2 DEF WorkIsOfBatch, Result
  <2> HIDE DEF hashes
  <2>5. \A i \in Jobs : \A r \in found'[i] :
            r \in found[i] \/ (i = j /\ \E t \in hashes : r = Result(t, c))
    <3>1. CASE found' = found
      BY <3>1
    <3>2. CASE found' = [found EXCEPT ![j] = @ \cup {Result(t, c) : t \in hashes}]
      <4>1. \A i \in Jobs : \A r \in found'[i] :
                r \in found[i] \/ (i = j /\ r \in {Result(t, c) : t \in hashes})
        BY <3>2, FoundGrows
      <4> QED
        BY <4>1
    <3> QED
      BY <2>1, <3>1, <3>2 DEF hashes
  <2>6. WorkIsOfBatch'
    BY <2>2, <2>3, <2>4, <2>5 DEF WorkIsOfBatch
  <2> QED
    BY <1>8, <2>2, <2>6 DEF CountInv
<1>13. ASSUME NEW j \in Jobs, DeferFinish(j) PROVE CountInv'
  <2>1. /\ Goto(j, "done") /\ jm' = Finished(jm, "completed") /\ pc[j] = "finish"
        /\ UNCHANGED <<ctxDone, txns, next, todo, hit, viaLLM, found>>
    BY <1>13 DEF DeferFinish, batchVars
  <2>2. AtFront' /\ WorkIsOfBatch'
    BY <2>1, OutOfBatch
  <2>3. j \in LiveJobs /\ LiveJobs' = LiveJobs \ {j} /\ pc[j] \in Leaving
    BY <2>1 DEF Goto, TypeOK, LiveJobs, Live, Working, Leaving
  <2>4. jm'.processed = jm.processed /\ jm'.total = jm.total
    BY <2>1 DEF Finished, TypeOK, Tracker
  <2>5. ASSUME Undisturbed PROVE LiveJobs' = {} /\ jm.processed = jm.total
    <3>1. TrackerOf(j) /\ LiveJobs = {j}
      BY <2>3, <2>5 DEF Counted, RunInv, SoleRunner
    <3>2. next[j] \in Nat /\ Len(txns[j]) \in Nat
      BY DEF TypeOK
    <3>3. jm.processed = jm.total
      BY <2>3, <3>1, <3>2 DEF TrackerOf, Accounted
    <3> QED
      BY <2>3, <3>1, <3>3
  <2>6. jm.processed \in Nat /\ jm.total \in Nat
    BY DEF TypeOK, Tracker
  <2>7. Counted'
    BY <2>1, <2>4, <2>5, <2>6 DEF Counted, Undisturbed
  <2> QED
    BY <2>2, <2>7 DEF CountInv
<1>14. CASE Cancel
  <2>1. ~Undisturbed' /\ UNCHANGED <<pc, txns, next, todo, hit, viaLLM, found>>
    BY <1>14 DEF Cancel, Undisturbed, batchVars
  <2> QED
    BY <2>1, SamePlace DEF Counted, CountInv
<1>15. CASE Restart
  <2>1. /\ jm'.processed = 0 /\ jm'.total = 0
        /\ pc' = [j \in Jobs |-> IF pc[j] = "idle" THEN "idle" ELSE "done"]
        /\ UNCHANGED <<ctxDone, txns, next, todo, hit, viaLLM, found>>
    BY <1>15 DEF Restart, IdleTracker, batchVars
  <2>2. LiveJobs' = {}
    BY <2>1 DEF LiveJobs, Live, Working, Leaving
  <2>3. AtFront' /\ WorkIsOfBatch'
    BY <2>1 DEF AtFront, WorkIsOfBatch
  <2> QED
    BY <2>1, <2>2, <2>3 DEF Counted, CountInv
<1>16. ASSUME NEW t \in Txns, UpdateCategory(t) \/ DeleteRow(t) PROVE CountInv'
  <2>1. UNCHANGED <<jm, ctxDone, pc, txns, next, todo, hit, viaLLM, found>>
    BY <1>16 DEF UpdateCategory, DeleteRow, batchVars
  <2> QED
    BY <1>8, <2>1, SamePlace DEF CountInv
<1>17. CASE UNCHANGED vars
  BY <1>8, <1>17, SamePlace DEF CountInv, vars, batchVars
<1> QED
  BY <1>1, <1>2, <1>3, <1>4, <1>5, <1>6, <1>7, <1>9, <1>10, <1>11, <1>12, <1>13,
     <1>14, <1>15, <1>16, <1>17, <1>18, <1>19, EditsAssumption
  DEF Next, JobStep, CheckCancelled

LEMMA SpecCounts == Spec => [](TypeInv /\ CountInv)
<1>1. Init => TypeInv /\ RunInv /\ CountInv
  BY TypeInit, RunInit, CountInit
<1>2. TypeInv /\ RunInv /\ CountInv /\ [Next]_vars => TypeInv' /\ RunInv' /\ CountInv'
  BY TypeStep, RunStep, CountStep
<1> QED
  BY <1>1, <1>2, PTL DEF Spec

\* For every batch size and snapshot: nothing is counted twice or lost, the
\* last, shorter batch included.
THEOREM ProgressExact == Spec => []ProgressIsExact
<1>1. CountInv => ProgressIsExact
  BY DEF CountInv, Counted, ProgressIsExact
<1> QED
  BY <1>1, SpecCounts, PTL

\* However many callers start runs: what the tracker reports was found by the
\* run it shows, in the part of the snapshot it has accounted for.
THEOREM ResultsOwn == Spec => []ResultsAreOwn
<1>1. TypeInv /\ CountInv => ResultsAreOwn
  <2> SUFFICES ASSUME TypeInv, CountInv, Undisturbed,
                      NEW j \in LiveJobs, NEW r \in jm.results
               PROVE  \E k \in 1..Len(txns[j]) :
                          k <= jm.processed /\ txns[j][k] = r.hash
    BY DEF ResultsAreOwn
  <2>1. TrackerOf(j) /\ jm.processed <= jm.total
    BY DEF CountInv, Counted
  <2>2. PICK k \in 1..jm.processed : r.hash = txns[j][k]
    BY <2>1 DEF TrackerOf, ReportedOf
  <2>3. jm.processed \in Nat /\ jm.total = Len(txns[j]) /\ jm.total \in Nat
    BY <2>1 DEF TrackerOf, TypeInv, TypeOK, Tracker
  <2>4. k \in 1..Len(txns[j]) /\ k <= jm.processed
    BY <2>1, <2>3
  <2> QED
    BY <2>2, <2>4
<1> QED
  BY <1>1, SpecCounts, PTL

-----------------------------------------------------------------------------
\* How far cancellations loosen the exclusion.  A Finish releases whichever run
\* is registered.  A run that was cancelled calls it up to twice, one that is
\* no longer registered once more, and only one of these calls is its own:
\* Releases are the calls to come that can let another goroutine in.
Release == {"other", "cancelled", "deferred"}
Releases ==
    {p \in Jobs \X Release :
        LET j == p[1] IN
        \/ p[2] = "other" /\ j \in LiveJobs \ ctxDone /\ j # jm.cancelFunc
        \/ p[2] = "cancelled" /\ j \in WorkingJobs \cap ctxDone
        \/ p[2] = "deferred" /\ j \in LiveJobs \cap ctxDone /\ j # jm.cancelFunc}

\* Only what runs is registered, and only what was registered is cancelled.
Registered ==
    /\ ~jm.isRunning => jm.cancelFunc = NoJob
    /\ \A j \in Jobs : pc[j] \in {"idle", "starting"} =>
           j \notin ctxDone /\ j # jm.cancelFunc

Bounded(P, C) == IsFiniteSet(P) /\ IsFiniteSet(C) /\ Cardinality(P) <= Cardinality(C)

BoundInv == Registered /\ Bounded(Releases, ctxDone)

LEMMA BoundedSubset ==
  ASSUME NEW P, NEW C, Bounded(P, C), NEW Q \in SUBSET P PROVE Bounded(Q, C)
  BY FS_Subset, FS_CardinalityType DEF Bounded

LEMMA AtMostOneMore ==
  ASSUME NEW P, IsFiniteSet(P), NEW q
  PROVE  IsFiniteSet(P \cup {q}) /\ Cardinality(P \cup {q}) <= Cardinality(P) + 1
<1>1. Cardinality(P) \in Nat
  BY FS_CardinalityType
<1> QED
  BY <1>1, FS_AddElement

LEMMA BoundedSwap ==
  ASSUME NEW P, NEW C, Bounded(P, C), NEW p \in P, NEW q, NEW Q,
         Q \subseteq (P \ {p}) \cup {q}
  PROVE  Bounded(Q, C)
<1>1. IsFiniteSet(P \ {p}) /\ Cardinality(P \ {p}) = Cardinality(P) - 1
  BY FS_RemoveElement DEF Bounded
<1>2. /\ IsFiniteSet((P \ {p}) \cup {q})
      /\ Cardinality((P \ {p}) \cup {q}) <= Cardinality(P)
  <2>1. Cardinality(P) \in Nat
    BY FS_CardinalityType DEF Bounded
  <2>2. /\ IsFiniteSet((P \ {p}) \cup {q})
        /\ Cardinality((P \ {p}) \cup {q}) <= Cardinality(P \ {p}) + 1
    BY <1>1, AtMostOneMore, Zenon
  <2>3. Cardinality(P \ {p}) + 1 = Cardinality(P)
    BY <1>1, <2>1
  <2> QED
    BY <2>2, <2>3
<1>3. Bounded((P \ {p}) \cup {q}, C)
  BY <1>2, FS_CardinalityType DEF Bounded
<1> QED
  BY <1>3, BoundedSubset

LEMMA BoundedGrow ==
  ASSUME NEW P, NEW C, Bounded(P, C), NEW c, c \notin C, NEW q, NEW Q,
         Q \subseteq P \cup {q}
  PROVE  Bounded(Q, C \cup {c})
<1>1. /\ IsFiniteSet(P \cup {q}) /\ IsFiniteSet(C \cup {c})
      /\ Cardinality(P \cup {q}) <= Cardinality(P) + 1
      /\ Cardinality(C \cup {c}) = Cardinality(C) + 1
  BY AtMostOneMore, FS_AddElement DEF Bounded
<1>2. Bounded(P \cup {q}, C \cup {c})
  BY <1>1, FS_CardinalityType DEF Bounded
<1> QED
  BY <1>2, BoundedSubset

LEMMA BoundInit == Init => BoundInv
<1> SUFFICES ASSUME Init PROVE BoundInv
  OBVIOUS
<1>1. LiveJobs = {} /\ WorkingJobs = {}
  BY DEF Init, LiveJobs, WorkingJobs, Live, Working, Leaving
<1>2. Releases = {} /\ ctxDone = {}
  BY <1>1 DEF Init, Releases
<1>3. Bounded(Releases, ctxDone)
  BY <1>2, FS_EmptySet DEF Bounded
<1>4. Registered
  BY JobsAssumption DEF Init, Registered, IdleTracker
<1> QED
  BY <1>3, <1>4 DEF BoundInv

\* Steps that register and cancel nothing and let nothing new run.
LEMMA NoNewRelease ==
  ASSUME BoundInv, ctxDone' = ctxDone, jm'.cancelFunc = jm.cancelFunc,
         jm'.isRunning = jm.isRunning,
         LiveJobs' \subseteq LiveJobs, WorkingJobs' \subseteq WorkingJobs,
         \A j \in Jobs : pc'[j] \in {"idle", "starting"} => pc[j] \in {"idle", "starting"}
  PROVE  BoundInv'
<1>1. Releases' \subseteq Releases
  BY DEF Releases
<1>2. Bounded(Releases', ctxDone')
  BY <1>1, BoundedSubset DEF BoundInv
<1>3. Registered'
  BY DEF BoundInv, Registered
<1> QED
  BY <1>2, <1>3 DEF BoundInv

\* A run that moves on within the loop, or out of it.
LEMMA MoveBound ==
  ASSUME TypeOK, BoundInv, NEW j \in Jobs, NEW l, Goto(j, l), ctxDone' = ctxDone,
         jm'.cancelFunc = jm.cancelFunc, jm'.isRunning = jm.isRunning,
         l \in Live => pc[j] \in Live,
         l \in Working => pc[j] \in Working,
         l \in {"idle", "starting"} => pc[j] \in {"idle", "starting"}
  PROVE  BoundInv'
<1>1. pc'[j] = l /\ \A i \in Jobs \ {j} : pc'[i] = pc[i]
  BY DEF Goto, TypeOK
<1>2. LiveJobs' \subseteq LiveJobs /\ WorkingJobs' \subseteq WorkingJobs
  BY <1>1 DEF LiveJobs, WorkingJobs
<1> QED
  BY <1>1, <1>2, NoNewRelease

LEMMA FinishBound ==
  ASSUME TypeOK, BoundInv, NEW j \in Jobs, NEW s, NEW l,
         jm' = Finished(jm, s), Goto(j, l), ctxDone' = ctxDone,
         \/ l = "defer" /\ pc[j] \in Working /\ j \in ctxDone
         \/ l = "done" /\ pc[j] = "finish"
  PROVE  BoundInv'
<1> DEFINE r == jm.cancelFunc
<1>1. jm'.cancelFunc = NoJob /\ jm'.isRunning = FALSE
  BY DEF Finished, TypeOK, Tracker
<1>2. pc'[j] = l /\ \A i \in Jobs \ {j} : pc'[i] = pc[i]
  BY DEF Goto, TypeOK
<1>3. /\ l = "defer" => LiveJobs' = LiveJobs /\ WorkingJobs' = WorkingJobs \ {j}
      /\ l = "done" => LiveJobs' = LiveJobs \ {j} /\ WorkingJobs' = WorkingJobs
      /\ j \in LiveJobs
      /\ l = "defer" => j \in WorkingJobs
  BY <1>2 DEF LiveJobs, WorkingJobs, Live, Working, Leaving
<1>4. Registered'
  BY <1>1, <1>2, JobsAssumption DEF BoundInv, Registered
<1>5. Releases' \subseteq Releases \cup {<<r, "other">>, <<r, "deferred">>}
  BY <1>3 DEF Releases
<1>6. \E k : Releases' \subseteq Releases \cup {<<r, k>>}
  <2>1. CASE r \in ctxDone
    BY <1>5, <2>1 DEF Releases
  <2>2. CASE r \notin ctxDone
    BY <1>5, <2>2 DEF Releases
  <2> QED
    BY <2>1, <2>2
<1>a. ASSUME NEW p \in Releases, p \notin Releases' PROVE BoundInv'
  <2>1. PICK k : Releases' \subseteq Releases \cup {<<r, k>>}
    BY <1>6
  <2>2. Releases' \subseteq (Releases \ {p}) \cup {<<r, k>>}
    BY <1>a, <2>1
  <2>3. Bounded(Releases, ctxDone)
    BY DEF BoundInv
  <2>4. Bounded(Releases', ctxDone)
    BY <2>2, <2>3, BoundedSwap
  <2> QED
    BY <1>4, <2>4 DEF BoundInv
<1>7. CASE l = "defer"
  <2>1. <<j, "cancelled">> \in Releases /\ <<j, "cancelled">> \notin Releases'
    BY <1>3, <1>7 DEF Releases, Release
  <2> QED
    BY <1>a, <2>1
<1>8. CASE l = "done" /\ j = r
  <2>1. Releases' \subseteq Releases
    BY <1>3, <1>5, <1>8 DEF Releases
  <2> QED
    BY <1>4, <2>1, BoundedSubset DEF BoundInv
<1>9. CASE l = "done" /\ j # r
  <2>1. \E k \in Release : <<j, k>> \in Releases /\ <<j, k>> \notin Releases'
    <3>1. CASE j \in ctxDone
      <4>1. <<j, "deferred">> \in Releases /\ <<j, "deferred">> \notin Releases'
        BY <1>3, <1>9, <3>1 DEF Releases, Release
      <4> QED
        BY <4>1 DEF Release
    <3>2. CASE j \notin ctxDone
      <4>1. <<j, "other">> \in Releases /\ <<j, "other">> \notin Releases'
        BY <1>3, <1>9, <3>2 DEF Releases, Release
      <4> QED
        BY <4>1 DEF Release
    <3> QED
      BY <3>1, <3>2
  <2> QED
    BY <1>a, <2>1
<1> QED
  BY <1>7, <1>8, <1>9

LEMMA CancelBound == TypeOK /\ BoundInv /\ Cancel => BoundInv'
<1> SUFFICES ASSUME TypeOK, BoundInv, Cancel PROVE BoundInv'
  OBVIOUS
<1> DEFINE r == jm.cancelFunc
<1>1. /\ ctxDone' = ctxDone \cup {r} /\ r # NoJob /\ UNCHANGED pc
      /\ jm'.cancelFunc = r /\ jm'.isRunning = jm.isRunning
  BY DEF Cancel, Cancellable, Cancelled, TypeOK, Tracker
<1>2. Registered'
  BY <1>1 DEF BoundInv, Registered
<1>3. CASE r \in ctxDone
  <2>1. ctxDone' = ctxDone /\ Releases' = Releases
    BY <1>1, <1>3 DEF Releases, LiveJobs, WorkingJobs
  <2> QED
    BY <1>2, <2>1 DEF BoundInv
<1>4. CASE r \notin ctxDone
  <2>1. Releases' \subseteq Releases \cup {<<r, "cancelled">>}
    BY <1>1, <1>4 DEF Releases, LiveJobs, WorkingJobs
  <2>2. Bounded(Releases', ctxDone \cup {r})
    BY <1>4, <2>1, BoundedGrow DEF BoundInv
  <2> QED
    BY <1>1, <1>2, <2>2 DEF BoundInv
<1> QED
  BY <1>3, <1>4

LEMMA BoundStep == TypeInv /\ BoundInv /\ [Next]_vars => BoundInv'
<1> SUFFICES ASSUME TypeInv, BoundInv, [Next]_vars PROVE BoundInv'
  OBVIOUS
<1>t. TypeOK
  BY DEF TypeInv
<1> USE <1>t
<1>1. ASSUME NEW j \in Jobs, StartAccepted(j) PROVE BoundInv'
  <2>1. /\ pc' = [pc EXCEPT ![j] = "check"] /\ pc[j] = "starting"
        /\ jm'.cancelFunc = j /\ jm'.isRunning /\ ~jm.isRunning
        /\ ctxDone' = ctxDone
    BY <1>1 DEF StartAccepted, Goto, Started, AlreadyRunning
  <2>2. jm.cancelFunc = NoJob /\ j \notin ctxDone
    BY <2>1 DEF BoundInv, Registered
  <2>3. /\ LiveJobs' = LiveJobs \cup {j} /\ WorkingJobs' = WorkingJobs \cup {j}
    BY <2>1 DEF LiveJobs, WorkingJobs, Live, Working, TypeOK
  <2>4. Releases' \subseteq Releases
    BY <2>1, <2>2, <2>3, JobsAssumption DEF Releases
  <2>5. Registered'
    BY <2>1 DEF BoundInv, Registered, TypeOK
  <2> QED
    BY <2>1, <2>4, <2>5, BoundedSubset DEF BoundInv
<1>2. ASSUME NEW j \in Jobs, CheckCancelled(j) PROVE BoundInv'
  BY <1>2, FinishBound DEF CheckCancelled, Working
<1>3. ASSUME NEW j \in Jobs, Report(j), pc[j] \in Working PROVE BoundInv'
  <2>1. jm'.isRunning = jm.isRunning /\ jm'.cancelFunc = jm.cancelFunc
    BY <1>3 DEF Report, Added, TypeOK, Tracker
  <2> QED
    BY <1>3, <2>1, MoveBound DEF Report, Live, Working
<1>4. ASSUME NEW j \in Jobs, LLMFails(j) PROVE BoundInv'
  <2>1. CASE j \in ctxDone
    BY <1>4, <2>1, FinishBound DEF LLMFails, Working
  <2>2. CASE j \notin ctxDone
    BY <1>3, <1>4, <2>2 DEF LLMFails, Working
  <2> QED
    BY <2>1, <2>2
<1>5. ASSUME NEW j \in Jobs, BatchDone(j) PROVE BoundInv'
  BY <1>3, <1>5 DEF BatchDone, Working
<1>6. ASSUME NEW j \in Jobs, DeferFinish(j) PROVE BoundInv'
  BY <1>6, FinishBound DEF DeferFinish
<1>7. CASE Cancel
  BY <1>7, CancelBound
<1>8. CASE Restart
  <2>1. /\ jm'.cancelFunc = NoJob /\ ctxDone' = ctxDone
        /\ pc' = [j \in Jobs |-> IF pc[j] = "idle" THEN "idle" ELSE "done"]
    BY <1>8 DEF Restart, IdleTracker
  <2>2. LiveJobs' = {} /\ WorkingJobs' = {}
    BY <2>1 DEF LiveJobs, WorkingJobs, Live, Working, Leaving
  <2>3. Releases' \subseteq Releases
    BY <2>2 DEF Releases
  <2>4. Registered'
    BY <2>1, JobsAssumption DEF BoundInv, Registered
  <2> QED
    BY <2>1, <2>3, <2>4, BoundedSubset DEF BoundInv
<1>9. ASSUME NEW j \in Jobs,
             \/ Snapshot(j) \/ StartRejected(j) \/ NextBatch(j) \/ LoopDone(j)
             \/ CallLLM(j) \/ LLMAnswers(j) \/ DeferRead(j)
      PROVE  BoundInv'
  <2>1. PICK l \in Location :
            /\ Goto(j, l)
            /\ l \in Live => pc[j] \in Live
            /\ l \in Working => pc[j] \in Working
            /\ l \in {"idle", "starting"} => pc[j] \in {"idle", "starting"}
    BY <1>9 DEF Snapshot, StartRejected, NextBatch, LoopDone, CallLLM, LLMAnswers,
                DeferRead, Location, Live, Working, Leaving
  <2>2. jm' = jm /\ ctxDone' = ctxDone
    BY <1>9 DEF Snapshot, StartRejected, NextBatch, LoopDone, CallLLM, LLMAnswers,
                DeferRead
  <2> QED
    BY <2>1, <2>2, MoveBound
<1>10. ASSUME UNCHANGED <<jm, pc, ctxDone>> PROVE BoundInv'
  BY <1>10, NoNewRelease DEF LiveJobs, WorkingJobs
<1>11. ASSUME NEW j \in Jobs, \/ FindMatch(j) \/ MatchInDatabase(j) \/ LeaveForLLM(j)
                             \/ MatchFails(j) \/ WriteGroup(j)
       PROVE  BoundInv'
  BY <1>10, <1>11 DEF FindMatch, MatchInDatabase, LeaveForLLM, MatchFails, WriteGroup
<1>12. ASSUME NEW t \in Txns, UpdateCategory(t) \/ DeleteRow(t) PROVE BoundInv'
  BY <1>10, <1>12 DEF UpdateCategory, DeleteRow
<1>13. CASE UNCHANGED vars
  BY <1>10, <1>13 DEF vars
<1> QED
  BY <1>1, <1>2, <1>4, <1>5, <1>6, <1>7, <1>8, <1>9, <1>11, <1>12, <1>13,
     EditsAssumption
  DEF Next, JobStep

\* However cancelled runs and their deferred functions interleave with new
\* starts, each cancelled run lets at most one extra goroutine in.
CancelsBoundRunners ==
    Cardinality(WorkingJobs \ ctxDone) <= 1 + Cardinality(ctxDone)

\* For any number of runs and cancellations: there are never more goroutines at
\* work than one and one for each cancelled run.
THEOREM CancelsBound == Spec => []CancelsBoundRunners
<1>1. BoundInv => CancelsBoundRunners
  <2> SUFFICES ASSUME BoundInv PROVE CancelsBoundRunners
    OBVIOUS
  <2> DEFINE U == {j \in LiveJobs \ ctxDone : j # jm.cancelFunc}
             f == [p \in Releases |-> p[1]]
             I == {f[p] : p \in Releases}
  <2>1. IsFiniteSet(I) /\ Cardinality(I) <= Cardinality(Releases)
    <3>1. IsFiniteSet(Releases)
      BY DEF BoundInv, Bounded
    <3>2. f \in Surjection(Releases, I)
      BY DEF Surjection
    <3> QED
      BY <3>1, <3>2, FS_Surjection
  <2>2. U \subseteq I
    <3> SUFFICES ASSUME NEW j \in U PROVE j \in I
      OBVIOUS
    <3>1. <<j, "other">> \in Releases
      BY DEF Releases, Release, LiveJobs
    <3> QED
      BY <3>1
  <2> HIDE DEF I
  <2>3. WorkingJobs \ ctxDone \subseteq I \cup {jm.cancelFunc}
    BY <2>2 DEF WorkingJobs, LiveJobs, Live
  <2>4. /\ IsFiniteSet(I \cup {jm.cancelFunc})
        /\ Cardinality(I \cup {jm.cancelFunc}) <= Cardinality(I) + 1
    BY <2>1, FS_AddElement, FS_CardinalityType
  <2>5. /\ IsFiniteSet(WorkingJobs \ ctxDone)
        /\ Cardinality(WorkingJobs \ ctxDone) <= Cardinality(I \cup {jm.cancelFunc})
    BY <2>3, <2>4, FS_Subset
  <2>6. Cardinality(Releases) <= Cardinality(ctxDone)
    BY DEF BoundInv, Bounded
  <2>7. /\ Cardinality(Releases) \in Nat /\ Cardinality(ctxDone) \in Nat
        /\ Cardinality(I) \in Nat /\ Cardinality(WorkingJobs \ ctxDone) \in Nat
        /\ Cardinality(I \cup {jm.cancelFunc}) \in Nat
    BY <2>1, <2>4, <2>5, FS_CardinalityType DEF BoundInv, Bounded
  <2> QED
    BY <2>1, <2>4, <2>5, <2>6, <2>7 DEF CancelsBoundRunners
<1>2. Init => TypeInv /\ BoundInv
  BY TypeInit, BoundInit
<1>3. TypeInv /\ BoundInv /\ [Next]_vars => TypeInv' /\ BoundInv'
  BY TypeStep, BoundStep
<1> QED
  BY <1>1, <1>2, <1>3, PTL DEF Spec

-----------------------------------------------------------------------------
\* The refinement.  Without cancellations the contexts stay alive, so that at
\* most one goroutine is live: it is the holder.
Holder == IF LiveJobs = {} THEN NoJob ELSE CHOOSE j \in LiveJobs : TRUE
Over   == {j \in Jobs : pc[j] = "done"}

\* A step either is one of the abstract job's or leaves holder and over alone.
LEMMA StepRefines ==
  ASSUME TypeInv, RunInv, Undisturbed, Undisturbed', [Next]_vars
  PROVE  [Exclusive!Next]_<<Holder, Over>>
<1>t. TypeOK
  BY DEF TypeInv
<1> USE <1>t
<1>o. \A j \in LiveJobs : LiveJobs = {j} /\ jm.isRunning /\ jm.status = "running"
  BY DEF RunInv, SoleRunner
<1>q. ASSUME LiveJobs' = LiveJobs, Over' = Over PROVE UNCHANGED <<Holder, Over>>
  BY <1>q DEF Holder
<1>m. ASSUME NEW j \in Jobs, NEW l, Goto(j, l), pc[j] # "done", l # "done",
             pc[j] \in Live <=> l \in Live
      PROVE  UNCHANGED <<Holder, Over>>
  <2>1. LiveJobs' = LiveJobs
    BY <1>m, MovePcLive
  <2>2. Over' = Over
    BY <1>m DEF Goto, TypeOK, Over
  <2> QED
    BY <1>q, <2>1, <2>2
<1>1. ASSUME NEW j \in Jobs, StartAccepted(j) PROVE Exclusive!Acquire(j)
  <2>1. LiveJobs = {}
    BY <1>1, <1>o DEF StartAccepted, AlreadyRunning
  <2>2. LiveJobs' = {j} /\ Over' = Over /\ j \notin Over
    BY <1>1, <2>1 DEF StartAccepted, Goto, LiveJobs, Live, Working, TypeOK, Over
  <2>3. Holder = NoJob /\ Holder' = j
    BY <2>1, <2>2 DEF Holder
  <2> QED
    BY <2>2, <2>3 DEF Exclusive!Acquire, Holder, Over
<1>2. ASSUME NEW j \in Jobs, DeferFinish(j) PROVE Exclusive!Release
  <2>1. j \in LiveJobs
    BY <1>2 DEF DeferFinish, LiveJobs, Live, Leaving
  <2>2. LiveJobs = {j} /\ LiveJobs' = {} /\ Over' = Over \cup {j}
    BY <1>2, <1>o, <2>1 DEF DeferFinish, Goto, LiveJobs, Live, Working, Leaving, TypeOK, Over
  <2>3. Holder = j /\ Holder' = NoJob /\ j # NoJob
    BY <2>2, JobsAssumption DEF Holder
  <2> QED
    BY <2>2, <2>3 DEF Exclusive!Release, Holder, Over
<1>3. ASSUME Restart PROVE Exclusive!Abandon
  <2>1. pc' = [j \in Jobs |-> IF pc[j] = "idle" THEN "idle" ELSE "done"]
    BY <1>3 DEF Restart
  <2>2. LiveJobs' = {} /\ Over \subseteq Over' /\ Over' \subseteq Jobs
    BY <2>1 DEF LiveJobs, Live, Working, Leaving, Over
  <2>3. Holder' = NoJob /\ {Holder} \ {NoJob} \subseteq LiveJobs
    BY <2>2 DEF Holder
  <2>4. LiveJobs \subseteq Over'
    BY <2>1 DEF LiveJobs, Live, Working, Leaving, Over
  <2>5. Over' = Over \cup Over' \cup ({Holder} \ {NoJob})
    BY <2>2, <2>3, <2>4
  <2> QED
    BY <2>2, <2>3, <2>5 DEF Exclusive!Abandon, Holder, Over
<1>4. ASSUME NEW j \in Jobs,
             \/ Snapshot(j) \/ StartRejected(j) \/ NextBatch(j) \/ LoopDone(j)
             \/ CallLLM(j) \/ LLMAnswers(j) \/ LLMFails(j) \/ BatchDone(j)
      PROVE  UNCHANGED <<Holder, Over>>
  <2>1. \E l \in Location : /\ Goto(j, l) /\ pc[j] # "done" /\ l # "done"
                            /\ pc[j] \in Live <=> l \in Live
    BY <1>4 DEF Snapshot, StartRejected, NextBatch, LoopDone, CallLLM, LLMAnswers,
                LLMFails, BatchDone, Report, Location, Live, Working, Leaving
  <2> QED
    BY <1>m, <2>1
<1>5. ASSUME NEW j \in Jobs, DeferRead(j) PROVE UNCHANGED <<Holder, Over>>
  <2>1. j \in LiveJobs
    BY <1>5 DEF DeferRead, LiveJobs, Live, Leaving
  <2>2. Goto(j, "finish")
    BY <1>5, <1>o, <2>1 DEF DeferRead
  <2> QED
    BY <1>5, <1>m, <2>2 DEF DeferRead, Live, Leaving
<1>6. ASSUME NEW j \in Jobs, CheckCancelled(j) PROVE FALSE
  BY <1>6 DEF CheckCancelled, Undisturbed
<1>7. ASSUME Cancel PROVE FALSE
  BY <1>7 DEF Cancel, Undisturbed
<1>8. ASSUME UNCHANGED pc PROVE UNCHANGED <<Holder, Over>>
  BY <1>8, <1>q DEF LiveJobs, Over
<1>9. ASSUME NEW j \in Jobs, \/ FindMatch(j) \/ MatchInDatabase(j) \/ LeaveForLLM(j)
                             \/ MatchFails(j) \/ WriteGroup(j)
      PROVE  UNCHANGED <<Holder, Over>>
  BY <1>8, <1>9 DEF FindMatch, MatchInDatabase, LeaveForLLM, MatchFails, WriteGroup
<1>10. ASSUME NEW t \in Txns, UpdateCategory(t) \/ DeleteRow(t)
       PROVE  UNCHANGED <<Holder, Over>>
  BY <1>8, <1>10 DEF UpdateCategory, DeleteRow
<1>11. CASE UNCHANGED vars
  BY <1>8, <1>11 DEF vars
<1> QED
  BY <1>1, <1>2, <1>3, <1>4, <1>5, <1>6, <1>7, <1>9, <1>10, <1>11,
     EditsAssumption
  DEF Next, JobStep, Exclusive!Next

\* Where nobody can cancel, the tracker implements the exclusive job, for any
\* number of runs: the initial states map, and every step is one of the
\* abstract job's or a stutter.  (Its fairness is left to the model checker.)
THEOREM Refines ==
  ASSUME Cancels = {}
  PROVE  Spec => Exclusive!Init /\ [][Exclusive!Next]_(Exclusive!vars)
<1>1. Init => TypeInv /\ RunInv /\ Undisturbed
  BY TypeInit, RunInit DEF Init, Undisturbed
<1>2. TypeInv /\ RunInv /\ Undisturbed /\ [Next]_vars =>
          TypeInv' /\ RunInv' /\ Undisturbed'
  <2> SUFFICES ASSUME Undisturbed, [Next]_vars PROVE Undisturbed'
    BY TypeStep, RunStep
  <2> QED
    BY DEF Undisturbed, Next, vars, JobStep, Snapshot, StartAccepted, StartRejected,
           CheckCancelled, NextBatch, LoopDone, FindMatch, MatchInDatabase, LeaveForLLM,
           MatchFails, CallLLM, LLMAnswers, LLMFails, Report, WriteGroup, BatchDone, DeferRead, DeferFinish,
           Cancel, UpdateCategory, DeleteRow, Restart
<1>3. Init => Exclusive!Init
  BY DEF Init, Exclusive!Init, LiveJobs, Live, Working, Leaving
<1>4. TypeInv /\ RunInv /\ Undisturbed /\ Undisturbed' /\ [Next]_vars =>
          [Exclusive!Next]_(Exclusive!vars)
  BY StepRefines DEF Exclusive!vars, Holder, Over
<1> QED
  BY <1>1, <1>2, <1>3, <1>4, PTL DEF Spec

-----------------------------------------------------------------------------
\* What may be found in a user's transactions: categories the user sees, and
\* those it has set by hand without seeing them.
Theirs(u) == CatsOf[u] \cup {c \in Cats : <<u, c>> \in foreign}

\* A run handles only transactions and categories of the user it was started
\* for, from its snapshot to the model's answer.
RunsStayWithUser ==
    \A j \in Jobs :
        /\ \A k \in 1..Len(txns[j]) : Owner[txns[j][k]] = user[j]
        /\ \A t \in todo[j] \cup viaLLM[j] : Owner[t] = user[j]
        /\ \A p \in hit[j] : Owner[p[1]] = user[j] /\ p[2] \in Theirs(user[j])
        /\ \A p \in answer[j] : p[2] \in CatsOf[user[j]]

RowsStayWithUser == \A t \in Txns : category[t] \in Theirs(Owner[t]) \cup {NoCat}

OwnInv == RunsStayWithUser /\ RowsStayWithUser

\* Nothing a user has set by hand is forgotten.
LEMMA TheirsGrows ==
  ASSUME foreign \subseteq foreign', NEW u
  PROVE  Theirs(u) \subseteq Theirs(u)'
  BY DEF Theirs

LEMMA SnapshotOwner ==
  ASSUME TypeOK, NEW u \in Users, NEW s \in SetToSeqs(Uncategorised(u)),
         NEW k \in 1..Len(s)
  PROVE  Owner[s[k]] = u
<1>1. s \in [1..Cardinality(Uncategorised(u)) -> Uncategorised(u)]
  BY DEF SetToSeqs
<1>2. s \in Seq(Txns)
  BY SnapshotType
<1>3. k \in DOMAIN s
  BY <1>2, LenProperties
<1> QED
  BY <1>1, <1>3 DEF Uncategorised

LEMMA BatchOwner ==
  ASSUME TypeOK, RunsStayWithUser, NEW j \in Jobs, NEW t \in Batch(j)
  PROVE  Owner[t] = user[j]
<1>1. PICK k \in (next[j] + 1)..BatchEnd(j) : t = txns[j][k]
  BY DEF Batch
<1>2. next[j] \in Nat /\ Len(txns[j]) \in Nat
  BY DEF TypeOK
<1>3. k \in 1..Len(txns[j])
  BY <1>1, <1>2, BatchAssumption DEF BatchEnd
<1> QED
  BY <1>1, <1>3 DEF RunsStayWithUser

LEMMA OwnInit == Init => OwnInv
  BY EmptySeq DEF Init, OwnInv, RunsStayWithUser, RowsStayWithUser

LEMMA OwnStep == TypeInv /\ OwnInv /\ [Next]_vars => OwnInv'
<1> SUFFICES ASSUME TypeInv, OwnInv, [Next]_vars PROVE OwnInv'
  OBVIOUS
<1>t. TypeOK
  BY DEF TypeInv
<1> USE <1>t DEF OwnInv
<1>s. ASSUME foreign' = foreign PROVE \A u : Theirs(u)' = Theirs(u)
  BY <1>s DEF Theirs
<1>r. ASSUME UNCHANGED <<category, foreign>> PROVE RowsStayWithUser'
  BY <1>r, <1>s DEF RowsStayWithUser
<1>1. ASSUME NEW j \in Jobs, Snapshot(j) PROVE OwnInv'
  <2>1. PICK s \in SetToSeqs(Uncategorised(user[j])) : txns' = [txns EXCEPT ![j] = s]
    BY <1>1 DEF Snapshot
  <2>2. \A k \in 1..Len(s) : Owner[s[k]] = user[j]
    BY <2>1, SnapshotOwner DEF TypeOK
  <2>3. UNCHANGED <<category, foreign, user, todo, hit, viaLLM, answer>>
    BY <1>1 DEF Snapshot, batchVars
  <2>4. RunsStayWithUser'
    BY <1>s, <2>1, <2>2, <2>3 DEF RunsStayWithUser, TypeOK
  <2> QED
    BY <1>r, <2>3, <2>4
<1>2. ASSUME NEW j \in Jobs, StartRejected(j) PROVE OwnInv'
  <2>1. UNCHANGED <<category, foreign, user, todo, hit, viaLLM, answer>>
    BY <1>2 DEF StartRejected, batchVars
  <2>2. RunsStayWithUser'
    BY <1>s, <1>2, <2>1, EmptySeq DEF StartRejected, RunsStayWithUser, TypeOK
  <2> QED
    BY <1>r, <2>1, <2>2
<1>3. ASSUME NEW j \in Jobs, NextBatch(j) PROVE OwnInv'
  <2>1. \A t \in Batch(j) : Owner[t] = user[j]
    BY BatchOwner
  <2>2. UNCHANGED <<category, foreign, user, txns, answer>>
    BY <1>3 DEF NextBatch
  <2>3. RunsStayWithUser'
    BY <1>s, <1>3, <2>1, <2>2 DEF NextBatch, RunsStayWithUser, TypeOK
  <2> QED
    BY <1>r, <2>2, <2>3
<1>4. ASSUME NEW j \in Jobs, FindMatch(j) PROVE OwnInv'
  <2>0. PICK t \in todo[j] : \E c \in Matches(user[j], t) \ {NoCat} :
             /\ hit' = [hit EXCEPT ![j] = {<<t, c>>}]
             /\ todo' = [todo EXCEPT ![j] = @ \ {t}]
    BY <1>4 DEF FindMatch
  <2>1. PICK c \in Matches(user[j], t) \ {NoCat} :
             /\ hit' = [hit EXCEPT ![j] = {<<t, c>>}]
             /\ todo' = [todo EXCEPT ![j] = @ \ {t}]
    BY <2>0
  <2>2. Owner[t] = user[j]
    BY <2>0 DEF RunsStayWithUser
  <2>3. c \in Theirs(user[j])
    BY <2>1 DEF Matches, Categorised, RowsStayWithUser, TypeOK
  <2>4. UNCHANGED <<category, foreign, user, txns, viaLLM, answer>>
    BY <1>4 DEF FindMatch
  <2>5. RunsStayWithUser'
    BY <1>s, <2>1, <2>2, <2>3, <2>4 DEF RunsStayWithUser, TypeOK
  <2> QED
    BY <1>r, <2>4, <2>5
<1>5. ASSUME NEW j \in Jobs, MatchInDatabase(j) \/ MatchFails(j) PROVE OwnInv'
  <2>1. PICK p \in hit[j] :
             /\ \/ UNCHANGED category
                \/ category' = [category EXCEPT ![p[1]] = p[2]]
             /\ viaLLM' = viaLLM \/ viaLLM' = [viaLLM EXCEPT ![j] = @ \cup {p[1]}]
    BY <1>5 DEF MatchInDatabase, MatchFails
  <2>2. Owner[p[1]] = user[j] /\ p[2] \in Theirs(user[j]) /\ p[1] \in Txns
    BY <2>1 DEF RunsStayWithUser, TypeOK
  <2>3. /\ UNCHANGED <<foreign, user, txns, todo, answer>>
        /\ hit' = [hit EXCEPT ![j] = {}]
    BY <1>5 DEF MatchInDatabase, MatchFails
  <2>4. RowsStayWithUser'
    <3>1. \A t \in Txns : category'[t] \in {category[t]} \cup (IF t = p[1] THEN {p[2]} ELSE {})
      BY <2>1 DEF TypeOK
    <3>2. \A u : Theirs(u)' = Theirs(u)
      BY <1>s, <2>3
    <3> QED
      BY <2>2, <3>1, <3>2 DEF RowsStayWithUser
  <2>5. RunsStayWithUser'
    BY <1>s, <2>1, <2>2, <2>3 DEF RunsStayWithUser, TypeOK
  <2> QED
    BY <2>4, <2>5
<1>6. ASSUME NEW j \in Jobs, LeaveForLLM(j) PROVE OwnInv'
  <2>1. PICK t \in todo[j] :
             /\ todo' = [todo EXCEPT ![j] = @ \ {t}]
             /\ viaLLM' = [viaLLM EXCEPT ![j] = @ \cup {t}]
    BY <1>6 DEF LeaveForLLM
  <2>2. UNCHANGED <<category, foreign, user, txns, hit, answer>>
    BY <1>6 DEF LeaveForLLM
  <2>3. RunsStayWithUser'
    BY <1>s, <2>1, <2>2 DEF RunsStayWithUser, TypeOK
  <2> QED
    BY <1>r, <2>2, <2>3
<1>7. ASSUME NEW j \in Jobs, LLMAnswers(j) PROVE OwnInv'
  <2>1. PICK a \in SUBSET ({Key[t] : t \in viaLLM[j]} \X CatsOf[user[j]]) :
             answer' = [answer EXCEPT ![j] = a]
    BY <1>7 DEF LLMAnswers
  <2>2. \A p \in a : p[2] \in CatsOf[user[j]]
    BY <2>1
  <2>3. UNCHANGED <<category, foreign, user, txns, todo, hit, viaLLM>>
    BY <1>7 DEF LLMAnswers
  <2>4. RunsStayWithUser'
    BY <1>s, <2>1, <2>2, <2>3 DEF RunsStayWithUser, TypeOK
  <2> QED
    BY <1>r, <2>3, <2>4
<1>8. ASSUME NEW j \in Jobs, WriteGroup(j) PROVE OwnInv'
  <2>1. PICK c \in {p[2] : p \in answer[j]} :
             LET hashes == {t \in viaLLM[j] : <<Key[t], c>> \in answer[j]}
             IN  /\ answer' = [answer EXCEPT ![j] = {p \in @ : p[2] # c}]
                 /\ \/ category' = [t \in Txns |-> IF t \in hashes \cap rows
                                                   THEN c ELSE category[t]]
                    \/ UNCHANGED category
    BY <1>8 DEF WriteGroup
  <2>2. c \in Theirs(user[j])
    BY <2>1 DEF RunsStayWithUser, Theirs
  <2>3. \A t \in viaLLM[j] : Owner[t] = user[j]
    BY DEF RunsStayWithUser
  <2>4. UNCHANGED <<foreign, user, txns, todo, hit, viaLLM>>
    BY <1>8 DEF WriteGroup
  <2>5. RowsStayWithUser'
    BY <1>s, <2>1, <2>2, <2>3, <2>4 DEF RowsStayWithUser, TypeOK
  <2>6. RunsStayWithUser'
    BY <1>s, <2>1, <2>4 DEF RunsStayWithUser, TypeOK
  <2> QED
    BY <2>5, <2>6
<1>9. ASSUME NEW t \in Txns, UpdateCategory(t) PROVE OwnInv'
  <2>1. PICK c \in Cats \cup {NoCat} :
            /\ category' = [category EXCEPT ![t] = c]
            /\ foreign' = foreign \cup ({<<Owner[t], c>>} \cap Foreign)
    BY <1>9 DEF UpdateCategory
  <2>2. \A u : Theirs(u) \subseteq Theirs(u)'
    BY <2>1, TheirsGrows
  <2>3. c \in Theirs(Owner[t])' \cup {NoCat}
    BY <2>1, TxnsAssumption DEF Theirs, Foreign
  <2>4. RowsStayWithUser'
    BY <2>1, <2>2, <2>3 DEF RowsStayWithUser, TypeOK
  <2>5. UNCHANGED <<user, txns, todo, hit, viaLLM, answer>>
    BY <1>9 DEF UpdateCategory, batchVars
  <2>6. RunsStayWithUser'
    BY <2>2, <2>5 DEF RunsStayWithUser
  <2> QED
    BY <2>4, <2>6
<1>10. ASSUME NEW t \in Txns, DeleteRow(t) PROVE OwnInv'
  <2>1. UNCHANGED <<foreign, user, txns, todo, hit, viaLLM, answer>>
    BY <1>10 DEF DeleteRow, batchVars
  <2>2. RowsStayWithUser'
    BY <1>s, <1>10, <2>1 DEF DeleteRow, RowsStayWithUser, TypeOK
  <2>3. RunsStayWithUser'
    BY <1>s, <2>1 DEF RunsStayWithUser
  <2> QED
    BY <2>2, <2>3
<1>11. ASSUME UNCHANGED <<category, foreign, user, txns, todo, hit, viaLLM, answer>>
       PROVE  OwnInv'
  BY <1>r, <1>s, <1>11 DEF RunsStayWithUser
<1>12. ASSUME NEW j \in Jobs, StartAccepted(j) \/ CheckCancelled(j) \/ LoopDone(j)
                \/ CallLLM(j) \/ LLMFails(j) \/ BatchDone(j) \/ DeferRead(j)
                \/ DeferFinish(j)
       PROVE  OwnInv'
  BY <1>11, <1>12 DEF StartAccepted, CheckCancelled, LoopDone, CallLLM, LLMFails,
                      BatchDone, Report, DeferRead, DeferFinish, batchVars
<1>13. ASSUME Cancel \/ Restart PROVE OwnInv'
  BY <1>11, <1>13 DEF Cancel, Restart, batchVars
<1>14. CASE UNCHANGED vars
  BY <1>11, <1>14 DEF vars, batchVars
<1> QED
  BY <1>1, <1>2, <1>3, <1>4, <1>5, <1>6, <1>7, <1>8, <1>9, <1>10, <1>12, <1>13, <1>14,
     EditsAssumption
  DEF Next, JobStep

\* Runs of different users share a tracker, and users share categories; yet a
\* category a user does not see gets into its transactions only by its own hand.
THEOREM Tenancy == Spec => []CategoriesStayWithOwner
<1>1. Init => TypeInv /\ OwnInv
  BY TypeInit, OwnInit
<1>2. TypeInv /\ OwnInv /\ [Next]_vars => TypeInv' /\ OwnInv'
  BY TypeStep, OwnStep
<1>3. OwnInv => CategoriesStayWithOwner
  BY DEF OwnInv, RowsStayWithUser, Theirs, CategoriesStayWithOwner
<1> QED
  BY <1>1, <1>2, <1>3, PTL DEF Spec

-----------------------------------------------------------------------------
(* The end of a run: what it has before it falls with every move. *)

\* What a goroutine has before it: transactions not accounted for, the places
\* of the loop it has yet to pass, and the work at the place where it is.
Rest(j) == IF pc[j] \in Working /\ next[j] < Len(txns[j])
           THEN Len(txns[j]) - next[j] ELSE 0
Stage(j) == CASE pc[j] = "check" -> 6 [] pc[j] = "match" -> 5 [] pc[j] = "llm" -> 4
              [] pc[j] = "write" -> 3 [] pc[j] = "defer" -> 2 [] pc[j] = "finish" -> 1
              [] OTHER -> 0
Hit(j) == IF hit[j] = {} THEN 0 ELSE 1
Work(j) == CASE pc[j] = "match" -> Cardinality(todo[j]) + Cardinality(todo[j]) + Hit(j)
             [] pc[j] = "write" -> Cardinality({p[2] : p \in answer[j]})
             [] OTHER -> 0

\* Where a goroutine is.
Place(j) == <<pc[j], next[j], todo[j], hit[j], answer[j]>>

Closer(j) ==
    \/ Rest(j)' < Rest(j)
    \/ Rest(j)' = Rest(j) /\ Stage(j)' < Stage(j)
    \/ Rest(j)' = Rest(j) /\ Stage(j)' = Stage(j) /\ Work(j)' < Work(j)

\* No run works for ever, and none is ever set back: whatever the model and
\* the database answer, and whoever cancels, edits, deletes or starts another
\* run meanwhile, a step that moves a goroutine brings it closer to its end.
EveryMoveIsCloser ==
    [][\A j \in LiveJobs :
         Place(j)' # Place(j)
            => Closer(j)]_vars

LEMMA LeftIsNatural ==
  ASSUME TypeOK, NEW j \in Jobs
  PROVE  /\ Rest(j) \in Nat /\ Stage(j) \in Nat /\ Work(j) \in Nat
         /\ IsFiniteSet(todo[j]) /\ IsFiniteSet({p[2] : p \in answer[j]})
<1>1. next[j] \in Nat /\ Len(txns[j]) \in Nat
  BY DEF TypeOK
<1>2. Rest(j) \in Nat
  BY <1>1 DEF Rest
<1>3. Stage(j) \in Nat
  BY DEF Stage
<1>4. IsFiniteSet(todo[j])
  BY TxnsAssumption, FS_Subset DEF TypeOK
<1> DEFINE named == {p[2] : p \in answer[j]}
<1>5. IsFiniteSet(named)
  <2>1. answer[j] \subseteq Keys \X Cats
    BY DEF TypeOK
  <2>2. named \in SUBSET Cats
    BY <2>1
  <2> HIDE DEF named
  <2> QED
    BY <2>2, TxnsAssumption, FS_Subset
<1>6. Work(j) \in Nat
  <2>1. Cardinality(todo[j]) \in Nat
    BY <1>4, FS_CardinalityType
  <2>2. Cardinality(named) \in Nat
    <3> HIDE DEF named
    <3> QED
      BY <1>5, FS_CardinalityType
  <2>3. Hit(j) \in Nat
    BY DEF Hit
  <2> QED
    BY <2>1, <2>2, <2>3 DEF Work
<1> QED
  BY <1>2, <1>3, <1>4, <1>5, <1>6

\* A run at the same place of the same batch has as many rows before it.
LEMMA SameRest ==
  ASSUME TypeOK, NEW j \in Jobs, NEW l \in Working, Goto(j, l), pc[j] \in Working,
         next' = next, txns' = txns
  PROVE  Rest(j)' = Rest(j)
BY DEF TypeOK, Goto, Rest

LEMMA ReportIsCloser ==
  ASSUME TypeInv, NEW j \in Jobs, Report(j), pc[j] \in {"llm", "write"}
  PROVE  Closer(j)
<1>1. /\ next[j] \in Nat /\ Len(txns[j]) \in Nat /\ BatchSize \in Nat /\ BatchSize > 0
      /\ next[j] < Len(txns[j])
  BY BatchAssumption DEF TypeInv, TypeOK, InBatch
<1>2. next'[j] = next[j] + BatchSize /\ txns' = txns
  BY DEF Report, TypeInv, TypeOK
<1>3. Rest(j) = Len(txns[j]) - next[j]
  BY <1>1 DEF Rest, Working
<1>4. Rest(j)' = 0 \/ Rest(j)' = Len(txns[j]) - (next[j] + BatchSize)
  BY <1>2 DEF Rest
<1> QED
  BY <1>1, <1>3, <1>4 DEF Closer

\* A run that leaves its loop, or the process, with rows before it or without.
LEMMA LeavingIsCloser ==
  ASSUME TypeOK, NEW j \in Jobs, pc'[j] \in {"defer", "finish", "done"},
         Stage(j)' < Stage(j)
  PROVE  Closer(j)
<1>1. Rest(j)' = 0
  BY DEF Rest, Working
<1>2. Rest(j) \in Nat
  BY LeftIsNatural
<1> QED
  BY <1>1, <1>2 DEF Closer

\* A lookup and what follows it: the transaction is taken from those still to
\* be looked up, and then its match, if it has one, is dealt with.
LEMMA MatchIsCloser ==
  ASSUME TypeOK, NEW j \in Jobs, pc[j] = "match", UNCHANGED <<pc, next, txns>>,
         \/ \E t \in todo[j] : todo' = [todo EXCEPT ![j] = @ \ {t}]
         \/ todo' = todo /\ hit[j] # {} /\ hit'[j] = {}
  PROVE  Closer(j)
<1>1. Rest(j)' = Rest(j) /\ Stage(j)' = Stage(j)
  BY DEF Rest, Stage
<1>2. /\ Work(j) = Cardinality(todo[j]) + Cardinality(todo[j]) + Hit(j)
      /\ Work(j)' = Cardinality(todo'[j]) + Cardinality(todo'[j]) + Hit(j)'
  BY DEF Work
<1>3. Cardinality(todo[j]) \in Nat /\ IsFiniteSet(todo[j])
  BY LeftIsNatural, FS_CardinalityType
<1>4. Hit(j) \in {0, 1} /\ Hit(j)' \in {0, 1}
  BY DEF Hit
<1>5. CASE \E t \in todo[j] : todo' = [todo EXCEPT ![j] = @ \ {t}]
  <2>1. PICK t \in todo[j] : todo' = [todo EXCEPT ![j] = @ \ {t}]
    BY <1>5
  <2>2. todo'[j] = todo[j] \ {t}
    BY <2>1 DEF TypeOK
  <2>3. Cardinality(todo[j] \ {t}) = Cardinality(todo[j]) - 1
    BY <1>3, <2>1, FS_RemoveElement
  <2>4. Work(j)' < Work(j)
    BY <1>2, <1>3, <1>4, <2>2, <2>3
  <2> QED
    BY <1>1, <2>4 DEF Closer
<1>6. CASE todo' = todo /\ hit[j] # {} /\ hit'[j] = {}
  <2>1. Hit(j) = 1 /\ Hit(j)' = 0
    BY <1>6 DEF Hit
  <2>2. Work(j)' < Work(j)
    BY <1>2, <1>3, <1>6, <2>1
  <2> QED
    BY <1>1, <2>2 DEF Closer
<1> QED
  BY <1>5, <1>6

LEMMA WriteIsCloser ==
  ASSUME TypeOK, NEW j \in Jobs, WriteGroup(j)
  PROVE  Closer(j)
<1> DEFINE named == {p[2] : p \in answer[j]}
<1>1. PICK c \in named : answer' = [answer EXCEPT ![j] = {p \in @ : p[2] # c}]
  BY DEF WriteGroup
<1>2. Rest(j)' = Rest(j) /\ Stage(j)' = Stage(j)
  BY DEF Rest, Stage, WriteGroup
<1>3. {p[2] : p \in answer'[j]} = named \ {c}
  BY <1>1 DEF TypeOK
<1>4. pc[j] = "write" /\ pc'[j] = "write"
  BY DEF WriteGroup
<1>5. Work(j) = Cardinality(named) /\ Work(j)' = Cardinality(named \ {c})
  BY <1>3, <1>4 DEF Work
<1>6. IsFiniteSet(named)
  BY LeftIsNatural
<1>7. Cardinality(named \ {c}) = Cardinality(named) - 1 /\ Cardinality(named) \in Nat
  <2> HIDE DEF named
  <2> QED
    BY <1>1, <1>6, FS_RemoveElement, FS_CardinalityType
<1> QED
  BY <1>2, <1>5, <1>7 DEF Closer

\* Each step of the goroutine itself.
LEMMA OwnMoveIsCloser ==
  ASSUME TypeInv, NEW j \in LiveJobs, JobStep(j)
  PROVE  Closer(j)
<1>1. j \in Jobs /\ pc[j] \in Live /\ TypeOK /\ pc \in [Jobs -> Location]
  BY DEF LiveJobs, TypeInv, TypeOK
<1>2. ASSUME StartAccepted(j) \/ StartRejected(j) PROVE FALSE
  BY <1>1, <1>2 DEF StartAccepted, StartRejected, Live, Working, Leaving
<1>3. ASSUME CheckCancelled(j) \/ LoopDone(j) PROVE Closer(j)
  <2>1. pc[j] = "check" /\ pc'[j] = "defer"
    BY <1>1, <1>3 DEF CheckCancelled, LoopDone, Goto
  <2>2. Stage(j) = 6 /\ Stage(j)' = 2
    BY <2>1 DEF Stage
  <2> QED
    BY <1>1, <2>1, <2>2, LeavingIsCloser
<1>4. ASSUME NextBatch(j) PROVE Closer(j)
  <2>1. pc[j] = "check" /\ Goto(j, "match") /\ next' = next /\ txns' = txns
    BY <1>4 DEF NextBatch
  <2>2. pc'[j] = "match"
    BY <1>1, <2>1 DEF Goto
  <2>3. Stage(j) = 6 /\ Stage(j)' = 5
    BY <2>1, <2>2 DEF Stage
  <2>4. Rest(j)' = Rest(j)
    BY <1>1, <2>1, SameRest DEF Working
  <2> QED
    BY <2>3, <2>4 DEF Closer
<1>5. ASSUME FindMatch(j) \/ MatchInDatabase(j) \/ LeaveForLLM(j) \/ MatchFails(j)
      PROVE  Closer(j)
  <2>1. pc[j] = "match" /\ UNCHANGED <<pc, next, txns>>
    BY <1>5 DEF FindMatch, MatchInDatabase, LeaveForLLM, MatchFails
  <2>2. \/ \E t \in todo[j] : todo' = [todo EXCEPT ![j] = @ \ {t}]
        \/ todo' = todo /\ hit[j] # {} /\ hit'[j] = {}
    <3>1. ASSUME MatchInDatabase(j) \/ MatchFails(j)
          PROVE  todo' = todo /\ hit[j] # {} /\ hit'[j] = {}
      BY <1>1, <3>1 DEF MatchInDatabase, MatchFails, TypeOK
    <3> QED
      BY <1>5, <3>1 DEF FindMatch, LeaveForLLM
  <2> QED
    BY <1>1, <2>1, <2>2, MatchIsCloser
<1>6. ASSUME CallLLM(j) PROVE Closer(j)
  <2> DEFINE l == IF viaLLM[j] = {} THEN "write" ELSE "llm"
  <2>1. pc[j] = "match" /\ Goto(j, l) /\ next' = next /\ txns' = txns
    BY <1>6 DEF CallLLM, batchVars
  <2>2. pc'[j] = l /\ l \in {"write", "llm"}
    BY <1>1, <2>1 DEF Goto
  <2> HIDE DEF l
  <2>3. Stage(j) = 5 /\ Stage(j)' < 5
    BY <2>1, <2>2 DEF Stage
  <2>4. Rest(j)' = Rest(j)
    BY <1>1, <2>1, <2>2, SameRest DEF Working
  <2> QED
    BY <2>3, <2>4 DEF Closer
<1>7. ASSUME LLMAnswers(j) PROVE Closer(j)
  <2>1. pc[j] = "llm" /\ Goto(j, "write") /\ next' = next /\ txns' = txns
    BY <1>7 DEF LLMAnswers
  <2>2. pc'[j] = "write"
    BY <1>1, <2>1 DEF Goto
  <2>3. Stage(j) = 4 /\ Stage(j)' = 3
    BY <2>1, <2>2 DEF Stage
  <2>4. Rest(j)' = Rest(j)
    BY <1>1, <2>1, SameRest DEF Working
  <2> QED
    BY <2>3, <2>4 DEF Closer
<1>8. ASSUME LLMFails(j) PROVE Closer(j)
  <2>1. CASE j \in ctxDone
    <3>1. pc[j] = "llm" /\ pc'[j] = "defer"
      BY <1>1, <1>8, <2>1 DEF LLMFails, Goto
    <3>2. Stage(j) = 4 /\ Stage(j)' = 2
      BY <3>1 DEF Stage
    <3> QED
      BY <1>1, <3>1, <3>2, LeavingIsCloser
  <2>2. CASE j \notin ctxDone
    BY <1>1, <1>8, <2>2, ReportIsCloser DEF LLMFails
  <2> QED
    BY <2>1, <2>2
<1>9. ASSUME BatchDone(j) PROVE Closer(j)
  BY <1>1, <1>9, ReportIsCloser DEF BatchDone
<1>10. ASSUME DeferRead(j) PROVE Closer(j)
  <2>1. pc[j] = "defer" /\ pc'[j] \in {"finish", "done"}
    BY <1>1, <1>10 DEF DeferRead, Goto
  <2>2. Stage(j) = 2 /\ Stage(j)' < 2
    BY <2>1 DEF Stage
  <2> QED
    BY <1>1, <2>1, <2>2, LeavingIsCloser
<1>11. ASSUME DeferFinish(j) PROVE Closer(j)
  <2>1. pc[j] = "finish" /\ pc'[j] = "done"
    BY <1>1, <1>11 DEF DeferFinish, Goto
  <2>2. Stage(j) = 1 /\ Stage(j)' = 0
    BY <2>1 DEF Stage
  <2> QED
    BY <1>1, <2>1, <2>2, LeavingIsCloser
<1>12. ASSUME WriteGroup(j) PROVE Closer(j)
  BY <1>1, <1>12, WriteIsCloser
<1> QED
  BY <1>2, <1>3, <1>4, <1>5, <1>6, <1>7, <1>8, <1>9, <1>10, <1>11, <1>12 DEF JobStep

\* What a step of another run leaves alone.
LEMMA OthersStay ==
  ASSUME TypeOK, NEW i \in Jobs, NEW j \in Jobs, i # j, Snapshot(i) \/ JobStep(i)
  PROVE  Place(j)' = Place(j)
<1>1. ASSUME Report(i)
      PROVE  Place(j)' = Place(j)
  BY <1>1 DEF TypeOK, Report, Goto, Place
<1>2. ASSUME WriteGroup(i)
      PROVE  Place(j)' = Place(j)
  BY <1>2 DEF TypeOK, WriteGroup, Place
<1>3. ASSUME FindMatch(i) \/ MatchInDatabase(i) \/ LeaveForLLM(i) \/ MatchFails(i)
      PROVE  Place(j)' = Place(j)
  BY <1>3 DEF TypeOK, FindMatch, MatchInDatabase, LeaveForLLM, MatchFails, Place
<1>4. ASSUME NextBatch(i) \/ LLMAnswers(i)
      PROVE  Place(j)' = Place(j)
  BY <1>4 DEF TypeOK, NextBatch, LLMAnswers, Goto, Place
<1>5. ASSUME \/ Snapshot(i) \/ StartAccepted(i) \/ StartRejected(i) \/ CheckCancelled(i)
             \/ LoopDone(i) \/ CallLLM(i) \/ DeferRead(i) \/ DeferFinish(i)
             \/ LLMFails(i) /\ i \in ctxDone
      PROVE  Place(j)' = Place(j)
  <2>1. UNCHANGED batchVars /\ \E l : Goto(i, l)
    BY <1>5 DEF Snapshot, StartAccepted, StartRejected, CheckCancelled, LoopDone,
                CallLLM, DeferRead, DeferFinish, LLMFails
  <2> QED
    BY <2>1 DEF TypeOK, Goto, batchVars, Place
<1>6. LLMFails(i) => Report(i) \/ i \in ctxDone
  BY DEF LLMFails
<1>7. BatchDone(i) => Report(i)
  BY DEF BatchDone
<1> QED
  BY <1>1, <1>2, <1>3, <1>4, <1>5, <1>6, <1>7 DEF JobStep

LEMMA MoveIsCloser ==
  ASSUME TypeInv, [Next]_vars, NEW j \in LiveJobs,
         Place(j)' # Place(j)
  PROVE  Closer(j)
<1>1. j \in Jobs /\ pc[j] \in Live /\ TypeOK
  BY DEF LiveJobs, TypeInv
<1>2. ASSUME NEW i \in Jobs, Snapshot(i) \/ JobStep(i) PROVE Closer(j)
  <2>1. i = j
    BY <1>1, <1>2, OthersStay
  <2>2. ~Snapshot(j)
    BY <1>1 DEF Snapshot, Live, Working, Leaving
  <2> QED
    BY <1>2, <2>1, <2>2, OwnMoveIsCloser
<1>3. ASSUME Cancel \/ (\E t \in Txns : UpdateCategory(t) \/ DeleteRow(t)) \/ UNCHANGED vars
      PROVE  FALSE
  BY <1>3 DEF Cancel, UpdateCategory, DeleteRow, vars, batchVars, Place
<1>4. ASSUME Restart PROVE Closer(j)
  <2>1. pc'[j] = "done"
    BY <1>1, <1>4 DEF Restart, Live, Working, Leaving
  <2>2. Stage(j)' = 0
    BY <2>1 DEF Stage
  <2>3. Stage(j) > 0
    BY <1>1 DEF Stage, Live, Working, Leaving
  <2> QED
    BY <1>1, <2>1, <2>2, <2>3, LeavingIsCloser
<1> QED
  BY <1>2, <1>3, <1>4, EditsAssumption DEF Next

\* A run takes finitely many steps, for any snapshot, batch size and answers:
\* what it has before it is a triple of naturals, and whatever moves the run
\* lowers that triple in the lexicographic order.
THEOREM RunsWindDown ==
  Spec => /\ [](\A j \in LiveJobs : <<Rest(j), Stage(j), Work(j)>> \in Nat \X Nat \X Nat)
          /\ EveryMoveIsCloser
<1>1. TypeOK => \A j \in LiveJobs : <<Rest(j), Stage(j), Work(j)>> \in Nat \X Nat \X Nat
  BY LeftIsNatural DEF LiveJobs
<1>2. TypeInv /\ [Next]_vars =>
        [\A j \in LiveJobs :
           Place(j)' # Place(j)
              => Closer(j)]_vars
  BY MoveIsCloser
<1>3. Spec => [](TypeOK /\ TypeInv)
  <2>1. TypeInv => TypeOK
    BY DEF TypeInv
  <2> QED
    BY <2>1, TypeInit, TypeStep, PTL DEF Spec
<1> QED
  BY <1>1, <1>2, <1>3, PTL DEF Spec, EveryMoveIsCloser

=============================================================================
