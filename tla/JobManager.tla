----------------------------- MODULE JobManager -----------------------------
(***************************************************************************)
(* The tracker of the auto-categorisation job: the value behind            *)
(* service.JobManager, one instance of which serves every user of the      *)
(* process.  Its methods run under one mutex, so each of them is one       *)
(* function from the old tracker to the new one.  Cancelling also calls    *)
(* the stored context.CancelFunc; that half belongs to the caller, which   *)
(* owns the contexts.                                                      *)
(***************************************************************************)
EXTENDS Naturals

CONSTANTS
    NoJob   \* cancelFunc = nil

\* A CategorizedTransaction as the tracker reports it.
Result(t, c) == [hash |-> t, category |-> c]

\* NewJobManager: nothing runs and nothing ran.
IdleTracker ==
    [isRunning |-> FALSE, status |-> "idle", total |-> 0, processed |-> 0,
     results |-> {}, cancelFunc |-> NoJob]

\* Mutated: a rejection that asks the status text instead of the flag.
MutAlreadyRunning(m) == m.isRunning /\ m.status = "idle"

\* Start's rejection: ErrJobAlreadyRunning.
AlreadyRunning(m) == m.isRunning

\* Mutated: a Start that does not clear what the last run left.
MutStarted(m, n, j) ==
    [m EXCEPT !.isRunning = TRUE, !.status = "running", !.total = n,
              !.cancelFunc = j]

\* Start, once it is not rejected, with the CancelFunc of run j.
Started(m, n, j) ==
    [isRunning |-> TRUE, status |-> "running", total |-> n, processed |-> 0,
     results |-> {}, cancelFunc |-> j]

\* AddResults: the caller is not identified, the sums are shared.
Added(m, n, rs) ==
    [m EXCEPT !.processed = @ + n, !.results = @ \cup rs]

\* Finish: whoever calls it, whatever is registered is released.
Finished(m, s) ==
    [m EXCEPT !.isRunning = FALSE, !.status = s, !.cancelFunc = NoJob]

\* Cancel's condition, and its effect on the tracker: only the status text.
Cancellable(m) == m.cancelFunc # NoJob
Cancelled(m)   == [m EXCEPT !.status = "cancelled"]

=============================================================================
