---------------------------- MODULE ExclusiveJob ----------------------------
(***************************************************************************)
(* What the job tracker is for, without how it works: one run at a time    *)
(* holds the right to categorise, gives it back when it is over, and is    *)
(* never taken up again.                                                   *)
(***************************************************************************)
CONSTANTS Jobs, NoJob

VARIABLES
    holder,   \* the run that may work, or NoJob
    over      \* runs that have ended

vars == <<holder, over>>

Init == holder = NoJob /\ over = {}

Acquire(j) ==
    /\ holder = NoJob
    /\ j \notin over
    /\ holder' = j
    /\ UNCHANGED over

Release ==
    /\ holder # NoJob
    /\ holder' = NoJob
    /\ over' = over \cup {holder}

\* A process restart ends the holder, if there is one, and callers that had
\* not got it yet.
Abandon ==
    /\ holder' = NoJob
    /\ \E S \in SUBSET Jobs : over' = over \cup S \cup ({holder} \ {NoJob})

Next == (\E j \in Jobs : Acquire(j)) \/ Release \/ Abandon

Spec == Init /\ [][Next]_vars /\ WF_vars(Release)

=============================================================================
