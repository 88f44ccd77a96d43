------------------------------ MODULE JobQueue ------------------------------
(***************************************************************************)
(* What the table of SDK jobs promises to the rest of the registry: a job  *)
(* is started at most MaxAttempts times, goes back to the queue only while *)
(* it has attempts left, and once done stays done.                         *)
(***************************************************************************)
EXTENDS Naturals

CONSTANTS Jobs, MaxAttempts

VARIABLES state, starts

vars == <<state, starts>>

Init ==
    /\ state = [j \in Jobs |-> "none"]
    /\ starts = [j \in Jobs |-> 0]

\* A push enqueues its jobs.
Enqueue(S) ==
    /\ \A j \in S : state[j] = "none"
    /\ state' = [j \in Jobs |-> IF j \in S THEN "queued" ELSE state[j]]
    /\ UNCHANGED starts

\* A worker starts a job.
Start(j) ==
    /\ state[j] = "queued"
    /\ starts[j] < MaxAttempts
    /\ state' = [state EXCEPT ![j] = "started"]
    /\ starts' = [starts EXCEPT ![j] = @ + 1]

\* Jobs whose worker is gone are queued again.
Requeue(S) ==
    /\ \A j \in S : state[j] = "started" /\ starts[j] < MaxAttempts
    /\ state' = [j \in Jobs |-> IF j \in S THEN "queued" ELSE state[j]]
    /\ UNCHANGED starts

\* A worker that started the job reports how it ended.
Finish(j) ==
    /\ state[j] = "started"
    /\ state' = [state EXCEPT ![j] = "done"]
    /\ UNCHANGED starts

Next ==
    \/ \E S \in SUBSET Jobs : Enqueue(S) \/ Requeue(S)
    \/ \E j \in Jobs : Start(j) \/ Finish(j)

Spec == Init /\ [][Next]_vars
=============================================================================
