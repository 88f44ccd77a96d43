------------------------------ MODULE SdkJobs ------------------------------
(***************************************************************************)
(* Generating SDKs: the table of jobs (storage/db/sdkjob, SQLite) and the  *)
(* workers that claim them, run them and record how they ended             *)
(* (internal/sdk/worker/worker.go).                                        *)
(*                                                                         *)
(* A worker is the worker of one server process.  Its polling loop claims  *)
(* as many jobs as it has free slots, one UPDATE per job, then starts one  *)
(* task for each.  Two clocks matter: a row's started_at becomes stale     *)
(* after stalenessTimeout (five minutes), and the context a task writes    *)
(* its outcome with, created when the task starts, ends after fifteen      *)
(* seconds; from then on the task is late.  A claim is taken to turn into  *)
(* a task well within five minutes.                                        *)
(***************************************************************************)
EXTENDS Naturals, FiniteSets

CONSTANTS
    Jobs,         \* jobs, enqueued by pushes
    Workers,      \* server processes with a worker
    Concurrency,  \* tasks a worker runs at a time
    MaxAttempts,  \* sdkjob.MaxAttempts
    MaxFaults,    \* bound on crashes, shutdowns and failing database calls
    MaxLate       \* bound on late tasks

ASSUME SdkAssumption ==
    /\ IsFiniteSet(Jobs)
    /\ Concurrency \in Nat \ {0}
    /\ MaxAttempts \in Nat \ {0}
    /\ MaxFaults \in Nat
    /\ MaxLate \in Nat

VARIABLES
    row,        \* job -> status, attempts and the age of started_at
    artifacts,  \* jobs whose output is in the artifact store
    notices,    \* the outcomes that the author of a commit was notified of
    worker,     \* worker -> what its loop is doing
    ids,        \* worker -> jobs selected and not yet claimed
    claimed,    \* worker -> jobs claimed by the call in progress
    tasks,      \* tasks of all workers
    faults,     \* faults so far
    lates       \* late tasks so far

vars == <<row, artifacts, notices, worker, ids, claimed, tasks, faults, lates>>

Ended == {"succeeded", "failed", "dead"}

JobRow == [status: {"none", "pending", "running"} \cup Ended, attempts: Nat,
           started: {"no", "fresh", "stale"}]

Claim == [job: Jobs, attempt: Nat]

Task == [worker: Workers, job: Jobs, attempt: Nat, step: {"working", "uploaded"},
         late: BOOLEAN]

Notice == [job: Jobs, attempt: Nat, outcome: {"succeeded", "failed"}]

Pending == {j \in Jobs : row[j].status = "pending" /\ row[j].attempts < MaxAttempts}

TasksOf(w) == {t \in tasks : t.worker = w}

\* acquireAvailable
Free(w) == Concurrency - Cardinality(TasksOf(w))

\* A fault, counted.
Fault == faults < MaxFaults /\ faults' = faults + 1 /\ lates' = lates

Init ==
    /\ row = [j \in Jobs |-> [status |-> "none", attempts |-> 0, started |-> "no"]]
    /\ artifacts = {}
    /\ notices = {}
    /\ worker = [w \in Workers |-> "down"]
    /\ ids = [w \in Workers |-> {}]
    /\ claimed = [w \in Workers |-> {}]
    /\ tasks = {}
    /\ faults = 0
    /\ lates = 0

-----------------------------------------------------------------------------
(* The table. *)

\* CreateBatch, in the transaction of a push.
CreateBatch(S) ==
    /\ S # {}
    /\ \A j \in S : row[j].status = "none"
    /\ row' = [j \in Jobs |-> IF j \in S THEN [row[j] EXCEPT !.status = "pending"] ELSE row[j]]
    /\ UNCHANGED <<artifacts, notices, worker, ids, claimed, tasks, faults, lates>>

\* Five minutes pass since a running job was claimed: whoever claimed it is gone
\* or late.
Age(j) ==
    /\ row[j].status = "running"
    /\ row[j].started = "fresh"
    /\ \A w \in Workers : \A c \in claimed[w] : c.job # j
    /\ \A t \in tasks : t.job = j /\ t.attempt = row[j].attempts => t.late
    /\ row' = [row EXCEPT ![j].started = "stale"]
    /\ UNCHANGED <<artifacts, notices, worker, ids, claimed, tasks, faults, lates>>

\* Mutants of Stale: fresh rows too, no recovery.
StaleOrFresh == {j \in Jobs : row[j].status = "running" /\ row[j].attempts < MaxAttempts}
StaleNone == {}

\* The rows that RecoverStaleJobs resets.
Stale == {j \in Jobs : /\ row[j].status = "running"
                       /\ row[j].started = "stale"
                       /\ row[j].attempts < MaxAttempts}

-----------------------------------------------------------------------------
(* The polling loop. *)

Start(w) ==
    /\ worker[w] = "down"
    /\ worker' = [worker EXCEPT ![w] = "starting"]
    /\ UNCHANGED <<row, artifacts, notices, ids, claimed, tasks, faults, lates>>

\* At the start, and once a minute.
RecoverStale(w) ==
    /\ worker[w] \in {"starting", "loop"}
    /\ row' = [j \in Jobs |-> IF j \in Stale
                              THEN [row[j] EXCEPT !.status = "pending", !.started = "no"]
                              ELSE row[j]]
    /\ worker' = [worker EXCEPT ![w] = "loop"]
    /\ UNCHANGED <<artifacts, notices, ids, claimed, tasks, faults, lates>>

\* The update fails; the loop goes on.
RecoverFails(w) ==
    /\ worker[w] \in {"starting", "loop"}
    /\ Fault
    /\ worker' = [worker EXCEPT ![w] = "loop"]
    /\ UNCHANGED <<row, artifacts, notices, ids, claimed, tasks>>

\* ClaimPending selects as many pending jobs as there are free slots.
Poll(w) ==
    /\ worker[w] = "loop"
    /\ Free(w) > 0
    /\ \E S \in SUBSET Pending :
          /\ S # {}
          /\ Cardinality(S) <= Free(w)
          /\ S # Pending => Cardinality(S) = Free(w)
          /\ ids' = [ids EXCEPT ![w] = S]
    /\ worker' = [worker EXCEPT ![w] = "claim"]
    /\ UNCHANGED <<row, artifacts, notices, claimed, tasks, faults, lates>>

\* After a job was claimed or skipped: the next one, or a task for every claim.
Continue(w, j, claims) ==
    /\ ids' = [ids EXCEPT ![w] = @ \ {j}]
    /\ IF ids[w] = {j}
       THEN /\ claimed' = [claimed EXCEPT ![w] = {}]
            /\ tasks' = tasks \cup {[worker |-> w, job |-> c.job, attempt |-> c.attempt,
                                     step |-> "working", late |-> FALSE] : c \in claims}
            /\ worker' = [worker EXCEPT ![w] = "loop"]
       ELSE /\ claimed' = [claimed EXCEPT ![w] = claims]
            /\ UNCHANGED <<tasks, worker>>

\* The predicate of the UPDATE.
Claimable(j) == row[j].status = "pending"

ClaimJob(w, j) ==
    /\ worker[w] = "claim"
    /\ j \in ids[w]
    /\ Claimable(j)
    /\ row' = [row EXCEPT ![j] = [status |-> "running", attempts |-> @.attempts + 1,
                                  started |-> "fresh"]]
    /\ Continue(w, j, claimed[w] \cup {[job |-> j, attempt |-> row[j].attempts + 1]})
    /\ UNCHANGED <<artifacts, notices, faults, lates>>

\* Another worker has claimed it between the SELECT and the UPDATE.
SkipJob(w, j) ==
    /\ worker[w] = "claim"
    /\ j \in ids[w]
    /\ ~Claimable(j)
    /\ Continue(w, j, claimed[w])
    /\ UNCHANGED <<row, artifacts, notices, faults, lates>>

\* ClaimPending fails on the way: what it has claimed is forgotten.
ClaimFails(w) ==
    /\ worker[w] = "claim"
    /\ Fault
    /\ worker' = [worker EXCEPT ![w] = "loop"]
    /\ ids' = [ids EXCEPT ![w] = {}]
    /\ claimed' = [claimed EXCEPT ![w] = {}]
    /\ UNCHANGED <<row, artifacts, notices, tasks>>

\* The context is cancelled: the loop ends, a claim in progress fails with it.
Stop(w) ==
    /\ worker[w] \in {"starting", "loop", "claim"}
    /\ Fault
    /\ worker' = [worker EXCEPT ![w] = "stopping"]
    /\ ids' = [ids EXCEPT ![w] = {}]
    /\ claimed' = [claimed EXCEPT ![w] = {}]
    /\ UNCHANGED <<row, artifacts, notices, tasks>>

\* The worker's process is gone, and its tasks with it.
Gone(w) ==
    /\ worker' = [worker EXCEPT ![w] = "down"]
    /\ ids' = [ids EXCEPT ![w] = {}]
    /\ claimed' = [claimed EXCEPT ![w] = {}]
    /\ tasks' = tasks \ TasksOf(w)
    /\ UNCHANGED <<row, artifacts, notices>>

\* The process ends after a shutdown: once the HTTP server has drained, whatever
\* the tasks do.
Exit(w) ==
    /\ worker[w] = "stopping"
    /\ Gone(w)
    /\ UNCHANGED <<faults, lates>>

Crash(w) ==
    /\ worker[w] # "down"
    /\ Fault
    /\ Gone(w)

-----------------------------------------------------------------------------
(* A task. *)

\* Fifteen seconds pass.
BecomeLate(t) ==
    /\ ~t.late
    /\ lates < MaxLate
    /\ lates' = lates + 1
    /\ tasks' = (tasks \ {t}) \cup {[t EXCEPT !.late = TRUE]}
    /\ UNCHANGED <<row, artifacts, notices, worker, ids, claimed, faults>>

\* The output is in the artifact store.
Upload(t) ==
    /\ t.step = "working"
    /\ artifacts' = artifacts \cup {t.job}
    /\ tasks' = (tasks \ {t}) \cup {[t EXCEPT !.step = "uploaded"]}
    /\ UNCHANGED <<row, notices, worker, ids, claimed, faults, lates>>

\* Mutant of Writes: the context has no deadline.
WritesAlways(t) == TRUE

\* The status context is still good.
Writes(t) == ~t.late

\* The task ends: its status is written, unless its context has ended or the
\* write fails, and the author is notified, best effort.
End(t, status, outcome) ==
    /\ \/ /\ Writes(t)
          /\ row' = [row EXCEPT ![t.job].status = status]
          /\ UNCHANGED <<faults, lates>>
       \/ /\ Writes(t)
          /\ row' = row
          /\ Fault
       \/ /\ ~Writes(t)
          /\ UNCHANGED <<row, faults, lates>>
    /\ \E sent \in {Writes(t), FALSE} :
          notices' = IF sent THEN notices \cup {[job |-> t.job, attempt |-> t.attempt,
                                                 outcome |-> outcome]}
                     ELSE notices
    /\ tasks' = tasks \ {t}
    /\ UNCHANGED <<artifacts, worker, ids, claimed>>

\* MarkFailed
Fail(t) ==
    /\ t.step = "working"
    /\ End(t, IF t.attempt >= MaxAttempts THEN "dead" ELSE "failed", "failed")

\* MarkSucceeded
Succeed(t) ==
    /\ t.step = "uploaded"
    /\ End(t, "succeeded", "succeeded")

-----------------------------------------------------------------------------

Loop(w) ==
    \/ Start(w) \/ RecoverStale(w) \/ RecoverFails(w) \/ Poll(w) \/ ClaimFails(w)
    \/ Stop(w) \/ Exit(w) \/ Crash(w)
    \/ \E j \in ids[w] : ClaimJob(w, j) \/ SkipJob(w, j)

Run(t) == BecomeLate(t) \/ Upload(t) \/ Fail(t) \/ Succeed(t)

Next ==
    \/ \E S \in SUBSET Jobs : CreateBatch(S)
    \/ \E j \in Jobs : Age(j)
    \/ \E w \in Workers : Loop(w)
    \/ \E t \in tasks : Run(t)

Spec == Init /\ [][Next]_vars

\* Time passes; a process that is gone is started again; the loop's tickers keep
\* firing; a task comes to an end (the generator runs under a timeout).
Fairness ==
    /\ \A j \in Jobs : WF_vars(Age(j))
    /\ \A w \in Workers :
          /\ WF_vars(Start(w))
          /\ WF_vars(RecoverStale(w))
          /\ WF_vars(Poll(w))
          /\ WF_vars(\E j \in ids[w] : ClaimJob(w, j) \/ SkipJob(w, j))
          /\ WF_vars(Exit(w))
          /\ \A j \in Jobs, n \in 1..MaxAttempts :
                WF_vars(\E t \in TasksOf(w) : /\ t.job = j /\ t.attempt = n
                                              /\ Fail(t) \/ Succeed(t))

FairSpec == Spec /\ Fairness

-----------------------------------------------------------------------------
(* What holds. *)

\* The variables have the types their comments give them.
TypeOK ==
    /\ row \in [Jobs -> JobRow]
    /\ artifacts \subseteq Jobs
    /\ notices \subseteq Notice
    /\ worker \in [Workers -> {"down", "starting", "loop", "claim", "stopping"}]
    /\ ids \in [Workers -> SUBSET Jobs]
    /\ claimed \in [Workers -> SUBSET Claim]
    /\ tasks \subseteq Task
    /\ faults \in Nat
    /\ lates \in Nat

\* The claims that are held, by a call in progress or by a task.
Held(w) == claimed[w] \cup {[job |-> t.job, attempt |-> t.attempt] : t \in TasksOf(w)}

\* No claim is held twice, and one that is neither late nor given up still owns
\* its row: however workers, claims and recovery interleave, a job is generated
\* by two tasks at a time only when the older one is late (sqlite.go:49-55,
\* 204-210).
OwnerHoldsRow ==
    /\ \A w \in Workers : \A c \in claimed[w] :
          row[c.job].status = "running" /\ row[c.job].attempts = c.attempt
    /\ \A t \in tasks : ~t.late =>
          row[t.job].status = "running" /\ row[t.job].attempts = t.attempt
    /\ \A v, w \in Workers : v # w => Held(v) \cap Held(w) = {}

\* A worker never runs more tasks than it has slots, the jobs that it has
\* selected or claimed for them included (worker.go:116-125).
SlotsBounded ==
    \A w \in Workers :
        Cardinality(TasksOf(w)) + Cardinality(claimed[w]) + Cardinality(ids[w]) <= Concurrency

\* A job recorded as succeeded has its output in the artifact store: what the
\* module proxy looks up by status can be served (worker.go:318-336).
SucceededHasArtifact == \A j \in Jobs : row[j].status = "succeeded" => j \in artifacts

\* A success stays recorded: no slower task of the same job overwrites it
\* (worker.go:199-204, sqlite.go:109-129).
SuccessIsFinal ==
    [][\A j \in Jobs : row[j].status = "succeeded" => row'[j].status = "succeeded"]_vars

\* The table is a job queue: the rows' status and attempts, seen through this
\* mapping, take the steps of JobQueue and no others.
QueueState == [j \in Jobs |-> CASE row[j].status = "none" -> "none"
                                [] row[j].status = "pending" -> "queued"
                                [] row[j].status = "running" -> "started"
                                [] OTHER -> "done"]

Starts == [j \in Jobs |-> row[j].attempts]

Queue == INSTANCE JobQueue WITH state <- QueueState, starts <- Starts

\* Every behaviour of the workers is one of the queue: attempts are bounded,
\* nothing is started twice at a time or after it is done (sqlite.go:47-129,
\* 202-222).
ImplementsQueue == Queue!Spec

\* With fewer faults and late tasks than attempts every job that is enqueued ends
\* (worker.go:1-4).
JobsEnd == \A j \in Jobs : row[j].status = "pending" ~> row[j].status \in Ended

-----------------------------------------------------------------------------
(* What the repository says and the code does not do. *)

\* worker.go:3-4: "Stale running jobs (from crashed workers) are periodically
\* reset to pending so they can be retried."
StaleRecovered ==
    \A j \in Jobs : (row[j].status = "running" /\ row[j].started = "stale")
                        ~> row[j].status # "running"

\* worker.go:199-202: the status writes use a context of their own so that they
\* do not fail, "leaving the row stuck in 'running'": a task that ends while its
\* process lives leaves its row in an ended state.
EndIsRecorded ==
    [][\A t \in tasks : (\A u \in tasks' : u.job # t.job \/ u.attempt # t.attempt)
          => worker'[t.worker] = "down" \/ row'[t.job].status # "running"]_vars

\* worker.go:99-102: the worker waits "for in-flight generation to finish rather
\* than returning the moment the context is cancelled": a process that shuts
\* down has no task left when it ends.
ShutdownDrains ==
    [][\A w \in Workers : worker[w] = "stopping" /\ worker'[w] = "down" => TasksOf(w) = {}]_vars

\* worker.go:367-369: a failure below the retry limit is "retryable".
FailedRetried ==
    \A j \in Jobs : (row[j].status = "failed") ~> (row[j].status # "failed")

=============================================================================
