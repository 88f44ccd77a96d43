---------------------------- MODULE SdkJobsProofs ----------------------------
(***************************************************************************)
(* Theorems about SdkJobs, for any number of jobs, workers, slots,         *)
(* attempts, faults and late tasks.                                        *)
(*                                                                         *)
(* OwnerHoldsRow is strengthened in two ways.  Owners adds that the row of *)
(* a claim is fresh, which is what keeps recovery away from it, and that   *)
(* no task is ahead of its row, so that the next claim is a new one.       *)
(* Distinct says that a claim is held once, by a call or by a task, within *)
(* a worker too: when a task writes its outcome no one else relies on the  *)
(* row.                                                                    *)
(***************************************************************************)
EXTENDS SdkJobs, FiniteSetTheorems, TLAPS

USE Zenon

Owned(j, n) == row[j].status = "running" /\ row[j].attempts = n /\ row[j].started = "fresh"

Owners ==
    /\ \A w \in Workers : \A c \in claimed[w] : Owned(c.job, c.attempt)
    /\ \A t \in tasks : ~t.late => Owned(t.job, t.attempt)
    /\ \A t \in tasks : t.attempt <= row[t.job].attempts

Distinct ==
    /\ \A t, u \in tasks : t.job = u.job /\ t.attempt = u.attempt => t = u
    /\ \A w \in Workers : \A c \in claimed[w], t \in tasks :
          ~(c.job = t.job /\ c.attempt = t.attempt)
    /\ \A v, w \in Workers : v # w => claimed[v] \cap claimed[w] = {}

Outputs == (\A t \in tasks : t.step = "uploaded" => t.job \in artifacts) /\ SucceededHasArtifact

\* A job that is not started yet has attempts left.
Attempts ==
    \A j \in Jobs :
        /\ row[j].status = "none" => row[j].attempts = 0
        /\ row[j].status = "pending" => row[j].attempts < MaxAttempts

Inv == TypeOK /\ Owners /\ Distinct /\ Outputs /\ Attempts

LEMMA InitInv == Init => Inv
  <1> SUFFICES ASSUME Init PROVE Inv
    OBVIOUS
  <1>1. TypeOK
    BY SMT DEF Init, TypeOK, JobRow, Ended
  <1>2. Owners /\ Distinct
    BY DEF Init, Owners, Distinct
  <1>3. Outputs /\ Attempts
    BY SMT DEF Init, Outputs, SucceededHasArtifact, Attempts
  <1> QED
    BY <1>1, <1>2, <1>3 DEF Inv

-----------------------------------------------------------------------------
(* Three ways to keep the invariant. *)

\* Rows change that nobody owns.
LEMMA UnownedRows ==
    ASSUME Inv, row' \in [Jobs -> JobRow],
           UNCHANGED <<artifacts, notices, ids, claimed, tasks, faults, lates>>,
           worker' \in [Workers -> {"down", "starting", "loop", "claim", "stopping"}],
           \A j \in Jobs : row'[j].attempts = row[j].attempts,
           \A j \in Jobs : row'[j] = row[j]
                           \/ /\ ~(\E n : Owned(j, n))
                              /\ row'[j].status \notin {"none", "succeeded"}
                              /\ row'[j].status = "pending" => row[j].attempts < MaxAttempts
    PROVE  Inv'
  <1>1. TypeOK'
    BY DEF Inv, TypeOK
  <1>2. \A j \in Jobs : \A n : Owned(j, n) => Owned(j, n)'
    BY DEF Owned
  <1>3. Owners'
    <2>1. \A w \in Workers : \A c \in claimed[w] : c.job \in Jobs
      BY SMT DEF Inv, TypeOK, Claim
    <2>2. \A t \in tasks : t.job \in Jobs
      BY DEF Inv, TypeOK, Task
    <2> QED
      BY <1>2, <2>1, <2>2 DEF Inv, Owners
  <1>4. Distinct'
    BY DEF Inv, Distinct
  <1>5. Outputs'
    BY DEF Inv, Outputs, SucceededHasArtifact
  <1>6. Attempts'
    BY DEF Inv, Attempts
  <1> QED
    BY <1>1, <1>3, <1>4, <1>5, <1>6 DEF Inv

\* Claims and tasks are given up.
LEMMA GivenUp ==
    ASSUME Inv, TypeOK', row' = row, artifacts' = artifacts,
           tasks' \subseteq tasks, \A w \in Workers : claimed'[w] \subseteq claimed[w]
    PROVE  Inv'
  <1>1. Owners'
    BY DEF Inv, Owners, Owned
  <1>2. Distinct'
    BY DEF Inv, Distinct
  <1>3. Outputs' /\ Attempts'
    BY DEF Inv, Outputs, SucceededHasArtifact, Attempts
  <1> QED
    BY <1>1, <1>2, <1>3 DEF Inv

\* A task goes on: it is the same task, and no less late.
LEMMA TaskGoesOn ==
    ASSUME Inv, TypeOK', UNCHANGED <<row, claimed>>, artifacts \subseteq artifacts',
           NEW t \in tasks, NEW u, tasks' = (tasks \ {t}) \cup {u},
           u.job = t.job, u.attempt = t.attempt, t.late => u.late,
           u.step = "uploaded" => u.job \in artifacts'
    PROVE  Inv'
  <1>1. Owners'
    <2>1. \A w \in Workers : \A c \in claimed'[w] : Owned(c.job, c.attempt)'
      BY DEF Inv, Owners, Owned
    <2>2. \A k \in tasks' : ~k.late => Owned(k.job, k.attempt)'
      BY DEF Inv, Owners, Owned
    <2>3. \A k \in tasks' : k.attempt <= row'[k.job].attempts
      BY DEF Inv, Owners
    <2> QED
      BY <2>1, <2>2, <2>3 DEF Owners
  <1>2. Distinct'
    <2>1. \A k, l \in tasks' : k.job = l.job /\ k.attempt = l.attempt => k = l
      <3> SUFFICES ASSUME NEW k \in tasks', NEW l \in tasks', k.job = l.job, k.attempt = l.attempt
                   PROVE  k = l
        OBVIOUS
      <3>1. ASSUME NEW k1 \in tasks \ {t} PROVE ~(k1.job = u.job /\ k1.attempt = u.attempt)
        BY <3>1 DEF Inv, Distinct
      <3>2. CASE k \in tasks \ {t} /\ l \in tasks \ {t}
        BY <3>2 DEF Inv, Distinct
      <3> QED
        BY <3>1, <3>2
    <2>2. \A w \in Workers : \A c \in claimed'[w], k \in tasks' :
             ~(c.job = k.job /\ c.attempt = k.attempt)
      <3>1. ASSUME NEW w \in Workers, NEW c \in claimed[w], NEW k \in tasks
            PROVE  ~(c.job = k.job /\ c.attempt = k.attempt)
        BY DEF Inv, Distinct
      <3> QED
        BY <3>1
    <2> QED
      BY <2>1, <2>2 DEF Inv, Distinct
  <1>3. Outputs' /\ Attempts'
    BY DEF Inv, Outputs, SucceededHasArtifact, Attempts
  <1> QED
    BY <1>1, <1>2, <1>3 DEF Inv

-----------------------------------------------------------------------------
(* The table. *)

LEMMA CreateBatchInv == ASSUME Inv, NEW S \in SUBSET Jobs, CreateBatch(S) PROVE Inv'
  <1>1. /\ row' = [j \in Jobs |-> IF j \in S THEN [row[j] EXCEPT !.status = "pending"] ELSE row[j]]
        /\ UNCHANGED <<artifacts, notices, ids, claimed, tasks, faults, lates>> /\ worker' = worker
        /\ \A j \in S : row[j].status = "none"
    BY DEF CreateBatch
  <1>2. ASSUME NEW j \in Jobs
        PROVE  /\ row'[j] \in JobRow /\ row'[j].attempts = row[j].attempts
               /\ j \in S => row'[j].status = "pending"
               /\ j \notin S => row'[j] = row[j]
    <2>1. row[j] \in JobRow
      BY DEF Inv, TypeOK
    <2> QED
      BY <1>1, <2>1, SMT DEF JobRow
  <1>3. \A j \in S : ~(\E n : Owned(j, n)) /\ row[j].attempts < MaxAttempts
    <2>1. \A j \in S : row[j].attempts = 0
      BY <1>1 DEF Inv, Attempts
    <2> QED
      BY <1>1, <2>1, SdkAssumption, SMT DEF Owned
  <1>4. row' \in [Jobs -> JobRow]
    BY <1>1, <1>2
  <1> QED
    BY <1>1, <1>2, <1>3, <1>4, UnownedRows DEF Inv, TypeOK

LEMMA AgeInv == ASSUME Inv, NEW j \in Jobs, Age(j) PROVE Inv'
  <1>1. row[j] \in JobRow /\ row \in [Jobs -> JobRow]
    BY DEF Inv, TypeOK
  <1>2. /\ row' = [row EXCEPT ![j].started = "stale"]
        /\ UNCHANGED <<artifacts, notices, ids, claimed, tasks, faults, lates>> /\ worker' = worker
        /\ row[j].status = "running"
        /\ \A w \in Workers : \A c \in claimed[w] : c.job # j
        /\ \A t \in tasks : t.job = j /\ t.attempt = row[j].attempts => t.late
    BY DEF Age
  <1>3. /\ row' \in [Jobs -> JobRow]
        /\ row'[j].status = "running" /\ row'[j].attempts = row[j].attempts
        /\ \A k \in Jobs \ {j} : row'[k] = row[k]
    BY <1>1, <1>2, SMT DEF JobRow
  <1>4. TypeOK'
    BY <1>2, <1>3 DEF Inv, TypeOK
  <1>5. Owners'
    <2>1. ASSUME NEW k, NEW n, k # j, k \in Jobs, Owned(k, n) PROVE Owned(k, n)'
      BY <1>3, <2>1 DEF Owned
    <2>2. \A w \in Workers : \A c \in claimed[w] : c.job \in Jobs
      BY SMT DEF Inv, TypeOK, Claim
    <2>3. \A t \in tasks : t.job \in Jobs
      BY DEF Inv, TypeOK, Task
    <2>4. \A t \in tasks : ~t.late => t.job # j
      BY <1>2 DEF Inv, Owners, Owned
    <2>5. \A t \in tasks : t.attempt <= row'[t.job].attempts
      BY <1>3, <2>3 DEF Inv, Owners
    <2> QED
      BY <1>2, <2>1, <2>2, <2>3, <2>4, <2>5 DEF Inv, Owners
  <1>6. Distinct'
    BY <1>2 DEF Inv, Distinct
  <1>7. Outputs'
    BY <1>2, <1>3 DEF Inv, Outputs, SucceededHasArtifact
  <1>8. Attempts'
    BY <1>2, <1>3 DEF Inv, Attempts
  <1> QED
    BY <1>4, <1>5, <1>6, <1>7, <1>8 DEF Inv

LEMMA RecoverStaleInv == ASSUME Inv, NEW w \in Workers, RecoverStale(w) PROVE Inv'
  <1>1. /\ row' = [j \in Jobs |-> IF j \in Stale
                                 THEN [row[j] EXCEPT !.status = "pending", !.started = "no"]
                                 ELSE row[j]]
        /\ UNCHANGED <<artifacts, notices, ids, claimed, tasks, faults, lates>>
        /\ worker' = [worker EXCEPT ![w] = "loop"]
    BY DEF RecoverStale
  <1>2. ASSUME NEW j \in Jobs
        PROVE  /\ row'[j] \in JobRow /\ row'[j].attempts = row[j].attempts
               /\ j \in Stale => row'[j].status = "pending"
               /\ j \notin Stale => row'[j] = row[j]
    <2>1. row[j] \in JobRow
      BY DEF Inv, TypeOK
    <2>2. PICK r : r = row[j]
      OBVIOUS
    <2>3. r = [status |-> r.status, attempts |-> r.attempts, started |-> r.started] /\ r.attempts \in Nat
      BY <2>1, <2>2 DEF JobRow
    <2>4. CASE j \in Stale
      <3>1. row'[j] = [r EXCEPT !.status = "pending", !.started = "no"]
        BY <1>1, <2>2, <2>4
      <3>2. row'[j] = [status |-> "pending", attempts |-> r.attempts, started |-> "no"]
        BY <2>3, <3>1
      <3> QED
        BY <2>2, <2>3, <2>4, <3>2, SMT DEF JobRow
    <2>5. CASE j \notin Stale
      BY <1>1, <2>1, <2>5
    <2> QED
      BY <2>4, <2>5
  <1>3. \A j \in Stale : ~(\E n : Owned(j, n)) /\ row[j].attempts < MaxAttempts
    BY DEF Stale, Owned
  <1>4. row' \in [Jobs -> JobRow]
    BY <1>1, <1>2
  <1>5. worker' \in [Workers -> {"down", "starting", "loop", "claim", "stopping"}]
    BY <1>1 DEF Inv, TypeOK
  <1>6. \A j \in Jobs : row'[j] = row[j]
                         \/ /\ ~(\E n : Owned(j, n))
                            /\ row'[j].status \notin {"none", "succeeded"}
                            /\ row'[j].status = "pending" => row[j].attempts < MaxAttempts
    BY <1>2, <1>3
  <1> QED
    BY <1>1, <1>2, <1>4, <1>5, <1>6, UnownedRows

-----------------------------------------------------------------------------
(* The polling loop. *)

\* Starting, polling and stopping leave the rows alone and give up claims and
\* tasks at most.
LEMMA LoopInv ==
    ASSUME Inv, NEW w \in Workers,
           Start(w) \/ Poll(w) \/ RecoverFails(w) \/ ClaimFails(w) \/ Stop(w) \/ Exit(w) \/ Crash(w)
    PROVE  Inv'
  <1>1. row' = row /\ artifacts' = artifacts /\ notices' = notices
    BY DEF Start, Poll, RecoverFails, ClaimFails, Stop, Exit, Crash, Gone
  <1>2. tasks' \subseteq tasks
    BY DEF Start, Poll, RecoverFails, ClaimFails, Stop, Exit, Crash, Gone
  <1>3. claimed' = claimed \/ claimed' = [claimed EXCEPT ![w] = {}]
    BY DEF Start, Poll, RecoverFails, ClaimFails, Stop, Exit, Crash, Gone
  <1>4. \/ faults' = faults /\ lates' = lates
        \/ Fault
    BY DEF Start, Poll, RecoverFails, ClaimFails, Stop, Exit, Crash
  <1>5. \E S \in SUBSET Jobs : ids' = ids \/ ids' = [ids EXCEPT ![w] = S]
    BY DEF Start, Poll, RecoverFails, ClaimFails, Stop, Exit, Crash, Gone, Pending
  <1>6. \E s \in {"down", "starting", "loop", "claim", "stopping"} :
           worker' = [worker EXCEPT ![w] = s]
    BY DEF Start, Poll, RecoverFails, ClaimFails, Stop, Exit, Crash, Gone
  <1>7. faults' \in Nat /\ lates' \in Nat
    BY <1>4, SMT DEF Inv, TypeOK, Fault
  <1>8. claimed' \in [Workers -> SUBSET Claim] /\ \A v \in Workers : claimed'[v] \subseteq claimed[v]
    BY <1>3 DEF Inv, TypeOK
  <1>9. TypeOK'
    BY <1>1, <1>2, <1>5, <1>6, <1>7, <1>8 DEF Inv, TypeOK
  <1> QED
    BY <1>1, <1>2, <1>8, <1>9, GivenUp

\* A claim is its job and its attempt.
LEMMA SameClaim ==
    ASSUME NEW c \in Claim, NEW d \in Claim, c.job = d.job, c.attempt = d.attempt PROVE c = d
  BY SMT DEF Claim

\* The task that a claim turns into.
TaskFor(w, c) == [worker |-> w, job |-> c.job, attempt |-> c.attempt, step |-> "working",
                  late |-> FALSE]

LEMMA TaskForIs ==
    ASSUME NEW w \in Workers, NEW c \in Claim
    PROVE  /\ TaskFor(w, c) \in Task
           /\ TaskFor(w, c).job = c.job /\ TaskFor(w, c).attempt = c.attempt
           /\ TaskFor(w, c).step = "working" /\ TaskFor(w, c).late = FALSE
  BY SMT DEF TaskFor, Task, Claim

\* The next job of the list, or a task for every claim: when the claims are good
\* the invariant holds either way.
LEMMA ContinueInv ==
    ASSUME Inv, NEW w \in Workers, NEW j, NEW claims \in SUBSET Claim, Continue(w, j, claims),
           row' \in [Jobs -> JobRow], UNCHANGED <<artifacts, notices, faults, lates>>,
           \A c \in claims : Owned(c.job, c.attempt)',
           \A v \in Workers \ {w} : \A c \in claimed[v] : Owned(c.job, c.attempt)',
           \A t \in tasks : ~t.late => Owned(t.job, t.attempt)',
           \A t \in tasks : t.attempt <= row'[t.job].attempts,
           \A c \in claims, t \in tasks : ~(c.job = t.job /\ c.attempt = t.attempt),
           \A v \in Workers \ {w} : claims \cap claimed[v] = {},
           SucceededHasArtifact', Attempts'
    PROVE  Inv'
  <1>1. ids' \in [Workers -> SUBSET Jobs]
    BY DEF Continue, Inv, TypeOK
  <1>2. CASE ids[w] = {j}
    <2>1. /\ claimed' = [claimed EXCEPT ![w] = {}]
          /\ tasks' = tasks \cup {TaskFor(w, c) : c \in claims}
          /\ worker' = [worker EXCEPT ![w] = "loop"]
      BY <1>2 DEF Continue, TaskFor
    <2>2. /\ claimed' \in [Workers -> SUBSET Claim] /\ claimed'[w] = {}
          /\ \A v \in Workers \ {w} : claimed'[v] = claimed[v]
      BY <2>1 DEF Inv, TypeOK
    <2>3. \A k \in tasks' : k \in tasks \/ \E c \in claims : k = TaskFor(w, c)
      BY <2>1
    <2>4. \A c \in claims : c \in Claim /\ TaskFor(w, c) \in Task
      BY TaskForIs
    <2>5. TypeOK'
      BY <1>1, <2>1, <2>2, <2>3, <2>4 DEF Inv, TypeOK
    <2>6. Owners'
      <3>1. \A v \in Workers : \A c \in claimed'[v] : Owned(c.job, c.attempt)'
        BY <2>2
      <3>2. ASSUME NEW k \in tasks', ~k.late PROVE Owned(k.job, k.attempt)'
        <4>1. ASSUME NEW c \in claims, k = TaskFor(w, c) PROVE Owned(k.job, k.attempt)'
          <5>1. k.job = c.job /\ k.attempt = c.attempt
            BY <2>4, <4>1, TaskForIs
          <5> QED
            BY <5>1
        <4> QED
          BY <2>3, <3>2, <4>1
      <3>3. ASSUME NEW c \in claims PROVE c.attempt <= row'[c.job].attempts
        <4>1. c.attempt = row'[c.job].attempts /\ c.attempt \in Nat
          BY <2>4 DEF Owned, Claim
        <4> QED
          BY <4>1, SMT
      <3>4. ASSUME NEW k \in tasks' PROVE k.attempt <= row'[k.job].attempts
        <4>1. ASSUME NEW c \in claims, k = TaskFor(w, c) PROVE k.attempt <= row'[k.job].attempts
          <5>1. k.job = c.job /\ k.attempt = c.attempt
            BY <2>4, <4>1, TaskForIs
          <5> QED
            BY <3>3, <5>1
        <4> QED
          BY <2>3, <4>1
      <3> QED
        BY <3>1, <3>2, <3>4 DEF Owners
    <2>7. Distinct'
      <3>1. ASSUME NEW k \in tasks', NEW l \in tasks', k.job = l.job, k.attempt = l.attempt
            PROVE  k = l
        <4>1. CASE k \in tasks /\ l \in tasks
          BY <3>1, <4>1 DEF Inv, Distinct
        <4>2. ASSUME NEW c \in claims, k = TaskFor(w, c) PROVE k = l
          <5>1. k.job = c.job /\ k.attempt = c.attempt
            BY <2>4, <4>2, TaskForIs
          <5>2. l \notin tasks
            BY <3>1, <5>1
          <5>3. PICK d \in claims : l = TaskFor(w, d)
            BY <2>3, <5>2
          <5>4. l.job = d.job /\ l.attempt = d.attempt
            BY <2>4, <5>3, TaskForIs
          <5> QED
            BY <2>4, <3>1, <4>2, <5>1, <5>3, <5>4, SameClaim
        <4>3. ASSUME NEW c \in claims, l = TaskFor(w, c), k \in tasks PROVE k = l
          BY <2>4, <3>1, <4>3, TaskForIs, ZenonT(60)
        <4> QED
          BY <2>3, <4>1, <4>2, <4>3
      <3>2. ASSUME NEW v \in Workers, NEW c \in claimed'[v], NEW k \in tasks',
                   c.job = k.job, c.attempt = k.attempt
            PROVE  FALSE
        <4>1. v # w /\ c \in claimed[v] /\ c \in Claim
          BY <2>2, <3>2
        <4>2. k \notin tasks
          BY <3>2, <4>1 DEF Inv, Distinct
        <4>3. PICK d \in claims : k = TaskFor(w, d)
          BY <2>3, <4>2
        <4>4. c = d
          <5>1. k.job = d.job /\ k.attempt = d.attempt
            BY <2>4, <4>3, TaskForIs
          <5> QED
            BY <2>4, <3>2, <4>1, <5>1, SameClaim
        <4> QED
          BY <4>1, <4>3, <4>4
      <3>3. \A u, v \in Workers : u # v => claimed'[u] \cap claimed'[v] = {}
        BY <2>2 DEF Inv, Distinct
      <3> QED
        BY <3>1, <3>2, <3>3 DEF Distinct
    <2>8. Outputs'
      <3>1. \A k \in tasks' : k.step = "uploaded" => k.job \in artifacts'
        BY <2>3, <2>4, TaskForIs DEF Inv, Outputs
      <3> QED
        BY <3>1 DEF Outputs
    <2> QED
      BY <2>5, <2>6, <2>7, <2>8 DEF Inv
  <1>3. CASE ids[w] # {j}
    <2>1. claimed' = [claimed EXCEPT ![w] = claims] /\ tasks' = tasks /\ worker' = worker
      BY <1>3 DEF Continue
    <2>2. /\ claimed' \in [Workers -> SUBSET Claim] /\ claimed'[w] = claims
          /\ \A v \in Workers \ {w} : claimed'[v] = claimed[v]
      BY <2>1 DEF Inv, TypeOK
    <2>3. TypeOK'
      BY <1>1, <2>1, <2>2 DEF Inv, TypeOK
    <2>4. Owners'
      BY <2>1, <2>2 DEF Owners
    <2>5. Distinct'
      <3>1. \A v \in Workers : \A c \in claimed'[v], t \in tasks :
               ~(c.job = t.job /\ c.attempt = t.attempt)
        BY <2>2 DEF Inv, Distinct
      <3>2. \A u, v \in Workers : u # v => claimed'[u] \cap claimed'[v] = {}
        BY <2>2 DEF Inv, Distinct
      <3> QED
        BY <2>1, <3>1, <3>2, ZenonT(30) DEF Inv, Distinct
    <2>6. Outputs'
      BY <2>1 DEF Inv, Outputs
    <2> QED
      BY <2>3, <2>4, <2>5, <2>6 DEF Inv
  <1> QED
    BY <1>2, <1>3

\* The claim is a new attempt: no claim is held of a pending job, and no task is
\* ahead of its row.
LEMMA ClaimJobInv == ASSUME Inv, NEW w \in Workers, NEW j \in ids[w], ClaimJob(w, j) PROVE Inv'
  <1>0. j \in Jobs
    BY DEF Inv, TypeOK
  <1>1. PICK n : n = row[j].attempts
    OBVIOUS
  <1>2. PICK r : r = [status |-> "running", attempts |-> n + 1, started |-> "fresh"]
    OBVIOUS
  <1>3. PICK new : new = [job |-> j, attempt |-> n + 1]
    OBVIOUS
  <1>4. /\ row[j].status = "pending"
        /\ row' = [row EXCEPT ![j] = r]
        /\ Continue(w, j, claimed[w] \cup {new})
        /\ UNCHANGED <<artifacts, notices, faults, lates>>
    BY <1>1, <1>2, <1>3 DEF ClaimJob, Claimable
  <1>5. n \in Nat /\ n + 1 \in Nat /\ ~(n + 1 <= n)
    <2>1. row[j] \in JobRow
      BY <1>0 DEF Inv, TypeOK
    <2> QED
      BY <1>1, <2>1, SMT DEF JobRow
  <1>6. r \in JobRow /\ r.status = "running" /\ r.attempts = n + 1 /\ r.started = "fresh"
    BY <1>2, <1>5 DEF JobRow
  <1>7. new \in Claim /\ new.job = j /\ new.attempt = n + 1
    BY <1>0, <1>3, <1>5 DEF Claim
  <1>8. /\ row' \in [Jobs -> JobRow] /\ row'[j] = r
        /\ \A k \in Jobs \ {j} : row'[k] = row[k]
    BY <1>0, <1>4, <1>6 DEF Inv, TypeOK
  <1>9. /\ \A v \in Workers : \A c \in claimed[v] : c \in Claim /\ c.job \in Jobs \ {j}
        /\ \A t \in tasks : t \in Task /\ t.job \in Jobs /\ (~t.late => t.job # j)
    <2>1. ASSUME NEW v \in Workers, NEW c \in claimed[v] PROVE c \in Claim /\ c.job \in Jobs \ {j}
      <3>1. c \in Claim /\ Owned(c.job, c.attempt)
        BY DEF Inv, TypeOK, Owners
      <3> QED
        BY <1>4, <3>1 DEF Owned, Claim
    <2>2. ASSUME NEW t \in tasks PROVE t \in Task /\ t.job \in Jobs /\ (~t.late => t.job # j)
      <3>1. t \in Task /\ (~t.late => Owned(t.job, t.attempt))
        BY DEF Inv, TypeOK, Owners
      <3> QED
        BY <1>4, <3>1 DEF Owned, Task
    <2> QED
      BY <2>1, <2>2
  <1>10. \A k \in Jobs \ {j} : \A m : Owned(k, m) => Owned(k, m)'
    BY <1>8 DEF Owned
  <1>11. Owned(j, n + 1)'
    BY <1>6, <1>8 DEF Owned
  <1>12. \A c \in claimed[w] \cup {new} : Owned(c.job, c.attempt)'
    BY <1>7, <1>9, <1>10, <1>11 DEF Inv, Owners
  <1>13. \A v \in Workers \ {w} : \A c \in claimed[v] : Owned(c.job, c.attempt)'
    BY <1>9, <1>10 DEF Inv, Owners
  <1>14. \A t \in tasks : ~t.late => Owned(t.job, t.attempt)'
    BY <1>9, <1>10 DEF Inv, Owners
  <1>15. ASSUME NEW t \in tasks
         PROVE  /\ t.attempt <= row'[t.job].attempts
                /\ ~(t.job = j /\ t.attempt = n + 1)
    <2>1. t.attempt <= row[t.job].attempts /\ t.attempt \in Nat
      BY <1>9 DEF Inv, Owners, Task
    <2>2. CASE t.job = j
      BY <1>1, <1>5, <1>6, <1>8, <2>1, <2>2, SMT
    <2>3. CASE t.job # j
      BY <1>8, <1>9, <2>1, <2>3
    <2> QED
      BY <2>2, <2>3
  <1>16. \A c \in claimed[w] \cup {new}, t \in tasks : ~(c.job = t.job /\ c.attempt = t.attempt)
    BY <1>7, <1>15 DEF Inv, Distinct
  <1>17. \A v \in Workers \ {w} : (claimed[w] \cup {new}) \cap claimed[v] = {}
    BY <1>7, <1>9 DEF Inv, Distinct
  <1>18. SucceededHasArtifact' /\ Attempts'
    BY <1>4, <1>6, <1>8 DEF Inv, Outputs, SucceededHasArtifact, Attempts
  <1>19. claimed[w] \cup {new} \in SUBSET Claim
    BY <1>7, <1>9
  <1> QED
    BY <1>4, <1>8, <1>12, <1>13, <1>14, <1>15, <1>16, <1>17, <1>18, <1>19, ContinueInv

LEMMA SkipJobInv == ASSUME Inv, NEW w \in Workers, NEW j \in ids[w], SkipJob(w, j) PROVE Inv'
  <1>1. /\ Continue(w, j, claimed[w]) /\ row' = row
        /\ UNCHANGED <<artifacts, notices, faults, lates>>
    BY DEF SkipJob
  <1>2. /\ row' \in [Jobs -> JobRow] /\ claimed[w] \in SUBSET Claim
        /\ SucceededHasArtifact' /\ Attempts'
    BY <1>1 DEF Inv, TypeOK, Outputs, SucceededHasArtifact, Attempts
  <1>3. \A k, n : Owned(k, n) => Owned(k, n)'
    BY <1>1 DEF Owned
  <1>4. \A v \in Workers : \A c \in claimed[v] : Owned(c.job, c.attempt)'
    BY <1>3 DEF Inv, Owners
  <1>5. /\ \A t \in tasks : ~t.late => Owned(t.job, t.attempt)'
        /\ \A t \in tasks : t.attempt <= row'[t.job].attempts
    BY <1>1, <1>3 DEF Inv, Owners
  <1>6. /\ \A c \in claimed[w], t \in tasks : ~(c.job = t.job /\ c.attempt = t.attempt)
        /\ \A v \in Workers \ {w} : claimed[w] \cap claimed[v] = {}
    BY DEF Inv, Distinct
  <1> QED
    BY <1>1, <1>2, <1>4, <1>5, <1>6, ContinueInv

-----------------------------------------------------------------------------
(* A task. *)

LEMMA BecomeLateInv == ASSUME Inv, NEW t \in tasks, BecomeLate(t) PROVE Inv'
  <1>1. t \in Task
    BY DEF Inv, TypeOK
  <1>2. PICK u : u = [t EXCEPT !.late = TRUE]
    OBVIOUS
  <1>3. /\ u \in Task /\ u.job = t.job /\ u.attempt = t.attempt /\ u.late /\ u.step = t.step
    BY <1>1, <1>2 DEF Task
  <1>4. /\ tasks' = (tasks \ {t}) \cup {u} /\ lates' = lates + 1
        /\ UNCHANGED <<row, artifacts, notices, worker, ids, claimed, faults>>
    BY <1>2 DEF BecomeLate
  <1>5. lates' \in Nat
    BY <1>4, SMT DEF Inv, TypeOK
  <1>6. TypeOK'
    BY <1>3, <1>4, <1>5 DEF Inv, TypeOK
  <1>7. u.step = "uploaded" => u.job \in artifacts'
    BY <1>3, <1>4 DEF Inv, Outputs
  <1> QED
    BY <1>3, <1>4, <1>6, <1>7, TaskGoesOn

LEMMA UploadInv == ASSUME Inv, NEW t \in tasks, Upload(t) PROVE Inv'
  <1>1. t \in Task
    BY DEF Inv, TypeOK
  <1>2. PICK u : u = [t EXCEPT !.step = "uploaded"]
    OBVIOUS
  <1>3. /\ u \in Task /\ u.job = t.job /\ u.attempt = t.attempt /\ (t.late => u.late)
        /\ u.job \in Jobs
    BY <1>1, <1>2 DEF Task
  <1>4. /\ tasks' = (tasks \ {t}) \cup {u} /\ artifacts' = artifacts \cup {t.job}
        /\ UNCHANGED <<row, notices, worker, ids, claimed, faults, lates>>
    BY <1>2 DEF Upload
  <1>5. TypeOK'
    BY <1>3, <1>4 DEF Inv, TypeOK
  <1> QED
    BY <1>3, <1>4, <1>5, TaskGoesOn

\* A task that writes owns its row, and nobody else does.
LEMMA EndInv ==
    ASSUME Inv, NEW t \in tasks, NEW status \in Ended, NEW outcome \in {"succeeded", "failed"},
           End(t, status, outcome), status = "succeeded" => t.job \in artifacts
    PROVE  Inv'
  <1>1. t \in Task /\ t.job \in Jobs /\ t.attempt \in Nat
    BY DEF Inv, TypeOK, Task
  <1>2. /\ tasks' = tasks \ {t}
        /\ UNCHANGED <<artifacts, worker, ids, claimed>>
    BY DEF End
  <1>3. notices' \subseteq Notice
    <2>1. PICK x : x = [job |-> t.job, attempt |-> t.attempt, outcome |-> outcome]
      OBVIOUS
    <2>2. x \in Notice
      BY <1>1, <2>1 DEF Notice
    <2>3. notices' = notices \/ notices' = notices \cup {x}
      BY <2>1 DEF End
    <2> QED
      BY <2>2, <2>3 DEF Inv, TypeOK
  <1>4. faults' \in Nat /\ lates' \in Nat
    BY SMT DEF End, Fault, Inv, TypeOK
  <1>5. CASE row' = row
    <2>1. TypeOK'
      BY <1>2, <1>3, <1>4, <1>5 DEF Inv, TypeOK
    <2> QED
      BY <1>2, <1>5, <2>1, GivenUp
  <1>6. CASE Writes(t) /\ row' = [row EXCEPT ![t.job].status = status]
    <2>1. Owned(t.job, t.attempt)
      BY <1>6 DEF Writes, Inv, Owners
    <2>2. /\ row' \in [Jobs -> JobRow]
          /\ row'[t.job].status = status /\ row'[t.job].attempts = row[t.job].attempts
          /\ \A k \in Jobs \ {t.job} : row'[k] = row[k]
      <3>1. row \in [Jobs -> JobRow]
        BY DEF Inv, TypeOK
      <3> QED
        BY <1>1, <1>6, <3>1, SMT DEF JobRow
    <2>3. TypeOK'
      BY <1>2, <1>3, <1>4, <2>2 DEF Inv, TypeOK
    <2>4. \A k \in Jobs \ {t.job} : \A n : Owned(k, n) => Owned(k, n)'
      BY <2>2 DEF Owned
    <2>5. ASSUME NEW w \in Workers, NEW c \in claimed[w] PROVE Owned(c.job, c.attempt)'
      <3>1. c.job \in Jobs /\ Owned(c.job, c.attempt)
        <4>1. c \in Claim
          BY DEF Inv, TypeOK
        <4> QED
          BY <4>1 DEF Inv, Owners, Claim
      <3>2. c.job # t.job
        BY <2>1, <3>1 DEF Inv, Distinct, Owned
      <3> QED
        BY <2>4, <3>1, <3>2
    <2>6. ASSUME NEW u \in tasks', ~u.late PROVE Owned(u.job, u.attempt)'
      <3>1. u \in tasks /\ u # t
        BY <1>2
      <3>2. u.job \in Jobs /\ Owned(u.job, u.attempt)
        BY <2>6, <3>1 DEF Inv, TypeOK, Owners, Task
      <3>3. u.job # t.job
        BY <2>1, <3>1, <3>2 DEF Inv, Distinct, Owned
      <3> QED
        BY <2>4, <3>2, <3>3
    <2>7. ASSUME NEW u \in tasks' PROVE u.attempt <= row'[u.job].attempts
      <3>1. u \in tasks /\ u.job \in Jobs
        BY <1>2 DEF Inv, TypeOK, Task
      <3>2. row'[u.job].attempts = row[u.job].attempts
        BY <2>2, <3>1
      <3> QED
        BY <3>1, <3>2 DEF Inv, Owners
    <2>8. Owners'
      BY <1>2, <2>5, <2>6, <2>7 DEF Owners
    <2>9. Distinct'
      BY <1>2 DEF Inv, Distinct
    <2>10. Outputs'
      BY <1>2, <2>2 DEF Inv, Outputs, SucceededHasArtifact
    <2>11. Attempts'
      <3>1. status # "none" /\ status # "pending"
        BY DEF Ended
      <3> QED
        BY <2>2, <3>1 DEF Inv, Attempts
    <2> QED
      BY <2>3, <2>8, <2>9, <2>10, <2>11 DEF Inv
  <1> QED
    BY <1>5, <1>6 DEF End

LEMMA OutcomeInv == ASSUME Inv, NEW t \in tasks, Fail(t) \/ Succeed(t) PROVE Inv'
  <1>1. CASE Fail(t)
    <2>1. PICK status \in {"dead", "failed"} : End(t, status, "failed")
      BY <1>1 DEF Fail
    <2>2. status \in Ended /\ status # "succeeded"
      BY DEF Ended
    <2> QED
      BY <2>1, <2>2, EndInv
  <1>2. CASE Succeed(t)
    <2>1. End(t, "succeeded", "succeeded") /\ t.job \in artifacts /\ "succeeded" \in Ended
      BY <1>2 DEF Succeed, Inv, Outputs, Ended
    <2> QED
      BY <2>1, EndInv
  <1> QED
    BY <1>1, <1>2

-----------------------------------------------------------------------------
(* The theorems. *)

LEMMA NextInv == Inv /\ [Next]_vars => Inv'
  <1> SUFFICES ASSUME Inv, [Next]_vars PROVE Inv'
    OBVIOUS
  <1>1. ASSUME NEW w \in Workers, Loop(w) PROVE Inv'
    BY <1>1, LoopInv, RecoverStaleInv, ClaimJobInv, SkipJobInv DEF Loop
  <1>2. ASSUME NEW t \in tasks, Run(t) PROVE Inv'
    BY <1>2, BecomeLateInv, UploadInv, OutcomeInv DEF Run
  <1>3. CASE UNCHANGED vars
    <2>1. TypeOK'
      BY <1>3 DEF vars, Inv, TypeOK
    <2> QED
      BY <1>3, <2>1, GivenUp DEF vars
  <1> QED
    BY <1>1, <1>2, <1>3, CreateBatchInv, AgeInv DEF Next

\* The inductive invariant holds throughout.
THEOREM Invariance == Spec => []Inv
  BY InitInv, NextInv, PTL DEF Spec

\* The variables have their types, whatever the constants (worker.go:91-359).
THEOREM TypeCorrect == Spec => []TypeOK
  <1>1. Inv => TypeOK
    BY DEF Inv
  <1> QED
    BY <1>1, Invariance, PTL

\* However workers, claims, recovery and crashes interleave, a task that is not
\* late owns its row and no claim is held by two workers (sqlite.go:47-107,
\* 202-222).
THEOREM ClaimsExclusive == Spec => []OwnerHoldsRow
  <1>1. Inv => OwnerHoldsRow
    <2> SUFFICES ASSUME Inv PROVE OwnerHoldsRow
      OBVIOUS
    <2>1. ASSUME NEW v \in Workers, NEW w \in Workers, v # w, NEW x \in Held(v) \cap Held(w)
          PROVE  FALSE
      <3>1. claimed[v] \subseteq Claim /\ claimed[w] \subseteq Claim
        BY DEF Inv, TypeOK
      <3>2. ASSUME NEW t \in tasks, x = [job |-> t.job, attempt |-> t.attempt]
            PROVE  x.job = t.job /\ x.attempt = t.attempt
        BY <3>2
      <3>3. CASE x \in claimed[v] /\ x \in claimed[w]
        BY <2>1, <3>3 DEF Inv, Distinct
      <3>4. ASSUME x \in claimed[v], NEW t \in TasksOf(w), x = [job |-> t.job, attempt |-> t.attempt]
            PROVE  FALSE
        BY <3>2, <3>4 DEF TasksOf, Inv, Distinct
      <3>5. ASSUME x \in claimed[w], NEW t \in TasksOf(v), x = [job |-> t.job, attempt |-> t.attempt]
            PROVE  FALSE
        BY <3>2, <3>5 DEF TasksOf, Inv, Distinct
      <3>6. ASSUME NEW t \in TasksOf(v), x = [job |-> t.job, attempt |-> t.attempt],
                   NEW u \in TasksOf(w), x = [job |-> u.job, attempt |-> u.attempt]
            PROVE  FALSE
        <4>1. t \in tasks /\ u \in tasks /\ t.worker = v /\ u.worker = w
          BY DEF TasksOf
        <4>2. t = u
          BY <3>2, <3>6, <4>1 DEF Inv, Distinct
        <4> QED
          BY <2>1, <4>1, <4>2
      <3> QED
        BY <2>1, <3>3, <3>4, <3>5, <3>6 DEF Held
    <2>2. \A v, w \in Workers : v # w => Held(v) \cap Held(w) = {}
      BY <2>1
    <2> QED
      BY <2>2 DEF OwnerHoldsRow, Inv, Owners, Owned
  <1> QED
    BY <1>1, Invariance, PTL

\* A job recorded as succeeded has its output stored (worker.go:318-336).
THEOREM OutputStored == Spec => []SucceededHasArtifact
  <1>1. Inv => SucceededHasArtifact
    BY DEF Inv, Outputs
  <1> QED
    BY <1>1, Invariance, PTL

-----------------------------------------------------------------------------
(* The table as a queue. *)

\* What the queue sees of a row.
LEMMA SeenOf ==
    ASSUME NEW j \in Jobs
    PROVE  /\ row[j].status = "none" => QueueState[j] = "none"
           /\ row[j].status = "pending" => QueueState[j] = "queued"
           /\ row[j].status = "running" => QueueState[j] = "started"
           /\ row[j].status \in Ended => QueueState[j] = "done"
           /\ Starts[j] = row[j].attempts
  BY DEF QueueState, Starts, Ended

\* A row whose status and attempts stay looks the same.
LEMMA SeenSame ==
    ASSUME \A j \in Jobs : row'[j].status = row[j].status /\ row'[j].attempts = row[j].attempts
    PROVE  QueueState' = QueueState /\ Starts' = Starts
  BY DEF QueueState, Starts

\* The three ways in which a step changes the table's rows, or none.
LEMMA RowSteps ==
    ASSUME Inv, [Next]_vars
    PROVE  \/ \A j \in Jobs : row'[j].status = row[j].status /\ row'[j].attempts = row[j].attempts
           \/ \E S \in SUBSET Jobs : CreateBatch(S)
           \/ \E w \in Workers : RecoverStale(w)
           \/ \E w \in Workers : \E j \in ids[w] : ClaimJob(w, j)
           \/ \E t \in tasks, s \in Ended :
                 Writes(t) /\ row' = [row EXCEPT ![t.job].status = s]
  <1>1. ASSUME NEW j \in Jobs, Age(j)
        PROVE  \A k \in Jobs : row'[k].status = row[k].status /\ row'[k].attempts = row[k].attempts
    <2>1. row \in [Jobs -> JobRow] /\ row' = [row EXCEPT ![j].started = "stale"]
      BY <1>1 DEF Inv, TypeOK, Age
    <2> QED
      BY <2>1, SMT DEF JobRow
  <1>2. ASSUME NEW w \in Workers, Loop(w)
        PROVE  row' = row \/ RecoverStale(w) \/ \E j \in ids[w] : ClaimJob(w, j)
    BY <1>2 DEF Loop, Start, Poll, RecoverFails, ClaimFails, Stop, Exit, Crash, Gone, SkipJob
  <1>3. ASSUME NEW t \in tasks, NEW s \in Ended, NEW o, End(t, s, o)
        PROVE  row' = row \/ (Writes(t) /\ row' = [row EXCEPT ![t.job].status = s])
    BY <1>3 DEF End
  <1>4. ASSUME NEW t \in tasks, Run(t)
        PROVE  row' = row \/ \E s \in Ended : Writes(t) /\ row' = [row EXCEPT ![t.job].status = s]
    <2>1. CASE BecomeLate(t) \/ Upload(t)
      BY <2>1 DEF BecomeLate, Upload
    <2>2. CASE Fail(t) \/ Succeed(t)
      <3>1. \E s \in Ended, o \in {"failed", "succeeded"} : End(t, s, o)
        BY <2>2 DEF Fail, Succeed, Ended
      <3> QED
        BY <1>3, <3>1
    <2> QED
      BY <1>4, <2>1, <2>2 DEF Run
  <1> QED
    BY <1>1, <1>2, <1>4 DEF Next, vars

\* A success stays recorded (worker.go:199-204, sqlite.go:109-129).
THEOREM SuccessKept == Spec => SuccessIsFinal
  <1> DEFINE Kept == \A j \in Jobs : row[j].status = "succeeded" => row'[j].status = "succeeded"
  <1>1. ASSUME Inv, [Next]_vars PROVE Kept
    <2>1. ASSUME NEW S \in SUBSET Jobs, CreateBatch(S) PROVE Kept
      BY <2>1 DEF CreateBatch
    <2>2. ASSUME NEW w \in Workers, RecoverStale(w) PROVE Kept
      BY <2>2 DEF RecoverStale, Stale
    <2>3. ASSUME NEW w \in Workers, NEW j \in ids[w], ClaimJob(w, j) PROVE Kept
      <3>1. row[j].status = "pending" /\ \A k \in Jobs \ {j} : row'[k] = row[k]
        BY <1>1, <2>3 DEF ClaimJob, Claimable, Inv, TypeOK
      <3> QED
        BY <3>1
    <2>4. ASSUME NEW t \in tasks, NEW s \in Ended, Writes(t), row' = [row EXCEPT ![t.job].status = s]
          PROVE  Kept
      <3>1. row[t.job].status = "running"
        BY <1>1, <2>4 DEF Writes, Inv, Owners, Owned
      <3>2. \A k \in Jobs : k # t.job => row'[k] = row[k]
        BY <1>1, <2>4 DEF Inv, TypeOK
      <3> QED
        BY <3>1, <3>2
    <2> QED
      BY <1>1, <2>1, <2>2, <2>3, <2>4, RowSteps
  <1>2. Inv /\ [Next]_vars => [Kept]_vars
    BY <1>1
  <1> QED
    BY <1>2, Invariance, PTL DEF Spec, SuccessIsFinal

\* The workers and the table implement JobQueue: attempts are bounded, and a job
\* that is done stays done (sqlite.go:47-129, 202-222).
THEOREM Refinement == Spec => ImplementsQueue
  <1>1. Init => Queue!Init
    <2> SUFFICES ASSUME Init PROVE Queue!Init
      OBVIOUS
    <2>1. \A j \in Jobs : row[j].status = "none" /\ row[j].attempts = 0
      BY DEF Init
    <2>2. QueueState = [j \in Jobs |-> "none"]
      BY <2>1 DEF QueueState
    <2>3. Starts = [j \in Jobs |-> 0]
      BY <2>1 DEF Starts
    <2> QED
      BY <2>2, <2>3 DEF Queue!Init
  <1>2. ASSUME Inv, [Next]_vars PROVE [Queue!Next]_Queue!vars
    <2>0. row \in [Jobs -> JobRow]
      BY <1>2 DEF Inv, TypeOK
    <2>1. ASSUME NEW S \in SUBSET Jobs, CreateBatch(S) PROVE Queue!Enqueue(S)
      <3>1. \A j \in S : QueueState[j] = "none"
        BY <2>1, SeenOf DEF CreateBatch
      <3>2. \A j \in Jobs : /\ j \in S => row'[j].status = "pending"
                            /\ j \notin S => row'[j] = row[j]
                            /\ row'[j].attempts = row[j].attempts
        BY <2>0, <2>1, SMT DEF CreateBatch, JobRow
      <3>3. QueueState' = [j \in Jobs |-> IF j \in S THEN "queued" ELSE QueueState[j]]
        BY <3>2 DEF QueueState
      <3>4. Starts' = Starts
        BY <3>2 DEF Starts
      <3> QED
        BY <3>1, <3>3, <3>4 DEF Queue!Enqueue
    <2>2. ASSUME NEW w \in Workers, RecoverStale(w) PROVE Queue!Requeue(Stale)
      <3>1. \A j \in Stale : QueueState[j] = "started" /\ Starts[j] < MaxAttempts
        BY SeenOf DEF Stale
      <3>2. ASSUME NEW j \in Jobs
            PROVE  /\ j \in Stale => row'[j].status = "pending"
                   /\ j \notin Stale => row'[j] = row[j]
                   /\ row'[j].attempts = row[j].attempts
        <4>1. PICK r : r = row[j]
          OBVIOUS
        <4>2. r \in JobRow
          BY <2>0, <4>1
        <4>3. r = [status |-> r.status, attempts |-> r.attempts, started |-> r.started]
          BY <4>2 DEF JobRow
        <4>4. row'[j] = IF j \in Stale THEN [r EXCEPT !.status = "pending", !.started = "no"] ELSE r
          BY <2>2, <4>1 DEF RecoverStale
        <4>5. j \in Stale => row'[j] = [status |-> "pending", attempts |-> r.attempts, started |-> "no"]
          BY <4>3, <4>4
        <4> QED
          BY <4>1, <4>4, <4>5
      <3>3. QueueState' = [j \in Jobs |-> IF j \in Stale THEN "queued" ELSE QueueState[j]]
        BY <3>2 DEF QueueState
      <3>4. Starts' = Starts
        BY <3>2 DEF Starts
      <3> QED
        BY <3>1, <3>3, <3>4 DEF Queue!Requeue
    <2>3. ASSUME NEW w \in Workers, NEW j \in ids[w], ClaimJob(w, j)
          PROVE  j \in Jobs /\ Queue!Start(j)
      <3>1. j \in Jobs /\ row[j].status = "pending" /\ row[j].attempts < MaxAttempts
        BY <1>2, <2>3 DEF ClaimJob, Claimable, Inv, TypeOK, Attempts
      <3>2. /\ row'[j].status = "running" /\ row'[j].attempts = row[j].attempts + 1
            /\ \A k \in Jobs \ {j} : row'[k] = row[k]
        BY <2>0, <2>3, <3>1 DEF ClaimJob
      <3>3. QueueState' = [QueueState EXCEPT ![j] = "started"]
        BY <3>1, <3>2 DEF QueueState
      <3>4. Starts' = [Starts EXCEPT ![j] = @ + 1]
        BY <3>1, <3>2 DEF Starts
      <3> QED
        BY <3>1, <3>3, <3>4, SeenOf DEF Queue!Start
    <2>4. ASSUME NEW t \in tasks, NEW s \in Ended, Writes(t), row' = [row EXCEPT ![t.job].status = s]
          PROVE  t.job \in Jobs /\ Queue!Finish(t.job)
      <3>1. t.job \in Jobs /\ row[t.job].status = "running"
        BY <1>2, <2>4 DEF Writes, Inv, TypeOK, Owners, Owned, Task
      <3>2. /\ row'[t.job].status \in Ended
            /\ \A k \in Jobs : row'[k].attempts = row[k].attempts
            /\ \A k \in Jobs \ {t.job} : row'[k] = row[k]
        BY <2>0, <2>4, <3>1, SMT DEF JobRow
      <3>3. QueueState' = [QueueState EXCEPT ![t.job] = "done"]
        BY <3>1, <3>2 DEF QueueState, Ended
      <3>4. Starts' = Starts
        BY <3>2 DEF Starts
      <3> QED
        BY <3>1, <3>3, <3>4, SeenOf DEF Queue!Finish
    <2>5. CASE \A j \in Jobs : row'[j].status = row[j].status /\ row'[j].attempts = row[j].attempts
      BY <2>5, SeenSame DEF Queue!vars
    <2>6. Stale \in SUBSET Jobs
      BY DEF Stale
    <2> QED
      BY <1>2, <2>1, <2>2, <2>3, <2>4, <2>5, <2>6, RowSteps DEF Queue!Next
  <1> QED
    BY <1>1, <1>2, Invariance, PTL DEF Spec, ImplementsQueue, Queue!Spec

-----------------------------------------------------------------------------
(* Slots. *)

\* What worker w has selected, claimed and started fits its slots; between two
\* calls of ClaimPending it has selected and claimed nothing.
Room(w) ==
    /\ IsFiniteSet(TasksOf(w)) /\ IsFiniteSet(claimed[w]) /\ IsFiniteSet(ids[w])
    /\ worker[w] # "claim" => ids[w] = {} /\ claimed[w] = {}
    /\ Cardinality(TasksOf(w)) + Cardinality(claimed[w]) + Cardinality(ids[w]) <= Concurrency

Rooms == \A w \in Workers : Room(w)

LEMMA RoomCounts ==
    ASSUME NEW w \in Workers, Room(w)
    PROVE  /\ Cardinality(TasksOf(w)) \in Nat /\ Cardinality(claimed[w]) \in Nat
           /\ Cardinality(ids[w]) \in Nat /\ Concurrency \in Nat
  BY FS_CardinalityType, SdkAssumption DEF Room

LEMMA RoomLess ==
    ASSUME NEW w \in Workers, Room(w), TasksOf(w)' \subseteq TasksOf(w),
           claimed'[w] \subseteq claimed[w], ids'[w] \subseteq ids[w],
           worker'[w] # "claim" => ids'[w] = {} /\ claimed'[w] = {}
    PROVE  Room(w)'
  <1>1. \A S, T : IsFiniteSet(S) /\ T \subseteq S =>
            IsFiniteSet(T) /\ Cardinality(T) <= Cardinality(S) /\ Cardinality(T) \in Nat
    BY FS_Subset, FS_CardinalityType
  <1>2. /\ IsFiniteSet(TasksOf(w)') /\ Cardinality(TasksOf(w)') \in Nat
        /\ Cardinality(TasksOf(w)') <= Cardinality(TasksOf(w))
    BY <1>1 DEF Room
  <1>3. /\ IsFiniteSet(claimed'[w]) /\ Cardinality(claimed'[w]) \in Nat
        /\ Cardinality(claimed'[w]) <= Cardinality(claimed[w])
    BY <1>1 DEF Room
  <1>4. /\ IsFiniteSet(ids'[w]) /\ Cardinality(ids'[w]) \in Nat
        /\ Cardinality(ids'[w]) <= Cardinality(ids[w])
    BY <1>1 DEF Room
  <1>5. Cardinality(TasksOf(w)') + Cardinality(claimed'[w]) + Cardinality(ids'[w]) <= Concurrency
    <2>1. Cardinality(TasksOf(w)) + Cardinality(claimed[w]) + Cardinality(ids[w]) <= Concurrency
      BY DEF Room
    <2> QED
      BY <1>2, <1>3, <1>4, <2>1, RoomCounts, SMT
  <1> QED
    BY <1>2, <1>3, <1>4, <1>5 DEF Room

\* A task is replaced by itself, further on.
LEMMA RoomReplaced ==
    ASSUME Rooms, NEW t \in tasks, NEW u, u.worker = t.worker, tasks' = (tasks \ {t}) \cup {u},
           UNCHANGED <<worker, ids, claimed>>
    PROVE  Rooms'
  <1> SUFFICES ASSUME NEW w \in Workers PROVE Room(w)'
    BY DEF Rooms
  <1>1. Room(w)
    BY DEF Rooms
  <1>2. CASE t.worker # w
    <2>1. TasksOf(w)' \subseteq TasksOf(w)
      BY <1>2 DEF TasksOf
    <2> QED
      BY <1>1, <2>1, RoomLess DEF Room
  <1>3. CASE t.worker = w
    <2>1. t \in TasksOf(w) /\ TasksOf(w)' = (TasksOf(w) \ {t}) \cup {u}
      BY <1>3 DEF TasksOf
    <2>2. IsFiniteSet(TasksOf(w))
      BY <1>1 DEF Room
    <2>3. /\ IsFiniteSet(TasksOf(w) \ {t})
          /\ Cardinality(TasksOf(w) \ {t}) = Cardinality(TasksOf(w)) - 1
      BY <2>1, <2>2, FS_RemoveElement
    <2>4. /\ IsFiniteSet(TasksOf(w)')
          /\ \/ Cardinality(TasksOf(w)') = Cardinality(TasksOf(w) \ {t})
             \/ Cardinality(TasksOf(w)') = Cardinality(TasksOf(w) \ {t}) + 1
      <3>1. PICK S : S = TasksOf(w) \ {t}
        OBVIOUS
      <3>2. /\ IsFiniteSet(S \cup {u})
            /\ Cardinality(S \cup {u}) = IF u \in S THEN Cardinality(S) ELSE Cardinality(S) + 1
        BY <2>3, <3>1, FS_AddElement
      <3> QED
        BY <2>1, <3>1, <3>2
    <2>5. Cardinality(TasksOf(w)') + Cardinality(claimed[w]) + Cardinality(ids[w]) <= Concurrency
      <3>1. Cardinality(TasksOf(w)) + Cardinality(claimed[w]) + Cardinality(ids[w]) <= Concurrency
        BY <1>1 DEF Room
      <3> QED
        BY <1>1, <2>3, <2>4, <3>1, RoomCounts, SMT
    <2> QED
      BY <1>1, <2>4, <2>5 DEF Room
  <1> QED
    BY <1>2, <1>3

LEMMA PollRoom == ASSUME TypeOK, Rooms, NEW w \in Workers, Poll(w) PROVE Rooms'
  <1>1. PICK S \in SUBSET Pending : Cardinality(S) <= Free(w) /\ ids' = [ids EXCEPT ![w] = S]
    BY DEF Poll
  <1>2. /\ worker[w] = "loop" /\ worker' = [worker EXCEPT ![w] = "claim"]
        /\ UNCHANGED <<claimed, tasks>>
    BY DEF Poll
  <1>3. /\ ids'[w] = S /\ worker'[w] = "claim"
        /\ \A v \in Workers \ {w} : ids'[v] = ids[v] /\ worker'[v] = worker[v]
    BY <1>1, <1>2 DEF TypeOK
  <1>4. \A v \in Workers : TasksOf(v)' = TasksOf(v)
    BY <1>2 DEF TasksOf
  <1>5. Room(w) /\ claimed[w] = {} /\ Cardinality(claimed[w]) = 0
    BY <1>2, FS_EmptySet DEF Rooms, Room
  <1>6. IsFiniteSet(S) /\ Cardinality(S) \in Nat
    <2>1. S \in SUBSET Jobs
      BY DEF Pending
    <2> QED
      BY <2>1, FS_Subset, FS_CardinalityType, SdkAssumption
  <1>7. Room(w)'
    <2>1. Cardinality(TasksOf(w)) + 0 + Cardinality(S) <= Concurrency
      BY <1>1, <1>5, <1>6, RoomCounts, SMT DEF Free
    <2> QED
      BY <1>2, <1>3, <1>4, <1>5, <1>6, <2>1 DEF Room
  <1>8. ASSUME NEW v \in Workers \ {w} PROVE Room(v)'
    <2>1. Room(v)
      BY DEF Rooms
    <2> QED
      BY <1>2, <1>3, <1>4, <2>1, RoomLess DEF Room
  <1> QED
    BY <1>7, <1>8 DEF Rooms

\* Each job of the list becomes at most one claim, and each claim a task.
LEMMA ContinueRoom ==
    ASSUME TypeOK, Rooms, NEW w \in Workers, worker[w] = "claim", NEW j \in ids[w],
           NEW claims, IsFiniteSet(claims), Cardinality(claims) <= Cardinality(claimed[w]) + 1,
           Continue(w, j, claims)
    PROVE  Rooms'
  <1>1. Room(w)
    BY DEF Rooms
  <1>2. /\ ids'[w] = ids[w] \ {j} /\ \A v \in Workers \ {w} : ids'[v] = ids[v]
    BY DEF Continue, TypeOK
  <1>3. /\ IsFiniteSet(ids'[w]) /\ Cardinality(ids'[w]) = Cardinality(ids[w]) - 1
        /\ Cardinality(claims) \in Nat
    <2>1. PICK S : S = ids[w]
      OBVIOUS
    <2>2. IsFiniteSet(S) /\ j \in S
      BY <1>1, <2>1 DEF Room
    <2>3. IsFiniteSet(S \ {j}) /\ Cardinality(S \ {j}) = IF j \in S THEN Cardinality(S) - 1 ELSE Cardinality(S)
      BY <2>2, FS_RemoveElement
    <2>4. Cardinality(claims) \in Nat
      BY FS_CardinalityType
    <2> QED
      BY <1>2, <2>1, <2>2, <2>3, <2>4
  <1>4. CASE ids[w] = {j}
    <2>1. /\ claimed' = [claimed EXCEPT ![w] = {}] /\ worker' = [worker EXCEPT ![w] = "loop"]
          /\ tasks' = tasks \cup {TaskFor(w, c) : c \in claims}
      BY <1>4 DEF Continue, TaskFor
    <2>2. /\ claimed'[w] = {} /\ worker'[w] = "loop" /\ ids'[w] = {}
          /\ \A v \in Workers \ {w} : claimed'[v] = claimed[v] /\ worker'[v] = worker[v]
      BY <1>2, <1>4, <2>1 DEF TypeOK
    <2>3. \A c : TaskFor(w, c).worker = w
      BY DEF TaskFor
    <2>4. PICK T : T = {TaskFor(w, c) : c \in claims}
      OBVIOUS
    <2>5. TasksOf(w)' = TasksOf(w) \cup T /\ \A v \in Workers \ {w} : TasksOf(v)' \subseteq TasksOf(v)
      BY <2>1, <2>3, <2>4 DEF TasksOf
    <2>6. IsFiniteSet(T) /\ Cardinality(T) <= Cardinality(claims) /\ Cardinality(T) \in Nat
      <3>1. PICK f : f = [c \in claims |-> TaskFor(w, c)]
        OBVIOUS
      <3>2. f \in Surjection(claims, T)
        BY <2>4, <3>1 DEF Surjection
      <3> QED
        BY <3>2, FS_Surjection, FS_CardinalityType
    <2>7. /\ IsFiniteSet(TasksOf(w)')
          /\ Cardinality(TasksOf(w)') <= Cardinality(TasksOf(w)) + Cardinality(T)
          /\ Cardinality(TasksOf(w)') \in Nat
      <3>1. PICK S : S = TasksOf(w)
        OBVIOUS
      <3>2. IsFiniteSet(S) /\ Cardinality(S) \in Nat
        BY <1>1, <3>1, FS_CardinalityType DEF Room
      <3>3. IsFiniteSet(S \cup T) /\ Cardinality(S \cup T) = Cardinality(S) + Cardinality(T) - Cardinality(S \cap T)
        BY <2>6, <3>2, FS_Union
      <3>4. Cardinality(S \cap T) \in Nat
        <4>1. IsFiniteSet(S \cap T)
          BY <3>2, FS_Subset
        <4> QED
          BY <4>1, FS_CardinalityType
      <3>5. Cardinality(S \cup T) \in Nat
        BY <3>3, FS_CardinalityType
      <3>6. \A a, b, d, n \in Nat : n = a + b - d => n <= a + b
        BY SMT
      <3> QED
        BY <2>5, <2>6, <3>1, <3>2, <3>3, <3>4, <3>5, <3>6
    <2>8. Cardinality(TasksOf(w)') + 0 + 0 <= Concurrency
      <3>1. Cardinality(TasksOf(w)) + Cardinality(claimed[w]) + Cardinality(ids[w]) <= Concurrency
            /\ Cardinality(ids[w]) = 1
        BY <1>1, <1>4, FS_Singleton DEF Room
      <3> QED
        BY <1>1, <1>3, <2>6, <2>7, <3>1, RoomCounts, SMT
    <2>9. Room(w)'
      BY <2>2, <2>7, <2>8, FS_EmptySet DEF Room
    <2>10. ASSUME NEW v \in Workers \ {w} PROVE Room(v)'
      <3>1. Room(v)
        BY DEF Rooms
      <3> QED
        BY <1>2, <2>2, <2>5, <3>1, RoomLess DEF Room
    <2> QED
      BY <2>9, <2>10 DEF Rooms
  <1>5. CASE ids[w] # {j}
    <2>1. claimed' = [claimed EXCEPT ![w] = claims] /\ UNCHANGED <<tasks, worker>>
      BY <1>5 DEF Continue
    <2>2. claimed'[w] = claims /\ \A v \in Workers \ {w} : claimed'[v] = claimed[v]
      BY <2>1 DEF TypeOK
    <2>3. \A v \in Workers : TasksOf(v)' = TasksOf(v)
      BY <2>1 DEF TasksOf
    <2>4. Cardinality(TasksOf(w)) + Cardinality(claims) + Cardinality(ids'[w]) <= Concurrency
      <3>1. Cardinality(TasksOf(w)) + Cardinality(claimed[w]) + Cardinality(ids[w]) <= Concurrency
        BY <1>1 DEF Room
      <3> QED
        BY <1>1, <1>3, <3>1, RoomCounts, SMT
    <2>5. Room(w)'
      BY <1>1, <1>3, <2>1, <2>2, <2>3, <2>4 DEF Room
    <2>6. ASSUME NEW v \in Workers \ {w} PROVE Room(v)'
      <3>1. Room(v)
        BY DEF Rooms
      <3> QED
        BY <1>2, <2>1, <2>2, <2>3, <3>1, RoomLess DEF Room
    <2> QED
      BY <2>5, <2>6 DEF Rooms
  <1> QED
    BY <1>4, <1>5

LEMMA NextRoom == ASSUME TypeOK, Rooms, [Next]_vars PROVE Rooms'
  <1>1. ASSUME NEW w \in Workers, UNCHANGED tasks, UNCHANGED ids, UNCHANGED claimed,
               NEW s, worker' = [worker EXCEPT ![w] = s], worker[w] # "claim"
        PROVE  Rooms'
    <2> SUFFICES ASSUME NEW v \in Workers PROVE Room(v)'
      BY DEF Rooms
    <2>1. Room(v) /\ TasksOf(v)' \subseteq TasksOf(v)
      BY <1>1 DEF Rooms, TasksOf
    <2>2. worker'[v] # "claim" => ids'[v] = {} /\ claimed'[v] = {}
      BY <1>1, <2>1 DEF TypeOK, Room
    <2> QED
      BY <1>1, <2>1, <2>2, RoomLess
  <1>2. ASSUME NEW w \in Workers, tasks' \subseteq tasks, ids' = [ids EXCEPT ![w] = {}],
               claimed' = [claimed EXCEPT ![w] = {}], NEW s, worker' = [worker EXCEPT ![w] = s]
        PROVE  Rooms'
    <2> SUFFICES ASSUME NEW v \in Workers PROVE Room(v)'
      BY DEF Rooms
    <2>1. Room(v) /\ TasksOf(v)' \subseteq TasksOf(v)
      BY <1>2 DEF Rooms, TasksOf
    <2>2. CASE v = w
      <3>1. ids'[v] = {} /\ claimed'[v] = {}
        BY <1>2, <2>2 DEF TypeOK
      <3> QED
        BY <2>1, <3>1, RoomLess
    <2>3. CASE v # w
      <3>1. ids'[v] = ids[v] /\ claimed'[v] = claimed[v] /\ worker'[v] = worker[v]
        BY <1>2, <2>3 DEF TypeOK
      <3> QED
        BY <2>1, <3>1, RoomLess DEF Room
    <2> QED
      BY <2>2, <2>3
  <1>3. ASSUME tasks' \subseteq tasks, UNCHANGED <<worker, ids, claimed>> PROVE Rooms'
    <2> SUFFICES ASSUME NEW v \in Workers PROVE Room(v)'
      BY DEF Rooms
    <2>1. Room(v) /\ TasksOf(v)' \subseteq TasksOf(v)
      BY <1>3 DEF Rooms, TasksOf
    <2> QED
      BY <1>3, <2>1, RoomLess DEF Room
  <1>4. ASSUME NEW w \in Workers, Loop(w) PROVE Rooms'
    <2>1. CASE Start(w) \/ RecoverStale(w) \/ RecoverFails(w)
      <3>1. /\ UNCHANGED tasks /\ UNCHANGED ids /\ UNCHANGED claimed /\ worker[w] # "claim"
            /\ \E s : worker' = [worker EXCEPT ![w] = s]
        BY <2>1 DEF Start, RecoverStale, RecoverFails
      <3> QED
        BY <1>1, <3>1
    <2>2. CASE ClaimFails(w) \/ Stop(w) \/ Exit(w) \/ Crash(w)
      <3>1. /\ tasks' \subseteq tasks /\ ids' = [ids EXCEPT ![w] = {}]
            /\ claimed' = [claimed EXCEPT ![w] = {}] /\ \E s : worker' = [worker EXCEPT ![w] = s]
        BY <2>2 DEF ClaimFails, Stop, Exit, Crash, Gone
      <3> QED
        BY <1>2, <3>1
    <2>3. CASE Poll(w)
      BY <2>3, PollRoom
    <2>4. ASSUME NEW j \in ids[w], ClaimJob(w, j) \/ SkipJob(w, j) PROVE Rooms'
      <3>1. IsFiniteSet(claimed[w]) /\ Cardinality(claimed[w]) \in Nat
        BY FS_CardinalityType DEF Rooms, Room
      <3>2. \A x : /\ IsFiniteSet(claimed[w] \cup {x})
                   /\ Cardinality(claimed[w] \cup {x}) <= Cardinality(claimed[w]) + 1
        <4> TAKE x
        <4>1. PICK S : S = claimed[w]
          OBVIOUS
        <4>2. /\ IsFiniteSet(S \cup {x})
              /\ Cardinality(S \cup {x}) = IF x \in S THEN Cardinality(S) ELSE Cardinality(S) + 1
          BY <3>1, <4>1, FS_AddElement
        <4> QED
          BY <3>1, <4>1, <4>2, SMT
      <3>3. Cardinality(claimed[w]) <= Cardinality(claimed[w]) + 1
        BY <3>1, SMT
      <3>4. CASE ClaimJob(w, j)
        <4>1. worker[w] = "claim" /\ Continue(w, j, claimed[w] \cup {[job |-> j, attempt |-> row[j].attempts + 1]})
          BY <3>4 DEF ClaimJob
        <4> QED
          BY <3>2, <4>1, ContinueRoom
      <3>5. CASE SkipJob(w, j)
        <4>1. worker[w] = "claim" /\ Continue(w, j, claimed[w])
          BY <3>5 DEF SkipJob
        <4> QED
          BY <3>1, <3>3, <4>1, ContinueRoom
      <3> QED
        BY <2>4, <3>4, <3>5
    <2> QED
      BY <1>4, <2>1, <2>2, <2>3, <2>4 DEF Loop
  <1>5. ASSUME NEW t \in tasks, Run(t) PROVE Rooms'
    <2>1. t \in Task
      BY DEF TypeOK
    <2>2. CASE BecomeLate(t)
      <3>1. PICK u : u = [t EXCEPT !.late = TRUE]
        OBVIOUS
      <3>2. u.worker = t.worker
        BY <2>1, <3>1 DEF Task
      <3>3. tasks' = (tasks \ {t}) \cup {u} /\ UNCHANGED <<worker, ids, claimed>>
        BY <2>2, <3>1 DEF BecomeLate
      <3> QED
        BY <3>2, <3>3, RoomReplaced
    <2>3. CASE Upload(t)
      <3>1. PICK u : u = [t EXCEPT !.step = "uploaded"]
        OBVIOUS
      <3>2. u.worker = t.worker
        BY <2>1, <3>1 DEF Task
      <3>3. tasks' = (tasks \ {t}) \cup {u} /\ UNCHANGED <<worker, ids, claimed>>
        BY <2>3, <3>1 DEF Upload
      <3> QED
        BY <3>2, <3>3, RoomReplaced
    <2>4. CASE Fail(t) \/ Succeed(t)
      BY <1>3, <2>4 DEF Fail, Succeed, End
    <2> QED
      BY <1>5, <2>2, <2>3, <2>4 DEF Run
  <1>6. ASSUME NEW S \in SUBSET Jobs, CreateBatch(S) PROVE Rooms'
    BY <1>3, <1>6 DEF CreateBatch
  <1>7. ASSUME NEW j \in Jobs, Age(j) PROVE Rooms'
    BY <1>3, <1>7 DEF Age
  <1>8. CASE UNCHANGED vars
    BY <1>3, <1>8 DEF vars
  <1> QED
    BY <1>4, <1>5, <1>6, <1>7, <1>8 DEF Next

\* A worker never has more jobs selected, claimed and running than it has slots
\* (worker.go:116-149), whatever fails, is late or crashes.
THEOREM SlotsSuffice == Spec => []SlotsBounded
  <1>1. Init => Rooms
    <2> SUFFICES ASSUME Init, NEW w \in Workers PROVE Room(w)
      BY DEF Rooms
    <2>1. TasksOf(w) = {} /\ claimed[w] = {} /\ ids[w] = {}
      BY DEF Init, TasksOf
    <2>2. IsFiniteSet({}) /\ Cardinality({}) = 0
      BY FS_EmptySet
    <2>3. 0 + 0 + 0 <= Concurrency
      BY SdkAssumption, SMT
    <2> QED
      BY <2>1, <2>2, <2>3 DEF Room
  <1>2. Rooms => SlotsBounded
    BY DEF Rooms, Room, SlotsBounded
  <1>3. TypeOK /\ Rooms /\ [Next]_vars => Rooms'
    BY NextRoom
  <1> QED
    BY <1>1, <1>2, <1>3, TypeCorrect, PTL DEF Spec

=============================================================================
