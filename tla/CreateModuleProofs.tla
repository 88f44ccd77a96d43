------------------------- MODULE CreateModuleProofs -------------------------
(***************************************************************************)
(* Theorems about CreateModule, for any number of names, branches,         *)
(* requests, failures and crashes.                                         *)
(*                                                                         *)
(* RecordedModuleKept holds because the branch is the lock: while requests *)
(* for a name agree on the branch, the one whose commit is its head is the *)
(* only one between the commit and the rows, so no other gets to the       *)
(* compensation that removes the repository.  BranchIsLock says this.      *)
(***************************************************************************)
EXTENDS CreateModule, TLAPS

USE Zenon

\* A request that has not arrived has no name.
IdleAsksNothing == \A c \in Creates : pc[c] = "idle" => req[c] = None

\* Before the rows a request for the name holds the branch; nobody is about to
\* remove the repository; a recorded module is the work of the request whose
\* commit is on the branch.
Locked(n) ==
    /\ \A c \in Creates : req[c] # None /\ Name(c) = n =>
          /\ pc[c] # "delete"
          /\ pc[c] \in {"put", "tx"} => repos[n].exists
          /\ pc[c] = "tx" => repos[n].heads[req[c].branch] = c /\ rows[n] = None
    /\ rows[n] # None =>
          /\ repos[n].exists
          /\ repos[n].heads[rows[n].branch] = rows[n].hash

BranchIsLock == failures = 0 => \A n \in Names : Agreed(n) => Locked(n)

\* The row of a module is that of a request for its name, and names its branch.
RowsRequested ==
    \A n \in Names : rows[n] # None =>
        /\ rows[n].hash \in Creates
        /\ req[rows[n].hash] # None
        /\ Name(rows[n].hash) = n
        /\ req[rows[n].hash].branch = rows[n].branch

\* A request that succeeded is past the transaction, and the row is its own.
OkRows ==
    \A c \in Creates : resp[c] = "ok" =>
        /\ pc[c] # "idle"
        /\ rows[Name(c)] # None
        /\ rows[Name(c)].hash = c

\* Requests that died with the process are over.
LostIsOver == \A c \in Creates : resp[c] = "lost" => pc[c] = "done"

\* NoLeftovers for one branch of one name.
Accounted(n, b) ==
    LET c == repos[n].heads[b]
    IN  c # None /\ rows[n] = None /\ n \notin undeleted =>
           /\ Name(c) = n
           /\ pc[c] \in {"tx", "delete"} \/ resp[c] = "lost"

Inv ==
    /\ TypeOK /\ IdleAsksNothing /\ LostIsOver /\ BranchIsLock
    /\ RowsRequested /\ OkRows /\ NoLeftovers

LEMMA InitInv == Init => Inv
  <1> SUFFICES ASSUME Init PROVE Inv
    OBVIOUS
  <1>1. NoRepository \in Repository /\ \A b \in Branches : NoRepository.heads[b] = None
    BY DEF NoRepository, Repository
  <1>2. TypeOK
    BY <1>1, SMT DEF Init, TypeOK, Steps
  <1>3. IdleAsksNothing /\ LostIsOver /\ BranchIsLock /\ RowsRequested /\ OkRows
    BY DEF Init, IdleAsksNothing, LostIsOver, BranchIsLock, Locked, RowsRequested, OkRows
  <1>4. NoLeftovers
    BY <1>1 DEF Init, NoLeftovers
  <1> QED
    BY <1>2, <1>3, <1>4 DEF Inv

\* What a request asks for.
LEMMA Asked ==
    ASSUME TypeOK, NEW c \in Creates, req[c] # None
    PROVE  Name(c) \in Names /\ req[c].branch \in Branches
  BY DEF TypeOK, Name

\* A request under way has its name and branch.
LEMMA AskedInFlight ==
    ASSUME TypeOK, NEW c \in Creates, pc[c] # "idle"
    PROVE  req[c] # None /\ Name(c) \in Names /\ req[c].branch \in Branches
  BY Asked DEF TypeOK

\* A failure is counted: a run without failures had none before.
LEMMA Counted ==
    ASSUME TypeOK, UNCHANGED <<failures, crashes>> \/ Failure
    PROVE  /\ failures' \in Nat /\ crashes' \in Nat /\ crashes' = crashes
           /\ failures' = 0 => failures = 0
           /\ Failure => failures' # 0
  BY SMT DEF TypeOK, Failure

\* The head of a branch is the commit of a request.
LEMMA HeadType ==
    ASSUME TypeOK, NEW n \in Names, NEW b \in Branches
    PROVE  repos[n].heads[b] \in Creates \cup {None}
  <1>1. PICK r \in Repository : r = repos[n]
    BY DEF TypeOK
  <1>2. r.heads \in [Branches -> Creates \cup {None}]
    BY DEF Repository
  <1> QED
    BY <1>1, <1>2

\* A branch stays accounted for while another request than its author's moves.
LEMMA AccountedKept ==
    ASSUME Inv, NEW c \in Creates, NEW n \in Names, NEW b \in Branches,
           repos'[n].heads[b] = repos[n].heads[b], rows[n] # None => rows'[n] # None,
           undeleted \subseteq undeleted', repos[n].heads[b] # c,
           \A d \in Creates \ {c} : pc'[d] = pc[d] /\ resp'[d] = resp[d] /\ req'[d] = req[d]
    PROVE  Accounted(n, b)'
  <1> SUFFICES ASSUME NEW d, d = repos'[n].heads[b], d # None, rows'[n] = None, n \notin undeleted'
               PROVE  Name(d)' = n /\ (pc'[d] \in {"tx", "delete"} \/ resp'[d] = "lost")
    BY DEF Accounted
  <1>1. d \in Creates \ {c}
    BY HeadType DEF Inv
  <1>2. Name(d) = n /\ (pc[d] \in {"tx", "delete"} \/ resp[d] = "lost")
    BY DEF Inv, NoLeftovers
  <1> QED
    BY <1>1, <1>2 DEF Name

\* What is known of the author of a branch whose name is free.
LEMMA AuthorKnown ==
    ASSUME Inv, NEW c \in Creates, NEW n \in Names, NEW b \in Branches,
           repos[n].heads[b] = c, rows[n] = None, n \notin undeleted
    PROVE  Name(c) = n /\ pc[c] \in {"tx", "delete", "done"}
  BY CreateAssumption DEF Inv, NoLeftovers, LostIsOver

-----------------------------------------------------------------------------
(* The steps that leave the stores alone. *)

\* A handler moves on within the code, and answers "ok" no sooner than it did.  It
\* gets to the compensation only after a failure or where its transaction or its
\* commit found the name or the repository gone; it leaves the transaction only
\* for the compensation, and the compensation with the failure noted.
Moves(c, to) ==
    /\ UNCHANGED <<repos, rows, req>>
    /\ pc[c] \notin {"idle", "done"} /\ to \in Steps \ {"idle", "put", "tx"}
    /\ pc' = [pc EXCEPT ![c] = to]
    /\ \/ resp' = resp
       \/ \E r \in {"exists", "error"} : resp' = [resp EXCEPT ![c] = r]
    /\ UNCHANGED <<failures, crashes>> \/ Failure
    /\ to = "delete" =>
          \/ Failure
          \/ pc[c] = "tx" /\ rows[Name(c)] # None
          \/ pc[c] = "put" /\ ~repos[Name(c)].exists
    /\ undeleted' = undeleted \/ undeleted' = undeleted \cup {Name(c)}
    /\ pc[c] \in {"tx", "delete"} /\ to # "delete" => Name(c) \in undeleted'
    /\ \/ oplog' = oplog
       \/ \E s \in {"pending", "absent", "completed", "failed"} : oplog' = [oplog EXCEPT ![c] = s]

LEMMA MovesInv == ASSUME Inv, NEW c \in Creates, NEW to, Moves(c, to) PROVE Inv'
  <1>1. /\ failures' \in Nat /\ crashes' \in Nat /\ crashes' = crashes
        /\ failures' = 0 => failures = 0
        /\ Failure => failures' # 0
    BY Counted DEF Moves, Inv
  <1>2. /\ pc' \in [Creates -> Steps] /\ pc'[c] = to
        /\ \A d \in Creates \ {c} : pc'[d] = pc[d]
        /\ to # "idle" /\ to # "put" /\ to # "tx"
    BY DEF Moves, Inv, TypeOK
  <1>3. /\ resp' \in [Creates -> {"none", "ok", "exists", "error", "lost"}]
        /\ \A d \in Creates : resp'[d] \in {"ok", "lost"} => resp[d] = resp'[d]
        /\ \A d \in Creates \ {c} : resp'[d] = resp[d]
    BY DEF Moves, Inv, TypeOK
  <1>4. oplog' \in [Creates -> {"none", "pending", "absent", "completed", "failed"}]
    BY DEF Moves, Inv, TypeOK
  <1>5. UNCHANGED <<repos, rows, req>>
    BY DEF Moves
  <1>6. \A d \in Creates : pc'[d] # "idle" => req'[d] # None
    BY <1>2, <1>5, AskedInFlight DEF Moves, Inv, TypeOK
  <1>12. undeleted' \subseteq Names /\ undeleted \subseteq undeleted'
    BY AskedInFlight DEF Moves, Inv, TypeOK
  <1>7. TypeOK'
    BY <1>1, <1>2, <1>3, <1>4, <1>5, <1>6, <1>12 DEF Inv, TypeOK
  <1>8. BranchIsLock'
    <2> SUFFICES ASSUME failures' = 0, NEW n \in Names, Agreed(n)'
                 PROVE  Locked(n)'
      BY DEF BranchIsLock
    <2>1. failures = 0 /\ Agreed(n) /\ ~Failure
      BY <1>1, <1>5 DEF Agreed, Name
    <2>2. Locked(n)
      BY <2>1 DEF Inv, BranchIsLock
    <2>3. req[c] # None /\ Name(c) = n => to # "delete"
      BY <2>1, <2>2 DEF Moves, Locked
    <2> QED
      BY <1>2, <1>5, <2>2, <2>3 DEF Locked, Name
  <1>9. RowsRequested' /\ IdleAsksNothing' /\ LostIsOver'
    <2>1. RowsRequested' /\ IdleAsksNothing'
      BY <1>2, <1>5 DEF Inv, RowsRequested, IdleAsksNothing, Name
    <2>2. LostIsOver'
      BY <1>2, <1>3 DEF Moves, Inv, LostIsOver
    <2> QED
      BY <2>1, <2>2
  <1>10. OkRows'
    BY <1>2, <1>3, <1>5 DEF Inv, OkRows, Name
  <1>11. NoLeftovers'
    <2> SUFFICES ASSUME NEW n \in Names, NEW b \in Branches PROVE Accounted(n, b)'
      BY DEF NoLeftovers, Accounted
    <2>1. CASE repos[n].heads[b] # c
      <3>1. \A d \in Creates \ {c} : pc'[d] = pc[d] /\ resp'[d] = resp[d] /\ req'[d] = req[d]
        BY <1>2, <1>3, <1>5, <1>12, <2>1
      <3>2. /\ repos'[n].heads[b] = repos[n].heads[b] /\ (rows[n] # None => rows'[n] # None)
           /\ undeleted \subseteq undeleted' /\ repos[n].heads[b] # c
        BY <1>2, <1>3, <1>5, <1>12, <2>1
      <3> QED
        BY <3>1, <3>2, AccountedKept
    <2>2. CASE repos[n].heads[b] = c
      <3> SUFFICES ASSUME rows[n] = None, n \notin undeleted'
                   PROVE  Name(c) = n /\ pc'[c] = "delete"
        BY <1>5, <2>2 DEF Accounted, Name
      <3>1. Name(c) = n /\ pc[c] \in {"tx", "delete", "done"}
        BY <1>12, <2>2, AuthorKnown
      <3> QED
        BY <1>2, <3>1 DEF Moves
    <2> QED
      BY <2>1, <2>2
  <1> QED
    BY <1>7, <1>8, <1>9, <1>10, <1>11 DEF Inv

\* The actions that are such moves.
LEMMA MoveActions ==
    ASSUME NEW c \in Creates,
           \/ Refuse(c) \/ Taken(c) \/ Free(c) \/ CreateRepositoryFails(c)
           \/ PutRefMoved(c) \/ PutError(c) \/ NameTaken(c) \/ TxFails(c) \/ DeleteFails(c)
           \/ LogPending(c) \/ LogStatus(c)
    PROVE  \E to : Moves(c, to)
  <1>1. CASE Refuse(c) \/ Taken(c)
    <2>1. Moves(c, "done")
      BY <1>1 DEF Refuse, Taken, Reply, GoTo, Moves, stores, Steps
    <2> QED
      BY <2>1
  <1>2. CASE Free(c)
    <2>1. Moves(c, "log")
      BY <1>2 DEF Free, Moves, stores, Steps
    <2> QED
      BY <2>1
  <1>3. CASE CreateRepositoryFails(c) \/ PutRefMoved(c) \/ DeleteFails(c)
    <2>1. Moves(c, "logfailed")
      BY <1>3 DEF CreateRepositoryFails, PutRefMoved, DeleteFails, Reply, GoTo, Moves, stores, Steps
    <2> QED
      BY <2>1
  <1>4. CASE PutError(c) \/ NameTaken(c) \/ TxFails(c)
    <2>1. CASE PutError(c)
      <3>1. Moves(c, "delete")
        BY <2>1 DEF PutError, Moves, stores, Steps
      <3> QED
        BY <3>1
    <2>2. CASE NameTaken(c) \/ TxFails(c)
      <3>1. Moves(c, "delete")
        BY <2>2 DEF NameTaken, TxFails, Reply, GoTo, Moves, stores, Steps
      <3> QED
        BY <3>1
    <2> QED
      BY <1>4, <2>1, <2>2
  <1>5. CASE LogPending(c)
    <2>1. Moves(c, "repo")
      BY <1>5 DEF LogPending, GoTo, Moves, stores, Steps
    <2> QED
      BY <2>1
  <1>6. CASE LogStatus(c)
    <2>1. Moves(c, "done")
      BY <1>6 DEF LogStatus, GoTo, Moves, stores, Steps
    <2> QED
      BY <2>1
  <1> QED
    BY <1>1, <1>2, <1>3, <1>4, <1>5, <1>6

-----------------------------------------------------------------------------
(* The request arrives; the process dies. *)

LEMMA BeginInv == ASSUME Inv, NEW c \in Creates, Begin(c) PROVE Inv'
  <1>1. PICK q \in [name: Names, branch: Branches] : req' = [req EXCEPT ![c] = q]
    BY DEF Begin
  <1>2. /\ UNCHANGED <<repos, rows, oplog, resp, undeleted, failures, crashes>>
        /\ pc[c] = "idle" /\ pc' = [pc EXCEPT ![c] = "check"]
    BY DEF Begin, stores
  <1>3. q # None /\ q.name \in Names /\ q.branch \in Branches
    BY CreateAssumption
  <1>4. /\ req' \in [Creates -> [name: Names, branch: Branches] \cup {None}]
        /\ req'[c] = q /\ \A d \in Creates \ {c} : req'[d] = req[d]
    BY <1>1 DEF Inv, TypeOK
  <1>5. /\ pc' \in [Creates -> Steps] /\ pc'[c] = "check"
        /\ \A d \in Creates \ {c} : pc'[d] = pc[d]
    BY <1>2 DEF Inv, TypeOK, Steps
  <1>6. \A d \in Creates : pc'[d] # "idle" => req'[d] # None
    BY <1>3, <1>4, <1>5 DEF Inv, TypeOK
  <1>7. TypeOK'
    BY <1>2, <1>4, <1>5, <1>6 DEF Inv, TypeOK
  <1>8. BranchIsLock'
    <2> SUFFICES ASSUME failures' = 0, NEW n \in Names, Agreed(n)'
                 PROVE  Locked(n)'
      BY DEF BranchIsLock
    <2>1. req[c] = None
      BY <1>2 DEF Inv, IdleAsksNothing
    <2>2. Agreed(n)
      BY <1>4, <2>1, ZenonT(60) DEF Agreed, Name
    <2>3. Locked(n)
      BY <1>2, <2>2 DEF Inv, BranchIsLock
    <2> QED
      BY <1>2, <1>4, <1>5, <2>3, ZenonT(60) DEF Locked, Name
  <1>9. IdleAsksNothing' /\ LostIsOver' /\ RowsRequested' /\ OkRows'
    <2>1. req[c] = None
      BY <1>2 DEF Inv, IdleAsksNothing
    <2>2. IdleAsksNothing'
      BY <1>4, <1>5 DEF Inv, IdleAsksNothing
    <2>3. RowsRequested'
      <3>1. \A d \in Creates : req[d] # None => req'[d] = req[d] /\ Name(d)' = Name(d)
        BY <1>4, <2>1 DEF Name
      <3> QED
        BY <1>2, <3>1 DEF Inv, RowsRequested
    <2>4. OkRows'
      BY <1>2, <1>4, <1>5 DEF Inv, OkRows, Name
    <2>5. LostIsOver'
      BY <1>2, <1>5 DEF Inv, LostIsOver
    <2> QED
      BY <2>2, <2>3, <2>4, <2>5
  <1>10. NoLeftovers'
    <2> SUFFICES ASSUME NEW n \in Names, NEW b \in Branches PROVE Accounted(n, b)'
      BY DEF NoLeftovers, Accounted
    <2>1. CASE repos[n].heads[b] # c
      <3>1. \A d \in Creates \ {c} : pc'[d] = pc[d] /\ resp'[d] = resp[d] /\ req'[d] = req[d]
        BY <1>2, <1>4, <1>5, <2>1
      <3>2. /\ repos'[n].heads[b] = repos[n].heads[b] /\ (rows[n] # None => rows'[n] # None)
           /\ undeleted \subseteq undeleted' /\ repos[n].heads[b] # c
        BY <1>2, <1>4, <1>5, <2>1
      <3> QED
        BY <3>1, <3>2, AccountedKept
    <2>2. CASE repos[n].heads[b] = c
      BY <1>2, <2>2, AuthorKnown DEF Accounted
    <2> QED
      BY <2>1, <2>2
  <1> QED
    BY <1>7, <1>8, <1>9, <1>10 DEF Inv

LEMMA CrashInv == ASSUME Inv, Crash PROVE Inv'
  <1>1. /\ UNCHANGED <<repos, rows, oplog, req, undeleted, failures>>
        /\ \A d \in Creates : pc'[d] = pc[d] \/ pc'[d] = "done"
        /\ \A d \in Creates : resp'[d] = "ok" => resp[d] = "ok"
        /\ \A d \in Creates : pc[d] # "idle" => pc'[d] # "idle"
        /\ \A d \in Creates : pc[d] = "idle" => pc'[d] = "idle"
    BY DEF Crash, InFlight, stores
  <1>2. crashes' \in Nat
    BY SMT DEF Crash, Inv, TypeOK
  <1>3. /\ pc' \in [Creates -> Steps]
        /\ resp' \in [Creates -> {"none", "ok", "exists", "error", "lost"}]
    BY DEF Crash, Inv, TypeOK, Steps
  <1>4. TypeOK'
    BY <1>1, <1>2, <1>3 DEF Inv, TypeOK
  <1>5. BranchIsLock'
    <2>1. \A n \in Names : Agreed(n)' => Agreed(n)
      BY <1>1 DEF Agreed, Name
    <2> SUFFICES ASSUME failures' = 0, NEW n \in Names, Agreed(n)'
                 PROVE  Locked(n)'
      BY DEF BranchIsLock
    <2>2. Locked(n)
      BY <1>1, <2>1 DEF Inv, BranchIsLock
    <2> QED
      BY <1>1, <2>2, ZenonT(60) DEF Locked, Name
  <1>8. LostIsOver'
    BY DEF Crash, Inv, TypeOK, LostIsOver
  <1>6. IdleAsksNothing' /\ RowsRequested' /\ OkRows'
    BY <1>1 DEF Inv, IdleAsksNothing, RowsRequested, OkRows, Name
  <1>7. NoLeftovers'
    <2>1. \A d \in Creates : pc[d] \in {"tx", "delete"} \/ resp[d] = "lost" => resp'[d] = "lost"
      BY DEF Crash, InFlight
    <2> SUFFICES ASSUME NEW n \in Names, NEW b \in Branches PROVE Accounted(n, b)'
      BY DEF NoLeftovers, Accounted
    <2> SUFFICES ASSUME NEW d, d = repos[n].heads[b], d # None, rows[n] = None, n \notin undeleted
                 PROVE  Name(d)' = n /\ resp'[d] = "lost"
      BY <1>1 DEF Accounted
    <2>2. d \in Creates
      BY HeadType DEF Inv
    <2>3. Name(d) = n /\ (pc[d] \in {"tx", "delete"} \/ resp[d] = "lost")
      BY DEF Inv, NoLeftovers
    <2> QED
      BY <1>1, <2>1, <2>2, <2>3 DEF Name
  <1> QED
    BY <1>4, <1>5, <1>6, <1>7, <1>8 DEF Inv

-----------------------------------------------------------------------------
(* The steps on the stores.  Each leaves what is asked as it is and only moves *)
(* its own request. *)

\* What they have in common.
LEMMA Stepped ==
    ASSUME Inv, NEW c \in Creates, NEW to \in Steps \ {"idle"}, pc[c] \notin {"idle", "done"},
           GoTo(c, to), \A d \in Creates : resp'[d] = "lost" => resp[d] = "lost"
    PROVE  /\ UNCHANGED <<req, undeleted, failures, crashes>>
           /\ pc' \in [Creates -> Steps] /\ pc'[c] = to
           /\ \A d \in Creates \ {c} : pc'[d] = pc[d]
           /\ \A d \in Creates : pc'[d] # "idle" => req'[d] # None
           /\ \A d \in Creates : Name(d)' = Name(d)
           /\ \A n \in Names : Agreed(n)' => Agreed(n)
           /\ IdleAsksNothing' /\ LostIsOver'
           /\ req[c] # None /\ Name(c) \in Names /\ req[c].branch \in Branches
  <1>1. /\ UNCHANGED <<req, undeleted, failures, crashes>>
        /\ pc' \in [Creates -> Steps] /\ pc'[c] = to
        /\ \A d \in Creates \ {c} : pc'[d] = pc[d]
    BY DEF GoTo, Inv, TypeOK
  <1>2. req[c] # None /\ Name(c) \in Names /\ req[c].branch \in Branches
    BY AskedInFlight DEF Inv
  <1>3. \A d \in Creates : pc'[d] # "idle" => req'[d] # None
    BY <1>1, <1>2 DEF Inv, TypeOK
  <1>4. \A d \in Creates : Name(d)' = Name(d)
    BY <1>1 DEF Name
  <1>5. \A n \in Names : Agreed(n)' => Agreed(n)
    BY <1>1 DEF Agreed, Name
  <1>6. IdleAsksNothing' /\ LostIsOver'
    BY <1>1 DEF Inv, IdleAsksNothing, LostIsOver
  <1> QED
    BY <1>1, <1>2, <1>3, <1>4, <1>5, <1>6

\* The lock of one name is untouched by a step on another.
LEMMA LockedElsewhere ==
    ASSUME NEW n \in Names, NEW c \in Creates, Locked(n), n # Name(c), req' = req,
           \A d \in Creates \ {c} : pc'[d] = pc[d],
           repos'[n] = repos[n], rows'[n] = rows[n]
    PROVE  Locked(n)'
  <1>1. \A d \in Creates : req'[d] # None /\ Name(d)' = n =>
              req[d] # None /\ Name(d) = n /\ pc'[d] = pc[d]
    BY DEF Name
  <1>2. \A d \in Creates : req'[d] # None /\ Name(d)' = n =>
              /\ pc'[d] # "delete"
              /\ pc'[d] \in {"put", "tx"} => repos'[n].exists
              /\ pc'[d] = "tx" => repos'[n].heads[req'[d].branch] = d /\ rows'[n] = None
    BY <1>1 DEF Locked
  <1>3. rows'[n] # None =>
              /\ repos'[n].exists
              /\ repos'[n].heads[rows'[n].branch] = rows'[n].hash
    BY DEF Locked
  <1> QED
    BY <1>2, <1>3 DEF Locked

\* Making a repository keeps its branches.
LEMMA RepositoryMade ==
    ASSUME NEW q \in Repository, NEW r, r = [q EXCEPT !.exists = TRUE]
    PROVE  r \in Repository /\ r.exists /\ r.heads = q.heads
  <1>1. /\ q = [exists |-> q.exists, heads |-> q.heads]
        /\ q.heads \in [Branches -> Creates \cup {None}]
    BY DEF Repository
  <1>2. r = [exists |-> TRUE, heads |-> q.heads]
    BY <1>1
  <1> QED
    BY <1>1, <1>2 DEF Repository

LEMMA CreateRepositoryInv == ASSUME Inv, NEW c \in Creates, CreateRepository(c) PROVE Inv'
  <1>1. /\ pc[c] = "repo" /\ GoTo(c, "put") /\ UNCHANGED <<rows, oplog, resp>>
        /\ repos' = [repos EXCEPT ![Name(c)].exists = TRUE]
    BY DEF CreateRepository
  <1>2. /\ UNCHANGED <<req, undeleted, failures, crashes>>
        /\ pc' \in [Creates -> Steps] /\ pc'[c] = "put"
        /\ \A d \in Creates \ {c} : pc'[d] = pc[d]
        /\ \A d \in Creates : pc'[d] # "idle" => req'[d] # None
        /\ \A d \in Creates : Name(d)' = Name(d)
        /\ \A n \in Names : Agreed(n)' => Agreed(n)
        /\ IdleAsksNothing' /\ LostIsOver'
        /\ req[c] # None /\ Name(c) \in Names /\ req[c].branch \in Branches
    BY <1>1, Stepped DEF Steps
  <1>3. /\ repos' \in [Names -> Repository]
        /\ \A n \in Names : repos'[n].heads = repos[n].heads
        /\ \A n \in Names : repos[n].exists => repos'[n].exists
        /\ repos'[Name(c)].exists
    <2>1. PICK m \in Names : m = Name(c)
      BY <1>2
    <2>2. \A n \in Names : repos[n] \in Repository
      BY DEF Inv, TypeOK
    <2>3. repos' = [repos EXCEPT ![m] = [@ EXCEPT !.exists = TRUE]]
      BY <1>1, <2>1
    <2>4. PICK r \in Repository : r = repos[m]
      BY <2>2
    <2>5. PICK t : t = [r EXCEPT !.exists = TRUE]
      OBVIOUS
    <2>6. t \in Repository /\ t.exists /\ t.heads = r.heads
      BY <2>5, RepositoryMade
    <2>7. repos' = [repos EXCEPT ![m] = t]
      BY <2>3, <2>4, <2>5
    <2> QED
      BY <2>1, <2>2, <2>4, <2>6, <2>7 DEF Inv, TypeOK
  <1>4. TypeOK'
    BY <1>1, <1>2, <1>3 DEF Inv, TypeOK
  <1>5. BranchIsLock'
    <2> SUFFICES ASSUME failures' = 0, NEW n \in Names, Agreed(n)'
                 PROVE  Locked(n)'
      BY DEF BranchIsLock
    <2>1. Locked(n)
      BY <1>2 DEF Inv, BranchIsLock
    <2>2. \A d \in Creates \ {c} : req[d] # None /\ Name(d) = n =>
              /\ pc'[d] # "delete"
              /\ pc'[d] \in {"put", "tx"} => repos'[n].exists
              /\ pc'[d] = "tx" => repos'[n].heads[req[d].branch] = d /\ rows[n] = None
      BY <1>2, <1>3, <2>1 DEF Locked
    <2>3. Name(c) = n => pc'[c] # "delete" /\ pc'[c] # "tx" /\ repos'[n].exists
      BY <1>2, <1>3
    <2>4. rows[n] # None => repos'[n].exists /\ repos'[n].heads[rows[n].branch] = rows[n].hash
      BY <1>3, <2>1 DEF Locked
    <2> QED
      BY <1>1, <1>2, <2>2, <2>3, <2>4 DEF Locked
  <1>6. RowsRequested' /\ OkRows'
    <2>1. RowsRequested'
      BY <1>1, <1>2 DEF Inv, RowsRequested
    <2>2. OkRows'
      BY <1>1, <1>2 DEF Inv, OkRows
    <2> QED
      BY <2>1, <2>2
  <1>7. NoLeftovers'
    <2> SUFFICES ASSUME NEW n \in Names, NEW b \in Branches PROVE Accounted(n, b)'
      BY DEF NoLeftovers, Accounted
    <2>1. CASE repos[n].heads[b] # c
      <3>1. \A d \in Creates \ {c} : pc'[d] = pc[d] /\ resp'[d] = resp[d] /\ req'[d] = req[d]
        BY <1>1, <1>2, <1>3, <2>1
      <3>2. /\ repos'[n].heads[b] = repos[n].heads[b] /\ (rows[n] # None => rows'[n] # None)
           /\ undeleted \subseteq undeleted' /\ repos[n].heads[b] # c
        BY <1>1, <1>2, <1>3, <2>1
      <3> QED
        BY <3>1, <3>2, AccountedKept
    <2>2. CASE repos[n].heads[b] = c
      BY <1>1, <1>2, <1>3, <2>2, AuthorKnown DEF Accounted
    <2> QED
      BY <2>1, <2>2
  <1> QED
    BY <1>2, <1>4, <1>5, <1>6, <1>7 DEF Inv

LEMMA PutFilesInv == ASSUME Inv, NEW c \in Creates, PutFiles(c) PROVE Inv'
  <1>1. /\ pc[c] = "put" /\ GoTo(c, "tx") /\ UNCHANGED <<rows, oplog, resp>>
        /\ repos[Name(c)].exists /\ repos[Name(c)].heads[req[c].branch] = None
        /\ repos' = [repos EXCEPT ![Name(c)].heads[req[c].branch] = c]
    BY DEF PutFiles, Head
  <1>2. /\ UNCHANGED <<req, undeleted, failures, crashes>>
        /\ pc' \in [Creates -> Steps] /\ pc'[c] = "tx"
        /\ \A d \in Creates \ {c} : pc'[d] = pc[d]
        /\ \A d \in Creates : pc'[d] # "idle" => req'[d] # None
        /\ \A d \in Creates : Name(d)' = Name(d)
        /\ \A n \in Names : Agreed(n)' => Agreed(n)
        /\ IdleAsksNothing' /\ LostIsOver'
        /\ req[c] # None /\ Name(c) \in Names /\ req[c].branch \in Branches
    BY <1>1, Stepped DEF Steps
  <1>3. /\ repos' \in [Names -> Repository]
        /\ \A n \in Names \ {Name(c)} : repos'[n] = repos[n]
        /\ repos'[Name(c)].exists /\ repos'[Name(c)].heads[req[c].branch] = c
        /\ \A a \in Branches \ {req[c].branch} : repos'[Name(c)].heads[a] = repos[Name(c)].heads[a]
    <2>1. PICK m \in Names : m = Name(c)
      BY <1>2
    <2>2. PICK b \in Branches : b = req[c].branch
      BY <1>2
    <2>3. PICK r \in Repository : r = repos[m]
      BY DEF Inv, TypeOK
    <2>4. PICK h : h = [r.heads EXCEPT ![b] = c]
      OBVIOUS
    <2>5. /\ r = [exists |-> r.exists, heads |-> r.heads] /\ r.exists \in BOOLEAN
          /\ r.heads \in [Branches -> Creates \cup {None}]
      BY DEF Repository
    <2>6. PICK t : t = [exists |-> r.exists, heads |-> h]
      OBVIOUS
    <2>7. /\ h \in [Branches -> Creates \cup {None}] /\ h[b] = c
          /\ \A a \in Branches \ {b} : h[a] = r.heads[a]
      BY <2>4, <2>5
    <2>8. t \in Repository /\ t.heads = h
      BY <2>5, <2>6, <2>7 DEF Repository
    <2>9. r.exists => t.exists
      BY <2>6
    <2>10. t = [r EXCEPT !.heads = h]
      <3>1. PICK e : e = r.exists
        OBVIOUS
      <3>2. PICK g : g = r.heads
        OBVIOUS
      <3>3. r = [exists |-> e, heads |-> g] /\ t = [exists |-> e, heads |-> h]
        BY <2>5, <2>6, <3>1, <3>2
      <3> QED
        BY <3>3, SMT
    <2>11. repos' = [repos EXCEPT ![m] = t]
      BY <1>1, <2>1, <2>2, <2>3, <2>4, <2>10
    <2>12. repos'[m] = t /\ repos' \in [Names -> Repository] /\ \A n \in Names \ {m} : repos'[n] = repos[n]
      BY <2>8, <2>11 DEF Inv, TypeOK
    <2>13. /\ repos'[m].exists /\ repos'[m].heads[b] = c
           /\ \A a \in Branches \ {b} : repos'[m].heads[a] = repos[m].heads[a]
      <3>1. t.exists
        BY <1>1, <2>1, <2>3, <2>9
      <3>2. t.heads[b] = c /\ \A a \in Branches \ {b} : t.heads[a] = r.heads[a]
        BY <2>7, <2>8
      <3> QED
        BY <2>3, <2>12, <3>1, <3>2
    <2> QED
      BY <2>1, <2>2, <2>12, <2>13
  <1>4. TypeOK'
    BY <1>1, <1>2, <1>3 DEF Inv, TypeOK
  <1>5. BranchIsLock'
    <2> SUFFICES ASSUME failures' = 0, NEW n \in Names, Agreed(n)'
                 PROVE  Locked(n)'
      BY DEF BranchIsLock
    <2>1. Locked(n) /\ Agreed(n)
      BY <1>2 DEF Inv, BranchIsLock
    <2>2. CASE n # Name(c)
      BY <1>1, <1>2, <1>3, <2>1, <2>2, LockedElsewhere
    <2>3. CASE n = Name(c)
      <3>1. \A d \in Creates : req[d] # None /\ Name(d) = n => req[d].branch = req[c].branch
        BY <1>2, <2>1, <2>3 DEF Agreed
      <3>2. rows[n] = None
        BY <1>1, <2>1, <2>3, <3>1, CreateAssumption DEF Inv, RowsRequested, Locked
      <3>3. \A d \in Creates : req[d] # None /\ Name(d) = n => pc[d] # "tx" /\ pc[d] # "delete"
        BY <1>1, <2>1, <2>3, <3>1, CreateAssumption DEF Locked
      <3>4. \A d \in Creates : req'[d] # None /\ Name(d)' = n =>
                /\ pc'[d] # "delete"
                /\ pc'[d] = "tx" => d = c
        BY <1>2, <3>3
      <3> QED
        BY <1>1, <1>2, <1>3, <2>3, <3>2, <3>4 DEF Locked
    <2> QED
      BY <2>2, <2>3
  <1>6. RowsRequested' /\ OkRows'
    <2>1. RowsRequested'
      BY <1>1, <1>2 DEF Inv, RowsRequested
    <2>2. OkRows'
      BY <1>1, <1>2 DEF Inv, OkRows
    <2> QED
      BY <2>1, <2>2
  <1>7. NoLeftovers'
    <2> SUFFICES ASSUME NEW n \in Names, NEW b \in Branches PROVE Accounted(n, b)'
      BY DEF NoLeftovers, Accounted
    <2>1. CASE n = Name(c) /\ b = req[c].branch
      BY <1>2, <1>3, <2>1 DEF Accounted
    <2>2. CASE ~(n = Name(c) /\ b = req[c].branch)
      <3>1. repos'[n].heads[b] = repos[n].heads[b]
        BY <1>3, <2>2
      <3>2. CASE repos[n].heads[b] # c
        <4>1. \A d \in Creates \ {c} : pc'[d] = pc[d] /\ resp'[d] = resp[d] /\ req'[d] = req[d]
          BY <1>1, <1>2, <3>1, <3>2
        <4>2. /\ repos'[n].heads[b] = repos[n].heads[b] /\ (rows[n] # None => rows'[n] # None)
             /\ undeleted \subseteq undeleted' /\ repos[n].heads[b] # c
          BY <1>1, <1>2, <3>1, <3>2
        <4> QED
          BY <4>1, <4>2, AccountedKept
      <3>3. CASE repos[n].heads[b] = c
        BY <1>1, <1>2, <3>1, <3>3, AuthorKnown DEF Accounted
      <3> QED
        BY <3>2, <3>3
    <2> QED
      BY <2>1, <2>2
  <1> QED
    BY <1>2, <1>4, <1>5, <1>6, <1>7 DEF Inv

LEMMA RecordInv == ASSUME Inv, NEW c \in Creates, Record(c) PROVE Inv'
  <1>1. /\ pc[c] = "tx" /\ GoTo(c, "logcompleted") /\ UNCHANGED <<repos, oplog>>
        /\ rows[Name(c)] = None /\ resp' = [resp EXCEPT ![c] = "ok"]
        /\ \A d \in Creates : resp'[d] = "lost" => resp[d] = "lost"
        /\ rows' = [rows EXCEPT ![Name(c)] = [branch |-> req[c].branch, hash |-> c]]
    BY DEF Record, Reply, Inv, TypeOK
  <1>2. /\ UNCHANGED <<req, undeleted, failures, crashes>>
        /\ pc' \in [Creates -> Steps] /\ pc'[c] = "logcompleted"
        /\ \A d \in Creates \ {c} : pc'[d] = pc[d]
        /\ \A d \in Creates : pc'[d] # "idle" => req'[d] # None
        /\ \A d \in Creates : Name(d)' = Name(d)
        /\ \A n \in Names : Agreed(n)' => Agreed(n)
        /\ IdleAsksNothing' /\ LostIsOver'
        /\ req[c] # None /\ Name(c) \in Names /\ req[c].branch \in Branches
    BY <1>1, Stepped DEF Steps
  <1>3. PICK w \in Row : w = [branch |-> req[c].branch, hash |-> c]
    BY <1>2 DEF Row
  <1>4. /\ rows' \in [Names -> Row \cup {None}] /\ rows'[Name(c)] = w
        /\ \A n \in Names \ {Name(c)} : rows'[n] = rows[n]
        /\ w # None /\ w.branch = req[c].branch /\ w.hash = c
        /\ resp' \in [Creates -> {"none", "ok", "exists", "error", "lost"}]
        /\ \A d \in Creates \ {c} : resp'[d] = resp[d]
    <2>1. w # None /\ w.branch = req[c].branch /\ w.hash = c
      BY <1>3, CreateAssumption DEF Row
    <2>2. rows' = [rows EXCEPT ![Name(c)] = w]
      BY <1>1, <1>3
    <2>3. /\ rows' \in [Names -> Row \cup {None}] /\ rows'[Name(c)] = w
          /\ \A n \in Names \ {Name(c)} : rows'[n] = rows[n]
      BY <1>2, <2>2 DEF Inv, TypeOK
    <2>4. /\ resp' \in [Creates -> {"none", "ok", "exists", "error", "lost"}]
          /\ \A d \in Creates \ {c} : resp'[d] = resp[d]
      BY <1>1 DEF Inv, TypeOK
    <2> QED
      BY <2>1, <2>3, <2>4
  <1>8. TypeOK'
    BY <1>1, <1>2, <1>4 DEF Inv, TypeOK
  <1>5. BranchIsLock'
    <2> SUFFICES ASSUME failures' = 0, NEW n \in Names, Agreed(n)'
                 PROVE  Locked(n)'
      BY DEF BranchIsLock
    <2>1. Locked(n) /\ Agreed(n)
      BY <1>2 DEF Inv, BranchIsLock
    <2>2. CASE n # Name(c)
      BY <1>1, <1>2, <1>4, <2>1, <2>2, LockedElsewhere
    <2>3. CASE n = Name(c)
      <3>1. /\ repos[n].exists /\ repos[n].heads[req[c].branch] = c
            /\ \A d \in Creates : req[d] # None /\ Name(d) = n => pc[d] # "delete"
        BY <1>1, <1>2, <2>1, <2>3 DEF Locked
      <3>2. \A d \in Creates \ {c} : req[d] # None /\ Name(d) = n => pc[d] # "tx"
        <4>1. \A d \in Creates : req[d] # None /\ Name(d) = n => req[d].branch = req[c].branch
          BY <1>2, <2>1, <2>3 DEF Agreed
        <4> QED
          BY <2>1, <3>1, <4>1 DEF Locked
      <3>3. \A d \in Creates : req'[d] # None /\ Name(d)' = n => pc'[d] # "delete" /\ pc'[d] # "tx"
        BY <1>2, <3>1, <3>2
      <3>4. rows'[n].branch = req[c].branch /\ rows'[n].hash = c
        BY <1>4, <2>3
      <3>5. repos'[n].exists /\ repos'[n].heads[rows'[n].branch] = rows'[n].hash
        BY <1>1, <3>1, <3>4
      <3> QED
        BY <3>3, <3>5 DEF Locked
    <2> QED
      BY <2>2, <2>3
  <1>6. RowsRequested' /\ OkRows'
    <2>1. RowsRequested'
      <3> SUFFICES ASSUME NEW n \in Names, rows'[n] # None
                   PROVE  /\ rows'[n].hash \in Creates
                          /\ req'[rows'[n].hash] # None
                          /\ req'[rows'[n].hash].name = n
                          /\ req'[rows'[n].hash].branch = rows'[n].branch
        BY DEF RowsRequested, Name
      <3>1. CASE n = Name(c)
        BY <1>2, <1>4, <3>1 DEF Name
      <3>2. CASE n # Name(c)
        <4>1. rows'[n] = rows[n] /\ rows[n] # None
          BY <1>4, <3>2
        <4>2. PICK d \in Creates : d = rows[n].hash /\ req[d] # None /\ req[d].name = n /\ req[d].branch = rows[n].branch
          BY <4>1 DEF Inv, RowsRequested, Name
        <4>3. req'[d] # None /\ req'[d].name = n /\ req'[d].branch = rows'[n].branch /\ rows'[n].hash = d
          BY <1>2, <4>1, <4>2
        <4> QED
          BY <4>3
      <3> QED
        BY <3>1, <3>2
    <2>2. \A d \in Creates \ {c} : resp[d] = "ok" => Name(d) # Name(c) /\ Name(d) \in Names
      BY <1>1, AskedInFlight DEF Inv, OkRows
    <2>3. OkRows'
      <3> SUFFICES ASSUME NEW d \in Creates, resp'[d] = "ok"
                   PROVE  pc'[d] # "idle" /\ rows'[Name(d)] # None /\ rows'[Name(d)].hash = d
        BY <1>2 DEF OkRows
      <3>1. CASE d = c
        BY <1>2, <1>4, <3>1
      <3>2. CASE d # c
        <4>1. resp[d] = "ok" /\ pc'[d] = pc[d]
          BY <1>2, <1>4, <3>2
        <4>2. Name(d) # Name(c) /\ Name(d) \in Names
          BY <2>2, <3>2, <4>1
        <4>3. rows'[Name(d)] = rows[Name(d)]
          BY <1>4, <4>2
        <4> QED
          BY <4>1, <4>3 DEF Inv, OkRows
      <3> QED
        BY <3>1, <3>2
    <2> QED
      BY <2>1, <2>3
  <1>7. NoLeftovers'
    <2> SUFFICES ASSUME NEW n \in Names, NEW b \in Branches PROVE Accounted(n, b)'
      BY DEF NoLeftovers, Accounted
    <2>1. rows[n] # None => rows'[n] # None
      BY <1>4
    <2>2. CASE repos[n].heads[b] # c
      <3>1. \A d \in Creates \ {c} : pc'[d] = pc[d] /\ resp'[d] = resp[d] /\ req'[d] = req[d]
        BY <1>1, <1>2, <1>4, <2>1, <2>2
      <3>2. /\ repos'[n].heads[b] = repos[n].heads[b] /\ (rows[n] # None => rows'[n] # None)
           /\ undeleted \subseteq undeleted' /\ repos[n].heads[b] # c
        BY <1>1, <1>2, <1>4, <2>1, <2>2
      <3> QED
        BY <3>1, <3>2, AccountedKept
    <2>3. CASE repos[n].heads[b] = c
      <3>1. rows[n] = None /\ n \notin undeleted => n = Name(c)
        BY <2>3, AuthorKnown
      <3>2. rows'[n] = None => n # Name(c)
        BY <1>4
      <3> QED
        BY <1>2, <2>1, <3>1, <3>2 DEF Accounted
    <2> QED
      BY <2>2, <2>3
  <1> QED
    BY <1>2, <1>5, <1>6, <1>7, <1>8 DEF Inv

LEMMA DeleteRepositoryInv == ASSUME Inv, NEW c \in Creates, DeleteRepository(c) PROVE Inv'
  <1>1. /\ pc[c] = "delete" /\ GoTo(c, "logfailed") /\ UNCHANGED <<rows, oplog, resp>>
        /\ repos' = [repos EXCEPT ![Name(c)] = NoRepository]
    BY DEF DeleteRepository
  <1>2. /\ UNCHANGED <<req, undeleted, failures, crashes>>
        /\ pc' \in [Creates -> Steps] /\ pc'[c] = "logfailed"
        /\ \A d \in Creates \ {c} : pc'[d] = pc[d]
        /\ \A d \in Creates : pc'[d] # "idle" => req'[d] # None
        /\ \A d \in Creates : Name(d)' = Name(d)
        /\ \A n \in Names : Agreed(n)' => Agreed(n)
        /\ IdleAsksNothing' /\ LostIsOver'
        /\ req[c] # None /\ Name(c) \in Names /\ req[c].branch \in Branches
    BY <1>1, Stepped DEF Steps
  <1>3. /\ repos' \in [Names -> Repository]
        /\ \A n \in Names \ {Name(c)} : repos'[n] = repos[n]
        /\ \A b \in Branches : repos'[Name(c)].heads[b] = None
    <2>1. NoRepository \in Repository /\ \A b \in Branches : NoRepository.heads[b] = None
      BY DEF NoRepository, Repository
    <2> QED
      BY <1>1, <1>2, <2>1 DEF Inv, TypeOK
  <1>4. TypeOK'
    BY <1>1, <1>2, <1>3 DEF Inv, TypeOK
  <1>5. BranchIsLock'
    <2> SUFFICES ASSUME failures' = 0, NEW n \in Names, Agreed(n)'
                 PROVE  Locked(n)'
      BY DEF BranchIsLock
    <2>1. Locked(n) /\ Agreed(n)
      BY <1>2 DEF Inv, BranchIsLock
    <2>2. n # Name(c)
      BY <1>1, <1>2, <2>1 DEF Locked
    <2> QED
      BY <1>1, <1>2, <1>3, <2>1, <2>2, LockedElsewhere
  <1>6. RowsRequested' /\ OkRows'
    <2>1. RowsRequested'
      BY <1>1, <1>2 DEF Inv, RowsRequested
    <2>2. OkRows'
      BY <1>1, <1>2 DEF Inv, OkRows
    <2> QED
      BY <2>1, <2>2
  <1>7. NoLeftovers'
    <2> SUFFICES ASSUME NEW n \in Names, NEW b \in Branches PROVE Accounted(n, b)'
      BY DEF NoLeftovers, Accounted
    <2>1. CASE n = Name(c)
      BY <1>3, <2>1 DEF Accounted
    <2>2. CASE n # Name(c)
      <3>1. repos'[n].heads[b] = repos[n].heads[b]
        BY <1>3, <2>2
      <3>2. CASE repos[n].heads[b] # c
        <4>1. \A d \in Creates \ {c} : pc'[d] = pc[d] /\ resp'[d] = resp[d] /\ req'[d] = req[d]
          BY <1>1, <1>2, <3>1, <3>2
        <4>2. /\ repos'[n].heads[b] = repos[n].heads[b] /\ (rows[n] # None => rows'[n] # None)
             /\ undeleted \subseteq undeleted' /\ repos[n].heads[b] # c
          BY <1>1, <1>2, <3>1, <3>2
        <4> QED
          BY <4>1, <4>2, AccountedKept
      <3>3. CASE repos[n].heads[b] = c
        BY <1>1, <1>2, <2>2, <3>1, <3>3, AuthorKnown DEF Accounted
      <3> QED
        BY <3>2, <3>3
    <2> QED
      BY <2>1, <2>2
  <1> QED
    BY <1>2, <1>4, <1>5, <1>6, <1>7 DEF Inv

-----------------------------------------------------------------------------

LEMMA StutterInv == ASSUME Inv, UNCHANGED vars PROVE Inv'
  <1>1. \A c \in Creates : Name(c)' = Name(c)
    BY DEF vars, Name
  <1>2. \A n \in Names : (Agreed(n)' => Agreed(n)) /\ (Locked(n) => Locked(n)')
    BY DEF vars, Agreed, Locked, Name
  <1>3. TypeOK' /\ IdleAsksNothing' /\ LostIsOver'
    BY DEF vars, Inv, TypeOK, IdleAsksNothing, LostIsOver
  <1>4. BranchIsLock'
    BY <1>2 DEF vars, Inv, BranchIsLock
  <1>5. RowsRequested' /\ OkRows' /\ NoLeftovers'
    BY DEF vars, Inv, RowsRequested, OkRows, NoLeftovers, Name
  <1> QED
    BY <1>3, <1>4, <1>5 DEF Inv

\* The inductive invariant holds throughout: it is what each step of
\* CreateModuleByName needs of the steps of the other requests.
THEOREM Invariance == Spec => []Inv
  <1>1. ASSUME Inv, [Next]_vars PROVE Inv'
    <2>1. ASSUME NEW c \in Creates, Handle(c) PROVE Inv'
      <3>1. CASE Begin(c)
        BY <1>1, <3>1, BeginInv
      <3>2. CASE \/ Refuse(c) \/ Taken(c) \/ Free(c) \/ CreateRepositoryFails(c)
                 \/ PutRefMoved(c) \/ PutError(c) \/ NameTaken(c) \/ TxFails(c) \/ DeleteFails(c)
                 \/ LogPending(c) \/ LogStatus(c)
        <4>1. \E to : Moves(c, to)
          BY <3>2, MoveActions
        <4> QED
          BY <1>1, <4>1, MovesInv
      <3>3. CASE CreateRepository(c)
        BY <1>1, <3>3, CreateRepositoryInv
      <3>4. CASE PutFiles(c)
        BY <1>1, <3>4, PutFilesInv
      <3>5. CASE Record(c)
        BY <1>1, <3>5, RecordInv
      <3>6. CASE DeleteRepository(c)
        BY <1>1, <3>6, DeleteRepositoryInv
      <3> QED
        BY <2>1, <3>1, <3>2, <3>3, <3>4, <3>5, <3>6 DEF Handle
    <2>2. CASE Crash
      BY <1>1, <2>2, CrashInv
    <2>3. CASE Finished \/ UNCHANGED vars
      BY <1>1, <2>3, StutterInv DEF Finished
    <2> QED
      BY <1>1, <2>1, <2>2, <2>3 DEF Next
  <1> QED
    BY <1>1, InitInv, PTL DEF Spec

\* Every variable keeps its type, whatever CreateModuleByName's requests do.
THEOREM TypeCorrect == Spec => []TypeOK
  <1>1. Inv => TypeOK
    BY DEF Inv
  <1> QED
    BY <1>1, Invariance, PTL

\* As long as requests for a name agree on the branch and no store fails, a
\* recorded module keeps its repository and the initial commit on its branch
\* (module.go:323-341, 381-387).
THEOREM ModuleKept == Spec => []RecordedModuleKept
  <1>1. Inv => RecordedModuleKept
    BY DEF Inv, BranchIsLock, Locked, RecordedModuleKept
  <1> QED
    BY <1>1, Invariance, PTL

\* A branch in the repository of a free name belongs to a request that will still
\* record it or remove it, or that died, unless a removal failed
\* (module.go:311-313, 381-387).
THEOREM NothingLeft == Spec => []NoLeftovers
  <1>1. Inv => NoLeftovers
    BY DEF Inv
  <1> QED
    BY <1>1, Invariance, PTL

\* A request told that it succeeded owns the module row (module.go:347-380).
THEOREM SuccessIsOwned == Spec => []OkIsRecorded
  <1>1. Inv => OkIsRecorded
    BY DEF Inv, OkRows, OkIsRecorded
  <1> QED
    BY <1>1, Invariance, PTL

=============================================================================
