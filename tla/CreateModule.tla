---------------------------- MODULE CreateModule ----------------------------
(***************************************************************************)
(* Creating a module: CreateModuleByName                                   *)
(* (internal/hades/server/module/module.go) over the repositories of the   *)
(* go-git backend and the module rows of the database.                     *)
(*                                                                         *)
(* Each member of Creates is one request; its handler runs in steps, one   *)
(* per call to a store.  The order is the code's: name check, log entry,   *)
(* repository, initial commit, rows, and the deletion of the repository    *)
(* when a step after its creation fails.  A request writes at most one     *)
(* commit, so the request stands for the commit's hash.                    *)
(***************************************************************************)
EXTENDS Naturals, FiniteSets

CONSTANTS
    Names,      \* full names of modules, "owner/name"
    Branches,   \* default branches a request may ask for
    Creates,    \* requests
    None,       \* no request, no row, no branch
    MaxFailures,\* bound on failures of a store
    MaxCrashes  \* bound on crashes of the process

ASSUME CreateAssumption ==
    /\ None \notin Creates \cup Names \cup Branches
    /\ None \notin [name: Names, branch: Branches]
    /\ None \notin [branch: Branches, hash: Creates]
    /\ MaxFailures \in Nat
    /\ MaxCrashes \in Nat

VARIABLES
    repos,   \* name -> whether the repository exists, and its branch heads
    rows,    \* name -> the module row with its initial commit row, or None
    oplog,   \* request -> the status of its operation log entry
    pc,      \* request -> the next step of its handler
    req,     \* request -> the name and branch it asks for
    resp,    \* request -> the response
    undeleted, \* names whose repository a compensation failed to remove
    failures,\* failures of a store so far
    crashes  \* crashes so far

stores == <<repos, rows>>
vars == <<repos, rows, oplog, pc, req, resp, undeleted, failures, crashes>>

Repository == [exists: BOOLEAN, heads: [Branches -> Creates \cup {None}]]

NoRepository == [exists |-> FALSE, heads |-> [b \in Branches |-> None]]

\* A module row and, inserted with it, the row of its initial commit.
Row == [branch: Branches, hash: Creates]

Name(c) == req[c].name
Head(c) == repos[Name(c)].heads[req[c].branch]

InFlight(c) == pc[c] \notin {"idle", "done"}

Init ==
    /\ repos = [n \in Names |-> NoRepository]
    /\ rows = [n \in Names |-> None]
    /\ oplog = [c \in Creates |-> "none"]
    /\ pc = [c \in Creates |-> "idle"]
    /\ req = [c \in Creates |-> None]
    /\ resp = [c \in Creates |-> "none"]
    /\ undeleted = {}
    /\ failures = 0
    /\ crashes = 0

\* The handler goes to step, having changed nothing else.
GoTo(c, step) ==
    /\ pc' = [pc EXCEPT ![c] = step]
    /\ UNCHANGED <<req, undeleted, failures, crashes>>

\* It goes to step with the response decided.
Reply(c, step, r) ==
    /\ resp' = [resp EXCEPT ![c] = r]
    /\ GoTo(c, step)

\* A failure of a store, counted.
Failure == failures < MaxFailures /\ failures' = failures + 1 /\ crashes' = crashes

\* The request arrives; the name is well formed.
Begin(c) ==
    /\ pc[c] = "idle"
    /\ \E n \in Names, b \in Branches : req' = [req EXCEPT ![c] = [name |-> n, branch |-> b]]
    /\ pc' = [pc EXCEPT ![c] = "check"]
    /\ UNCHANGED <<stores, oplog, resp, undeleted, failures, crashes>>

\* Unknown namespace or missing permission.
Refuse(c) ==
    /\ pc[c] = "check"
    /\ Reply(c, "done", "error")
    /\ UNCHANGED <<stores, oplog>>

\* The name is taken.
Taken(c) ==
    /\ pc[c] = "check"
    /\ rows[Name(c)] # None
    /\ Reply(c, "done", "exists")
    /\ UNCHANGED <<stores, oplog>>

\* The name is free.  A lookup that fails reads as a free name.
Free(c) ==
    /\ pc[c] = "check"
    /\ pc' = [pc EXCEPT ![c] = "log"]
    /\ \/ rows[Name(c)] = None /\ UNCHANGED <<failures, crashes>>
       \/ rows[Name(c)] # None /\ Failure
    /\ UNCHANGED <<stores, oplog, req, resp, undeleted>>

\* CreatePending.  Its error is dropped; the entry is then never updated.
LogPending(c) ==
    /\ pc[c] = "log"
    /\ \E status \in {"pending", "absent"} : oplog' = [oplog EXCEPT ![c] = status]
    /\ GoTo(c, "repo")
    /\ UNCHANGED <<stores, resp>>

\* Idempotent: an existing repository is left as it is.
CreateRepository(c) ==
    /\ pc[c] = "repo"
    /\ repos' = [repos EXCEPT ![Name(c)].exists = TRUE]
    /\ GoTo(c, "put")
    /\ UNCHANGED <<rows, oplog, resp>>

CreateRepositoryFails(c) ==
    /\ pc[c] = "repo"
    /\ Failure
    /\ resp' = [resp EXCEPT ![c] = "error"]
    /\ pc' = [pc EXCEPT ![c] = "logfailed"]
    /\ UNCHANGED <<stores, oplog, req, undeleted>>

\* PutFiles with an empty ExpectedHead: the branch must not exist.
PutFiles(c) ==
    /\ pc[c] = "put"
    /\ repos[Name(c)].exists
    /\ Head(c) = None
    /\ repos' = [repos EXCEPT ![Name(c)].heads[req[c].branch] = c]
    /\ GoTo(c, "tx")
    /\ UNCHANGED <<rows, oplog, resp>>

\* Mutant of PutRefMoved: the repository is removed in this case too.
PutRefMovedDeleting(c) ==
    /\ pc[c] = "put"
    /\ repos[Name(c)].exists
    /\ Head(c) # None
    /\ Reply(c, "delete", "exists")
    /\ UNCHANGED <<stores, oplog>>

\* ErrRefMoved: the branch exists, and the repository with it is left alone.
PutRefMoved(c) ==
    /\ pc[c] = "put"
    /\ repos[Name(c)].exists
    /\ Head(c) # None
    /\ Reply(c, "logfailed", "exists")
    /\ UNCHANGED <<stores, oplog>>

\* PutFiles finds no repository, another request having removed it, or fails.
PutError(c) ==
    /\ pc[c] = "put"
    /\ resp' = [resp EXCEPT ![c] = "error"]
    /\ pc' = [pc EXCEPT ![c] = "delete"]
    /\ \/ ~repos[Name(c)].exists /\ UNCHANGED <<failures, crashes>>
       \/ repos[Name(c)].exists /\ Failure
    /\ UNCHANGED <<stores, oplog, req, undeleted>>

\* Mutant of Record: the table lacks the unique constraint.
RecordAnyway(c) ==
    /\ pc[c] = "tx"
    /\ rows' = [rows EXCEPT ![Name(c)] = [branch |-> req[c].branch, hash |-> c]]
    /\ Reply(c, "logcompleted", "ok")
    /\ UNCHANGED <<repos, oplog>>

\* The transaction commits: module row and commit row together.
Record(c) ==
    /\ pc[c] = "tx"
    /\ rows[Name(c)] = None
    /\ rows' = [rows EXCEPT ![Name(c)] = [branch |-> req[c].branch, hash |-> c]]
    /\ Reply(c, "logcompleted", "ok")
    /\ UNCHANGED <<repos, oplog>>

\* The unique constraint on the name.
NameTaken(c) ==
    /\ pc[c] = "tx"
    /\ rows[Name(c)] # None
    /\ Reply(c, "delete", "exists")
    /\ UNCHANGED <<stores, oplog>>

\* The transaction cannot begin, insert or commit for another reason.
TxFails(c) ==
    /\ pc[c] = "tx"
    /\ Failure
    /\ resp' = [resp EXCEPT ![c] = "error"]
    /\ pc' = [pc EXCEPT ![c] = "delete"]
    /\ UNCHANGED <<stores, oplog, req, undeleted>>

\* Mutant of DeleteRepository: the repository is forgotten.
DeleteRepositoryNever(c) ==
    /\ pc[c] = "delete"
    /\ GoTo(c, "logfailed")
    /\ UNCHANGED <<stores, oplog, resp>>

\* The compensation: the whole repository is removed, whoever wrote to it.
DeleteRepository(c) ==
    /\ pc[c] = "delete"
    /\ repos' = [repos EXCEPT ![Name(c)] = NoRepository]
    /\ GoTo(c, "logfailed")
    /\ UNCHANGED <<rows, oplog, resp>>

\* It fails; the error is logged.
DeleteFails(c) ==
    /\ pc[c] = "delete"
    /\ Failure
    /\ pc' = [pc EXCEPT ![c] = "logfailed"]
    /\ undeleted' = undeleted \cup {Name(c)}
    /\ UNCHANGED <<stores, oplog, req, resp>>

\* The entry takes its final status, unless it was never written or cannot be
\* updated.
LogStatus(c) ==
    /\ pc[c] \in {"logfailed", "logcompleted"}
    /\ \/ /\ oplog[c] = "pending"
          /\ oplog' = [oplog EXCEPT ![c] = IF pc[c] = "logfailed" THEN "failed" ELSE "completed"]
       \/ oplog' = oplog
    /\ GoTo(c, "done")
    /\ UNCHANGED <<stores, resp>>

\* The process dies.
Crash ==
    /\ \E c \in Creates : InFlight(c)
    /\ crashes < MaxCrashes
    /\ crashes' = crashes + 1
    /\ pc' = [c \in Creates |-> IF InFlight(c) THEN "done" ELSE pc[c]]
    /\ resp' = [c \in Creates |-> IF InFlight(c) THEN "lost" ELSE resp[c]]
    /\ UNCHANGED <<stores, oplog, req, undeleted, failures>>

Finished ==
    /\ \A c \in Creates : pc[c] = "done"
    /\ UNCHANGED vars

Handle(c) ==
    \/ Begin(c) \/ Refuse(c) \/ Taken(c) \/ Free(c) \/ LogPending(c)
    \/ CreateRepository(c) \/ CreateRepositoryFails(c)
    \/ PutFiles(c) \/ PutRefMoved(c) \/ PutError(c)
    \/ Record(c) \/ NameTaken(c) \/ TxFails(c)
    \/ DeleteRepository(c) \/ DeleteFails(c) \/ LogStatus(c)

Next == (\E c \in Creates : Handle(c)) \/ Crash \/ Finished

Spec == Init /\ [][Next]_vars

-----------------------------------------------------------------------------

Steps == {"idle", "check", "log", "repo", "put", "tx", "delete", "logfailed",
          "logcompleted", "done"}

\* The variables have the types their comments give them.
TypeOK ==
    /\ repos \in [Names -> Repository]
    /\ rows \in [Names -> Row \cup {None}]
    /\ oplog \in [Creates -> {"none", "pending", "absent", "completed", "failed"}]
    /\ pc \in [Creates -> Steps]
    /\ req \in [Creates -> [name: Names, branch: Branches] \cup {None}]
    /\ \A c \in Creates : pc[c] # "idle" => req[c] # None
    /\ resp \in [Creates -> {"none", "ok", "exists", "error", "lost"}]
    /\ undeleted \subseteq Names
    /\ failures \in Nat
    /\ crashes \in Nat

\* Requests for the module name agree on the branch.
Agreed(n) ==
    \A c, d \in Creates : req[c] # None /\ req[d] # None /\ Name(c) = n /\ Name(d) = n
        => req[c].branch = req[d].branch

\* However many requests for a name overlap and wherever the process dies, as
\* long as they agree on the branch and no store fails, a recorded module keeps
\* its repository, with the initial commit it was recorded with on its branch:
\* no loser of the race removes or replaces it (module.go:323-341, 381-387).
RecordedModuleKept ==
    failures = 0 => \A n \in Names : Agreed(n) /\ rows[n] # None =>
        /\ repos[n].exists
        /\ repos[n].heads[rows[n].branch] = rows[n].hash

\* A branch in the repository of a name that is free is the work of a request for
\* that name which will still record it or remove it, or which died with the
\* process; only a removal that fails leaves one behind (module.go:311-313,
\* 381-387).
NoLeftovers ==
    \A n \in Names, b \in Branches :
        LET c == repos[n].heads[b]
        IN  c # None /\ rows[n] = None /\ n \notin undeleted =>
               /\ Name(c) = n
               /\ pc[c] \in {"tx", "delete"} \/ resp[c] = "lost"

\* A request is told that it succeeded only if the module row is its own, and at
\* most one request of a name is (module.go:347-380, 409-424).
OkIsRecorded ==
    \A c \in Creates : resp[c] = "ok" => rows[Name(c)].hash = c

-----------------------------------------------------------------------------
(* What the repository says and the code does not do. *)

\* module.go:335-337: the repository is not deleted when it "belongs to a module
\* someone else created, and removing it would turn a duplicate-name error into
\* data loss".
DuplicateKeepsModule ==
    failures = 0 => \A n \in Names : rows[n] # None => repos[n].exists

\* git.go:172-174: "The module-creation saga can retry after a failure that left
\* the repository behind": a request is not told that the name exists when no
\* module has it and no other request is creating it.
RetryIsPossible ==
    [][\A c \in Creates : resp'[c] = "exists" /\ resp[c] # "exists" =>
          \/ rows[Name(c)] # None
          \/ \E d \in Creates \ {c} : InFlight(d) /\ Name(d) = Name(c)]_vars

=============================================================================
