-------------------------------- MODULE Push --------------------------------
(***************************************************************************)
(* Pushing to existing modules: the Upload handler                         *)
(* (internal/hades/server/content/upload.go) over its two stores, the      *)
(* module's git repository (storage/git/gogit) and the commit rows of the  *)
(* metadata database (storage/db/commit), with the operation log           *)
(* (storage/db/gitalyoplog) beside them.                                   *)
(*                                                                         *)
(* Each member of Uploads is one request.  Its handler runs as a sequence  *)
(* of atomic steps, one per call to a store, interleaved with the other    *)
(* requests.  Phase 1 reads and prepares every content of the request,     *)
(* phase 2 writes the prepared work items one after the other: log entry,  *)
(* git commit, database transaction, and a git rollback when an insert     *)
(* fails.  A repository's commits are numbered in the order in which they  *)
(* are written; 0 stands for the empty hash.                               *)
(***************************************************************************)
EXTENDS Naturals, Sequences, FiniteSets

CONSTANTS
    Modules,     \* modules that were created before the uploads start
    Uploads,     \* upload requests
    Requests,    \* the contents a request may carry
    Paths,       \* file paths
    Accepted,    \* the paths that paths.GetPath keeps (*.proto, README.md, ...)
    BufYaml,     \* the path buf.yaml, which the registry writes itself
    Readme,      \* the path README.md
    Blobs,       \* file contents
    Settings,    \* the content of the buf.yaml written at module creation
    Empty,       \* the content of the README.md written at module creation
    NoFile,      \* absence of a path from a tree
    LintEnabled, \* sdkConfig.LintEnabled: checks run, a CI record is kept
    SdkEnabled,  \* sdkConfig.Enabled: SDK jobs are enqueued with the commit
    MaxFaults    \* bound on crashes and on failures no rollback is made for

\* A set of files: what every path holds.
Files == [Paths -> Blobs \cup {NoFile}]

\* One content of a request: a module and the files pushed to it.
Contents == [module: Modules, files: Files]

ASSUME PathsAssumption ==
    /\ Accepted \subseteq Paths
    /\ BufYaml \in Paths \ Accepted
    /\ Readme \in Accepted

ASSUME BlobsAssumption ==
    /\ {Settings, Empty} \subseteq Blobs
    /\ NoFile \notin Blobs

ASSUME RequestsAssumption ==
    /\ Requests \subseteq Seq(Contents)
    /\ <<>> \notin Requests

ASSUME ConfigAssumption ==
    /\ LintEnabled \in BOOLEAN
    /\ SdkEnabled \in BOOLEAN
    /\ MaxFaults \in Nat

VARIABLES
    git,      \* module -> its repository: commit objects and the branch head
    rows,     \* module -> its commit rows, in insertion order
    oplog,    \* upload -> its operation log entries, one per work item begun
    notices,  \* the pushes that members were notified of
    pc,       \* upload -> the next step of its handler
    req,      \* upload -> the contents of the request
    idx,      \* upload -> position in req (phase 1) or in work (phase 2)
    prev,     \* upload -> previousHead, read from the database
    head,     \* upload -> expectedHead, read from git
    work,     \* upload -> work items prepared by phase 1
    commit,   \* upload -> commitId of the git write in progress
    dedup,    \* upload -> commits found by digest
    landed,   \* upload -> commits recorded by this request (newCommits)
    resp,     \* upload -> the response
    faults    \* crashes and unhandled failures so far

stores == <<git, rows, notices>>
local == <<req, prev, head, work, commit, dedup>>
vars == <<git, rows, oplog, notices, pc, req, idx, prev, head, work, commit,
          dedup, landed, resp, faults>>

-----------------------------------------------------------------------------
(* The data the handler works on. *)

NoHash == 0

\* The digest is the identity of a file set: equal digests, equal files.  The
\* initial commit of a module is recorded with an empty digest.
NoDigest == [alg |-> "none"]
DigestFiles(files) == [alg |-> "shake256", of |-> files]
Digests == {NoDigest} \cup {DigestFiles(f) : f \in Files}

Commit == [parent: Nat, tree: Files]

\* A commit row with the rows written in the same transaction: whether a CI run
\* was recorded and whether SDK jobs were enqueued.  base is a history field,
\* the previousHead that the upload had read.
Row == [hash: Nat, digest: Digests, base: Nat, ci: BOOLEAN, jobs: BOOLEAN]

\* A commit as the response names it.
Ref == [module: Modules, hash: Nat, digest: Digests]

\* What is kept of an upload: the stripping of a user-supplied buf.yaml and the
\* path filter.
GetPath(files) == [p \in Paths |-> IF p \in Accepted THEN files[p] ELSE NoFile]

\* Mutant of ListFiles: ExistingPaths is ignored, nothing is ever deleted.
ListFilesNone(tree) == {}

\* ExistingPaths: the paths of a tree except buf.yaml.
ListFiles(tree) == {p \in Paths \ {BufYaml} : tree[p] # NoFile}

\* Mutant of PutTree: deletions last, so that a kept path is removed.
PutTreeDeleteLast(tree, files, existing) ==
    [p \in Paths |-> IF p \in existing THEN NoFile
                     ELSE IF files[p] # NoFile THEN files[p] ELSE tree[p]]

\* The tree PutFiles builds on its parent's: deletions first, then the files.
PutTree(tree, files, existing) ==
    [p \in Paths |-> IF files[p] # NoFile THEN files[p]
                     ELSE IF p \in existing THEN NoFile ELSE tree[p]]

InitialTree == [p \in Paths |-> CASE p = Readme -> Empty
                                  [] p = BufYaml -> Settings
                                  [] OTHER -> NoFile]

WorkItem == [module: Modules, files: Files, existing: SUBSET Paths,
             prev: Nat, expected: Nat]

\* GetCommitByOwnerModule: the row inserted last.
LatestHash(m) == IF rows[m] = <<>> THEN NoHash ELSE rows[m][Len(rows[m])].hash

\* GetCommitByDigest, as the set of matching rows.
RowsWithDigest(m, d) == {i \in DOMAIN rows[m] : rows[m][i].digest = d}

RecordedHashes(m) == {rows[m][i].hash : i \in DOMAIN rows[m]}

Item(u) == work[u][idx[u]]

InFlight(u) == pc[u] \notin {"idle", "done"}

-----------------------------------------------------------------------------
(* Phase 1: read and prepare every content. *)

Init ==
    /\ git = [m \in Modules |-> [objs |-> <<[parent |-> NoHash, tree |-> InitialTree]>>,
                                 head |-> 1]]
    /\ rows = [m \in Modules |-> <<[hash |-> 1, digest |-> NoDigest, base |-> NoHash,
                                    ci |-> FALSE, jobs |-> FALSE]>>]
    /\ oplog = [u \in Uploads |-> <<>>]
    /\ notices = {}
    /\ pc = [u \in Uploads |-> "idle"]
    /\ req = [u \in Uploads |-> <<>>]
    /\ idx = [u \in Uploads |-> 1]
    /\ prev = [u \in Uploads |-> NoHash]
    /\ head = [u \in Uploads |-> NoHash]
    /\ work = [u \in Uploads |-> <<>>]
    /\ commit = [u \in Uploads |-> NoHash]
    /\ dedup = [u \in Uploads |-> {}]
    /\ landed = [u \in Uploads |-> {}]
    /\ resp = [u \in Uploads |-> "none"]
    /\ faults = 0

\* The request arrives and passes the path, size and permission checks.
Begin(u) ==
    /\ pc[u] = "idle"
    /\ \E r \in Requests : req' = [req EXCEPT ![u] = r]
    /\ pc' = [pc EXCEPT ![u] = "latest"]
    /\ UNCHANGED <<stores, oplog, idx, prev, head, work, commit, dedup, landed,
                   resp, faults>>

\* Phase 1 returns an error: a failed check, a lint or breaking-change
\* violation, or a store that cannot be read.  Nothing was written.
Refuse(u) ==
    /\ pc[u] \in {"latest", "head", "prepare"}
    /\ pc' = [pc EXCEPT ![u] = "done"]
    /\ resp' = [resp EXCEPT ![u] = "error"]
    /\ UNCHANGED <<stores, local, oplog, idx, landed, faults>>

\* previousHead: the module's latest commit row.
ReadLatest(u) ==
    /\ pc[u] = "latest"
    /\ prev' = [prev EXCEPT ![u] = LatestHash(req[u][idx[u]].module)]
    /\ pc' = [pc EXCEPT ![u] = "head"]
    /\ UNCHANGED <<stores, oplog, req, idx, head, work, commit, dedup, landed,
                   resp, faults>>

\* expectedHead: the branch head, read from git.
ReadHead(u) ==
    /\ pc[u] = "head"
    /\ head' = [head EXCEPT ![u] = git[req[u][idx[u]].module].head]
    /\ pc' = [pc EXCEPT ![u] = "prepare"]
    /\ UNCHANGED <<stores, oplog, req, idx, prev, work, commit, dedup, landed,
                   resp, faults>>

\* After a content or a work item: the next one of the list, from step, or what
\* comes after the list.
ContinueWith(u, list, step, after) ==
    IF idx[u] < Len(list)
    THEN /\ idx' = [idx EXCEPT ![u] = idx[u] + 1]
         /\ pc' = [pc EXCEPT ![u] = step]
         /\ resp' = resp
    ELSE /\ idx' = [idx EXCEPT ![u] = 1]
         /\ pc' = [pc EXCEPT ![u] = after]
         /\ resp' = IF after = "done" THEN [resp EXCEPT ![u] = "ok"] ELSE resp

\* List the previous commit's files, filter and digest the upload, look the
\* digest up: a known digest is answered with its row, another one becomes a
\* work item.
Prepare(u) ==
    LET c == req[u][idx[u]]
        m == c.module
        files == GetPath(c.files)
        known == RowsWithDigest(m, DigestFiles(files))
        existing == IF prev[u] = NoHash THEN {}
                    ELSE ListFiles(git[m].objs[prev[u]].tree)
        w == [module |-> m, files |-> files, existing |-> existing,
              prev |-> prev[u], expected |-> head[u]]
    IN  /\ pc[u] = "prepare"
        /\ \/ /\ known # {}
              /\ \E i \in known :
                    dedup' = [dedup EXCEPT ![u] = @ \cup
                                {[module |-> m, hash |-> rows[m][i].hash,
                                  digest |-> rows[m][i].digest]}]
              /\ work' = work
           \/ /\ known = {}
              /\ work' = [work EXCEPT ![u] = Append(@, w)]
              /\ dedup' = dedup
        /\ ContinueWith(u, req[u], "latest", IF work'[u] = <<>> THEN "done" ELSE "log")
        /\ UNCHANGED <<stores, oplog, req, prev, head, commit, landed, faults>>

-----------------------------------------------------------------------------
(* Phase 2: write every work item. *)

\* CreatePending.  Its error is dropped; the entry is then never updated.
LogPending(u) ==
    /\ pc[u] = "log"
    /\ \E status \in {"pending", "absent"} :
          oplog' = [oplog EXCEPT ![u] = Append(@, [status |-> status, hash |-> NoHash])]
    /\ pc' = [pc EXCEPT ![u] = "put"]
    /\ UNCHANGED <<stores, local, idx, landed, resp, faults>>

\* checkExpectedHead
ExpectedHeadHolds(u) == Item(u).expected = git[Item(u).module].head

\* PutFiles writes a commit on top of the branch head and moves the branch.
PutFiles(u) ==
    LET w == Item(u)
        g == git[w.module]
        c == [parent |-> g.head,
              tree |-> PutTree(g.objs[g.head].tree, w.files, w.existing)]
        hash == Len(g.objs) + 1
    IN  /\ pc[u] = "put"
        /\ ExpectedHeadHolds(u)
        /\ git' = [git EXCEPT ![w.module] = [objs |-> Append(g.objs, c), head |-> hash]]
        /\ commit' = [commit EXCEPT ![u] = hash]
        /\ pc' = [pc EXCEPT ![u] = "tx"]
        /\ UNCHANGED <<rows, notices, oplog, req, idx, prev, head, work, dedup,
                       landed, resp, faults>>

\* The response to a failure: bare, or naming the commits that already landed.
partialUploadError(u) == IF landed[u] = {} THEN "error" ELSE "partial"

\* ErrRefMoved: the branch is not where the upload saw it.
PutRefMoved(u) ==
    /\ pc[u] = "put"
    /\ ~ExpectedHeadHolds(u)
    /\ resp' = [resp EXCEPT ![u] = "aborted"]
    /\ pc' = [pc EXCEPT ![u] = "logfailed"]
    /\ UNCHANGED <<stores, local, oplog, idx, landed, faults>>

\* Any other error of PutFiles: the branch has not moved.
PutError(u) ==
    /\ pc[u] = "put"
    /\ resp' = [resp EXCEPT ![u] = partialUploadError(u)]
    /\ pc' = [pc EXCEPT ![u] = "logfailed"]
    /\ UNCHANGED <<stores, local, oplog, idx, landed, faults>>

\* The unique constraint on (module_id, digest_value).
DigestTaken(u) == RowsWithDigest(Item(u).module, DigestFiles(Item(u).files)) # {}

\* The transaction commits: commit row, CI run and SDK jobs together.
RecordCommit(u) ==
    LET w == Item(u)
        d == DigestFiles(w.files)
    IN  /\ pc[u] = "tx"
        /\ ~DigestTaken(u)
        /\ rows' = [rows EXCEPT ![w.module] = Append(@,
                       [hash |-> commit[u], digest |-> d, base |-> w.prev,
                        ci |-> LintEnabled, jobs |-> SdkEnabled])]
        /\ landed' = [landed EXCEPT ![u] = @ \cup
                       {[module |-> w.module, hash |-> commit[u], digest |-> d]}]
        /\ pc' = [pc EXCEPT ![u] = "logcompleted"]
        /\ UNCHANGED <<git, notices, oplog, local, idx, resp, faults>>

\* Mutant of InsertFails: the callback's error is dropped.
InsertFailsUnnoticed(u) ==
    /\ pc[u] = "tx"
    /\ pc' = [pc EXCEPT ![u] = "logcompleted"]
    /\ UNCHANGED <<stores, local, oplog, idx, landed, resp, faults>>

\* An insert of the transaction fails, on the constraint or for another reason;
\* the callback rolls git back before it returns.
InsertFails(u) ==
    /\ pc[u] = "tx"
    /\ pc' = [pc EXCEPT ![u] = "rollback"]
    /\ UNCHANGED <<stores, local, oplog, idx, landed, resp, faults>>

\* The transaction cannot begin, or its commit fails: the callback's rollback
\* is not reached.
TxFails(u) ==
    /\ pc[u] = "tx"
    /\ faults < MaxFaults
    /\ faults' = faults + 1
    /\ resp' = [resp EXCEPT ![u] = partialUploadError(u)]
    /\ pc' = [pc EXCEPT ![u] = "logfailed"]
    /\ UNCHANGED <<stores, local, oplog, idx, landed>>

\* Mutant of RollbackHead: the head is not compared first.
RollbackHeadForced(u) ==
    IF Item(u).prev # NoHash THEN Item(u).prev ELSE git[Item(u).module].head

\* The branch after RollbackCommit(commitID, previousHead).
RollbackHead(u) ==
    LET h == git[Item(u).module].head
    IN  IF Item(u).prev # NoHash /\ h = commit[u] THEN Item(u).prev ELSE h

RollbackCommit(u) ==
    /\ pc[u] = "rollback"
    /\ git' = [git EXCEPT ![Item(u).module].head = RollbackHead(u)]
    /\ resp' = [resp EXCEPT ![u] = partialUploadError(u)]
    /\ pc' = [pc EXCEPT ![u] = "logfailed"]
    /\ UNCHANGED <<rows, notices, oplog, local, idx, landed, faults>>

\* RollbackCommit itself fails; the error is only logged.
RollbackFails(u) ==
    /\ pc[u] = "rollback"
    /\ faults < MaxFaults
    /\ faults' = faults + 1
    /\ resp' = [resp EXCEPT ![u] = partialUploadError(u)]
    /\ pc' = [pc EXCEPT ![u] = "logfailed"]
    /\ UNCHANGED <<stores, local, oplog, idx, landed>>

\* UpdateStatus of the entry in progress; its error is dropped.
UpdateStatus(u, status, hash) ==
    LET n == Len(oplog[u])
    IN  \/ /\ oplog[u][n].status = "pending"
           /\ oplog' = [oplog EXCEPT ![u][n] = [status |-> status, hash |-> hash]]
        \/ oplog' = oplog

LogFailed(u) ==
    /\ pc[u] = "logfailed"
    /\ UpdateStatus(u, "failed", NoHash)
    /\ pc' = [pc EXCEPT ![u] = "done"]
    /\ UNCHANGED <<stores, local, idx, landed, resp, faults>>

\* The entry is completed, the members are notified (best effort), and the next
\* work item or the response follows.
LogCompleted(u) ==
    /\ pc[u] = "logcompleted"
    /\ UpdateStatus(u, "completed", commit[u])
    /\ \E sent \in BOOLEAN :
          notices' = IF sent THEN notices \cup {<<Item(u).module, commit[u]>>} ELSE notices
    /\ ContinueWith(u, work[u], "log", "done")
    /\ UNCHANGED <<git, rows, local, landed, faults>>

\* The process dies: every request in flight is lost.
Crash ==
    /\ faults < MaxFaults
    /\ \E u \in Uploads : InFlight(u)
    /\ faults' = faults + 1
    /\ pc' = [u \in Uploads |-> IF InFlight(u) THEN "done" ELSE pc[u]]
    /\ resp' = [u \in Uploads |-> IF InFlight(u) THEN "lost" ELSE resp[u]]
    /\ UNCHANGED <<stores, local, oplog, idx, landed>>

\* Every request was answered.
Finished ==
    /\ \A u \in Uploads : pc[u] = "done"
    /\ UNCHANGED vars

\* The handler of a request that has arrived.
Handle(u) ==
    \/ Refuse(u) \/ ReadLatest(u) \/ ReadHead(u) \/ Prepare(u)
    \/ LogPending(u) \/ PutFiles(u) \/ PutRefMoved(u) \/ PutError(u)
    \/ RecordCommit(u) \/ InsertFails(u) \/ TxFails(u)
    \/ RollbackCommit(u) \/ RollbackFails(u) \/ LogFailed(u) \/ LogCompleted(u)

Next == (\E u \in Uploads : Begin(u) \/ Handle(u)) \/ Crash \/ Finished

Spec == Init /\ [][Next]_vars

\* The server keeps running every handler: each request has a goroutine of its
\* own, and no step of the handler waits for another request for ever.
FairSpec == Spec /\ \A u \in Uploads : WF_vars(Handle(u))

-----------------------------------------------------------------------------
(* What holds. *)

LogEntry == [status: {"pending", "absent", "completed", "failed"}, hash: Nat]

Steps == {"idle", "latest", "head", "prepare", "log", "put", "tx", "rollback",
          "logfailed", "logcompleted", "done"}

\* The variables have the types their comments give them.
TypeOK ==
    /\ git \in [Modules -> [objs: Seq(Commit), head: Nat]]
    /\ rows \in [Modules -> Seq(Row)]
    /\ oplog \in [Uploads -> Seq(LogEntry)]
    /\ notices \subseteq (Modules \X Nat)
    /\ pc \in [Uploads -> Steps]
    /\ req \in [Uploads -> Requests \cup {<<>>}]
    /\ idx \in [Uploads -> Nat \ {0}]
    /\ prev \in [Uploads -> Nat]
    /\ head \in [Uploads -> Nat]
    /\ work \in [Uploads -> Seq(WorkItem)]
    /\ commit \in [Uploads -> Nat]
    /\ dedup \in [Uploads -> SUBSET Ref]
    /\ landed \in [Uploads -> SUBSET Ref]
    /\ resp \in [Uploads -> {"none", "ok", "error", "partial", "aborted", "lost"}]
    /\ faults \in Nat

StoredTree(m, i) == git[m].objs[rows[m][i].hash].tree

\* Whatever uploads overlap, fail or are rolled back, a recorded commit exists
\* in git and its tree holds every file its digest was computed over, under a
\* buf.yaml that is the registry's own: no push loses a file it was given or
\* replaces the registry's settings (upload.go:240-246, operation.go:104-135).
UploadedFilesStored ==
    \A m \in Modules : \A i \in DOMAIN rows[m] :
        /\ rows[m][i].hash \in DOMAIN git[m].objs
        /\ StoredTree(m, i)[BufYaml] = Settings
        /\ rows[m][i].digest # NoDigest =>
              \A p \in Paths : rows[m][i].digest.of[p] # NoFile =>
                  StoredTree(m, i)[p] = rows[m][i].digest.of[p]

\* A commit whose parent in git is the commit that the upload took the existing
\* paths from stores exactly the digested files and buf.yaml: files that the
\* push dropped are gone (upload.go:234-239).
ExactUnlessRaced ==
    \A m \in Modules : \A i \in DOMAIN rows[m] :
        /\ rows[m][i].digest # NoDigest
        /\ rows[m][i].base = git[m].objs[rows[m][i].hash].parent
        => \A p \in Paths \ {BufYaml} : StoredTree(m, i)[p] = rows[m][i].digest.of[p]

\* A module never has two commits with one digest, however many identical
\* pushes overlap between the lookup and the insert (upload.go:303-312).
DigestUnique ==
    \A m \in Modules : \A i, j \in DOMAIN rows[m] :
        rows[m][i].digest = rows[m][j].digest => i = j

\* A successful response means that every content of the request is recorded
\* under its digest, by this upload or by an earlier one (upload.go:528-541).
SuccessIsDurable ==
    \A u \in Uploads : resp[u] = "ok" =>
        \A k \in DOMAIN req[u] :
            RowsWithDigest(req[u][k].module, DigestFiles(GetPath(req[u][k].files))) # {}

\* As long as the process does not die and no transaction fails outside its
\* callback, a branch head without a commit row belongs to an upload that will
\* still record it or roll it back (upload.go:434-506).
HeadAccounted ==
    faults = 0 =>
        \A m \in Modules :
            \/ git[m].head \in RecordedHashes(m)
            \/ \E u \in Uploads : /\ pc[u] \in {"tx", "rollback"}
                                  /\ Item(u).module = m
                                  /\ commit[u] = git[m].head

\* What the registry reports is recorded: completed log entries, notifications,
\* commits named in a response (upload.go:515-530, 550-564).
ReportsAreRecorded ==
    /\ \A n \in notices : n[2] \in RecordedHashes(n[1])
    /\ \A u \in Uploads :
          /\ \A r \in landed[u] \cup dedup[u] :
                \E i \in DOMAIN rows[r.module] : /\ rows[r.module][i].hash = r.hash
                                                /\ rows[r.module][i].digest = r.digest
          /\ \A k \in DOMAIN oplog[u] : oplog[u][k].status = "completed" =>
                oplog[u][k].hash \in RecordedHashes(work[u][k].module)

\* A branch moves in two ways only: to a new commit on top of its head, or, when
\* its head is the commit of an upload that rolls back, to a recorded commit
\* (operation.go:171-186, 297-316).
HeadMoves ==
    [][\A m \in Modules : git'[m].head # git[m].head =>
          \/ /\ git'[m].head = Len(git[m].objs) + 1
             /\ git'[m].objs[git'[m].head].parent = git[m].head
          \/ /\ git'[m].head \in RecordedHashes(m)
             /\ \E u \in Uploads : /\ pc[u] = "rollback"
                                   /\ Item(u).module = m
                                   /\ commit[u] = git[m].head]_vars

\* Every request that has arrived is answered (upload.go:98-542).
Answered == \A u \in Uploads : InFlight(u) ~> pc[u] = "done"

-----------------------------------------------------------------------------
(* What the repository says and the code does not do. *)

\* The commits of the branch, from its head back.
OnBranch(m) ==
    LET objs == git[m].objs
        Back[h \in 0..Len(objs)] == IF h = NoHash THEN {} ELSE {h} \cup Back[objs[h].parent]
    IN  Back[git[m].head]

\* upload.go:234-236: treating the upload as authoritative is "what makes the
\* digest describe what is actually stored".
StoredTreeIsUpload ==
    \A m \in Modules : \A i \in DOMAIN rows[m] : rows[m][i].digest # NoDigest =>
        \A p \in Paths \ {BufYaml} : StoredTree(m, i)[p] = rows[m][i].digest.of[p]

\* operation.go:297-299: the head comparison is there so that a failed
\* transaction of one push does not "revert a different push that had succeeded
\* in between".
RecordedOnBranch == \A m \in Modules : RecordedHashes(m) \subseteq OnBranch(m)

\* upload.go:566: "rollback undoes a git write whose database transaction
\* failed."
FailedWriteUndone ==
    \A u \in Uploads :
        pc[u] = "done" /\ resp[u] \in {"error", "partial"} /\ commit[u] # NoHash =>
            \A m \in Modules : commit[u] \in OnBranch(m) => commit[u] \in RecordedHashes(m)

\* upload.go:361-363: a failure part-way through "no longer returns a bare error
\* that reads as "nothing happened"; it names the commits that did land".
ErrorNamesLanded ==
    \A u \in Uploads : resp[u] \in {"error", "aborted"} => landed[u] = {}

\* gitalyoplog.go:6-7: "A compensation pass uses this table to reconcile stale
\* 'pending' rows left by a crash".
PendingReconciled ==
    \A u \in Uploads :
        LET Stale == resp[u] = "lost" /\ \E k \in DOMAIN oplog[u] :
                         oplog[u][k].status = "pending"
        IN  Stale ~> ~Stale

=============================================================================
