----------------------------- MODULE Artifacts -----------------------------
(***************************************************************************)
(* Generated SDKs in the artifact store: what process (sdk/worker) does    *)
(* with a job after it has claimed it, on the backends disk, s3 and gitaly *)
(* (sdk/storage), the last over Gitaly or over go-git.                     *)
(*                                                                         *)
(* A push makes a job for every configured plugin; the files of all        *)
(* plugins of the language go are stored under one prefix per commit.  A   *)
(* file is absent, whole, or the part that a copy has written so far.  The *)
(* queue is in SdkJobs; here a job that is running and has no worker, or a *)
(* slow one, becomes pending again.                                        *)
(***************************************************************************)
EXTENDS Naturals, FiniteSets

CONSTANTS
    Versions,    \* commits with SDK jobs
    Plugins,     \* plugins that generate Go
    Configured,  \* the sets of plugins that may be configured
    Output,      \* plugin -> the files it generates
    NoFile,      \* no file
    Backends,    \* configurations of the artifact store
    MaxTasks,    \* bound on tasks
    MaxFaults    \* bound on crashes, slow tasks and failing writes

VARIABLES
    backend,     \* configuration of the artifact store
    generators,  \* commit -> the plugins it has jobs for
    jobs,        \* commit, plugin -> status of its job
    store,       \* commit, file -> content
    tip,         \* commits on the branch of the artifact repository
    tasks,       \* running tasks
    tried,       \* tasks so far
    faults,      \* faults so far
    torn         \* commits for which a copy to disk was cut short or overlapped

artifacts == <<backend, generators, jobs, store, tip, tasks, tried, faults, torn>>

Files == UNION {Output[p] : p \in Plugins}

ASSUME ArtifactsAssumption == NoFile \notin Files

Present(c) == {f \in Files : store[c][f] # "none"}

\* A commit with a succeeded job for Go.
HasSdk(c) == c \in Versions /\ \E p \in Plugins : jobs[c][p] = "succeeded"

ArtifactsInit ==
    /\ backend \in Backends
    /\ generators \in [Versions -> Configured]
    /\ jobs = [c \in Versions |-> [p \in Plugins |-> "pending"]]
    /\ store = [c \in Versions |-> [f \in Files |-> "none"]]
    /\ tip = 0
    /\ tasks = {}
    /\ tried = 0
    /\ faults = 0
    /\ torn = {}

Fault == faults < MaxFaults /\ faults' = faults + 1

NoFault == faults' = faults

\* Task t goes on as u.
Goes(t, u) == tasks' = (tasks \ {t}) \cup {u}

Tasks(c, p) == {t \in tasks : t.commit = c /\ t.plugin = p}

Claim(c, p) ==
    /\ p \in generators[c]
    /\ jobs[c][p] = "pending"
    /\ tried < MaxTasks
    /\ tried' = tried + 1
    /\ jobs' = [jobs EXCEPT ![c][p] = "running"]
    /\ tasks' = tasks \cup {[no |-> tried', commit |-> c, plugin |-> p, step |-> "generate",
                             todo |-> {}, file |-> NoFile, existing |-> {}, head |-> 0,
                             slow |-> FALSE]}
    /\ UNCHANGED <<store, tip, torn>> /\ NoFault

\* The time for a task's status writes passes.
Slow(t) ==
    /\ ~t.slow
    /\ Fault
    /\ Goes(t, [t EXCEPT !.slow = TRUE])
    /\ UNCHANGED <<jobs, store, tip, tried, torn>>

\* RecoverStaleJobs, after a longer time.
Recover(c, p) ==
    /\ jobs[c][p] = "running"
    /\ \A t \in Tasks(c, p) : t.slow
    /\ jobs' = [jobs EXCEPT ![c][p] = "pending"]
    /\ torn' = IF Tasks(c, p) = {} THEN torn ELSE torn \cup {c}
    /\ UNCHANGED <<store, tip, tasks, tried>> /\ NoFault

\* The process ends.
Crash(t) ==
    /\ Fault
    /\ tasks' = tasks \ {t}
    /\ torn' = IF t.step = "copy" THEN torn \cup {t.commit} ELSE torn
    /\ UNCHANGED <<jobs, store, tip, tried>>

\* MarkSucceeded and MarkFailed, whose errors are dropped.
End(t, status) ==
    /\ tasks' = tasks \ {t}
    /\ jobs' = IF t.slow THEN jobs ELSE [jobs EXCEPT ![t.commit][t.plugin] = status]

\* The blobs of the commit are read and the plugin is run, or either fails.
Generate(t) ==
    /\ t.step = "generate"
    /\ \/ NoFault /\ Goes(t, [t EXCEPT !.step = "upload", !.todo = Output[t.plugin]]) /\ jobs' = jobs
       \/ Fault /\ End(t, "failed")
    /\ UNCHANGED <<store, tip, tried, torn>>

\* Mutant of Skip: an object that is there is taken for the whole upload.
SkipRest(t, f) == Goes(t, [t EXCEPT !.todo = {}])

\* An existing file is skipped.
Skip(t, f) == Goes(t, [t EXCEPT !.todo = @ \ {f}])

\* Upload, disk and s3: the next file that is not there yet.
Stat(t, f) ==
    /\ backend \in {"disk", "s3"}
    /\ t.step = "upload"
    /\ f \in t.todo
    /\ IF store[t.commit][f] # "none" THEN Skip(t, f)
       ELSE Goes(t, [t EXCEPT !.todo = @ \ {f}, !.file = f, !.step = "write"])
    /\ UNCHANGED <<jobs, store, tip, tried, torn>> /\ NoFault

\* disk: the file is created, empty.
Create(t) ==
    /\ backend = "disk"
    /\ t.step = "write"
    /\ store' = [store EXCEPT ![t.commit][t.file] = "part"]
    /\ Goes(t, [t EXCEPT !.step = "copy"])
    /\ UNCHANGED <<jobs, tip, tried, torn>> /\ NoFault

\* disk: the copy, which may fail half way.
Copy(t) ==
    /\ t.step = "copy"
    /\ \/ /\ store' = [store EXCEPT ![t.commit][t.file] = "whole"]
          /\ Goes(t, [t EXCEPT !.step = "upload", !.file = NoFile])
          /\ UNCHANGED <<jobs, torn>> /\ NoFault
       \/ /\ Fault
          /\ End(t, "failed")
          /\ torn' = torn \cup {t.commit}
          /\ store' = store
    /\ UNCHANGED <<tip, tried>>

\* s3: the object appears whole, or not at all.
PutObject(t) ==
    /\ backend = "s3"
    /\ t.step = "write"
    /\ \/ /\ store' = [store EXCEPT ![t.commit][t.file] = "whole"]
          /\ Goes(t, [t EXCEPT !.step = "upload", !.file = NoFile])
          /\ jobs' = jobs /\ NoFault
       \/ /\ Fault
          /\ End(t, "failed")
          /\ store' = store
    /\ UNCHANGED <<tip, tried, torn>>

\* gitaly: the paths under the prefix.  go-git takes the name of the branch for
\* a hash and finds no commit; what Gitaly answers before there is a branch is
\* not mapped to ErrNotFound, so an error of its fails the job.
ListExisting(t) ==
    /\ backend \in {"gitaly", "gitaly over go-git"}
    /\ t.step = "upload"
    /\ \/ /\ jobs' = jobs
          /\ Goes(t, [t EXCEPT !.step = "listed",
                               !.existing = IF backend = "gitaly" THEN Present(t.commit) ELSE {}])
       \/ backend = "gitaly" /\ tip = 0 /\ End(t, "failed")
    /\ UNCHANGED <<store, tip, tried, torn>> /\ NoFault

\* gitaly: the head of the branch.
ReadHead(t) ==
    /\ t.step = "listed"
    /\ Goes(t, [t EXCEPT !.step = "based", !.head = tip])
    /\ UNCHANGED <<jobs, store, tip, tried, torn>> /\ NoFault

\* gitaly: PutFiles replaces the existing paths by the new ones, if the head is
\* still the one read and, on Gitaly, no path is new and there at once.
PutFiles(t) ==
    /\ t.step = "based"
    /\ LET new == Output[t.plugin]
           moved == t.head # tip
           clash == backend = "gitaly" /\ \E f \in new \ t.existing : f \in Present(t.commit)
       IN  IF moved \/ clash
           THEN End(t, "failed") /\ UNCHANGED <<store, tip>>
           ELSE /\ store' = [store EXCEPT ![t.commit] =
                               [f \in Files |-> IF f \in new THEN "whole"
                                                ELSE IF f \in t.existing THEN "none" ELSE @[f]]]
                /\ tip' = tip + 1
                /\ Goes(t, [t EXCEPT !.step = "mark"])
                /\ jobs' = jobs
    /\ UNCHANGED <<tried, torn>> /\ NoFault

\* disk and s3: every file is there.
Uploaded(t) ==
    /\ backend \in {"disk", "s3"}
    /\ t.step = "upload"
    /\ t.todo = {}
    /\ Goes(t, [t EXCEPT !.step = "mark"])
    /\ UNCHANGED <<jobs, store, tip, tried, torn>> /\ NoFault

Mark(t) ==
    /\ t.step = "mark"
    /\ End(t, "succeeded")
    /\ UNCHANGED <<store, tip, tried, torn>> /\ NoFault

Work(t) ==
    \/ Slow(t) \/ Crash(t) \/ Generate(t)
    \/ \E f \in Files : Stat(t, f)
    \/ Create(t) \/ Copy(t) \/ PutObject(t)
    \/ ListExisting(t) \/ ReadHead(t) \/ PutFiles(t)
    \/ Uploaded(t) \/ Mark(t)

\* The workers, when generation is configured: each poll claims pending jobs of
\* the recorded commits.
Run(recorded) ==
    \/ \E c \in recorded, p \in Plugins : (backend # "none" /\ Claim(c, p)) \/ Recover(c, p)
    \/ \E t \in tasks : Work(t)

ArtifactsNext == Run(Versions) /\ UNCHANGED <<backend, generators>>

ArtifactsSpec == ArtifactsInit /\ [][ArtifactsNext]_artifacts

-----------------------------------------------------------------------------

\* A job recorded as succeeded has every file it generated in the store, whole,
\* whatever crashed, was slow or ran twice before: on s3 always, on disk when no
\* copy was cut short or overlapped, on gitaly when no other plugin has a job for
\* the commit (worker.go:316-336).
SucceededIsWhole ==
    \A c \in Versions, p \in Plugins :
        /\ jobs[c][p] = "succeeded"
        /\ backend = "disk" => c \notin torn
        /\ backend = "gitaly" => generators[c] = {p}
        => \A f \in Output[p] : store[c][f] = "whole"

\* Not kept on disk and on gitaly.  worker.go:318-319: "Upload from disk to S3,
\* skipping already-present objects (idempotent).  On retry after a partial
\* failure, only missing files are uploaded."  On disk a file that a copy has cut
\* short is not missing; on Gitaly the upload of one plugin removes what another
\* has stored.
NoTruncatedArtifact ==
    \A c \in Versions, p \in Plugins :
        jobs[c][p] = "succeeded" => \A f \in Output[p] : store[c][f] = "whole"
=============================================================================
