------------------------------ MODULE Lifecycle ------------------------------
(***************************************************************************)
(* The life of a server process: configuration is validated, the SQLite    *)
(* file is brought to the latest schema version, the git root is checked,  *)
(* the handlers are wired, requests are served, and a signal drains them   *)
(* before the storage is closed.                                           *)
(*                                                                         *)
(* Several processes may use one database file (a restart that overlaps    *)
(* its predecessor's drain), and a process may die between any two         *)
(* statements.  Every SQL statement of the migration runner is a step of   *)
(* its own, except the body of a migration: it shares one transaction with *)
(* the row that records it.                                                *)
(***************************************************************************)
EXTENDS Integers, FiniteSets

CONSTANTS
    Procs,       \* server processes on one host, sharing a port and a file
    Latest,      \* the last of the embedded migrations, numbered from 1
    Replayable,  \* versions whose body succeeds on a schema that has it
    NoEffect,    \* those of them that then change nothing
    Configs,     \* configuration files
    Roots,       \* what the git root may hold of the repositories
    Overlap,     \* may a process start while another one is starting?
    MaxFaults,   \* crashes and failed statements
    MaxSignals   \* SIGTERM deliveries

\* The versions a database from before the migration runner already has.
LegacyBaseline == 2

Versions == 1..Latest

ASSUME VersionsAssumption ==
    /\ Latest \in Nat /\ Latest > LegacyBaseline
    /\ NoEffect \subseteq Replayable /\ Replayable \subseteq Versions

VARIABLES
    cfg,         \* the configuration file
    root,        \* what the git root holds: "all", "some", "none", "unreadable"
    origin,      \* what the database file was before the first start
    db,          \* the database file
    proc,        \* the processes
    faults, signals

vars == <<cfg, root, origin, db, proc, faults, signals>>

Starting == {"inspect", "create", "users", "stamp", "read", "apply", "git", "wire", "run"}
Running == {"serve", "drain", "drained", "flush"}

\* A process that is not running.  fk is the foreign_keys pragma of its only
\* connection: the DSN switches it on; "refused" is off because the statement
\* that switches it on again failed.
Down == [pc |-> "down", had |-> FALSE, next |-> 1, applied |-> {}, fk |-> "on",
         cancelled |-> FALSE, git |-> FALSE, worker |-> "off", diag |-> FALSE,
         reqs |-> 0, expired |-> FALSE]

\* migrations recorded and schema changes present; orphans: why rows refer to a
\* parent that is not there, the state of enforcement when they were written;
\* ran: how often a body was committed.
File == [table : BOOLEAN, recorded : SUBSET Versions, schema : SUBSET Versions,
         orphans : SUBSET {"legacy", "off", "refused"}, ran : [Versions -> 0..3]]

FileWith(t, rec, sch, o) ==
    [table |-> t, recorded |-> rec, schema |-> sch, orphans |-> o,
     ran |-> [v \in Versions |-> IF v \in sch THEN 1 ELSE 0]]

Baseline == 1..LegacyBaseline

\* What an operator may point the server at: no database, one that the code
\* before the migration runner created (its foreign keys were not enforced on
\* every connection), or one an earlier release of the runner left.
Files(o) == CASE o = "fresh"   -> {FileWith(FALSE, {}, {}, {})}
              [] o = "legacy"  -> {FileWith(FALSE, {}, Baseline, b) : b \in {{}, {"legacy"}}}
              [] o = "managed" -> {FileWith(TRUE, Baseline, Baseline, {})}

Init ==
    /\ cfg \in Configs
    /\ root \in Roots
    /\ origin \in {"fresh", "legacy", "managed"}
    /\ db \in Files(origin)
    /\ proc = [p \in Procs |-> Down]
    /\ faults = 0
    /\ signals = 0

----------------------------------------------------------------------------
\* Configuration.

KnownBackends(c) ==
    /\ c.database \in {"sqlite", "postgres", ""}
    /\ c.cache \in {"memory", "redis", ""}
    /\ c.git \in {"gogit", "gitaly", ""}
    /\ c.artifacts \in {"disk", "gitaly", "s3", ""}

Validate(c) ==
    /\ KnownBackends(c)
    /\ c.registryHost
    /\ c.totpKey \in {"", "aes256"}
    /\ c.database = "postgres" => c.dsn # ""
    /\ c.cache = "redis" => c.redisAddr
    /\ c.oauth # "partial"
    /\ c.proxies

UsesSQLite(c) == c.database \in {"sqlite", ""}

\* sdk.storage.type is the older name of backends.artifactStorage.
Artifacts(c) == IF c.artifacts # "" THEN c.artifacts
                ELSE IF c.sdkType # "" THEN c.sdkType ELSE "disk"

\* diagnosticAddr: an address other than loopback has to be asked for twice.
DiagnosticsAllowed(c) == c.bind = "loopback" \/ c.publicDiagnostics

----------------------------------------------------------------------------
\* Starting.

Move(p, pc) == proc' = [proc EXCEPT ![p].pc = pc]

\* A start that fails returns its error from RunE: the process exits.
Abort(p) == proc' = [proc EXCEPT ![p] = Down]

\* LoadFile, NotifyContext, telemetry.Setup and newLogger, then the database:
\* SQLite is opened and migrated, PostgreSQL only gets a pool.
Start(p) ==
    /\ proc[p].pc = "down"
    /\ Overlap \/ \A q \in Procs : proc[q].pc \notin Starting
    /\ Validate(cfg)
    /\ UsesSQLite(cfg) \/ cfg.dsn = "parses"
    /\ Move(p, IF UsesSQLite(cfg) THEN "inspect" ELSE "git")
    /\ UNCHANGED <<cfg, root, origin, db, faults, signals>>

\* ensureSchemaMigrationsTable: is there a version table?
Inspect(p) ==
    /\ proc[p].pc = "inspect"
    /\ proc' = [proc EXCEPT ![p].had = db.table, ![p].pc = "create"]
    /\ UNCHANGED <<cfg, root, origin, db, faults, signals>>

\* Mutant: CREATE TABLE without IF NOT EXISTS.
CreateTableStrict(p) ==
    /\ proc[p].pc = "create"
    /\ db' = [db EXCEPT !.table = TRUE]
    /\ IF db.table THEN Abort(p) ELSE Move(p, "users")
    /\ UNCHANGED <<cfg, root, origin, faults, signals>>

CreateTable(p) ==
    /\ proc[p].pc = "create"
    /\ db' = [db EXCEPT !.table = TRUE]
    /\ Move(p, IF proc[p].had THEN "read" ELSE "users")
    /\ UNCHANGED <<cfg, root, origin, faults, signals>>

\* Migration 1 creates the users table.
InspectUsers(p) ==
    /\ proc[p].pc = "users"
    /\ proc' = [proc EXCEPT ![p].pc = IF 1 \in db.schema THEN "stamp" ELSE "read",
                            ![p].next = 1]
    /\ UNCHANGED <<cfg, root, origin, db, faults, signals>>

\* Mutant: the stamping loop runs one version too far.
StampOneMore(p) ==
    LET v == proc[p].next IN
    /\ proc[p].pc = "stamp"
    /\ db' = [db EXCEPT !.recorded = @ \cup {v}]
    /\ proc' = [proc EXCEPT ![p].next = v + 1,
                            ![p].pc = IF v > LegacyBaseline THEN "read" ELSE "stamp"]
    /\ UNCHANGED <<cfg, root, origin, faults, signals>>

StampLegacyBaseline(p) ==
    LET v == proc[p].next IN
    /\ proc[p].pc = "stamp"
    /\ db' = [db EXCEPT !.recorded = @ \cup {v}]
    /\ proc' = [proc EXCEPT ![p].next = v + 1,
                            ![p].pc = IF v = LegacyBaseline THEN "read" ELSE "stamp"]
    /\ UNCHANGED <<cfg, root, origin, faults, signals>>

AppliedVersions(p) ==
    /\ proc[p].pc = "read"
    /\ proc' = [proc EXCEPT ![p].applied = db.recorded, ![p].pc = "apply"]
    /\ UNCHANGED <<cfg, root, origin, db, faults, signals>>

Pending(p) == Versions \ proc[p].applied

Least(S) == CHOOSE v \in S : \A w \in S : v <= w

\* A body builds on the ones before it, and most of them fail on a schema that
\* already has their columns.
BodyRuns(v) ==
    /\ \A w \in 1..(v - 1) : w \in db.schema
    /\ v \in db.schema => v \in Replayable

\* The transaction of one migration commits: the body ran, foreign_key_check
\* found nothing, and the primary key accepted the version row.
Commits(v) == BodyRuns(v) /\ db.orphans = {} /\ v \notin db.recorded

\* Mutant: the version row is written after the transaction of the body.
MigrateThenRecord(p) ==
    LET v == Least(Pending(p)) IN
    /\ proc[p].pc = "apply"
    /\ Pending(p) # {}
    /\ IF Commits(v)
       THEN \E recorded \in BOOLEAN :
            /\ db' = [db EXCEPT !.schema = @ \cup {v}, !.ran[v] = @ + 1,
                                !.recorded = IF recorded THEN @ \cup {v} ELSE @]
            /\ IF recorded THEN proc' = [proc EXCEPT ![p].applied = @ \cup {v}]
               ELSE Abort(p)
       ELSE Abort(p) /\ UNCHANGED db
    /\ UNCHANGED <<cfg, root, origin, faults, signals>>

\* Mutant: enforcement is not switched on again.
MigrateLeavesOff(p) ==
    LET v == Least(Pending(p)) IN
    /\ proc[p].pc = "apply"
    /\ Pending(p) # {}
    /\ IF Commits(v)
       THEN /\ db' = [db EXCEPT !.schema = @ \cup {v}, !.recorded = @ \cup {v},
                                !.ran[v] = @ + 1]
            /\ proc' = [proc EXCEPT ![p].applied = @ \cup {v}, ![p].fk = "off"]
       ELSE Abort(p) /\ UNCHANGED db
    /\ UNCHANGED <<cfg, root, origin, faults, signals>>

\* applySQLiteMigration switches foreign_keys off on the connection, runs the
\* transaction and, whatever came of it, switches them on again; it does not look
\* whether that failed.
Migrate(p) ==
    LET v == Least(Pending(p)) IN
    /\ proc[p].pc = "apply"
    /\ Pending(p) # {}
    /\ IF Commits(v)
       THEN /\ db' = [db EXCEPT !.schema = @ \cup {v}, !.recorded = @ \cup {v},
                                !.ran[v] = @ + 1]
            /\ \E fk \in {"on", "refused"} :
                  /\ proc' = [proc EXCEPT ![p].applied = @ \cup {v}, ![p].fk = fk]
                  /\ faults' = faults + IF fk = "on" THEN 0 ELSE 1
                  /\ faults' <= MaxFaults
       ELSE Abort(p) /\ UNCHANGED <<db, faults>>
    /\ UNCHANGED <<cfg, root, origin, signals>>

Migrated(p) ==
    /\ proc[p].pc = "apply"
    /\ Pending(p) = {}
    /\ Move(p, "git")
    /\ UNCHANGED <<cfg, root, origin, db, faults, signals>>

\* verifyGitStorage: only a local root is looked at, and only the absence of
\* every repository the database knows of is fatal.  A fresh database knows none.
GitRootMismatch == cfg.git # "gitaly" /\ origin # "fresh" /\ root = "none"

VerifyGit(p) ==
    /\ proc[p].pc = "git"
    /\ IF GitRootMismatch THEN Abort(p)
       ELSE proc' = [proc EXCEPT ![p].git = TRUE, ![p].pc = "wire"]
    /\ UNCHANGED <<cfg, root, origin, db, faults, signals>>

\* The rest of NewServer: cache, policy engine, artifact storage, proxies.
Wire(p) ==
    /\ proc[p].pc = "wire"
    /\ IF (cfg.cache = "redis" /\ ~cfg.redisUp) \/ (Artifacts(cfg) = "s3" /\ ~cfg.s3)
       THEN Abort(p)
       ELSE Move(p, "run")
    /\ UNCHANGED <<cfg, root, origin, db, faults, signals>>

----------------------------------------------------------------------------
\* Running.

\* The port is taken while another process on the host listens on it.
PortTaken(p) == \E q \in Procs \ {p} : proc[q].pc = "serve"

\* Run: the diagnostic listeners, the SDK worker, the HTTP listener.  A refused
\* diagnostic address cancels the context and returns before the rest starts.
\* Shutdown before ListenAndServe makes the latter return at once.
Run(p) ==
    /\ proc[p].pc = "run"
    /\ proc' = [proc EXCEPT ![p] =
         IF cfg.telemetry /\ ~DiagnosticsAllowed(cfg)
         THEN [@ EXCEPT !.cancelled = TRUE, !.pc = "drained"]
         ELSE [@ EXCEPT !.diag = cfg.telemetry,
                        !.worker = IF cfg.sdk THEN "idle" ELSE "off",
                        !.cancelled = @ \/ PortTaken(p),
                        !.pc = IF PortTaken(p) \/ proc[p].cancelled
                               THEN "drain" ELSE "serve"]]
    /\ UNCHANGED <<cfg, root, origin, db, faults, signals>>

Accept(p) ==
    /\ proc[p].pc = "serve"
    /\ proc[p].reqs = 0
    /\ proc' = [proc EXCEPT ![p].reqs = 1]
    /\ UNCHANGED <<cfg, root, origin, db, faults, signals>>

\* A request that writes a row whose parent is gone: the database refuses it
\* while foreign_keys is on.  It may end while serving, while draining, or in
\* the time left after the grace period.
Respond(p) ==
    /\ proc[p].reqs = 1
    /\ db' = [db EXCEPT !.orphans = @ \cup ({proc[p].fk} \ {"on"})]
    /\ proc' = [proc EXCEPT ![p].reqs = 0]
    /\ UNCHANGED <<cfg, root, origin, faults, signals>>

\* The worker claims a job while its context lives, and finishes what it
\* started; nothing waits for it.
WorkerClaims(p) ==
    /\ proc[p].worker = "idle" /\ ~proc[p].cancelled
    /\ proc' = [proc EXCEPT ![p].worker = "job"]
    /\ UNCHANGED <<cfg, root, origin, db, faults, signals>>

WorkerEnds(p) ==
    /\ \/ proc[p].worker = "job"
       \/ proc[p].worker = "idle" /\ proc[p].cancelled
    /\ proc' = [proc EXCEPT ![p].worker = IF proc[p].cancelled THEN "off" ELSE "idle"]
    /\ UNCHANGED <<cfg, root, origin, db, faults, signals>>

----------------------------------------------------------------------------
\* Stopping.

\* SIGINT and SIGTERM cancel the context; NewServer does not look at it.
Signal(p) ==
    /\ signals < MaxSignals
    /\ proc[p].pc \in Starting \cup {"serve"}
    /\ ~proc[p].cancelled
    /\ proc' = [proc EXCEPT ![p].cancelled = TRUE]
    /\ signals' = signals + 1
    /\ UNCHANGED <<cfg, root, origin, db, faults>>

\* Mutant: the drain is left to a goroutine nobody waits for.
BeginDrainUnawaited(p) ==
    /\ proc[p].pc = "serve" /\ proc[p].cancelled
    /\ Move(p, "drained")
    /\ UNCHANGED <<cfg, root, origin, db, faults, signals>>

\* Shutdown closes the listener first.
BeginDrain(p) ==
    /\ proc[p].pc = "serve" /\ proc[p].cancelled
    /\ Move(p, "drain")
    /\ UNCHANGED <<cfg, root, origin, db, faults, signals>>

\* Shutdown returns when no request is left, and Run stops the diagnostics.
Drained(p) ==
    /\ proc[p].pc = "drain" /\ proc[p].reqs = 0
    /\ proc' = [proc EXCEPT ![p].diag = FALSE, ![p].pc = "drained"]
    /\ UNCHANGED <<cfg, root, origin, db, faults, signals>>

\* Mutant: the drain has no deadline.
GraceIsEndless(p) == FALSE /\ UNCHANGED vars

GraceExpires(p) ==
    /\ proc[p].pc = "drain" /\ proc[p].reqs > 0
    /\ proc' = [proc EXCEPT ![p].diag = FALSE, ![p].expired = TRUE, ![p].pc = "drained"]
    /\ UNCHANGED <<cfg, root, origin, db, faults, signals>>

\* serve waits for Run before its deferred Close runs.
Close(p) ==
    /\ proc[p].pc = "drained"
    /\ proc' = [proc EXCEPT ![p].git = FALSE, ![p].pc = "flush"]
    /\ UNCHANGED <<cfg, root, origin, db, faults, signals>>

\* The telemetry flush is the last thing a process does.
Exit(p) ==
    /\ proc[p].pc = "flush"
    /\ proc' = [proc EXCEPT ![p] = Down]
    /\ UNCHANGED <<cfg, root, origin, db, faults, signals>>

\* The process is killed, or a statement of its start fails.  A transaction
\* that was open is rolled back.
Crash(p) ==
    /\ faults < MaxFaults
    /\ proc[p].pc # "down"
    /\ proc' = [proc EXCEPT ![p] = Down]
    /\ faults' = faults + 1
    /\ UNCHANGED <<cfg, root, origin, db, signals>>

----------------------------------------------------------------------------
Startup(p) ==
    \/ Start(p) \/ Inspect(p) \/ CreateTable(p) \/ InspectUsers(p)
    \/ StampLegacyBaseline(p) \/ AppliedVersions(p) \/ Migrate(p) \/ Migrated(p)
    \/ VerifyGit(p) \/ Wire(p) \/ Run(p)

Shutdown(p) == BeginDrain(p) \/ Drained(p) \/ GraceExpires(p) \/ Close(p) \/ Exit(p)

Next == \E p \in Procs :
    \/ Startup(p) \/ Shutdown(p) \/ Signal(p) \/ Crash(p)
    \/ Accept(p) \/ Respond(p) \/ WorkerClaims(p) \/ WorkerEnds(p)

\* The supervisor restarts a process that is down (restart: unless-stopped), a
\* process takes its steps, and the grace period is a timer.  No request and no
\* job is assumed ever to end, no process to be signalled.
Fairness == \A p \in Procs : WF_vars(Startup(p)) /\ WF_vars(Shutdown(p))

Spec == Init /\ [][Next]_vars /\ Fairness

----------------------------------------------------------------------------
\* Properties.

\* Every variable stays in its type; a process holds the git storage only while
\* it is past VerifyGit, and keeps its connection's pragma.
TypeOK ==
    /\ cfg \in Configs /\ root \in Roots
    /\ origin \in {"fresh", "legacy", "managed"}
    /\ db \in File
    /\ proc \in [Procs ->
         [pc : Starting \cup Running \cup {"down"}, had : BOOLEAN,
          next : 1..(LegacyBaseline + 1), applied : SUBSET Versions, fk : {"on", "off", "refused"},
          cancelled : BOOLEAN, git : BOOLEAN, worker : {"off", "idle", "job"},
          diag : BOOLEAN, reqs : 0..1, expired : BOOLEAN]]
    /\ faults \in 0..MaxFaults /\ signals \in 0..MaxSignals

\* "a migration can never be recorded as applied unless it fully succeeded": the
\* version rows never name a migration the schema lacks, whatever crashed when.
RecordedIsApplied == db.recorded \subseteq db.schema

\* A body that changes something on a schema that has it already is committed
\* once over all starts, crashes and retries.
BodiesRunOnce == \A v \in Versions \ NoEffect : db.ran[v] <= 1

\* The version rows and the schema stay in step over every start, crash and retry.
MigrationsInStep == RecordedIsApplied /\ BodiesRunOnce

\* A process that answers requests has the whole schema under it, its own
\* connection enforces foreign keys and no row dangles, unless the statement that
\* switches enforcement on failed: what the runner switched off for a rebuild was
\* on again before the first request.
ServesSoundDatabase ==
    \A p \in Procs : proc[p].reqs > 0 /\ UsesSQLite(cfg) =>
        db.schema = Versions /\ proc[p].fk # "off" /\ db.orphans \subseteq {"refused"}

\* A request that was accepted is answered before its process ends, unless it
\* outlived the grace period or the process was killed.
RequestsDrain ==
    [][\A p \in Procs :
        proc[p].reqs > 0 /\ proc'[p].pc = "down" /\ faults' = faults
            => proc[p].expired]_vars

\* Until the grace period expires no request finds the git storage closed.
RequestsHaveGit ==
    \A p \in Procs : proc[p].reqs > 0 /\ ~proc[p].expired => proc[p].git

\* A request stands on a sound database and on open git storage, from the first
\* one that is accepted to the end of the drain.
RequestsSupported == ServesSoundDatabase /\ RequestsHaveGit

\* Startable: nothing outside the processes keeps the server from starting.
Startable ==
    /\ Validate(cfg) /\ UsesSQLite(cfg) /\ cfg.cache # "redis"
    /\ Artifacts(cfg) # "s3" /\ (cfg.telemetry => DiagnosticsAllowed(cfg))
    /\ ~GitRootMismatch
    /\ origin # "legacy"

\* Crashes and signals in the middle of a migration are only delays: with a new
\* database, or one the runner already manages, some process ends up serving.
ServesAgain == Startable => <>[](\E p \in Procs : proc[p].pc = "serve")

\* A cancelled process exits, however long a request or a job takes.
CancelledExits ==
    \A p \in Procs : proc[p].cancelled ~> proc[p].pc = "down"

\* Not kept.  "Stamp it rather than replaying migrations it already ran": a
\* crash between the version table and its first rows leaves a legacy database
\* that looks managed, and the next start replays migration 1 and fails in 2.
LegacyNotReplayed ==
    \A p \in Procs : origin = "legacy" /\ proc[p].pc = "apply" /\ Pending(p) # {}
        => Least(Pending(p)) \notin Baseline

\* Not kept.  "Leaving enforcement off would silently disable it for the rest of
\* the process": when the pragma that restores it fails, the server serves so.
EnforcementRestored == \A p \in Procs : proc[p].reqs > 0 => proc[p].fk = "on"

\* Not kept.  The worker is not waited for: a job may use git storage that the
\* deferred Close has shut.
JobsHaveGit == \A p \in Procs : proc[p].worker = "job" => proc[p].git
=============================================================================
