-------------------------- MODULE ArtifactsProofs --------------------------
(***************************************************************************)
(* Theorems about Artifacts, for any number of commits, plugins, files,    *)
(* tasks and faults, on every backend.                                     *)
(*                                                                         *)
(* SucceededIsWhole is not inductive: a task marks its job in another step *)
(* than it stores the last file, and skips what it finds.  What it has     *)
(* stored or skipped stays whole (Kept), because on disk only one task at  *)
(* a time writes a file (Sole, Claims) as long as no copy was cut short.   *)
(***************************************************************************)
EXTENDS Artifacts, TLAPS

USE Zenon

\* Plugins generate files of their own.
Separate == \A p, q \in Plugins : p # q => Output[p] \cap Output[q] = {}

Stages == {"generate", "upload", "write", "copy", "listed", "based", "mark"}

Task == [no: Nat, commit: Versions, plugin: Plugins, step: Stages, todo: SUBSET Files,
         file: Files \cup {NoFile}, existing: SUBSET Files, head: Nat, slow: BOOLEAN]

ArtifactsType ==
    /\ backend \in Backends
    /\ jobs \in [Versions -> [Plugins -> {"pending", "running", "succeeded", "failed"}]]
    /\ store \in [Versions -> [Files -> {"none", "part", "whole"}]]
    /\ tip \in Nat
    /\ tasks \subseteq Task
    /\ tried \in Nat

\* What the fields of a task are at its steps.
TaskShape(t) ==
    /\ t.plugin \in generators[t.commit]
    /\ t.todo \subseteq Output[t.plugin]
    /\ t.step \in {"write", "copy"} => t.file \in Output[t.plugin] \ t.todo
    /\ t.step \in {"generate", "upload", "listed", "based", "mark"} => t.file = NoFile
    /\ t.step = "write" => backend \in {"disk", "s3"}
    /\ t.step = "copy" => backend = "disk"
    /\ t.step \in {"listed", "based"} => backend \notin {"disk", "s3"}
    /\ t.existing # {} => backend = "gitaly"

\* The files of its output that a task has stored, or found stored.
Stored(t) ==
    IF t.step = "mark" THEN Output[t.plugin]
    ELSE IF t.step \in {"upload", "write", "copy"} THEN {f \in Output[t.plugin] : f \notin t.todo /\ f # t.file}
    ELSE {}

\* On disk, no copy of this commit was cut short or overlapped; over Gitaly, where
\* an upload removes what it does not write, the commit has one plugin.
Sound(c, p) ==
    /\ backend = "disk" => c \notin torn
    /\ backend = "gitaly" => generators[c] = {p}

Kept == \A t \in tasks : Sound(t.commit, t.plugin) => \A f \in Stored(t) : store[t.commit][f] = "whole"

\* On disk one task at a time works for a job, and the job is running.
Claims ==
    backend = "disk" =>
        \A t \in tasks : t.commit \notin torn =>
            /\ jobs[t.commit][t.plugin] = "running"
            /\ \A u \in tasks : u.commit = t.commit /\ u.plugin = t.plugin => u = t

\* A file that is not whole is the one a task is about to write or is copying.
Sole ==
    /\ backend # "disk" => \A c \in Versions, f \in Files : store[c][f] # "part"
    /\ backend = "disk" =>
          /\ \A c \in Versions, f \in Files : store[c][f] = "part" /\ c \notin torn =>
                \E t \in tasks : t.commit = c /\ t.step = "copy" /\ t.file = f
          /\ \A t \in tasks : t.step = "write" /\ t.commit \notin torn => store[t.commit][t.file] = "none"

Inv ==
    /\ Separate
    /\ ArtifactsType
    /\ \A t \in tasks : TaskShape(t)
    /\ Kept
    /\ Claims
    /\ Sole
    /\ SucceededIsWhole

-----------------------------------------------------------------------------
(* The records and tables. *)

LEMMA TaskFields ==
    ASSUME NEW t \in Task
    PROVE  /\ t.no \in Nat /\ t.commit \in Versions /\ t.plugin \in Plugins /\ t.step \in Stages
           /\ t.todo \in SUBSET Files /\ t.file \in Files \cup {NoFile}
           /\ t.existing \in SUBSET Files /\ t.head \in Nat /\ t.slow \in BOOLEAN
  BY DEF Task

LEMMA OutputFiles == \A p \in Plugins : Output[p] \in SUBSET Files /\ NoFile \notin Output[p]
  BY ArtifactsAssumption DEF Files

\* One entry of a table of tables is replaced.
LEMMA TableUpdate ==
    ASSUME NEW A, NEW B, NEW C, NEW f \in [A -> [B -> C]], NEW a \in A, NEW b \in B, NEW v \in C,
           NEW g, g = [f EXCEPT ![a][b] = v]
    PROVE  /\ g \in [A -> [B -> C]]
           /\ g[a][b] = v
           /\ \A x \in A, y \in B : x # a \/ y # b => g[x][y] = f[x][y]
  OBVIOUS

LEMMA TasksTyped ==
    ASSUME Inv, NEW t \in tasks
    PROVE  t \in Task /\ t.commit \in Versions /\ t.plugin \in Plugins /\ TaskShape(t)
  BY TaskFields DEF Inv, ArtifactsType

LEMMA StoredIsOutput ==
    ASSUME NEW t \in Task PROVE Stored(t) \subseteq Output[t.plugin] /\ Stored(t) \subseteq Files
  <1>1. Stored(t) \subseteq Output[t.plugin]
    BY DEF Stored
  <1> QED
    BY <1>1, OutputFiles, TaskFields

LEMMA InitInv == Separate /\ ArtifactsInit => Inv
  <1> SUFFICES ASSUME Separate, ArtifactsInit PROVE Inv
    OBVIOUS
  <1>1. 0 \in Nat
    BY SMT
  <1>2. ArtifactsType
    BY <1>1 DEF ArtifactsInit, ArtifactsType
  <1>3. SucceededIsWhole
    BY DEF ArtifactsInit, SucceededIsWhole
  <1>4. Sole
    BY DEF ArtifactsInit, Sole
  <1> QED
    BY <1>2, <1>3, <1>4 DEF Inv, ArtifactsInit, Kept, Claims

-----------------------------------------------------------------------------
(* A task goes on, and nothing else changes. *)

\* The types and shapes after a task has gone on.
LEMMA GoesTyped ==
    ASSUME Inv, NEW t \in tasks, NEW u \in Task, Goes(t, u), TaskShape(u),
           store' \in [Versions -> [Files -> {"none", "part", "whole"}]], tip' \in Nat,
           UNCHANGED <<backend, generators, jobs, tried>>
    PROVE  /\ Separate' /\ ArtifactsType' /\ \A v \in tasks' : TaskShape(v)'
           /\ tasks' = (tasks \ {t}) \cup {u}
  <1>1. tasks' = (tasks \ {t}) \cup {u}
    BY DEF Goes
  <1>2. Separate' /\ ArtifactsType'
    BY <1>1 DEF Inv, ArtifactsType, Separate
  <1>3. \A v \in tasks' : TaskShape(v)'
    BY <1>1 DEF Inv, TaskShape
  <1> QED
    BY <1>1, <1>2, <1>3

\* A task that goes on has the claim it had.
LEMMA GoesClaims ==
    ASSUME Inv, NEW t \in tasks, NEW u \in Task, Goes(t, u),
           u.commit = t.commit, u.plugin = t.plugin, UNCHANGED <<backend, generators, jobs, torn>>
    PROVE  Claims'
  <1>1. tasks' = (tasks \ {t}) \cup {u}
    BY DEF Goes
  <1> SUFFICES ASSUME backend = "disk", NEW v \in tasks', v.commit \notin torn,
                      NEW w \in tasks', w.commit = v.commit, w.plugin = v.plugin
               PROVE  jobs[v.commit][v.plugin] = "running" /\ w = v
    BY DEF Claims
  <1> DEFINE Old(x) == IF x = u THEN t ELSE x
  <1>2. \A x \in tasks' : Old(x) \in tasks /\ Old(x).commit = x.commit /\ Old(x).plugin = x.plugin
    BY <1>1
  <1>3. jobs[v.commit][v.plugin] = "running" /\ Old(w) = Old(v)
    <2>1. \A x, y \in tasks : x.commit \notin torn /\ y.commit = x.commit /\ y.plugin = x.plugin =>
              jobs[x.commit][x.plugin] = "running" /\ y = x
      BY DEF Inv, Claims
    <2>2. PICK x \in tasks : x = Old(v) /\ x.commit = v.commit /\ x.plugin = v.plugin
      BY <1>2
    <2>3. PICK y \in tasks : y = Old(w) /\ y.commit = w.commit /\ y.plugin = w.plugin
      BY <1>2
    <2> HIDE DEF Old
    <2> QED
      BY <2>1, <2>2, <2>3, SMT
  <1>4. CASE w = u /\ v # u
    BY <1>1, <1>3, <1>4
  <1>5. CASE w # u /\ v = u
    BY <1>1, <1>3, <1>5
  <1> QED
    BY <1>3, <1>4, <1>5

LEMMA GoesInv ==
    ASSUME Inv, NEW t \in tasks, NEW u \in Task, Goes(t, u),
           u.commit = t.commit, u.plugin = t.plugin, TaskShape(u),
           Sound(t.commit, t.plugin) => \A f \in Stored(u) : store[t.commit][f] = "whole",
           t.step = "copy" => u.step = "copy" /\ u.file = t.file,
           backend = "disk" /\ u.step = "write" /\ t.commit \notin torn =>
               store[t.commit][u.file] = "none",
           UNCHANGED <<backend, generators, jobs, store, tip, tried, torn>>
    PROVE  Inv'
  <1>1. tasks' = (tasks \ {t}) \cup {u}
    BY DEF Goes
  <1>2. Separate' /\ ArtifactsType'
    BY <1>1 DEF Inv, ArtifactsType, Separate
  <1>3. \A v \in tasks' : TaskShape(v)'
    BY <1>1 DEF Inv, TaskShape
  <1>4. Kept'
    <2>1. \A c, p : Sound(c, p)' => Sound(c, p)
      BY DEF Sound
    <2>2. ASSUME NEW v \in tasks', Sound(v.commit, v.plugin), NEW f \in Stored(v)
          PROVE  store[v.commit][f] = "whole"
      BY <1>1, <2>2 DEF Inv, Kept
    <2> QED
      BY <2>1, <2>2 DEF Kept, Stored
  <1>5. Claims'
    BY GoesClaims
  <1>6. Sole'
    <2>1. ASSUME backend = "disk", NEW c \in Versions, NEW f \in Files, store[c][f] = "part", c \notin torn
          PROVE  \E v \in tasks' : v.commit = c /\ v.step = "copy" /\ v.file = f
      <3>1. PICK w \in tasks : w.commit = c /\ w.step = "copy" /\ w.file = f
        BY <2>1 DEF Inv, Sole
      <3>2. CASE w = t
        BY <1>1, <3>1, <3>2
      <3> QED
        BY <1>1, <3>1, <3>2
    <2>2. ASSUME backend = "disk", NEW v \in tasks', v.step = "write", v.commit \notin torn
          PROVE  store[v.commit][v.file] = "none"
      BY <1>1, <2>2, SMT DEF Inv, Sole
    <2> QED
      BY <2>1, <2>2 DEF Inv, Sole
  <1>7. SucceededIsWhole'
    BY DEF Inv, SucceededIsWhole
  <1> QED
    BY <1>2, <1>3, <1>4, <1>5, <1>6, <1>7 DEF Inv

-----------------------------------------------------------------------------
(* A task ends. *)

LEMMA EndsInv ==
    ASSUME Inv, NEW t \in tasks, NEW status \in {"failed", "succeeded"},
           tasks' = tasks \ {t},
           jobs' = jobs \/ jobs' = [jobs EXCEPT ![t.commit][t.plugin] = status],
           status = "succeeded" /\ Sound(t.commit, t.plugin) => \A f \in Output[t.plugin] : store[t.commit][f] = "whole",
           torn \subseteq torn', t.step = "copy" => t.commit \in torn',
           UNCHANGED <<backend, generators, store, tip, tried>>
    PROVE  Inv'
  <1>1. t \in Task /\ t.commit \in Versions /\ t.plugin \in Plugins
    BY TasksTyped
  <1>2. /\ jobs' \in [Versions -> [Plugins -> {"pending", "running", "succeeded", "failed"}]]
        /\ \A c \in Versions, p \in Plugins :
              \/ jobs'[c][p] = jobs[c][p]
              \/ c = t.commit /\ p = t.plugin /\ jobs'[c][p] = status
    <2>1. CASE jobs' = jobs
      BY <2>1 DEF Inv, ArtifactsType
    <2>2. CASE jobs' = [jobs EXCEPT ![t.commit][t.plugin] = status]
      <3>1. jobs \in [Versions -> [Plugins -> {"pending", "running", "succeeded", "failed"}]]
            /\ status \in {"pending", "running", "succeeded", "failed"}
        BY DEF Inv, ArtifactsType
      <3> QED
        BY <1>1, <2>2, <3>1, TableUpdate
    <2> QED
      BY <2>1, <2>2
  <1>3. Separate' /\ ArtifactsType'
    BY <1>2 DEF Inv, ArtifactsType, Separate
  <1>4. \A v \in tasks' : TaskShape(v)'
    BY DEF Inv, TaskShape
  <1>5. \A c, p : Sound(c, p)' => Sound(c, p)
    BY DEF Sound
  <1>6. Kept'
    BY <1>5 DEF Inv, Kept
  <1>7. Claims'
    <2> SUFFICES ASSUME backend = "disk", NEW v \in tasks', v.commit \notin torn'
                 PROVE  /\ jobs'[v.commit][v.plugin] = "running"
                        /\ \A w \in tasks' : w.commit = v.commit /\ w.plugin = v.plugin => w = v
      BY DEF Claims
    <2>1. v \in tasks /\ v # t /\ v.commit \in Versions /\ v.plugin \in Plugins /\ v.commit \notin torn
      BY TasksTyped
    <2>2. /\ jobs[v.commit][v.plugin] = "running"
          /\ \A w \in tasks : w.commit = v.commit /\ w.plugin = v.plugin => w = v
      BY <2>1 DEF Inv, Claims
    <2> QED
      BY <1>2, <2>1, <2>2
  <1>8. Sole'
    <2>1. ASSUME backend = "disk", NEW c \in Versions, NEW f \in Files, store[c][f] = "part", c \notin torn'
          PROVE  \E v \in tasks' : v.commit = c /\ v.step = "copy" /\ v.file = f
      <3>1. PICK w \in tasks : w.commit = c /\ w.step = "copy" /\ w.file = f
        <4>1. c \notin torn
          BY <2>1
        <4> QED
          BY <2>1, <4>1, SMT DEF Inv, Sole
      <3> QED
        BY <2>1, <3>1
    <2>2. ASSUME backend = "disk", NEW v \in tasks', v.step = "write", v.commit \notin torn'
          PROVE  store[v.commit][v.file] = "none"
      BY <2>2 DEF Inv, Sole
    <2>3. backend # "disk" => \A c \in Versions, f \in Files : store[c][f] # "part"
      BY DEF Inv, Sole
    <2>4. backend' = backend /\ store' = store
      OBVIOUS
    <2>5. backend = "disk" => \A c \in Versions, f \in Files : store[c][f] = "part" /\ c \notin torn' =>
              \E v \in tasks' : v.commit = c /\ v.step = "copy" /\ v.file = f
      BY <2>1, SMT
    <2>6. backend = "disk" => \A v \in tasks' : v.step = "write" /\ v.commit \notin torn' =>
              store[v.commit][v.file] = "none"
      BY <2>2
    <2> QED
      BY <2>3, <2>4, <2>5, <2>6, SMT DEF Sole
  <1>9. SucceededIsWhole'
    <2> SUFFICES ASSUME NEW c \in Versions, NEW p \in Plugins, jobs'[c][p] = "succeeded", Sound(c, p)
                 PROVE  \A f \in Output[p] : store[c][f] = "whole"
      BY <1>5 DEF SucceededIsWhole, Sound
    <2>1. CASE jobs[c][p] = "succeeded"
      BY <2>1 DEF Inv, SucceededIsWhole, Sound
    <2>2. CASE c = t.commit /\ p = t.plugin /\ status = "succeeded"
      BY <2>2
    <2> QED
      BY <1>2, <2>1, <2>2
  <1> QED
    BY <1>3, <1>4, <1>6, <1>7, <1>8, <1>9 DEF Inv

-----------------------------------------------------------------------------
(* A task writes. *)

\* On disk, two tasks with a file in common are one.
LEMMA OneWriter ==
    ASSUME Inv, backend = "disk", NEW t \in tasks, NEW v \in tasks, t.commit \notin torn,
           v.commit = t.commit, NEW f \in Output[t.plugin], f \in Output[v.plugin]
    PROVE  v = t
  <1>1. t.plugin \in Plugins /\ v.plugin \in Plugins
    BY TasksTyped
  <1>2. v.plugin = t.plugin
    BY <1>1 DEF Inv, Separate
  <1> QED
    BY <1>2 DEF Inv, Claims

\* Off disk files appear whole, and what a sound job has stored stays.
LEMMA GrowInv ==
    ASSUME Inv, backend # "disk", NEW t \in tasks, NEW u \in Task, Goes(t, u),
           u.commit = t.commit, u.plugin = t.plugin, TaskShape(u),
           store' \in [Versions -> [Files -> {"none", "part", "whole"}]], tip' \in Nat,
           \A c \in Versions, f \in Files : store'[c][f] # "part",
           \A c \in Versions, p \in Plugins : Sound(c, p) =>
               \A f \in Output[p] : store[c][f] = "whole" => store'[c][f] = "whole",
           \A f \in Stored(u) : store'[t.commit][f] = "whole",
           UNCHANGED <<backend, generators, jobs, tried, torn>>
    PROVE  Inv'
  <1>1. /\ Separate' /\ ArtifactsType' /\ \A v \in tasks' : TaskShape(v)'
        /\ tasks' = (tasks \ {t}) \cup {u}
    BY GoesTyped
  <1>2. Claims'
    BY GoesClaims
  <1>3. \A c, p : Sound(c, p)' => Sound(c, p)
    BY DEF Sound
  <1>4. Kept'
    <2> SUFFICES ASSUME NEW v \in tasks', Sound(v.commit, v.plugin), NEW f \in Stored(v)
                 PROVE  store'[v.commit][f] = "whole"
      BY <1>3 DEF Kept, Stored
    <2>1. CASE v = u
      BY <2>1
    <2>2. CASE v \in tasks
      <3>1. v.commit \in Versions /\ v.plugin \in Plugins /\ f \in Output[v.plugin]
        BY <2>2, TasksTyped, StoredIsOutput
      <3>2. store[v.commit][f] = "whole"
        BY <2>2 DEF Inv, Kept
      <3> QED
        BY <3>1, <3>2
    <2> QED
      BY <1>1, <2>1, <2>2
  <1>5. Sole'
    BY DEF Sole
  <1>6. SucceededIsWhole'
    <2> SUFFICES ASSUME NEW c \in Versions, NEW p \in Plugins, jobs[c][p] = "succeeded", Sound(c, p),
                        NEW f \in Output[p]
                 PROVE  store'[c][f] = "whole"
      BY <1>3 DEF SucceededIsWhole, Sound
    <2>1. store[c][f] = "whole"
      BY DEF Inv, SucceededIsWhole, Sound
    <2> QED
      BY <2>1
  <1> QED
    BY <1>1, <1>2, <1>4, <1>5, <1>6 DEF Inv

\* disk: the file is created.
LEMMA CreateInv ==
    ASSUME Inv, backend = "disk", NEW t \in tasks, NEW u \in Task, Goes(t, u), t.step = "write",
           u.commit = t.commit, u.plugin = t.plugin, u.step = "copy", u.file = t.file, TaskShape(u),
           Stored(u) = Stored(t), store' = [store EXCEPT ![t.commit][t.file] = "part"],
           UNCHANGED <<backend, generators, jobs, tip, tried, torn>>
    PROVE  Inv'
  <1>1. t \in Task /\ t.commit \in Versions /\ t.plugin \in Plugins /\ t.file \in Output[t.plugin]
    BY TasksTyped DEF TaskShape
  <1>2. t.file \in Files
    BY <1>1, OutputFiles
  <1>3. /\ store' \in [Versions -> [Files -> {"none", "part", "whole"}]]
        /\ store'[t.commit][t.file] = "part"
        /\ \A c \in Versions, f \in Files : c # t.commit \/ f # t.file => store'[c][f] = store[c][f]
    <2>1. store \in [Versions -> [Files -> {"none", "part", "whole"}]] /\ "part" \in {"none", "part", "whole"}
      BY DEF Inv, ArtifactsType
    <2> QED
      BY <1>1, <1>2, <2>1, TableUpdate
  <1>4. /\ Separate' /\ ArtifactsType' /\ \A v \in tasks' : TaskShape(v)'
        /\ tasks' = (tasks \ {t}) \cup {u}
    <2>1. tip' \in Nat
      BY DEF Inv, ArtifactsType
    <2> QED
      BY <1>3, <2>1, GoesTyped
  <1>5. t.commit \notin torn => store[t.commit][t.file] = "none"
    BY DEF Inv, Sole
  <1>6. \A c \in Versions, f \in Files : c \notin torn /\ store[c][f] = "whole" => store'[c][f] = "whole"
    <2> SUFFICES ASSUME NEW c \in Versions, NEW f \in Files, c \notin torn, store[c][f] = "whole"
                 PROVE  store'[c][f] = "whole"
      OBVIOUS
    <2>1. c # t.commit \/ f # t.file
      BY <1>5
    <2> QED
      BY <1>3, <2>1
  <1>7. Claims'
    BY GoesClaims
  <1>8. Kept'
    <2> SUFFICES ASSUME NEW v \in tasks', v.commit \notin torn, NEW f \in Stored(v)
                 PROVE  store'[v.commit][f] = "whole"
      BY DEF Kept, Stored, Sound
    <2>1. PICK w \in tasks : w.commit = v.commit /\ f \in Stored(w)
      BY <1>4
    <2>2. w.commit \in Versions /\ f \in Files
      BY <2>1, TasksTyped, StoredIsOutput
    <2>3. store[w.commit][f] = "whole"
      BY <2>1 DEF Inv, Kept, Sound
    <2> QED
      BY <1>6, <2>1, <2>2, <2>3
  <1>9. Sole'
    <2>1. ASSUME NEW c \in Versions, NEW f \in Files, store'[c][f] = "part", c \notin torn
          PROVE  \E v \in tasks' : v.commit = c /\ v.step = "copy" /\ v.file = f
      <3>1. CASE c = t.commit /\ f = t.file
        BY <1>4, <3>1
      <3>2. CASE c # t.commit \/ f # t.file
        <4>1. store[c][f] = "part"
          BY <1>3, <2>1, <3>2
        <4>2. PICK w \in tasks : w.commit = c /\ w.step = "copy" /\ w.file = f
          BY <2>1, <4>1 DEF Inv, Sole
        <4> QED
          BY <1>4, <4>2
      <3> QED
        BY <3>1, <3>2
    <2>2. ASSUME NEW v \in tasks', v.step = "write", v.commit \notin torn
          PROVE  store'[v.commit][v.file] = "none"
      <3>1. v \in tasks /\ v # t
        BY <1>4, <2>2
      <3>2. v \in Task /\ v.commit \in Versions /\ v.plugin \in Plugins /\ v.file \in Output[v.plugin]
        BY <2>2, <3>1, TasksTyped DEF TaskShape
      <3>3. v.file \in Files
        BY <3>2, OutputFiles
      <3>4. store[v.commit][v.file] = "none"
        BY <2>2, <3>1 DEF Inv, Sole
      <3>5. v.commit # t.commit \/ v.file # t.file
        BY <1>1, <2>2, <3>1, <3>2, OneWriter
      <3> QED
        BY <1>3, <3>2, <3>3, <3>4, <3>5
    <2>3. backend' = "disk" /\ torn' = torn
      OBVIOUS
    <2> QED
      BY <2>1, <2>2, <2>3, SMT DEF Sole
  <1>10. SucceededIsWhole'
    <2> SUFFICES ASSUME NEW c \in Versions, NEW p \in Plugins, jobs[c][p] = "succeeded", c \notin torn,
                        NEW f \in Output[p]
                 PROVE  store'[c][f] = "whole"
      BY DEF SucceededIsWhole
    <2>1. f \in Files
      BY OutputFiles
    <2>2. store[c][f] = "whole"
      BY DEF Inv, SucceededIsWhole
    <2> QED
      BY <1>6, <2>1, <2>2
  <1> QED
    BY <1>4, <1>7, <1>8, <1>9, <1>10 DEF Inv

\* disk: the copy ends.
LEMMA CopyInv ==
    ASSUME Inv, backend = "disk", NEW t \in tasks, NEW u \in Task, Goes(t, u), t.step = "copy",
           u.commit = t.commit, u.plugin = t.plugin, u.step = "upload", TaskShape(u),
           Stored(u) \subseteq Stored(t) \cup {t.file},
           store' = [store EXCEPT ![t.commit][t.file] = "whole"],
           UNCHANGED <<backend, generators, jobs, tip, tried, torn>>
    PROVE  Inv'
  <1>1. t \in Task /\ t.commit \in Versions /\ t.plugin \in Plugins /\ t.file \in Output[t.plugin]
    BY TasksTyped DEF TaskShape
  <1>2. t.file \in Files
    BY <1>1, OutputFiles
  <1>3. /\ store' \in [Versions -> [Files -> {"none", "part", "whole"}]]
        /\ store'[t.commit][t.file] = "whole"
        /\ \A c \in Versions, f \in Files : c # t.commit \/ f # t.file => store'[c][f] = store[c][f]
    <2>1. store \in [Versions -> [Files -> {"none", "part", "whole"}]] /\ "whole" \in {"none", "part", "whole"}
      BY DEF Inv, ArtifactsType
    <2> QED
      BY <1>1, <1>2, <2>1, TableUpdate
  <1>4. /\ Separate' /\ ArtifactsType' /\ \A v \in tasks' : TaskShape(v)'
        /\ tasks' = (tasks \ {t}) \cup {u}
    <2>1. tip' \in Nat
      BY DEF Inv, ArtifactsType
    <2> QED
      BY <1>3, <2>1, GoesTyped
  <1>5. \A c \in Versions, f \in Files : store[c][f] = "whole" => store'[c][f] = "whole"
    BY <1>3
  <1>6. Claims'
    BY GoesClaims
  <1>7. Kept'
    <2> SUFFICES ASSUME NEW v \in tasks', v.commit \notin torn, NEW f \in Stored(v)
                 PROVE  store'[v.commit][f] = "whole"
      BY DEF Kept, Stored, Sound
    <2>1. CASE v = u /\ f = t.file
      BY <1>3, <2>1
    <2>2. CASE \E w \in tasks : w.commit = v.commit /\ f \in Stored(w)
      <3>1. PICK w \in tasks : w.commit = v.commit /\ f \in Stored(w)
        BY <2>2
      <3>2. w.commit \in Versions /\ f \in Files
        BY <3>1, TasksTyped, StoredIsOutput
      <3>3. store[w.commit][f] = "whole"
        BY <3>1 DEF Inv, Kept, Sound
      <3> QED
        BY <1>5, <3>1, <3>2, <3>3
    <2> QED
      BY <1>4, <2>1, <2>2
  <1>8. Sole'
    <2>1. ASSUME NEW c \in Versions, NEW f \in Files, store'[c][f] = "part", c \notin torn
          PROVE  \E v \in tasks' : v.commit = c /\ v.step = "copy" /\ v.file = f
      <3>1. c # t.commit \/ f # t.file
        BY <1>3, <2>1
      <3>2. store[c][f] = "part"
        BY <1>3, <2>1, <3>1
      <3>3. PICK w \in tasks : w.commit = c /\ w.step = "copy" /\ w.file = f
        BY <2>1, <3>2 DEF Inv, Sole
      <3> QED
        BY <1>4, <3>1, <3>3
    <2>2. ASSUME NEW v \in tasks', v.step = "write", v.commit \notin torn
          PROVE  store'[v.commit][v.file] = "none"
      <3>1. v \in tasks /\ v # t
        BY <1>4, <2>2
      <3>2. v \in Task /\ v.commit \in Versions /\ v.plugin \in Plugins /\ v.file \in Output[v.plugin]
        BY <2>2, <3>1, TasksTyped DEF TaskShape
      <3>3. v.file \in Files
        BY <3>2, OutputFiles
      <3>4. store[v.commit][v.file] = "none"
        BY <2>2, <3>1 DEF Inv, Sole
      <3>5. v.commit # t.commit \/ v.file # t.file
        BY <1>1, <2>2, <3>1, <3>2, OneWriter
      <3> QED
        BY <1>3, <3>2, <3>3, <3>4, <3>5
    <2>3. backend' = "disk" /\ torn' = torn
      OBVIOUS
    <2> QED
      BY <2>1, <2>2, <2>3, SMT DEF Sole
  <1>9. SucceededIsWhole'
    <2> SUFFICES ASSUME NEW c \in Versions, NEW p \in Plugins, jobs[c][p] = "succeeded", c \notin torn,
                        NEW f \in Output[p]
                 PROVE  store'[c][f] = "whole"
      BY DEF SucceededIsWhole
    <2>1. f \in Files
      BY OutputFiles
    <2>2. store[c][f] = "whole"
      BY DEF Inv, SucceededIsWhole
    <2> QED
      BY <1>5, <2>1, <2>2
  <1> QED
    BY <1>4, <1>6, <1>7, <1>8, <1>9 DEF Inv

-----------------------------------------------------------------------------
(* The queue. *)

LEMMA ClaimInv ==
    ASSUME Inv, NEW c \in Versions, NEW p \in Plugins, Claim(c, p), UNCHANGED <<backend, generators>>
    PROVE  Inv'
  <1>1. PICK u : u = [no |-> tried', commit |-> c, plugin |-> p, step |-> "generate", todo |-> {},
                      file |-> NoFile, existing |-> {}, head |-> 0, slow |-> FALSE]
    OBVIOUS
  <1>2. tasks' = tasks \cup {u} /\ UNCHANGED <<store, tip, torn>>
    BY <1>1 DEF Claim
  <1>3. tried' \in Nat
    BY SMT DEF Claim, Inv, ArtifactsType
  <1>4. /\ u \in Task /\ u.commit = c /\ u.plugin = p /\ u.step = "generate" /\ u.file = NoFile
        /\ u.todo = {} /\ u.existing = {}
    BY <1>1, <1>3, SMT DEF Task, Stages
  <1>5. TaskShape(u)' /\ Stored(u) = {}
    BY <1>4 DEF TaskShape, Stored, Claim
  <1>6. /\ jobs' \in [Versions -> [Plugins -> {"pending", "running", "succeeded", "failed"}]]
        /\ jobs'[c][p] = "running" /\ jobs[c][p] = "pending"
        /\ \A x \in Versions, y \in Plugins : x # c \/ y # p => jobs'[x][y] = jobs[x][y]
    <2>1. /\ jobs \in [Versions -> [Plugins -> {"pending", "running", "succeeded", "failed"}]]
          /\ "running" \in {"pending", "running", "succeeded", "failed"}
          /\ jobs' = [jobs EXCEPT ![c][p] = "running"] /\ jobs[c][p] = "pending"
      BY DEF Inv, ArtifactsType, Claim
    <2> QED
      BY <2>1, TableUpdate
  <1>7. Separate' /\ ArtifactsType'
    BY <1>2, <1>3, <1>4, <1>6 DEF Inv, ArtifactsType, Separate
  <1>8. \A v \in tasks' : TaskShape(v)'
    BY <1>2, <1>5 DEF Inv, TaskShape
  <1>9. Kept'
    BY <1>2, <1>5 DEF Inv, Kept, Sound, Stored
  <1>10. Claims'
    <2> SUFFICES ASSUME backend = "disk", NEW v \in tasks', v.commit \notin torn
                 PROVE  /\ jobs'[v.commit][v.plugin] = "running"
                        /\ \A w \in tasks' : w.commit = v.commit /\ w.plugin = v.plugin => w = v
      BY <1>2 DEF Claims
    <2>1. ASSUME NEW w \in tasks, w.commit \notin torn
          PROVE  w.commit \in Versions /\ w.plugin \in Plugins /\ (w.commit # c \/ w.plugin # p)
      <3>1. jobs[w.commit][w.plugin] = "running"
        BY <2>1 DEF Inv, Claims
      <3> QED
        BY <1>6, <3>1, TasksTyped
    <2>2. CASE v = u
      BY <1>2, <1>4, <1>6, <2>1, <2>2
    <2>3. CASE v \in tasks
      <3>1. /\ jobs[v.commit][v.plugin] = "running"
            /\ \A w \in tasks : w.commit = v.commit /\ w.plugin = v.plugin => w = v
        BY <2>3 DEF Inv, Claims
      <3>2. v.commit \in Versions /\ v.plugin \in Plugins /\ (v.commit # c \/ v.plugin # p)
        BY <2>1, <2>3
      <3> QED
        BY <1>2, <1>4, <1>6, <3>1, <3>2
    <2> QED
      BY <1>2, <2>2, <2>3
  <1>11. Sole'
    <2>1. u.step # "write" /\ u.step # "copy"
      BY <1>4
    <2> QED
      BY <1>2, <2>1, SMT DEF Inv, Sole
  <1>12. SucceededIsWhole'
    <2>1. \A x \in Versions, y \in Plugins : jobs'[x][y] = "succeeded" => jobs[x][y] = "succeeded"
      BY <1>6
    <2> QED
      BY <1>2, <2>1 DEF Inv, SucceededIsWhole
  <1> QED
    BY <1>7, <1>8, <1>9, <1>10, <1>11, <1>12 DEF Inv

\* A job that is given back has no task, or its commit may be torn from now on.
LEMMA RecoverInv ==
    ASSUME Inv, NEW c \in Versions, NEW p \in Plugins, Recover(c, p), UNCHANGED <<backend, generators>>
    PROVE  Inv'
  <1>1. UNCHANGED <<store, tip, tasks, tried>>
    BY DEF Recover
  <1>2. torn \subseteq torn' /\ (c \in torn' \/ \A t \in tasks : t.commit # c \/ t.plugin # p)
    <2>1. CASE Tasks(c, p) = {}
      BY <2>1 DEF Recover, Tasks
    <2>2. CASE Tasks(c, p) # {}
      BY <2>2 DEF Recover
    <2> QED
      BY <2>1, <2>2
  <1>3. /\ jobs' \in [Versions -> [Plugins -> {"pending", "running", "succeeded", "failed"}]]
        /\ jobs'[c][p] = "pending"
        /\ \A x \in Versions, y \in Plugins : x # c \/ y # p => jobs'[x][y] = jobs[x][y]
    <2>1. /\ jobs \in [Versions -> [Plugins -> {"pending", "running", "succeeded", "failed"}]]
          /\ "pending" \in {"pending", "running", "succeeded", "failed"}
          /\ jobs' = [jobs EXCEPT ![c][p] = "pending"]
      BY DEF Inv, ArtifactsType, Recover
    <2> QED
      BY <2>1, TableUpdate
  <1>4. Separate' /\ ArtifactsType'
    BY <1>1, <1>3 DEF Inv, ArtifactsType, Separate
  <1>5. \A v \in tasks' : TaskShape(v)'
    BY <1>1 DEF Inv, TaskShape
  <1>6. \A x : x \notin torn' => x \notin torn
    BY <1>2
  <1>7. Kept'
    BY <1>1, <1>6 DEF Inv, Kept, Sound, Stored
  <1>8. Claims'
    <2> SUFFICES ASSUME backend = "disk", NEW v \in tasks, v.commit \notin torn'
                 PROVE  /\ jobs'[v.commit][v.plugin] = "running"
                        /\ \A w \in tasks : w.commit = v.commit /\ w.plugin = v.plugin => w = v
      BY <1>1 DEF Claims
    <2>1. v.commit \in Versions /\ v.plugin \in Plugins /\ (v.commit # c \/ v.plugin # p)
      BY <1>2, TasksTyped
    <2>2. /\ jobs[v.commit][v.plugin] = "running"
          /\ \A w \in tasks : w.commit = v.commit /\ w.plugin = v.plugin => w = v
      BY <1>6 DEF Inv, Claims
    <2> QED
      BY <1>3, <2>1, <2>2
  <1>9. Sole'
    BY <1>1, <1>6, SMT DEF Inv, Sole
  <1>10. SucceededIsWhole'
    <2>1. \A x \in Versions, y \in Plugins : jobs'[x][y] = "succeeded" => jobs[x][y] = "succeeded"
      BY <1>3
    <2> QED
      BY <1>1, <1>6, <2>1 DEF Inv, SucceededIsWhole
  <1> QED
    BY <1>4, <1>5, <1>7, <1>8, <1>9, <1>10 DEF Inv

-----------------------------------------------------------------------------
(* The steps of a task. *)

LEMMA FailInv ==
    ASSUME Inv, NEW t \in tasks, End(t, "failed"),
           torn \subseteq torn', t.step = "copy" => t.commit \in torn',
           UNCHANGED <<backend, generators, store, tip, tried>>
    PROVE  Inv'
  <1>1. tasks' = tasks \ {t}
    BY DEF End
  <1>2. jobs' = jobs \/ jobs' = [jobs EXCEPT ![t.commit][t.plugin] = "failed"]
    BY DEF End
  <1> QED
    BY <1>1, <1>2, EndsInv

LEMMA SlowInv ==
    ASSUME Inv, NEW t \in tasks, Slow(t), UNCHANGED <<backend, generators>>
    PROVE  Inv'
  <1>1. PICK u : u = [t EXCEPT !.slow = TRUE]
    OBVIOUS
  <1>2. t \in Task /\ TaskShape(t)
    BY TasksTyped
  <1>3. /\ u \in Task /\ u.commit = t.commit /\ u.plugin = t.plugin /\ u.step = t.step
        /\ u.todo = t.todo /\ u.file = t.file /\ u.existing = t.existing
    BY <1>1, <1>2 DEF Task
  <1>4. TaskShape(u) /\ Stored(u) = Stored(t)
    BY <1>2, <1>3 DEF TaskShape, Stored
  <1>5. Goes(t, u) /\ UNCHANGED <<backend, generators, jobs, store, tip, tried, torn>>
    BY <1>1 DEF Slow
  <1>6. Sound(t.commit, t.plugin) => \A f \in Stored(u) : store[t.commit][f] = "whole"
    BY <1>4 DEF Inv, Kept
  <1>7. backend = "disk" /\ u.step = "write" /\ t.commit \notin torn => store[t.commit][u.file] = "none"
    <2>1. backend = "disk" /\ t.step = "write" /\ t.commit \notin torn => store[t.commit][t.file] = "none"
      BY DEF Inv, Sole
    <2> QED
      BY <1>3, <2>1
  <1> QED
    BY <1>3, <1>4, <1>5, <1>6, <1>7, GoesInv

LEMMA CrashInv ==
    ASSUME Inv, NEW t \in tasks, Crash(t), UNCHANGED <<backend, generators>>
    PROVE  Inv'
  <1>1. tasks' = tasks \ {t} /\ UNCHANGED <<backend, generators, jobs, store, tip, tried>>
    BY DEF Crash
  <1>2. torn \subseteq torn' /\ (t.step = "copy" => t.commit \in torn')
    BY DEF Crash
  <1>3. jobs' = jobs \/ jobs' = [jobs EXCEPT ![t.commit][t.plugin] = "failed"]
    BY <1>1
  <1> QED
    BY <1>1, <1>2, <1>3, EndsInv

LEMMA GenerateInv ==
    ASSUME Inv, NEW t \in tasks, Generate(t), UNCHANGED <<backend, generators>>
    PROVE  Inv'
  <1>1. t \in Task /\ t.plugin \in Plugins /\ TaskShape(t) /\ t.step = "generate"
    BY TasksTyped DEF Generate
  <1>2. CASE Goes(t, [t EXCEPT !.step = "upload", !.todo = Output[t.plugin]]) /\ jobs' = jobs
    <2>1. PICK u : u = [t EXCEPT !.step = "upload", !.todo = Output[t.plugin]]
      OBVIOUS
    <2>2. Output[t.plugin] \in SUBSET Files
      BY <1>1, OutputFiles
    <2>3. /\ u \in Task /\ u.commit = t.commit /\ u.plugin = t.plugin /\ u.step = "upload"
          /\ u.todo = Output[t.plugin] /\ u.file = t.file /\ u.existing = t.existing
      BY <1>1, <2>1, <2>2 DEF Task, Stages
    <2>4. TaskShape(u) /\ Stored(u) = {}
      BY <1>1, <2>3 DEF TaskShape, Stored
    <2>5. Goes(t, u) /\ UNCHANGED <<backend, generators, jobs, store, tip, tried, torn>>
      BY <1>2, <2>1 DEF Generate
    <2>6. t.step # "copy" /\ u.step # "write"
      BY <1>1, <2>3
    <2> QED
      BY <2>3, <2>4, <2>5, <2>6, GoesInv
  <1>3. CASE End(t, "failed")
    BY <1>1, <1>3, FailInv DEF Generate
  <1> QED
    BY <1>2, <1>3 DEF Generate

LEMMA StatInv ==
    ASSUME Inv, NEW t \in tasks, NEW f \in Files, Stat(t, f), UNCHANGED <<backend, generators>>
    PROVE  Inv'
  <1>1. t \in Task /\ t.commit \in Versions /\ t.plugin \in Plugins /\ TaskShape(t) /\ t.step = "upload"
    BY TasksTyped DEF Stat
  <1>2. f \in t.todo /\ backend \in {"disk", "s3"} /\ UNCHANGED <<backend, generators, jobs, store, tip, tried, torn>>
    BY DEF Stat
  <1>3. f \in Output[t.plugin] /\ t.file = NoFile /\ t.todo \ {f} \in SUBSET Files
    BY <1>1, <1>2, TaskFields DEF TaskShape
  <1>4. CASE store[t.commit][f] # "none"
    <2>1. PICK u : u = [t EXCEPT !.todo = t.todo \ {f}]
      OBVIOUS
    <2>2. /\ u \in Task /\ u.commit = t.commit /\ u.plugin = t.plugin /\ u.step = t.step
          /\ u.todo = t.todo \ {f} /\ u.file = t.file /\ u.existing = t.existing
      BY <1>1, <1>3, <2>1 DEF Task
    <2>3. Goes(t, u)
      BY <1>1, <1>4, <2>1 DEF Stat, Skip, Task
    <2>4. TaskShape(u) /\ Stored(u) \subseteq Stored(t) \cup {f}
      BY <1>1, <2>2 DEF TaskShape, Stored
    <2>5. Sound(t.commit, t.plugin) => store[t.commit][f] = "whole"
      <3> SUFFICES ASSUME Sound(t.commit, t.plugin), store[t.commit][f] = "part" PROVE FALSE
        BY <1>1, <1>4 DEF Inv, ArtifactsType
      <3>1. backend = "disk" /\ t.commit \notin torn
        <4>1. backend = "disk"
          BY <1>1 DEF Inv, Sole
        <4> QED
          BY <4>1 DEF Sound
      <3>2. PICK w \in tasks : w.commit = t.commit /\ w.step = "copy" /\ w.file = f
        BY <1>1, <3>1, SMT DEF Inv, Sole
      <3>3. f \in Output[w.plugin]
        BY <3>2, TasksTyped DEF TaskShape
      <3>4. w = t
        BY <1>3, <3>1, <3>2, <3>3, OneWriter
      <3> QED
        BY <1>1, <3>2, <3>4
    <2>6. Sound(t.commit, t.plugin) => \A g \in Stored(u) : store[t.commit][g] = "whole"
      BY <2>4, <2>5 DEF Inv, Kept
    <2>7. t.step # "copy" /\ u.step # "write"
      BY <1>1, <2>2
    <2> QED
      BY <1>2, <2>2, <2>3, <2>4, <2>6, <2>7, GoesInv
  <1>5. CASE store[t.commit][f] = "none"
    <2>1. PICK u : u = [t EXCEPT !.todo = t.todo \ {f}, !.file = f, !.step = "write"]
      OBVIOUS
    <2>2. /\ u \in Task /\ u.commit = t.commit /\ u.plugin = t.plugin /\ u.step = "write"
          /\ u.todo = t.todo \ {f} /\ u.file = f /\ u.existing = t.existing
      BY <1>1, <1>3, <2>1 DEF Task, Stages
    <2>3. Goes(t, u)
      BY <1>1, <1>5, <2>1 DEF Stat, Task
    <2>4. TaskShape(u)
      BY <1>1, <1>2, <1>3, <2>2 DEF TaskShape
    <2>5. Stored(u) \subseteq Stored(t)
      <3>1. NoFile \notin Output[t.plugin]
        BY <1>1, OutputFiles
      <3> QED
        BY <1>1, <1>3, <2>2, <3>1 DEF Stored
    <2>6. Sound(t.commit, t.plugin) => \A g \in Stored(u) : store[t.commit][g] = "whole"
      BY <2>5 DEF Inv, Kept
    <2>7. t.step # "copy"
      BY <1>1
    <2> QED
      BY <1>2, <1>5, <2>2, <2>3, <2>4, <2>6, <2>7, GoesInv
  <1> QED
    BY <1>4, <1>5

LEMMA CreateStepInv ==
    ASSUME Inv, NEW t \in tasks, Create(t), UNCHANGED <<backend, generators>>
    PROVE  Inv'
  <1>1. t \in Task /\ TaskShape(t) /\ t.step = "write" /\ backend = "disk"
    BY TasksTyped DEF Create
  <1>2. PICK u : u = [t EXCEPT !.step = "copy"]
    OBVIOUS
  <1>3. /\ u \in Task /\ u.commit = t.commit /\ u.plugin = t.plugin /\ u.step = "copy"
        /\ u.todo = t.todo /\ u.file = t.file /\ u.existing = t.existing
    BY <1>1, <1>2 DEF Task, Stages
  <1>4. TaskShape(u) /\ Stored(u) = Stored(t)
    BY <1>1, <1>3 DEF TaskShape, Stored
  <1>5. /\ Goes(t, u) /\ store' = [store EXCEPT ![t.commit][t.file] = "part"]
        /\ UNCHANGED <<backend, generators, jobs, tip, tried, torn>>
    BY <1>2 DEF Create
  <1> QED
    BY <1>1, <1>3, <1>4, <1>5, CreateInv

\* A file is whole: the task that wrote it goes back to its list.
LEMMA WroteTask ==
    ASSUME Inv, NEW t \in tasks, t.step \in {"write", "copy"},
           NEW u, u = [t EXCEPT !.step = "upload", !.file = NoFile]
    PROVE  /\ u \in Task /\ u.commit = t.commit /\ u.plugin = t.plugin /\ u.step = "upload"
           /\ TaskShape(u) /\ Stored(u) \subseteq Stored(t) \cup {t.file}
  <1>1. t \in Task /\ TaskShape(t)
    BY TasksTyped
  <1>2. /\ u \in Task /\ u.commit = t.commit /\ u.plugin = t.plugin /\ u.step = "upload"
        /\ u.todo = t.todo /\ u.file = NoFile /\ u.existing = t.existing
    BY <1>1 DEF Task, Stages
  <1> QED
    BY <1>1, <1>2 DEF TaskShape, Stored

LEMMA CopyStepInv ==
    ASSUME Inv, NEW t \in tasks, Copy(t), UNCHANGED <<backend, generators>>
    PROVE  Inv'
  <1>1. t.step = "copy" /\ backend = "disk" /\ UNCHANGED <<backend, generators, tip, tried>>
    BY TasksTyped DEF Copy, TaskShape
  <1>2. CASE /\ store' = [store EXCEPT ![t.commit][t.file] = "whole"]
             /\ Goes(t, [t EXCEPT !.step = "upload", !.file = NoFile])
             /\ UNCHANGED <<jobs, torn>>
    <2>1. PICK u : u = [t EXCEPT !.step = "upload", !.file = NoFile]
      OBVIOUS
    <2>2. /\ u \in Task /\ u.commit = t.commit /\ u.plugin = t.plugin /\ u.step = "upload"
          /\ TaskShape(u) /\ Stored(u) \subseteq Stored(t) \cup {t.file}
      BY <1>1, <2>1, WroteTask
    <2>3. Goes(t, u)
      BY <1>2, <2>1
    <2> QED
      BY <1>1, <1>2, <2>2, <2>3, CopyInv
  <1>3. CASE End(t, "failed") /\ torn' = torn \cup {t.commit} /\ store' = store
    BY <1>1, <1>3, FailInv
  <1> QED
    BY <1>2, <1>3 DEF Copy

LEMMA PutObjectInv ==
    ASSUME Inv, NEW t \in tasks, PutObject(t), UNCHANGED <<backend, generators>>
    PROVE  Inv'
  <1>1. /\ t.step = "write" /\ backend = "s3" /\ backend # "disk" /\ backend # "gitaly"
        /\ UNCHANGED <<backend, generators, tip, tried, torn>>
        /\ t.commit \in Versions /\ t.plugin \in Plugins /\ t.file \in Output[t.plugin]
    BY TasksTyped DEF PutObject, TaskShape
  <1>2. CASE /\ store' = [store EXCEPT ![t.commit][t.file] = "whole"]
             /\ Goes(t, [t EXCEPT !.step = "upload", !.file = NoFile])
             /\ jobs' = jobs
    <2>1. PICK u : u = [t EXCEPT !.step = "upload", !.file = NoFile]
      OBVIOUS
    <2>2. /\ u \in Task /\ u.commit = t.commit /\ u.plugin = t.plugin /\ u.step = "upload"
          /\ TaskShape(u) /\ Stored(u) \subseteq Stored(t) \cup {t.file}
      BY <1>1, <2>1, WroteTask
    <2>3. Goes(t, u)
      BY <1>2, <2>1
    <2>4. t.file \in Files /\ Stored(t) \subseteq Files
      BY <1>1, OutputFiles, TasksTyped, StoredIsOutput
    <2>5. /\ store' \in [Versions -> [Files -> {"none", "part", "whole"}]]
          /\ store'[t.commit][t.file] = "whole"
          /\ \A c \in Versions, f \in Files : c # t.commit \/ f # t.file => store'[c][f] = store[c][f]
      <3>1. store \in [Versions -> [Files -> {"none", "part", "whole"}]] /\ "whole" \in {"none", "part", "whole"}
        BY DEF Inv, ArtifactsType
      <3> QED
        BY <1>1, <1>2, <2>4, <3>1, TableUpdate
    <2>6. /\ \A c \in Versions, f \in Files : store'[c][f] = store[c][f] \/ store'[c][f] = "whole"
          /\ \A c \in Versions, f \in Files : store'[c][f] # "part"
          /\ \A c \in Versions, p \in Plugins : Sound(c, p) =>
                \A f \in Output[p] : store[c][f] = "whole" => store'[c][f] = "whole"
      <3>1. \A c \in Versions, f \in Files : store'[c][f] = store[c][f] \/ store'[c][f] = "whole"
        BY <2>5
      <3>2. \A c \in Versions, f \in Files : store[c][f] # "part"
        BY <1>1 DEF Inv, Sole
      <3> QED
        BY <3>1, <3>2, OutputFiles
    <2>7. \A f \in Stored(u) : store'[t.commit][f] = "whole"
      <3>1. \A f \in Stored(t) : store[t.commit][f] = "whole"
        BY <1>1 DEF Inv, Kept, Sound
      <3> QED
        BY <1>1, <2>2, <2>4, <2>5, <2>6, <3>1
    <2>8. tip' \in Nat
      BY <1>1 DEF Inv, ArtifactsType
    <2> QED
      BY <1>1, <1>2, <2>2, <2>3, <2>5, <2>6, <2>7, <2>8, GrowInv
  <1>3. CASE End(t, "failed") /\ store' = store
    BY <1>1, <1>3, FailInv
  <1> QED
    BY <1>2, <1>3 DEF PutObject

LEMMA ListExistingInv ==
    ASSUME Inv, NEW t \in tasks, ListExisting(t), UNCHANGED <<backend, generators>>
    PROVE  Inv'
  <1>1. t \in Task /\ TaskShape(t) /\ t.step = "upload" /\ backend \notin {"disk", "s3"}
    BY TasksTyped DEF ListExisting
  <1>2. UNCHANGED <<backend, generators, store, tip, tried, torn>>
    BY DEF ListExisting
  <1> DEFINE found == IF backend = "gitaly" THEN Present(t.commit) ELSE {}
  <1>3. CASE jobs' = jobs /\ Goes(t, [t EXCEPT !.step = "listed", !.existing = found])
    <2>1. found \in SUBSET Files /\ (found # {} => backend = "gitaly")
      BY DEF Present
    <2> HIDE DEF found
    <2>2. PICK u : u = [t EXCEPT !.step = "listed", !.existing = found]
      OBVIOUS
    <2>3. /\ u \in Task /\ u.commit = t.commit /\ u.plugin = t.plugin /\ u.step = "listed"
          /\ u.todo = t.todo /\ u.file = t.file /\ u.existing = found
      BY <1>1, <2>1, <2>2 DEF Task, Stages
    <2>4. TaskShape(u) /\ Stored(u) = {}
      BY <1>1, <2>1, <2>3 DEF TaskShape, Stored
    <2>5. Goes(t, u)
      BY <1>3, <2>2
    <2>6. t.step # "copy" /\ u.step # "write"
      BY <1>1, <2>3
    <2> QED
      BY <1>2, <1>3, <2>3, <2>4, <2>5, <2>6, GoesInv
  <1>4. CASE End(t, "failed")
    BY <1>1, <1>2, <1>4, FailInv
  <1> QED
    BY <1>3, <1>4 DEF ListExisting

LEMMA ReadHeadInv ==
    ASSUME Inv, NEW t \in tasks, ReadHead(t), UNCHANGED <<backend, generators>>
    PROVE  Inv'
  <1>1. t \in Task /\ TaskShape(t) /\ t.step = "listed" /\ tip \in Nat
    BY TasksTyped DEF ReadHead, Inv, ArtifactsType
  <1>2. PICK u : u = [t EXCEPT !.step = "based", !.head = tip]
    OBVIOUS
  <1>3. /\ u \in Task /\ u.commit = t.commit /\ u.plugin = t.plugin /\ u.step = "based"
        /\ u.todo = t.todo /\ u.file = t.file /\ u.existing = t.existing
    BY <1>1, <1>2 DEF Task, Stages
  <1>4. TaskShape(u) /\ Stored(u) = {}
    BY <1>1, <1>3 DEF TaskShape, Stored
  <1>5. Goes(t, u) /\ UNCHANGED <<backend, generators, jobs, store, tip, tried, torn>>
    BY <1>2 DEF ReadHead
  <1>6. t.step # "copy" /\ u.step # "write"
    BY <1>1, <1>3
  <1> QED
    BY <1>3, <1>4, <1>5, <1>6, GoesInv

\* The commit of PutFiles removes no file of a sound job: over Gitaly there is one
\* plugin, and over go-git nothing exists.
LEMMA PutFilesInv ==
    ASSUME Inv, NEW t \in tasks, PutFiles(t), UNCHANGED <<backend, generators>>
    PROVE  Inv'
  <1>1. /\ t \in Task /\ t.commit \in Versions /\ t.plugin \in Plugins /\ TaskShape(t) /\ t.step = "based"
        /\ backend \notin {"disk", "s3"} /\ UNCHANGED <<backend, generators, tried, torn>>
    BY TasksTyped DEF PutFiles, TaskShape
  <1> DEFINE after == [f \in Files |-> IF f \in Output[t.plugin] THEN "whole"
                                       ELSE IF f \in t.existing THEN "none" ELSE store[t.commit][f]]
  <1>2. CASE /\ store' = [store EXCEPT ![t.commit] = after]
             /\ tip' = tip + 1
             /\ Goes(t, [t EXCEPT !.step = "mark"])
             /\ jobs' = jobs
    <2>1. PICK u : u = [t EXCEPT !.step = "mark"]
      OBVIOUS
    <2>2. /\ u \in Task /\ u.commit = t.commit /\ u.plugin = t.plugin /\ u.step = "mark"
          /\ u.todo = t.todo /\ u.file = t.file /\ u.existing = t.existing
      BY <1>1, <2>1 DEF Task, Stages
    <2>3. TaskShape(u) /\ Stored(u) = Output[t.plugin]
      BY <1>1, <2>2 DEF TaskShape, Stored
    <2>4. Goes(t, u)
      BY <1>2, <2>1
    <2>5. store \in [Versions -> [Files -> {"none", "part", "whole"}]] /\ tip \in Nat
      BY DEF Inv, ArtifactsType
    <2>6. \A f \in Files : store[t.commit][f] # "part"
      BY <1>1 DEF Inv, Sole
    <2>7. /\ after \in [Files -> {"none", "whole"}]
          /\ \A f \in Output[t.plugin] : after[f] = "whole"
          /\ \A p \in Plugins : Sound(t.commit, p) =>
                \A f \in Output[p] : store[t.commit][f] = "whole" => after[f] = "whole"
      <3>1. \A f \in Files : after[f] \in {"none", "whole"}
        BY <1>1, <2>5, <2>6, SMT
      <3>2. \A f \in Output[t.plugin] : after[f] = "whole"
        BY <1>1, OutputFiles
      <3>3. ASSUME NEW p \in Plugins, Sound(t.commit, p), NEW f \in Output[p], store[t.commit][f] = "whole"
            PROVE  after[f] = "whole"
        <4>1. f \in Files
          BY OutputFiles
        <4>2. CASE backend = "gitaly"
          <5>1. p = t.plugin
            BY <1>1, <3>3, <4>2 DEF Sound, TaskShape
          <5> QED
            BY <3>2, <5>1
        <4>3. CASE backend # "gitaly"
          <5>1. t.existing = {}
            BY <1>1, <4>3 DEF TaskShape
          <5> QED
            BY <3>3, <4>1, <5>1
        <4> QED
          BY <4>2, <4>3
      <3> QED
        BY <3>1, <3>2, <3>3
    <2> HIDE DEF after
    <2>8. /\ store' \in [Versions -> [Files -> {"none", "part", "whole"}]]
          /\ store'[t.commit] = after
          /\ \A c \in Versions : c # t.commit => store'[c] = store[c]
      <3>1. after \in [Files -> {"none", "part", "whole"}]
        BY <2>7
      <3> QED
        BY <1>1, <1>2, <2>5, <3>1
    <2>9. /\ \A c \in Versions, f \in Files : store'[c][f] # "part"
          /\ \A c \in Versions, p \in Plugins : Sound(c, p) =>
                \A f \in Output[p] : store[c][f] = "whole" => store'[c][f] = "whole"
      <3>1. \A c \in Versions, f \in Files : store'[c][f] # "part"
        <4>1. \A c \in Versions, f \in Files : store[c][f] # "part"
          BY <1>1 DEF Inv, Sole
        <4>2. \A f \in Files : after[f] # "part"
          BY <2>7
        <4> QED
          BY <2>8, <4>1, <4>2
      <3> QED
        BY <2>7, <2>8, <3>1
    <2>10. \A f \in Stored(u) : store'[t.commit][f] = "whole"
      BY <2>3, <2>7, <2>8
    <2>11. tip' \in Nat
      BY <1>2, <2>5, SMT
    <2>12. backend # "disk"
      BY <1>1
    <2> QED
      BY <1>1, <1>2, <2>2, <2>3, <2>4, <2>8, <2>9, <2>10, <2>11, <2>12, GrowInv
  <1>3. CASE End(t, "failed") /\ UNCHANGED <<store, tip>>
    BY <1>1, <1>3, FailInv
  <1> QED
    BY <1>2, <1>3 DEF PutFiles

LEMMA UploadedInv ==
    ASSUME Inv, NEW t \in tasks, Uploaded(t), UNCHANGED <<backend, generators>>
    PROVE  Inv'
  <1>1. t \in Task /\ t.plugin \in Plugins /\ TaskShape(t) /\ t.step = "upload" /\ t.todo = {}
    BY TasksTyped DEF Uploaded
  <1>2. PICK u : u = [t EXCEPT !.step = "mark"]
    OBVIOUS
  <1>3. /\ u \in Task /\ u.commit = t.commit /\ u.plugin = t.plugin /\ u.step = "mark"
        /\ u.todo = t.todo /\ u.file = t.file /\ u.existing = t.existing
    BY <1>1, <1>2 DEF Task, Stages
  <1>4. TaskShape(u)
    BY <1>1, <1>3 DEF TaskShape
  <1>5. Stored(u) \subseteq Stored(t)
    <2>1. t.file = NoFile /\ NoFile \notin Output[t.plugin]
      BY <1>1, OutputFiles DEF TaskShape
    <2> QED
      BY <1>1, <1>3, <2>1 DEF Stored
  <1>6. Goes(t, u) /\ UNCHANGED <<backend, generators, jobs, store, tip, tried, torn>>
    BY <1>2 DEF Uploaded
  <1>7. Sound(t.commit, t.plugin) => \A f \in Stored(u) : store[t.commit][f] = "whole"
    BY <1>5 DEF Inv, Kept
  <1>8. t.step # "copy" /\ u.step # "write"
    BY <1>1, <1>3
  <1> QED
    BY <1>3, <1>4, <1>6, <1>7, <1>8, GoesInv

LEMMA MarkInv ==
    ASSUME Inv, NEW t \in tasks, Mark(t), UNCHANGED <<backend, generators>>
    PROVE  Inv'
  <1>1. t.step = "mark" /\ End(t, "succeeded") /\ UNCHANGED <<backend, generators, store, tip, tried, torn>>
    BY DEF Mark
  <1>2. Sound(t.commit, t.plugin) => \A f \in Output[t.plugin] : store[t.commit][f] = "whole"
    BY <1>1 DEF Inv, Kept, Stored
  <1>3. tasks' = tasks \ {t}
    BY <1>1 DEF End
  <1>4. jobs' = jobs \/ jobs' = [jobs EXCEPT ![t.commit][t.plugin] = "succeeded"]
    BY <1>1 DEF End
  <1>5. t.step # "copy"
    BY <1>1
  <1> QED
    BY <1>1, <1>2, <1>3, <1>4, <1>5, EndsInv

-----------------------------------------------------------------------------

LEMMA SameInv == ASSUME Inv, UNCHANGED artifacts PROVE Inv'
  <1>1. UNCHANGED <<backend, generators, jobs, store, tip, tasks, tried, torn>>
    BY DEF artifacts
  <1>2. Separate' /\ ArtifactsType' /\ \A t \in tasks' : TaskShape(t)'
    BY <1>1 DEF Inv, Separate, ArtifactsType, TaskShape
  <1>3. Kept' /\ Claims'
    BY <1>1 DEF Inv, Kept, Stored, Sound, Claims
  <1>4. Sole'
    BY <1>1, SMT DEF Inv, Sole
  <1>5. SucceededIsWhole'
    BY <1>1 DEF Inv, SucceededIsWhole
  <1> QED
    BY <1>2, <1>3, <1>4, <1>5 DEF Inv

LEMMA NextInv == Inv /\ [ArtifactsNext]_artifacts => Inv'
  <1> SUFFICES ASSUME Inv, [ArtifactsNext]_artifacts PROVE Inv'
    OBVIOUS
  <1>1. CASE UNCHANGED artifacts
    BY <1>1, SameInv
  <1>2. CASE ArtifactsNext
    <2>1. UNCHANGED <<backend, generators>>
      BY <1>2 DEF ArtifactsNext
    <2>2. ASSUME NEW c \in Versions, NEW p \in Plugins, Claim(c, p) PROVE Inv'
      BY <2>1, <2>2, ClaimInv
    <2>3. ASSUME NEW c \in Versions, NEW p \in Plugins, Recover(c, p) PROVE Inv'
      BY <2>1, <2>3, RecoverInv
    <2>4. ASSUME NEW t \in tasks, Work(t) PROVE Inv'
      <3>1. CASE Slow(t) \/ Crash(t) \/ Generate(t)
        BY <2>1, <3>1, SlowInv, CrashInv, GenerateInv
      <3>2. CASE \E f \in Files : Stat(t, f)
        BY <2>1, <3>2, StatInv
      <3>3. CASE Create(t) \/ Copy(t) \/ PutObject(t)
        BY <2>1, <3>3, CreateStepInv, CopyStepInv, PutObjectInv
      <3>4. CASE ListExisting(t) \/ ReadHead(t) \/ PutFiles(t)
        BY <2>1, <3>4, ListExistingInv, ReadHeadInv, PutFilesInv
      <3>5. CASE Uploaded(t) \/ Mark(t)
        BY <2>1, <3>5, UploadedInv, MarkInv
      <3> QED
        BY <2>4, <3>1, <3>2, <3>3, <3>4, <3>5 DEF Work
    <2> QED
      BY <1>2, <2>2, <2>3, <2>4 DEF ArtifactsNext, Run
  <1> QED
    BY <1>1, <1>2

\* A job that is recorded as succeeded has its whole output in the store, for any
\* number of workers that generate, upload, crash, overlap and retry, on every
\* backend (worker.go:250-345): on disk as long as no copy was cut short, and
\* over Gitaly when the commit has jobs for one plugin.
THEOREM WholeArtifacts == Separate /\ ArtifactsSpec => []SucceededIsWhole
  <1>1. Separate /\ ArtifactsInit => Inv
    BY InitInv
  <1>2. Inv => SucceededIsWhole
    BY DEF Inv
  <1> QED
    BY <1>1, <1>2, NextInv, PTL DEF ArtifactsSpec

=============================================================================
