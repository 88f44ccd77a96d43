------------------------------ MODULE GoProxy ------------------------------
(***************************************************************************)
(* The Go module proxy (goproxy/handler.go): the requests of `go get` for  *)
(* a generated SDK, on the registry of ReadPath, while the SDK workers of  *)
(* Artifacts generate and store it.                                        *)
(*                                                                         *)
(* A request names a module and, but for list and latest, the hash of a    *)
(* commit in its pseudo-version.  ServeHTTP has parsed the path.           *)
(***************************************************************************)
EXTENDS ReadPath, Artifacts

VARIABLES
    zip,     \* handler -> the archive it is writing
    listed,  \* versions that a response has listed
    served   \* version -> the complete archives sent of it, with the plugins
             \* that had succeeded when they were asked for

proxy == <<zip, listed, served>>

allvars == <<vars, artifacts, proxy>>

NoZip == [done |-> {}, paths |-> {}, entries |-> {}]

GoModule(x) == CHOOSE r \in h[x].rows : TRUE

\* authorize, after the lookup: the token's scopes, then CheckReadAccess without
\* them.
authorize(x) ==
    /\ At(x, "checkModules")
    /\ h[x].req.op \in ProxyOps
    /\ LET caller == h[x].req.caller IN
       IF ~ScopeAllows(caller.scopes, "module", "read", GoModule(x).name) THEN Reply(x, "forbidden")
       ELSE LET user == [caller EXCEPT !.scopes = [unrestricted |-> TRUE, values |-> {}]] IN
            IF CheckReadAccess(bound, user, h[x].rows) = {"ok"} THEN Goto(x, "read")
            ELSE Reply(x, "not_found")
    /\ UNCHANGED proxy

\* ListSucceededByModuleAndLang, of which there are fewer than its limit of 1000.
ListSucceeded(n) == {c \in Recorded : HasSdk(c) /\ ModuleOf[c] = n}

\* resolveCommit
resolveCommit(x) == {c \in {h[x].req.hash} \cap Recorded : ModuleOf[c] = GoModule(x).name}

handleList(x) ==
    /\ At(x, "read")
    /\ h[x].req.op = "list"
    /\ Add(x, ListSucceeded(GoModule(x).name), "done")
    /\ listed' = listed \cup ListSucceeded(GoModule(x).name)
    /\ UNCHANGED <<zip, served>>

\* The first of them by created_at, which may be equal in several rows.
handleLatest(x) ==
    /\ At(x, "read")
    /\ h[x].req.op = "latest"
    /\ LET all == ListSucceeded(GoModule(x).name) IN
       \/ all = {} /\ Reply(x, "not_found") /\ listed' = listed
       \/ \E c \in all : Add(x, {c}, "done") /\ listed' = listed \cup {c}
    /\ UNCHANGED <<zip, served>>

\* The version's date, or its go.mod: the generated one or a synthetic one.
handleInfoOrMod(x) ==
    /\ At(x, "read")
    /\ h[x].req.op \in {"info", "mod"}
    /\ IF resolveCommit(x) = {} THEN Reply(x, "not_found") ELSE Add(x, resolveCommit(x), "done")
    /\ UNCHANGED proxy

\* The plugins whose jobs for a commit have succeeded.
Done(c) == {p \in Plugins : c \in Versions /\ jobs[c][p] = "succeeded"}

\* Mutant of handleZip: it serves what is stored.
handleZipEarly(x) ==
    /\ At(x, "read")
    /\ h[x].req.op = "zip"
    /\ IF resolveCommit(x) = {} THEN Reply(x, "not_found") ELSE Add(x, resolveCommit(x), "files")
    /\ zip' = [zip EXCEPT ![x] = [NoZip EXCEPT !.done = Done(h[x].req.hash)]]
    /\ UNCHANGED <<listed, served>>

\* handleZip, up to the check that a job succeeded.
handleZip(x) ==
    /\ At(x, "read")
    /\ h[x].req.op = "zip"
    /\ LET found == {c \in resolveCommit(x) : HasSdk(c)} IN
       IF found = {} THEN Reply(x, "not_found") ELSE Add(x, found, "files")
    /\ zip' = [zip EXCEPT ![x] = [NoZip EXCEPT !.done = Done(h[x].req.hash)]]
    /\ UNCHANGED <<listed, served>>

\* ListFiles of the three backends.  ListBlobs of go-git, which takes a hash, fails
\* on the name of the branch.
DiskListFiles(c) == {Present(c)}

S3ListFiles(c) == {Present(c)}

GitalyListFiles(c) == IF backend = "gitaly over go-git" THEN {} ELSE {Present(c)}

Listing(c) ==
    CASE backend = "disk" -> DiskListFiles(c)
      [] backend = "s3" -> S3ListFiles(c)
      [] OTHER -> GitalyListFiles(c)

\* The files of the archive, or the client has it already (If-None-Match).
ListFiles(x) ==
    /\ At(x, "files")
    /\ LET list == Listing(h[x].req.hash) IN
       IF list = {} THEN Reply(x, "error") /\ zip' = zip
       ELSE IF list = {{}} THEN Reply(x, "not_found") /\ zip' = zip
       ELSE \/ Goto(x, "stream") /\ zip' = [zip EXCEPT ![x].paths = UNION list]
            \/ served[h[x].req.hash] # {} /\ Reply(x, "ok") /\ zip' = zip
    /\ UNCHANGED <<listed, served>>

\* GetFile of the three backends.  Over Gitaly, splitPath makes
\* "sdk-artifacts/sdk-artifacts" of the path of the artifact repository, where
\* nothing is.
DiskGetFile(c, f) == store[c][f]

S3GetFile(c, f) == store[c][f]

GitalyGetFile(c, f) == IF backend = "gitaly" THEN "none" ELSE store[c][f]

GetFile(c, f) ==
    CASE backend = "disk" -> DiskGetFile(c, f)
      [] backend = "s3" -> S3GetFile(c, f)
      [] OTHER -> GitalyGetFile(c, f)

\* streamIntoZip: the next file, or the archive is abandoned.
streamIntoZip(x, f) ==
    /\ At(x, "stream")
    /\ f \in zip[x].paths
    /\ LET content == GetFile(h[x].req.hash, f) IN
       IF content = "none"
       THEN Reply(x, "error") /\ zip' = [zip EXCEPT ![x] = NoZip]
       ELSE h' = h /\ zip' = [zip EXCEPT ![x].paths = @ \ {f},
                                         ![x].entries = @ \cup {<<f, content>>}]
    /\ UNCHANGED <<listed, served>>

CloseZip(x) ==
    /\ At(x, "stream")
    /\ zip[x].paths = {}
    /\ Reply(x, "ok")
    /\ zip' = [zip EXCEPT ![x] = NoZip]
    /\ served' = [served EXCEPT ![h[x].req.hash] =
                                 @ \cup {[done |-> zip[x].done, entries |-> zip[x].entries]}]
    /\ listed' = listed

ServeHTTP(x) ==
    \/ authorize(x)
    \/ handleList(x) \/ handleLatest(x) \/ handleInfoOrMod(x) \/ handleZip(x)
    \/ ListFiles(x) \/ CloseZip(x)
    \/ \E f \in Files : streamIntoZip(x, f)

\* A worker of the SDK queue.
GenerateSdks ==
    /\ Run(Versions \cap Recorded)
    /\ UNCHANGED <<registry, h, seen, calls, changes, backend, generators, proxy>>

ProxyNext ==
    \/ Next /\ UNCHANGED <<artifacts, proxy>>
    \/ (\E x \in Handlers : ServeHTTP(x)) /\ Observe /\ UNCHANGED <<scene, artifacts>>
    \/ GenerateSdks /\ UNCHANGED scene

ProxyInit ==
    /\ Init
    /\ ArtifactsInit
    /\ backend \in scene.backends
    /\ \A c \in Versions : generators[c] = scene.plugins
    /\ zip = [x \in Handlers |-> NoZip]
    /\ listed = {}
    /\ served = [c \in Versions |-> {}]

ProxySpec == ProxyInit /\ [][ProxyNext]_allvars

-----------------------------------------------------------------------------

\* What a plugin generates, as entries of an archive.
Whole(p) == {<<f, "whole">> : f \in Output[p]}

\* On disk and s3, whatever workers do while it is streamed, a complete archive has
\* everything that at least one plugin generates and that every plugin generates
\* whose job had succeeded when it was asked for (handler.go:540-598).  Archives
\* asked for when all jobs of the commit have succeeded are equal.  On disk this
\* is so when no copy was cut short; gitaly serves no archive (ListedDownloads).
ServedIsWhole ==
    \A c \in Versions : (backend = "disk" => c \notin torn) =>
        \A a \in served[c] :
            /\ \E p \in generators[c] : Whole(p) \subseteq a.entries
            /\ \A p \in a.done : Whole(p) \subseteq a.entries
            /\ a.done = generators[c] => a.entries = UNION {Whole(p) : p \in generators[c]}

\* A version that list or latest has shown is found when its archive is asked
\* for (handler.go:433-455, 526-568): the list and the archive go by the same
\* jobs, and a succeeded job stays one.
ListedIsServed ==
    [][\A x \in Handlers :
          /\ h[x].req.op = "zip"
          /\ h[x].step \in {"read", "files"}
          /\ h[x].req.hash \in listed
          /\ \E m \in h[x].req.mods : m.name = ModuleOf[h[x].req.hash]
          => h'[x].reply # "not_found"]_allvars

\* Not kept with two plugins.  handler.go:566: "SDK output for a commit is
\* immutable, so the response can be cached hard."  One succeeded job is enough
\* for an archive of what all of them have stored so far.
SdkIsImmutable ==
    \A c \in Versions : \A a, b \in served[c] : a.entries = b.entries

\* Not kept.  handler.go:190-191: "A missing or private module and an unauthorised
\* caller all produce 404".  A token whose scopes do not cover a private module is
\* answered 403 (227-229), and 404 if there is no such module.
ProxyAnswers404 ==
    \A x \in Handlers : h[x].reply = "forbidden" =>
        \E m \in h[x].req.mods : m.name \in seen[x].public

\* Not kept on gitaly, with either git backend: the archive of a version that is
\* listed can be downloaded.  sdk/storage/gitaly/gitaly.go:53-56 tells of a time when
\* "The failure was invisible until someone tried to download a generated SDK."
ListedDownloads ==
    [][\A x \in Handlers :
          /\ h[x].step \in {"files", "stream"}
          /\ h[x].req.hash \in listed
          /\ ~h'[x].broken
          => h'[x].reply # "error"]_allvars
=============================================================================
