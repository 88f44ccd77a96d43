------------------------------ MODULE ReadPath ------------------------------
(***************************************************************************)
(* Reading the registry: the handlers of the module, commit, content and   *)
(* metadata services and of buf's adapters in front of them, ListModules   *)
(* page by page, and UpdateModule, while modules are created and changed,  *)
(* roles granted and revoked and commits pushed.                           *)
(*                                                                         *)
(* A handler takes one step per database, policy or git call.  What the    *)
(* policy is asked about is the row that an earlier step has read.  A push *)
(* moves the git head before its commit has a row (Push); the binding      *)
(* cache in front of the policy is in OrgMembership.  The commit of a hash *)
(* or an id never changes, so it is read with its module's row.            *)
(***************************************************************************)
EXTENDS Policy, SequencesExt

CONSTANTS
    Names,            \* names of modules
    Commits,          \* commits
    NoCommit,         \* no commit
    ModuleOf,         \* commit -> module
    Initial,          \* module -> the commit it is created with
    Size,             \* commit -> bytes of its files
    Bindings,         \* role bindings that are granted and revoked
    Handlers,         \* request handlers
    Scenarios,        \* the registries and requests to start with
    DefaultPageSize,
    MaxPageSize,
    maxListScanBatches,
    maxDownloadRefs,
    maxDownloadBytes,
    maxFileContentBytes,
    MaxCalls          \* bound on requests

VARIABLES
    scene,    \* the scenario
    created,  \* the modules that exist, newest first
    vis,      \* module -> visibility
    bound,    \* role bindings
    log,      \* recorded commits, oldest first
    head,     \* module -> git head
    puts,     \* pushes that have moved a head and not recorded their commit
    h,        \* handler -> call
    seen,     \* handler -> what was true at some moment of its call
    calls,    \* requests so far
    changes   \* changes so far

registry == <<created, vis, bound, log, head, puts>>

vars == <<scene, created, vis, bound, log, head, puts, h, seen, calls, changes>>

Row == [name: Names, vis: {"public", "private"}]

Exists == {created[i] : i \in 1..Len(created)}

Recorded == {log[i] : i \in 1..Len(log)}

\* The operations on one module, by its name; they take any failure to look it
\* up for its absence.
NamedOps == {"ListCommits", "GetCommit", "GetCommitDiff", "ListModuleFiles", "GetFileContent",
             "GetCIRun", "ListSDKs"}

\* The operations of buf's adapters, on ids and names of commits and modules.
RefOps == {"GetCommits", "GetGraph", "Download"}

\* The requests of the Go module proxy (GoProxy).
ProxyOps == {"list", "latest", "info", "mod", "zip"}

Ops == NamedOps \cup RefOps \cup ProxyOps \cup {"GetModules", "ListModules", "UpdateModule"}

Ref == [by: {"name", "id"}, name: Names]

NoRequest == [op |-> "", caller |-> [user |-> "", scopes |-> [unrestricted |-> FALSE, values |-> {}]],
              commits |-> {}, mods |-> {}, label |-> FALSE, hash |-> NoCommit, want |-> "",
              owner |-> "", size |-> 0]

Idle == [step |-> "idle", req |-> NoRequest, todo |-> {}, cur |-> NoCommit, rows |-> {},
         got |-> {}, shown |-> {}, bytes |-> 0, offset |-> 0, page |-> << >>, batch |-> 0,
         visible |-> 0, sent |-> << >>, reply |-> "", broken |-> FALSE]

Nothing == [read |-> {}, public |-> {}, publish |-> {}, had |-> {}, quiet |-> TRUE]

-----------------------------------------------------------------------------
(* What others do meanwhile. *)

Change == changes < scene.changes /\ changes' = changes + 1 /\ UNCHANGED <<h, calls>>

\* CreateModuleByName, its last step.
CreateModule(n, v) ==
    /\ n \notin Exists
    /\ Change
    /\ created' = <<n>> \o created
    /\ vis' = [vis EXCEPT ![n] = v]
    /\ head' = [head EXCEPT ![n] = Initial[n]]
    /\ log' = Append(log, Initial[n])
    /\ UNCHANGED <<bound, puts>>

\* AddBinding
Grant(b) ==
    /\ b \notin bound
    /\ Change
    /\ bound' = bound \cup {b}
    /\ UNCHANGED <<created, vis, log, head, puts>>

\* DeleteBinding: every role of the subject in the domain.
Revoke(b) ==
    /\ b \in bound
    /\ Change
    /\ bound' = {a \in bound : a.subject # b.subject \/ a.domain # b.domain}
    /\ UNCHANGED <<created, vis, log, head, puts>>

\* An upload commits to git, and then records the commit or takes the head back.
Put(c) ==
    /\ ModuleOf[c] \in Exists
    /\ c \notin Recorded \cup {Initial[n] : n \in Names}
    /\ \A p \in puts : p.commit # c
    /\ Change
    /\ head' = [head EXCEPT ![ModuleOf[c]] = c]
    /\ puts' = puts \cup {[commit |-> c, before |-> head[ModuleOf[c]]]}
    /\ UNCHANGED <<created, vis, bound, log>>

Record(p) ==
    /\ puts' = puts \ {p}
    /\ log' = Append(log, p.commit)
    /\ UNCHANGED <<created, vis, bound, head, h, calls, changes>>

Undo(p) ==
    /\ puts' = puts \ {p}
    /\ head' = [head EXCEPT ![ModuleOf[p.commit]] = IF @ = p.commit THEN p.before ELSE @]
    /\ UNCHANGED <<created, vis, bound, log, h, calls, changes>>

-----------------------------------------------------------------------------
(* Calls. *)

Goto(x, s) == h' = [h EXCEPT ![x].step = s]

\* The call ends.
Reply(x, r) == h' = [h EXCEPT ![x].step = "done", ![x].reply = r]

At(x, s) == h[x].step = s /\ UNCHANGED <<registry, calls, changes>>

FirstStep(req) ==
    IF req.op = "ListModules" THEN "query"
    ELSE IF req.op = "UpdateModule" THEN "can"
    ELSE "commits"

\* A request arrives.  buf's adapters have sorted the ids of a request into
\* commits and modules, and refused labels.
Begin(x, req) ==
    /\ h[x].step = "idle"
    /\ calls < MaxCalls
    /\ calls' = calls + 1
    /\ h' = [h EXCEPT ![x] = [Idle EXCEPT !.req = req, !.todo = req.commits,
                                          !.step = FirstStep(req)]]
    /\ UNCHANGED <<registry, changes>>

Refs(req) == Cardinality(req.commits) + Cardinality(req.mods)

Accepted(req) == ~req.label /\ (req.op = "Download" => Refs(req) <= maxDownloadRefs)

\* The adapters, and the bound on a download.
Reject(x) ==
    /\ At(x, "commits")
    /\ ~Accepted(h[x].req)
    /\ Reply(x, IF h[x].req.label THEN "unimplemented" ELSE "invalid")

RowOf(n) == [name |-> n, vis |-> vis[n]]

\* GetCommitById or GetByHash, and the row of the commit's module.
LookupCommit(x, c) ==
    /\ At(x, "commits")
    /\ Accepted(h[x].req)
    /\ c \in h[x].todo
    /\ IF c \in Recorded
       THEN h' = [h EXCEPT ![x].step = "checkCommit", ![x].cur = c, ![x].todo = @ \ {c},
                           ![x].rows = {RowOf(ModuleOf[c])}]
       ELSE Reply(x, "not_found")

\* What a response may hold.
Within(req, bytes) ==
    CASE req.op = "Download" -> bytes <= maxDownloadBytes
      [] req.op = "GetFileContent" -> bytes <= maxFileContentBytes
      [] OTHER -> TRUE

\* The commits C of the modules just checked are added to the response.
Add(x, C, next) ==
    LET bytes == h[x].bytes + MapThenSumSet(LAMBDA c : Size[c], C) IN
    IF ~Within(h[x].req, bytes) THEN Reply(x, "exhausted")
    ELSE h' = [h EXCEPT ![x].step = next, ![x].bytes = bytes, ![x].got = @ \cup C,
                        ![x].shown = @ \cup {r.name : r \in h[x].rows},
                        ![x].reply = IF next = "done" THEN "ok" ELSE ""]

\* CheckReadAccess on the module of the commit, then its files.
CheckCommit(x) ==
    /\ At(x, "checkCommit")
    /\ \E v \in CheckReadAccess(bound, h[x].req.caller, h[x].rows) :
          IF v = "ok" THEN Add(x, {h[x].cur}, "commits") ELSE Reply(x, v)

\* GetModulesByRefs
LookupModules(x) ==
    /\ At(x, "commits")
    /\ Accepted(h[x].req)
    /\ h[x].todo = {}
    /\ LET names == {m.name : m \in h[x].req.mods} IN
       IF names = {} THEN Reply(x, "ok")
       ELSE IF names \subseteq Exists
            THEN h' = [h EXCEPT ![x].step = "checkModules", ![x].rows = {RowOf(n) : n \in names}]
            ELSE Reply(x, "not_found")

CheckModules(x) ==
    /\ At(x, "checkModules")
    /\ h[x].req.op \notin ProxyOps
    /\ \E v \in CheckReadAccess(bound, h[x].req.caller, h[x].rows) :
          IF v = "ok" THEN Goto(x, "read") ELSE Reply(x, v)

\* The last recorded commit of a module.
Latest(n) ==
    {log[i] : i \in {i \in 1..Len(log) : /\ ModuleOf[log[i]] = n
                                         /\ \A j \in (i + 1)..Len(log) : ModuleOf[log[j]] # n}}

\* Mutant of GetCommitByOwnerModule: one row for all the refs.
GetCommitByOwnerModuleOne(refs) ==
    LET named == {m \in refs : m.by = "name"} IN
    IF named = {} THEN {} ELSE Latest((CHOOSE m \in named : TRUE).name)

\* GetCommitByOwnerModule: a ref by name is the module's last commit; a ref by
\* id is looked up among the ids of commits, where no module's is.
GetCommitByOwnerModule(refs) == UNION {Latest(m.name) : m \in {m \in refs : m.by = "name"}}

\* Mutant of resolveRef: any commit will do.
resolveRefGlobal(n, c) == IF c = NoCommit THEN {head[n]} ELSE {c} \cap Recorded

\* resolveRef: the head, or a recorded commit of this module.
resolveRef(n, c) ==
    IF c = NoCommit THEN {head[n]} ELSE {d \in {c} \cap Recorded : ModuleOf[d] = n}

\* The recorded commits of a module, newest first.
History(n) == Reverse(SelectSeq(log, LAMBDA c : ModuleOf[c] = n))

\* What the handlers read of the modules that they have checked.
ListSDKs(names) == {c \in Recorded : ModuleOf[c] \in names}

GetCIRun(names, c) == {d \in {c} \cap Recorded : ModuleOf[d] \in names}

ListModuleFiles(names, c) == UNION {resolveRef(n, c) : n \in names}

GetFileContent(names, c) == UNION {resolveRef(n, c) : n \in names}

GetCommits(refs) == GetCommitByOwnerModule(refs)

GetGraph(refs) == GetCommitByOwnerModule(refs)

Download(refs) == GetCommitByOwnerModule(refs)

Contents(req) ==
    LET names == {m.name : m \in req.mods} IN
    CASE req.op = "ListSDKs" -> ListSDKs(names)
      [] req.op = "GetCIRun" -> GetCIRun(names, req.hash)
      [] req.op = "ListModuleFiles" -> ListModuleFiles(names, req.hash)
      [] req.op = "GetFileContent" -> GetFileContent(names, req.hash)
      [] req.op = "GetCommits" -> GetCommits(req.mods)
      [] req.op = "GetGraph" -> GetGraph(req.mods)
      [] req.op = "Download" -> Download(req.mods)
      [] OTHER -> {}

\* The read behind the check.
Read(x) ==
    /\ At(x, "read")
    /\ h[x].req.op \notin ProxyOps \cup {"ListCommits"}
    /\ IF /\ h[x].req.op \in {"ListModuleFiles", "GetFileContent", "GetCIRun"}
          /\ Contents(h[x].req) = {}
       THEN Reply(x, "not_found")
       ELSE Add(x, Contents(h[x].req), "done")

Page(size) == IF size <= 0 THEN DefaultPageSize ELSE IF size > MaxPageSize THEN MaxPageSize ELSE size

\* Mutant of NextPageToken: it counts in pages.
NextPageTokenPages(returned, limit, offset) ==
    IF returned < limit THEN {} ELSE {offset + limit + 1}

\* The offset of the next page, if there is one.
NextPageToken(returned, limit, offset) == IF returned < limit THEN {} ELSE {offset + limit}

\* ListByModule, one page of it; the client follows the token.
ListPage(x) ==
    /\ At(x, "read")
    /\ h[x].req.op = "ListCommits"
    /\ LET all == History((CHOOSE m \in h[x].req.mods : TRUE).name)
           limit == Page(h[x].req.size)
           rows == {all[i] : i \in {i \in 1..Len(all) : i > h[x].offset /\ i <= h[x].offset + limit}}
           next == NextPageToken(Cardinality(rows), limit, h[x].offset)
       IN  h' = [h EXCEPT ![x].got = @ \cup rows,
                          ![x].shown = @ \cup {r.name : r \in h[x].rows},
                          ![x].offset = IF next = {} THEN @ ELSE CHOOSE o \in next : TRUE,
                          ![x].step = IF next = {} THEN "done" ELSE "commits",
                          ![x].reply = IF next = {} THEN "ok" ELSE ""]

\* What the failure of the database, the policy engine or git is answered with.
Failure(c) ==
    IF \/ c.req.op \in NamedOps \cup ProxyOps /\ c.step = "commits"
       \/ c.req.op \in ProxyOps /\ c.step = "checkModules"
       \/ c.req.op = "latest" /\ c.step = "read"
       \/ c.req.op = "GetCIRun" /\ c.step = "read"
       \/ c.req.op \in {"ListModuleFiles", "GetFileContent"} /\ c.step = "read" /\ c.req.hash # NoCommit
    THEN {"not_found", "error"} ELSE {"error"}

Fail(x) ==
    /\ h[x].step \notin {"idle", "done", "filter"}
    /\ UNCHANGED <<registry, calls, changes>>
    /\ \E r \in Failure(h[x]) :
          h' = [h EXCEPT ![x].step = "done", ![x].reply = r, ![x].broken = TRUE]

\* The answer is sent.
Send(x) ==
    /\ At(x, "done")
    /\ h' = [h EXCEPT ![x] = Idle]

-----------------------------------------------------------------------------
(* ListModules, called with the token of the last page until there is none.  *)

\* The predicate of the query.
Visible(caller, n) ==
    \/ vis[n] = "public"
    \/ caller.user # "" /\ n.ns = caller.user
    \/ caller.user # "" /\ \E b \in bound : /\ b.subject = caller.user
                                            /\ b.domain \in {n, Domain(n.ns, "*")}

\* ListVisibleModules
ListVisibleModules(caller, owner, limit, offset) ==
    LET rows == SelectSeq(created, LAMBDA n : owner \in {"", n.ns} /\ Visible(caller, n))
        stop == IF offset + limit < Len(rows) THEN offset + limit ELSE Len(rows)
    IN  [i \in 1..(IF stop > offset THEN stop - offset ELSE 0) |-> RowOf(rows[offset + i])]

Query(x) ==
    /\ At(x, "query")
    /\ LET rows == ListVisibleModules(h[x].req.caller, h[x].req.owner, Page(h[x].req.size),
                                      h[x].offset)
       IN  IF rows = << >> THEN Reply(x, "ok")
           ELSE h' = [h EXCEPT ![x].step = "filter", ![x].page = rows]

\* The rows of a batch that are looked at until the page is full.
Scanned(page, ok, room) ==
    IF Cardinality(ok) < room THEN Len(page)
    ELSE CHOOSE i \in ok : Cardinality({j \in ok : j <= i}) = room

\* Mutant of NextOffset: the rows after the one that fills the page count as scanned.
NextOffsetBatch(offset, page, k) == offset + Len(page)

\* The offset after the first k rows of a batch.
NextOffset(offset, page, k) == offset + k

\* CheckReadAccess on the rows of the batch, the next batch, the next page.  A row
\* whose check fails is left out.
Filter(x, lost) ==
    /\ At(x, "filter")
    /\ \A i \in lost : i \in DOMAIN h[x].page /\ h[x].page[i].vis = "private"
    /\ LET c == h[x]
           limit == Page(c.req.size)
           ok == {i \in DOMAIN c.page \ lost :
                     CheckReadAccess(bound, c.req.caller, {c.page[i]}) = {"ok"}}
           k == Scanned(c.page, ok, limit - c.visible)
           shown == SelectSeq([i \in 1..k |-> [i |-> i, name |-> c.page[i].name]],
                              LAMBDA e : e.i \in ok)
           visible == c.visible + Len(shown)
           full == visible >= limit \/ c.batch + 1 = maxListScanBatches
       IN  h' = [h EXCEPT ![x] =
                   [c EXCEPT !.step = IF Len(c.page) < limit THEN "done" ELSE "query",
                             !.reply = IF Len(c.page) < limit THEN "ok" ELSE "",
                             !.broken = @ \/ lost # {},
                             !.offset = NextOffset(@, c.page, k),
                             !.page = << >>,
                             !.batch = IF full THEN 0 ELSE @ + 1,
                             !.visible = IF full THEN 0 ELSE visible,
                             !.sent = @ \o [i \in 1..Len(shown) |-> shown[i].name]]]

-----------------------------------------------------------------------------
(* UpdateModule *)

Target(x) == CHOOSE n \in Names : \E m \in h[x].req.mods : m.name = n

CanUpdate(x) ==
    /\ At(x, "can")
    /\ IF h[x].req.caller.user = "" THEN Reply(x, "unauthenticated")
       ELSE IF ~Can(bound, h[x].req.caller, "update", Target(x)) THEN Reply(x, "denied")
       ELSE Goto(x, IF h[x].req.want = "public" THEN "current" ELSE "update")

\* Mutant of Current: publishing is not checked.
CurrentOpen(x) ==
    /\ At(x, "current")
    /\ IF Target(x) \notin Exists THEN Reply(x, "not_found") ELSE Goto(x, "update")

\* The row before a change to public.
Current(x) ==
    /\ At(x, "current")
    /\ IF Target(x) \notin Exists THEN Reply(x, "not_found")
       ELSE Goto(x, IF vis[Target(x)] = "public" THEN "update" ELSE "publish")

CanPublish(x) ==
    /\ At(x, "publish")
    /\ IF Can(bound, h[x].req.caller, "publish", Target(x)) THEN Goto(x, "update")
       ELSE Reply(x, "denied")

\* Update: the columns that the request leaves out keep their values.
Update(x) ==
    /\ h[x].step = "update"
    /\ UNCHANGED <<created, bound, log, head, puts, calls, changes>>
    /\ IF Target(x) \in Exists
       THEN /\ vis' = IF h[x].req.want = "" THEN vis ELSE [vis EXCEPT ![Target(x)] = h[x].req.want]
            /\ Reply(x, "ok")
       ELSE vis' = vis /\ Reply(x, "not_found")

-----------------------------------------------------------------------------

Readable(exists, v, b, caller) ==
    {n \in exists : CheckReadAccess(b, caller, {[name |-> n, vis |-> v[n]]}) = {"ok"}}

\* What is true after a step, added to what was true before it.
Observe ==
    seen' = [x \in Handlers |->
        IF h'[x].step = "idle" THEN Nothing
        ELSE LET was == IF h[x].step = "idle" THEN Nothing ELSE seen[x]
                 exists == {created'[i] : i \in 1..Len(created')}
                 caller == h'[x].req.caller
             IN  [read |-> was.read \cup Readable(exists, vis', bound', caller),
                  public |-> was.public \cup {n \in exists : vis'[n] = "public"},
                  had |-> IF h[x].step = "idle" THEN Recorded ELSE was.had,
                  publish |-> was.publish \cup {n \in exists : Can(bound', caller, "publish", n)},
                  quiet |-> was.quiet /\ ~h'[x].broken /\ (h[x].step = "idle" \/ UNCHANGED registry)]]

Serve(x) ==
    \/ \E req \in scene.requests[x] : Begin(x, req)
    \/ Reject(x)
    \/ \E c \in Commits : LookupCommit(x, c)
    \/ CheckCommit(x) \/ LookupModules(x) \/ CheckModules(x) \/ Read(x) \/ ListPage(x)
    \/ Fail(x) \/ Send(x)
    \/ Query(x) \/ \E lost \in SUBSET (1..MaxPageSize) : Filter(x, lost)
    \/ CanUpdate(x) \/ Current(x) \/ CanPublish(x) \/ Update(x)

Others ==
    \/ \E n \in scene.fresh, v \in {"public", "private"} : CreateModule(n, v)
    \/ \E b \in Bindings : Grant(b) \/ Revoke(b)
    \/ \E c \in Commits : Put(c)
    \/ \E p \in puts : Record(p) \/ Undo(p)

Next ==
    /\ Others \/ \E x \in Handlers : Serve(x)
    /\ Observe
    /\ UNCHANGED scene

Init ==
    /\ scene \in Scenarios
    /\ created = scene.created
    /\ vis = scene.vis
    /\ bound = scene.bound
    /\ log = Reverse([i \in 1..Len(created) |-> Initial[created[i]]]) \o scene.pushed
    /\ head = [n \in Names |-> IF n \in Exists THEN CHOOSE c \in Latest(n) : TRUE ELSE NoCommit]
    /\ puts = {}
    /\ h = [x \in Handlers |-> Idle]
    /\ seen = [x \in Handlers |-> Nothing]
    /\ calls = 0
    /\ changes = 0

Spec == Init /\ [][Next]_vars

-----------------------------------------------------------------------------
(* What holds. *)

\* The variables have the types their comments give them.
TypeOK ==
    /\ created \in Seq(Names)
    /\ vis \in [Names -> {"public", "private"}]
    /\ \A b \in bound : b.role \in DOMAIN role_permissions
    /\ log \in Seq(Commits)
    /\ \A n \in Names : IF n \in Exists THEN head[n] \in {c \in Commits : ModuleOf[c] = n}
                        ELSE head[n] = NoCommit
    /\ puts \subseteq [commit: Commits, before: Commits]
    /\ \A x \in Handlers :
          /\ h[x].req.op \in Ops \cup {""}
          /\ h[x].req.mods \subseteq Ref
          /\ h[x].rows \subseteq Row
          /\ h[x].got \subseteq Commits
          /\ h[x].shown \subseteq Names
          /\ h[x].bytes \in Nat /\ h[x].offset \in Nat /\ h[x].visible \in Nat

Answered(x, S) == h[x].step = "done" /\ h[x].reply = "ok" /\ h[x].req.op \in S

\* Everything that a response shows is of a module that the caller could read at
\* some moment of the call, however visibility and roles change between the
\* lookup, the check and the read (CheckReadAccess, authorization.go:271-339).  Its
\* commits are the ones named or belong to the modules named: a hash of another
\* module is not found (handler.go:61-79).
OnlyReadable ==
    \A x \in Handlers :
        /\ Answered(x, Ops \ {"UpdateModule"}) =>
              h[x].shown \cup {ModuleOf[c] : c \in h[x].got} \cup Range(h[x].sent) \subseteq seen[x].read
        /\ Answered(x, NamedOps \cup RefOps \cup ProxyOps) =>
              \A c \in h[x].got : c \in h[x].req.commits \/ \E m \in h[x].req.mods : m.name = ModuleOf[c]

\* The Go proxy has a token whose scopes do not cover a module of the request.
ScopedOut(x) ==
    /\ h[x].req.op \in ProxyOps
    /\ \E m \in h[x].req.mods : ~ScopeAllows(h[x].req.caller.scopes, "module", "read", m.name)

\* Refusing a read tells nothing of a private module: "permission denied", or 403,
\* means that a module of the request was public (authorization.go:271-322).  The
\* one exception is the Go proxy, which answers 403 to a token whose scopes do
\* not cover a module that exists (goproxy/handler.go:227-229; ProxyAnswers404).
PrivateIsNotFound ==
    \A x \in Handlers :
        /\ h[x].reply \in {"denied", "forbidden"}
        /\ h[x].req.op # "UpdateModule"
        /\ ~ScopedOut(x)
        => \E n \in seen[x].public :
              \/ \E m \in h[x].req.mods : m.name = n
              \/ \E c \in h[x].req.commits : ModuleOf[c] = n

\* A caller who may read everything that a call names, and who names only what
\* exists, gets it when nothing changes or fails meanwhile: the checks, the scopes
\* and the lookups do not lose it on the way.  This is about the calls on commits
\* and modules by id or name; calls for one hash may not find it in the module.
GrantedIsServed ==
    \A x \in Handlers :
        /\ h[x].step = "done"
        /\ seen[x].quiet
        /\ h[x].req.op \in RefOps \cup {"GetModules", "ListCommits", "GetCommit", "ListModuleFiles",
                                        "list"}
        /\ Accepted(h[x].req)
        /\ h[x].req.hash = NoCommit
        /\ h[x].req.commits \subseteq Recorded
        /\ {m.name : m \in h[x].req.mods} \cup {ModuleOf[c] : c \in h[x].req.commits}
              \subseteq Readable(Exists, vis, bound, h[x].req.caller)
        => \/ h[x].reply = "exhausted"
           \/ /\ h[x].reply = "ok"
              /\ h[x].req.commits \subseteq h[x].got
              /\ h[x].req.op \in RefOps =>
                    \A m \in h[x].req.mods : m.by = "name" => Latest(m.name) \subseteq h[x].got

\* Following the tokens of ListModules to the end shows exactly the modules that
\* the caller may read, each once, newest first, when nothing changes meanwhile
\* (module.go:108-174).  A scoped token may miss the end of the list (see below)
\* but has no gap; the query shows superadmins less than the policy.
ModulesListed ==
    \A x \in Handlers :
        LET c == h[x].req.caller
            mine == SelectSeq(created, LAMBDA n : /\ h[x].req.owner \in {"", n.ns}
                                                  /\ n \in Readable(Exists, vis, bound, c))
        IN  /\ Answered(x, {"ListModules"})
            /\ seen[x].quiet
            /\ c.user \notin Superadmins
            => /\ IsPrefix(h[x].sent, mine)
               /\ c.scopes.unrestricted => h[x].sent = mine

\* Following the tokens of ListCommits to the end shows every commit that was
\* recorded when the first page was asked for, whatever is pushed meanwhile
\* (handler.go:81-115, paging.go:38-55).
CommitsListed ==
    \A x \in Handlers : Answered(x, {"ListCommits"}) =>
        \A c \in seen[x].had : (\E m \in h[x].req.mods : m.name = ModuleOf[c]) => c \in h[x].got

\* Page after page, a listing loses nothing that the caller may see.
ListingsComplete == ModulesListed /\ CommitsListed

\* A private module becomes public only by a caller who could publish it during
\* the call, or when it was public at some moment of the call
\* (module.go:450-480).
PublishNeedsPermission ==
    [][\A n \in Names : vis[n] = "private" /\ vis'[n] = "public" /\ n \in Exists =>
          \E x \in Handlers : /\ h[x].step = "update"
                              /\ n \in seen[x].publish \cup seen[x].public]_vars

-----------------------------------------------------------------------------
(* Not kept. *)

\* paging.go:38-39: a list token is empty "when the returned page was the last
\* one": a scoped token is shown every module that it may read.
ScopedListingExact ==
    \A x \in Handlers :
        /\ Answered(x, {"ListModules"})
        /\ seen[x].quiet
        => Range(h[x].sent) = {n \in Readable(Exists, vis, bound, h[x].req.caller) :
                                  Visible(h[x].req.caller, n) /\ h[x].req.owner \in {"", n.ns}}

\* module.go:450: "Making a private module public is checked separately."
PublishChecked ==
    [][\A n \in Names : vis[n] = "private" /\ vis'[n] = "public" /\ n \in Exists =>
          \E x \in Handlers : h[x].step = "update" /\ n \in seen[x].publish]_vars
=============================================================================
