----------------------------- MODULE MCReadPath -----------------------------
(* Instances of ReadPath and GoProxy for TLC. *)
EXTENDS GoProxy

m1 == Domain("ann", "m1")
m2 == Domain("org", "m2")
m3 == Domain("org", "m3")
m4 == Domain("org", "m4")
m5 == Domain("org", "m5")

MCNames == {m1, m2, m3, m4, m5}
MCModuleOf == [i1 |-> m1, i2 |-> m2, i3 |-> m3, i4 |-> m4, i5 |-> m5, c2 |-> m2]
MCCommits == DOMAIN MCModuleOf
MCInitial == (m1 :> "i1") @@ (m2 :> "i2") @@ (m3 :> "i3") @@ (m4 :> "i4") @@ (m5 :> "i5")
MCSize == [c \in MCCommits |-> IF c = "c2" THEN 3 ELSE 1]

Session == [unrestricted |-> TRUE, values |-> {}]
Scoped(S) == [unrestricted |-> FALSE, values |-> S]
Scope(action, domain) == [resource |-> "module", action |-> action, domain |-> domain]

anonymous == [user |-> "", scopes |-> Session]
ann == [user |-> "ann", scopes |-> Session]
bob == [user |-> "bob", scopes |-> Session]
oli == [user |-> "oli", scopes |-> Session]
root == [user |-> "root", scopes |-> Session]
bobReads == [user |-> "bob", scopes |-> Scoped({Scope("read", Domain("org", "*"))})]
annUpdates == [user |-> "ann", scopes |-> Scoped({Scope("update", NoDomain), Scope("read", m1)})]

Role(s, r, d) == [subject |-> s, role |-> r, domain |-> d]
annOwns == Role("ann", "owner", Domain("ann", "*"))
oliOwns == Role("oli", "owner", Domain("org", "*"))
bobReader == Role("bob", "reader", Domain("org", "*"))
bobAdmin == Role("bob", "admin", m2)
MCBindings == {bobReader, bobAdmin}

Named(S) == {[by |-> "name", name |-> n] : n \in S}
Req(op, caller) == [NoRequest EXCEPT !.op = op, !.caller = caller]

On(op, caller, n) == [Req(op, caller) EXCEPT !.mods = Named({n})]
Of(op, caller, commits, names) == [Req(op, caller) EXCEPT !.commits = commits, !.mods = Named(names)]

Reads ==
    UNION {{Of("GetCommits", c, {"i2", "c2"}, {}), Of("GetGraph", c, {"i1"}, {m2}),
            Of("Download", c, {"c2"}, {m1}), On("GetModules", c, m2),
            [On("ListCommits", c, m2) EXCEPT !.size = 1]} : c \in {bob, bobReads}}
    \cup {Of("GetGraph", ann, {}, {m1, m2}), Of("GetGraph", bob, {}, {m2, m3}),
          [On("GetFileContent", ann, m1) EXCEPT !.hash = "i2"]}
    \cup {Of("GetCommit", bob, {"c2"}, {}), Of("GetCommitDiff", bob, {"i2"}, {}),
          Of("Download", bob, {"c2"}, {m1, m3}), On("ListSDKs", bob, m2),
          On("ListModuleFiles", bob, m2), [On("GetFileContent", bob, m2) EXCEPT !.hash = "c2"],
          [On("GetCIRun", bob, m2) EXCEPT !.hash = "i2"],
          [On("GetModules", bob, m2) EXCEPT !.label = TRUE],
          [Req("GetCommits", bob) EXCEPT !.mods = {[by |-> "id", name |-> m2]}],
          On("GetModules", anonymous, m2), Of("GetModules", root, {}, {m1, m2})}

Lists ==
    UNION {{[Req("ListModules", c) EXCEPT !.size = 1], [Req("ListModules", c) EXCEPT !.size = 9],
            [Req("ListModules", c) EXCEPT !.owner = "org"]} : c \in {ann, bob}}
    \cup {Req("ListModules", anonymous), Req("ListModules", root)}

\* What `go get` asks, about the module of the commit and about another one.
Gets ==
    {[On(op, bobReads, m2) EXCEPT !.hash = "c2"] : op \in {"mod", "zip"}}
    \cup {On("list", bobReads, m2), On("latest", bob, m2), On("list", annUpdates, m2),
          [On("zip", ann, m1) EXCEPT !.hash = "c2"]}

Updates ==
    UNION {{[On("UpdateModule", c, n) EXCEPT !.want = v] :
               v \in {"", "public", "private"}, n \in {m1, m2}} : c \in {ann, annUpdates, bob}}
    \cup {On("UpdateModule", anonymous, m1)}

\* What another handler does to m2.
Flips == {[On("UpdateModule", oli, m2) EXCEPT !.want = v] : v \in {"public", "private"}}

Start(order, first, second) ==
    [created |-> order,
     vis |-> [n \in MCNames |-> IF n = m3 THEN "public" ELSE "private"],
     fresh |-> {m3},
     bound |-> {annOwns, oliOwns},
     pushed |-> << >>,
     backends |-> {"none"},
     plugins |-> {"gen"},
     changes |-> 2,
     requests |-> <<first, second>>]

\* c2 is pushed and its SDK is not generated yet.
ProxyStart(backends) ==
    [Start(<<m2, m1>>, Gets, {}) EXCEPT !.pushed = <<"c2">>, !.bound = @ \cup {bobReader},
                                        !.backends = backends, !.changes = 1]

\* The same with two plugins, and only the archive asked for.
TwoPlugins(backends) ==
    [ProxyStart(backends) EXCEPT !.plugins = {"gen", "grpc"}, !.changes = 0,
        !.requests = <<{[On("zip", bob, m2) EXCEPT !.hash = "c2"]}, {}>>]

\* Five public modules, which a token lists page by page and may read but for m1.
Wide(order, size) ==
    [Start(order, {[Req("ListModules", bobReads) EXCEPT !.size = size]}, {})
        EXCEPT !.vis = [n \in MCNames |-> "public"], !.changes = 0]

MCScenarios == {Start(<<m2, m1>>, Reads, Flips), Start(<<m3, m2, m1>>, Lists, Flips),
                Start(<<m2, m1>>, Updates, Flips), Wide(<<m1, m2, m3, m4, m5>>, 2),
                ProxyStart({"disk", "s3", "gitaly"}), TwoPlugins({"disk", "s3", "gitaly"})}

MCOutput == [gen |-> {"f1", "f2"}, grpc |-> {"f3"}]

-----------------------------------------------------------------------------
(* Further instances. *)

\* Pages of three, the last batch of which is short.
WideScenarios == {Wide(<<m2, m1, m3, m4, m5>>, 3)}

\* A token that may update a public module, and its owner, who makes it private.
PublishScenarios ==
    {[Start(<<m1>>, {[On("UpdateModule", annUpdates, m1) EXCEPT !.want = "public"]},
            {[On("UpdateModule", ann, m1) EXCEPT !.want = "private"]})
        EXCEPT !.vis = [n \in MCNames |-> "public"], !.changes = 0]}

\* Only workers, on one backend; only the proxy.
DiskScenarios == {[ProxyStart({"disk"}) EXCEPT !.requests = <<{}, {}>>, !.changes = 0]}
GitScenarios == {[ProxyStart({"gitaly", "gitaly over go-git"}) EXCEPT !.changes = 0]}
GitalyScenarios == {[TwoPlugins({"gitaly"}) EXCEPT !.requests = <<{}, {}>>]}
=============================================================================
