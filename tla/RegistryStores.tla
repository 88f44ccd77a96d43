--------------------------- MODULE RegistryStores ---------------------------
(***************************************************************************)
(* The stores of the registry, on SQLite and on PostgreSQL                 *)
(* (internal/hades/storage/db/{resource,module,commit,opabinding,org,      *)
(* sdkjob,cirun,notification,auditlog,gitalyoplog}), in the style of       *)
(* AccountStores.                                                          *)
(*                                                                         *)
(* The username of an account is its number, and 0 stands for no name.  A  *)
(* module's name is the pair of its owner's username and its own.  Where a *)
(* store keeps several tables T is a record of them.                       *)
(***************************************************************************)
EXTENDS AccountStores, SequencesExt

CONSTANTS Modules,      \* the modules commits, jobs and check runs reference
          MaxAttempts,  \* sdkjob.MaxAttempts
          DefaultLimit, \* rows of a page whose limit is not positive, 50
          MaxLimit      \* the most rows of a page, 100

LiteModuleKnown(x) == x \in {UUID(m) : m \in Modules}

\* Empty text where an id is expected.
NoId == <<0, "text">>

\* The limits of the lists of modules and commits.
Clamped(limit) == IF limit <= 0 THEN DefaultLimit ELSE IF limit > MaxLimit THEN MaxLimit ELSE limit

\* LIMIT and OFFSET: the page of the rows s, in their order.
Page(s, limit, offset) ==
    SubSeq(s, offset + 1, IF offset + Clamped(limit) < Len(s) THEN offset + Clamped(limit) ELSE Len(s))

\* The pages that ORDER BY at DESC allows: rows of one time come in any order.
Pages(rows, V(_), limit, offset) ==
    {[j \in DOMAIN Page(s, limit, offset) |-> V(Page(s, limit, offset)[j])] :
        s \in {t \in SetToSeqs(rows) : \A j \in DOMAIN t, k \in DOMAIN t : j < k => t[j].at >= t[k].at}}

-----------------------------------------------------------------------------
(* resources: the type of every id.  A second registration is ignored. *)

LiteRegister(T, x, type) ==
    IF \E r \in T : r.id = ID(x) THEN T ELSE T \cup {[id |-> ID(x), type |-> type]}
PgRegister(T, x, type) ==
    IF \E r \in T : r.id = Uuid(x) THEN T ELSE T \cup {[id |-> Uuid(x), type |-> type]}

LiteResolveType(T, x) ==
    QueryRow(T, LAMBDA r : r.id = ID(x), LAMBDA r : [type |-> r.type], "ErrNotFound")
PgResolveType(T, x) ==
    Parsed(T, {x},
    QueryRow(T, LAMBDA r : r.id = Uuid(x), LAMBDA r : [type |-> r.type], "ErrNotFound"))

-----------------------------------------------------------------------------
(* opa_role_bindings, unique by subject, role and domain *)

Binding(i, subject, role, domain) == [id |-> i, subject |-> subject, role |-> role, domain |-> domain]
BindingDup(T, s, r, d) == \E b \in T : b.subject = s /\ b.role = r /\ b.domain = d

LiteBindingCreate(T, i, s, r, d) ==
    Result(IF BindingDup(T, s, r, d) THEN T ELSE T \cup {Binding(UUID(i), s, r, d)}, "none", {})
PgBindingCreate(T, i, s, r, d) ==
    Result(IF BindingDup(T, s, r, d) THEN T ELSE T \cup {Binding(i, s, r, d)}, "none", {})

\* One INSERT per binding; the batch gives one subject one role in each domain.
LiteBindingCreateBatch(T, ids, s, r, ds) ==
    Result(T \cup {Binding(UUID(ids[d]), s, r, d) : d \in {e \in ds : ~BindingDup(T, s, r, e)}}, "none", {})
PgBindingCreateBatch(T, ids, s, r, ds) ==
    Result(T \cup {Binding(ids[d], s, r, d) : d \in {e \in ds : ~BindingDup(T, s, r, e)}}, "none", {})

LiteBindingDelete(T, x) == Delete(T, LAMBDA b : b.id = ID(x))
PgBindingDelete(T, x) == Parsed(T, {x}, Delete(T, LAMBDA b : b.id = Uuid(x)))

\* SQLite answers the id as it is stored.
LiteListBySubject(T, s) == Query(T, LAMBDA b : b.subject = s, LAMBDA b : b)
PgListBySubject(T, s) == Query(T, LAMBDA b : b.subject = s, LAMBDA b : [b EXCEPT !.id = Text(@)])

LiteDeleteBySubjectDomain(T, s, d) == Delete(T, LAMBDA b : b.subject = s /\ b.domain = d)
PgDeleteBySubjectDomain(T, s, d) == Delete(T, LAMBDA b : b.subject = s /\ b.domain = d)

-----------------------------------------------------------------------------
(* modules.  T holds the modules, the resources and the bindings.  at is   *)
(* create_time: on SQLite the second of the insert, on PostgreSQL NOW().   *)

ModuleRow(i, name, owner, vis, at) ==
    [id |-> i, name |-> name, owner |-> owner, vis |-> vis, desc |-> "", at |-> at]

LiteModuleView(r) ==
    [id |-> Canonical(r.id), name |-> r.name, owner |-> Canonical(r.owner), vis |-> r.vis, desc |-> r.desc]
PgModuleView(r) ==
    [id |-> Text(r.id), name |-> r.name, owner |-> Text(r.owner), vis |-> r.vis, desc |-> r.desc]

\* The id a new row answers with is registered as a module.
LiteModuleCreate(T, i, name, u, vis, at) ==
    LET r == ModuleRow(UUID(i), name, ID(u), vis, at)
        res == LiteInsert(T.modules, r, \E q \in T.modules : q.name = name, LiteKnown(ID(u)), {LiteModuleView(r)})
    IN  IF res.err # "none" THEN Result(T, res.err, {})
        ELSE Result([T EXCEPT !.modules = res.table,
                              !.resources = LiteRegister(@, LiteModuleView(r).id, "module")], "none", res.rows)
PgModuleCreate(T, i, name, u, vis, at) ==
    Parsed(T, {u},
    LET r == ModuleRow(i, name, Uuid(u), vis, at)
        res == PgInsert(T.modules, r, \E q \in T.modules : q.name = name, PgKnown(Uuid(u)), {PgModuleView(r)})
    IN  IF res.err # "none" THEN Result(T, res.err, {})
        ELSE Result([T EXCEPT !.modules = res.table,
                              !.resources = PgRegister(@, PgModuleView(r).id, "module")], "none", res.rows))

\* The join with users by the owner's username, with the full name.
LiteNamed(r, o, n) == r.owner = UUID(o) /\ r.name = <<o, n>>
PgNamed(r, o, n) == r.owner = o /\ r.name = <<o, n>>

\* A field the request leaves unset keeps its value.
Coalesce(new, old) == IF new = None THEN old ELSE new

LiteModuleUpdate(T, o, n, desc, vis) ==
    LET after == Exec(T.modules, LAMBDA r : LiteNamed(r, o, n),
                      LAMBDA r : [r EXCEPT !.desc = Coalesce(desc, @), !.vis = Coalesce(vis, @)]).table
        res == LiteQueryRow(after, LAMBDA r : LiteNamed(r, o, n), LiteModuleView)
    IN  Result([T EXCEPT !.modules = after], res.err, res.rows)
PgModuleUpdate(T, o, n, desc, vis) ==
    LET after == Exec(T.modules, LAMBDA r : PgNamed(r, o, n),
                      LAMBDA r : [r EXCEPT !.desc = Coalesce(desc, @), !.vis = Coalesce(vis, @)]).table
        res == PgQueryRow(after, LAMBDA r : PgNamed(r, o, n), PgModuleView)
    IN  Result([T EXCEPT !.modules = after], res.err, res.rows)

\* The answer of a list of modules is the set of the pages it may be.
LiteListModules(T, o, limit, offset) ==
    Result(T, "none", Pages({r \in T.modules : o = 0 \/ r.owner = UUID(o)}, LiteModuleView, limit, offset))
PgListModules(T, o, limit, offset) ==
    Result(T, "none", Pages({r \in T.modules : o = 0 \/ r.owner = o}, PgModuleView, limit, offset))

LiteGetModuleByOwnerAndName(T, o, n) ==
    QueryRow(T.modules, LAMBDA r : LiteNamed(r, o, n), LiteModuleView, "ErrNotFound")
PgGetModuleByOwnerAndName(T, o, n) ==
    QueryRow(T.modules, LAMBDA r : PgNamed(r, o, n), PgModuleView, "ErrNotFound")

\* A reference is an id or a name; the first that is not found ends the call.
LiteGetModulesByRefs(T, ids, names) ==
    LET hit(r) == r.id \in {ID(x) : x \in ids} \/ r.name \in names
    IN  IF (\A x \in ids : \E r \in T.modules : r.id = ID(x)) /\ names \subseteq {r.name : r \in T.modules}
        THEN Query(T.modules, hit, LiteModuleView) ELSE Result(T.modules, "ErrNotFound", {})
PgGetModulesByRefs(T, ids, names) ==
    Parsed(T, ids,
    LET hit(r) == r.id \in {Uuid(x) : x \in ids} \/ r.name \in names
    IN  IF (\A x \in ids : \E r \in T.modules : r.id = Uuid(x)) /\ names \subseteq {r.name : r \in T.modules}
        THEN Query(T.modules, hit, PgModuleView) ELSE Result(T.modules, "pgx.ErrNoRows", {}))

Count(T, P(_)) == Result(T, "none", {[count |-> Cardinality({r \in T : P(r)})]})

LiteCountByOwner(T, u) == Count(T.modules, LAMBDA r : r.owner = ID(u))
PgCountByOwner(T, u) == Parsed(T, {u}, Count(T.modules, LAMBDA r : r.owner = Uuid(u)))

\* A binding of the subject names the module or its owner's namespace.
Bound(T, subject, r) ==
    subject # 0 /\ \E b \in T.bindings : b.subject = subject /\ b.domain \in {r.name, <<r.name[1], "*">>}

LiteListVisibleModules(T, o, subject, x, limit, offset) ==
    Result(T, "none", Pages({r \in T.modules : /\ o = 0 \/ r.owner = UUID(o)
                                               /\ \/ r.vis = "public"
                                                  \/ x # NoId /\ r.owner = ID(x)
                                                  \/ Bound(T, subject, r)}, LiteModuleView, limit, offset))

\* PostgreSQL compares the owner's id with the caller's as text.
PgListVisibleModules(T, o, subject, x, limit, offset) ==
    Result(T, "none", Pages({r \in T.modules : /\ o = 0 \/ r.owner = o
                                               /\ \/ r.vis = "public"
                                                  \/ x # NoId /\ Text(r.owner) = x
                                                  \/ Bound(T, subject, r)}, PgModuleView, limit, offset))

-----------------------------------------------------------------------------
(* commits.  T holds the commits and the resources.  A commit's hash is its *)
(* number and its prefix the parity of it.  seq is the order of insertion, *)
(* SQLite's rowid; at is create_time: on SQLite the second of the insert,  *)
(* on PostgreSQL NOW(), the finer time at which the transaction began.     *)

CommitRow(i, hash, owner, module, digest, at, seq) ==
    [id |-> i, hash |-> hash, owner |-> owner, module |-> module, digest |-> digest, at |-> at, seq |-> seq]

\* Unique by module and digest.
CommitDup(T, module, digest) == \E r \in T : r.module = module /\ r.digest = digest

LiteCommitCreate(T, i, u, m, digest, at, seq) ==
    LET res == LiteInsert(T.commits, CommitRow(UUID(i), i, ID(u), ID(m), digest, at, seq),
                          CommitDup(T.commits, ID(m), digest), LiteKnown(ID(u)) /\ LiteModuleKnown(ID(m)), {})
    IN  IF res.err # "none" THEN Result(T, res.err, {})
        ELSE Result([T EXCEPT !.commits = res.table, !.resources = LiteRegister(@, UUID(i), "commit")], "none", {})
PgCommitCreate(T, i, u, m, digest, at, seq) ==
    Parsed(T, {u, m},
    LET res == PgInsert(T.commits, CommitRow(i, i, Uuid(u), Uuid(m), digest, at, seq),
                        CommitDup(T.commits, Uuid(m), digest), PgKnown(Uuid(u)) /\ Uuid(m) \in Modules, {})
    IN  IF res.err # "none" THEN Result(T, res.err, {})
        ELSE Result([T EXCEPT !.commits = res.table, !.resources = PgRegister(@, Text(i), "commit")], "none", {}))

LiteCommitView(r) ==
    [id |-> Canonical(r.id), hash |-> r.hash, owner |-> Canonical(r.owner),
     module |-> Canonical(r.module), digest |-> r.digest]
PgCommitView(r) ==
    [id |-> Text(r.id), hash |-> r.hash, owner |-> Text(r.owner), module |-> Text(r.module), digest |-> r.digest]

LiteGetCommitById(T, x) == LiteQueryRow(T.commits, LAMBDA r : r.id = ID(x), LiteCommitView)
PgGetCommitById(T, x) ==
    Parsed(T, {x}, QueryRow(T.commits, LAMBDA r : r.id = Uuid(x), PgCommitView, "ErrNotFound"))

\* No commit with the digest is no error.
LiteGetCommitByDigest(T, m, digest) ==
    Query(T.commits, LAMBDA r : r.module = ID(m) /\ r.digest = digest, LiteCommitView)
PgGetCommitByDigest(T, m, digest) ==
    Parsed(T, {m},
    Query(T.commits, LAMBDA r : r.module = Uuid(m) /\ r.digest = digest, PgCommitView))

\* Mutant: the newest second decides, and among its commits the lower id.
LiteNewestBySecond(r, q) == r.at > q.at \/ (r.at = q.at /\ r.id[1] < q.id[1])

\* ORDER BY create_time DESC with the tiebreak of each backend.
LiteNewer(r, q) == r.at > q.at \/ (r.at = q.at /\ r.seq > q.seq)
PgNewer(r, q) == r.at > q.at \/ (r.at = q.at /\ r.id > q.id)

\* The newest commit of each named module and the commits with the ids.
LiteGetCommitByOwnerModule(T, ids, ms) ==
    LET first(r) == \A q \in T.commits : q.module = r.module => q = r \/ LiteNewer(r, q)
    IN  Query(T.commits, LAMBDA r : r.id \in {ID(x) : x \in ids} \/ (r.module \in {UUID(m) : m \in ms} /\ first(r)),
              LiteCommitView)
PgGetCommitByOwnerModule(T, ids, ms) ==
    Parsed(T, ids,
    LET first(r) == \A q \in T.commits : q.module = r.module => q = r \/ PgNewer(r, q)
    IN  Query(T.commits, LAMBDA r : r.id \in {Uuid(x) : x \in ids} \/ (r.module \in ms /\ first(r)), PgCommitView))

\* A page of a module's commits, newest first.
LiteListByModule(T, m, limit, offset) ==
    LET s == SetToSortSeq({r \in T.commits : r.module = ID(m)}, LiteNewer)
        page == Page(s, limit, offset)
    IN  Result(T, "none", {[j \in DOMAIN page |-> LiteCommitView(page[j])]})
PgListByModule(T, m, limit, offset) ==
    LET s == SetToSortSeq({r \in T.commits : r.module = Uuid(m)}, PgNewer)
        page == Page(s, limit, offset)
    IN  Parsed(T, {m}, Result(T, "none", {[j \in DOMAIN page |-> PgCommitView(page[j])]}))

LiteGetByHash(T, h) == QueryRow(T.commits, LAMBDA r : r.hash = h, LiteCommitView, "ErrNotFound")
PgGetByHash(T, h) == QueryRow(T.commits, LAMBDA r : r.hash = h, PgCommitView, "ErrNotFound")

\* The rows a prefix may answer with; either backend answers one of them.
Candidates(T, P(_), V(_)) ==
    IF \E r \in T : P(r) THEN Query(T, P, V) ELSE Result(T, "ErrNotFound", {})

LiteGetByHashPrefix(T, p) == Candidates(T.commits, LAMBDA r : r.hash % 2 = p, LiteCommitView)
PgGetByHashPrefix(T, p) == Candidates(T.commits, LAMBDA r : r.hash % 2 = p, PgCommitView)

\* The resources of the deleted commits stay.
LiteDeleteByIds(T, xs) ==
    Result([T EXCEPT !.commits = {r \in @ : r.id \notin {ID(x) : x \in xs}}], "none", {})
PgDeleteByIds(T, xs) ==
    Parsed(T, xs,
    Result([T EXCEPT !.commits = {r \in @ : r.id \notin {Uuid(x) : x \in xs}}], "none", {}))

-----------------------------------------------------------------------------
(* organisations.  T holds the accounts and the memberships; an            *)
(* organisation that is created is the account i, named i.                 *)

OrgRow(i, name) == [id |-> i, name |-> name, type |-> "org", desc |-> ""]
MemberRow(o, m, role) == [org |-> o, member |-> m, role |-> role]

LiteOrgView(r) == [r EXCEPT !.id = Canonical(@)]
PgOrgView(r) == [r EXCEPT !.id = Text(@)]

\* ON CONFLICT (org_id, member_id) the role changes.
UpsertMember(M, o, m, role) == {r \in M : r.org # o \/ r.member # m} \cup {MemberRow(o, m, role)}

HasAccount(T, x) == \E r \in T.users : r.id = x

LiteOrgCreate(T, i, name, u) ==
    LET r == OrgRow(UUID(i), name)
    IN  IF \E q \in T.users : q.name = name THEN Result(T, "2067", {})
        ELSE LET made == [T EXCEPT !.users = @ \cup {r}]
             IN  IF ~HasAccount(made, ID(u)) THEN Result(made, "787", {LiteOrgView(r)})
                 ELSE Result([made EXCEPT !.members = UpsertMember(@, ID(LiteOrgView(r).id), ID(u), "admin")],
                             "none", {LiteOrgView(r)})
PgOrgCreate(T, i, name, u) ==
    LET r == OrgRow(i, name)
        made == [T EXCEPT !.users = @ \cup {r}]
    IN  IF \E q \in T.users : q.name = name THEN Result(T, "23505", {})
        ELSE IF Malformed(u) THEN Result(made, "22P02", {PgOrgView(r)})
        ELSE IF ~HasAccount(made, Uuid(u)) THEN Result(made, "23503", {PgOrgView(r)})
        ELSE Result([made EXCEPT !.members = UpsertMember(@, i, Uuid(u), "admin")], "none", {PgOrgView(r)})

LiteOrgUpdate(T, x, desc) ==
    LET after == Exec(T.users, LAMBDA r : r.id = ID(x), LAMBDA r : [r EXCEPT !.desc = desc]).table
        res == LiteQueryRow(after, LAMBDA r : r.id = ID(x), LiteOrgView)
    IN  Result([T EXCEPT !.users = after], res.err, res.rows)
PgOrgUpdate(T, x, desc) ==
    Parsed(T, {x},
    LET after == Exec(T.users, LAMBDA r : r.id = Uuid(x), LAMBDA r : [r EXCEPT !.desc = desc]).table
        res == PgQueryRow(after, LAMBDA r : r.id = Uuid(x), PgOrgView)
    IN  Result([T EXCEPT !.users = after], res.err, res.rows))

LiteAddMember(T, x, u, role) ==
    IF ~HasAccount(T, ID(x)) \/ ~HasAccount(T, ID(u)) THEN Result(T, "787", {})
    ELSE Result([T EXCEPT !.members = UpsertMember(@, ID(x), ID(u), IF role = "" THEN "member" ELSE role)], "none", {})
PgAddMember(T, x, u, role) ==
    Parsed(T, {x, u},
    IF ~HasAccount(T, Uuid(x)) \/ ~HasAccount(T, Uuid(u)) THEN Result(T, "23503", {})
    ELSE Result([T EXCEPT !.members = UpsertMember(@, Uuid(x), Uuid(u), IF role = "" THEN "member" ELSE role)], "none", {}))

LiteRemoveMember(T, x, u) ==
    Result([T EXCEPT !.members = {r \in @ : ~(r.org = ID(x) /\ r.member = ID(u))}], "none", {})
PgRemoveMember(T, x, u) ==
    Parsed(T, {x, u},
    Result([T EXCEPT !.members = {r \in @ : ~(r.org = Uuid(x) /\ r.member = Uuid(u))}], "none", {}))

LiteGetByName(T, n) == LiteQueryRow(T.users, LAMBDA r : r.name = n /\ r.type = "org", LiteOrgView)
PgGetByName(T, n) == PgQueryRow(T.users, LAMBDA r : r.name = n /\ r.type = "org", PgOrgView)

LiteOrgList(T, found) == Query(T.users, LAMBDA r : r.type = "org" /\ r.name \in found, LiteOrgView)
PgOrgList(T, found) == Query(T.users, LAMBDA r : r.type = "org" /\ r.name \in found, PgOrgView)

LiteGetUserOrgs(T, u) ==
    Query(T.users, LAMBDA r : \E m \in T.members : m.org = r.id /\ m.member = ID(u), LiteOrgView)
PgGetUserOrgs(T, u) ==
    Parsed(T, {u},
    Query(T.users, LAMBDA r : \E m \in T.members : m.org = r.id /\ m.member = Uuid(u), PgOrgView))

LiteCountMembers(T, x) == Count(T.members, LAMBDA r : r.org = ID(x))
PgCountMembers(T, x) == Parsed(T, {x}, Count(T.members, LAMBDA r : r.org = Uuid(x)))

LiteGetMemberRole(T, x, u) ==
    LiteQueryRow(T.members, LAMBDA r : r.org = ID(x) /\ r.member = ID(u), LAMBDA r : [role |-> r.role])
PgGetMemberRole(T, x, u) ==
    Parsed(T, {x, u},
    PgQueryRow(T.members, LAMBDA r : r.org = Uuid(x) /\ r.member = Uuid(u), LAMBDA r : [role |-> r.role]))

\* The members that join with an account, each with its role.
LiteListMembers(T, x) ==
    Query(T.members, LAMBDA m : m.org = ID(x) /\ HasAccount(T, m.member),
          LAMBDA m : [user |-> Canonical(m.member), role |-> m.role])
PgListMembers(T, x) ==
    Parsed(T, {x},
    Query(T.members, LAMBDA m : m.org = Uuid(x) /\ HasAccount(T, m.member),
          LAMBDA m : [user |-> Text(m.member), role |-> m.role]))

-----------------------------------------------------------------------------
(* sdk_jobs.  lang is the generator's language, started the second a claim *)
(* was made.                                                               *)

JobRow(i, commit, module, lang) ==
    [id |-> i, commit |-> commit, module |-> module, lang |-> lang, status |-> "pending",
     attempts |-> 0, started |-> None]

LiteJobView(r) == [r EXCEPT !.id = Canonical(@), !.commit = Canonical(@), !.module = Canonical(@)]
PgJobView(r) == [r EXCEPT !.id = Text(@), !.commit = Text(@), !.module = Text(@)]

\* One INSERT per generator; ids gives the row of each.
LiteJobCreateBatch(T, ids, c, m, langs) ==
    IF langs # {} /\ ~LiteModuleKnown(ID(m)) THEN Result(T, "787", {})
    ELSE Result(T \cup {JobRow(UUID(ids[l]), ID(c), ID(m), l) : l \in langs}, "none", {})
PgJobCreateBatch(T, ids, c, m, langs) ==
    Parsed(T, IF langs = {} THEN {} ELSE {c, m},
    IF langs # {} /\ Uuid(m) \notin Modules THEN Result(T, "23503", {})
    ELSE Result(T \cup {JobRow(ids[l], Uuid(c), Uuid(m), l) : l \in langs}, "none", {}))

\* The limit is larger than the tables here, so every claimable job is claimed.
Claimable(r) == r.status = "pending" /\ r.attempts < MaxAttempts
Claimed(r, now) == [r EXCEPT !.status = "running", !.attempts = @ + 1, !.started = now]
ClaimView(v) == [id |-> v.id, commit |-> v.commit, module |-> v.module, lang |-> v.lang,
                 status |-> v.status, attempts |-> v.attempts]

LiteClaimPending(T, now) ==
    Result({IF Claimable(r) THEN Claimed(r, now) ELSE r : r \in T}, "none",
           {ClaimView(LiteJobView(Claimed(r, now))) : r \in {q \in T : Claimable(q)}})
PgClaimPending(T, now) ==
    Result({IF Claimable(r) THEN Claimed(r, now) ELSE r : r \in T}, "none",
           {ClaimView(PgJobView(Claimed(r, now))) : r \in {q \in T : Claimable(q)}})

LiteMarkSucceeded(T, x) == Exec(T, LAMBDA r : r.id = ID(x), LAMBDA r : [r EXCEPT !.status = "succeeded"])
PgMarkSucceeded(T, x) ==
    Parsed(T, {x}, Exec(T, LAMBDA r : r.id = Uuid(x), LAMBDA r : [r EXCEPT !.status = "succeeded"]))

FailedStatus(attempts) == IF attempts >= MaxAttempts THEN "dead" ELSE "failed"
LiteMarkFailed(T, x, n) == Exec(T, LAMBDA r : r.id = ID(x), LAMBDA r : [r EXCEPT !.status = FailedStatus(n)])
PgMarkFailed(T, x, n) ==
    Parsed(T, {x}, Exec(T, LAMBDA r : r.id = Uuid(x), LAMBDA r : [r EXCEPT !.status = FailedStatus(n)]))

LiteJobListByModule(T, m) == Query(T, LAMBDA r : r.module = ID(m), LiteJobView)
PgJobListByModule(T, m) == Parsed(T, {m}, Query(T, LAMBDA r : r.module = Uuid(m), PgJobView))

LiteListSucceededByModuleAndLang(T, m, l) ==
    Query(T, LAMBDA r : r.module = ID(m) /\ r.lang = l /\ r.status = "succeeded", LiteJobView)
PgListSucceededByModuleAndLang(T, m, l) ==
    Parsed(T, {m},
    Query(T, LAMBDA r : r.module = Uuid(m) /\ r.lang = l /\ r.status = "succeeded", PgJobView))

\* A commit has one job per language, so at most one; none is no error.
LiteGetByCommitAndLang(T, c, l) ==
    Query(T, LAMBDA r : r.commit = ID(c) /\ r.lang = l /\ r.status = "succeeded", LiteJobView)
PgGetByCommitAndLang(T, c, l) ==
    Parsed(T, {c},
    Query(T, LAMBDA r : r.commit = Uuid(c) /\ r.lang = l /\ r.status = "succeeded", PgJobView))

\* Both compare times, whatever way they are spelled; the answer is the count.
Stale(r, before) == r.status = "running" /\ r.started < before /\ r.attempts < MaxAttempts
Recover(T, before) ==
    Result({IF Stale(r, before) THEN [r EXCEPT !.status = "pending", !.started = None] ELSE r : r \in T},
           "none", {[count |-> Cardinality({r \in T : Stale(r, before)})]})
LiteRecoverStaleJobs(T, now, timeout) == Recover(T, now - timeout)
PgRecoverStaleJobs(T, now, timeout) == Recover(T, now - timeout)

-----------------------------------------------------------------------------
(* ci_runs: one row per module and commit, the last write wins *)

RunRow(i, m, hash, passed) == [id |-> i, module |-> m, hash |-> hash, passed |-> passed]

LiteRunView(r) == [r EXCEPT !.id = Canonical(@), !.module = Canonical(@)]
PgRunView(r) == [r EXCEPT !.id = Text(@), !.module = Text(@)]

LiteGetByModuleAndCommit(T, m, h) == LiteQueryRow(T, LAMBDA r : r.module = ID(m) /\ r.hash = h, LiteRunView)
PgGetByModuleAndCommit(T, m, h) ==
    Parsed(T, {m}, PgQueryRow(T, LAMBDA r : r.module = Uuid(m) /\ r.hash = h, PgRunView))

LiteRunCreate(T, i, m, h, passed) ==
    IF \E r \in T : r.module = ID(m) /\ r.hash = h
    THEN LiteGetByModuleAndCommit(Exec(T, LAMBDA r : r.module = ID(m) /\ r.hash = h,
                                       LAMBDA r : [r EXCEPT !.passed = passed]).table, ID(m), h)
    ELSE IF ~LiteModuleKnown(ID(m)) THEN Result(T, "787", {})
    ELSE LiteGetByModuleAndCommit(T \cup {RunRow(UUID(i), ID(m), h, passed)}, ID(m), h)
PgRunCreate(T, i, m, h, passed) ==
    Parsed(T, {m},
    LET mine(r) == r.module = Uuid(m) /\ r.hash = h
        after == IF \E r \in T : mine(r) THEN Exec(T, mine, LAMBDA r : [r EXCEPT !.passed = passed]).table
                 ELSE T \cup {RunRow(i, Uuid(m), h, passed)}
    IN  IF Uuid(m) \notin Modules THEN Result(T, "23503", {})
        ELSE Result(after, "none", {PgRunView(r) : r \in {q \in after : mine(q)}}))

-----------------------------------------------------------------------------
(* notifications.  The resource is text on both backends: the id of a job. *)

NoteRow(i, u, resource) == [id |-> i, user |-> u, resource |-> resource, read |-> FALSE]

LiteNoteCreate(T, i, u, x) ==
    LiteInsert(T, NoteRow(UUID(i), ID(u), ID(x)), FALSE, LiteKnown(ID(u)), {})
PgNoteCreate(T, i, u, x) ==
    Parsed(T, {u},
    PgInsert(T, NoteRow(i, Uuid(u), x), FALSE, PgKnown(Uuid(u)), {}))

\* One statement: all the rows or none.
LiteNoteCreateBatch(T, ids, us, x) ==
    IF \A u \in us : LiteKnown(ID(u))
    THEN Result(T \cup {NoteRow(UUID(ids[u]), ID(u), ID(x)) : u \in us}, "none", {}) ELSE Result(T, "787", {})
PgNoteCreateBatch(T, ids, us, x) ==
    Parsed(T, us,
    IF \A u \in us : PgKnown(Uuid(u))
    THEN Result(T \cup {NoteRow(ids[u], Uuid(u), x) : u \in us}, "none", {}) ELSE Result(T, "23503", {}))

\* SQLite answers the resource as it is stored.
LiteListForUser(T, u) ==
    Query(T, LAMBDA r : r.user = ID(u), LAMBDA r : [id |-> Canonical(r.id), resource |-> r.resource, read |-> r.read])
PgListForUser(T, u) ==
    Parsed(T, {u},
    Query(T, LAMBDA r : r.user = Uuid(u), LAMBDA r : [id |-> Text(r.id), resource |-> r.resource, read |-> r.read]))

LiteMarkRead(T, x, u) ==
    ExecOne(T, LAMBDA r : r.id = ID(x) /\ r.user = ID(u) /\ ~r.read,
            LAMBDA r : [r EXCEPT !.read = TRUE], "ErrNotFound")
PgMarkRead(T, x, u) ==
    Parsed(T, {x, u},
    ExecOne(T, LAMBDA r : r.id = Uuid(x) /\ r.user = Uuid(u) /\ ~r.read,
            LAMBDA r : [r EXCEPT !.read = TRUE], "ErrNotFound"))

-----------------------------------------------------------------------------
(* audit_log.  An attempt of nobody has no user; ip may be empty. *)

EventRow(i, u, event, ip) == [id |-> i, user |-> u, event |-> event, ip |-> ip]

LiteAuditCreate(T, i, u, event, ip) ==
    LET who == IF u = None THEN None ELSE ID(u)
    IN  LiteInsert(T, EventRow(UUID(i), who, event, ip), FALSE, who = None \/ LiteKnown(who), {})
PgAuditCreate(T, i, u, event, ip) ==
    Parsed(T, {u} \ {None},
    LET who == IF u = None THEN None ELSE Uuid(u)
    IN  PgInsert(T, EventRow(i, who, event, ip), FALSE, who = None \/ PgKnown(who), {}))

LiteAuditList(T, u) ==
    Query(T, LAMBDA r : r.user # None /\ r.user = ID(u), LAMBDA r : [r EXCEPT !.id = @[1], !.user = Canonical(@)])
PgAuditList(T, u) ==
    Parsed(T, {u},
    Query(T, LAMBDA r : r.user # None /\ r.user = Uuid(u), LAMBDA r : [r EXCEPT !.user = Text(@)]))

LiteRecentIPsForUser(T, u) ==
    Query(T, LAMBDA r : r.user # None /\ r.user = ID(u) /\ r.ip # "", LAMBDA r : [ip |-> r.ip])
PgRecentIPsForUser(T, u) ==
    Parsed(T, {u},
    Query(T, LAMBDA r : r.user # None /\ r.user = Uuid(u) /\ r.ip # "", LAMBDA r : [ip |-> r.ip]))

-----------------------------------------------------------------------------
(* gitaly_operation_log.  Empty text is stored as NULL. *)

OpRow(i, u) == [id |-> i, user |-> u, status |-> "pending", hash |-> None]

LiteCreatePending(T, i, u) == LiteInsert(T, OpRow(UUID(i), ID(u)), FALSE, LiteKnown(ID(u)), {[id |-> i]})
PgCreatePending(T, i, u) ==
    Parsed(T, {u}, PgInsert(T, OpRow(i, Uuid(u)), FALSE, PgKnown(Uuid(u)), {[id |-> i]}))

LiteUpdateStatus(T, i, status, hash) ==
    Exec(T, LAMBDA r : r.id = UUID(i), LAMBDA r : [r EXCEPT !.status = status, !.hash = hash])
PgUpdateStatus(T, i, status, hash) ==
    Exec(T, LAMBDA r : r.id = i, LAMBDA r : [r EXCEPT !.status = status, !.hash = hash])
=============================================================================
