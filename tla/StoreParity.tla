---------------------------- MODULE StoreParity ----------------------------
(***************************************************************************)
(* One sequence of storage calls made on both backends.  The rule is that  *)
(* of internal/hades/storage/db/parity_test.go: a storage method behaves   *)
(* the same way on SQLite and on PostgreSQL, the error it returns and the  *)
(* rows it touches included.  The store "git" compares go-git and Gitaly   *)
(* in the same way, the store "cache" MemoryCache and RedisCache.          *)
(*                                                                         *)
(* A behaviour exercises the tables of one store, focus.  Every action is  *)
(* one method that writes, called with the same inputs on both; methods    *)
(* that only read are compared in every state.  An id reaches a method in  *)
(* any of its spellings.  A call that inserts draws the number of the call *)
(* as its id.                                                              *)
(***************************************************************************)
EXTENDS RegistryStores, GitStores, Caches

CONSTANTS MaxCalls,  \* bound on the writes of a behaviour
          MaxTime,   \* bound on the clock, in seconds
          Overlap,   \* stores whose writers may overlap
          Forms,     \* the spellings ids come in
          Contents   \* what files in git may contain

VARIABLES focus,  \* the store under test
          lite,   \* its tables on SQLite, the repository of go-git, or MemoryCache
          pg,     \* its tables on PostgreSQL, the repository of Gitaly, or RedisCache
          ans,    \* the last write's answers
          now,    \* seconds
          calls   \* writes made

vars == <<focus, lite, pg, ans, now, calls>>

\* Account 1 exists, account 2 does not; both ids come in every spelling.
Two == {1, 2}
Refs == Two \X Forms

\* What a method that looks for one row is asked for: text that is no id too.
Lookups == Refs \cup {<<1, "text">>}
Spelled(i) == {i} \X Forms

Stores == {"user", "session", "emailverification", "passwordreset", "totpsecret", "backupcode",
           "oauthidentity", "apitoken", "devicegrant", "opabinding", "module", "commit", "org",
           "sdkjob", "cirun", "notification", "auditlog", "gitalyoplog", "git", "cache"}

\* The accounts an organisation store starts with.
Accounts(Col(_)) == {[id |-> Col(u), name |-> u, type |-> "user", desc |-> ""] : u \in Users}

Empty(store, Col(_)) ==
    CASE store = "module" -> [modules |-> {}, resources |-> {}, bindings |-> {}]
      [] store = "commit" -> [commits |-> {}, resources |-> {}]
      [] store = "org" -> [users |-> Accounts(Col), members |-> {}]
      [] store = "git" -> NoRepository
      [] store = "cache" -> NoCache
      [] OTHER -> {}

Ok == [code |-> "ok", rows |-> {}]

Init ==
    /\ focus \in Stores
    /\ lite = Empty(focus, UUID)
    /\ pg = Empty(focus, LAMBDA i : i)
    /\ ans = [lite |-> Ok, pg |-> Ok]
    /\ now = 0
    /\ calls = 0

Answer(res) ==
    [code |-> IF focus = "git" THEN GitCode(res.err) ELSE FromDB(res.err), rows |-> res.rows]

\* The effect of one call: l is what SQLite does, p what PostgreSQL does.
Effect(l, p) ==
    /\ lite' = l.table
    /\ pg' = p.table
    /\ ans' = [lite |-> Answer(l), pg |-> Answer(p)]
    /\ UNCHANGED <<focus, now>>

Call(l, p) ==
    /\ calls < MaxCalls
    /\ Effect(l, p)
    /\ calls' = calls + 1

New == calls + 1

\* Only these stores compare times.
Tick ==
    /\ focus \in {"session", "module", "commit", "sdkjob", "cache"}
    /\ now < IF focus = "cache" THEN 2 * MaxTime ELSE MaxTime
    /\ now' = now + 1
    /\ UNCHANGED <<focus, lite, pg, ans, calls>>

-----------------------------------------------------------------------------
UserWrites ==
    /\ focus = "user"
    /\ \/ \E name \in Two, email \in {"", "a"}, type \in {"user", "org"} :
            Call(LiteUserCreate(lite, New, name, email, type, "p"), PgUserCreate(pg, New, name, email, type, "p"))
       \/ \E u \in Lookups : Call(LiteUserUpdate(lite, u, "d"), PgUserUpdate(pg, u, "d"))
       \/ \E u \in Refs :
            \/ Call(LiteIncrementFailedLogins(lite, u), PgIncrementFailedLogins(pg, u))
            \/ Call(LiteResetFailedLogins(lite, u), PgResetFailedLogins(pg, u))
            \/ Call(LiteLockUntil(lite, u), PgLockUntil(pg, u))
            \/ Call(LiteSetEmailVerified(lite, u), PgSetEmailVerified(pg, u))
            \/ Call(LiteUpdatePassword(lite, u, "q"), PgUpdatePassword(pg, u, "q"))

SessionWrites ==
    /\ focus = "session"
    /\ \/ \E u \in Refs, exp \in 1 .. 2 :
            \/ Call(LiteSessionCreate(lite, New, u, exp), PgSessionCreate(pg, New, u, exp))
            \/ Call(LiteCreateWithToken(lite, New, u, New, exp), PgCreateWithToken(pg, New, u, New, exp))
       \/ \E i \in Two :
            \/ Call(LiteTouch(lite, i, now + 1), PgTouch(pg, i, now + 1))
            \/ Call(LiteSessionRevoke(lite, i), PgSessionRevoke(pg, i))
            \/ Call(LiteMarkTOTPVerified(lite, i), PgMarkTOTPVerified(pg, i))
            \/ \E u \in Refs : Call(LiteRevokeAllForUser(lite, u, i), PgRevokeAllForUser(pg, u, i))

VerificationWrites ==
    /\ focus = "emailverification"
    /\ \/ \E u \in Refs, token \in Two :
            Call(LiteVerificationCreate(lite, New, u, token, 1), PgVerificationCreate(pg, New, u, token, 1))
       \/ \E i \in Two : Call(LiteVerificationMarkUsed(lite, i), PgVerificationMarkUsed(pg, i))

ResetWrites ==
    /\ focus = "passwordreset"
    /\ \/ \E u \in Refs, token \in Two :
            Call(LiteResetCreate(lite, New, u, token, 1), PgResetCreate(pg, New, u, token, 1))
       \/ \E u \in Refs : Call(LiteInvalidateForUser(lite, u), PgInvalidateForUser(pg, u))
       \/ \E i \in Two : Call(LiteResetMarkUsed(lite, i), PgResetMarkUsed(pg, i))

SecretWrites ==
    /\ focus = "totpsecret"
    /\ \E u \in Refs :
          \/ Call(LiteUpsert(lite, New, u, New), PgUpsert(pg, New, u, New))
          \/ Call(LiteEnable(lite, u), PgEnable(pg, u))
          \/ \E c \in Two : Call(LiteConsumeCounter(lite, u, c), PgConsumeCounter(pg, u, c))
          \/ Call(LiteSecretDelete(lite, u), PgSecretDelete(pg, u))

\* The ids of the rows of one batch.
Batch(S) == [c \in S |-> 10 * New + c]

BackupWrites ==
    /\ focus = "backupcode"
    /\ \/ \E u \in Refs :
            \/ \E codes \in SUBSET Two :
                 Call(LiteCreateBatch(lite, Batch(Two), u, codes), PgCreateBatch(pg, Batch(Two), u, codes))
            \/ Call(LiteDeleteAllForUser(lite, u), PgDeleteAllForUser(pg, u))
       \/ \E i \in {11, 12, 21} : Call(LiteCodeMarkUsed(lite, i), PgCodeMarkUsed(pg, i))

IdentityWrites ==
    /\ focus = "oauthidentity"
    /\ \/ \E u \in Refs, p, uid \in Two :
            Call(LiteIdentityCreate(lite, New, u, p, uid), PgIdentityCreate(pg, New, u, p, uid))
       \/ \E i \in Two : Call(LiteIdentityDelete(lite, i), PgIdentityDelete(pg, i))
       \/ \E u \in Refs, p \in Two :
            Call(LiteDeleteByUserAndProvider(lite, u, p), PgDeleteByUserAndProvider(pg, u, p))

TokenWrites ==
    /\ focus = "apitoken"
    /\ \/ \E u \in Refs, token \in Two, s \in {<<>>, <<"read">>, <<"read", "write">>} :
            Call(LiteAPITokenCreate(lite, New, u, token, s), PgAPITokenCreate(pg, New, u, token, s))
       \/ \E i \in Two :
            \/ Call(LiteAPITokenRevoke(lite, i), PgAPITokenRevoke(pg, i))
            \/ \E u \in Refs : Call(LiteRevokeByOwner(lite, i, u), PgRevokeByOwner(pg, i, u))
            \/ Call(LiteUpdateLastUsed(lite, i), PgUpdateLastUsed(pg, i))

GrantWrites ==
    /\ focus = "devicegrant"
    /\ \/ \E device, code \in Two :
            Call(LiteGrantCreate(lite, New, device, code), PgGrantCreate(pg, New, device, code))
       \/ \E i \in Two :
            \/ \E u \in Refs : Call(LiteApprove(lite, i, u), PgApprove(pg, i, u))
            \/ \E t \in Two : Call(LiteAttachToken(lite, i, t), PgAttachToken(pg, i, t))

-----------------------------------------------------------------------------
\* When a transaction that inserts began, which is PostgreSQL's NOW(): with the
\* call, or, when transactions overlap, with any earlier one.
Begun == IF focus \in Overlap THEN 0 .. calls ELSE {calls}

\* A module of an owner, or the owner's namespace.
Domains == Two \X {"m", "*"}

BindingWrites ==
    /\ focus = "opabinding"
    /\ \/ \E s \in Two, d \in Domains, r \in {"owner", "reader"} :
            Call(LiteBindingCreate(lite, New, s, r, d), PgBindingCreate(pg, New, s, r, d))
       \/ \E s \in Two, ds \in {D \in SUBSET Domains : Cardinality(D) <= 2} :
            LET ids == [d \in Domains |-> 10 * New + d[1] + IF d[2] = "m" THEN 0 ELSE 2]
            IN  Call(LiteBindingCreateBatch(lite, ids, s, "owner", ds), PgBindingCreateBatch(pg, ids, s, "owner", ds))
       \/ \E x \in Refs : Call(LiteBindingDelete(lite, x), PgBindingDelete(pg, x))
       \/ \E s \in Two, d \in Domains :
            Call(LiteDeleteBySubjectDomain(lite, s, d), PgDeleteBySubjectDomain(pg, s, d))

\* A binding reaches the module store's tables through the binding store.
ModuleWrites ==
    /\ focus = "module"
    /\ \/ \E u \in Refs, n \in {"m", "n"}, vis \in {"public", "private"}, begun \in Begun :
            Call(LiteModuleCreate(lite, New, <<u[1], n>>, u, vis, now),
                 PgModuleCreate(pg, New, <<u[1], n>>, u, vis, begun))
       \/ \E desc \in {"d", None}, vis \in {"public", "private", None} :
            Call(LiteModuleUpdate(lite, 1, "m", desc, vis), PgModuleUpdate(pg, 1, "m", desc, vis))
       \/ \E s \in Two, d \in {<<1, "m">>, <<1, "*">>} :
            LET l == LiteBindingCreate(lite.bindings, New, s, "reader", d)
                p == PgBindingCreate(pg.bindings, New, s, "reader", d)
            IN  Call([l EXCEPT !.table = [lite EXCEPT !.bindings = l.table]],
                     [p EXCEPT !.table = [pg EXCEPT !.bindings = p.table]])

CommitWrites ==
    /\ focus = "commit"
    /\ \/ \E m \in Refs, u \in {<<1, "dash">>, <<2, "dash">>}, digest \in {"x", "y", "z"}, begun \in Begun :
            Call(LiteCommitCreate(lite, New, u, m, digest, now, calls), PgCommitCreate(pg, New, u, m, digest, begun, calls))
       \/ \E xs \in {{}} \cup {{x} : x \in Refs} : Call(LiteDeleteByIds(lite, xs), PgDeleteByIds(pg, xs))

OrgWrites ==
    /\ focus = "org"
    /\ \/ \E u \in Refs, name \in {1, 11} :
            Call(LiteOrgCreate(lite, 10 + New, name, u), PgOrgCreate(pg, 10 + New, name, u))
       \/ \E x \in Spelled(11) :
            \/ Call(LiteOrgUpdate(lite, x, "d"), PgOrgUpdate(pg, x, "d"))
            \/ \E u \in Refs, role \in {"", "admin", "member"} :
                 Call(LiteAddMember(lite, x, u, role), PgAddMember(pg, x, u, role))
            \/ \E u \in Refs : Call(LiteRemoveMember(lite, x, u), PgRemoveMember(pg, x, u))

\* A push makes one batch for its commit; the commit is the number of the call.
JobWrites ==
    /\ focus = "sdkjob"
    /\ \/ \E c \in Spelled(New), m \in Refs, langs \in SUBSET Two :
            Call(LiteJobCreateBatch(lite, Batch(Two), c, m, langs), PgJobCreateBatch(pg, Batch(Two), c, m, langs))
       \/ Call(LiteClaimPending(lite, now), PgClaimPending(pg, now))
       \/ \E x \in {11, 12, 21} \X Forms :
            \/ Call(LiteMarkSucceeded(lite, x), PgMarkSucceeded(pg, x))
            \/ \E n \in 1 .. MaxAttempts : Call(LiteMarkFailed(lite, x, n), PgMarkFailed(pg, x, n))
       \/ Call(LiteRecoverStaleJobs(lite, now, 0), PgRecoverStaleJobs(pg, now, 0))

RunWrites ==
    /\ focus = "cirun"
    /\ \E m \in Refs, h \in Two, passed \in BOOLEAN :
          Call(LiteRunCreate(lite, New, m, h, passed), PgRunCreate(pg, New, m, h, passed))

NoteWrites ==
    /\ focus = "notification"
    /\ \E x \in Spelled(9) :
          \/ \E u \in Refs : Call(LiteNoteCreate(lite, New, u, x), PgNoteCreate(pg, New, u, x))
          \/ \E us \in {S \in SUBSET Refs : Cardinality(S) <= 2} :
               LET ids == [u \in Refs |-> 10 * New + u[1] + IF u[2] = "dash" THEN 0 ELSE 2]
               IN  Call(LiteNoteCreateBatch(lite, ids, us, x), PgNoteCreateBatch(pg, ids, us, x))
          \/ \E n, u \in Refs : Call(LiteMarkRead(lite, n, u), PgMarkRead(pg, n, u))

EventWrites ==
    /\ focus = "auditlog"
    /\ \E u \in Refs \cup {None}, ip \in {"", "p", "q"} :
          Call(LiteAuditCreate(lite, New, u, "login", ip), PgAuditCreate(pg, New, u, "login", ip))

OpWrites ==
    /\ focus = "gitalyoplog"
    /\ \/ \E u \in Refs : Call(LiteCreatePending(lite, New, u), PgCreatePending(pg, New, u))
       \/ \E i \in Two, s \in {"success", "failed"}, h \in {None, "h"} :
            Call(LiteUpdateStatus(lite, i, s, h), PgUpdateStatus(pg, i, s, h))

\* A file at the top and one in a directory, and the files that the caller of
\* PutFiles is responsible for.
Paths == {<<"a">>, <<"d", "a">>}
Scopes == {Paths, {<<"d", "a">>}}

\* A caller has listed the existing paths at the head that it expects; callers
\* that overlap with others have listed them at another commit.
Bases(head) == IF "git" \in Overlap THEN {0} \cup {c.hash : c \in lite.commits} ELSE {head}

Expected ==
    IF "git" \in Overlap \/ lite.commits = {} THEN {0} \cup {c.hash : c \in lite.commits}
    ELSE {c.hash : c \in lite.commits}

\* The callers of CreateRepository, RollbackCommit and DeleteRepository ask whether
\* there was an error, or not even that.
Failed(res) == [res EXCEPT !.err = IF @ = "none" THEN @ ELSE "failed"]
Ignored(res) == [res EXCEPT !.err = "none"]

GitWrites ==
    /\ focus = "git"
    /\ \/ Call(Failed(GoCreateRepository(lite)), Failed(GitalyCreateRepository(pg)))
       \/ Call(Ignored(GoDeleteRepository(lite)), Ignored(GitalyDeleteRepository(pg)))
       \/ /\ lite.exists
          /\ \E S \in Scopes : \E P \in SUBSET S : \E files \in [P -> Contents], head \in Expected :
                \E base \in Bases(head) :
                   Call(GoPutFiles(lite, New, files, S \cap DOMAIN TreeOf(lite, base), head),
                        GitalyPutFiles(pg, New, files, S \cap DOMAIN TreeOf(pg, base), head))
       \/ /\ lite.head # 0
          /\ \E current \in {c.hash : c \in lite.commits} :
                LET previous == CommitOf(lite, current).parent
                IN  Call(Failed(GoRollbackCommit(lite, current, previous)),
                         Failed(GitalyRollbackCommit(pg, current, previous)))

Keys == 1 .. 3
Limit == 1

\* The answer to a hit, unless the key is one that is not compared.
Compared(res, after, k) == IF k \in after.dropped.windows \cup after.late THEN [res EXCEPT !.rows = {}] ELSE res

\* Every caller of Allow has one limit and one window for its keys.
CacheWrites ==
    /\ focus = "cache"
    /\ \/ \E k \in Keys, ttl \in Two : \E res \in MemSet(lite, k, New, ttl, now) :
             Call(res, RedisSet(pg, k, New, ttl, now))
       \/ \E k \in Keys : Call(MemDelete(lite, k), RedisDelete(pg, k))
       \/ \E k \in Keys : Call(AllowReadsClock(lite, k, New, now), Result(pg, "none", {}))
       \/ \E read \in 0 .. now : Call(MemSweep(lite, New, read, now), Result(pg, "none", {}))

\* Allow goes on to its update; the call was counted when it read the clock.
AllowUpdates ==
    /\ focus = "cache"
    /\ \E a \in lite.waiting : \E res \in MemAllow(lite, a, Limit, 0, now) :
          Effect(Compared(res, res.table, a.key), Compared(RedisAllow(pg, a, Limit, 0), res.table, a.key))
    /\ UNCHANGED calls

Next ==
    \/ Tick
    \/ UserWrites \/ SessionWrites \/ VerificationWrites \/ ResetWrites \/ SecretWrites
    \/ BackupWrites \/ IdentityWrites \/ TokenWrites \/ GrantWrites
    \/ BindingWrites \/ ModuleWrites \/ CommitWrites \/ OrgWrites \/ JobWrites
    \/ RunWrites \/ NoteWrites \/ EventWrites \/ OpWrites \/ GitWrites \/ CacheWrites \/ AllowUpdates

Spec == Init /\ [][Next]_vars

-----------------------------------------------------------------------------
(* Reads, compared in every state. *)

Same(l, p) == Answer(l) = Answer(p)

UserReads ==
    /\ \A n \in Two : /\ Same(LiteGetByUsername(lite, n), PgGetByUsername(pg, n))
                      /\ Same(LiteGetAuthFieldsByUsername(lite, n), PgGetAuthFieldsByUsername(pg, n))
    /\ \A u \in Lookups : /\ Same(LiteUserGetByID(lite, u), PgUserGetByID(pg, u))
                          /\ Same(LiteGetAuthFieldsByID(lite, u), PgGetAuthFieldsByID(pg, u))
    /\ \A e \in {"", "a", "b"} : Same(LiteGetByEmail(lite, e), PgGetByEmail(pg, e))
    /\ \A q \in SUBSET Two : Same(LiteUserList(lite, q), PgUserList(pg, q))

SessionReads ==
    /\ \A t \in 1 .. MaxCalls : /\ Same(LiteSessionGetByTokenHash(lite, t), PgSessionGetByTokenHash(pg, t))
                               /\ Same(LiteSessionGetByID(lite, t), PgSessionGetByID(pg, t))
    /\ \A u \in Refs : Same(LiteSessionList(lite, u, now), PgSessionList(pg, u, now))

SecretReads == \A u \in Lookups : Same(LiteSecretGetByUserID(lite, u), PgSecretGetByUserID(pg, u))

BackupReads ==
    /\ \A u \in Refs : Same(LiteCodeList(lite, u), PgCodeList(pg, u))
    /\ \A u \in Lookups, c \in Two :
          FromDB(LiteGetUnused(lite, u, c).err) = FromDB(PgGetUnused(pg, u, c).err)

IdentityReads ==
    /\ \A p, uid \in Two : Same(LiteGetByProviderUID(lite, p, uid), PgGetByProviderUID(pg, p, uid))
    /\ \A u \in Refs : Same(LiteIdentityGetByUserID(lite, u), PgIdentityGetByUserID(pg, u))

TokenReads ==
    /\ \A t \in Two : /\ Same(LiteAPITokenGetByTokenHash(lite, t), PgAPITokenGetByTokenHash(pg, t))
                      /\ Same(LiteAPITokenGetByID(lite, t), PgAPITokenGetByID(pg, t))
    /\ \A u \in Refs : Same(LiteAPITokenList(lite, u), PgAPITokenList(pg, u))

GrantReads ==
    \A c \in Two : /\ Same(LiteGetByDeviceCodeHash(lite, c), PgGetByDeviceCodeHash(pg, c))
                  /\ Same(LiteGetByUserCode(lite, c), PgGetByUserCode(pg, c))

\* The id of a binding is compared as an id; see IdsCanonical.
BindingReads ==
    \A s \in Two : {[b EXCEPT !.id = Uuid(@)] : b \in LiteListBySubject(lite, s).rows}
                     = {[b EXCEPT !.id = Uuid(@)] : b \in PgListBySubject(pg, s).rows}

\* Limits below, within and above the range of a page.
Limits == {0, 1, MaxLimit + 1}

\* PostgreSQL's page is one that SQLite may answer with: where several modules
\* were made in one second SQLite's order among them is not determined.
OneOf(l, p) == FromDB(l.err) = FromDB(p.err) /\ p.rows \subseteq l.rows

SameVisible(o, s, x) ==
    \A limit \in Limits, offset \in 0 .. 1 :
       OneOf(LiteListVisibleModules(lite, o, s, x, limit, offset),
             PgListVisibleModules(pg, o, s, x, limit, offset))

\* The one caller of ListVisibleModules passes the id that the user store
\* answered with, which is hyphenated, or none.
ModuleReads ==
    /\ \A o \in {0} \cup Two, limit \in Limits, offset \in 0 .. 1 :
          OneOf(LiteListModules(lite, o, limit, offset), PgListModules(pg, o, limit, offset))
    /\ \A o \in {0, 1} : SameVisible(o, 0, NoId) /\ \A s \in Two : SameVisible(o, s, Text(s))
    /\ \A n \in {"m", "n"} : Same(LiteGetModuleByOwnerAndName(lite, 1, n), PgGetModuleByOwnerAndName(pg, 1, n))
    /\ \A x \in Lookups, names \in SUBSET {<<1, "m">>} :
          Same(LiteGetModulesByRefs(lite, {x}, names), PgGetModulesByRefs(pg, {x}, names))
    /\ \A x \in Refs : Same(LiteCountByOwner(lite, x), PgCountByOwner(pg, x))
    /\ \A x \in Lookups : Same(LiteResolveType(lite.resources, x), PgResolveType(pg.resources, x))

CommitReads ==
    /\ \A x \in Lookups : /\ Same(LiteGetCommitById(lite, x), PgGetCommitById(pg, x))
                          /\ Same(LiteResolveType(lite.resources, x), PgResolveType(pg.resources, x))
    /\ \A x \in Refs, ms \in SUBSET Two :
          Same(LiteGetCommitByOwnerModule(lite, {x}, ms), PgGetCommitByOwnerModule(pg, {x}, ms))
    /\ \A m \in Refs :
          /\ \A d \in {"x", "y", "z"} : Same(LiteGetCommitByDigest(lite, m, d), PgGetCommitByDigest(pg, m, d))
          /\ \A limit \in Limits, offset \in 0 .. 2 :
               Same(LiteListByModule(lite, m, limit, offset), PgListByModule(pg, m, limit, offset))
    /\ \A h \in 1 .. MaxCalls : Same(LiteGetByHash(lite, h), PgGetByHash(pg, h))
    /\ \A p \in {0, 1} : Same(LiteGetByHashPrefix(lite, p), PgGetByHashPrefix(pg, p))

OrgReads ==
    /\ \A n \in {1, 11} : Same(LiteGetByName(lite, n), PgGetByName(pg, n))
    /\ \A q \in SUBSET {1, 11} : Same(LiteOrgList(lite, q), PgOrgList(pg, q))
    /\ \A u \in Refs : Same(LiteGetUserOrgs(lite, u), PgGetUserOrgs(pg, u))
    /\ \A x \in {11, 12} \X Forms :
          /\ Same(LiteCountMembers(lite, x), PgCountMembers(pg, x))
          /\ Same(LiteListMembers(lite, x), PgListMembers(pg, x))
          /\ \A u \in Lookups : Same(LiteGetMemberRole(lite, x, u), PgGetMemberRole(pg, x, u))

JobReads ==
    \A m \in Refs :
       /\ Same(LiteJobListByModule(lite, m), PgJobListByModule(pg, m))
       /\ \A l \in Two :
            /\ Same(LiteListSucceededByModuleAndLang(lite, m, l), PgListSucceededByModuleAndLang(pg, m, l))
            /\ Same(LiteGetByCommitAndLang(lite, m, l), PgGetByCommitAndLang(pg, m, l))

RunReads ==
    \A m \in Lookups, h \in Two : Same(LiteGetByModuleAndCommit(lite, m, h), PgGetByModuleAndCommit(pg, m, h))

\* The resource of a notification is compared as an id; see IdsCanonical.
NoteReads ==
    \A u \in Refs : {[n EXCEPT !.resource = Uuid(@)] : n \in LiteListForUser(lite, u).rows}
                      = {[n EXCEPT !.resource = Uuid(@)] : n \in PgListForUser(pg, u).rows}

EventReads ==
    \A u \in Refs : /\ Same(LiteAuditList(lite, u), PgAuditList(pg, u))
                    /\ Same(LiteRecentIPsForUser(lite, u), PgRecentIPsForUser(pg, u))

\* A deleted file comes back under another path: Gitaly calls that a rename.
Renamed(R, h) ==
    \E d, e \in Changes(R, h) :
       d.isDeleted /\ e.isNew /\ TreeOf(R, CommitOf(R, h).parent)[d.path] = TreeOf(R, h)[e.path]

\* Reads of refs that exist; over Gitaly, whatever chunks its answers come in.
GitReads ==
    lite.head # 0 =>
        /\ \A ref \in {HEAD} \cup {c.hash : c \in lite.commits} :
              /\ Same(GoListFiles(lite, ref), GitalyListFiles(pg, ref))
              /\ \A p \in Paths \cup {<<"b">>, <<"e", "a">>} :
                    Same(GoGetFile(lite, ref, p), GitalyGetFile(pg, ref, p))
              /\ \A dir \in {<< >>, <<"d">>, <<"e">>} :
                    Same(GoGetTreeEntries(lite, ref, dir), GitalyGetTreeEntries(pg, ref, dir))
              /\ \A limit \in 1 .. 2 : Same(GoListCommits(lite, ref, limit), GitalyListCommits(pg, ref, limit))
        /\ \A c \in lite.commits :
              /\ \A s \in ServerListBlobs(pg, c.hash) :
                    /\ Same(GoListBlobs(lite, c.hash), GitalyListBlobs(pg, s))
                    /\ Same(GoStreamBlobsToDir(lite, c.hash), GitalyStreamBlobsToDir(pg, s))
              /\ ~Renamed(lite, c.hash) =>
                    \A s \in ServerCommitDiff(pg, c.hash) :
                       Same(GoGetCommitDiff(lite, c.hash), GitalyGetCommitDiff(pg, s))

\* A dropped entry is absent, or what Redis has.
CacheReads ==
    \A k \in Keys : \/ Same(MemGet(lite, k, now), RedisGet(pg, k, now))
                    \/ k \in lite.dropped.entries /\ MemGet(lite, k, now).rows = {}

-----------------------------------------------------------------------------
(* Properties. *)

\* A write answers with the same error code and the same rows on both
\* backends, after any sequence of writes and whichever of Forms its ids come in.
SameAnswers == ans.lite = ans.pg

\* Every method that reads answers the same on both backends in every state:
\* the filters, joins and conversions of the two implementations agree, the order
\* and the pages of commits and modules, and NotFound for text that is no id where
\* one row is looked for.  Other lists are compared as sets.
SameReads ==
    CASE focus = "user" -> UserReads
      [] focus = "session" -> SessionReads
      [] focus = "emailverification" -> \A t \in Two : Same(LiteVerificationGet(lite, t), PgVerificationGet(pg, t))
      [] focus = "passwordreset" -> \A t \in Two : Same(LiteResetGet(lite, t), PgResetGet(pg, t))
      [] focus = "totpsecret" -> SecretReads
      [] focus = "backupcode" -> BackupReads
      [] focus = "oauthidentity" -> IdentityReads
      [] focus = "apitoken" -> TokenReads
      [] focus = "devicegrant" -> GrantReads
      [] focus = "opabinding" -> BindingReads
      [] focus = "module" -> ModuleReads
      [] focus = "commit" -> CommitReads
      [] focus = "org" -> OrgReads
      [] focus = "sdkjob" -> JobReads
      [] focus = "cirun" -> RunReads
      [] focus = "notification" -> NoteReads
      [] focus = "auditlog" -> EventReads
      [] focus = "git" -> GitReads
      [] focus = "cache" -> CacheReads
      [] OTHER -> TRUE

\* parity_test.go's rule: a storage method behaves the same way on both backends,
\* the error it returns and the rows it touches included.  It holds of ids in
\* lower case; with a spelling in capitals among Forms, or with text that is no
\* id in a list or a write, it does not.
BackendsAgree == SameAnswers /\ SameReads

\* The rows of the store under test.
Rows(T) ==
    CASE focus = "module" -> T.modules \cup T.resources \cup T.bindings
      [] focus = "commit" -> T.commits \cup T.resources
      [] focus = "org" -> T.users \cup T.members
      [] focus \in {"git", "cache"} -> {}
      [] OTHER -> T

\* Every id column SQLite holds has the one spelling sqlutil writes, however
\* the id was spelled in the call, so a later comparison cannot miss a row.
IdColumns == {"id", "user", "owner", "module", "commit", "org", "member", "resource"}
OneSpelling == \A r \in Rows(lite) : \A f \in IdColumns \cap DOMAIN r : r[f] # None => r[f][2] = "hex"

\* The commit a module name resolves to is the one written last, also when
\* several were written in the same second.
LatestIsLastWritten ==
    focus = "commit" =>
        \A m \in Modules :
           LET mine == {r \in pg.commits : r.module = m}
           IN  mine # {} =>
                 LET last == CHOOSE r \in mine : \A q \in mine : q.seq <= r.seq
                 IN  /\ LiteGetCommitByOwnerModule(lite, {}, {m}).rows = {PgCommitView(last)}
                     /\ PgGetCommitByOwnerModule(pg, {}, {m}).rows = {PgCommitView(last)}

\* MemoryCache keeps within its caps, and what it drops for that is not the window
\* of the key that was just hit, unless a call that read the clock later was
\* faster: a caller that floods it with keys is still counted on each of them
\* (memory.go:28-30, "losing rate-limit state for an idle key is acceptable").
HitIsCounted ==
    focus = "cache" =>
        /\ Cardinality(DOMAIN lite.windows) <= maxRateLimitKeys
        /\ Cardinality(DOMAIN lite.entries) <= maxValueKeys
        /\ \A h \in lite.hit : h.overtaken \/ h.key \in DOMAIN lite.windows

\* Not kept: only an idle key loses its window.  Allow reads the clock before it
\* takes the lock, so the time of the hit just stored may be the oldest.
HitAlwaysCounted == focus = "cache" => \A h \in lite.hit : h.key \in DOMAIN lite.windows

\* Not kept: MemoryCache has every hit of the running window that Redis has, on a
\* key it never dropped.  After calls that overlap the times are out of order and
\* the binary search may drop hits of the window.
WindowIsWhole ==
    focus = "cache" =>
        \A k \in DOMAIN pg.windows \ lite.dropped.windows :
           \A e \in ToSet(pg.windows[k]) : e.ts >= now => e \in ToSet(HitsOf(lite.windows, k))

\* Not kept: ListVisibleModules answers alike whichever spelling of its id the
\* caller has.  PostgreSQL compares the text of the owner's id.
VisibleInAnySpelling == focus = "module" => \A x \in Refs : SameVisible(0, 0, x)

\* Not kept: every id SQLite answers with is hyphenated.
IdsCanonical ==
    /\ focus = "opabinding" => \A s \in Two : \A b \in LiteListBySubject(lite, s).rows : b.id[2] = "dash"
    /\ focus = "notification" => \A u \in Refs : \A n \in LiteListForUser(lite, u).rows : n.resource[2] = "dash"
=============================================================================
