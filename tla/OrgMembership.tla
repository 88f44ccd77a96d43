---------------------------- MODULE OrgMembership ----------------------------
(***************************************************************************)
(* Organisations: who is a member (org_memberships), what members may do   *)
(* (opa_role_bindings) and the cache through which the authorization       *)
(* engine reads the bindings (internal/hades/server/identity/handler.go,   *)
(* internal/hades/authorization).                                          *)
(*                                                                         *)
(* The module is about one organisation.  Each member of Handlers serves   *)
(* one call after another.  A call is authorised from the cache or, on a   *)
(* miss, from the table; it then reads the memberships, if it must, and    *)
(* writes both tables and drops the cache entry in one transaction.  On    *)
(* SQLite there is one connection, so a transaction is one step.  The      *)
(* superadmins of the configuration are not modelled: there are none.      *)
(***************************************************************************)
EXTENDS Naturals, FiniteSets

CONSTANTS
    Users,     \* registered users
    Handlers,  \* handlers of the calls
    Asked,     \* user -> the roles that callers ask for them
    None       \* nobody; no cache entry

VARIABLES
    created,   \* the organisation exists
    members,   \* user -> role in org_memberships
    bindings,  \* user -> roles bound over the organisation's namespace
    cache,     \* user -> the cached roles, if any
    call,      \* handler -> the call it serves
    managers   \* users who were ever allowed to manage the organisation

vars == <<created, members, bindings, cache, call, managers>>

\* Roles that are bound.  AddOrgMember takes any text for a role; "other" stands
\* for what role_permissions does not know.
Roles == {"owner", "admin", "contributor", "other"}

\* Roles that are asked for and written to org_memberships; no text means member.
OrgRoles == Roles \cup {"member"}

ASSUME OrgAssumption == None \notin Users /\ Asked \in [Users -> SUBSET OrgRoles]

NoEntry == [cached |-> FALSE, roles |-> {}]

Entry == [cached: BOOLEAN, roles: SUBSET Roles]

Steps == {"idle", "look", "list", "store", "add", "role", "count", "remove"}

Call == [step: Steps, op: {"add", "remove", "update"}, caller: Users \cup {None},
         target: Users \cup {None}, role: OrgRoles, seen: SUBSET Roles]

Idle == [step |-> "idle", op |-> "update", caller |-> None, target |-> None,
         role |-> "member", seen |-> {}]

\* role_permissions: the roles with org:update and org:admin.
Manages(roles) == roles \cap {"owner", "admin"} # {}

OpaRole(role) == IF role = "member" THEN "contributor" ELSE role

Admins == {u \in Users : members[u] = "admin"}

Init ==
    /\ created = FALSE
    /\ members = [u \in Users |-> "none"]
    /\ bindings = [u \in Users |-> {}]
    /\ cache = [u \in Users |-> NoEntry]
    /\ call = [h \in Handlers |-> Idle]
    /\ managers = {}

GoTo(h, step) == call' = [call EXCEPT ![h].step = step]

Done(h) == call' = [call EXCEPT ![h] = Idle]

-----------------------------------------------------------------------------
(* The tables.  AddBinding and DeleteBinding drop the subject's cache entry. *)

Invalidate(u) == cache' = [cache EXCEPT ![u] = NoEntry]

Bind(u, role) ==
    /\ bindings' = [bindings EXCEPT ![u] = @ \cup {role}]
    /\ managers' = IF Manages({role}) THEN managers \cup {u} ELSE managers
    /\ Invalidate(u)

CreateOrg(u) ==
    /\ ~created
    /\ created' = TRUE
    /\ members' = [members EXCEPT ![u] = "admin"]
    /\ Bind(u, "owner")
    /\ UNCHANGED call

AddMember(h) ==
    LET c == call[h]
    IN  /\ c.step = "add"
        /\ members' = [members EXCEPT ![c.target] = c.role]
        /\ Bind(c.target, OpaRole(c.role))
        /\ Done(h)
        /\ UNCHANGED created

\* Mutant of RemoveMember: the bindings stay.
RemoveMemberOnly(h) ==
    LET c == call[h]
    IN  /\ c.step = "remove"
        /\ members' = [members EXCEPT ![c.target] = "none"]
        /\ Invalidate(c.target)
        /\ Done(h)
        /\ UNCHANGED <<created, bindings, managers>>

RemoveMember(h) ==
    LET c == call[h]
    IN  /\ c.step = "remove"
        /\ members' = [members EXCEPT ![c.target] = "none"]
        /\ bindings' = [bindings EXCEPT ![c.target] = {}]
        /\ Invalidate(c.target)
        /\ Done(h)
        /\ UNCHANGED <<created, managers>>

\* The transaction is rolled back, before the entry was dropped or after.
TxFails(h) ==
    LET c == call[h]
    IN  /\ c.step \in {"add", "remove"}
        /\ Invalidate(c.target) \/ UNCHANGED cache
        /\ Done(h)
        /\ UNCHANGED <<created, members, bindings, managers>>

-----------------------------------------------------------------------------
(* The calls. *)

\* Leaving needs no permission; everything else is authorised first.
Begin(h, op, caller, target, role) ==
    /\ created
    /\ call[h].step = "idle"
    /\ IF op = "add" THEN role \in Asked[target] ELSE role = "member"
    /\ op = "update" => target = caller
    /\ call' = [call EXCEPT ![h] =
                   [step |-> IF op = "remove" /\ caller = target THEN "role" ELSE "look",
                    op |-> op, caller |-> caller, target |-> target, role |-> role,
                    seen |-> {}]]
    /\ UNCHANGED <<created, members, bindings, cache, managers>>

\* Mutant of Decide: every role of the organisation passes.
DecideAnyRole(h, roles) ==
    IF roles # {} /\ call[h].op # "update"
    THEN call' = [call EXCEPT ![h] = [@ EXCEPT !.step = IF call[h].op = "add" THEN "add" ELSE "role",
                                               !.seen = {}]]
    ELSE Done(h)

\* The engine's answer: the call goes on or is refused.  An authorised UpdateOrg
\* writes the description and changes nothing here.
Decide(h, roles) ==
    IF Manages(roles) /\ call[h].op # "update"
    THEN call' = [call EXCEPT ![h] = [@ EXCEPT !.step = IF call[h].op = "add" THEN "add" ELSE "role",
                                               !.seen = {}]]
    ELSE Done(h)

CacheHit(h) ==
    /\ call[h].step = "look"
    /\ cache[call[h].caller].cached
    /\ Decide(h, cache[call[h].caller].roles)
    /\ UNCHANGED <<created, members, bindings, cache, managers>>

CacheMiss(h) ==
    /\ call[h].step = "look"
    /\ ~cache[call[h].caller].cached
    /\ GoTo(h, "list")
    /\ UNCHANGED <<created, members, bindings, cache, managers>>

ListBySubject(h) ==
    /\ call[h].step = "list"
    /\ call' = [call EXCEPT ![h] = [@ EXCEPT !.step = "store", !.seen = bindings[call[h].caller]]]
    /\ UNCHANGED <<created, members, bindings, cache, managers>>

\* What was listed is cached, and decides.
Store(h) ==
    /\ call[h].step = "store"
    /\ cache' = [cache EXCEPT ![call[h].caller] = [cached |-> TRUE, roles |-> call[h].seen]]
    /\ Decide(h, call[h].seen)
    /\ UNCHANGED <<created, members, bindings, managers>>

GetMemberRole(h) ==
    LET role == members[call[h].target]
    IN  /\ call[h].step = "role"
        /\ IF role = "none" THEN Done(h)
           ELSE GoTo(h, IF role = "admin" THEN "count" ELSE "remove")
        /\ UNCHANGED <<created, members, bindings, cache, managers>>

\* The last admin is not removed.
CountAdmins(h) ==
    /\ call[h].step = "count"
    /\ IF Cardinality(Admins) <= 1 THEN Done(h) ELSE GoTo(h, "remove")
    /\ UNCHANGED <<created, members, bindings, cache, managers>>

\* A read fails, or the call is cut off.
Drop(h) ==
    /\ call[h].step # "idle"
    /\ Done(h)
    /\ UNCHANGED <<created, members, bindings, cache, managers>>

-----------------------------------------------------------------------------

\* The entry's time is over, or it is evicted.
Expire(u) ==
    /\ cache[u].cached
    /\ Invalidate(u)
    /\ UNCHANGED <<created, members, bindings, call, managers>>

\* The process is restarted: the tables stay.
Restart ==
    /\ call' = [h \in Handlers |-> Idle]
    /\ cache' = [u \in Users |-> NoEntry]
    /\ UNCHANGED <<created, members, bindings, managers>>

Step(h) ==
    \/ CacheHit(h) \/ CacheMiss(h) \/ ListBySubject(h) \/ Store(h)
    \/ GetMemberRole(h) \/ CountAdmins(h)
    \/ AddMember(h) \/ RemoveMember(h) \/ TxFails(h) \/ Drop(h)

Next ==
    \/ \E u \in Users : CreateOrg(u) \/ Expire(u)
    \/ \E h \in Handlers, caller, target \in Users :
          \E op \in {"add", "remove", "update"}, role \in Asked[target] \cup {"member"} :
             Begin(h, op, caller, target, role)
    \/ \E h \in Handlers : Step(h)
    \/ Restart

Spec == Init /\ [][Next]_vars

\* Handlers run to their end, and the time of an entry passes.
Fairness ==
    /\ \A h \in Handlers : WF_vars(Step(h))
    /\ \A u \in Users : WF_vars(Expire(u))

FairSpec == Spec /\ Fairness

-----------------------------------------------------------------------------
(* What holds. *)

\* The variables have the types their comments give them.
TypeOK ==
    /\ created \in BOOLEAN
    /\ members \in [Users -> OrgRoles \cup {"none"}]
    /\ bindings \in [Users -> SUBSET Roles]
    /\ cache \in [Users -> Entry]
    /\ call \in [Handlers -> Call]
    /\ managers \subseteq Users

\* Rows and bindings come and go together, whatever calls and failed transactions
\* interleave: nobody has "permissions with no membership record" (handler.go:420-422,
\* 489-490), and a member has the binding of the role in the row, which for an
\* admin may be that of the founder.
MembershipIsPermission ==
    \A u \in Users :
        /\ members[u] = "none" <=> bindings[u] = {}
        /\ members[u] = "member" => "contributor" \in bindings[u]
        /\ members[u] = "admin" => Manages(bindings[u])
        /\ members[u] \in {"owner", "contributor", "other"} => members[u] \in bindings[u]

\* Whoever is about to change another user's membership was, at some time,
\* allowed to manage the organisation: however old the cached roles are, they
\* were once granted (handler.go:44-60, store.go:138-183).
CallerWasManager ==
    \A h \in Handlers :
        call[h].step \in {"add", "role", "count", "remove"} /\ call[h].caller # call[h].target
            => call[h].caller \in managers

\* An admin who is removed leaves another one behind: with one call at a time
\* the last admin is never removed (handler.go:465-487).
LastAdminStays ==
    [][\A u \in Admins : members'[u] = "none" => Admins \ {u} # {}]_vars

\* A user whose bindings are gone for good is, in the end, not remembered as
\* having any (store.go:171-177).
RemovalTakesEffect ==
    \A u \in Users : <>[](bindings[u] = {}) => <>[](cache[u].roles = {})

-----------------------------------------------------------------------------
(* What the repository says and the code does not do. *)

\* engine.go:222-223: the entry is invalidated "so the next Allow() call fetches
\* fresh data": what is cached is what the table holds.
CacheIsFresh == \A u \in Users : cache[u].cached => cache[u].roles = bindings[u]

\* handler.go:34-38: the two tables "are written in one transaction, so the
\* binding is authoritative": whoever may manage the organisation is an admin of
\* it.
ManagersAreAdmins == \A u \in Users : Manages(bindings[u]) => members[u] = "admin"

\* handler.go:420-422: there is no "member who cannot act".  A role that the policy
\* does not know is stored and bound like any other.
MembersCanAct == \A u \in Users : members[u] # "none" => bindings[u] \ {"other"} # {}

\* handler.go:465-467: an organisation is never left "permanently unmanageable".
Manageable == created => \E u \in Users : Manages(bindings[u])

=============================================================================
