------------------------------- MODULE Policy -------------------------------
(***************************************************************************)
(* Who may do what: the Rego policy (authorization/hades/authz/authz.rego) *)
(* over role bindings, the scopes of an API token (constants.go,           *)
(* server/authorization/authorization.go) and the check in front of every  *)
(* read.                                                                   *)
(*                                                                         *)
(* A domain is the name of a module, owner and name.  "owner/*" has the    *)
(* name "*"; Everything is the binding domain "*"; NoDomain is the missing *)
(* third part of a scope.  Names hold no "/" (constants.ValidateName), so  *)
(* matching a prefix of a domain is matching its owner.                    *)
(***************************************************************************)
EXTENDS Naturals, FiniteSets

CONSTANT Superadmins  \* subjects that the policy always allows

Domain(ns, name) == [ns |-> ns, name |-> name]

Everything == Domain("*", "*")

NoDomain == Domain("", "")

-----------------------------------------------------------------------------
(* The policy. *)

role_permissions ==
    [owner |-> [module |-> {"create", "read", "list", "update", "publish", "push", "delete",
                            "admin", "transfer"},
                org |-> {"read", "update", "admin"}],
     admin |-> [module |-> {"create", "read", "list", "update", "publish", "push", "delete",
                            "admin"},
                org |-> {"read", "update", "admin"}],
     contributor |-> [module |-> {"read", "list", "push"}, org |-> {"read"}],
     reader |-> [module |-> {"read", "list"}, org |-> {"read"}]]

domain_matches(pattern, domain) ==
    \/ pattern = domain
    \/ pattern.name = "*" /\ pattern.ns = domain.ns
    \/ pattern = Everything

\* The query that Allow and BatchAllow evaluate; bindings are the rows that the
\* binding store serves.
policy_allow(bindings, subject, domain, resource, action, visibility) ==
    \/ subject \in Superadmins
    \/ action \in {"read", "list"} /\ visibility = "public"
    \/ \E b \in bindings :
          /\ b.subject = subject
          /\ domain_matches(b.domain, domain)
          /\ action \in role_permissions[b.role][resource]

\* The rows of a batch that may not be read; they are evaluated as private.
denied_indices(bindings, subject, rows) ==
    {r \in rows : ~policy_allow(bindings, subject, r.name, "module", "read", "private")}

\* BatchAllow: the rows of a batch that may be read.
BatchAllow(bindings, subject, rows) == rows \ denied_indices(bindings, subject, rows)

-----------------------------------------------------------------------------
(* Scopes. *)

Actions == {"create", "read", "list", "update", "push", "delete", "admin", "transfer", "publish"}

isValidScopeDomain(domain) ==
    domain.ns \notin {"", "*"} /\ domain.name # ""

IsKnownScope(s) ==
    /\ s.resource \in {"module", "org"}
    /\ s.action \in Actions \cup {"*"}
    /\ s.domain = NoDomain \/ isValidScopeDomain(s.domain)

DomainMatches(pattern, domain) ==
    \/ pattern = NoDomain
    \/ /\ domain # NoDomain
       /\ pattern = domain \/ (pattern.name = "*" /\ pattern.ns = domain.ns)

scopeCovers(values, resource, action, domain) ==
    \E s \in values : /\ s.resource = resource
                      /\ s.action \in {action, "*"}
                      /\ DomainMatches(s.domain, domain)

\* Scopes.Allow
ScopeAllows(scopes, resource, action, domain) ==
    scopes.unrestricted \/ scopeCovers(scopes.values, resource, action, domain)

-----------------------------------------------------------------------------
(* The checks of the handlers.  A caller is a user and the scopes of the     *)
(* credential; the user "" is anonymous.                                     *)

\* Can, and BatchCan for each of its policies: writes are evaluated as private.
Can(bindings, caller, action, domain) ==
    /\ ScopeAllows(caller.scopes, "module", action, domain)
    /\ policy_allow(bindings, caller.user, domain, "module", action, "private")

\* The verdicts that the first pass of CheckReadAccess may return: the rows
\* come in the order of the request.
Refused(caller, rows) ==
    {IF r.vis = "private" THEN "not_found" ELSE "denied" :
        r \in {r \in rows : ~ScopeAllows(caller.scopes, "module", "read", r.name)}}
    \cup
    {"not_found" : r \in {r \in rows : r.vis = "private" /\ caller.user = ""}}

Private(rows) == {r \in rows : r.vis = "private"}

\* Mutant of CheckReadAccess: the verdict of the batch is read for one row only.
CheckReadAccessSome(bindings, caller, rows) ==
    IF Refused(caller, rows) # {} THEN Refused(caller, rows)
    ELSE IF Private(rows) = {} \/ BatchAllow(bindings, caller.user, Private(rows)) # {}
         THEN {"ok"} ELSE {"not_found"}

\* Mutant of CheckReadAccess: a private module that the caller may not read is
\* refused as such.
CheckReadAccessTells(bindings, caller, rows) ==
    IF Refused(caller, rows) # {} THEN Refused(caller, rows)
    ELSE IF BatchAllow(bindings, caller.user, Private(rows)) = Private(rows)
         THEN {"ok"} ELSE {"denied"}

CheckReadAccess(bindings, caller, rows) ==
    IF Refused(caller, rows) # {} THEN Refused(caller, rows)
    ELSE IF BatchAllow(bindings, caller.user, Private(rows)) = Private(rows)
         THEN {"ok"} ELSE {"not_found"}

=============================================================================
