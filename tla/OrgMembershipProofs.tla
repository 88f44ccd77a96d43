------------------------- MODULE OrgMembershipProofs -------------------------
(***************************************************************************)
(* Theorems about OrgMembership, for any number of users and handlers.     *)
(*                                                                         *)
(* CallerWasManager is about handlers that were authorised some steps ago, *)
(* from roles that may have been cached or listed long before.  The        *)
(* invariant follows those roles from the table to the cache and to the    *)
(* handler: Granted says that roles which manage the organisation,         *)
(* wherever they are held, belong to a user who once had them.             *)
(***************************************************************************)
EXTENDS OrgMembership, TLAPS

USE Zenon

\* Roles that manage the organisation were granted once, be they bound, cached
\* or listed by a handler that has not stored them yet.
Granted ==
    /\ \A u \in Users : Manages(bindings[u]) \/ Manages(cache[u].roles) => u \in managers
    /\ \A h \in Handlers : Manages(call[h].seen) => call[h].caller \in managers

\* A call being served has a caller and a target.
CallsNamed ==
    \A h \in Handlers : call[h].step # "idle" => call[h].caller \in Users /\ call[h].target \in Users

Inv == TypeOK /\ CallsNamed /\ Granted /\ CallerWasManager /\ MembershipIsPermission

\* The variables a handler's own step may change, when it writes no table.
Tables == <<created, members, bindings, managers>>

LEMMA IdleIsCall == Idle \in Call /\ NoEntry \in Entry
  BY DEF Idle, Call, Steps, OrgRoles, NoEntry, Entry

LEMMA InitInv == Init => Inv
  <1> SUFFICES ASSUME Init PROVE Inv
    OBVIOUS
  <1>1. Idle \in Call /\ NoEntry \in Entry
    BY IdleIsCall
  <1>0. Idle.step = "idle" /\ Idle.seen = {} /\ NoEntry.roles = {}
    BY DEF Idle, NoEntry
  <1>2. TypeOK
    BY <1>1 DEF Init, TypeOK
  <1>3. CallsNamed /\ CallerWasManager
    BY <1>0, SMT DEF Init, CallsNamed, CallerWasManager
  <1>4. Granted
    BY <1>0, SMT DEF Init, Granted, Manages
  <1>5. MembershipIsPermission
    BY SMT DEF Init, MembershipIsPermission
  <1> QED
    BY <1>2, <1>3, <1>4, <1>5 DEF Inv

-----------------------------------------------------------------------------
(* What the pieces of an action do. *)

\* Managing is a matter of one role or another.
LEMMA ManagesUnion ==
    ASSUME NEW A, NEW r PROVE Manages(A \cup {r}) <=> (Manages(A) \/ Manages({r}))
  BY DEF Manages

LEMMA NothingManagesNothing == ~Manages({})
  BY SMT DEF Manages

\* A handler that is done is idle, and the others are as they were.
LEMMA DoneKeeps ==
    ASSUME TypeOK, CallsNamed, NEW h \in Handlers, Done(h)
    PROVE  /\ call' \in [Handlers -> Call]
           /\ call'[h] = Idle
           /\ \A i \in Handlers \ {h} : call'[i] = call[i]
           /\ CallsNamed'
  <1>1. Idle \in Call /\ Idle.step = "idle"
    BY IdleIsCall DEF Idle
  <1> QED
    BY <1>1, SMT DEF TypeOK, Done, CallsNamed

\* The fields of a call that a step leaves alone.
LEMMA CallExcept ==
    ASSUME NEW c \in Call, NEW s \in Steps, NEW r,
           r = [c EXCEPT !.step = s] \/ r = [c EXCEPT !.step = s, !.seen = {}]
    PROVE  /\ r \in Call /\ r.step = s
           /\ r.caller = c.caller /\ r.target = c.target
           /\ r.seen = c.seen \/ r.seen = {}
  <1>1. CASE r = [c EXCEPT !.step = s]
    BY <1>1, SMT DEF Call
  <1>2. CASE r = [c EXCEPT !.step = s, !.seen = {}]
    <2>1. c = [step |-> c.step, op |-> c.op, caller |-> c.caller, target |-> c.target,
               role |-> c.role, seen |-> c.seen]
      BY DEF Call
    <2>2. r = [step |-> s, op |-> c.op, caller |-> c.caller, target |-> c.target,
               role |-> c.role, seen |-> {}]
      BY <1>2, <2>1
    <2> QED
      BY <2>2, SMT DEF Call
  <1> QED
    BY <1>1, <1>2

\* A handler that goes on keeps its call; what it has listed it keeps or forgets.
LEMMA GoOnKeeps ==
    ASSUME TypeOK, CallsNamed, NEW h \in Handlers, NEW s \in Steps, call[h].step # "idle",
           \/ call' = [call EXCEPT ![h].step = s]
           \/ call' = [call EXCEPT ![h] = [@ EXCEPT !.step = s, !.seen = {}]]
    PROVE  /\ call' \in [Handlers -> Call]
           /\ call'[h].step = s
           /\ call'[h].caller = call[h].caller /\ call'[h].target = call[h].target
           /\ call'[h].seen = call[h].seen \/ call'[h].seen = {}
           /\ \A i \in Handlers \ {h} : call'[i] = call[i]
           /\ CallsNamed'
  <1>1. call[h] \in Call
    BY DEF TypeOK
  <1>2. PICK r : /\ call' = [call EXCEPT ![h] = r]
                 /\ r = [call[h] EXCEPT !.step = s] \/ r = [call[h] EXCEPT !.step = s, !.seen = {}]
    OBVIOUS
  <1>3. /\ r \in Call /\ r.step = s
        /\ r.caller = call[h].caller /\ r.target = call[h].target
        /\ r.seen = call[h].seen \/ r.seen = {}
    BY <1>1, <1>2, CallExcept
  <1> QED
    BY <1>2, <1>3 DEF TypeOK, CallsNamed

\* The steps of a handler that change no table: it ends, or goes on to a step
\* that it may take.
LEMMA HandlerInv ==
    ASSUME Inv, NEW h \in Handlers, UNCHANGED Tables, UNCHANGED cache,
           \/ Done(h)
           \/ \E s \in Steps :
                 /\ call[h].step # "idle"
                 /\ \/ call' = [call EXCEPT ![h].step = s]
                    \/ call' = [call EXCEPT ![h] = [@ EXCEPT !.step = s, !.seen = {}]]
                 /\ s \in {"add", "role", "count", "remove"} =>
                       call[h].caller = call[h].target \/ call[h].caller \in managers
    PROVE  Inv'
  <1>0. Idle.step = "idle" /\ Idle.seen = {}
    BY DEF Idle
  <1>1. CASE Done(h)
    <2>1. /\ call' \in [Handlers -> Call]
          /\ call'[h] = Idle
          /\ \A i \in Handlers \ {h} : call'[i] = call[i]
          /\ CallsNamed'
      BY <1>1, DoneKeeps DEF Inv
    <2>2. TypeOK' /\ MembershipIsPermission'
      BY <2>1 DEF Inv, TypeOK, MembershipIsPermission, Tables
    <2>3. Granted'
      BY <1>0, <2>1, NothingManagesNothing DEF Inv, Granted, Tables
    <2>4. CallerWasManager'
      BY <1>0, <2>1 DEF Inv, CallerWasManager, Tables
    <2> QED
      BY <2>1, <2>2, <2>3, <2>4 DEF Inv
  <1>2. ASSUME NEW s \in Steps, call[h].step # "idle",
               \/ call' = [call EXCEPT ![h].step = s]
               \/ call' = [call EXCEPT ![h] = [@ EXCEPT !.step = s, !.seen = {}]],
               s \in {"add", "role", "count", "remove"} =>
                  call[h].caller = call[h].target \/ call[h].caller \in managers
        PROVE  Inv'
    <2>1. /\ call' \in [Handlers -> Call]
          /\ call'[h].step = s
          /\ call'[h].caller = call[h].caller /\ call'[h].target = call[h].target
          /\ call'[h].seen = call[h].seen \/ call'[h].seen = {}
          /\ \A i \in Handlers \ {h} : call'[i] = call[i]
          /\ CallsNamed'
      BY <1>2, GoOnKeeps DEF Inv
    <2>2. TypeOK' /\ MembershipIsPermission'
      BY <2>1 DEF Inv, TypeOK, MembershipIsPermission, Tables
    <2>3. Granted'
      BY <2>1, NothingManagesNothing DEF Inv, Granted, Tables
    <2>4. CallerWasManager'
      BY <1>2, <2>1 DEF Inv, CallerWasManager, Tables
    <2> QED
      BY <2>1, <2>2, <2>3, <2>4 DEF Inv
  <1> QED
    BY <1>1, <1>2

\* Dropping a cache entry disturbs nothing.
LEMMA InvalidateGranted ==
    ASSUME TypeOK, Granted, NEW u \in Users, Invalidate(u)
    PROVE  /\ cache' \in [Users -> Entry]
           /\ \A v \in Users : Manages(cache'[v].roles) => v \in managers
  <1>1. NoEntry \in Entry /\ NoEntry.roles = {}
    BY SMT DEF NoEntry, Entry
  <1> QED
    BY <1>1, NothingManagesNothing DEF TypeOK, Granted, Invalidate

\* Binding a role adds it, and records who manages the organisation now.
LEMMA BindGranted ==
    ASSUME TypeOK, Granted, NEW u \in Users, NEW r \in Roles, Bind(u, r)
    PROVE  /\ bindings' \in [Users -> SUBSET Roles]
           /\ bindings'[u] = bindings[u] \cup {r}
           /\ \A v \in Users \ {u} : bindings'[v] = bindings[v]
           /\ cache' \in [Users -> Entry]
           /\ managers' \subseteq Users /\ managers \subseteq managers'
           /\ \A v \in Users : Manages(bindings'[v]) \/ Manages(cache'[v].roles) => v \in managers'
  <1>1. /\ cache' \in [Users -> Entry]
        /\ \A v \in Users : Manages(cache'[v].roles) => v \in managers
    BY InvalidateGranted DEF Bind
  <1>2. managers' \subseteq Users /\ managers \subseteq managers' /\ (Manages({r}) => u \in managers')
    BY SMT DEF Bind, TypeOK
  <1>3. /\ bindings' \in [Users -> SUBSET Roles]
        /\ bindings'[u] = bindings[u] \cup {r}
        /\ \A v \in Users \ {u} : bindings'[v] = bindings[v]
    BY SMT DEF Bind, TypeOK
  <1>4. Manages(bindings'[u]) <=> Manages(bindings[u]) \/ Manages({r})
    BY <1>3, ManagesUnion
  <1>5. \A v \in Users : Manages(bindings'[v]) => v \in managers'
    BY <1>2, <1>3, <1>4 DEF Granted
  <1> QED
    BY <1>1, <1>2, <1>3, <1>5

-----------------------------------------------------------------------------
(* The actions. *)

\* When tables are written, the calls of other handlers stay justified.
LEMMA WriteInv ==
    ASSUME Inv, TypeOK', MembershipIsPermission', CallsNamed', managers \subseteq managers',
           \A v \in Users : Manages(bindings'[v]) \/ Manages(cache'[v].roles) => v \in managers',
           \A i \in Handlers : call'[i] = call[i] \/ call'[i] = Idle
    PROVE  Inv'
  <1>0. Idle.step = "idle" /\ Idle.seen = {}
    BY DEF Idle
  <1>1. Granted'
    BY <1>0, NothingManagesNothing DEF Inv, Granted
  <1>2. CallerWasManager'
    BY <1>0 DEF Inv, CallerWasManager
  <1> QED
    BY <1>1, <1>2 DEF Inv

LEMMA CreateOrgInv == ASSUME Inv, NEW u \in Users, CreateOrg(u) PROVE Inv'
  <1>1. /\ bindings' \in [Users -> SUBSET Roles]
        /\ bindings'[u] = bindings[u] \cup {"owner"}
        /\ \A v \in Users \ {u} : bindings'[v] = bindings[v]
        /\ cache' \in [Users -> Entry]
        /\ managers' \subseteq Users /\ managers \subseteq managers'
        /\ \A v \in Users : Manages(bindings'[v]) \/ Manages(cache'[v].roles) => v \in managers'
    BY BindGranted DEF CreateOrg, Inv, Roles
  <1>2. /\ created' = TRUE /\ call' = call
        /\ members' = [members EXCEPT ![u] = "admin"]
    BY DEF CreateOrg
  <1>3. TypeOK' /\ CallsNamed'
    BY <1>1, <1>2 DEF Inv, TypeOK, CallsNamed, Roles, OrgRoles
  <1>4. MembershipIsPermission'
    BY <1>1, <1>2, SMT DEF Inv, TypeOK, MembershipIsPermission, Manages
  <1> QED
    BY <1>1, <1>2, <1>3, <1>4, WriteInv

LEMMA AddMemberInv == ASSUME Inv, NEW h \in Handlers, AddMember(h) PROVE Inv'
  <1>0. PICK t, r : t = call[h].target /\ r = call[h].role
    OBVIOUS
  <1>1. t \in Users /\ r \in OrgRoles
    <2>1. call[h] \in Call
      BY DEF Inv, TypeOK
    <2> QED
      BY <1>0, <2>1 DEF AddMember, Inv, CallsNamed, Call
  <1>2. OpaRole(r) \in Roles /\ (r = "member" => OpaRole(r) = "contributor")
                            /\ (r # "member" => OpaRole(r) = r)
    BY <1>1 DEF OpaRole, OrgRoles, Roles
  <1>3. /\ bindings' \in [Users -> SUBSET Roles]
        /\ bindings'[t] = bindings[t] \cup {OpaRole(r)}
        /\ \A v \in Users \ {t} : bindings'[v] = bindings[v]
        /\ cache' \in [Users -> Entry]
        /\ managers' \subseteq Users /\ managers \subseteq managers'
        /\ \A v \in Users : Manages(bindings'[v]) \/ Manages(cache'[v].roles) => v \in managers'
    BY <1>0, <1>1, <1>2, BindGranted DEF AddMember, Inv
  <1>4. created' = created /\ members' = [members EXCEPT ![t] = r] /\ Done(h)
    BY <1>0 DEF AddMember
  <1>5. /\ call' \in [Handlers -> Call]
        /\ call'[h] = Idle
        /\ \A i \in Handlers \ {h} : call'[i] = call[i]
        /\ CallsNamed'
    BY <1>4, DoneKeeps DEF Inv
  <1>6. TypeOK'
    BY <1>1, <1>3, <1>4, <1>5 DEF Inv, TypeOK
  <1>7. MembershipIsPermission'
    <2>1. /\ members'[t] = r /\ r # "none" /\ bindings'[t] # {}
          /\ r = "member" => "contributor" \in bindings'[t]
          /\ r # "member" => r \in bindings'[t]
      BY <1>1, <1>2, <1>3, <1>4 DEF Inv, TypeOK, OrgRoles, Roles
    <2>2. r = "admin" => Manages(bindings'[t])
      BY <2>1 DEF Manages
    <2>3. \A v \in Users \ {t} : members'[v] = members[v] /\ bindings'[v] = bindings[v]
      BY <1>3, <1>4 DEF Inv, TypeOK
    <2> QED
      BY <1>1, <2>1, <2>2, <2>3 DEF Inv, MembershipIsPermission, Manages
  <1> QED
    BY <1>3, <1>5, <1>6, <1>7, WriteInv

LEMMA RemoveMemberInv == ASSUME Inv, NEW h \in Handlers, RemoveMember(h) PROVE Inv'
  <1>0. PICK t : t = call[h].target
    OBVIOUS
  <1>1. t \in Users
    BY <1>0 DEF RemoveMember, Inv, CallsNamed
  <1>2. /\ created' = created /\ managers' = managers
        /\ members' = [members EXCEPT ![t] = "none"]
        /\ bindings' = [bindings EXCEPT ![t] = {}]
        /\ Invalidate(t) /\ Done(h)
    BY <1>0 DEF RemoveMember
  <1>3. /\ cache' \in [Users -> Entry]
        /\ \A v \in Users : Manages(cache'[v].roles) => v \in managers
    BY <1>1, <1>2, InvalidateGranted DEF Inv
  <1>4. \A v \in Users : Manages(bindings'[v]) => v \in managers
    BY <1>1, <1>2, NothingManagesNothing DEF Inv, TypeOK, Granted
  <1>5. /\ call' \in [Handlers -> Call]
        /\ call'[h] = Idle
        /\ \A i \in Handlers \ {h} : call'[i] = call[i]
        /\ CallsNamed'
    BY <1>2, DoneKeeps DEF Inv
  <1>6. TypeOK'
    BY <1>1, <1>2, <1>3, <1>5 DEF Inv, TypeOK
  <1>7. MembershipIsPermission'
    BY <1>1, <1>2, SMT DEF Inv, TypeOK, MembershipIsPermission
  <1> QED
    BY <1>2, <1>3, <1>4, <1>5, <1>6, <1>7, WriteInv

LEMMA TxFailsInv == ASSUME Inv, NEW h \in Handlers, TxFails(h) PROVE Inv'
  <1>0. PICK t : t = call[h].target
    OBVIOUS
  <1>1. t \in Users
    BY <1>0 DEF TxFails, Inv, CallsNamed
  <1>2. UNCHANGED Tables /\ (Invalidate(t) \/ cache' = cache) /\ Done(h)
    BY <1>0 DEF TxFails, Tables
  <1>3. /\ cache' \in [Users -> Entry]
        /\ \A v \in Users : Manages(cache'[v].roles) => v \in managers
    BY <1>1, <1>2, InvalidateGranted DEF Inv, TypeOK, Granted
  <1>4. /\ call' \in [Handlers -> Call]
        /\ call'[h] = Idle
        /\ \A i \in Handlers \ {h} : call'[i] = call[i]
        /\ CallsNamed'
    BY <1>2, DoneKeeps DEF Inv
  <1>5. TypeOK' /\ MembershipIsPermission'
    BY <1>2, <1>3, <1>4 DEF Inv, TypeOK, MembershipIsPermission, Tables
  <1>6. \A v \in Users : Manages(bindings'[v]) \/ Manages(cache'[v].roles) => v \in managers'
    BY <1>2, <1>3 DEF Inv, Granted, Tables
  <1> QED
    BY <1>2, <1>4, <1>5, <1>6, WriteInv DEF Tables

\* A new call is not authorised yet, unless its caller leaves.
LEMMA BeginInv ==
    ASSUME Inv, NEW h \in Handlers, NEW caller \in Users, NEW target \in Users,
           NEW op \in {"add", "remove", "update"}, NEW role \in OrgRoles,
           Begin(h, op, caller, target, role)
    PROVE  Inv'
  <1>1. PICK s \in {"role", "look"} :
           /\ s = "role" => caller = target
           /\ call' = [call EXCEPT ![h] = [step |-> s, op |-> op, caller |-> caller,
                           target |-> target, role |-> role, seen |-> {}]]
    BY DEF Begin
  <1>2. PICK c : c = [step |-> s, op |-> op, caller |-> caller, target |-> target, role |-> role,
                      seen |-> {}]
    OBVIOUS
  <1>3. /\ c \in Call /\ c.step = s /\ c.caller = caller /\ c.target = target /\ c.seen = {}
    BY <1>1, <1>2 DEF Call, Steps
  <1>4. call' = [call EXCEPT ![h] = c] /\ UNCHANGED Tables /\ UNCHANGED cache
    BY <1>1, <1>2 DEF Begin, Tables
  <1>5. TypeOK' /\ CallsNamed' /\ MembershipIsPermission'
    BY <1>3, <1>4 DEF Inv, TypeOK, CallsNamed, MembershipIsPermission, Tables
  <1>6. Granted'
    BY <1>3, <1>4, NothingManagesNothing DEF Inv, TypeOK, Granted, Tables
  <1>7. CallerWasManager'
    BY <1>1, <1>3, <1>4 DEF Inv, TypeOK, CallerWasManager, Tables
  <1> QED
    BY <1>5, <1>6, <1>7 DEF Inv

\* The engine lets pass whom the roles it is given make a manager.
LEMMA DecideSteps ==
    ASSUME NEW h \in Handlers, NEW roles, Decide(h, roles), call[h].step # "idle",
           Manages(roles) => call[h].caller \in managers
    PROVE  \/ Done(h)
           \/ \E s \in Steps :
                 /\ call[h].step # "idle"
                 /\ \/ call' = [call EXCEPT ![h].step = s]
                    \/ call' = [call EXCEPT ![h] = [@ EXCEPT !.step = s, !.seen = {}]]
                 /\ s \in {"add", "role", "count", "remove"} =>
                       call[h].caller = call[h].target \/ call[h].caller \in managers
  BY DEF Decide, Steps

LEMMA LookInv == ASSUME Inv, NEW h \in Handlers, CacheHit(h) \/ CacheMiss(h) PROVE Inv'
  <1>1. UNCHANGED Tables /\ UNCHANGED cache /\ call[h].step = "look"
    BY DEF CacheHit, CacheMiss, Tables
  <1>2. CASE CacheHit(h)
    <2>1. Manages(cache[call[h].caller].roles) => call[h].caller \in managers
      BY <1>1 DEF Inv, Granted, CallsNamed
    <2> QED
      BY <1>1, <1>2, <2>1, DecideSteps, HandlerInv DEF CacheHit
  <1>3. CASE CacheMiss(h)
    <2>1. call' = [call EXCEPT ![h].step = "list"] /\ "list" \in Steps
      BY <1>3 DEF CacheMiss, GoTo, Steps
    <2> QED
      BY <1>1, <2>1, HandlerInv
  <1> QED
    BY <1>2, <1>3

\* The roles a handler lists were granted.
LEMMA ListBySubjectInv == ASSUME Inv, NEW h \in Handlers, ListBySubject(h) PROVE Inv'
  <1>1. PICK c : c = [call[h] EXCEPT !.step = "store", !.seen = bindings[call[h].caller]]
    OBVIOUS
  <1>2. call[h] \in Call /\ call[h].caller \in Users /\ call[h].target \in Users
    BY DEF Inv, TypeOK, CallsNamed, ListBySubject
  <1>3. bindings[call[h].caller] \in SUBSET Roles
    BY <1>2 DEF Inv, TypeOK
  <1>4. PICK d, b : d = call[h] /\ b = bindings[call[h].caller]
    OBVIOUS
  <1>5. d = [step |-> d.step, op |-> d.op, caller |-> d.caller, target |-> d.target,
             role |-> d.role, seen |-> d.seen]
    BY <1>2, <1>4 DEF Call
  <1>6. c = [step |-> "store", op |-> d.op, caller |-> d.caller, target |-> d.target,
             role |-> d.role, seen |-> b]
    BY <1>1, <1>4, <1>5
  <1>7. /\ c \in Call /\ c.step = "store" /\ c.caller = call[h].caller
        /\ c.target = call[h].target /\ c.seen = bindings[call[h].caller]
    BY <1>2, <1>3, <1>4, <1>6 DEF Call, Steps
  <1>8. call' = [call EXCEPT ![h] = c] /\ UNCHANGED Tables /\ UNCHANGED cache
    BY <1>1 DEF ListBySubject, Tables
  <1>9. TypeOK' /\ CallsNamed' /\ MembershipIsPermission'
    BY <1>2, <1>7, <1>8 DEF Inv, TypeOK, CallsNamed, MembershipIsPermission, Tables
  <1>10. Granted'
    BY <1>2, <1>7, <1>8 DEF Inv, TypeOK, Granted, Tables
  <1>11. CallerWasManager'
    BY <1>7, <1>8 DEF Inv, TypeOK, CallerWasManager, Tables
  <1> QED
    BY <1>9, <1>10, <1>11 DEF Inv

\* The roles a handler caches were granted, however long ago it listed them.
LEMMA StoreInv == ASSUME Inv, NEW h \in Handlers, Store(h) PROVE Inv'
  <1>0. PICK u, b : u = call[h].caller /\ b = call[h].seen
    OBVIOUS
  <1>1. u \in Users /\ b \in SUBSET Roles /\ (Manages(b) => u \in managers)
    <2>1. call[h] \in Call
      BY DEF Inv, TypeOK
    <2> QED
      BY <1>0, <2>1 DEF Store, Inv, CallsNamed, Granted, Call
  <1>2. PICK e : e = [cached |-> TRUE, roles |-> b]
    OBVIOUS
  <1>3. e \in Entry /\ e.roles = b
    BY <1>1, <1>2 DEF Entry
  <1>4. cache' = [cache EXCEPT ![u] = e] /\ UNCHANGED Tables
    BY <1>0, <1>2 DEF Store, Tables
  <1>5. \/ Done(h)
        \/ \E s \in Steps :
              /\ call[h].step # "idle"
              /\ \/ call' = [call EXCEPT ![h].step = s]
                 \/ call' = [call EXCEPT ![h] = [@ EXCEPT !.step = s, !.seen = {}]]
              /\ s \in {"add", "role", "count", "remove"} =>
                    call[h].caller = call[h].target \/ call[h].caller \in managers
    BY <1>0, <1>1, DecideSteps DEF Store
  <1>6. /\ call' \in [Handlers -> Call] /\ CallsNamed'
        /\ \A i \in Handlers \ {h} : call'[i] = call[i]
        /\ \/ call'[h] = Idle
           \/ /\ call'[h].caller = call[h].caller /\ call'[h].target = call[h].target
              /\ call'[h].seen = call[h].seen \/ call'[h].seen = {}
              /\ call'[h].step \in {"add", "role", "count", "remove"} =>
                    call[h].caller = call[h].target \/ call[h].caller \in managers
    BY <1>5, DoneKeeps, GoOnKeeps DEF Inv
  <1>7. Idle.step = "idle" /\ Idle.seen = {}
    BY DEF Idle
  <1>8. TypeOK' /\ MembershipIsPermission'
    BY <1>3, <1>4, <1>6 DEF Inv, TypeOK, MembershipIsPermission, Tables
  <1>9. Granted'
    BY <1>1, <1>3, <1>4, <1>6, <1>7, NothingManagesNothing DEF Inv, TypeOK, Granted, Tables
  <1>10. CallerWasManager'
    BY <1>4, <1>6, <1>7 DEF Inv, CallerWasManager, Tables
  <1> QED
    BY <1>6, <1>8, <1>9, <1>10 DEF Inv

\* Reading the role and counting the admins keep the authorisation.
LEMMA ReadInv ==
    ASSUME Inv, NEW h \in Handlers, GetMemberRole(h) \/ CountAdmins(h) \/ Drop(h)
    PROVE  Inv'
  <1>1. UNCHANGED Tables /\ UNCHANGED cache
    BY DEF GetMemberRole, CountAdmins, Drop, Tables
  <1>2. \/ Done(h)
        \/ \E s \in {"count", "remove"} :
              /\ call[h].step \in {"role", "count"}
              /\ call' = [call EXCEPT ![h].step = s]
    BY DEF GetMemberRole, CountAdmins, Drop, GoTo
  <1>3. call[h].step \in {"role", "count"} =>
           call[h].caller = call[h].target \/ call[h].caller \in managers
    BY DEF Inv, CallerWasManager
  <1>4. "count" \in Steps /\ "remove" \in Steps
    BY DEF Steps
  <1> QED
    BY <1>1, <1>2, <1>3, <1>4, HandlerInv

LEMMA ExpireInv == ASSUME Inv, NEW u \in Users, Expire(u) PROVE Inv'
  <1>1. /\ cache' \in [Users -> Entry]
        /\ \A v \in Users : Manages(cache'[v].roles) => v \in managers
    BY InvalidateGranted DEF Inv, Expire
  <1>2. TypeOK' /\ CallsNamed' /\ MembershipIsPermission' /\ UNCHANGED Tables /\ call' = call
    BY <1>1 DEF Expire, Inv, TypeOK, CallsNamed, MembershipIsPermission, Tables
  <1> QED
    BY <1>1, <1>2, WriteInv DEF Inv, Granted, Tables

LEMMA RestartInv == ASSUME Inv, Restart PROVE Inv'
  <1>1. Idle \in Call /\ NoEntry \in Entry /\ Idle.step = "idle" /\ NoEntry.roles = {}
    BY IdleIsCall DEF Idle, NoEntry
  <1>2. TypeOK' /\ CallsNamed' /\ MembershipIsPermission' /\ UNCHANGED Tables
    BY <1>1 DEF Restart, Inv, TypeOK, CallsNamed, MembershipIsPermission, Tables
  <1>3. /\ \A v \in Users : cache'[v] = NoEntry
        /\ \A i \in Handlers : call'[i] = Idle
    BY DEF Restart
  <1> QED
    BY <1>1, <1>2, <1>3, NothingManagesNothing, WriteInv DEF Inv, Granted, Tables

LEMMA NextInv == Inv /\ [Next]_vars => Inv'
  <1> SUFFICES ASSUME Inv, [Next]_vars PROVE Inv'
    OBVIOUS
  <1>1. ASSUME NEW h \in Handlers, Step(h) PROVE Inv'
    BY <1>1, LookInv, ListBySubjectInv, StoreInv, ReadInv, AddMemberInv, RemoveMemberInv,
       TxFailsInv DEF Step
  <1>2. CASE UNCHANGED vars
    BY <1>2 DEF vars, Inv, TypeOK, CallsNamed, Granted, CallerWasManager, MembershipIsPermission
  <1>3. \A u \in Users : Asked[u] \cup {"member"} \subseteq OrgRoles
    BY OrgAssumption DEF OrgRoles
  <1> QED
    BY <1>1, <1>2, <1>3, CreateOrgInv, ExpireInv, BeginInv, RestartInv, ZenonT(60) DEF Next

\* The inductive invariant holds throughout.
THEOREM Invariance == Spec => []Inv
  BY InitInv, NextInv, PTL DEF Spec

\* The variables have their types, whatever the constants (handler.go:309-508).
THEOREM TypeCorrect == Spec => []TypeOK
  <1>1. Inv => TypeOK
    BY DEF Inv
  <1> QED
    BY <1>1, Invariance, PTL

\* Membership rows and bindings agree on who belongs to the organisation
\* (handler.go:420-422, 489-490).
THEOREM RowsAgree == Spec => []MembershipIsPermission
  <1>1. Inv => MembershipIsPermission
    BY DEF Inv
  <1> QED
    BY <1>1, Invariance, PTL

\* Only users who were once managers get to change memberships of others,
\* however stale the cache is (handler.go:44-60, store.go:138-183).
THEOREM OnlyManagersManage == Spec => []CallerWasManager
  <1>1. Inv => CallerWasManager
    BY DEF Inv
  <1> QED
    BY <1>1, Invariance, PTL

=============================================================================
