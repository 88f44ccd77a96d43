---------------------------- MODULE Credentials ----------------------------
(***************************************************************************)
(* How a caller comes by a credential and what it opens: sign-in through   *)
(* an OAuth provider, linked identities, sessions and personal access      *)
(* tokens, and the interceptor every call passes.                          *)
(*                                                                         *)
(* Handlers run at the same time and share the database and the cache; a   *)
(* store or cache call is a step.  Rate limits only refuse and are left    *)
(* out, and so are the second factor and unverified addresses, which       *)
(* SecondFactor and Account model.                                         *)
(***************************************************************************)
EXTENDS Integers, Sequences, FiniteSets

CONSTANTS
    Handlers,
    Identities,       \* what providers say of their accounts: [provider, uid, email]
    Users,            \* row numbers of the users table, 1..n
    Scenarios,        \* initial contents of the users table and its links
    ScopeLists,       \* what clients ask for: sequences of scopes
    KnownScopes,
    Ops,              \* the procedures clients call
    MaxTokens,        \* maxAPITokensPerUser
    NameTries,        \* candidates tried for a username
    MaxCalls, MaxRows, MaxSessions, MaxStates, MaxFaults

VARIABLES
    linkByEmail, \* oauth.allowAccountLinkingByEmail
    users,      \* users table
    links,      \* oauth_identities: set of [user, ident], unique in provider and uid
    sessions,   \* sessions table, in order of creation
    tokens,     \* api_tokens table, in order of creation
    cache,      \* OAuth states: state -> provider
    h,          \* the call each handler serves
    calls, faults,
    linked,     \* history: every link there ever was
    unlinked,   \* history: the provider accounts that a user has unlinked
    admitted,   \* history: states with which a callback has gone on
    ran         \* history: handler bodies that ran, with the credential

vars == <<linkByEmail, users, links, sessions, tokens, cache, h, calls, faults,
          linked, unlinked, admitted, ran>>
tables == <<linkByEmail, users, links, sessions, tokens, cache>>
history == <<linked, unlinked, admitted, ran>>

NoOne == 0
NoIdent == [provider |-> "", uid |-> 0, email |-> 0]
Nobody == [kind |-> "none", id |-> 0]

Idle == [op |-> "", pc |-> "idle", cred |-> Nobody, user |-> NoOne, arg |-> 0,
         provider |-> "", ident |-> NoIdent, found |-> "", name |-> 0,
         seen |-> {}, scopes |-> <<>>, fresh |-> TRUE]

NoUser == [row |-> FALSE, email |-> 0, name |-> <<0, 0>>, password |-> FALSE,
           verified |-> FALSE, owner |-> FALSE, active |-> FALSE, maker |-> NoIdent]

Range(s) == {s[i] : i \in DOMAIN s}

\* The account at the provider.  Its address may change.
Key(i) == <<i.provider, i.uid>>

Init ==
    /\ linkByEmail \in BOOLEAN
    /\ \E s \in Scenarios :
         /\ users = [u \in Users |-> IF u \in DOMAIN s.users THEN s.users[u] ELSE NoUser]
         /\ links = s.links
         /\ linked = s.links
         /\ sessions = [i \in 1..Len(s.users) |-> [user |-> i, revoked |-> FALSE, ident |-> NoIdent]]
    /\ tokens = <<>>
    /\ cache = <<>>
    /\ h = [x \in Handlers |-> Idle]
    /\ calls = 0 /\ faults = 0
    /\ unlinked = {} /\ admitted = {} /\ ran = {}

----------------------------------------------------------------------------
\* Steps of a call.

Goto(x, pc) == h' = [h EXCEPT ![x].pc = pc]
Done(x) == h' = [h EXCEPT ![x] = Idle]
Quiet == UNCHANGED <<calls, faults>>

\* A store, cache or provider call fails and the handler returns the error.
Fail(x) ==
    /\ faults < MaxFaults
    /\ h[x].pc # "idle"
    /\ faults' = faults + 1
    /\ Done(x)
    /\ UNCHANGED <<tables, history, calls>>

\* A read whose error the code takes for "no such row".
ReadFails(x, next) ==
    /\ faults < MaxFaults
    /\ faults' = faults + 1
    /\ Goto(x, next)
    /\ UNCHANGED <<tables, history, calls>>

----------------------------------------------------------------------------
\* The interceptor.

optionalAuthProcedures == {"Download"}
sessionOnlyProcedures == {"CreateAPIToken", "RevokeAPIToken", "UnlinkProvider"}
patOnlyProcedures == {"Upload"}

\* A live credential of a live account.
SessionLive(s) == ~s.revoked
TokenLive(t) == ~t.revoked /\ ~t.expired
AccountActive(u) == users[u].row /\ users[u].active

Live(c) ==
    \/ c.kind = "session" /\ c.id \in DOMAIN sessions
         /\ SessionLive(sessions[c.id]) /\ AccountActive(sessions[c.id].user)
    \/ c.kind = "token" /\ c.id \in DOMAIN tokens
         /\ TokenLive(tokens[c.id]) /\ AccountActive(tokens[c.id].user)

\* Prefix routing: what kind of credential may call what.
Routed(kind, op) ==
    \/ kind = "none" /\ op \in optionalAuthProcedures
    \/ kind = "session" /\ op \notin patOnlyProcedures
    \/ kind = "token" /\ op \notin sessionOnlyProcedures

\* wrapUnary: a call arrives with a credential.  fresh remembers whether the
\* credential was live when it arrived.
Call(x, op, c, arg, provider, scopes) ==
    /\ h[x].pc = "idle" /\ calls < MaxCalls
    /\ calls' = calls + 1
    /\ op \in Ops /\ Routed(c.kind, op)
    /\ h' = [h EXCEPT ![x] = [Idle EXCEPT !.op = op, !.cred = c, !.arg = arg,
                !.provider = provider, !.scopes = scopes,
                !.fresh = c.kind = "none" \/ Live(c),
                !.pc = IF c.kind = "none" THEN "body" ELSE "credential"]]
    /\ UNCHANGED <<tables, history, faults>>

\* resolveSession, resolveAPIToken: the row of the credential.
CredentialRow(c) == IF c.kind = "session" THEN sessions[c.id] ELSE tokens[c.id]

\* Mutant: a revoked token is looked up like any other.
RowAcceptedRevoked(c) ==
    IF c.kind = "session" THEN SessionLive(sessions[c.id]) ELSE ~tokens[c.id].expired

RowAccepted(c) ==
    IF c.kind = "session" THEN SessionLive(sessions[c.id]) ELSE TokenLive(tokens[c.id])

LookUp(x) ==
    LET c == h[x].cred IN
    /\ h[x].pc = "credential"
    /\ IF RowAccepted(c)
       THEN h' = [h EXCEPT ![x].user = CredentialRow(c).user, ![x].pc = "account"]
       ELSE Done(x)
    /\ UNCHANGED <<tables, history>> /\ Quiet

\* GetByID and checkUserState; touching the session or the token is best effort.
CheckUserState(x) ==
    /\ h[x].pc = "account"
    /\ IF AccountActive(h[x].user) THEN Goto(x, "body") ELSE Done(x)
    /\ UNCHANGED <<tables, history>> /\ Quiet

\* ScopesFromValues: an empty list is a token from before scopes.
ScopesFromValues(values) == [unrestricted |-> values = {}, values |-> values]

EffectiveScopes(c) ==
    IF c.kind = "token" THEN ScopesFromValues(tokens[c.id].scopes)
    ELSE [unrestricted |-> TRUE, values |-> {}]

\* The body of a handler with no state of its own here.
Body(x) ==
    /\ h[x].pc = "body" /\ h[x].op \in {"Download", "Upload"}
    /\ ran' = ran \cup {[op |-> h[x].op, kind |-> h[x].cred.kind, fresh |-> h[x].fresh,
                         unrestricted |-> EffectiveScopes(h[x].cred).unrestricted]}
    /\ Done(x)
    /\ UNCHANGED <<tables, linked, unlinked, admitted>> /\ Quiet

----------------------------------------------------------------------------
\* Personal access tokens.

validateScopes(s) ==
    /\ s # <<>>
    /\ Range(s) \subseteq KnownScopes
    /\ Cardinality(Range(s)) = Len(s)

\* The page CreateAPIToken counts: the newest MaxTokens + 1 rows of the user,
\* revoked ones included.
Page(u) ==
    LET mine == {i \in DOMAIN tokens : tokens[i].user = u} IN
    {i \in mine : Cardinality({j \in mine : j > i}) <= MaxTokens}

CountTokens(x) ==
    LET live == {i \in Page(h[x].user) : TokenLive(tokens[i])} IN
    /\ h[x].pc = "body" /\ h[x].op = "CreateAPIToken"
    /\ IF validateScopes(h[x].scopes) /\ Cardinality(live) < MaxTokens
       THEN Goto(x, "insert") ELSE Done(x)
    /\ UNCHANGED <<tables, history>> /\ Quiet

CreateAPIToken(x) ==
    /\ h[x].pc = "insert"
    /\ Len(tokens) < MaxRows
    /\ tokens' = Append(tokens, [user |-> h[x].user, scopes |-> Range(h[x].scopes),
                                 revoked |-> FALSE, expired |-> FALSE, by |-> h[x].cred.kind])
    /\ ran' = ran \cup {[op |-> h[x].op, kind |-> h[x].cred.kind, fresh |-> h[x].fresh,
                         unrestricted |-> EffectiveScopes(h[x].cred).unrestricted]}
    /\ Done(x)
    /\ UNCHANGED <<linkByEmail, users, links, sessions, cache, linked, unlinked, admitted>> /\ Quiet

\* RevokeByOwner: the row is named by the caller and must be theirs.
RevokeAPIToken(x) ==
    LET t == h[x].arg IN
    /\ h[x].pc = "body" /\ h[x].op = "RevokeAPIToken"
    /\ tokens' = IF tokens[t].user = h[x].user THEN [tokens EXCEPT ![t].revoked = TRUE] ELSE tokens
    /\ Done(x)
    /\ UNCHANGED <<linkByEmail, users, links, sessions, cache, history>> /\ Quiet

----------------------------------------------------------------------------
\* OAuth sign-in.

\* GetOAuthURL issues a state and records it with its provider.
GetOAuthURL(x, p) ==
    /\ h[x].pc = "idle" /\ calls < MaxCalls
    /\ "GetOAuthURL" \in Ops /\ Len(cache) < MaxStates
    /\ calls' = calls + 1
    /\ cache' = Append(cache, p)
    /\ UNCHANGED <<linkByEmail, users, links, sessions, tokens, h, history, faults>>

Gone == ""

\* OAuthCallback: the state is looked up ...
OAuthCallback(x, st, p) ==
    /\ h[x].pc = "idle" /\ calls < MaxCalls
    /\ calls' = calls + 1
    /\ cache[st] # Gone
    /\ h' = [h EXCEPT ![x] = [Idle EXCEPT !.op = "OAuthCallback", !.arg = st,
                !.provider = p, !.found = cache[st], !.pc = "delete",
                !.fresh = st \notin admitted]]
    /\ UNCHANGED <<tables, history, faults>>

\* ... deleted, an error only being logged, and compared with the provider.
ConsumeOAuthState(x) ==
    LET st == h[x].arg
        matches == h[x].found = h[x].provider
    IN
    /\ h[x].pc = "delete"
    /\ \/ cache' = [cache EXCEPT ![st] = Gone] /\ UNCHANGED faults
       \/ faults < MaxFaults /\ faults' = faults + 1 /\ UNCHANGED cache
    /\ admitted' = IF matches THEN admitted \cup {st} ELSE admitted
    /\ IF matches THEN Goto(x, "exchange") ELSE Done(x)
    /\ UNCHANGED <<linkByEmail, users, links, sessions, tokens, linked, unlinked, ran, calls>>

\* Exchange and fetchProviderProfile: the provider names one of its accounts
\* with an address it has verified.
FetchProviderProfile(x) ==
    /\ h[x].pc = "exchange"
    /\ \E i \in Identities :
         /\ i.provider = h[x].provider
         /\ h' = [h EXCEPT ![x].ident = i, ![x].pc = "identity"]
    /\ UNCHANGED <<tables, history>> /\ Quiet

\* resolveOAuthUser: is the identity linked?
GetByProviderUID(x) ==
    LET mine == {l \in links : Key(l.ident) = Key(h[x].ident)} IN
    /\ h[x].pc = "identity"
    /\ \/ /\ IF mine # {}
             THEN \E l \in mine : h' = [h EXCEPT ![x].user = l.user, ![x].pc = "session"]
             ELSE Goto(x, "email")
          /\ UNCHANGED <<tables, history>> /\ Quiet
       \/ ReadFails(x, "email")

\* Mutant: an account with the address is linked whatever the setting says.
GetByEmailAlwaysLinks(x) ==
    LET same == {u \in Users : users[u].row /\ users[u].email = h[x].ident.email} IN
    /\ h[x].pc = "email"
    /\ IF same = {} THEN h' = [h EXCEPT ![x].pc = "name"]
       ELSE \E u \in same : h' = [h EXCEPT ![x].user = u, ![x].pc = "link"]
    /\ UNCHANGED <<tables, history>> /\ Quiet

\* Mutant: an account with the address is signed in to without a link.
GetByEmailNoLink(x) ==
    LET same == {u \in Users : users[u].row /\ users[u].email = h[x].ident.email} IN
    /\ h[x].pc = "email"
    /\ IF same = {} THEN h' = [h EXCEPT ![x].pc = "name"]
       ELSE IF ~linkByEmail THEN Done(x)
       ELSE \E u \in same : h' = [h EXCEPT ![x].user = u, ![x].pc = "session"]
    /\ UNCHANGED <<tables, history>> /\ Quiet

\* ... does an account use its address?
GetByEmail(x) ==
    LET same == {u \in Users : users[u].row /\ users[u].email = h[x].ident.email} IN
    /\ h[x].pc = "email"
    /\ \/ /\ IF same = {} THEN h' = [h EXCEPT ![x].pc = "name"]
             ELSE IF ~linkByEmail THEN Done(x)
             ELSE \E u \in same : h' = [h EXCEPT ![x].user = u, ![x].pc = "link"]
          /\ UNCHANGED <<tables, history>> /\ Quiet
       \/ ReadFails(x, "name")

IdentFree(i) == \A l \in links : Key(l.ident) # Key(i)

\* The account takes the identity on.
LinkIdentity(x) ==
    LET l == [user |-> h[x].user, ident |-> h[x].ident] IN
    /\ h[x].pc = "link"
    /\ IF IdentFree(h[x].ident)
       THEN /\ links' = links \cup {l}
            /\ linked' = linked \cup {l}
            /\ Goto(x, "session")
       ELSE Done(x) /\ UNCHANGED <<links, linked>>
    /\ UNCHANGED <<linkByEmail, users, sessions, tokens, cache, unlinked, admitted, ran>> /\ Quiet

Name(i, k) == <<i.uid, k>>
NameTaken(n) == \E u \in Users : users[u].row /\ users[u].name = n

\* generateOAuthUsername: the next candidate is free, taken, or one too many.
GenerateOAuthUsername(x) ==
    /\ h[x].pc = "name"
    /\ IF ~NameTaken(Name(h[x].ident, h[x].name)) THEN Goto(x, "create")
       ELSE IF h[x].name + 1 < NameTries THEN h' = [h EXCEPT ![x].name = @ + 1]
       ELSE Done(x)
    /\ UNCHANGED <<tables, history>> /\ Quiet

\* The row that CreateOAuthUser adds, for a free number.
FreeUser == CHOOSE u \in Users : ~users[u].row /\ \A v \in Users : v < u => users[v].row

NewUser(i, n) ==
    [row |-> TRUE, email |-> i.email, name |-> n, password |-> FALSE,
     verified |-> TRUE, owner |-> TRUE, active |-> TRUE, maker |-> i]

UserFree(i, n) == ~NameTaken(n) /\ \A u \in Users : users[u].row => users[u].email # i.email

\* Mutant: the identity is linked after the transaction, and the account stays
\* when that fails.
CreateOAuthUserFirst(x) ==
    LET i == h[x].ident
        n == Name(i, h[x].name)
        l == [user |-> FreeUser, ident |-> i]
    IN
    /\ h[x].pc = "create"
    /\ UserFree(i, n) => \E u \in Users : ~users[u].row
    /\ users' = IF UserFree(i, n) THEN [users EXCEPT ![FreeUser] = NewUser(i, n)] ELSE users
    /\ IF UserFree(i, n) /\ IdentFree(i)
       THEN /\ links' = links \cup {l}
            /\ linked' = linked \cup {l}
            /\ h' = [h EXCEPT ![x].user = FreeUser, ![x].pc = "session"]
       ELSE Done(x) /\ UNCHANGED <<links, linked>>
    /\ UNCHANGED <<linkByEmail, sessions, tokens, cache, unlinked, admitted, ran>> /\ Quiet

\* One transaction: user, verified address, owner role and identity.
CreateOAuthUser(x) ==
    LET i == h[x].ident
        n == Name(i, h[x].name)
        l == [user |-> FreeUser, ident |-> i]
    IN
    /\ h[x].pc = "create"
    /\ IF UserFree(i, n) /\ IdentFree(i)
       THEN /\ \E u \in Users : ~users[u].row
            /\ users' = [users EXCEPT ![FreeUser] = NewUser(i, n)]
            /\ links' = links \cup {l}
            /\ linked' = linked \cup {l}
            /\ h' = [h EXCEPT ![x].user = FreeUser, ![x].pc = "session"]
       ELSE Done(x) /\ UNCHANGED <<users, links, linked>>
    /\ UNCHANGED <<linkByEmail, sessions, tokens, cache, unlinked, admitted, ran>> /\ Quiet

CreateSession(x) ==
    /\ h[x].pc = "session"
    /\ Len(sessions) < MaxSessions
    /\ sessions' = Append(sessions, [user |-> h[x].user, revoked |-> FALSE, ident |-> h[x].ident])
    /\ Done(x)
    /\ UNCHANGED <<linkByEmail, users, links, tokens, cache, history>> /\ Quiet

----------------------------------------------------------------------------
\* UnlinkProvider.

LinksOf(u) == {l \in links : l.user = u}

ReadAuthFields(x) ==
    /\ h[x].pc = "body" /\ h[x].op = "UnlinkProvider"
    /\ Goto(x, IF users[h[x].user].password THEN "unlink" ELSE "remaining")
    /\ UNCHANGED <<tables, history>> /\ Quiet

\* Mutant: the link being removed counts as remaining.
CountAll(x) ==
    /\ h[x].pc = "remaining"
    /\ h' = [h EXCEPT ![x] =
         IF LinksOf(h[x].user) # {}
         THEN [@ EXCEPT !.seen = LinksOf(h[x].user), !.pc = "unlink"] ELSE Idle]
    /\ UNCHANGED <<tables, history>> /\ Quiet

CountRemaining(x) ==
    /\ h[x].pc = "remaining"
    /\ h' = [h EXCEPT ![x] =
         IF \E l \in LinksOf(h[x].user) : l.ident.provider # h[x].provider
         THEN [@ EXCEPT !.seen = LinksOf(h[x].user), !.pc = "unlink"] ELSE Idle]
    /\ UNCHANGED <<tables, history>> /\ Quiet

DeleteByUserAndProvider(x) ==
    /\ h[x].pc = "unlink"
    /\ links' = {l \in links : ~(l.user = h[x].user /\ l.ident.provider = h[x].provider)}
    /\ unlinked' = unlinked \cup {Key(l.ident) : l \in links \ links'}
    /\ Done(x)
    /\ UNCHANGED <<linkByEmail, users, sessions, tokens, cache, linked, admitted, ran>> /\ Quiet

----------------------------------------------------------------------------
\* Around the handlers: time passes, operators deactivate accounts, sessions end.

ExpireToken ==
    \E t \in DOMAIN tokens :
        /\ ~tokens[t].expired
        /\ tokens' = [tokens EXCEPT ![t].expired = TRUE]
        /\ UNCHANGED <<linkByEmail, users, links, sessions, cache, h, history>> /\ Quiet

EndSession ==
    \E s \in DOMAIN sessions :
        /\ ~sessions[s].revoked
        /\ sessions' = [sessions EXCEPT ![s].revoked = TRUE]
        /\ UNCHANGED <<linkByEmail, users, links, tokens, cache, h, history>> /\ Quiet

Deactivate ==
    \E u \in Users :
        /\ users[u].row /\ users[u].active
        /\ users' = [users EXCEPT ![u].active = FALSE]
        /\ UNCHANGED <<linkByEmail, links, sessions, tokens, cache, h, history>> /\ Quiet

\* oauthStateTTL passes.
ExpireState ==
    \E st \in DOMAIN cache :
        /\ cache[st] # Gone
        /\ cache' = [cache EXCEPT ![st] = Gone]
        /\ UNCHANGED <<linkByEmail, users, links, sessions, tokens, h, history>> /\ Quiet

Credential ==
    {[kind |-> "session", id |-> s] : s \in DOMAIN sessions}
      \cup {[kind |-> "token", id |-> t] : t \in DOMAIN tokens} \cup {Nobody}

Providers == {i.provider : i \in Identities}

Step(x) ==
    \/ LookUp(x) \/ CheckUserState(x) \/ Body(x)
    \/ CountTokens(x) \/ CreateAPIToken(x) \/ RevokeAPIToken(x)
    \/ ConsumeOAuthState(x) \/ FetchProviderProfile(x) \/ GetByProviderUID(x)
    \/ GetByEmail(x) \/ LinkIdentity(x) \/ GenerateOAuthUsername(x)
    \/ CreateOAuthUser(x) \/ CreateSession(x)
    \/ ReadAuthFields(x) \/ CountRemaining(x) \/ DeleteByUserAndProvider(x)

Arrive(x) ==
    \/ \E c \in Credential, op \in {"Download", "Upload"} : Call(x, op, c, 0, "", <<>>)
    \/ \E c \in Credential, s \in ScopeLists : Call(x, "CreateAPIToken", c, 0, "", s)
    \/ \E c \in Credential, t \in DOMAIN tokens : Call(x, "RevokeAPIToken", c, t, "", <<>>)
    \/ \E c \in Credential, p \in Providers : Call(x, "UnlinkProvider", c, 0, p, <<>>)
    \/ \E p \in Providers : GetOAuthURL(x, p)
    \/ \E st \in DOMAIN cache, p \in Providers : OAuthCallback(x, st, p)

Next ==
    \/ \E x \in Handlers : Arrive(x) \/ Step(x) \/ Fail(x)
    \/ ExpireToken \/ EndSession \/ Deactivate \/ ExpireState

Spec == Init /\ [][Next]_vars

----------------------------------------------------------------------------
\* Properties.

\* Types; a link's account exists and an identity is linked to one account.
TypeOK ==
    /\ \A l \in links : l.user \in Users /\ users[l.user].row /\ l.ident \in Identities
    /\ \A l, k \in links : Key(l.ident) = Key(k.ident) => l = k
    /\ \A i \in DOMAIN sessions : users[sessions[i].user].row
    /\ \A i \in DOMAIN tokens : tokens[i].user \in Users /\ tokens[i].scopes \subseteq KnownScopes
    /\ \A u, v \in Users : users[u].row /\ users[v].row /\ users[u].name = users[v].name => u = v
    /\ calls \in 0..MaxCalls /\ faults \in 0..MaxFaults

\* A sign-in through a provider ends in a session of an account that this very
\* identity was linked to, whatever other sign-ins, links and failed reads
\* happened between the look-up and the session.
SessionOfLinkedAccount ==
    \A i \in DOMAIN sessions :
        sessions[i].ident # NoIdent =>
            \E l \in linked : l.user = sessions[i].user /\ Key(l.ident) = Key(sessions[i].ident)

\* Unless the operator allows linking by address, an identity is linked only in
\* the step that creates its account: no interleaving of sign-ins whose look-ups
\* failed or went stale attaches one to an account that exists.
AddressClaimsNothing ==
    [][~linkByEmail => \A l \in links' \ links : ~users[l.user].row]_vars

\* "a partial account can never survive": an account made by a sign-in has its
\* address verified, its owner role and had its identity, at every moment.
NoPartialAccount ==
    \A u \in Users : users[u].row /\ users[u].maker # NoIdent =>
        /\ users[u].verified /\ users[u].owner
        /\ [user |-> u, ident |-> users[u].maker] \in linked

\* Nobody is given a second account (oauth.go:217-280, where a failed look-up of
\* the identity or the address passes for a missing row): until its user unlinks
\* it, an identity makes and opens one account only, also when its address at the
\* provider has changed since, and two accounts have two addresses.
NoSecondAccount ==
    /\ \A u, v \in Users : u # v /\ users[u].row /\ users[v].row => users[u].email # users[v].email
    /\ \A l \in linked : Key(l.ident) \notin unlinked =>
          /\ \A u \in Users : users[u].row /\ Key(users[u].maker) = Key(l.ident) => u = l.user
          /\ \A i \in DOMAIN sessions :
                Key(sessions[i].ident) = Key(l.ident) => sessions[i].user = l.user

\* An unlink leaves an account without any way to sign in only when another
\* call changed its links after this one had counted them.
OnlyARaceLocksOut ==
    [][\A x \in Handlers :
        LET u == h[x].user IN
        h[x].pc = "unlink" /\ h'[x] = Idle /\ ~users[u].password
          /\ LinksOf(u) # {} /\ {l \in links' : l.user = u} = {}
            => h[x].seen # LinksOf(u)]_vars

\* What runs for a caller was begun with a credential that was live: a token
\* revoked, expired or owned by a deactivated account before the call arrived
\* opens nothing.
DeadCredentialRefused == \A r \in ran : r.fresh

\* A token is minted by an interactive session only, so a token can not be used
\* to mint another one that outlives its revocation.
MintedBySession == \A i \in DOMAIN tokens : tokens[i].by = "session"

\* No token runs anything unrestricted: the empty scope list, which means that
\* on the way in, never reaches the table.
TokensAreScoped == \A r \in ran : r.kind = "token" => ~r.unrestricted

\* Not kept.  "caps how many live tokens one account may hold": only the newest
\* rows are counted, and revoked ones push live ones off that page.
TokensCapped ==
    \A u \in Users :
        Cardinality({i \in DOMAIN tokens : tokens[i].user = u /\ TokenLive(tokens[i])}) <= MaxTokens

\* Not kept.  The state "is single-use (a replayed callback is rejected)"
\* (oauth.go:88-90): when its deletion fails, which is only logged, a callback
\* that comes after the first one has gone on goes on as well.
ReplayRejected ==
    \A x \in Handlers : h[x].op = "OAuthCallback" /\ h[x].pc # "delete" => h[x].fresh

\* Not kept.  "a concurrent replay loses the race" (oauth.go:139): two callbacks
\* that both read the state before either deletes it both go on.
StateSingleUse ==
    \A x, y \in Handlers : x # y /\ h[x].op = "OAuthCallback" /\ h[y].op = "OAuthCallback"
        /\ h[x].arg = h[y].arg => ~(h[x].pc = "exchange" /\ h[y].pc = "exchange")

\* Not kept.  "Unlinking the last provider on an account with no password would
\* leave it with no way to log in, so it is refused".
LoginMethodKept ==
    \A u \in Users : users[u].row => users[u].password \/ LinksOf(u) # {}
=============================================================================
