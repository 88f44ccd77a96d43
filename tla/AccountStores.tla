---------------------------- MODULE AccountStores ----------------------------
(***************************************************************************)
(* The stores of accounts and credentials, on SQLite and on PostgreSQL     *)
(* (internal/hades/storage/db/{user,session,emailverification,             *)
(* passwordreset,totpsecret,backupcode,oauthidentity,apitoken,             *)
(* devicegrant}).  One operator per store method and backend: Lite... is   *)
(* the method of the sqlite package, Pg... that of the postgres package.   *)
(*                                                                         *)
(* T is the table, i the id a new row draws or a parsed id parameter, u    *)
(* the text of a user id, now the time in whole seconds, the finest SQLite *)
(* compares.                                                               *)
(***************************************************************************)
EXTENDS Tables, Sequences

CONSTANTS Users,  \* the accounts the other tables may reference
          None    \* a NULL

LiteKnown(x) == x \in {UUID(u) : u \in Users}
PgKnown(i) == i \in Users

-----------------------------------------------------------------------------
(* users.  Organisations are rows of type "org" with an empty address. *)

UserRow(i, name, email, type, pw) ==
    [id |-> i, name |-> name, email |-> email, type |-> type, pw |-> pw, fails |-> 0,
     locked |-> FALSE, verified |-> FALSE, desc |-> ""]

\* The username is unique, and so is an address that is not empty.
UserDup(T, name, email) == \E r \in T : r.name = name \/ (email # "" /\ r.email = email)

LiteUserCreate(T, i, name, email, type, pw) ==
    LiteInsert(T, UserRow(UUID(i), name, email, type, pw), UserDup(T, name, email), TRUE, {})
PgUserCreate(T, i, name, email, type, pw) ==
    PgInsert(T, UserRow(i, name, email, type, pw), UserDup(T, name, email), TRUE, {})

\* scanSQLiteUser and its counterpart: a user never carries the password hash.
LiteUserView(r) == [id |-> Canonical(r.id), name |-> r.name, email |-> r.email,
                    type |-> r.type, desc |-> r.desc]
PgUserView(r) == [id |-> Text(r.id), name |-> r.name, email |-> r.email,
                  type |-> r.type, desc |-> r.desc]

LiteGetByUsername(T, name) == LiteQueryRow(T, LAMBDA r : r.name = name, LiteUserView)
PgGetByUsername(T, name) == PgQueryRow(T, LAMBDA r : r.name = name, PgUserView)

LiteUserGetByID(T, u) == LiteQueryRow(T, LAMBDA r : r.id = ID(u), LiteUserView)
PgUserGetByID(T, u) == Parsed(T, {u}, PgQueryRow(T, LAMBDA r : r.id = Uuid(u), PgUserView))

LiteGetByEmail(T, e) ==
    IF e = "" THEN Result(T, "sql.ErrNoRows", {})
    ELSE LiteQueryRow(T, LAMBDA r : r.email = e /\ r.email # "" /\ r.type = "user", LiteUserView)
PgGetByEmail(T, e) ==
    IF e = "" THEN Result(T, "pgx.ErrNoRows", {})
    ELSE PgQueryRow(T, LAMBDA r : r.email = e /\ r.email # "" /\ r.type = "user", PgUserView)

LiteAuthView(r) == [id |-> Canonical(r.id), name |-> r.name, email |-> r.email, pw |-> r.pw,
                    verified |-> r.verified, fails |-> r.fails, locked |-> r.locked]
PgAuthView(r) == [id |-> Text(r.id), name |-> r.name, email |-> r.email, pw |-> r.pw,
                  verified |-> r.verified, fails |-> r.fails, locked |-> r.locked]

LiteGetAuthFieldsByUsername(T, name) == LiteQueryRow(T, LAMBDA r : r.name = name, LiteAuthView)
PgGetAuthFieldsByUsername(T, name) == PgQueryRow(T, LAMBDA r : r.name = name, PgAuthView)

LiteGetAuthFieldsByID(T, u) == LiteQueryRow(T, LAMBDA r : r.id = ID(u), LiteAuthView)
PgGetAuthFieldsByID(T, u) == Parsed(T, {u}, PgQueryRow(T, LAMBDA r : r.id = Uuid(u), PgAuthView))

\* The listing shows people, not organisations; a query is a part of a name and
\* found holds the names that contain it.
LiteUserList(T, found) == Query(T, LAMBDA r : r.type = "user" /\ r.name \in found, LiteUserView)
PgUserList(T, found) == Query(T, LAMBDA r : r.type = "user" /\ r.name \in found, PgUserView)

\* SQLite updates and then reads the row back; PostgreSQL returns it.
LiteUserUpdate(T, u, desc) ==
    LET after == Exec(T, LAMBDA r : r.id = ID(u), LAMBDA r : [r EXCEPT !.desc = desc]).table
    IN  LiteUserGetByID(after, u)
PgUserUpdate(T, u, desc) ==
    Parsed(T, {u},
    LET after == Exec(T, LAMBDA r : r.id = Uuid(u), LAMBDA r : [r EXCEPT !.desc = desc]).table
    IN  PgQueryRow(after, LAMBDA r : r.id = Uuid(u), PgUserView))

LiteIncrementFailedLogins(T, u) ==
    Exec(T, LAMBDA r : r.id = ID(u), LAMBDA r : [r EXCEPT !.fails = @ + 1])
PgIncrementFailedLogins(T, u) ==
    Parsed(T, {u},
    Exec(T, LAMBDA r : r.id = Uuid(u), LAMBDA r : [r EXCEPT !.fails = @ + 1]))

LiteResetFailedLogins(T, u) ==
    Exec(T, LAMBDA r : r.id = ID(u), LAMBDA r : [r EXCEPT !.fails = 0, !.locked = FALSE])
PgResetFailedLogins(T, u) ==
    Parsed(T, {u},
    Exec(T, LAMBDA r : r.id = Uuid(u), LAMBDA r : [r EXCEPT !.fails = 0, !.locked = FALSE]))

LiteLockUntil(T, u) == Exec(T, LAMBDA r : r.id = ID(u), LAMBDA r : [r EXCEPT !.locked = TRUE])
PgLockUntil(T, u) ==
    Parsed(T, {u}, Exec(T, LAMBDA r : r.id = Uuid(u), LAMBDA r : [r EXCEPT !.locked = TRUE]))

LiteSetEmailVerified(T, u) ==
    Exec(T, LAMBDA r : r.id = ID(u), LAMBDA r : [r EXCEPT !.verified = TRUE])
PgSetEmailVerified(T, u) ==
    Parsed(T, {u},
    Exec(T, LAMBDA r : r.id = Uuid(u), LAMBDA r : [r EXCEPT !.verified = TRUE]))

LiteUpdatePassword(T, u, pw) == Exec(T, LAMBDA r : r.id = ID(u), LAMBDA r : [r EXCEPT !.pw = pw])
PgUpdatePassword(T, u, pw) ==
    Parsed(T, {u}, Exec(T, LAMBDA r : r.id = Uuid(u), LAMBDA r : [r EXCEPT !.pw = pw]))

-----------------------------------------------------------------------------
(* sessions *)

SessionRow(i, u, token, exp) ==
    [id |-> i, user |-> u, token |-> token, exp |-> exp, revoked |-> FALSE, totp |-> FALSE]

LiteSessionCreate(T, i, u, exp) ==
    LiteInsert(T, SessionRow(UUID(i), ID(u), None, exp), FALSE, LiteKnown(ID(u)), {[id |-> i]})
PgSessionCreate(T, i, u, exp) ==
    Parsed(T, {u},
    PgInsert(T, SessionRow(i, Uuid(u), None, exp), FALSE, PgKnown(Uuid(u)), {[id |-> i]}))

LiteCreateWithToken(T, i, u, token, exp) ==
    LiteInsert(T, SessionRow(UUID(i), ID(u), token, exp), FALSE, LiteKnown(ID(u)), {[id |-> i]})
PgCreateWithToken(T, i, u, token, exp) ==
    Parsed(T, {u},
    PgInsert(T, SessionRow(i, Uuid(u), token, exp), FALSE, PgKnown(Uuid(u)), {[id |-> i]}))

LiteSessionView(r) == [r EXCEPT !.id = @[1], !.user = Canonical(@)]
PgSessionView(r) == [r EXCEPT !.user = Text(@)]

LiteSessionGetByTokenHash(T, token) == LiteQueryRow(T, LAMBDA r : r.token = token, LiteSessionView)
PgSessionGetByTokenHash(T, token) == PgQueryRow(T, LAMBDA r : r.token = token, PgSessionView)

LiteSessionGetByID(T, i) == LiteQueryRow(T, LAMBDA r : r.id = UUID(i), LiteSessionView)
PgSessionGetByID(T, i) == PgQueryRow(T, LAMBDA r : r.id = i, PgSessionView)

\* Mutant: a revoked session is extended too.
LiteTouchAny(T, i, exp) == Exec(T, LAMBDA r : r.id = UUID(i), LAMBDA r : [r EXCEPT !.exp = exp])

LiteTouch(T, i, exp) ==
    Exec(T, LAMBDA r : r.id = UUID(i) /\ ~r.revoked, LAMBDA r : [r EXCEPT !.exp = exp])
PgTouch(T, i, exp) == Exec(T, LAMBDA r : r.id = i /\ ~r.revoked, LAMBDA r : [r EXCEPT !.exp = exp])

LiteSessionRevoke(T, i) == Exec(T, LAMBDA r : r.id = UUID(i), LAMBDA r : [r EXCEPT !.revoked = TRUE])
PgSessionRevoke(T, i) == Exec(T, LAMBDA r : r.id = i, LAMBDA r : [r EXCEPT !.revoked = TRUE])

LiteRevokeAllForUser(T, u, except) ==
    Exec(T, LAMBDA r : r.user = ID(u) /\ r.id # UUID(except) /\ ~r.revoked,
         LAMBDA r : [r EXCEPT !.revoked = TRUE])
PgRevokeAllForUser(T, u, except) ==
    Parsed(T, {u},
    Exec(T, LAMBDA r : r.user = Uuid(u) /\ r.id # except /\ ~r.revoked,
         LAMBDA r : [r EXCEPT !.revoked = TRUE]))

LiteSessionList(T, u, now) ==
    Query(T, LAMBDA r : r.user = ID(u) /\ ~r.revoked /\ r.exp > now, LiteSessionView)
PgSessionList(T, u, now) ==
    Parsed(T, {u},
    Query(T, LAMBDA r : r.user = Uuid(u) /\ ~r.revoked /\ r.exp > now, PgSessionView))

LiteMarkTOTPVerified(T, i) == Exec(T, LAMBDA r : r.id = UUID(i), LAMBDA r : [r EXCEPT !.totp = TRUE])
PgMarkTOTPVerified(T, i) == Exec(T, LAMBDA r : r.id = i, LAMBDA r : [r EXCEPT !.totp = TRUE])

-----------------------------------------------------------------------------
(* email_verifications and password_resets *)

TokenRow(i, u, token, exp) == [id |-> i, user |-> u, token |-> token, exp |-> exp, used |-> FALSE]
TokenDup(T, token) == \E r \in T : r.token = token

LiteTokenView(r) == [r EXCEPT !.id = @[1], !.user = Canonical(@)]
PgTokenView(r) == [r EXCEPT !.user = Text(@)]

LiteVerificationCreate(T, i, u, token, exp) ==
    LiteInsert(T, TokenRow(UUID(i), ID(u), token, exp), TokenDup(T, token), LiteKnown(ID(u)), {})
PgVerificationCreate(T, i, u, token, exp) ==
    Parsed(T, {u},
    PgInsert(T, TokenRow(i, Uuid(u), token, exp), TokenDup(T, token), PgKnown(Uuid(u)), {}))

LiteVerificationGet(T, token) == LiteQueryRow(T, LAMBDA r : r.token = token, LiteTokenView)
PgVerificationGet(T, token) == PgQueryRow(T, LAMBDA r : r.token = token, PgTokenView)

LiteVerificationMarkUsed(T, i) == Exec(T, LAMBDA r : r.id = UUID(i), LAMBDA r : [r EXCEPT !.used = TRUE])
PgVerificationMarkUsed(T, i) == Exec(T, LAMBDA r : r.id = i, LAMBDA r : [r EXCEPT !.used = TRUE])

LiteResetCreate(T, i, u, token, exp) ==
    LiteInsert(T, TokenRow(UUID(i), ID(u), token, exp), TokenDup(T, token), LiteKnown(ID(u)), {})
PgResetCreate(T, i, u, token, exp) ==
    Parsed(T, {u},
    PgInsert(T, TokenRow(i, Uuid(u), token, exp), TokenDup(T, token), PgKnown(Uuid(u)), {}))

LiteResetGet(T, token) == LiteQueryRow(T, LAMBDA r : r.token = token, LiteTokenView)
PgResetGet(T, token) == PgQueryRow(T, LAMBDA r : r.token = token, PgTokenView)

LiteInvalidateForUser(T, u) ==
    Exec(T, LAMBDA r : r.user = ID(u) /\ ~r.used, LAMBDA r : [r EXCEPT !.used = TRUE])
PgInvalidateForUser(T, u) ==
    Parsed(T, {u},
    Exec(T, LAMBDA r : r.user = Uuid(u) /\ ~r.used, LAMBDA r : [r EXCEPT !.used = TRUE]))

LiteResetMarkUsed(T, i) == Exec(T, LAMBDA r : r.id = UUID(i), LAMBDA r : [r EXCEPT !.used = TRUE])
PgResetMarkUsed(T, i) == Exec(T, LAMBDA r : r.id = i, LAMBDA r : [r EXCEPT !.used = TRUE])

-----------------------------------------------------------------------------
(* totp_secrets: one row per user.  last is the highest step accepted. *)

SecretRow(i, u, secret) == [id |-> i, user |-> u, secret |-> secret, enabled |-> FALSE, last |-> None]

\* A conflict on the user rewrites the row and keeps its id.
LiteUpsert(T, i, u, secret) ==
    IF \E r \in T : r.user = ID(u)
    THEN Exec(T, LAMBDA r : r.user = ID(u), LAMBDA r : SecretRow(r.id, r.user, secret))
    ELSE LiteInsert(T, SecretRow(UUID(i), ID(u), secret), FALSE, LiteKnown(ID(u)), {})
PgUpsert(T, i, u, secret) ==
    Parsed(T, {u},
    IF \E r \in T : r.user = Uuid(u)
    THEN Exec(T, LAMBDA r : r.user = Uuid(u), LAMBDA r : SecretRow(r.id, r.user, secret))
    ELSE PgInsert(T, SecretRow(i, Uuid(u), secret), FALSE, PgKnown(Uuid(u)), {}))

LiteSecretGetByUserID(T, u) ==
    LiteQueryRow(T, LAMBDA r : r.user = ID(u), LAMBDA r : [r EXCEPT !.id = @[1], !.user = Canonical(@)])
PgSecretGetByUserID(T, u) ==
    Parsed(T, {u},
    PgQueryRow(T, LAMBDA r : r.user = Uuid(u), LAMBDA r : [r EXCEPT !.user = Text(@)]))

LiteEnable(T, u) == Exec(T, LAMBDA r : r.user = ID(u), LAMBDA r : [r EXCEPT !.enabled = TRUE])
PgEnable(T, u) ==
    Parsed(T, {u}, Exec(T, LAMBDA r : r.user = Uuid(u), LAMBDA r : [r EXCEPT !.enabled = TRUE]))

LiteConsumeCounter(T, u, c) ==
    ExecOne(T, LAMBDA r : r.user = ID(u) /\ (r.last = None \/ r.last < c),
            LAMBDA r : [r EXCEPT !.last = c], "ErrCodeAlreadyUsed")
PgConsumeCounter(T, u, c) ==
    Parsed(T, {u},
    ExecOne(T, LAMBDA r : r.user = Uuid(u) /\ (r.last = None \/ r.last < c),
            LAMBDA r : [r EXCEPT !.last = c], "ErrCodeAlreadyUsed"))

LiteSecretDelete(T, u) == Delete(T, LAMBDA r : r.user = ID(u))
PgSecretDelete(T, u) == Parsed(T, {u}, Delete(T, LAMBDA r : r.user = Uuid(u)))

-----------------------------------------------------------------------------
(* totp_backup_codes.  A code in a batch takes one of the ids in ids. *)

CodeRows(ids, Col(_), u, codes) ==
    {[id |-> Col(ids[c]), user |-> u, code |-> c, used |-> FALSE] : c \in codes}

LiteCreateBatch(T, ids, u, codes) ==
    IF codes = {} \/ LiteKnown(ID(u)) THEN Result(T \cup CodeRows(ids, UUID, ID(u), codes), "none", {})
    ELSE Result(T, "787", {})
PgCreateBatch(T, ids, u, codes) ==
    Parsed(T, IF codes = {} THEN {} ELSE {u},
    IF codes = {} \/ PgKnown(Uuid(u))
    THEN Result(T \cup CodeRows(ids, LAMBDA i : i, Uuid(u), codes), "none", {})
    ELSE Result(T, "23503", {}))

LiteCodeView(r) == [r EXCEPT !.id = @[1], !.user = Canonical(@)]
PgCodeView(r) == [r EXCEPT !.user = Text(@)]

LiteGetUnused(T, u, c) ==
    LiteQueryRow(T, LAMBDA r : r.user = ID(u) /\ r.code = c /\ ~r.used, LiteCodeView)
PgGetUnused(T, u, c) ==
    Parsed(T, {u},
    PgQueryRow(T, LAMBDA r : r.user = Uuid(u) /\ r.code = c /\ ~r.used, PgCodeView))

LiteCodeList(T, u) == Query(T, LAMBDA r : r.user = ID(u), LiteCodeView)
PgCodeList(T, u) == Parsed(T, {u}, Query(T, LAMBDA r : r.user = Uuid(u), PgCodeView))

LiteCodeMarkUsed(T, i) == Exec(T, LAMBDA r : r.id = UUID(i), LAMBDA r : [r EXCEPT !.used = TRUE])
PgCodeMarkUsed(T, i) == Exec(T, LAMBDA r : r.id = i, LAMBDA r : [r EXCEPT !.used = TRUE])

LiteDeleteAllForUser(T, u) == Delete(T, LAMBDA r : r.user = ID(u))
PgDeleteAllForUser(T, u) == Parsed(T, {u}, Delete(T, LAMBDA r : r.user = Uuid(u)))

-----------------------------------------------------------------------------
(* oauth_identities, unique by provider and the provider's user *)

IdentityRow(i, u, p, uid) == [id |-> i, user |-> u, provider |-> p, uid |-> uid]
IdentityDup(T, p, uid) == \E r \in T : r.provider = p /\ r.uid = uid

LiteIdentityCreate(T, i, u, p, uid) ==
    LiteInsert(T, IdentityRow(UUID(i), ID(u), p, uid), IdentityDup(T, p, uid), LiteKnown(ID(u)), {})
PgIdentityCreate(T, i, u, p, uid) ==
    Parsed(T, {u},
    PgInsert(T, IdentityRow(i, Uuid(u), p, uid), IdentityDup(T, p, uid), PgKnown(Uuid(u)), {}))

LiteIdentityView(r) == [r EXCEPT !.id = @[1], !.user = Canonical(@)]
PgIdentityView(r) == [r EXCEPT !.user = Text(@)]

LiteGetByProviderUID(T, p, uid) ==
    LiteQueryRow(T, LAMBDA r : r.provider = p /\ r.uid = uid, LiteIdentityView)
PgGetByProviderUID(T, p, uid) ==
    PgQueryRow(T, LAMBDA r : r.provider = p /\ r.uid = uid, PgIdentityView)

LiteIdentityGetByUserID(T, u) == Query(T, LAMBDA r : r.user = ID(u), LiteIdentityView)
PgIdentityGetByUserID(T, u) == Parsed(T, {u}, Query(T, LAMBDA r : r.user = Uuid(u), PgIdentityView))

LiteIdentityDelete(T, i) == Delete(T, LAMBDA r : r.id = UUID(i))
PgIdentityDelete(T, i) == Delete(T, LAMBDA r : r.id = i)

LiteDeleteByUserAndProvider(T, u, p) == Delete(T, LAMBDA r : r.user = ID(u) /\ r.provider = p)
PgDeleteByUserAndProvider(T, u, p) ==
    Parsed(T, {u}, Delete(T, LAMBDA r : r.user = Uuid(u) /\ r.provider = p))

-----------------------------------------------------------------------------
(* api_tokens *)

\* A list of scopes is JSON text, or empty text; PostgreSQL keeps the array.
\* Rows written before JSON are comma-joined.
encodeScopes(s) == IF s = <<>> THEN <<"">> ELSE <<"json", s>>
decodeScopes(raw) == IF raw[1] = "" THEN <<>> ELSE raw[2]

APITokenRow(i, u, token, scopes) ==
    [id |-> i, user |-> u, token |-> token, scopes |-> scopes, revoked |-> FALSE, seen |-> FALSE]

LiteAPITokenView(r) == [r EXCEPT !.id = @[1], !.user = Canonical(@), !.scopes = decodeScopes(@)]
PgAPITokenView(r) == [r EXCEPT !.user = Text(@)]

LiteAPITokenCreate(T, i, u, token, scopes) ==
    LET r == APITokenRow(UUID(i), ID(u), token, encodeScopes(scopes))
    IN  LiteInsert(T, r, TokenDup(T, token), LiteKnown(ID(u)), {LiteAPITokenView(r)})
PgAPITokenCreate(T, i, u, token, scopes) ==
    Parsed(T, {u},
    LET r == APITokenRow(i, Uuid(u), token, scopes)
    IN  PgInsert(T, r, TokenDup(T, token), PgKnown(Uuid(u)), {PgAPITokenView(r)}))

LiteAPITokenGetByTokenHash(T, token) == LiteQueryRow(T, LAMBDA r : r.token = token, LiteAPITokenView)
PgAPITokenGetByTokenHash(T, token) == PgQueryRow(T, LAMBDA r : r.token = token, PgAPITokenView)

LiteAPITokenGetByID(T, i) == LiteQueryRow(T, LAMBDA r : r.id = UUID(i), LiteAPITokenView)
PgAPITokenGetByID(T, i) == PgQueryRow(T, LAMBDA r : r.id = i, PgAPITokenView)

\* Revoked tokens are listed too.
LiteAPITokenList(T, u) == Query(T, LAMBDA r : r.user = ID(u), LiteAPITokenView)
PgAPITokenList(T, u) == Parsed(T, {u}, Query(T, LAMBDA r : r.user = Uuid(u), PgAPITokenView))

LiteAPITokenRevoke(T, i) == Exec(T, LAMBDA r : r.id = UUID(i), LAMBDA r : [r EXCEPT !.revoked = TRUE])
PgAPITokenRevoke(T, i) == Exec(T, LAMBDA r : r.id = i, LAMBDA r : [r EXCEPT !.revoked = TRUE])

\* Mutant: revoking a revoked token succeeds.
LiteRevokeByOwnerAgain(T, i, u) ==
    ExecOne(T, LAMBDA r : r.id = UUID(i) /\ r.user = ID(u),
            LAMBDA r : [r EXCEPT !.revoked = TRUE], "ErrNotFound")

LiteRevokeByOwner(T, i, u) ==
    ExecOne(T, LAMBDA r : r.id = UUID(i) /\ r.user = ID(u) /\ ~r.revoked,
            LAMBDA r : [r EXCEPT !.revoked = TRUE], "ErrNotFound")
PgRevokeByOwner(T, i, u) ==
    Parsed(T, {u},
    ExecOne(T, LAMBDA r : r.id = i /\ r.user = Uuid(u) /\ ~r.revoked,
            LAMBDA r : [r EXCEPT !.revoked = TRUE], "ErrNotFound"))

LiteUpdateLastUsed(T, i) == Exec(T, LAMBDA r : r.id = UUID(i), LAMBDA r : [r EXCEPT !.seen = TRUE])
PgUpdateLastUsed(T, i) == Exec(T, LAMBDA r : r.id = i, LAMBDA r : [r EXCEPT !.seen = TRUE])

-----------------------------------------------------------------------------
(* device_grants.  The token a grant references is one of the known ids. *)

GrantRow(i, device, code) ==
    [id |-> i, device |-> device, code |-> code, user |-> None, token |-> None]
GrantDup(T, device, code) == \E r \in T : r.device = device \/ r.code = code

LiteGrantCreate(T, i, device, code) ==
    LiteInsert(T, GrantRow(UUID(i), device, code), GrantDup(T, device, code), TRUE, {[id |-> i]})
PgGrantCreate(T, i, device, code) ==
    PgInsert(T, GrantRow(i, device, code), GrantDup(T, device, code), TRUE, {[id |-> i]})

LiteGrantView(r) == [r EXCEPT !.id = @[1], !.user = IF @ = None THEN @ ELSE Canonical(@),
                              !.token = IF @ = None THEN @ ELSE @[1]]
PgGrantView(r) == [r EXCEPT !.user = IF @ = None THEN @ ELSE Text(@)]

LiteGetByDeviceCodeHash(T, device) == LiteQueryRow(T, LAMBDA r : r.device = device, LiteGrantView)
PgGetByDeviceCodeHash(T, device) == PgQueryRow(T, LAMBDA r : r.device = device, PgGrantView)

LiteGetByUserCode(T, code) == LiteQueryRow(T, LAMBDA r : r.code = code, LiteGrantView)
PgGetByUserCode(T, code) == PgQueryRow(T, LAMBDA r : r.code = code, PgGrantView)

LiteApprove(T, i, u) ==
    IF (\E r \in T : r.id = UUID(i) /\ r.user = None) /\ ~LiteKnown(ID(u)) THEN Result(T, "787", {})
    ELSE ExecOne(T, LAMBDA r : r.id = UUID(i) /\ r.user = None,
                 LAMBDA r : [r EXCEPT !.user = ID(u)], "ErrAlreadyApproved")
PgApprove(T, i, u) ==
    Parsed(T, {u},
    IF (\E r \in T : r.id = i /\ r.user = None) /\ ~PgKnown(Uuid(u)) THEN Result(T, "23503", {})
    ELSE ExecOne(T, LAMBDA r : r.id = i /\ r.user = None,
                 LAMBDA r : [r EXCEPT !.user = Uuid(u)], "ErrAlreadyApproved"))

LiteAttachToken(T, i, t) ==
    ExecOne(T, LAMBDA r : r.id = UUID(i) /\ r.token = None,
            LAMBDA r : [r EXCEPT !.token = UUID(t)], "ErrTokenAlreadyIssued")
PgAttachToken(T, i, t) ==
    ExecOne(T, LAMBDA r : r.id = i /\ r.token = None,
            LAMBDA r : [r EXCEPT !.token = t], "ErrTokenAlreadyIssued")
=============================================================================
