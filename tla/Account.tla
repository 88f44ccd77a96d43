------------------------------ MODULE Account ------------------------------
(***************************************************************************)
(* One password account: its row in users, its sessions, password_resets   *)
(* and email_verifications (internal/hades/server/auth/authn.go and        *)
(* session.go, with the session check of the interceptor in                *)
(* internal/hades/server/authorization/middleware.go).                     *)
(*                                                                         *)
(* Each member of Handlers serves one call after another; every store call *)
(* of a handler is a step of its own, and only what the code puts in a     *)
(* transaction is one step.  A call that is refused before it writes       *)
(* anything leaves no trace and is not a step.  Passwords are compared,    *)
(* not hashed, and time only shows as the expiry of a lock, a session or a *)
(* token.  The second factor and OAuth sign-in are not in this module; the *)
(* development setting that verifies addresses by itself is off.           *)
(***************************************************************************)
EXTENDS Naturals, FiniteSets

CONSTANTS
    Passwords,    \* what users choose and present as a password
    Sessions,     \* ids of rows of sessions
    Resets,       \* password reset tokens
    Links,        \* email verification tokens
    Handlers,     \* handlers of the calls
    MaxAttempts,  \* Lockout.MaxAttempts
    MaxFaults,    \* bound on the writes that fail and on crashes
    None          \* no password, no session, no token

ASSUME AccountAssumption ==
    /\ None \notin Passwords \cup Sessions \cup Resets \cup Links
    /\ MaxAttempts \in Nat \ {0} /\ MaxFaults \in Nat
    /\ IsFiniteSet(Handlers)

VARIABLES
    user,      \* the row of users
    sessions,  \* session id -> its row
    resets,    \* reset token -> its row
    links,     \* verification token -> its row
    call,      \* handler -> the call it serves
    guesses,   \* wrong passwords compared since the count or the lock was cleared
    faults     \* failed writes and crashes so far

vars == <<user, sessions, resets, links, call, guesses, faults>>

Steps == {"idle", "link", "count", "lock", "clear", "session", "logout", "revokeOne",
          "revokeOthers", "change", "update", "revoke", "invalidate", "issue", "reset",
          "verify", "resend"}

\* late: the login that locked the account read it before the count was cleared.
User == [registered: BOOLEAN, password: Passwords \cup {None}, verified: BOOLEAN,
         failed: 0..MaxAttempts, locked: BOOLEAN, late: BOOLEAN]

\* A row that is revoked or expired is never accepted again: it is not told
\* apart from one that does not exist, and its id is taken again.
\* old: the password was replaced while the row was there; missed: the
\* revocation that should have followed failed.
SessionRow == [live: BOOLEAN, old: BOOLEAN, missed: BOOLEAN]

NoSession == [live |-> FALSE, old |-> FALSE, missed |-> FALSE]

\* stale: the token's request did not retire all the tokens issued before it.
ResetRow == [state: {"none", "live", "used"}, stale: BOOLEAN]

NoReset == [state |-> "none", stale |-> FALSE]

\* stale: what the call has done or read is out of date: a login's count was
\* cleared since, a reset request's invalidation failed or was overtaken.
Call == [step: Steps, password: Passwords \cup {None}, seen: 0..MaxAttempts,
         session: Sessions \cup {None}, token: Resets \cup Links \cup {None},
         stale: BOOLEAN]

Idle == [step |-> "idle", password |-> None, seen |-> 0, session |-> None,
         token |-> None, stale |-> FALSE]

TypeOK ==
    /\ user \in User
    /\ sessions \in [Sessions -> SessionRow]
    /\ resets \in [Resets -> ResetRow]
    /\ links \in [Links -> {"none", "live", "spent"}]
    /\ call \in [Handlers -> Call]
    /\ guesses \in Nat
    /\ faults \in 0..MaxFaults

Init ==
    /\ user = [registered |-> FALSE, password |-> None, verified |-> FALSE,
               failed |-> 0, locked |-> FALSE, late |-> FALSE]
    /\ sessions = [s \in Sessions |-> NoSession]
    /\ resets = [r \in Resets |-> NoReset]
    /\ links = [l \in Links |-> "none"]
    /\ call = [h \in Handlers |-> Idle]
    /\ guesses = 0
    /\ faults = 0

Live(s) == sessions[s].live

\* An id that no row and no call is about.
Unused(s) == ~Live(s) /\ \A h \in Handlers : call[h].session # s

At(h, step) == call[h].step = step

Begin(h, c) == At(h, "idle") /\ call' = [call EXCEPT ![h] = c]

Goto(h, step) == call' = [call EXCEPT ![h].step = step]

End(h) == call' = [call EXCEPT ![h] = Idle]

\* A write of the handler fails.
Fault == faults < MaxFaults /\ faults' = faults + 1

-----------------------------------------------------------------------------
(* Registration and the confirmation of the address. *)

\* The unique constraint decides between concurrent registrations.
Register(h) ==
    /\ ~user.registered
    /\ \E p \in Passwords : user' = [user EXCEPT !.registered = TRUE, !.password = p]
    /\ Begin(h, [Idle EXCEPT !.step = "link"])
    /\ UNCHANGED <<sessions, resets, links, guesses, faults>>

\* The link is created and sent; a failure is not reported.  A spent id that no
\* call holds stands for a new one.
SendLink(h) ==
    /\ At(h, "link")
    /\ End(h)
    /\ \/ /\ \E l \in Links : /\ links[l] # "live" /\ \A g \in Handlers : call[g].token # l
                              /\ links' = [links EXCEPT ![l] = "live"]
          /\ UNCHANGED faults
       \/ Fault /\ UNCHANGED links
    /\ UNCHANGED <<user, sessions, resets, guesses>>

VerifyEmail(h) ==
    /\ \E l \in Links : /\ links[l] = "live"
                        /\ Begin(h, [Idle EXCEPT !.step = "verify", !.token = l])
    /\ UNCHANGED <<user, sessions, resets, links, guesses, faults>>

\* MarkUsed and SetEmailVerified in one transaction.
VerifyTx(h) ==
    /\ At(h, "verify")
    /\ End(h)
    /\ \/ /\ links' = [links EXCEPT ![call[h].token] = "spent"]
          /\ user' = [user EXCEPT !.verified = TRUE]
          /\ UNCHANGED faults
       \/ Fault /\ UNCHANGED <<links, user>>
    /\ UNCHANGED <<sessions, resets, guesses>>

-----------------------------------------------------------------------------
(* Login and lockout. *)

\* GetAuthFieldsByUsername and the comparison with what it returned.
Login(h) ==
    /\ user.registered /\ ~user.locked
    /\ \E p \in Passwords :
          \/ /\ p # user.password
             /\ Begin(h, [Idle EXCEPT !.step = "count", !.seen = user.failed])
             /\ guesses' = guesses + 1
          \/ /\ p = user.password /\ user.verified
             /\ Begin(h, [Idle EXCEPT !.step = "clear"])
             /\ UNCHANGED guesses
    /\ UNCHANGED <<user, sessions, resets, links, faults>>

\* Mutant: only a login that read a full count locks.
ReachesLimitLate(h) == call[h].seen >= MaxAttempts

\* Whether the number of failures the login read makes its own the last allowed.
ReachesLimit(h) == call[h].seen + 1 >= MaxAttempts

\* IncrementFailedLogins, whose failure is only logged.  Counts past the limit
\* are not told apart.
CountFailure(h) ==
    /\ At(h, "count")
    /\ IF ReachesLimit(h) THEN Goto(h, "lock") ELSE End(h)
    /\ \/ /\ user' = [user EXCEPT !.failed = IF @ < MaxAttempts THEN @ + 1 ELSE @]
          /\ UNCHANGED faults
       \/ Fault /\ UNCHANGED user
    /\ UNCHANGED <<sessions, resets, links, guesses>>

LockUntil(h) ==
    /\ At(h, "lock")
    /\ End(h)
    /\ \/ user' = [user EXCEPT !.locked = TRUE, !.late = call[h].stale] /\ UNCHANGED faults
       \/ Fault /\ UNCHANGED user
    /\ UNCHANGED <<sessions, resets, links, guesses>>

\* The calls once h has gone on to step and the count has been cleared.
Overtaken(h, step) ==
    [g \in Handlers |-> CASE g = h -> [call[g] EXCEPT !.step = step]
                         [] g # h /\ (At(g, "count") \/ At(g, "lock")) ->
                               [call[g] EXCEPT !.stale = TRUE]
                         [] OTHER -> call[g]]

\* ResetFailedLogins clears the count and the lock; its failure is only logged.
ClearFailures(h) ==
    /\ At(h, "clear")
    /\ \/ /\ user' = [user EXCEPT !.failed = 0, !.locked = FALSE, !.late = FALSE]
          /\ guesses' = 0
          /\ call' = Overtaken(h, "session")
          /\ UNCHANGED faults
       \/ Fault /\ Goto(h, "session") /\ UNCHANGED <<user, guesses>>
    /\ UNCHANGED <<sessions, resets, links>>

CreateWithToken(h) ==
    /\ At(h, "session")
    /\ End(h)
    /\ \/ /\ \E s \in Sessions :
                /\ Unused(s)
                /\ sessions' = [sessions EXCEPT ![s] = [NoSession EXCEPT !.live = TRUE]]
          /\ UNCHANGED faults
       \/ Fault /\ UNCHANGED sessions
    /\ UNCHANGED <<user, resets, links, guesses>>

-----------------------------------------------------------------------------
(* Calls under a session. *)

\* validateSessionChecks: the session is neither revoked nor expired, and the
\* address is verified unless the call is in emailUnverifiedAllowed.
Admit(h) ==
    /\ \E s \in Sessions, op \in {"logout", "revokeOne", "revokeOthers", "change", "resend"} :
          /\ Live(s) /\ (user.verified \/ op \in {"logout", "resend"})
          /\ Begin(h, [Idle EXCEPT !.step = op, !.session = s])
    /\ UNCHANGED <<user, sessions, resets, links, guesses, faults>>

\* The sessions after revoked_at is set for the rows of S.
Revoked(S) == [s \in Sessions |-> IF s \in S THEN NoSession ELSE sessions[s]]

\* A verified address is refused, and whoever has a session is verified (Login);
\* but a failed read of the row passes for an unverified one, and a link follows.
ResendVerificationEmail(h) ==
    /\ At(h, "resend")
    /\ \/ End(h) /\ UNCHANGED faults
       \/ Fault /\ Goto(h, "link")
    /\ UNCHANGED <<user, sessions, resets, links, guesses>>

\* Logout reports success whether or not the row could be updated.
Logout(h) ==
    /\ At(h, "logout")
    /\ End(h)
    /\ \/ sessions' = Revoked({call[h].session}) /\ UNCHANGED faults
       \/ Fault /\ UNCHANGED sessions
    /\ UNCHANGED <<user, resets, links, guesses>>

RevokeSession(h) ==
    /\ At(h, "revokeOne")
    /\ End(h)
    /\ \/ \E s \in Sessions : sessions' = Revoked({s}) /\ UNCHANGED faults
       \/ Fault /\ UNCHANGED sessions
    /\ UNCHANGED <<user, resets, links, guesses>>

RevokeAllOtherSessions(h) ==
    /\ At(h, "revokeOthers")
    /\ End(h)
    /\ \/ sessions' = Revoked({s \in Sessions : s # call[h].session}) /\ UNCHANGED faults
       \/ Fault /\ UNCHANGED sessions
    /\ UNCHANGED <<user, resets, links, guesses>>

\* ChangePassword reads the row; the caller presents the password it holds, or
\* is refused.
ChangePassword(h) ==
    /\ At(h, "change")
    /\ \/ \E p \in Passwords :
             call' = [call EXCEPT ![h] = [@ EXCEPT !.step = "update", !.password = p]]
       \/ End(h)
    /\ UNCHANGED <<user, sessions, resets, links, guesses, faults>>

\* The sessions that exist when the password is replaced are of the old one.
Outdated == [s \in Sessions |-> [sessions[s] EXCEPT !.old = Live(s), !.missed = FALSE]]

Missed == [s \in Sessions |-> [sessions[s] EXCEPT !.missed = sessions[s].old]]

UpdatePassword(h) ==
    /\ At(h, "update")
    /\ \/ /\ user' = [user EXCEPT !.password = call[h].password]
          /\ sessions' = Outdated
          /\ Goto(h, "revoke")
          /\ UNCHANGED faults
       \/ Fault /\ End(h) /\ UNCHANGED <<user, sessions>>
    /\ UNCHANGED <<resets, links, guesses>>

\* Mutant: the session that asked for the change is kept.
RevokeAllButCaller(h) ==
    /\ At(h, "revoke")
    /\ End(h)
    /\ \/ /\ sessions' = Revoked({s \in Sessions : s # call[h].session})
          /\ UNCHANGED faults
       \/ Fault /\ sessions' = Missed
    /\ UNCHANGED <<user, resets, links, guesses>>

\* RevokeAllForUser after the password was changed; a failure is reported.
RevokeAllForUser(h) ==
    /\ At(h, "revoke")
    /\ End(h)
    /\ \/ sessions' = Revoked(Sessions) /\ UNCHANGED faults
       \/ Fault /\ sessions' = Missed
    /\ UNCHANGED <<user, resets, links, guesses>>

-----------------------------------------------------------------------------
(* Password reset. *)

RequestPasswordReset(h) ==
    /\ user.registered
    /\ Begin(h, [Idle EXCEPT !.step = "invalidate"])
    /\ UNCHANGED <<user, sessions, resets, links, guesses, faults>>

\* A failure is only logged.
InvalidateForUser(h) ==
    /\ At(h, "invalidate")
    /\ \/ /\ resets' = [r \in Resets |-> IF resets[r].state = "live"
                                         THEN NoReset ELSE resets[r]]
          /\ call' = [call EXCEPT ![h].step = "issue"]
          /\ UNCHANGED faults
       \/ /\ Fault
          /\ call' = [call EXCEPT ![h] = [@ EXCEPT !.step = "issue", !.stale = TRUE]]
          /\ UNCHANGED resets
    /\ UNCHANGED <<user, sessions, links, guesses>>

\* The token is stored and sent.  A request that has invalidated already does
\* not see it.
IssueReset(h) ==
    /\ At(h, "issue")
    /\ \/ /\ \E r \in Resets :
                /\ resets[r].state # "live" /\ \A g \in Handlers : call[g].token # r
                /\ resets' = [resets EXCEPT ![r] = [state |-> "live", stale |-> call[h].stale]]
          /\ call' = [g \in Handlers |->
                        CASE g = h -> Idle
                          [] g # h /\ At(g, "issue") -> [call[g] EXCEPT !.stale = TRUE]
                          [] OTHER -> call[g]]
          /\ UNCHANGED faults
       \/ Fault /\ End(h) /\ UNCHANGED resets
    /\ UNCHANGED <<user, sessions, links, guesses>>

\* GetByTokenHash and the checks on the row it returned.
ResetPassword(h) ==
    /\ \E r \in Resets, p \in Passwords :
          /\ resets[r].state = "live"
          /\ Begin(h, [Idle EXCEPT !.step = "reset", !.token = r, !.password = p])
    /\ UNCHANGED <<user, sessions, resets, links, guesses, faults>>

\* MarkUsed, UpdatePassword and ResetFailedLogins in one transaction.
ResetTx(h) ==
    /\ At(h, "reset")
    /\ \/ /\ resets' = [resets EXCEPT ![call[h].token] = [NoReset EXCEPT !.state = "used"]]
          /\ user' = [user EXCEPT !.password = call[h].password, !.failed = 0,
                                  !.locked = FALSE, !.late = FALSE]
          /\ sessions' = Outdated
          /\ guesses' = 0
          /\ call' = Overtaken(h, "revoke")
          /\ UNCHANGED faults
       \/ Fault /\ End(h) /\ UNCHANGED <<resets, user, sessions, guesses>>
    /\ UNCHANGED links

-----------------------------------------------------------------------------
(* Time and crashes. *)

LockExpires ==
    /\ user.locked
    /\ user' = [user EXCEPT !.locked = FALSE, !.late = FALSE]
    /\ guesses' = 0
    /\ UNCHANGED <<sessions, resets, links, call, faults>>

TokenExpires ==
    /\ \/ \E r \in Resets : /\ resets[r].state = "live"
                            /\ resets' = [resets EXCEPT ![r] = NoReset]
                            /\ UNCHANGED <<sessions, links>>
       \/ \E l \in Links : /\ links[l] = "live"
                           /\ links' = [links EXCEPT ![l] = "spent"]
                           /\ UNCHANGED <<sessions, resets>>
       \/ \E s \in Sessions : /\ Live(s)
                              /\ sessions' = [sessions EXCEPT ![s] = NoSession]
                              /\ UNCHANGED <<links, resets>>
    /\ UNCHANGED <<user, call, guesses, faults>>

\* The process ends and starts again: the calls it served are gone.
Crash ==
    /\ Fault
    /\ call' = [h \in Handlers |-> Idle]
    /\ sessions' = IF \E h \in Handlers : At(h, "revoke") THEN Missed ELSE sessions
    /\ UNCHANGED <<user, resets, links, guesses>>

Step(h) ==
    \/ Register(h) \/ SendLink(h) \/ VerifyEmail(h) \/ VerifyTx(h)
    \/ Login(h) \/ CountFailure(h) \/ LockUntil(h) \/ ClearFailures(h) \/ CreateWithToken(h)
    \/ Admit(h) \/ ResendVerificationEmail(h) \/ Logout(h) \/ RevokeSession(h) \/ RevokeAllOtherSessions(h)
    \/ ChangePassword(h) \/ UpdatePassword(h) \/ RevokeAllForUser(h)
    \/ RequestPasswordReset(h) \/ InvalidateForUser(h) \/ IssueReset(h)
    \/ ResetPassword(h) \/ ResetTx(h)

Next == (\E h \in Handlers : Step(h)) \/ LockExpires \/ TokenExpires \/ Crash

Spec == Init /\ [][Next]_vars

-----------------------------------------------------------------------------
(* Properties. *)

\* No session outlives a password change or a reset: a session whose row was
\* there when the password was replaced is no longer usable, unless the handler
\* that replaced it still has to call RevokeAllForUser, or that call failed or
\* was cut off by a crash (authn.go:491-497, 539-547).
OldSessionsEnd ==
    \A s \in Sessions :
        Live(s) /\ sessions[s].old =>
            sessions[s].missed \/ \E h \in Handlers : At(h, "revoke")

\* The lockout bounds guessing even when logins overlap: a login compares its
\* own stale count (authn.go:226-227), so the account is not locked at the
\* configured number of failures, but each handler gets at most two guesses
\* past it, and at most one more for every failed write or crash.
GuessesBounded ==
    guesses + 2 <= MaxAttempts + (2 + faults) * Cardinality(Handlers)

\* A lock has a cause: the account is locked only while its count is at the
\* limit, so whoever logs in or resets the password is let in again
\* (authn.go:470-472), unless a login locked it that had read the count before
\* it was cleared, or a write of the count failed.
LockHasCause ==
    user.locked /\ ~user.late /\ faults = 0 => user.failed = MaxAttempts

\* Requesting a reset retires the tokens issued before (authn.go:408-412): of
\* two usable tokens one comes from a request that overlapped another or whose
\* invalidation failed.
OneLiveReset ==
    \A r, q \in Resets :
        r # q /\ resets[r].state = "live" /\ resets[q].state = "live" =>
            resets[r].stale \/ resets[q].stale

\* Not kept.  authn.go:491: "Every existing session must die with the old
\* password".  The revocation is a write of its own, outside the transaction: it
\* may fail or be cut off, and no retry follows.
SessionsDieWithPassword ==
    \A s \in Sessions :
        Live(s) /\ sessions[s].old => \E h \in Handlers : At(h, "revoke")

\* "Package passwordreset stores single-use password reset tokens"
\* (passwordreset.go:1): no token changes the password a second time.
ResetTokenOnce ==
    [][\A h \in Handlers : At(h, "reset") /\ call'[h].step = "revoke" =>
           resets[call[h].token].state # "used"]_vars
=============================================================================
