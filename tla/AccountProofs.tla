---------------------------- MODULE AccountProofs ----------------------------
(***************************************************************************)
(* Theorems about Account, for any number of handlers, sessions, tokens    *)
(* and passwords, any attempt limit and any number of faults.              *)
(*                                                                         *)
(* The invariants are not inductive as they stand: what a reset request    *)
(* will issue and what a failed login will lock is decided by what they    *)
(* did before.  IssuesFirst and CountsCurrent say that it still holds when *)
(* the call is not stale.                                                  *)
(***************************************************************************)
EXTENDS Account, TLAPS

USE Zenon

\* A reset request that was not overtaken issues when no token is usable.
IssuesFirst ==
    \A h \in Handlers : At(h, "issue") /\ ~call[h].stale =>
        \A r \in Resets : resets[r].state # "live"

\* A failed login that was not overtaken read no more failures than there are,
\* and locks when the count is at the limit.
CountsCurrent ==
    faults = 0 => \A h \in Handlers : ~call[h].stale =>
        /\ At(h, "count") => call[h].seen <= user.failed
        /\ At(h, "lock") => user.failed = MaxAttempts

Safe == OldSessionsEnd /\ OneLiveReset /\ LockHasCause /\ IssuesFirst /\ CountsCurrent

Inv == TypeOK /\ Safe

LEMMA InitInv == Init => Inv
  <1> SUFFICES ASSUME Init PROVE Inv
    OBVIOUS
  <1>1. TypeOK
    BY AccountAssumption, SMT
    DEF Init, TypeOK, User, SessionRow, NoSession, ResetRow, NoReset, Call, Idle, Steps
  <1>2. \A h \in Handlers : call[h].step = "idle"
    BY SMT DEF Init, Idle
  <1>3. \A s \in Sessions : sessions[s].live = FALSE
    BY SMT DEF Init, NoSession
  <1>4. \A r \in Resets : resets[r].state = "none"
    BY SMT DEF Init, NoReset
  <1>5. user.locked = FALSE
    BY SMT DEF Init
  <1>6. OldSessionsEnd /\ LockHasCause
    BY <1>3, <1>5 DEF OldSessionsEnd, LockHasCause, Live
  <1>7. OneLiveReset
    BY <1>4, SMT DEF OneLiveReset
  <1>8. IssuesFirst /\ CountsCurrent
    BY <1>2, SMT DEF IssuesFirst, CountsCurrent, At
  <1> QED
    BY <1>1, <1>6, <1>7, <1>8 DEF Inv, Safe

-----------------------------------------------------------------------------
(* Types. *)

LEMMA IdleType == Idle \in Call
  BY AccountAssumption, SMT DEF Idle, Call, Steps

LEMMA BeginType ==
    ASSUME TypeOK, NEW h \in Handlers, NEW c \in Call, Begin(h, c)
    PROVE  call' \in [Handlers -> Call]
  BY DEF Begin, TypeOK

LEMMA EndType ==
    ASSUME TypeOK, NEW h \in Handlers, End(h)
    PROVE  call' \in [Handlers -> Call]
  BY IdleType DEF End, TypeOK

LEMMA GotoType ==
    ASSUME TypeOK, NEW h \in Handlers, NEW step \in Steps, Goto(h, step)
    PROVE  call' \in [Handlers -> Call]
  BY SMT DEF Goto, TypeOK, Call

LEMMA FaultType == TypeOK /\ Fault => faults' \in 0..MaxFaults
  BY AccountAssumption, SMT DEF Fault, TypeOK

\* The calls that handlers begin with.
LEMMA NewCallType ==
    ASSUME NEW op \in Steps
    PROVE  /\ [Idle EXCEPT !.step = op] \in Call
           /\ \A s \in Sessions : [Idle EXCEPT !.step = op, !.session = s] \in Call
           /\ \A t \in Resets \cup Links : [Idle EXCEPT !.step = op, !.token = t] \in Call
           /\ \A t \in Resets, p \in Passwords :
                 [Idle EXCEPT !.step = op, !.token = t, !.password = p] \in Call
           /\ \A n \in 0..MaxAttempts : [Idle EXCEPT !.step = op, !.seen = n] \in Call
  <1>1. 0 \in 0..MaxAttempts
    BY AccountAssumption, SMT
  <1> QED
    BY <1>1 DEF Idle, Call

LEMMA OvertakenType ==
    ASSUME TypeOK, NEW h \in Handlers, NEW step \in Steps
    PROVE  Overtaken(h, step) \in [Handlers -> Call]
  <1> SUFFICES ASSUME NEW g \in Handlers PROVE Overtaken(h, step)[g] \in Call
    BY DEF Overtaken
  <1>1. call[g] \in Call
    BY DEF TypeOK
  <1>2. \A c \in Call : [c EXCEPT !.step = step] \in Call
    BY DEF Call
  <1>3. \A c \in Call : [c EXCEPT !.stale = TRUE] \in Call
    BY DEF Call
  <1> QED
    BY <1>1, <1>2, <1>3 DEF Overtaken

LEMMA RevokedType ==
    ASSUME TypeOK, NEW S PROVE Revoked(S) \in [Sessions -> SessionRow]
  <1>1. NoSession \in SessionRow
    BY SMT DEF NoSession, SessionRow
  <1> QED
    BY <1>1 DEF TypeOK, Revoked

LEMMA MarkedType ==
    ASSUME TypeOK
    PROVE  Outdated \in [Sessions -> SessionRow] /\ Missed \in [Sessions -> SessionRow]
  <1> SUFFICES ASSUME NEW s \in Sessions
               PROVE  /\ [sessions[s] EXCEPT !.old = Live(s), !.missed = FALSE] \in SessionRow
                      /\ [sessions[s] EXCEPT !.missed = sessions[s].old] \in SessionRow
    BY DEF Outdated, Missed
  <1>1. PICK row \in SessionRow : row = sessions[s]
    BY DEF TypeOK
  <1>2. row.live \in BOOLEAN /\ row.old \in BOOLEAN
    BY DEF SessionRow
  <1>3. \A b \in BOOLEAN : [row EXCEPT !.old = b, !.missed = FALSE] \in SessionRow
    BY DEF SessionRow
  <1>4. \A b \in BOOLEAN : [row EXCEPT !.missed = b] \in SessionRow
    BY DEF SessionRow
  <1> QED
    BY <1>1, <1>2, <1>3, <1>4 DEF Live
\* The rows of users that the store's updates write.
LEMMA UserType ==
    ASSUME NEW u \in User
    PROVE  /\ \A p \in Passwords : [u EXCEPT !.registered = TRUE, !.password = p] \in User
           /\ [u EXCEPT !.verified = TRUE] \in User
           /\ [u EXCEPT !.failed = IF @ < MaxAttempts THEN @ + 1 ELSE @] \in User
           /\ \A b \in BOOLEAN : [u EXCEPT !.locked = TRUE, !.late = b] \in User
           /\ [u EXCEPT !.locked = FALSE, !.late = FALSE] \in User
           /\ [u EXCEPT !.failed = 0, !.locked = FALSE, !.late = FALSE] \in User
           /\ \A p \in Passwords \cup {None} : [u EXCEPT !.password = p] \in User
           /\ \A p \in Passwords \cup {None} :
                 [u EXCEPT !.password = p, !.failed = 0, !.locked = FALSE, !.late = FALSE] \in User
  <1>1. 0 \in 0..MaxAttempts
    BY AccountAssumption, SMT
  <1>2. u.failed \in 0..MaxAttempts
    BY DEF User
  <1>3. (IF u.failed < MaxAttempts THEN u.failed + 1 ELSE u.failed) \in 0..MaxAttempts
    BY <1>2, AccountAssumption, SMT
  <1>4. [u EXCEPT !.failed = IF @ < MaxAttempts THEN @ + 1 ELSE @] \in User
    BY <1>3 DEF User
  <1> QED
    BY <1>1, <1>4 DEF User

LEMMA CallFields ==
    ASSUME TypeOK, NEW h \in Handlers
    PROVE  /\ call[h].password \in Passwords \cup {None}
           /\ call[h].stale \in BOOLEAN
           /\ call[h].seen \in 0..MaxAttempts
  BY DEF TypeOK, Call

LEMMA UserFields == TypeOK => user.failed \in 0..MaxAttempts
  BY DEF TypeOK, User

LEMMA NewRowType ==
    /\ NoSession \in SessionRow /\ [NoSession EXCEPT !.live = TRUE] \in SessionRow
    /\ NoReset \in ResetRow /\ [NoReset EXCEPT !.state = "used"] \in ResetRow
  BY DEF NoSession, SessionRow, NoReset, ResetRow

LEMMA ChosenType ==
    ASSUME TypeOK, NEW h \in Handlers, NEW p \in Passwords,
           call' = [call EXCEPT ![h] = [@ EXCEPT !.step = "update", !.password = p]]
    PROVE  call' \in [Handlers -> Call]
  <1>1. \A c \in Call : [c EXCEPT !.step = "update", !.password = p] \in Call
    BY DEF Call, Steps
  <1> QED
    BY <1>1 DEF TypeOK

LEMMA OvertakenReset ==
    ASSUME TypeOK, NEW h \in Handlers,
           call' = [call EXCEPT ![h] = [@ EXCEPT !.step = "issue", !.stale = TRUE]]
    PROVE  call' \in [Handlers -> Call]
  <1>1. \A c \in Call : [c EXCEPT !.step = "issue", !.stale = TRUE] \in Call
    BY DEF Call, Steps
  <1> QED
    BY <1>1 DEF TypeOK

LEMMA IssuedType ==
    ASSUME TypeOK, NEW h \in Handlers
    PROVE  [g \in Handlers |->
              CASE g = h -> Idle
                [] g # h /\ At(g, "issue") -> [call[g] EXCEPT !.stale = TRUE]
                [] OTHER -> call[g]] \in [Handlers -> Call]
  <1> SUFFICES ASSUME NEW g \in Handlers
               PROVE  (CASE g = h -> Idle
                         [] g # h /\ At(g, "issue") -> [call[g] EXCEPT !.stale = TRUE]
                         [] OTHER -> call[g]) \in Call
    OBVIOUS
  <1>1. call[g] \in Call
    BY DEF TypeOK
  <1>2. \A c \in Call : [c EXCEPT !.stale = TRUE] \in Call
    BY DEF Call
  <1> QED
    BY <1>1, <1>2, IdleType

LEMMA TypeStep ==
    ASSUME TypeOK, Next PROVE TypeOK'
  <1>1. ASSUME NEW h \in Handlers, Register(h) PROVE TypeOK'
    <2>1. call' \in [Handlers -> Call]
      BY <1>1, NewCallType, BeginType DEF Register, Steps
    <2>2. user \in User
      BY DEF TypeOK
    <2>3. user' \in User
      BY <1>1, <2>2, UserType DEF Register
    <2> QED
      BY <1>1, <2>1, <2>3 DEF Register, TypeOK
  <1>2. ASSUME NEW h \in Handlers, SendLink(h) PROVE TypeOK'
    <2>1. call' \in [Handlers -> Call]
      BY <1>2, EndType DEF SendLink
    <2>2. links' \in [Links -> {"none", "live", "spent"}]
      BY <1>2, SMT DEF SendLink, TypeOK
    <2>3. faults' \in 0..MaxFaults
      BY <1>2, FaultType DEF SendLink, TypeOK
    <2> QED
      BY <1>2, <2>1, <2>2, <2>3 DEF SendLink, TypeOK
  <1>3. ASSUME NEW h \in Handlers, VerifyEmail(h) PROVE TypeOK'
    <2>1. call' \in [Handlers -> Call]
      BY <1>3, NewCallType, BeginType DEF VerifyEmail, Steps
    <2> QED
      BY <1>3, <2>1 DEF VerifyEmail, TypeOK
  <1>4. ASSUME NEW h \in Handlers, VerifyTx(h) PROVE TypeOK'
    <2>1. call' \in [Handlers -> Call]
      BY <1>4, EndType DEF VerifyTx
    <2>2. links' \in [Links -> {"none", "live", "spent"}]
      BY <1>4 DEF VerifyTx, TypeOK
    <2>3. user' \in User
      BY <1>4, UserType DEF VerifyTx, TypeOK
    <2>4. faults' \in 0..MaxFaults
      BY <1>4, FaultType DEF VerifyTx, TypeOK
    <2> QED
      BY <1>4, <2>1, <2>2, <2>3, <2>4 DEF VerifyTx, TypeOK
  <1>5. ASSUME NEW h \in Handlers, Login(h) PROVE TypeOK'
    <2>1. call' \in [Handlers -> Call]
      BY <1>5, NewCallType, BeginType, UserFields DEF Login, Steps
    <2>2. guesses' \in Nat
      BY <1>5, SMT DEF Login, TypeOK
    <2> QED
      BY <1>5, <2>1, <2>2 DEF Login, TypeOK
  <1>6. ASSUME NEW h \in Handlers, CountFailure(h) PROVE TypeOK'
    <2>1. call' \in [Handlers -> Call]
      BY <1>6, GotoType, EndType DEF CountFailure, Steps
    <2>2. user' \in User
      BY <1>6, UserType DEF CountFailure, TypeOK
    <2>3. faults' \in 0..MaxFaults
      BY <1>6, FaultType DEF CountFailure, TypeOK
    <2> QED
      BY <1>6, <2>1, <2>2, <2>3 DEF CountFailure, TypeOK
  <1>7. ASSUME NEW h \in Handlers, LockUntil(h) PROVE TypeOK'
    <2>1. call' \in [Handlers -> Call]
      BY <1>7, EndType DEF LockUntil
    <2>2. user' \in User
      <3>1. user \in User /\ call[h].stale \in BOOLEAN
        BY CallFields DEF TypeOK
      <3> QED
        BY <1>7, <3>1, UserType DEF LockUntil
    <2>3. faults' \in 0..MaxFaults
      BY <1>7, FaultType DEF LockUntil, TypeOK
    <2> QED
      BY <1>7, <2>1, <2>2, <2>3 DEF LockUntil, TypeOK
  <1>8. ASSUME NEW h \in Handlers, ClearFailures(h) PROVE TypeOK'
    <2>1. call' \in [Handlers -> Call]
      BY <1>8, GotoType, OvertakenType DEF ClearFailures, Steps
    <2>2. user' \in User
      BY <1>8, UserType DEF ClearFailures, TypeOK
    <2>3. guesses' \in Nat
      BY <1>8, SMT DEF ClearFailures, TypeOK
    <2>4. faults' \in 0..MaxFaults
      BY <1>8, FaultType DEF ClearFailures, TypeOK
    <2> QED
      BY <1>8, <2>1, <2>2, <2>3, <2>4 DEF ClearFailures, TypeOK
  <1>9. ASSUME NEW h \in Handlers, CreateWithToken(h) PROVE TypeOK'
    <2>1. call' \in [Handlers -> Call]
      BY <1>9, EndType DEF CreateWithToken
    <2>2. sessions' \in [Sessions -> SessionRow]
      BY <1>9, NewRowType DEF CreateWithToken, TypeOK
    <2>3. faults' \in 0..MaxFaults
      BY <1>9, FaultType DEF CreateWithToken, TypeOK
    <2> QED
      BY <1>9, <2>1, <2>2, <2>3 DEF CreateWithToken, TypeOK
  <1>10. ASSUME NEW h \in Handlers, Admit(h) PROVE TypeOK'
    <2>1. call' \in [Handlers -> Call]
      BY <1>10, NewCallType, BeginType DEF Admit, Steps
    <2> QED
      BY <1>10, <2>1 DEF Admit, TypeOK
  <1>11. ASSUME NEW h \in Handlers, Logout(h) PROVE TypeOK'
    <2>1. call' \in [Handlers -> Call]
      BY <1>11, EndType DEF Logout
    <2>2. sessions' \in [Sessions -> SessionRow]
      BY <1>11, RevokedType DEF Logout, TypeOK
    <2>3. faults' \in 0..MaxFaults
      BY <1>11, FaultType DEF Logout, TypeOK
    <2> QED
      BY <1>11, <2>1, <2>2, <2>3 DEF Logout, TypeOK
  <1>12. ASSUME NEW h \in Handlers, RevokeSession(h) PROVE TypeOK'
    <2>1. call' \in [Handlers -> Call]
      BY <1>12, EndType DEF RevokeSession
    <2>2. sessions' \in [Sessions -> SessionRow]
      BY <1>12, RevokedType DEF RevokeSession, TypeOK
    <2>3. faults' \in 0..MaxFaults
      BY <1>12, FaultType DEF RevokeSession, TypeOK
    <2> QED
      BY <1>12, <2>1, <2>2, <2>3 DEF RevokeSession, TypeOK
  <1>13. ASSUME NEW h \in Handlers, RevokeAllOtherSessions(h) PROVE TypeOK'
    <2>1. call' \in [Handlers -> Call]
      BY <1>13, EndType DEF RevokeAllOtherSessions
    <2>2. sessions' \in [Sessions -> SessionRow]
      BY <1>13, RevokedType DEF RevokeAllOtherSessions, TypeOK
    <2>3. faults' \in 0..MaxFaults
      BY <1>13, FaultType DEF RevokeAllOtherSessions, TypeOK
    <2> QED
      BY <1>13, <2>1, <2>2, <2>3 DEF RevokeAllOtherSessions, TypeOK
  <1>14. ASSUME NEW h \in Handlers, ChangePassword(h) PROVE TypeOK'
    <2>1. call' \in [Handlers -> Call]
      BY <1>14, EndType, ChosenType DEF ChangePassword, Steps
    <2> QED
      BY <1>14, <2>1 DEF ChangePassword, TypeOK
  <1>15. ASSUME NEW h \in Handlers, UpdatePassword(h) PROVE TypeOK'
    <2>1. call' \in [Handlers -> Call]
      BY <1>15, EndType, GotoType DEF UpdatePassword, Steps
    <2>2. user' \in User
      <3>1. user \in User /\ call[h].password \in Passwords \cup {None}
        BY CallFields DEF TypeOK
      <3> QED
        BY <1>15, <3>1, UserType DEF UpdatePassword
    <2>3. sessions' \in [Sessions -> SessionRow]
      BY <1>15, MarkedType DEF UpdatePassword, TypeOK
    <2>4. faults' \in 0..MaxFaults
      BY <1>15, FaultType DEF UpdatePassword, TypeOK
    <2> QED
      BY <1>15, <2>1, <2>2, <2>3, <2>4 DEF UpdatePassword, TypeOK
  <1>16. ASSUME NEW h \in Handlers, RevokeAllForUser(h) PROVE TypeOK'
    <2>1. call' \in [Handlers -> Call]
      BY <1>16, EndType DEF RevokeAllForUser
    <2>2. sessions' \in [Sessions -> SessionRow]
      BY <1>16, RevokedType, MarkedType DEF RevokeAllForUser, TypeOK
    <2>3. faults' \in 0..MaxFaults
      BY <1>16, FaultType DEF RevokeAllForUser, TypeOK
    <2> QED
      BY <1>16, <2>1, <2>2, <2>3 DEF RevokeAllForUser, TypeOK
  <1>17. ASSUME NEW h \in Handlers, RequestPasswordReset(h) PROVE TypeOK'
    <2>1. call' \in [Handlers -> Call]
      BY <1>17, NewCallType, BeginType DEF RequestPasswordReset, Steps
    <2> QED
      BY <1>17, <2>1 DEF RequestPasswordReset, TypeOK
  <1>18. ASSUME NEW h \in Handlers, InvalidateForUser(h) PROVE TypeOK'
    <2>1. call' \in [Handlers -> Call]
      BY <1>18, GotoType, OvertakenReset DEF InvalidateForUser, Goto, Steps
    <2>2. resets' \in [Resets -> ResetRow]
      BY <1>18, NewRowType DEF InvalidateForUser, TypeOK
    <2>3. faults' \in 0..MaxFaults
      BY <1>18, FaultType DEF InvalidateForUser, TypeOK
    <2> QED
      BY <1>18, <2>1, <2>2, <2>3 DEF InvalidateForUser, TypeOK
  <1>19. ASSUME NEW h \in Handlers, IssueReset(h) PROVE TypeOK'
    <2>1. call' \in [Handlers -> Call]
      BY <1>19, EndType, IssuedType DEF IssueReset
    <2>2. [state |-> "live", stale |-> call[h].stale] \in ResetRow
      BY CallFields DEF ResetRow
    <2>3. resets' \in [Resets -> ResetRow]
      BY <1>19, <2>2 DEF IssueReset, TypeOK
    <2>4. faults' \in 0..MaxFaults
      BY <1>19, FaultType DEF IssueReset, TypeOK
    <2> QED
      BY <1>19, <2>1, <2>3, <2>4 DEF IssueReset, TypeOK
  <1>20. ASSUME NEW h \in Handlers, ResetPassword(h) PROVE TypeOK'
    <2>1. call' \in [Handlers -> Call]
      BY <1>20, NewCallType, BeginType DEF ResetPassword, Steps
    <2> QED
      BY <1>20, <2>1 DEF ResetPassword, TypeOK
  <1>21. ASSUME NEW h \in Handlers, ResetTx(h) PROVE TypeOK'
    <2>1. call' \in [Handlers -> Call]
      BY <1>21, EndType, OvertakenType DEF ResetTx, Steps
    <2>2. resets' \in [Resets -> ResetRow]
      BY <1>21, NewRowType DEF ResetTx, TypeOK
    <2>3. user' \in User
      <3>1. user \in User /\ call[h].password \in Passwords \cup {None}
        BY CallFields DEF TypeOK
      <3> QED
        BY <1>21, <3>1, UserType DEF ResetTx
    <2>4. sessions' \in [Sessions -> SessionRow]
      BY <1>21, MarkedType DEF ResetTx, TypeOK
    <2>5. guesses' \in Nat
      BY <1>21, SMT DEF ResetTx, TypeOK
    <2>6. faults' \in 0..MaxFaults
      BY <1>21, FaultType DEF ResetTx, TypeOK
    <2> QED
      BY <1>21, <2>1, <2>2, <2>3, <2>4, <2>5, <2>6 DEF ResetTx, TypeOK
  <1>22. ASSUME LockExpires PROVE TypeOK'
    <2>1. user' \in User
      BY <1>22, UserType DEF LockExpires, TypeOK
    <2>2. guesses' \in Nat
      BY <1>22, SMT DEF LockExpires
    <2> QED
      BY <1>22, <2>1, <2>2 DEF LockExpires, TypeOK
  <1>23. ASSUME TokenExpires PROVE TypeOK'
    <2>1. resets' \in [Resets -> ResetRow] /\ sessions' \in [Sessions -> SessionRow]
      BY <1>23, NewRowType DEF TokenExpires, TypeOK
    <2>2. links' \in [Links -> {"none", "live", "spent"}]
      BY <1>23 DEF TokenExpires, TypeOK
    <2> QED
      BY <1>23, <2>1, <2>2 DEF TokenExpires, TypeOK
  <1>24. ASSUME Crash PROVE TypeOK'
    <2>1. faults' \in 0..MaxFaults
      BY <1>24, FaultType DEF Crash
    <2>2. call' \in [Handlers -> Call] /\ sessions' \in [Sessions -> SessionRow]
      BY <1>24, IdleType, MarkedType DEF Crash, TypeOK
    <2> QED
      BY <1>24, <2>1, <2>2 DEF Crash, TypeOK
  <1>25. ASSUME NEW h \in Handlers, ResendVerificationEmail(h) PROVE TypeOK'
    <2>1. call' \in [Handlers -> Call]
      BY <1>25, GotoType, EndType DEF ResendVerificationEmail, Steps
    <2>2. faults' \in 0..MaxFaults
      BY <1>25, FaultType DEF ResendVerificationEmail, TypeOK
    <2> QED
      BY <1>25, <2>1, <2>2 DEF ResendVerificationEmail, TypeOK
  <1> QED
    BY <1>1, <1>2, <1>3, <1>4, <1>5, <1>6, <1>7, <1>8, <1>9, <1>10, <1>11,
       <1>12, <1>13, <1>14, <1>15, <1>16, <1>17, <1>18, <1>19, <1>20, <1>21, <1>22,
       <1>23, <1>24, <1>25 DEF Next, Step
-----------------------------------------------------------------------------
(* What a step may do without disturbing a conjunct of Safe. *)

Others(h) == \A g \in Handlers : g # h => call'[g] = call[g]

NoNewOld == \A s \in Sessions : sessions'[s].live /\ sessions'[s].old =>
    sessions[s].live /\ sessions[s].old /\ sessions'[s].missed = sessions[s].missed

NoNewLive == \A r \in Resets : resets'[r].state = "live" =>
    resets[r].state = "live" /\ resets'[r].stale = resets[r].stale

SameCount ==
    user'.failed = user.failed /\ user'.locked = user.locked /\ user'.late = user.late

\* Only a step of the handler that revokes can end its duty to revoke.
LEMMA OldKept ==
    ASSUME OldSessionsEnd, NoNewOld, NEW h \in Handlers, Others(h),
           At(h, "revoke") => call'[h].step = "revoke"
    PROVE  OldSessionsEnd'
  <1> SUFFICES ASSUME NEW s \in Sessions, sessions'[s].live, sessions'[s].old,
                      ~sessions'[s].missed
               PROVE  \E g \in Handlers : call'[g].step = "revoke"
    BY DEF OldSessionsEnd, Live, At
  <1>1. PICK g \in Handlers : call[g].step = "revoke"
    BY DEF OldSessionsEnd, NoNewOld, Live, At
  <1> QED
    BY <1>1 DEF Others, At

LEMMA OneKept == OneLiveReset /\ NoNewLive => OneLiveReset'
  BY DEF OneLiveReset, NoNewLive

LEMMA LockKept == LockHasCause /\ SameCount /\ (faults' = 0 => faults = 0) => LockHasCause'
  BY DEF LockHasCause, SameCount

LEMMA IssuesKept ==
    ASSUME IssuesFirst, NoNewLive, NEW h \in Handlers, Others(h),
           call'[h].step # "issue"
    PROVE  IssuesFirst'
  <1> SUFFICES ASSUME NEW g \in Handlers, call'[g].step = "issue", ~call'[g].stale,
                      NEW r \in Resets, resets'[r].state = "live"
               PROVE  FALSE
    BY DEF IssuesFirst, At
  <1>1. call'[g] = call[g]
    BY DEF Others
  <1> QED
    BY <1>1 DEF IssuesFirst, NoNewLive, At

LEMMA CountsKept ==
    ASSUME CountsCurrent, user'.failed = user.failed, faults' = 0 => faults = 0,
           NEW h \in Handlers, Others(h), call'[h].step \notin {"count", "lock"}
    PROVE  CountsCurrent'
  <1> SUFFICES ASSUME faults' = 0, NEW g \in Handlers, ~call'[g].stale
               PROVE  /\ call'[g].step = "count" => call'[g].seen <= user'.failed
                      /\ call'[g].step = "lock" => user'.failed = MaxAttempts
    BY DEF CountsCurrent, At
  <1>1. CASE g = h
    BY <1>1
  <1>2. CASE g # h
    <2>1. call'[g] = call[g]
      BY <1>2 DEF Others
    <2> QED
      BY <2>1 DEF CountsCurrent, At
  <1> QED
    BY <1>1, <1>2

\* The steps that change none of what Safe speaks of.
LEMMA QuietStep ==
    ASSUME Safe, NEW h \in Handlers, Others(h), ~At(h, "revoke"),
           call'[h].step \notin {"count", "lock", "issue"},
           NoNewOld, NoNewLive, SameCount, faults' = 0 => faults = 0
    PROVE  Safe'
  BY OldKept, OneKept, LockKept, IssuesKept, CountsKept DEF Safe, SameCount

-----------------------------------------------------------------------------
(* What the steps do to the call of their handler and to the rows. *)

LEMMA FaultCounts == TypeOK /\ Fault => faults' # 0
  BY AccountAssumption, SMT DEF TypeOK, Fault

Begins(h, op) == Others(h) /\ At(h, "idle") /\ call'[h].step = op

LEMMA BeginEffect ==
    ASSUME TypeOK, NEW h \in Handlers, NEW op
    PROVE  /\ Begin(h, [Idle EXCEPT !.step = op]) => Begins(h, op)
           /\ \A s : Begin(h, [Idle EXCEPT !.step = op, !.session = s]) => Begins(h, op)
           /\ \A t : Begin(h, [Idle EXCEPT !.step = op, !.token = t]) => Begins(h, op)
           /\ \A t, p : Begin(h, [Idle EXCEPT !.step = op, !.token = t, !.password = p])
                           => Begins(h, op)
  BY DEF Begin, Begins, Others, TypeOK, Idle

LEMMA EndEffect ==
    ASSUME TypeOK, NEW h \in Handlers, End(h)
    PROVE  Others(h) /\ call'[h].step = "idle"
  BY DEF End, Others, TypeOK, Idle

LEMMA GotoEffect ==
    ASSUME TypeOK, NEW h \in Handlers, NEW step, Goto(h, step)
    PROVE  /\ Others(h) /\ call'[h].step = step
           /\ call'[h].stale = call[h].stale
  <1>1. call[h] \in Call
    BY DEF TypeOK
  <1>2. call'[h] = [call[h] EXCEPT !.step = step]
    BY DEF Goto, TypeOK
  <1> QED
    BY <1>1, <1>2, SMT DEF Goto, Others, TypeOK, Call

LEMMA Unchanged ==
    /\ sessions' = sessions => NoNewOld
    /\ resets' = resets => NoNewLive
    /\ user' = user => SameCount
  BY DEF NoNewOld, NoNewLive, SameCount

LEMMA RevokedEffect ==
    ASSUME TypeOK, NEW S, sessions' = Revoked(S)
    PROVE  NoNewOld /\ (S = Sessions => \A s \in Sessions : ~sessions'[s].live)
  BY DEF NoNewOld, Revoked, NoSession
LEMMA UserEffect ==
    ASSUME NEW u \in User
    PROVE  /\ \A p : LET v == [u EXCEPT !.registered = TRUE, !.password = p]
                     IN  v.failed = u.failed /\ v.locked = u.locked /\ v.late = u.late
           /\ LET v == [u EXCEPT !.verified = TRUE]
              IN  v.failed = u.failed /\ v.locked = u.locked /\ v.late = u.late
           /\ \A p : LET v == [u EXCEPT !.password = p]
                     IN  v.failed = u.failed /\ v.locked = u.locked /\ v.late = u.late
           /\ \A b : LET v == [u EXCEPT !.locked = TRUE, !.late = b]
                     IN  v.failed = u.failed /\ v.late = b
           /\ LET v == [u EXCEPT !.locked = FALSE, !.late = FALSE]
              IN  v.failed = u.failed /\ v.locked = FALSE
           /\ [u EXCEPT !.failed = 0, !.locked = FALSE, !.late = FALSE].locked = FALSE
           /\ \A p : [u EXCEPT !.password = p, !.failed = 0, !.locked = FALSE,
                               !.late = FALSE].locked = FALSE
           /\ LET v == [u EXCEPT !.failed = IF @ < MaxAttempts THEN @ + 1 ELSE @]
              IN  /\ v.locked = u.locked /\ v.late = u.late
                  /\ v.failed = IF u.failed < MaxAttempts THEN u.failed + 1 ELSE u.failed
  BY DEF User

LEMMA NewSessionEffect ==
    ASSUME TypeOK, NEW s \in Sessions,
           sessions' = [sessions EXCEPT ![s] = [NoSession EXCEPT !.live = TRUE]]
    PROVE  NoNewOld
  <1>1. [NoSession EXCEPT !.live = TRUE].old = FALSE
    BY DEF NoSession
  <1> QED
    BY <1>1 DEF NoNewOld, TypeOK

LEMMA ChosenEffect ==
    ASSUME TypeOK, NEW h \in Handlers, NEW p \in Passwords,
           call' = [call EXCEPT ![h] = [@ EXCEPT !.step = "update", !.password = p]]
    PROVE  Others(h) /\ call'[h].step = "update"
  <1>1. \A c \in Call : [c EXCEPT !.step = "update", !.password = p].step = "update"
    BY DEF Call
  <1> QED
    BY <1>1 DEF Others, TypeOK

\* The steps of a handler that change none of what Safe speaks of.
LEMMA QuietActions ==
    ASSUME TypeOK, Safe, NEW h \in Handlers,
           \/ Register(h) \/ SendLink(h) \/ VerifyEmail(h) \/ VerifyTx(h)
           \/ CreateWithToken(h) \/ Admit(h) \/ Logout(h) \/ RevokeSession(h)
           \/ ResendVerificationEmail(h)
           \/ RevokeAllOtherSessions(h) \/ ChangePassword(h)
           \/ RequestPasswordReset(h) \/ ResetPassword(h)
    PROVE  Safe'
  <1> DEFINE Quiet == /\ Others(h) /\ ~At(h, "revoke")
                      /\ call'[h].step \notin {"count", "lock", "issue"}
                      /\ NoNewOld /\ NoNewLive /\ SameCount
                      /\ faults' = 0 => faults = 0
  <1>0. user \in User
    BY DEF TypeOK
  <1>1. ASSUME Register(h) PROVE Quiet
    <2>1. \E op \in {"link"} : Begins(h, op)
      BY <1>1, BeginEffect DEF Register
    <2>2. PICK p \in Passwords : user' = [user EXCEPT !.registered = TRUE, !.password = p]
      BY <1>1 DEF Register
    <2>3. SameCount
      BY <2>2, <1>0, UserEffect DEF SameCount
    <2> QED
      BY <1>1, <2>1, <2>3, Unchanged DEF Register, At, Begins
  <1>2. ASSUME VerifyEmail(h) PROVE Quiet
    <2>1. \E op \in {"verify"} : Begins(h, op)
      BY <1>2, BeginEffect DEF VerifyEmail
    <2> QED
      BY <1>2, <2>1, Unchanged DEF VerifyEmail, At, Begins
  <1>3. ASSUME Admit(h) PROVE Quiet
    <2>1. \E op \in {"logout", "revokeOne", "revokeOthers", "change", "resend"} : Begins(h, op)
      BY <1>3, BeginEffect DEF Admit
    <2> QED
      BY <1>3, <2>1, Unchanged DEF Admit, At, Begins
  <1>4. ASSUME RequestPasswordReset(h) PROVE Quiet
    <2>1. \E op \in {"invalidate"} : Begins(h, op)
      BY <1>4, BeginEffect DEF RequestPasswordReset
    <2> QED
      BY <1>4, <2>1, Unchanged DEF RequestPasswordReset, At, Begins
  <1>5. ASSUME ResetPassword(h) PROVE Quiet
    <2>1. \E op \in {"reset"} : Begins(h, op)
      BY <1>5, BeginEffect DEF ResetPassword
    <2> QED
      BY <1>5, <2>1, Unchanged DEF ResetPassword, At, Begins
  <1>6. ASSUME SendLink(h) PROVE Quiet
    <2>1. Others(h) /\ call'[h].step = "idle"
      BY <1>6, EndEffect DEF SendLink
    <2> QED
      BY <1>6, <2>1, Unchanged, FaultCounts DEF SendLink, At
  <1>7. ASSUME VerifyTx(h) PROVE Quiet
    <2>1. Others(h) /\ call'[h].step = "idle"
      BY <1>7, EndEffect DEF VerifyTx
    <2>2. SameCount
      BY <1>7, <1>0, UserEffect, Unchanged DEF VerifyTx, SameCount
    <2> QED
      BY <1>7, <2>1, <2>2, Unchanged, FaultCounts DEF VerifyTx, At
  <1>8. ASSUME CreateWithToken(h) PROVE Quiet
    <2>1. Others(h) /\ call'[h].step = "idle"
      BY <1>8, EndEffect DEF CreateWithToken
    <2>2. NoNewOld
      BY <1>8, NewSessionEffect, Unchanged DEF CreateWithToken
    <2> QED
      BY <1>8, <2>1, <2>2, Unchanged, FaultCounts DEF CreateWithToken, At
  <1>9. ASSUME Logout(h) PROVE Quiet
    <2>1. Others(h) /\ call'[h].step = "idle"
      BY <1>9, EndEffect DEF Logout
    <2>2. NoNewOld
      BY <1>9, RevokedEffect, Unchanged DEF Logout
    <2> QED
      BY <1>9, <2>1, <2>2, Unchanged, FaultCounts DEF Logout, At
  <1>10. ASSUME RevokeSession(h) PROVE Quiet
    <2>1. Others(h) /\ call'[h].step = "idle"
      BY <1>10, EndEffect DEF RevokeSession
    <2>2. NoNewOld
      BY <1>10, RevokedEffect, Unchanged DEF RevokeSession
    <2> QED
      BY <1>10, <2>1, <2>2, Unchanged, FaultCounts DEF RevokeSession, At
  <1>11. ASSUME RevokeAllOtherSessions(h) PROVE Quiet
    <2>1. Others(h) /\ call'[h].step = "idle"
      BY <1>11, EndEffect DEF RevokeAllOtherSessions
    <2>2. NoNewOld
      BY <1>11, RevokedEffect, Unchanged DEF RevokeAllOtherSessions
    <2> QED
      BY <1>11, <2>1, <2>2, Unchanged, FaultCounts DEF RevokeAllOtherSessions, At
  <1>12. ASSUME ChangePassword(h) PROVE Quiet
    <2>1. Others(h) /\ call'[h].step \in {"update", "idle"}
      BY <1>12, EndEffect, ChosenEffect DEF ChangePassword
    <2> QED
      BY <1>12, <2>1, Unchanged DEF ChangePassword, At
  <1>13. ASSUME ResendVerificationEmail(h) PROVE Quiet
    <2>1. Others(h) /\ call'[h].step \in {"link", "idle"}
      BY <1>13, EndEffect, GotoEffect DEF ResendVerificationEmail
    <2> QED
      BY <1>13, <2>1, Unchanged, FaultCounts DEF ResendVerificationEmail, At
  <1>14. Quiet
    BY <1>1, <1>2, <1>3, <1>4, <1>5, <1>6, <1>7, <1>8, <1>9, <1>10, <1>11, <1>12, <1>13
  <1> QED
    BY <1>14, QuietStep
-----------------------------------------------------------------------------
(* Login and lockout. *)

LEMMA CountsGrow ==
    ASSUME TypeOK, CountsCurrent, user'.failed \in 0..MaxAttempts,
           user.failed <= user'.failed, faults' = 0 => faults = 0,
           NEW h \in Handlers, Others(h),
           faults' = 0 /\ ~call'[h].stale =>
               /\ call'[h].step = "count" => call'[h].seen <= user'.failed
               /\ call'[h].step = "lock" => user'.failed = MaxAttempts
    PROVE  CountsCurrent'
  <1> SUFFICES ASSUME faults' = 0, NEW g \in Handlers, g # h, ~call'[g].stale
               PROVE  /\ call'[g].step = "count" => call'[g].seen <= user'.failed
                      /\ call'[g].step = "lock" => user'.failed = MaxAttempts
    BY DEF CountsCurrent, At
  <1>1. call'[g] = call[g]
    BY DEF Others
  <1>2. /\ call[g].step = "count" => call[g].seen <= user.failed
        /\ call[g].step = "lock" => user.failed = MaxAttempts
    BY <1>1 DEF CountsCurrent, At
  <1>3. call[g].seen \in 0..MaxAttempts /\ user.failed \in 0..MaxAttempts
    BY CallFields, UserFields
  <1> QED
    BY <1>1, <1>2, <1>3, AccountAssumption, SMT

LEMMA SafeLogin ==
    ASSUME TypeOK, Safe, NEW h \in Handlers, Login(h) PROVE Safe'
  <1>1. NoNewOld /\ NoNewLive /\ SameCount /\ faults' = faults
    BY Unchanged DEF Login
  <1>2. CASE Begin(h, [Idle EXCEPT !.step = "clear"])
    BY <1>1, <1>2, BeginEffect, QuietStep DEF Begins, At
  <1>3. CASE Begin(h, [Idle EXCEPT !.step = "count", !.seen = user.failed])
    <2>1. Others(h) /\ At(h, "idle")
      BY <1>3 DEF Begin, Others, TypeOK
    <2>2. call'[h].step = "count" /\ call'[h].seen = user.failed
      BY <1>3 DEF Begin, TypeOK, Idle
    <2>3. user.failed \in 0..MaxAttempts /\ user' = user
      BY UserFields DEF Login
    <2>4. user.failed <= user.failed
      BY <2>3, AccountAssumption, SMT
    <2>5. CountsCurrent'
      BY <1>1, <2>1, <2>2, <2>3, <2>4, CountsGrow DEF Safe
    <2>6. OldSessionsEnd' /\ IssuesFirst'
      BY <1>1, <2>1, <2>2, OldKept, IssuesKept DEF Safe, At
    <2> QED
      BY <1>1, <2>5, <2>6, OneKept, LockKept DEF Safe
  <1> QED
    BY <1>2, <1>3 DEF Login

LEMMA SafeCountFailure ==
    ASSUME TypeOK, Safe, NEW h \in Handlers, CountFailure(h) PROVE Safe'
  <1>1. NoNewOld /\ NoNewLive
    BY Unchanged DEF CountFailure
  <1>2. Others(h) /\ call'[h].step \in {"lock", "idle"}
    BY GotoEffect, EndEffect DEF CountFailure
  <1>3. OldSessionsEnd' /\ OneLiveReset' /\ IssuesFirst'
    BY <1>1, <1>2, OldKept, OneKept, IssuesKept DEF Safe, At, CountFailure
  <1>4. CASE faults' # 0
    BY <1>3, <1>4 DEF Safe, LockHasCause, CountsCurrent
  <1>5. CASE faults' = 0
    <2>1. faults = 0
      BY <1>5, FaultCounts DEF CountFailure
    <2>2. user' = [user EXCEPT !.failed = IF @ < MaxAttempts THEN @ + 1 ELSE @]
      BY <1>5, FaultCounts DEF CountFailure
    <2>3. user \in User
      BY DEF TypeOK
    <2>4. /\ user'.locked = user.locked /\ user'.late = user.late
          /\ user'.failed = IF user.failed < MaxAttempts THEN user.failed + 1 ELSE user.failed
      BY <2>2, <2>3, UserEffect
    <2>5. user.failed \in 0..MaxAttempts /\ call[h].seen \in 0..MaxAttempts
      BY UserFields, CallFields
    <2>6. user'.failed \in 0..MaxAttempts /\ user.failed <= user'.failed
      BY <2>4, <2>5, AccountAssumption, SMT
    <2>7. LockHasCause'
      <3> SUFFICES ASSUME user'.locked, ~user'.late PROVE user'.failed = MaxAttempts
        BY DEF LockHasCause
      <3>1. user.failed = MaxAttempts
        BY <2>1, <2>4 DEF Safe, LockHasCause
      <3> QED
        BY <3>1, <2>4, AccountAssumption, SMT
    <2>8. ~call'[h].stale /\ call'[h].step = "lock" => user'.failed = MaxAttempts
      <3> SUFFICES ASSUME ~call'[h].stale, call'[h].step = "lock"
                   PROVE  user'.failed = MaxAttempts
        OBVIOUS
      <3>1. ReachesLimit(h) /\ ~call[h].stale
        BY GotoEffect, EndEffect DEF CountFailure
      <3>2. call[h].seen <= user.failed
        BY <2>1, <3>1 DEF Safe, CountsCurrent, CountFailure
      <3>3. call[h].seen + 1 >= MaxAttempts
        BY <3>1 DEF ReachesLimit
      <3> QED
        BY <2>4, <2>5, <3>2, <3>3, AccountAssumption, SMT
    <2>9. CountsCurrent'
      BY <1>2, <2>1, <2>6, <2>8, CountsGrow DEF Safe
    <2> QED
      BY <1>3, <2>7, <2>9 DEF Safe
  <1> QED
    BY <1>4, <1>5

LEMMA SafeLockUntil ==
    ASSUME TypeOK, Safe, NEW h \in Handlers, LockUntil(h) PROVE Safe'
  <1>1. NoNewOld /\ NoNewLive
    BY Unchanged DEF LockUntil
  <1>2. Others(h) /\ call'[h].step = "idle" /\ At(h, "lock")
    BY EndEffect DEF LockUntil
  <1>3. OldSessionsEnd' /\ OneLiveReset' /\ IssuesFirst'
    BY <1>1, <1>2, OldKept, OneKept, IssuesKept DEF Safe, At
  <1>4. CASE faults' # 0
    BY <1>3, <1>4 DEF Safe, LockHasCause, CountsCurrent
  <1>5. CASE faults' = 0
    <2>1. faults = 0 /\ user' = [user EXCEPT !.locked = TRUE, !.late = call[h].stale]
      BY <1>5, FaultCounts DEF LockUntil
    <2>2. user \in User
      BY DEF TypeOK
    <2>3. user'.failed = user.failed /\ user'.late = call[h].stale
      BY <2>1, <2>2, UserEffect
    <2>4. LockHasCause'
      BY <1>2, <2>1, <2>3 DEF Safe, LockHasCause, CountsCurrent
    <2>5. CountsCurrent'
      BY <1>2, <2>1, <2>3, CountsKept DEF Safe
    <2> QED
      BY <1>3, <2>4, <2>5 DEF Safe
  <1> QED
    BY <1>4, <1>5

\* What clearing the count does to the calls.
LEMMA OvertakenEffect ==
    ASSUME TypeOK, NEW h \in Handlers, NEW step, call' = Overtaken(h, step)
    PROVE  /\ call'[h].step = step
           /\ \A g \in Handlers : g # h => call'[g].step = call[g].step
           /\ \A g \in Handlers : g # h /\ At(g, "issue") => call'[g] = call[g]
           /\ \A g \in Handlers : g # h /\ (At(g, "count") \/ At(g, "lock")) =>
                 call'[g].stale
  <1>1. \A g \in Handlers : call[g] \in Call
    BY DEF TypeOK
  <1>2. \A c \in Call : /\ [c EXCEPT !.step = step].step = step
                        /\ [c EXCEPT !.stale = TRUE].step = c.step
                        /\ [c EXCEPT !.stale = TRUE].stale = TRUE
    BY DEF Call
  <1>3. call'[h].step = step
    BY <1>1, <1>2 DEF Overtaken
  <1>4. ASSUME NEW g \in Handlers, g # h
        PROVE  /\ call'[g].step = call[g].step
               /\ At(g, "issue") => call'[g] = call[g]
               /\ At(g, "count") \/ At(g, "lock") => call'[g].stale
    <2>1. CASE At(g, "count") \/ At(g, "lock")
      <3>1. call'[g] = [call[g] EXCEPT !.stale = TRUE]
        BY <1>4, <2>1 DEF Overtaken
      <3> QED
        BY <1>1, <1>2, <2>1, <3>1 DEF At
    <2>2. CASE ~(At(g, "count") \/ At(g, "lock"))
      BY <1>4, <2>2 DEF Overtaken
    <2> QED
      BY <2>1, <2>2
  <1> QED
    BY <1>3, <1>4

\* After the count is cleared, no login that is under way is current.
LEMMA SafeCleared ==
    ASSUME TypeOK, Safe, NEW h \in Handlers, NEW step \in {"session", "revoke"},
           call' = Overtaken(h, step), user'.locked = FALSE, NoNewLive,
           OldSessionsEnd'
    PROVE  Safe'
  <1>1. OneLiveReset' /\ LockHasCause'
    BY OneKept DEF Safe, LockHasCause
  <1>2. IssuesFirst'
    <2> SUFFICES ASSUME NEW g \in Handlers, call'[g].step = "issue", ~call'[g].stale,
                        NEW r \in Resets, resets'[r].state = "live"
                 PROVE  FALSE
      BY DEF IssuesFirst, At
    <2>1. g # h
      BY OvertakenEffect
    <2>2. At(g, "issue")
      BY <2>1, OvertakenEffect DEF At
    <2>3. call'[g] = call[g]
      BY <2>1, <2>2, OvertakenEffect
    <2> QED
      BY <2>2, <2>3 DEF Safe, IssuesFirst, NoNewLive, At
  <1>3. \A g \in Handlers : ~call'[g].stale => call'[g].step \notin {"count", "lock"}
    BY OvertakenEffect DEF At
  <1>4. CountsCurrent'
    BY <1>3 DEF CountsCurrent, At
  <1> QED
    BY <1>1, <1>2, <1>4 DEF Safe

LEMMA SafeClearFailures ==
    ASSUME TypeOK, Safe, NEW h \in Handlers, ClearFailures(h) PROVE Safe'
  <1>1. NoNewOld /\ NoNewLive
    BY Unchanged DEF ClearFailures
  <1>2. CASE Fault /\ Goto(h, "session") /\ UNCHANGED <<user, guesses>>
    <2>1. Others(h) /\ call'[h].step = "session" /\ ~At(h, "revoke")
      BY <1>2, GotoEffect DEF ClearFailures, At
    <2>2. SameCount /\ faults' # 0
      BY <1>2, FaultCounts, Unchanged
    <2> QED
      BY <1>1, <2>1, <2>2, QuietStep
  <1>3. CASE /\ call' = Overtaken(h, "session")
             /\ user' = [user EXCEPT !.failed = 0, !.locked = FALSE, !.late = FALSE]
    <2>1. user'.locked = FALSE
      BY <1>3, UserEffect DEF TypeOK
    <2>2. OldSessionsEnd'
      <3> SUFFICES ASSUME NEW s \in Sessions, sessions'[s].live, sessions'[s].old,
                          ~sessions'[s].missed
                   PROVE  \E g \in Handlers : call'[g].step = "revoke"
        BY DEF OldSessionsEnd, Live, At
      <3>1. PICK g \in Handlers : At(g, "revoke")
        BY <1>1 DEF Safe, OldSessionsEnd, NoNewOld, Live
      <3>2. g # h
        BY <3>1 DEF ClearFailures, At
      <3> QED
        BY <1>3, <3>1, <3>2, OvertakenEffect DEF At
    <2> QED
      BY <1>1, <1>3, <2>1, <2>2, SafeCleared
  <1> QED
    BY <1>2, <1>3 DEF ClearFailures
-----------------------------------------------------------------------------
(* Password change and reset. *)

LEMMA MissedEffect ==
    ASSUME TypeOK, sessions' = Missed
    PROVE  \A s \in Sessions : Live(s)' /\ sessions'[s].old => sessions'[s].missed
  <1> SUFFICES ASSUME NEW s \in Sessions PROVE sessions'[s].old => sessions'[s].missed
    BY DEF Live
  <1>1. sessions[s] \in SessionRow
    BY DEF TypeOK
  <1>2. \A row \in SessionRow : LET r == [row EXCEPT !.missed = row.old]
                                IN  r.old = row.old /\ r.missed = row.old
    BY DEF SessionRow
  <1> QED
    BY <1>1, <1>2 DEF Missed

LEMMA IssueEffect ==
    ASSUME TypeOK, NEW h \in Handlers,
           \/ call' = [call EXCEPT ![h].step = "issue"]
           \/ call' = [call EXCEPT ![h] = [@ EXCEPT !.step = "issue", !.stale = TRUE]]
    PROVE  /\ Others(h) /\ call'[h].step = "issue"
           /\ call' = [call EXCEPT ![h] = [@ EXCEPT !.step = "issue", !.stale = TRUE]] =>
                 call'[h].stale
  <1>1. call[h] \in Call
    BY DEF TypeOK
  <1>2. \A c \in Call : /\ [c EXCEPT !.step = "issue", !.stale = TRUE].step = "issue"
                        /\ [c EXCEPT !.step = "issue", !.stale = TRUE].stale = TRUE
    BY DEF Call
  <1>3. CASE call' = [call EXCEPT ![h] = [@ EXCEPT !.step = "issue", !.stale = TRUE]]
    BY <1>1, <1>2, <1>3 DEF Others, TypeOK
  <1>4. CASE call' = [call EXCEPT ![h].step = "issue"]
    BY <1>4, GotoEffect, <1>3 DEF Goto
  <1> QED
    BY <1>3, <1>4

LEMMA SafeUpdatePassword ==
    ASSUME TypeOK, Safe, NEW h \in Handlers, UpdatePassword(h) PROVE Safe'
  <1>1. NoNewLive
    BY Unchanged DEF UpdatePassword
  <1>2. SameCount
    <2>1. user \in User
      BY DEF TypeOK
    <2>2. CASE user' = [user EXCEPT !.password = call[h].password]
      BY <2>1, <2>2, UserEffect DEF SameCount
    <2> QED
      BY <2>2, Unchanged DEF UpdatePassword
  <1>3. Others(h) /\ call'[h].step \in {"revoke", "idle"}
    BY EndEffect, GotoEffect DEF UpdatePassword
  <1>4. faults' = 0 => faults = 0
    BY FaultCounts DEF UpdatePassword
  <1>5. OldSessionsEnd'
    <2>1. CASE call'[h].step = "revoke"
      BY <2>1 DEF OldSessionsEnd, At
    <2>2. CASE call'[h].step # "revoke"
      <3>1. UNCHANGED sessions
        BY <2>2, GotoEffect DEF UpdatePassword
      <3> QED
        BY <1>3, <3>1, OldKept, Unchanged DEF Safe, UpdatePassword, At
    <2> QED
      BY <2>1, <2>2
  <1>6. IssuesFirst' /\ CountsCurrent'
    BY <1>1, <1>2, <1>3, <1>4, IssuesKept, CountsKept DEF Safe, SameCount
  <1> QED
    BY <1>1, <1>2, <1>4, <1>5, <1>6, OneKept, LockKept DEF Safe

LEMMA SafeRevokeAllForUser ==
    ASSUME TypeOK, Safe, NEW h \in Handlers, RevokeAllForUser(h) PROVE Safe'
  <1>1. NoNewLive /\ SameCount
    BY Unchanged DEF RevokeAllForUser
  <1>2. Others(h) /\ call'[h].step = "idle"
    BY EndEffect DEF RevokeAllForUser
  <1>3. faults' = 0 => faults = 0
    BY FaultCounts DEF RevokeAllForUser
  <1>4. OldSessionsEnd'
    <2>1. CASE sessions' = Revoked(Sessions)
      BY <2>1, RevokedEffect DEF OldSessionsEnd, Live
    <2>2. CASE sessions' = Missed
      BY <2>2, MissedEffect DEF OldSessionsEnd
    <2> QED
      BY <2>1, <2>2 DEF RevokeAllForUser
  <1>5. IssuesFirst' /\ CountsCurrent'
    BY <1>1, <1>2, <1>3, IssuesKept, CountsKept DEF Safe, SameCount
  <1> QED
    BY <1>1, <1>3, <1>4, <1>5, OneKept, LockKept DEF Safe

LEMMA SafeInvalidateForUser ==
    ASSUME TypeOK, Safe, NEW h \in Handlers, InvalidateForUser(h) PROVE Safe'
  <1>1. NoNewOld /\ SameCount
    BY Unchanged DEF InvalidateForUser
  <1>2. Others(h) /\ call'[h].step = "issue" /\ ~At(h, "revoke")
    BY IssueEffect DEF InvalidateForUser, At
  <1>3. faults' = 0 => faults = 0
    BY FaultCounts DEF InvalidateForUser
  <1>4. OldSessionsEnd' /\ CountsCurrent'
    BY <1>1, <1>2, <1>3, OldKept, CountsKept DEF Safe, SameCount
  <1>5. CASE resets' = [r \in Resets |-> IF resets[r].state = "live"
                                          THEN NoReset ELSE resets[r]]
    <2>1. \A r \in Resets : resets'[r].state # "live"
      BY <1>5 DEF NoReset
    <2> QED
      BY <1>1, <1>3, <1>4, <2>1, LockKept DEF Safe, OneLiveReset, IssuesFirst
  <1>6. CASE UNCHANGED resets /\ call'[h].stale
    <2>1. IssuesFirst'
      BY <1>2, <1>6 DEF Safe, IssuesFirst, Others, At
    <2> QED
      BY <1>1, <1>3, <1>4, <1>6, <2>1, OneKept, LockKept, Unchanged DEF Safe
  <1> QED
    BY <1>5, <1>6, IssueEffect DEF InvalidateForUser

LEMMA SafeIssueReset ==
    ASSUME TypeOK, Safe, NEW h \in Handlers, IssueReset(h) PROVE Safe'
  <1>1. NoNewOld /\ SameCount
    BY Unchanged DEF IssueReset
  <1>2. CASE Fault /\ End(h) /\ UNCHANGED resets
    <2>1. Others(h) /\ call'[h].step = "idle" /\ ~At(h, "revoke")
      BY <1>2, EndEffect DEF IssueReset, At
    <2> QED
      BY <1>1, <1>2, <2>1, FaultCounts, Unchanged, QuietStep
  <1>3. ASSUME NEW r \in Resets, resets[r].state # "live", faults' = faults,
               resets' = [resets EXCEPT ![r] = [state |-> "live", stale |-> call[h].stale]],
               call' = [g \in Handlers |->
                          CASE g = h -> Idle
                            [] g # h /\ At(g, "issue") -> [call[g] EXCEPT !.stale = TRUE]
                            [] OTHER -> call[g]]
        PROVE  Safe'
    <2>1. call'[h].step = "idle"
      BY <1>3 DEF Idle
    <2>2. \A g \in Handlers : g # h =>
             /\ At(g, "issue") => call'[g].step = "issue" /\ call'[g].stale
             /\ ~At(g, "issue") => call'[g] = call[g]
      <3> SUFFICES ASSUME NEW g \in Handlers, g # h
                   PROVE  /\ At(g, "issue") => call'[g].step = "issue" /\ call'[g].stale
                          /\ ~At(g, "issue") => call'[g] = call[g]
        OBVIOUS
      <3>1. call[g] \in Call
        BY DEF TypeOK
      <3>2. \A c \in Call : /\ [c EXCEPT !.stale = TRUE].step = c.step
                            /\ [c EXCEPT !.stale = TRUE].stale = TRUE
        BY DEF Call
      <3> QED
        BY <1>3, <3>1, <3>2 DEF At
    <2>3. OldSessionsEnd'
      <3> SUFFICES ASSUME NEW s \in Sessions, sessions'[s].live, sessions'[s].old,
                          ~sessions'[s].missed
                   PROVE  \E g \in Handlers : call'[g].step = "revoke"
        BY DEF OldSessionsEnd, Live, At
      <3>1. PICK g \in Handlers : At(g, "revoke")
        BY <1>1 DEF Safe, OldSessionsEnd, NoNewOld, Live
      <3>2. g # h /\ ~At(g, "issue")
        BY <3>1 DEF IssueReset, At
      <3> QED
        BY <2>2, <3>1, <3>2 DEF At
    <2>4. \A g \in Handlers : call'[g].step = "issue" => call'[g].stale
      BY <2>1, <2>2 DEF At
    <2>5. IssuesFirst'
      BY <2>4 DEF IssuesFirst, At
    <2>6. CountsCurrent'
      <3> SUFFICES ASSUME faults' = 0, NEW g \in Handlers, ~call'[g].stale
                   PROVE  /\ call'[g].step = "count" => call'[g].seen <= user'.failed
                          /\ call'[g].step = "lock" => user'.failed = MaxAttempts
        BY DEF CountsCurrent, At
      <3>1. CASE g = h
        BY <2>1, <3>1
      <3>2. CASE g # h /\ At(g, "issue")
        BY <2>2, <3>2
      <3>3. CASE g # h /\ ~At(g, "issue")
        <4>1. call'[g] = call[g] /\ user'.failed = user.failed /\ faults = 0
          BY <1>1, <1>3, <2>2, <3>3 DEF SameCount
        <4> QED
          BY <4>1 DEF Safe, CountsCurrent, At
      <3> QED
        BY <3>1, <3>2, <3>3
    <2>7. OneLiveReset'
      <3>1. resets'[r].stale = call[h].stale
        BY <1>3 DEF TypeOK
      <3>2. \A q \in Resets : q # r => resets'[q] = resets[q]
        BY <1>3 DEF TypeOK
      <3>3. ~call[h].stale => \A q \in Resets : resets[q].state # "live"
        BY DEF Safe, IssuesFirst, IssueReset
      <3> QED
        BY <3>1, <3>2, <3>3 DEF Safe, OneLiveReset
    <2> QED
      BY <1>1, <1>3, <2>3, <2>5, <2>6, <2>7, LockKept DEF Safe
  <1> QED
    BY <1>2, <1>3 DEF IssueReset

LEMMA SafeResetTx ==
    ASSUME TypeOK, Safe, NEW h \in Handlers, ResetTx(h) PROVE Safe'
  <1>1. CASE Fault /\ End(h) /\ UNCHANGED <<resets, user, sessions, guesses>>
    <2>1. Others(h) /\ call'[h].step = "idle" /\ ~At(h, "revoke")
      BY <1>1, EndEffect DEF ResetTx, At
    <2> QED
      BY <1>1, <2>1, FaultCounts, Unchanged, QuietStep
  <1>2. CASE /\ resets' = [resets EXCEPT ![call[h].token] = [NoReset EXCEPT !.state = "used"]]
             /\ user' = [user EXCEPT !.password = call[h].password, !.failed = 0,
                                     !.locked = FALSE, !.late = FALSE]
             /\ call' = Overtaken(h, "revoke")
    <2>1. user'.locked = FALSE
      BY <1>2, UserEffect DEF TypeOK
    <2>2. [NoReset EXCEPT !.state = "used"].state = "used"
      BY DEF NoReset
    <2>3. NoNewLive
      BY <1>2, <2>2 DEF NoNewLive, TypeOK
    <2>4. OldSessionsEnd'
      BY <1>2, OvertakenEffect DEF OldSessionsEnd, At
    <2> QED
      BY <1>2, <2>1, <2>3, <2>4, SafeCleared
  <1> QED
    BY <1>1, <1>2 DEF ResetTx

-----------------------------------------------------------------------------
(* Time and crashes. *)

LEMMA SafeLockExpires ==
    ASSUME TypeOK, Safe, LockExpires PROVE Safe'
  <1>1. user'.failed = user.failed /\ user'.locked = FALSE
    BY UserEffect DEF LockExpires, TypeOK
  <1>2. LockHasCause'
    BY <1>1 DEF LockHasCause
  <1> QED
    BY <1>1, <1>2 DEF Safe, LockExpires, OldSessionsEnd, OneLiveReset, IssuesFirst,
                      CountsCurrent, Live, At

LEMMA SafeTokenExpires ==
    ASSUME TypeOK, Safe, TokenExpires PROVE Safe'
  <1>1. NoNewOld
    <2>1. CASE UNCHANGED sessions
      BY <2>1, Unchanged
    <2>2. ASSUME NEW s \in Sessions, sessions' = [sessions EXCEPT ![s] = NoSession]
          PROVE  NoNewOld
      <3>1. NoSession.live = FALSE
        BY DEF NoSession
      <3> QED
        BY <2>2, <3>1 DEF NoNewOld, TypeOK
    <2> QED
      BY <2>1, <2>2 DEF TokenExpires
  <1>2. NoNewLive
    <2>1. CASE UNCHANGED resets
      BY <2>1, Unchanged
    <2>2. ASSUME NEW r \in Resets, resets' = [resets EXCEPT ![r] = NoReset]
          PROVE  NoNewLive
      <3>1. NoReset.state = "none"
        BY DEF NoReset
      <3> QED
        BY <2>2, <3>1 DEF NoNewLive, TypeOK
    <2> QED
      BY <2>1, <2>2 DEF TokenExpires
  <1>3. UNCHANGED <<user, call, faults>>
    BY DEF TokenExpires
  <1>4. OldSessionsEnd'
    BY <1>1, <1>3 DEF Safe, OldSessionsEnd, NoNewOld, Live, At
  <1>5. LockHasCause' /\ CountsCurrent'
    BY <1>3 DEF Safe, LockHasCause, CountsCurrent, At
  <1>6. IssuesFirst'
    BY <1>2, <1>3 DEF Safe, IssuesFirst, NoNewLive, At
  <1> QED
    BY <1>2, <1>4, <1>5, <1>6, OneKept DEF Safe

LEMMA SafeCrash ==
    ASSUME TypeOK, Safe, Crash PROVE Safe'
  <1>1. faults' # 0 /\ UNCHANGED <<user, resets>>
    BY FaultCounts DEF Crash
  <1>2. \A h \in Handlers : call'[h].step = "idle"
    BY DEF Crash, Idle
  <1>3. OldSessionsEnd'
    <2>1. CASE \E h \in Handlers : At(h, "revoke")
      BY <2>1, MissedEffect DEF Crash, OldSessionsEnd
    <2>2. CASE ~\E h \in Handlers : At(h, "revoke")
      BY <2>2 DEF Crash, Safe, OldSessionsEnd, Live
    <2> QED
      BY <2>1, <2>2
  <1>4. IssuesFirst' /\ CountsCurrent' /\ LockHasCause'
    BY <1>1, <1>2 DEF IssuesFirst, CountsCurrent, LockHasCause, At
  <1> QED
    BY <1>1, <1>3, <1>4, OneKept, Unchanged DEF Safe

-----------------------------------------------------------------------------
LEMMA InductiveStep == Inv /\ [Next]_vars => Inv'
  <1> SUFFICES ASSUME Inv, [Next]_vars PROVE Inv'
    OBVIOUS
  <1>0. TypeOK /\ Safe
    BY DEF Inv
  <1>1. CASE Next
    <2>1. TypeOK'
      BY <1>0, <1>1, TypeStep
    <2>2. ASSUME NEW h \in Handlers, Step(h) PROVE Safe'
      BY <1>0, <2>2, QuietActions, SafeLogin, SafeCountFailure, SafeLockUntil,
         SafeClearFailures, SafeUpdatePassword, SafeRevokeAllForUser,
         SafeInvalidateForUser, SafeIssueReset, SafeResetTx DEF Step
    <2>3. Safe'
      BY <1>0, <1>1, <2>2, SafeLockExpires, SafeTokenExpires, SafeCrash DEF Next
    <2> QED
      BY <2>1, <2>3 DEF Inv
  <1>2. CASE UNCHANGED vars
    BY <1>0, <1>2 DEF vars, Inv, Safe, TypeOK, OldSessionsEnd, OneLiveReset, LockHasCause,
                      IssuesFirst, CountsCurrent, Live, At
  <1> QED
    BY <1>1, <1>2

LEMMA Invariance == Spec => []Inv
  BY InitInv, InductiveStep, PTL DEF Spec

\* The type invariant of the account, its sessions, tokens and calls.
THEOREM TypeCorrect == Spec => []TypeOK
  <1>1. Inv => TypeOK
    BY DEF Inv
  <1> QED
    BY <1>1, Invariance, PTL

\* A session that was there when the password was replaced is not usable any
\* more once the handler that replaced it has called RevokeAllForUser, unless
\* that call failed or was cut off by a crash (authn.go:491-497, 539-547), for
\* any number of overlapping logins, changes and resets.
THEOREM SessionsEnd == Spec => []OldSessionsEnd
  <1>1. Inv => OldSessionsEnd
    BY DEF Inv, Safe
  <1> QED
    BY <1>1, Invariance, PTL

\* While no write fails, an account is locked only with its count at the limit,
\* or by a login that had read the count before it was cleared
\* (authn.go:226-233).
THEOREM LocksHaveCauses == Spec => []LockHasCause
  <1>1. Inv => LockHasCause
    BY DEF Inv, Safe
  <1> QED
    BY <1>1, Invariance, PTL

\* Two reset tokens are usable at a time only when one was issued by a request
\* that overlapped another or whose invalidation failed (authn.go:408-412).
THEOREM ResetsRetired == Spec => []OneLiveReset
  <1>1. Inv => OneLiveReset
    BY DEF Inv, Safe
  <1> QED
    BY <1>1, Invariance, PTL
=============================================================================
