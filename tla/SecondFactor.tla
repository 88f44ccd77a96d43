---------------------------- MODULE SecondFactor ----------------------------
(***************************************************************************)
(* The time-based second factor of one account: its row of totp_secrets,   *)
(* its backup codes, the totp_verified flag of its sessions, and the calls *)
(* of internal/hades/server/auth/totp.go over them, with the validation of *)
(* utils/totp and the check of the interceptor                             *)
(* (internal/hades/server/authorization/middleware.go).                    *)
(*                                                                         *)
(* Each member of Handlers serves one call after another, every store call *)
(* a step of its own; nothing here runs in a transaction.  A call that is  *)
(* refused before it writes anything is not a step.  An authenticator code *)
(* is the pair of the secret it was computed from and its time step, a     *)
(* backup code is a number; hashing and encryption do not merge codes.     *)
(***************************************************************************)
EXTENDS Integers, FiniteSets

CONSTANTS
    Handlers,    \* handlers of the calls
    Sessions,    \* the account's sessions
    MaxSecrets,  \* bound on the secrets generated
    MaxCodes,    \* bound on the backup codes generated
    BatchSize,   \* backupCodeCount
    MaxStep,     \* bound on the clock, in time steps
    Limit,       \* totpAttemptLimit
    MaxFaults,   \* bound on store and limiter failures
    None         \* no row, no code, no session

VARIABLES
    secret,    \* the row of totp_secrets, or None
    codes,     \* backup code -> what its row says
    verified,  \* sessions with totp_verified
    call,      \* handler -> the call it serves
    tries,     \* hits in the account's current attempt window
    clock,     \* the current time step
    made,      \* how many secrets and backup codes were generated
    faults,    \* store and limiter failures so far
    log        \* what was accepted and answered

vars == <<secret, codes, verified, call, tries, clock, made, faults, log>>

Secrets == 1..MaxSecrets

TimeSteps == 0..MaxStep + 1

Codes == 1..MaxCodes

\* confirmed: a code of this very secret led to enabled; overtaken: the row was
\* replaced while the call that enabled it ran.
Row == [secret: Secrets, enabled: BOOLEAN, last: TimeSteps \cup {None},
        confirmed: BOOLEAN, overtaken: BOOLEAN]

ASSUME SecondFactorAssumption ==
    /\ {MaxSecrets, MaxCodes, MaxStep, Limit, MaxFaults} \subseteq Nat
    /\ BatchSize \in Nat \ {0}
    /\ None \notin Sessions \cup Nat \cup Row

Steps == {"idle", "upsert", "clear", "insert", "attempt", "consume", "backup", "spend", "enable",
          "mark", "delete", "gate"}

\* code: a time step of secret, a backup code when secret is None; left: what
\* remains to be inserted, and for a request whether its session is verified;
\* stale: what the call read was replaced, or its backup code spent, since.
Call == [op: {"none", "enroll", "confirm", "verify", "disable", "regenerate", "request"},
         step: Steps, session: Sessions \cup {None},
         secret: Secrets \cup {None}, code: Nat \cup {None}, left: 0..BatchSize,
         stale: BOOLEAN]

Idle == [op |-> "none", step |-> "idle", session |-> None, secret |-> None, code |-> None,
         left |-> 0, stale |-> FALSE]

\* admitted: codes admitted to comparison in the attempt window; used: how often
\* a time step was accepted since the row was last replaced; spent: how often a
\* backup code was, by a call that read it after every earlier one had marked it;
\* proved: sessions in which a code was accepted; told: sessions VerifyTOTP
\* answered.
Log == [admitted: Nat, used: [TimeSteps -> Nat], spent: [Codes -> Nat],
        proved: SUBSET Sessions, told: SUBSET Sessions]

TypeOK ==
    /\ secret \in Row \cup {None}
    /\ codes \in [Codes -> {"none", "unused", "used"}]
    /\ verified \subseteq Sessions
    /\ call \in [Handlers -> Call]
    /\ tries \in Nat
    /\ clock \in 0..MaxStep
    /\ made \in [secrets: 0..MaxSecrets, codes: 0..MaxCodes]
    /\ faults \in 0..MaxFaults
    /\ log \in Log

Init ==
    /\ secret = None
    /\ codes = [c \in Codes |-> "none"]
    /\ verified = {}
    /\ call = [h \in Handlers |-> Idle]
    /\ tries = 0
    /\ clock = 0
    /\ made = [secrets |-> 0, codes |-> 0]
    /\ faults = 0
    /\ log = [admitted |-> 0, used |-> [n \in TimeSteps |-> 0],
              spent |-> [c \in Codes |-> 0], proved |-> {}, told |-> {}]

Enabled == secret # None /\ secret.enabled

At(h, step) == call[h].step = step

Begin(h, c) == At(h, "idle") /\ call' = [call EXCEPT ![h] = c]

Goto(h, step) == call' = [call EXCEPT ![h].step = step]

End(h) == call' = [call EXCEPT ![h] = Idle]

\* A store call or the limiter fails.
Fault == faults < MaxFaults /\ faults' = faults + 1

\* The calls once h has gone on to step; those for which P holds are overtaken.
Overtake(h, step, P(_)) ==
    [g \in Handlers |-> CASE g = h -> [call[g] EXCEPT !.step = step]
                         [] g # h /\ P(g) -> [call[g] EXCEPT !.stale = TRUE]
                         [] OTHER -> call[g]]

-----------------------------------------------------------------------------
(* Enrolment. *)

\* Mutant: an enabled factor is not looked at.
BeginEnrollAlways(h) ==
    /\ made.secrets < MaxSecrets /\ made.codes + BatchSize <= MaxCodes
    /\ Begin(h, [Idle EXCEPT !.op = "enroll", !.step = "upsert"])
    /\ UNCHANGED <<secret, codes, verified, tries, clock, made, faults, log>>

\* requirePassword and GetByUserID: refused when the factor is enabled, but not
\* when the row cannot be read.
BeginEnrollTOTP(h) ==
    /\ made.secrets < MaxSecrets /\ made.codes + BatchSize <= MaxCodes
    /\ \/ /\ ~Enabled
          /\ Begin(h, [Idle EXCEPT !.op = "enroll", !.step = "upsert"])
          /\ UNCHANGED faults
       \/ Fault /\ Begin(h, [Idle EXCEPT !.op = "enroll", !.step = "upsert", !.stale = TRUE])
    /\ UNCHANGED <<secret, codes, verified, tries, clock, made, log>>

\* The calls of ConfirmEnrollTOTP that have read the row.
Confirming(g) == call[g].op = "confirm" /\ (At(g, "consume") \/ At(g, "enable"))

\* The row is inserted, or replaced whatever it holds: not enabled, no
\* high-water mark.
Upsert(h) ==
    /\ At(h, "upsert") /\ made.secrets < MaxSecrets
    /\ made' = [made EXCEPT !.secrets = @ + 1]
    /\ secret' = [secret |-> made.secrets + 1, enabled |-> FALSE, last |-> None,
                  confirmed |-> FALSE, overtaken |-> FALSE]
    /\ call' = Overtake(h, "clear", Confirming)
    /\ log' = [log EXCEPT !.used = [n \in TimeSteps |-> 0]]
    /\ UNCHANGED <<codes, verified, tries, clock, faults>>

\* DeleteAllForUser: the end of DisableTOTP, the middle of the other two.
DeleteAllForUser(h) ==
    /\ At(h, "clear")
    /\ codes' = [c \in Codes |-> "none"]
    /\ log' = [log EXCEPT !.spent = [c \in Codes |-> 0]]
    /\ IF call[h].op = "disable"
       THEN End(h)
       ELSE call' = [call EXCEPT ![h] = [@ EXCEPT !.step = "insert", !.left = BatchSize]]
    /\ UNCHANGED <<secret, verified, tries, clock, made, faults>>

\* CreateBatch inserts one row at a time.
CreateBatch(h) ==
    /\ At(h, "insert") /\ made.codes < MaxCodes
    /\ made' = [made EXCEPT !.codes = @ + 1]
    /\ codes' = [codes EXCEPT ![made.codes + 1] = "unused"]
    /\ IF call[h].left = 1 THEN End(h) ELSE call' = [call EXCEPT ![h].left = @ - 1]
    /\ UNCHANGED <<secret, verified, tries, clock, faults, log>>

RegenerateBackupCodes(h) ==
    /\ made.codes + BatchSize <= MaxCodes
    /\ Begin(h, [Idle EXCEPT !.op = "regenerate", !.step = "clear"])
    /\ UNCHANGED <<secret, codes, verified, tries, clock, made, faults, log>>

DisableTOTP(h) ==
    /\ Begin(h, [Idle EXCEPT !.op = "disable", !.step = "delete"])
    /\ UNCHANGED <<secret, codes, verified, tries, clock, made, faults, log>>

Delete(h) ==
    /\ At(h, "delete")
    /\ secret' = None
    /\ call' = Overtake(h, "clear", Confirming)
    /\ UNCHANGED <<codes, verified, tries, clock, made, faults, log>>

-----------------------------------------------------------------------------
(* Presenting a code. *)

\* The codes a client may present: of any secret and any step its clock may be
\* at, or any backup code ever made.
Presented ==
    [secret: 1..made.secrets, code: 0..clock + 1] \cup [secret: {None}, code: 1..made.codes]

BeginAttempt(h, op, s) ==
    \E c \in Presented :
       Begin(h, [Idle EXCEPT !.op = op, !.step = "attempt", !.session = s,
                             !.secret = c.secret, !.code = c.code])

\* checkTOTPAttempt: over the limit, or when the limiter fails, the call ends.
\* The hits of refused calls count too; past the limit they are not told apart.
CheckAttempt(h, op, s) ==
    /\ BeginAttempt(h, op, s)
    /\ tries < Limit
    /\ tries' = tries + 1
    /\ log' = [log EXCEPT !.admitted = @ + 1]
    /\ UNCHANGED <<secret, codes, verified, clock, made, faults>>

ConfirmEnrollTOTP(h) == CheckAttempt(h, "confirm", None)

VerifyTOTP(h) == \E s \in Sessions : CheckAttempt(h, "verify", s)

Skew == 1

\* ValidateCodeCounter: the code is the secret's at a step the skew allows.
ValidateCodeCounter(c) == c.secret = secret.secret /\ clock \in c.code - Skew .. c.code + Skew

\* GetByUserID, and the validation with what it returned.
ReadToConfirm(h) ==
    /\ At(h, "attempt") /\ call[h].op = "confirm"
    /\ IF secret # None /\ ValidateCodeCounter(call[h]) THEN Goto(h, "consume") ELSE End(h)
    /\ UNCHANGED <<secret, codes, verified, tries, clock, made, faults, log>>

\* The same for an enabled factor; what is no valid code may be a backup code.
ReadToVerify(h) ==
    /\ At(h, "attempt") /\ call[h].op = "verify"
    /\ \/ Enabled /\ ValidateCodeCounter(call[h]) /\ Goto(h, "consume")
       \/ Enabled /\ ~ValidateCodeCounter(call[h]) /\ Goto(h, "backup")
       \/ ~Enabled /\ End(h)
    /\ UNCHANGED <<secret, codes, verified, tries, clock, made, faults, log>>

\* Mutant: the step last accepted is accepted again.
FreshStepOrLast(n) == secret # None /\ (secret.last = None \/ secret.last <= n)

\* The guard of ConsumeCounter's UPDATE: no row, or one with this or a later
\* step, refuses the code.
FreshStep(n) == secret # None /\ (secret.last = None \/ secret.last < n)

\* consumeTOTPCode, then on to enabling the factor or marking the session.
ConsumeCounter(h) ==
    /\ At(h, "consume")
    /\ LET n == call[h].code
           s == call[h].session
       IN  IF FreshStep(n)
           THEN /\ secret' = [secret EXCEPT !.last = n]
                /\ log' = [log EXCEPT !.used[n] = @ + 1,
                                      !.proved = IF s = None THEN @ ELSE @ \cup {s}]
                /\ Goto(h, IF s = None THEN "enable" ELSE "mark")
           ELSE End(h) /\ UNCHANGED <<secret, log>>
    /\ UNCHANGED <<codes, verified, tries, clock, made, faults>>

\* The calls of BeginEnrollTOTP that have found the factor off.
Enrolling(g) == At(g, "upsert")

\* The UPDATE enables whatever row the account has by now.
Enable(h) ==
    /\ At(h, "enable")
    /\ secret' = IF secret = None THEN None
                 ELSE [secret EXCEPT !.enabled = TRUE, !.overtaken = call[h].stale,
                                     !.confirmed = call[h].secret = secret.secret]
    /\ call' = [Overtake(h, "idle", Enrolling) EXCEPT ![h] = Idle]
    /\ UNCHANGED <<codes, verified, tries, clock, made, faults, log>>

\* Mutant: a code that was used is found as well.
UnusedOrUsed(c) == c # None /\ codes[c] # "none"

\* The rows GetUnused finds.
Unused(c) == codes[c] = "unused"

GetUnused(h) ==
    /\ At(h, "backup")
    /\ IF call[h].secret = None /\ Unused(call[h].code) THEN Goto(h, "spend") ELSE End(h)
    /\ UNCHANGED <<secret, codes, verified, tries, clock, made, faults, log>>

\* MarkUsed updates the row by its id, whatever it holds.
MarkUsed(h) ==
    /\ At(h, "spend")
    /\ LET c == call[h].code
       IN  /\ codes' = [codes EXCEPT ![c] = IF @ = "none" THEN @ ELSE "used"]
           /\ log' = [log EXCEPT !.spent[c] = IF call[h].stale THEN @ ELSE @ + 1,
                                 !.proved = @ \cup {call[h].session}]
           /\ call' = Overtake(h, "mark", LAMBDA g : At(g, "spend") /\ call[g].code = c)
    /\ UNCHANGED <<secret, verified, tries, clock, made, faults>>

MarkTOTPVerified(h) ==
    /\ At(h, "mark")
    /\ verified' = verified \cup {call[h].session}
    /\ log' = [log EXCEPT !.told = @ \cup {call[h].session}]
    /\ End(h)
    /\ UNCHANGED <<secret, codes, tries, clock, made, faults>>

-----------------------------------------------------------------------------
(* The gate. *)

\* The interceptor loads the session of a request.
Request(h) ==
    /\ \E s \in Sessions :
          Begin(h, [Idle EXCEPT !.op = "request", !.step = "gate", !.session = s,
                                !.left = IF s \in verified THEN 1 ELSE 0])
    /\ UNCHANGED <<secret, codes, verified, tries, clock, made, faults, log>>

\* Mutant: the session's flag is not looked at.
GateIgnoresFlag(h) == TRUE

\* validateSessionChecks: an enabled factor asks for a verified session.
GatePasses(h) == Enabled => call[h].left = 1

\* The row is read; the request goes on to its handler or is refused.
Gate(h) ==
    /\ At(h, "gate")
    /\ End(h)
    /\ UNCHANGED <<secret, codes, verified, tries, clock, made, faults, log>>

-----------------------------------------------------------------------------
\* A store call fails, or the call is cut off: what it has done stays.
StoreFails(h) ==
    /\ ~At(h, "idle") /\ Fault /\ End(h)
    /\ UNCHANGED <<secret, codes, verified, tries, clock, made, log>>

\* The next time step.
Tick ==
    /\ clock < MaxStep
    /\ clock' = clock + 1
    /\ UNCHANGED <<secret, codes, verified, call, tries, made, faults, log>>

\* The attempts so far fall out of the window.
WindowPasses ==
    /\ tries > 0
    /\ tries' = 0
    /\ log' = [log EXCEPT !.admitted = 0]
    /\ UNCHANGED <<secret, codes, verified, call, clock, made, faults>>

Serve(h) == \/ BeginEnrollTOTP(h) \/ Upsert(h) \/ DeleteAllForUser(h) \/ CreateBatch(h)
            \/ RegenerateBackupCodes(h) \/ DisableTOTP(h) \/ Delete(h)
            \/ ConfirmEnrollTOTP(h) \/ VerifyTOTP(h) \/ ReadToConfirm(h) \/ ReadToVerify(h)
            \/ ConsumeCounter(h) \/ Enable(h) \/ GetUnused(h) \/ MarkUsed(h)
            \/ MarkTOTPVerified(h) \/ Request(h) \/ Gate(h) \/ StoreFails(h)

Next == (\E h \in Handlers : Serve(h)) \/ Tick \/ WindowPasses

Spec == Init /\ [][Next]_vars

-----------------------------------------------------------------------------
(* Properties. *)

\* ConsumeCounter's guard makes a code single-use while its enrolment lasts:
\* no time step is accepted twice for one row, whichever calls overlap.
StepOnce == \A n \in TimeSteps : log.used[n] <= 1

\* A backup code is accepted a second time only by a verification that had
\* looked it up before the first one marked it.
BackupOnce == \A c \in Codes : log.spent[c] <= 1

\* A code is accepted once: of an authenticator always, of the backup codes
\* unless two verifications race for it.
CodesOnce == StepOnce /\ BackupOnce

\* While the factor is enabled no request gets past the gate in a session in
\* which VerifyTOTP never accepted a code.
GateNeedsCode ==
    \A h \in Handlers : At(h, "gate") /\ Enabled /\ GatePasses(h) => call[h].session \in log.proved

\* A session VerifyTOTP reported as verified is verified in the store, so the
\* client is not asked again for ever.
AnsweredVerified == log.told \subseteq verified

\* The limiter fails closed: at most Limit codes are compared in one window.
AttemptsBounded == log.admitted <= Limit

\* The factor is enabled with a secret whose code the user has shown, unless the
\* row was replaced under the very call that confirmed it.
EnabledIsConfirmed == Enabled => secret.confirmed \/ secret.overtaken

\* An enabled factor goes away only with DisableTOTP, or with an enrolment that
\* found it off, or could not read it, before it was enabled.
FactorKept ==
    [][Enabled /\ ~Enabled' =>
          \E h \in Handlers : At(h, "delete") \/ (At(h, "upsert") /\ call[h].stale)]_vars

\* Not kept.  totp.go:102: "Re-enrolment on an account that already has TOTP
\* enabled is refused outright".  BeginEnrollTOTP reads the row before it writes it
\* and takes a failed read for a factor that is off.
EnrolmentRefused ==
    [][Enabled => ~\E h \in Handlers : At(h, "upsert") /\ call'[h].step = "clear"]_vars

\* Not kept: the factor is only ever enabled with a secret the user confirmed.
\* An enrolment that begins during a confirmation replaces the secret under it,
\* and Enable (totp.go:201-207) enables whatever secret is there.
EnabledWasConfirmed == Enabled => secret.confirmed

\* Not kept.  totp.go:250: "A backup code is also single-use, and the marking is
\* checked".  Two verifications that both found the code unused both mark it and
\* are both accepted.
BackupCodeSingleUse ==
    [][\A h \in Handlers :
          At(h, "spend") /\ call'[h].step = "mark" => codes[call[h].code] # "used"]_vars
=============================================================================
