------------------------- MODULE SecondFactorProofs -------------------------
(***************************************************************************)
(* Theorems about SecondFactor, for any number of handlers and sessions,   *)
(* any attempt limit, any number of secrets, backup codes and faults.      *)
(*                                                                         *)
(* None of the invariants is inductive: a call decides in one step and     *)
(* acts in another.  Keeps says of each call what still holds of the store *)
(* when the call has not been overtaken, and Ledger how the accepted codes *)
(* relate to the rows.                                                     *)
(***************************************************************************)
EXTENDS SecondFactor, TLAPS

USE Zenon

\* What the fields of a call are at its steps.
Shape(c) ==
    /\ c.step \in {"attempt", "consume", "backup"} =>
          (c.secret \in Secrets /\ c.code \in TimeSteps) \/ (c.secret = None /\ c.code \in 1..made.codes)
    /\ c.step = "consume" => c.secret \in Secrets
    /\ c.step = "spend" => c.code \in 1..made.codes
    /\ c.step \in {"attempt", "consume"} =>
          (c.op = "verify" /\ c.session \in Sessions) \/ (c.op = "confirm" /\ c.session = None)
    /\ c.step \in {"backup", "spend", "mark", "gate"} => c.session \in Sessions
    /\ c.step = "enable" => c.op = "confirm"
    /\ c.step = "insert" => c.left # 0

\* A call that has looked up a backup code is the only one to accept it.
Spends(c) == c.step = "spend" /\ ~c.stale => log.spent[c.code] = 0

\* A call marks its session, or has seen it marked, after a code was accepted.
Proves(c) == c.step = "mark" \/ (c.step = "gate" /\ c.left = 1) => c.session \in log.proved

\* A call that confirms has checked the code with the secret of the row.
Confirms(c) ==
    c.op = "confirm" /\ c.step \in {"consume", "enable"} /\ ~c.stale /\ secret # None =>
        secret.secret = c.secret

\* A call that enrols has found the factor off.
Enrols(c) == c.step = "upsert" /\ ~c.stale => ~Enabled

Keeps(c) == Shape(c) /\ Spends(c) /\ Proves(c) /\ Confirms(c) /\ Enrols(c)

\* The time steps accepted are at most the high-water mark of the row, and a
\* backup code that was accepted is not unused.
Steps1 ==
    \A n \in TimeSteps :
        /\ log.used[n] <= 1
        /\ log.used[n] # 0 /\ secret # None => secret.last # None /\ n <= secret.last

Spent1 ==
    \A c \in Codes :
        /\ log.spent[c] <= 1
        /\ log.spent[c] # 0 => codes[c] # "unused" /\ c <= made.codes

Ledger ==
    /\ Steps1
    /\ Spent1
    /\ verified \subseteq log.proved
    /\ log.told \subseteq verified
    /\ log.admitted <= tries /\ tries <= Limit
    /\ EnabledIsConfirmed

Inv == TypeOK /\ Ledger /\ \A h \in Handlers : Keeps(call[h])


-----------------------------------------------------------------------------
(* The constants and the records. *)

LEMMA Constants ==
    /\ MaxSecrets \in Nat /\ MaxCodes \in Nat /\ MaxStep \in Nat /\ Limit \in Nat /\ MaxFaults \in Nat
    /\ BatchSize \in Nat /\ BatchSize # 0
    /\ None \notin Sessions /\ None \notin Nat /\ None \notin Row
    /\ None \notin Secrets /\ None \notin TimeSteps /\ None \notin Codes
  <1>1. None \notin Sessions /\ None \notin Nat /\ None \notin Row
    BY SecondFactorAssumption
  <1>2. Secrets \subseteq Nat /\ TimeSteps \subseteq Nat /\ Codes \subseteq Nat
    BY SecondFactorAssumption, SMT DEF Secrets, TimeSteps, Codes
  <1>3. BatchSize \in Nat /\ BatchSize # 0
    BY SecondFactorAssumption
  <1>4. MaxSecrets \in Nat /\ MaxCodes \in Nat /\ MaxStep \in Nat /\ Limit \in Nat /\ MaxFaults \in Nat
    BY SecondFactorAssumption
  <1> QED
    BY <1>1, <1>2, <1>3, <1>4

LEMMA IdleCall == Idle \in Call /\ Idle.step = "idle"
  <1>1. 0 \in 0..BatchSize
    BY Constants, SMT
  <1> QED
    BY <1>1 DEF Idle, Call, Steps

\* The fields of a call, and what updating them leaves.
LEMMA CallFields ==
    ASSUME NEW c \in Call
    PROVE  /\ c.op \in {"none", "enroll", "confirm", "verify", "disable", "regenerate", "request"}
           /\ c.step \in Steps /\ c.session \in Sessions \cup {None}
           /\ c.secret \in Secrets \cup {None} /\ c.code \in Nat \cup {None}
           /\ c.left \in 0..BatchSize /\ c.stale \in BOOLEAN
  BY DEF Call

LEMMA StepNames == \A s \in {"clear", "consume", "backup", "spend", "mark"} : s \in Steps
  BY DEF Steps

LEMMA StepUpdate ==
    ASSUME NEW c \in Call, NEW s \in Steps, NEW d, d = [c EXCEPT !.step = s]
    PROVE  /\ d \in Call
           /\ d.step = s /\ d.op = c.op /\ d.session = c.session /\ d.secret = c.secret
           /\ d.code = c.code /\ d.left = c.left /\ d.stale = c.stale
  BY DEF Call

LEMMA StaleUpdate ==
    ASSUME NEW c \in Call, NEW d, d = [c EXCEPT !.stale = TRUE]
    PROVE  /\ d \in Call
           /\ d.step = c.step /\ d.op = c.op /\ d.session = c.session /\ d.secret = c.secret
           /\ d.code = c.code /\ d.left = c.left /\ d.stale = TRUE
  BY DEF Call

LEMMA RowFields ==
    ASSUME NEW r \in Row
    PROVE  /\ r.secret \in Secrets /\ r.enabled \in BOOLEAN /\ r.last \in TimeSteps \cup {None}
           /\ r.confirmed \in BOOLEAN /\ r.overtaken \in BOOLEAN
  BY DEF Row

LEMMA LogFields ==
    ASSUME NEW l \in Log
    PROVE  /\ l.admitted \in Nat /\ l.used \in [TimeSteps -> Nat] /\ l.spent \in [Codes -> Nat]
           /\ l.proved \in SUBSET Sessions /\ l.told \in SUBSET Sessions
  BY DEF Log

-----------------------------------------------------------------------------

LEMMA InitInv == Init => Inv
  <1> SUFFICES ASSUME Init PROVE Inv
    OBVIOUS
  <1>1. /\ 0 \in Nat /\ 0 \in 0..MaxStep /\ 0 \in 0..MaxFaults /\ 0 \in 0..MaxSecrets
        /\ 0 \in 0..MaxCodes /\ 0 <= Limit /\ 0 <= 0 /\ 0 <= 1
    BY Constants, SMT
  <1>2. log \in Log
    BY <1>1 DEF Init, Log
  <1>3. /\ log.used = [n \in TimeSteps |-> 0] /\ log.spent = [c \in Codes |-> 0]
        /\ log.proved = {} /\ log.told = {} /\ log.admitted = 0
    BY DEF Init
  <1>4. made \in [secrets: 0..MaxSecrets, codes: 0..MaxCodes]
    BY <1>1 DEF Init
  <1>5. TypeOK
    BY <1>1, <1>2, <1>4, IdleCall DEF Init, TypeOK
  <1>6. Ledger
    BY <1>1, <1>3 DEF Init, Ledger, Steps1, Spent1, EnabledIsConfirmed, Enabled
  <1>7. \A h \in Handlers : call[h] = Idle
    BY DEF Init
  <1>8. Keeps(Idle)
    BY IdleCall DEF Keeps, Shape, Spends, Proves, Confirms, Enrols
  <1> QED
    BY <1>5, <1>6, <1>7, <1>8 DEF Inv

-----------------------------------------------------------------------------
(* The steps that only move a call on. *)

LEMMA IdleKeeps == Keeps(Idle)
  BY IdleCall DEF Keeps, Shape, Spends, Proves, Confirms, Enrols

LEMMA FaultType ==
    ASSUME TypeOK, Fault \/ UNCHANGED faults PROVE faults' \in 0..MaxFaults
  <1>1. CASE Fault
    BY <1>1, Constants, SMT DEF TypeOK, Fault
  <1>2. CASE UNCHANGED faults
    BY <1>2 DEF TypeOK
  <1> QED
    BY <1>1, <1>2

LEMMA QuietInv ==
    ASSUME Inv, NEW h \in Handlers, NEW d \in Call, Keeps(d),
           call' = [call EXCEPT ![h] = d],
           UNCHANGED <<secret, codes, verified, tries, clock, made, log>>,
           Fault \/ UNCHANGED faults
    PROVE  Inv'
  <1>1. faults' \in 0..MaxFaults
    BY FaultType DEF Inv
  <1>2. call' \in [Handlers -> Call]
    BY DEF Inv, TypeOK
  <1>3. TypeOK'
    BY <1>1, <1>2 DEF Inv, TypeOK
  <1>4. Ledger'
    BY DEF Inv, Ledger, Steps1, Spent1, EnabledIsConfirmed, Enabled
  <1>5. ASSUME NEW g \in Handlers PROVE Keeps(call[g])'
    <2>1. call'[g] = d \/ call'[g] = call[g]
      BY DEF Inv, TypeOK
    <2>2. Keeps(call'[g])
      BY <2>1 DEF Inv
    <2> QED
      BY <2>2 DEF Keeps, Shape, Spends, Proves, Confirms, Enrols, Enabled
  <1> QED
    BY <1>3, <1>4, <1>5 DEF Inv

LEMMA EndInv ==
    ASSUME Inv, NEW h \in Handlers, End(h), Fault \/ UNCHANGED faults,
           UNCHANGED <<secret, codes, verified, tries, clock, made, log>>
    PROVE  Inv'
  BY QuietInv, IdleKeeps, IdleCall DEF End

LEMMA GotoInv ==
    ASSUME Inv, NEW h \in Handlers, NEW s \in Steps, Goto(h, s), UNCHANGED faults,
           Keeps([call[h] EXCEPT !.step = s]),
           UNCHANGED <<secret, codes, verified, tries, clock, made, log>>
    PROVE  Inv'
  <1>1. call[h] \in Call
    BY DEF Inv, TypeOK
  <1>2. [call[h] EXCEPT !.step = s] \in Call
    BY <1>1, StepUpdate
  <1>3. call' = [call EXCEPT ![h] = [call[h] EXCEPT !.step = s]]
    BY DEF Goto
  <1> QED
    BY <1>2, <1>3, QuietInv

LEMMA BeginEnrollInv == ASSUME Inv, NEW h \in Handlers, BeginEnrollTOTP(h) PROVE Inv'
  <1>1. ASSUME NEW d \in Call, d.op = "enroll", d.step = "upsert", d.stale \/ ~Enabled,
               call' = [call EXCEPT ![h] = d], Fault \/ UNCHANGED faults
        PROVE  Inv'
    <2>1. Keeps(d)
      BY <1>1 DEF Keeps, Shape, Spends, Proves, Confirms, Enrols
    <2> QED
      BY <1>1, <2>1, QuietInv DEF BeginEnrollTOTP
  <1>2. CASE ~Enabled /\ UNCHANGED faults /\ Begin(h, [Idle EXCEPT !.op = "enroll", !.step = "upsert"])
    <2>1. PICK d : d = [Idle EXCEPT !.op = "enroll", !.step = "upsert"]
      OBVIOUS
    <2>2. d \in Call /\ d.op = "enroll" /\ d.step = "upsert"
      BY <2>1, IdleCall DEF Call, Steps
    <2> QED
      BY <1>1, <1>2, <2>1, <2>2 DEF Begin
  <1>3. CASE Fault /\ Begin(h, [Idle EXCEPT !.op = "enroll", !.step = "upsert", !.stale = TRUE])
    <2>1. PICK d : d = [Idle EXCEPT !.op = "enroll", !.step = "upsert", !.stale = TRUE]
      OBVIOUS
    <2>2. d \in Call /\ d.op = "enroll" /\ d.step = "upsert" /\ d.stale
      BY <2>1, IdleCall DEF Call, Steps
    <2> QED
      BY <1>1, <1>3, <2>1, <2>2 DEF Begin
  <1> QED
    BY <1>2, <1>3 DEF BeginEnrollTOTP

\* RegenerateBackupCodes and DisableTOTP begin at steps nothing is said about.
LEMMA BeginPlainInv ==
    ASSUME Inv, NEW h \in Handlers, RegenerateBackupCodes(h) \/ DisableTOTP(h) PROVE Inv'
  <1>1. PICK d : /\ \/ d = [Idle EXCEPT !.op = "regenerate", !.step = "clear"]
                    \/ d = [Idle EXCEPT !.op = "disable", !.step = "delete"]
                 /\ call' = [call EXCEPT ![h] = d]
    BY DEF RegenerateBackupCodes, DisableTOTP, Begin
  <1>2. d \in Call /\ d.step \in {"clear", "delete"} /\ d.op \in {"regenerate", "disable"}
    BY <1>1, IdleCall DEF Call, Steps
  <1>3. Keeps(d)
    BY <1>2 DEF Keeps, Shape, Spends, Proves, Confirms, Enrols
  <1>4. UNCHANGED <<secret, codes, verified, tries, clock, made, log, faults>>
    BY DEF RegenerateBackupCodes, DisableTOTP
  <1> QED
    BY <1>1, <1>2, <1>3, <1>4, QuietInv

LEMMA RequestInv == ASSUME Inv, NEW h \in Handlers, Request(h) PROVE Inv'
  <1>1. PICK s \in Sessions :
           call' = [call EXCEPT ![h] =
                      [Idle EXCEPT !.op = "request", !.step = "gate", !.session = s,
                                   !.left = IF s \in verified THEN 1 ELSE 0]]
    BY DEF Request, Begin
  <1> DEFINE n == IF s \in verified THEN 1 ELSE 0
             d == [Idle EXCEPT !.op = "request", !.step = "gate", !.session = s, !.left = n]
  <1>2. n \in 0..BatchSize /\ (n = 1 => s \in verified)
    BY Constants, SMT
  <1> HIDE DEF n
  <1>3. d \in Call /\ d.step = "gate" /\ d.op = "request" /\ d.session = s /\ d.left = n
    BY <1>2, IdleCall DEF Call, Steps
  <1>4. call' = [call EXCEPT ![h] = d]
    BY <1>1 DEF n
  <1> HIDE DEF d
  <1>5. Keeps(d)
    BY <1>2, <1>3 DEF Keeps, Shape, Spends, Proves, Confirms, Enrols, Inv, Ledger
  <1> QED
    BY <1>3, <1>4, <1>5, QuietInv DEF Request

LEMMA EndsInv == ASSUME Inv, NEW h \in Handlers, Gate(h) \/ StoreFails(h) PROVE Inv'
  BY EndInv DEF Gate, StoreFails

\* A code that was compared is of the secret of the row.
LEMMA ReadInv == ASSUME Inv, NEW h \in Handlers, ReadToConfirm(h) \/ ReadToVerify(h) PROVE Inv'
  <1>1. call[h] \in Call /\ call[h].step = "attempt" /\ Keeps(call[h])
    BY DEF ReadToConfirm, ReadToVerify, At, Inv, TypeOK
  <1>2. UNCHANGED <<secret, codes, verified, tries, clock, made, faults, log>>
    BY DEF ReadToConfirm, ReadToVerify
  <1>3. CASE End(h)
    BY <1>2, <1>3, EndInv
  <1>4. CASE Goto(h, "consume") /\ secret # None /\ ValidateCodeCounter(call[h])
    <2>1. PICK d : d = [call[h] EXCEPT !.step = "consume"]
      OBVIOUS
    <2>2. /\ d.step = "consume" /\ d.op = call[h].op /\ d.session = call[h].session
          /\ d.secret = call[h].secret /\ d.code = call[h].code
      BY <1>1, <2>1, StepNames DEF Call
    <2>3. secret.secret = d.secret /\ secret.secret \in Secrets
      BY <1>4, <2>2, RowFields DEF ValidateCodeCounter, Inv, TypeOK
    <2>4. Shape(d)
      BY <1>1, <2>2, <2>3, Constants DEF Keeps, Shape
    <2>5. Keeps(d)
      BY <2>2, <2>3, <2>4 DEF Keeps, Spends, Proves, Confirms, Enrols
    <2> QED
      BY <1>2, <1>4, <2>1, <2>5, GotoInv DEF Steps
  <1>5. CASE Goto(h, "backup") /\ call[h].op = "verify"
    <2>1. PICK d : d = [call[h] EXCEPT !.step = "backup"]
      OBVIOUS
    <2>2. /\ d.step = "backup" /\ d.op = call[h].op /\ d.session = call[h].session
          /\ d.secret = call[h].secret /\ d.code = call[h].code
      BY <1>1, <2>1, StepNames DEF Call
    <2>3. Shape(d)
      BY <1>1, <1>5, <2>2 DEF Keeps, Shape
    <2>4. Keeps(d)
      BY <2>2, <2>3 DEF Keeps, Spends, Proves, Confirms, Enrols
    <2> QED
      BY <1>2, <1>5, <2>1, <2>4, GotoInv DEF Steps
  <1> QED
    BY <1>3, <1>4, <1>5 DEF ReadToConfirm, ReadToVerify, Enabled

\* A backup code that is unused was not accepted.
LEMMA GetUnusedInv == ASSUME Inv, NEW h \in Handlers, GetUnused(h) PROVE Inv'
  <1>1. call[h] \in Call /\ call[h].step = "backup" /\ Keeps(call[h])
    BY DEF GetUnused, At, Inv, TypeOK
  <1>2. UNCHANGED <<secret, codes, verified, tries, clock, made, faults, log>>
    BY DEF GetUnused
  <1>3. CASE End(h)
    BY <1>2, <1>3, EndInv
  <1>4. CASE Goto(h, "spend") /\ call[h].secret = None /\ Unused(call[h].code)
    <2>1. PICK d : d = [call[h] EXCEPT !.step = "spend"]
      OBVIOUS
    <2>2. d.step = "spend" /\ d.session = call[h].session /\ d.code = call[h].code
      BY <1>1, <2>1, StepNames DEF Call
    <2>3. d.code \in 1..made.codes
      BY <1>1, <1>4, <2>2, Constants DEF Keeps, Shape
    <2>4. d.code \in Codes
      BY <2>3, Constants, SMT DEF Inv, TypeOK, Codes
    <2>5. log.spent[d.code] = 0
      BY <1>4, <2>2, <2>4 DEF Unused, Inv, Ledger, Spent1
    <2>6. Shape(d)
      BY <1>1, <2>2, <2>3 DEF Keeps, Shape
    <2>7. Keeps(d)
      BY <2>2, <2>5, <2>6 DEF Keeps, Spends, Proves, Confirms, Enrols
    <2> QED
      BY <1>2, <1>4, <2>1, <2>7, GotoInv DEF Steps
  <1> QED
    BY <1>3, <1>4 DEF GetUnused

-----------------------------------------------------------------------------
(* The attempt limiter and the clock. *)

\* Steps after which the log differs only in the attempts counted.
LEMMA CountedInv ==
    ASSUME Inv, NEW n \in Nat, NEW m \in Nat, n <= m, m <= Limit,
           log' = [log EXCEPT !.admitted = n], tries' = m,
           UNCHANGED <<secret, codes, verified, made, faults>>, clock' \in 0..MaxStep,
           call' \in [Handlers -> Call], \A g \in Handlers : Keeps(call'[g])
    PROVE  Inv'
  <1>1. log \in Log
    BY DEF Inv, TypeOK
  <1>2. /\ log' \in Log /\ log'.admitted = n /\ log'.used = log.used /\ log'.spent = log.spent
        /\ log'.proved = log.proved /\ log'.told = log.told
    BY <1>1 DEF Log
  <1>3. TypeOK'
    BY <1>2 DEF Inv, TypeOK
  <1>4. Ledger'
    BY <1>2 DEF Inv, Ledger, Steps1, Spent1, EnabledIsConfirmed, Enabled
  <1>5. \A g \in Handlers : Keeps(call[g])'
    BY <1>2 DEF Keeps, Shape, Spends, Proves, Confirms, Enrols, Enabled
  <1> QED
    BY <1>3, <1>4, <1>5 DEF Inv

LEMMA CheckAttemptInv ==
    ASSUME Inv, NEW h \in Handlers, NEW op, NEW s, CheckAttempt(h, op, s),
           (op = "confirm" /\ s = None) \/ (op = "verify" /\ s \in Sessions)
    PROVE  Inv'
  <1>1. PICK c \in Presented :
           call' = [call EXCEPT ![h] =
                      [Idle EXCEPT !.op = op, !.step = "attempt", !.session = s,
                                   !.secret = c.secret, !.code = c.code]]
    BY DEF CheckAttempt, BeginAttempt, Begin
  <1>2. \/ c.secret \in 1..made.secrets /\ c.code \in 0..clock + 1
        \/ c.secret = None /\ c.code \in 1..made.codes
    BY DEF Presented
  <1>3. /\ 1..made.secrets \subseteq Secrets /\ 0..clock + 1 \subseteq TimeSteps
        /\ 0..clock + 1 \subseteq Nat /\ 1..made.codes \subseteq Nat
    BY Constants, SMT DEF Inv, TypeOK, Secrets, TimeSteps
  <1> DEFINE d == [Idle EXCEPT !.op = op, !.step = "attempt", !.session = s,
                               !.secret = c.secret, !.code = c.code]
  <1>4. /\ d \in Call /\ d.step = "attempt" /\ d.op = op /\ d.session = s
        /\ d.secret = c.secret /\ d.code = c.code
    BY <1>2, <1>3, IdleCall DEF Call, Steps
  <1>5. call' = [call EXCEPT ![h] = d]
    BY <1>1
  <1> HIDE DEF d
  <1>6. Shape(d)
    BY <1>2, <1>3, <1>4 DEF Shape
  <1>7. Keeps(d)
    BY <1>4, <1>6 DEF Keeps, Spends, Proves, Confirms, Enrols
  <1>8. call' \in [Handlers -> Call] /\ \A g \in Handlers : Keeps(call'[g])
    BY <1>4, <1>5, <1>7 DEF Inv, TypeOK
  <1>9. /\ log.admitted + 1 \in Nat /\ tries + 1 \in Nat /\ log.admitted + 1 <= tries + 1
        /\ tries + 1 <= Limit
    BY Constants, LogFields, SMT DEF Inv, TypeOK, Ledger, CheckAttempt
  <1> QED
    BY <1>8, <1>9, CountedInv DEF CheckAttempt, Inv, TypeOK

LEMMA AttemptInv == ASSUME Inv, NEW h \in Handlers, ConfirmEnrollTOTP(h) \/ VerifyTOTP(h) PROVE Inv'
  BY CheckAttemptInv DEF ConfirmEnrollTOTP, VerifyTOTP

LEMMA WindowInv == ASSUME Inv, WindowPasses PROVE Inv'
  <1>1. 0 \in Nat /\ 0 <= 0 /\ 0 <= Limit
    BY Constants, SMT
  <1> QED
    BY <1>1, CountedInv DEF WindowPasses, Inv, TypeOK

LEMMA TickInv == ASSUME Inv, Tick PROVE Inv'
  <1>1. clock' \in 0..MaxStep
    BY Constants, SMT DEF Tick, Inv, TypeOK
  <1>2. TypeOK'
    BY <1>1 DEF Tick, Inv, TypeOK
  <1>3. Ledger'
    BY DEF Tick, Inv, Ledger, Steps1, Spent1, EnabledIsConfirmed, Enabled
  <1>4. \A g \in Handlers : Keeps(call[g])'
    BY DEF Tick, Inv, Keeps, Shape, Spends, Proves, Confirms, Enrols, Enabled
  <1> QED
    BY <1>2, <1>3, <1>4 DEF Inv

-----------------------------------------------------------------------------
(* Steps that overtake other calls. *)

\* Call h has gone on to step s, the others in S are overtaken.
Overtook(h, s, S) ==
    /\ call' \in [Handlers -> Call]
    /\ call'[h] = [call[h] EXCEPT !.step = s]
    /\ \A g \in Handlers \ {h} :
          /\ g \in S => call'[g] = [call[g] EXCEPT !.stale = TRUE]
          /\ g \notin S => call'[g] = call[g]

\* A function whose values are those of Overtake is one of calls.
LEMMA OvertookCalls ==
    ASSUME TypeOK, NEW h \in Handlers, NEW s \in Steps, NEW S,
           call' = [g \in Handlers |-> CASE g = h -> [call[g] EXCEPT !.step = s]
                                         [] g # h /\ g \in S -> [call[g] EXCEPT !.stale = TRUE]
                                         [] OTHER -> call[g]]
    PROVE  Overtook(h, s, S)
  <1>1. call'[h] = [call[h] EXCEPT !.step = s]
    BY SMT
  <1>2. ASSUME NEW g \in Handlers, g # h
        PROVE  /\ g \in S => call'[g] = [call[g] EXCEPT !.stale = TRUE]
               /\ g \notin S => call'[g] = call[g]
    BY <1>2, SMT
  <1>3. ASSUME NEW g \in Handlers PROVE call'[g] \in Call
    <2>1. call[g] \in Call
      BY DEF TypeOK
    <2> QED
      BY <1>1, <1>2, <2>1, StepUpdate, StaleUpdate
  <1>4. call' \in [Handlers -> Call]
    BY <1>3
  <1> QED
    BY <1>1, <1>2, <1>4 DEF Overtook

\* Being overtaken only weakens what is said of a call.
LEMMA StaleKeeps ==
    ASSUME NEW c \in Call, Keeps(c), NEW d, d = [c EXCEPT !.stale = TRUE]
    PROVE  d \in Call /\ Keeps(d)
  <1>1. /\ d \in Call
        /\ d.step = c.step /\ d.op = c.op /\ d.session = c.session /\ d.secret = c.secret
        /\ d.code = c.code /\ d.left = c.left /\ d.stale = TRUE
    BY StaleUpdate
  <1> QED
    BY <1>1 DEF Keeps, Shape, Spends, Proves, Confirms, Enrols

LEMMA OthersKeep ==
    ASSUME Inv, NEW h \in Handlers, NEW s, NEW S, Overtook(h, s, S), NEW g \in Handlers \ {h}
    PROVE  /\ call'[g] \in Call /\ Keeps(call'[g])
           /\ call'[g].step = call[g].step /\ call'[g].op = call[g].op
           /\ call'[g].code = call[g].code
           /\ g \in S => call'[g].stale = TRUE
  <1>1. call[g] \in Call /\ Keeps(call[g])
    BY DEF Inv, TypeOK
  <1>2. CASE g \in S
    BY <1>1, <1>2, StaleKeeps, StaleUpdate DEF Overtook
  <1>3. CASE g \notin S
    BY <1>1, <1>3 DEF Overtook
  <1> QED
    BY <1>2, <1>3

LEMMA ConfirmingOvertaken ==
    ASSUME TypeOK, NEW h \in Handlers, call' = Overtake(h, "clear", Confirming)
    PROVE  Overtook(h, "clear", {g \in Handlers : Confirming(g)})
  <1> DEFINE S == {g \in Handlers : Confirming(g)}
  <1>1. \A g \in Handlers : Confirming(g) <=> g \in S
    OBVIOUS
  <1>2. call' = [g \in Handlers |-> CASE g = h -> [call[g] EXCEPT !.step = "clear"]
                                      [] g # h /\ g \in S -> [call[g] EXCEPT !.stale = TRUE]
                                      [] OTHER -> call[g]]
    <2> HIDE DEF S
    <2> QED BY <1>1, SMT DEF Overtake
  <1> HIDE DEF S
  <1>3. Overtook(h, "clear", S)
    BY <1>2, OvertookCalls DEF Steps
  <1> QED
    BY <1>3 DEF S

\* After the row was replaced or deleted, no call that is not overtaken has
\* compared a code with it.
LEMMA RowReplaced ==
    ASSUME Inv, NEW h \in Handlers, call[h].step \in {"upsert", "delete"},
           call' = Overtake(h, "clear", Confirming), NEW g \in Handlers
    PROVE  /\ call'[g] \in Call /\ Keeps(call'[g])
           /\ call'[g].op = "confirm" /\ call'[g].step \in {"consume", "enable"} => call'[g].stale
  <1> DEFINE S == {k \in Handlers : Confirming(k)}
  <1>1. Overtook(h, "clear", S)
    BY ConfirmingOvertaken DEF Inv
  <1>2. CASE g = h
    <2>1. call[h] \in Call
      BY DEF Inv, TypeOK
    <2>2. call'[h] \in Call /\ call'[h].step = "clear"
      BY <1>1, <2>1, StepNames DEF Overtook, Call
    <2> QED
      BY <1>2, <2>2 DEF Keeps, Shape, Spends, Proves, Confirms, Enrols
  <1>3. CASE g # h
    <2> HIDE DEF S
    <2>1. /\ call'[g] \in Call /\ Keeps(call'[g])
          /\ call'[g].step = call[g].step /\ call'[g].op = call[g].op
          /\ g \in S => call'[g].stale = TRUE
      BY <1>1, <1>3, OthersKeep
    <2>2. call[g].op = "confirm" /\ call[g].step \in {"consume", "enable"} => g \in S
      BY DEF S, Confirming, At
    <2> QED
      BY <2>1, <2>2
  <1> QED
    BY <1>2, <1>3

LEMMA UpsertInv == ASSUME Inv, NEW h \in Handlers, Upsert(h) PROVE Inv'
  <1>1. /\ call[h].step = "upsert"
        /\ made' = [made EXCEPT !.secrets = made.secrets + 1]
        /\ secret' = [secret |-> made.secrets + 1, enabled |-> FALSE, last |-> None,
                      confirmed |-> FALSE, overtaken |-> FALSE]
        /\ call' = Overtake(h, "clear", Confirming)
        /\ log' = [log EXCEPT !.used = [n \in TimeSteps |-> 0]]
        /\ UNCHANGED <<codes, verified, tries, clock, faults>>
    BY DEF Upsert, At
  <1>2. /\ made' \in [secrets: 0..MaxSecrets, codes: 0..MaxCodes] /\ made'.codes = made.codes
        /\ made.secrets + 1 \in Secrets
    BY <1>1, Constants, SMT DEF Upsert, Inv, TypeOK, Secrets
  <1>3. secret' \in Row /\ ~secret'.enabled
    BY <1>1, <1>2 DEF Row
  <1>4. 0 \in Nat /\ 0 <= 1
    BY SMT
  <1>5. /\ log' \in Log /\ log'.used = [n \in TimeSteps |-> 0] /\ log'.spent = log.spent
        /\ log'.proved = log.proved /\ log'.told = log.told /\ log'.admitted = log.admitted
    BY <1>1, <1>4 DEF Inv, TypeOK, Log
  <1>6. ASSUME NEW g \in Handlers
        PROVE  /\ call'[g] \in Call /\ Keeps(call'[g])
               /\ call'[g].op = "confirm" /\ call'[g].step \in {"consume", "enable"} => call'[g].stale
    BY <1>1, RowReplaced
  <1>7. call' \in [Handlers -> Call]
    BY <1>1, <1>6 DEF Overtake
  <1>8. TypeOK'
    BY <1>1, <1>2, <1>3, <1>5, <1>7 DEF Inv, TypeOK
  <1>9. Ledger'
    <2>1. Steps1'
      BY <1>4, <1>5 DEF Steps1
    <2>2. Spent1'
      BY <1>1, <1>2, <1>5 DEF Inv, Ledger, Spent1
    <2>3. EnabledIsConfirmed'
      BY <1>3 DEF EnabledIsConfirmed, Enabled
    <2> QED
      BY <1>1, <1>5, <2>1, <2>2, <2>3 DEF Inv, Ledger
  <1>10. ASSUME NEW g \in Handlers PROVE Keeps(call[g])'
    <2>1. Shape(call[g])'
      BY <1>2, <1>6 DEF Keeps, Shape
    <2>2. Spends(call[g])' /\ Proves(call[g])'
      BY <1>5, <1>6 DEF Keeps, Spends, Proves
    <2>3. Confirms(call[g])' /\ Enrols(call[g])'
      BY <1>3, <1>6 DEF Keeps, Confirms, Enrols, Enabled
    <2> QED
      BY <2>1, <2>2, <2>3 DEF Keeps
  <1> QED
    BY <1>8, <1>9, <1>10 DEF Inv

LEMMA DeleteInv == ASSUME Inv, NEW h \in Handlers, Delete(h) PROVE Inv'
  <1>1. /\ call[h].step = "delete" /\ secret' = None
        /\ call' = Overtake(h, "clear", Confirming)
        /\ UNCHANGED <<codes, verified, tries, clock, made, faults, log>>
    BY DEF Delete, At
  <1>2. ASSUME NEW g \in Handlers
        PROVE  call'[g] \in Call /\ Keeps(call'[g])
    BY <1>1, RowReplaced
  <1>3. call' \in [Handlers -> Call]
    BY <1>1, <1>2 DEF Overtake
  <1>4. TypeOK'
    BY <1>1, <1>3 DEF Inv, TypeOK
  <1>5. Ledger'
    BY <1>1 DEF Inv, Ledger, Steps1, Spent1, EnabledIsConfirmed, Enabled
  <1>6. ASSUME NEW g \in Handlers PROVE Keeps(call[g])'
    BY <1>1, <1>2 DEF Keeps, Shape, Spends, Proves, Confirms, Enrols, Enabled
  <1> QED
    BY <1>4, <1>5, <1>6 DEF Inv

-----------------------------------------------------------------------------
(* The batches of backup codes. *)

LEMMA DeleteAllInv == ASSUME Inv, NEW h \in Handlers, DeleteAllForUser(h) PROVE Inv'
  <1>1. /\ codes' = [c \in Codes |-> "none"]
        /\ log' = [log EXCEPT !.spent = [c \in Codes |-> 0]]
        /\ UNCHANGED <<secret, verified, tries, clock, made, faults>>
    BY DEF DeleteAllForUser
  <1>2. 0 \in Nat /\ 0 <= 1 /\ BatchSize \in 0..BatchSize
    BY Constants, SMT
  <1>3. call[h] \in Call
    BY DEF Inv, TypeOK
  <1>4. PICK d \in Call : /\ call' = [call EXCEPT ![h] = d]
                          /\ d = Idle \/ (d.step = "insert" /\ d.left = BatchSize)
    <2>1. CASE call' = [call EXCEPT ![h] = Idle]
      BY <2>1, IdleCall
    <2>2. CASE call' = [call EXCEPT ![h] = [call[h] EXCEPT !.step = "insert", !.left = BatchSize]]
      <3>1. PICK d : d = [call[h] EXCEPT !.step = "insert", !.left = BatchSize]
        OBVIOUS
      <3>2. d \in Call /\ d.step = "insert" /\ d.left = BatchSize
        BY <1>2, <1>3, <3>1 DEF Call, Steps
      <3> QED
        BY <2>2, <3>1, <3>2
    <2> QED
      BY <2>1, <2>2 DEF DeleteAllForUser, End
  <1>5. Keeps(d)
    <2>1. CASE d = Idle
      BY <2>1, IdleKeeps
    <2>2. CASE d.step = "insert" /\ d.left = BatchSize
      BY <2>2, Constants DEF Keeps, Shape, Spends, Proves, Confirms, Enrols
    <2> QED
      BY <1>4, <2>1, <2>2
  <1>6. call' \in [Handlers -> Call] /\ \A g \in Handlers : Keeps(call'[g])
    BY <1>4, <1>5 DEF Inv, TypeOK
  <1>7. /\ log' \in Log /\ log'.used = log.used /\ log'.spent = [c \in Codes |-> 0]
        /\ log'.proved = log.proved /\ log'.told = log.told /\ log'.admitted = log.admitted
    BY <1>1, <1>2 DEF Inv, TypeOK, Log
  <1>8. TypeOK'
    BY <1>1, <1>6, <1>7 DEF Inv, TypeOK
  <1>9. Ledger'
    <2>1. Steps1' /\ EnabledIsConfirmed'
      BY <1>1, <1>7 DEF Inv, Ledger, Steps1, EnabledIsConfirmed, Enabled
    <2>2. Spent1'
      BY <1>2, <1>7 DEF Spent1
    <2> QED
      BY <1>1, <1>7, <2>1, <2>2 DEF Inv, Ledger
  <1>10. ASSUME NEW g \in Handlers PROVE Keeps(call[g])'
    <2>1. Shape(call[g])'
      BY <1>1, <1>6 DEF Keeps, Shape
    <2>2. Spends(call[g])'
      <3> SUFFICES ASSUME call'[g].step = "spend" PROVE log'.spent[call'[g].code] = 0
        BY DEF Spends
      <3>1. call'[g].code \in Codes
        BY <1>6, Constants, SMT DEF Keeps, Shape, Codes, Inv, TypeOK
      <3> QED
        BY <1>7, <3>1
    <2>3. Proves(call[g])' /\ Confirms(call[g])' /\ Enrols(call[g])'
      BY <1>1, <1>6, <1>7 DEF Keeps, Proves, Confirms, Enrols, Enabled
    <2> QED
      BY <2>1, <2>2, <2>3 DEF Keeps
  <1> QED
    BY <1>8, <1>9, <1>10 DEF Inv

\* The new code was never accepted: accepted ones have smaller numbers.
LEMMA CreateBatchInv == ASSUME Inv, NEW h \in Handlers, CreateBatch(h) PROVE Inv'
  <1> DEFINE n == made.codes + 1
  <1>1. /\ made' = [made EXCEPT !.codes = n]
        /\ codes' = [codes EXCEPT ![n] = "unused"]
        /\ UNCHANGED <<secret, verified, tries, clock, faults, log>>
    BY DEF CreateBatch
  <1>2. /\ made' \in [secrets: 0..MaxSecrets, codes: 0..MaxCodes] /\ made'.codes = n
        /\ n \in Codes /\ 1..made.codes \subseteq 1..n
        /\ \A c \in Codes : c <= made.codes => c # n /\ c <= n
    BY <1>1, Constants, SMT DEF CreateBatch, Inv, TypeOK, Codes
  <1> HIDE DEF n
  <1>3. call[h] \in Call /\ call[h].step = "insert" /\ call[h].left \in 0..BatchSize /\ call[h].left # 0
    BY CallFields DEF CreateBatch, At, Inv, TypeOK, Keeps, Shape
  <1>4. PICK d \in Call : call' = [call EXCEPT ![h] = d] /\ Keeps(d)
    <2>1. CASE call' = [call EXCEPT ![h] = Idle]
      BY <2>1, IdleCall, IdleKeeps
    <2>2. CASE call[h].left # 1 /\ call' = [call EXCEPT ![h].left = call[h].left - 1]
      <3>1. PICK k : k = call[h].left - 1
        OBVIOUS
      <3>2. k \in 0..BatchSize /\ k # 0
        BY <1>3, <2>2, <3>1, Constants, SMT
      <3>3. PICK d : d = [call[h] EXCEPT !.left = k]
        OBVIOUS
      <3>4. d \in Call /\ d.step = "insert" /\ d.left = k
        BY <1>3, <3>2, <3>3 DEF Call
      <3>5. Keeps(d)
        BY <3>2, <3>4 DEF Keeps, Shape, Spends, Proves, Confirms, Enrols
      <3>6. call' = [call EXCEPT ![h] = d]
        BY <2>2, <3>1, <3>3
      <3> QED
        BY <3>4, <3>5, <3>6
    <2> QED
      BY <2>1, <2>2 DEF CreateBatch, End
  <1>5. call' \in [Handlers -> Call] /\ \A g \in Handlers : Keeps(call'[g])
    BY <1>4 DEF Inv, TypeOK
  <1>6. TypeOK'
    BY <1>1, <1>2, <1>5 DEF Inv, TypeOK
  <1>7. Ledger'
    <2>1. Steps1' /\ EnabledIsConfirmed'
      BY <1>1 DEF Inv, Ledger, Steps1, EnabledIsConfirmed, Enabled
    <2>2. Spent1'
      BY <1>1, <1>2 DEF Inv, TypeOK, Ledger, Spent1
    <2> QED
      BY <1>1, <2>1, <2>2 DEF Inv, Ledger
  <1>8. ASSUME NEW g \in Handlers PROVE Keeps(call[g])'
    <2>1. Shape(call[g])'
      BY <1>2, <1>5 DEF Keeps, Shape
    <2>2. Spends(call[g])' /\ Proves(call[g])' /\ Confirms(call[g])' /\ Enrols(call[g])'
      BY <1>1, <1>5 DEF Keeps, Spends, Proves, Confirms, Enrols, Enabled
    <2> QED
      BY <2>1, <2>2 DEF Keeps
  <1> QED
    BY <1>6, <1>7, <1>8 DEF Inv

-----------------------------------------------------------------------------
(* Accepting a code. *)

\* A step above the high-water mark was not accepted since the row was written.
LEMMA ConsumeInv == ASSUME Inv, NEW h \in Handlers, ConsumeCounter(h) PROVE Inv'
  <1> DEFINE n == call[h].code
             s == call[h].session
             u == log.used[n] + 1
             P == IF s = None THEN log.proved ELSE log.proved \cup {s}
  <1>1. call[h] \in Call /\ call[h].step = "consume" /\ Keeps(call[h])
    BY DEF ConsumeCounter, At, Inv, TypeOK
  <1>2. /\ n \in TimeSteps /\ call[h].secret \in Secrets /\ s \in Sessions \cup {None}
        /\ s = None => call[h].op = "confirm"
        /\ s # None => s \in Sessions
    BY <1>1, Constants DEF Keeps, Shape
  <1>3. UNCHANGED <<codes, verified, tries, clock, made, faults>>
    BY DEF ConsumeCounter
  <1>4. CASE End(h) /\ UNCHANGED <<secret, log>>
    BY <1>3, <1>4, EndInv
  <1>5. CASE /\ FreshStep(n) /\ secret' = [secret EXCEPT !.last = n]
             /\ log' = [log EXCEPT !.used[n] = u, !.proved = P]
             /\ Goto(h, IF s = None THEN "enable" ELSE "mark")
    <2>1. secret \in Row /\ secret # None
      BY <1>5 DEF FreshStep, Inv, TypeOK
    <2>2. /\ secret' \in Row /\ secret'.last = n /\ secret'.secret = secret.secret
          /\ secret'.enabled = secret.enabled /\ secret'.confirmed = secret.confirmed
          /\ secret'.overtaken = secret.overtaken
      BY <1>2, <1>5, <2>1 DEF Row
    <2>3. Enabled' => Enabled
      BY <2>1, <2>2 DEF Enabled
    <2>4. log \in Log /\ log.used \in [TimeSteps -> Nat] /\ log.proved \in SUBSET Sessions
      BY LogFields DEF Inv, TypeOK
    <2>5. log.used[n] = 0 /\ u = 1
      <3>1. TimeSteps \subseteq Nat
        BY Constants, SMT DEF TimeSteps
      <3>2. secret.last = None \/ (secret.last \in Nat /\ secret.last < n)
        BY <1>5, <2>1, <3>1, RowFields DEF FreshStep
      <3>3. log.used[n] # 0 => secret.last # None /\ n <= secret.last
        BY <1>2, <2>1 DEF Inv, Ledger, Steps1
      <3>4. log.used[n] = 0
        <4> SUFFICES ASSUME log.used[n] # 0 PROVE FALSE
          OBVIOUS
        <4>1. PICK z \in Nat : z < n /\ n <= z
          BY <3>2, <3>3
        <4>2. n \in Nat
          BY <1>2, <3>1
        <4> HIDE DEF n
        <4> QED
          BY <4>1, <4>2, SMT
      <3> QED
        BY <3>4, SMT
    <2>6. P \in SUBSET Sessions /\ log.proved \subseteq P /\ (s # None => s \in P)
      BY <1>2, <2>4
    <2> HIDE DEF u, P, n, s
    <2>7. 1 \in Nat /\ 1 <= 1
      BY SMT
    <2>8. /\ log' \in Log /\ log'.used = [log.used EXCEPT ![n] = 1] /\ log'.spent = log.spent
          /\ log'.proved = P /\ log'.told = log.told /\ log'.admitted = log.admitted
      BY <1>5, <2>4, <2>5, <2>6, <2>7 DEF Log
    <2>9. PICK d \in Call :
             /\ call' = [call EXCEPT ![h] = d]
             /\ d.op = call[h].op /\ d.session = s /\ d.secret = call[h].secret
             /\ d.stale = call[h].stale
             /\ s = None => d.step = "enable"
             /\ s # None => d.step = "mark"
      <3>1. PICK t : t = IF s = None THEN "enable" ELSE "mark"
        OBVIOUS
      <3>2. t \in Steps /\ (s = None => t = "enable") /\ (s # None => t = "mark")
        BY <3>1 DEF Steps
      <3>3. PICK d : d = [call[h] EXCEPT !.step = t]
        OBVIOUS
      <3>4. call' = [call EXCEPT ![h] = d]
        BY <1>5, <3>1, <3>3 DEF Goto
      <3>5. /\ d \in Call /\ d.step = t /\ d.op = call[h].op /\ d.session = call[h].session
            /\ d.secret = call[h].secret /\ d.stale = call[h].stale
        BY <1>1, <3>2, <3>3 DEF Call
      <3> QED
        BY <3>2, <3>4, <3>5 DEF s
    <2>10. TypeOK'
      BY <1>3, <2>2, <2>8, <2>9 DEF Inv, TypeOK
    <2>11. Ledger'
      <3>1. Steps1'
        <4> SUFFICES ASSUME NEW k \in TimeSteps
                     PROVE  /\ log'.used[k] <= 1
                            /\ log'.used[k] # 0 => secret'.last # None /\ k <= secret'.last
          BY DEF Steps1
        <4>1. TimeSteps \subseteq Nat /\ n # None
          BY <1>2, Constants, SMT DEF TimeSteps
        <4>2. CASE k = n
          <5>1. log'.used[k] = 1 /\ n <= n
            BY <1>2, <2>4, <2>8, <4>1, <4>2, SMT
          <5> QED
            BY <2>2, <2>7, <4>1, <4>2, <5>1
        <4>3. CASE k # n
          <5>1. log'.used[k] = log.used[k]
            BY <2>4, <2>8, <4>3
          <5>2. log.used[k] <= 1 /\ (log.used[k] # 0 => secret.last # None /\ k <= secret.last)
            BY <2>1 DEF Inv, Ledger, Steps1
          <5>3. secret.last = None \/ (secret.last \in Nat /\ secret.last < n)
            BY <1>5, <2>1, <4>1, RowFields DEF FreshStep
          <5>4. log.used[k] # 0 => k <= n
            BY <1>2, <4>1, <5>2, <5>3, SMT
          <5> QED
            BY <2>2, <4>1, <5>1, <5>2, <5>4
        <4> QED
          BY <4>2, <4>3
      <3>2. Spent1'
        BY <1>3, <2>8 DEF Inv, Ledger, Spent1
      <3>3. EnabledIsConfirmed'
        BY <2>2, <2>3 DEF Inv, Ledger, EnabledIsConfirmed
      <3> QED
        BY <1>3, <2>6, <2>8, <3>1, <3>2, <3>3 DEF Inv, Ledger
    <2>12. ASSUME NEW g \in Handlers PROVE Keeps(call[g])'
      <3>1. CASE g # h
        <4>1. call'[g] = call[g] /\ Keeps(call[g])
          BY <2>9, <3>1 DEF Inv, TypeOK
        <4>2. Shape(call[g])' /\ Spends(call[g])' /\ Proves(call[g])'
          BY <1>3, <2>6, <2>8, <4>1 DEF Keeps, Shape, Spends, Proves
        <4>3. Confirms(call[g])' /\ Enrols(call[g])'
          BY <2>1, <2>2, <2>3, <4>1 DEF Keeps, Confirms, Enrols
        <4> QED
          BY <4>2, <4>3 DEF Keeps
      <3>2. CASE g = h
        <4>1. call'[g] = d
          BY <2>9, <3>2 DEF Inv, TypeOK
        <4>2. d.step = "enable" \/ d.step = "mark"
          BY <2>9
        <4>3. Shape(d)'
          BY <1>2, <2>9, <4>2 DEF Shape, s
        <4>4. Proves(d)'
          BY <2>6, <2>8, <2>9, <4>2 DEF Proves
        <4>5. Confirms(d)'
          BY <1>1, <2>1, <2>2, <2>9, <4>2 DEF Keeps, Confirms
        <4>6. Spends(d)' /\ Enrols(d)'
          BY <4>2 DEF Spends, Enrols
        <4>7. Keeps(d)'
          BY <4>3, <4>4, <4>5, <4>6 DEF Keeps
        <4> QED
          BY <4>1, <4>7 DEF Keeps, Shape, Spends, Proves, Confirms, Enrols, Enabled
      <3> QED
        BY <3>1, <3>2
    <2> QED
      BY <2>10, <2>11, <2>12 DEF Inv
  <1> QED
    BY <1>4, <1>5 DEF ConsumeCounter

\* Whatever row is enabled, it is the one confirmed or the call was overtaken.
LEMMA EnableInv == ASSUME Inv, NEW h \in Handlers, Enable(h) PROVE Inv'
  <1> DEFINE b == call[h].stale
             q == call[h].secret = secret.secret
  <1>1. call[h] \in Call /\ call[h].step = "enable" /\ Keeps(call[h]) /\ b \in BOOLEAN
    BY CallFields DEF Enable, At, Inv, TypeOK
  <1>2. UNCHANGED <<codes, verified, tries, clock, made, faults, log>>
    BY DEF Enable
  <1>3. ASSUME NEW g \in Handlers
        PROVE  /\ call'[g] \in Call /\ Keeps(call'[g])
               /\ call'[g].step = "upsert" => call'[g].stale
    <2>1. call[g] \in Call /\ Keeps(call[g])
      BY DEF Inv, TypeOK
    <2>2. CASE g = h
      <3>1. call'[g] = Idle
        BY <2>2, SMT DEF Enable, Overtake
      <3> QED
        BY <3>1, IdleCall, IdleKeeps
    <2>3. CASE g # h /\ Enrolling(g)
      <3>1. call'[g] = Overtake(h, "idle", Enrolling)[g]
        BY <2>3 DEF Enable, Overtake
      <3>2. Overtake(h, "idle", Enrolling)[g] = [call[g] EXCEPT !.stale = TRUE]
        BY <2>3, SMT DEF Overtake
      <3>3. call'[g] = [call[g] EXCEPT !.stale = TRUE]
        BY <3>1, <3>2
      <3>4. call'[g] \in Call /\ Keeps(call'[g])
        BY <2>1, <3>3, StaleKeeps
      <3>5. call'[g].stale = TRUE
        BY <2>1, <3>3 DEF Call
      <3> QED
        BY <3>4, <3>5
    <2>4. CASE g # h /\ ~Enrolling(g)
      <3>1. call'[g] = call[g]
        BY <2>4, SMT DEF Enable, Overtake
      <3> QED
        BY <2>1, <2>4, <3>1 DEF Enrolling, At
    <2> QED
      BY <2>2, <2>3, <2>4
  <1>4. call' \in [Handlers -> Call]
    BY <1>3 DEF Enable, Overtake
  <1>5. /\ secret = None => secret' = None
        /\ secret # None => secret' = [secret EXCEPT !.enabled = TRUE, !.overtaken = b, !.confirmed = q]
    BY DEF Enable
  <1>6. b = FALSE /\ secret # None => q
    BY <1>1 DEF Keeps, Shape, Confirms
  <1>7. q \in BOOLEAN
    OBVIOUS
  <1> HIDE DEF q, b
  <1>8. ASSUME secret # None
        PROVE  /\ secret' \in Row /\ secret'.last = secret.last /\ secret'.secret = secret.secret
               /\ secret'.overtaken = b /\ secret'.confirmed = q
    BY <1>1, <1>5, <1>7, <1>8 DEF Inv, TypeOK, Row
  <1>9. TypeOK'
    BY <1>2, <1>4, <1>5, <1>8 DEF Inv, TypeOK
  <1>10. Ledger'
    <2>1. Steps1'
      BY <1>2, <1>5, <1>8 DEF Inv, Ledger, Steps1
    <2>2. Spent1'
      BY <1>2 DEF Inv, Ledger, Spent1
    <2>3. EnabledIsConfirmed'
      BY <1>1, <1>5, <1>6, <1>8 DEF EnabledIsConfirmed, Enabled
    <2> QED
      BY <1>2, <2>1, <2>2, <2>3 DEF Inv, Ledger
  <1>11. ASSUME NEW g \in Handlers PROVE Keeps(call[g])'
    <2>1. Shape(call[g])' /\ Spends(call[g])' /\ Proves(call[g])'
      BY <1>2, <1>3 DEF Keeps, Shape, Spends, Proves
    <2>2. Confirms(call[g])'
      BY <1>3, <1>5, <1>8 DEF Keeps, Confirms
    <2>3. Enrols(call[g])'
      BY <1>3 DEF Enrols
    <2> QED
      BY <2>1, <2>2, <2>3 DEF Keeps
  <1> QED
    BY <1>9, <1>10, <1>11 DEF Inv

\* The calls that had looked the code up too are overtaken by the one that marks it.
LEMMA MarkUsedInv == ASSUME Inv, NEW h \in Handlers, MarkUsed(h) PROVE Inv'
  <1> DEFINE c == call[h].code
             S == {g \in Handlers : At(g, "spend") /\ call[g].code = c}
             k == IF call[h].stale THEN log.spent[c] ELSE log.spent[c] + 1
             P == log.proved \cup {call[h].session}
             w == IF codes[c] = "none" THEN "none" ELSE "used"
  <1>1. call[h] \in Call /\ call[h].step = "spend" /\ Keeps(call[h]) /\ call[h].session \in Sessions
    BY DEF MarkUsed, At, Inv, TypeOK, Keeps, Shape
  <1>2. c \in 1..made.codes
    BY <1>1 DEF Keeps, Shape
  <1>3. c \in Codes /\ c <= made.codes
    BY <1>2, Constants, SMT DEF Inv, TypeOK, Codes
  <1>4. UNCHANGED <<secret, verified, tries, clock, made, faults>>
    BY DEF MarkUsed
  <1>5. codes' = [codes EXCEPT ![c] = w] /\ log' = [log EXCEPT !.spent[c] = k, !.proved = P]
    BY DEF MarkUsed
  <1>6. call' = Overtake(h, "mark", LAMBDA g : At(g, "spend") /\ call[g].code = c)
    BY DEF MarkUsed
  <1>7. call' = [g \in Handlers |-> CASE g = h -> [call[g] EXCEPT !.step = "mark"]
                                      [] g # h /\ g \in S -> [call[g] EXCEPT !.stale = TRUE]
                                      [] OTHER -> call[g]]
    <2>1. \A g \in Handlers : (At(g, "spend") /\ call[g].code = c) <=> g \in S
      OBVIOUS
    <2> HIDE DEF S, c
    <2> QED
      BY <1>6, <2>1, SMT DEF Overtake
  <1>8. Overtook(h, "mark", S)
    <2> HIDE DEF S
    <2> QED
      BY <1>7, OvertookCalls DEF Inv, Steps
  <1>9. log \in Log /\ log.spent \in [Codes -> Nat] /\ log.proved \in SUBSET Sessions
    BY LogFields DEF Inv, TypeOK
  <1>10. k \in Nat /\ k <= 1
    <2>1. log.spent[c] \in Nat /\ log.spent[c] <= 1
      BY <1>3, <1>9 DEF Inv, Ledger, Spent1
    <2>2. ~call[h].stale => log.spent[c] = 0
      BY <1>1 DEF Keeps, Spends
    <2> QED
      BY <2>1, <2>2, SMT
  <1>11. w \in {"none", "used"} /\ P \in SUBSET Sessions /\ log.proved \subseteq P /\ call[h].session \in P
    BY <1>1, <1>9
  <1> HIDE DEF k, P, w
  <1>12. /\ log' \in Log /\ log'.used = log.used /\ log'.spent = [log.spent EXCEPT ![c] = k]
         /\ log'.proved = P /\ log'.told = log.told /\ log'.admitted = log.admitted
    BY <1>5, <1>9, <1>10, <1>11 DEF Log
  <1>13. TypeOK'
    <2>1. codes' \in [Codes -> {"none", "unused", "used"}]
      BY <1>5, <1>11 DEF Inv, TypeOK
    <2> QED
      BY <1>4, <1>8, <1>12, <2>1 DEF Inv, TypeOK, Overtook
  <1>14. Ledger'
    <2>1. Steps1' /\ EnabledIsConfirmed'
      BY <1>4, <1>12 DEF Inv, Ledger, Steps1, EnabledIsConfirmed, Enabled
    <2>2. Spent1'
      <3> SUFFICES ASSUME NEW e \in Codes
                   PROVE  /\ log'.spent[e] <= 1
                          /\ log'.spent[e] # 0 => codes'[e] # "unused" /\ e <= made'.codes
        BY DEF Spent1
      <3>1. CASE e = c
        <4>1. log'.spent[e] = k /\ codes'[e] = w
          BY <1>3, <1>5, <1>9, <1>12, <3>1 DEF Inv, TypeOK
        <4>2. w # "unused" /\ made'.codes = made.codes
          BY <1>4, <1>11
        <4> QED
          BY <1>3, <1>10, <3>1, <4>1, <4>2
      <3>2. CASE e # c
        <4>1. log'.spent[e] = log.spent[e] /\ codes'[e] = codes[e]
          BY <1>5, <1>9, <1>12, <3>2 DEF Inv, TypeOK
        <4> QED
          BY <1>4, <4>1 DEF Inv, Ledger, Spent1
      <3> QED
        BY <3>1, <3>2
    <2> QED
      BY <1>4, <1>11, <1>12, <2>1, <2>2 DEF Inv, Ledger
  <1>15. ASSUME NEW g \in Handlers PROVE Keeps(call[g])'
    <2>1. CASE g # h
      <3>1. /\ call'[g] \in Call /\ Keeps(call'[g])
            /\ call'[g].step = call[g].step /\ call'[g].code = call[g].code
            /\ g \in S => call'[g].stale = TRUE
        <4> HIDE DEF S
        <4> QED
          BY <1>8, <2>1, OthersKeep
      <3>2. Spends(call[g])'
        <4> SUFFICES ASSUME call'[g].step = "spend", ~call'[g].stale
                     PROVE  log'.spent[call'[g].code] = 0
          BY DEF Spends
        <4>1. g \notin S
          BY <3>1
        <4>2. call'[g].code # c
          BY <3>1, <4>1 DEF At
        <4>3. call'[g].code \in Codes
          BY <3>1, Constants, SMT DEF Keeps, Shape, Codes, Inv, TypeOK
        <4>4. log'.spent[call'[g].code] = log.spent[call'[g].code]
          BY <1>9, <1>12, <4>2, <4>3
        <4> QED
          BY <3>1, <4>4 DEF Keeps, Spends
      <3>3. Shape(call[g])' /\ Proves(call[g])' /\ Confirms(call[g])' /\ Enrols(call[g])'
        BY <1>4, <1>11, <1>12, <3>1 DEF Keeps, Shape, Proves, Confirms, Enrols, Enabled
      <3> QED
        BY <3>2, <3>3 DEF Keeps
    <2>2. CASE g = h
      <3>1. call'[g].step = "mark" /\ call'[g].session = call[h].session
        BY <1>1, <1>8, <2>2, StepNames DEF Overtook, Call
      <3> QED
        BY <1>1, <1>11, <1>12, <3>1 DEF Keeps, Shape, Spends, Proves, Confirms, Enrols
    <2> QED
      BY <2>1, <2>2
  <1> QED
    BY <1>13, <1>14, <1>15 DEF Inv

LEMMA MarkInv == ASSUME Inv, NEW h \in Handlers, MarkTOTPVerified(h) PROVE Inv'
  <1> DEFINE s == call[h].session
  <1>1. call[h].step = "mark" /\ Keeps(call[h]) /\ s \in Sessions /\ s \in log.proved
    BY DEF MarkTOTPVerified, At, Inv, TypeOK, Keeps, Shape, Proves
  <1>2. /\ verified' = verified \cup {s} /\ log' = [log EXCEPT !.told = log.told \cup {s}]
        /\ call' = [call EXCEPT ![h] = Idle]
        /\ UNCHANGED <<secret, codes, tries, clock, made, faults>>
    BY DEF MarkTOTPVerified, End
  <1>3. log \in Log /\ log.told \in SUBSET Sessions
    BY LogFields DEF Inv, TypeOK
  <1>4. /\ log' \in Log /\ log'.used = log.used /\ log'.spent = log.spent
        /\ log'.proved = log.proved /\ log'.told = log.told \cup {s} /\ log'.admitted = log.admitted
    BY <1>1, <1>2, <1>3 DEF Log
  <1>5. call' \in [Handlers -> Call] /\ \A g \in Handlers : Keeps(call'[g])
    BY <1>2, IdleCall, IdleKeeps DEF Inv, TypeOK
  <1>6. TypeOK'
    BY <1>1, <1>2, <1>4, <1>5 DEF Inv, TypeOK
  <1>7. Ledger'
    <2>1. Steps1' /\ Spent1' /\ EnabledIsConfirmed'
      BY <1>2, <1>4 DEF Inv, Ledger, Steps1, Spent1, EnabledIsConfirmed, Enabled
    <2> QED
      BY <1>1, <1>2, <1>4, <2>1 DEF Inv, Ledger
  <1>8. ASSUME NEW g \in Handlers PROVE Keeps(call[g])'
    BY <1>2, <1>4, <1>5 DEF Keeps, Shape, Spends, Proves, Confirms, Enrols, Enabled
  <1> QED
    BY <1>6, <1>7, <1>8 DEF Inv

-----------------------------------------------------------------------------

LEMMA NextInv == Inv /\ [Next]_vars => Inv'
  <1> SUFFICES ASSUME Inv, [Next]_vars PROVE Inv'
    OBVIOUS
  <1>1. ASSUME NEW h \in Handlers, Serve(h) PROVE Inv'
    BY <1>1, BeginEnrollInv, UpsertInv, DeleteAllInv, CreateBatchInv, BeginPlainInv, DeleteInv,
       AttemptInv, ReadInv, ConsumeInv, EnableInv, GetUnusedInv, MarkUsedInv, MarkInv, RequestInv,
       EndsInv DEF Serve
  <1>2. CASE UNCHANGED vars
    <2>1. UNCHANGED <<secret, codes, verified, call, tries, clock, made, faults, log>>
      BY <1>2 DEF vars
    <2>2. TypeOK'
      BY <2>1 DEF Inv, TypeOK
    <2>3. Ledger'
      BY <2>1 DEF Inv, Ledger, Steps1, Spent1, EnabledIsConfirmed, Enabled
    <2>4. ASSUME NEW g \in Handlers PROVE Keeps(call[g])'
      BY <2>1 DEF Inv, Keeps, Shape, Spends, Proves, Confirms, Enrols, Enabled
    <2> QED
      BY <2>2, <2>3, <2>4 DEF Inv
  <1> QED
    BY <1>1, <1>2, TickInv, WindowInv DEF Next

\* The inductive invariant holds throughout.
THEOREM Invariance == Spec => []Inv
  BY InitInv, NextInv, PTL DEF Spec

\* The variables have their types: no batch is longer than backupCodeCount, no
\* code is of a step out of reach (totp.go:105-165, 340-385).
THEOREM TypeCorrect == Spec => []TypeOK
  <1>1. Inv => TypeOK
    BY DEF Inv
  <1> QED
    BY <1>1, Invariance, PTL

\* No time step is accepted twice while a row lasts, however many verifications
\* and confirmations overlap (totp.go:76-103).
THEOREM CodesAreSingleUse == Spec => []StepOnce
  <1>1. Inv => StepOnce
    BY DEF Inv, Ledger, Steps1, StepOnce
  <1> QED
    BY <1>1, Invariance, PTL

\* A backup code is accepted again only by a verification that had found it
\* before it was marked (totp.go:213-285).
THEOREM BackupCodesAreSingleUse == Spec => []BackupOnce
  <1>1. Inv => BackupOnce
    BY DEF Inv, Ledger, Spent1, BackupOnce
  <1> QED
    BY <1>1, Invariance, PTL

\* Both together: an accepted code is spent, but for the race on a backup code.
THEOREM CodesAreSpent == Spec => []CodesOnce
  BY CodesAreSingleUse, BackupCodesAreSingleUse, PTL DEF CodesOnce

\* No request passes the gate of an enabled factor in a session without an
\* accepted code (authorization/middleware.go, validateSessionChecks).
THEOREM GateHolds == Spec => []GateNeedsCode
  <1>1. Inv => GateNeedsCode
    BY DEF Inv, GateNeedsCode, GatePasses, At, Keeps, Proves
  <1> QED
    BY <1>1, Invariance, PTL

\* What VerifyTOTP has answered is in the store.
THEOREM AnswersAreStored == Spec => []AnsweredVerified
  <1>1. Inv => AnsweredVerified
    BY DEF Inv, Ledger, AnsweredVerified
  <1> QED
    BY <1>1, Invariance, PTL

\* However many handlers compare codes at once, a window admits Limit of them.
THEOREM LimiterHolds == Spec => []AttemptsBounded
  <1>1. Inv => AttemptsBounded
    BY Constants, LogFields, SMT DEF Inv, TypeOK, Ledger, AttemptsBounded
  <1> QED
    BY <1>1, Invariance, PTL

\* The secret of an enabled factor was confirmed, or replaced under the call that
\* confirmed it (totp.go:169-209).
THEOREM ConfirmedSecret == Spec => []EnabledIsConfirmed
  <1>1. Inv => EnabledIsConfirmed
    BY DEF Inv, Ledger
  <1> QED
    BY <1>1, Invariance, PTL

\* Only DisableTOTP, and an enrolment that found the factor off or could not
\* read it, take an enabled factor away.
THEOREM FactorStays == Spec => FactorKept
  <1> DEFINE Kept == Enabled /\ ~Enabled' =>
                        \E h \in Handlers : At(h, "delete") \/ (At(h, "upsert") /\ call[h].stale)
  <1>1. ASSUME Inv, [Next]_vars PROVE [Kept]_vars
    <2> SUFFICES ASSUME Enabled, ~Enabled', Next
                 PROVE  \E h \in Handlers : At(h, "delete") \/ (At(h, "upsert") /\ call[h].stale)
      BY <1>1
    <2>1. secret' # secret
      BY DEF Enabled
    <2>2. PICK h \in Handlers : Upsert(h) \/ Delete(h) \/ ConsumeCounter(h) \/ Enable(h)
      <3>1. PICK h \in Handlers : Serve(h)
        BY <2>1 DEF Next, Tick, WindowPasses
      <3> QED
        BY <2>1, <3>1
        DEF Serve, BeginEnrollTOTP, DeleteAllForUser, CreateBatch, RegenerateBackupCodes, DisableTOTP,
            ConfirmEnrollTOTP, VerifyTOTP, CheckAttempt, ReadToConfirm, ReadToVerify, GetUnused,
            MarkUsed, MarkTOTPVerified, Request, Gate, StoreFails
    <2>3. secret \in Row /\ secret # None
      BY <1>1 DEF Inv, TypeOK, Enabled
    <2>4. CASE Upsert(h)
      BY <1>1, <2>4 DEF Upsert, At, Inv, Keeps, Enrols
    <2>5. CASE Delete(h)
      BY <2>5 DEF Delete
    <2>6. CASE ConsumeCounter(h)
      <3>1. TypeOK'
        BY <1>1, NextInv DEF Inv
      <3>2. secret' = [secret EXCEPT !.last = call[h].code]
        BY <2>1, <2>6 DEF ConsumeCounter
      <3>3. secret'.enabled = secret.enabled
        BY <2>3, <3>2 DEF Row
      <3>4. call[h].code \in TimeSteps
        BY <1>1, <2>6, Constants DEF ConsumeCounter, At, Inv, Keeps, Shape
      <3>5. secret' \in Row
        BY <2>3, <3>2, <3>4 DEF Row
      <3> QED
        BY <2>3, <3>3, <3>5, Constants DEF Enabled
    <2>7. CASE Enable(h)
      <3> DEFINE q == call[h].secret = secret.secret
      <3>1. secret' = [secret EXCEPT !.enabled = TRUE, !.overtaken = call[h].stale, !.confirmed = q]
        BY <2>3, <2>7 DEF Enable
      <3>2. q \in BOOLEAN /\ call[h].stale \in BOOLEAN
        BY <1>1, CallFields DEF Inv, TypeOK
      <3> HIDE DEF q
      <3>3. secret' \in Row /\ secret'.enabled
        BY <2>3, <3>1, <3>2 DEF Row
      <3> QED
        BY <3>3, Constants DEF Enabled
    <2> QED
      BY <2>2, <2>4, <2>5, <2>6, <2>7
  <1> QED
    BY <1>1, Invariance, PTL DEF Spec, FactorKept

=============================================================================
