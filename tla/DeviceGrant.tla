----------------------------- MODULE DeviceGrant -----------------------------
(***************************************************************************)
(* The device authorization flow (internal/hades/server/auth/device.go):   *)
(* a device asks for a code, a user approves it, and the device polls      *)
(* until it is given an API token.  The grants are rows of device_grants   *)
(* (storage/db/devicegrant), the tokens rows of api_tokens.                *)
(*                                                                         *)
(* Handlers run concurrently: each member of Polls and of Approvals is a   *)
(* handler that serves one call after another.  A call reads the grant in  *)
(* one step and writes in a later one; a call may be cut off at any point, *)
(* the client gone or the process dead.                                    *)
(***************************************************************************)
EXTENDS Naturals, FiniteSets

CONSTANTS
    Grants,     \* device codes, each with its user code
    Users,      \* users who may approve
    Polls,      \* handlers of PollDeviceToken
    Approvals,  \* handlers of ApproveDeviceGrant
    None        \* no user, no token, no grant

ASSUME DeviceAssumption == None \notin Grants \cup Users

VARIABLES
    row,       \* grant -> its row
    tokens,    \* the API tokens in the table, with the grant they are for
    poll,      \* handler -> its step, grant and user read
    approval,  \* handler -> its step, grant and user
    got,       \* grant -> tokens returned to the device
    approvers  \* grant -> users who were told that they approved it

vars == <<row, tokens, poll, approval, got, approvers>>

\* token is the number of the attached token: the tokens of a grant are numbered
\* in the order in which they are inserted.
Row == [exists: BOOLEAN, user: Users \cup {None}, token: Nat, expired: BOOLEAN]

Token == [grant: Grants, number: Nat, user: Users]

Handler == [step: {"idle", "write"}, grant: Grants \cup {None}, user: Users \cup {None}]

Idle == [step |-> "idle", grant |-> None, user |-> None]

NoToken == 0

TokensOf(g) == {t \in tokens : t.grant = g}

Init ==
    /\ row = [g \in Grants |-> [exists |-> FALSE, user |-> None, token |-> NoToken,
                                expired |-> FALSE]]
    /\ tokens = {}
    /\ poll = [p \in Polls |-> Idle]
    /\ approval = [a \in Approvals |-> Idle]
    /\ got = [g \in Grants |-> {}]
    /\ approvers = [g \in Grants |-> {}]

RequestDeviceCode(g) ==
    /\ ~row[g].exists
    /\ row' = [row EXCEPT ![g].exists = TRUE]
    /\ UNCHANGED <<tokens, poll, approval, got, approvers>>

\* Fifteen minutes pass.
Expire(g) ==
    /\ row[g].exists /\ ~row[g].expired
    /\ row' = [row EXCEPT ![g].expired = TRUE]
    /\ UNCHANGED <<tokens, poll, approval, got, approvers>>

-----------------------------------------------------------------------------

\* The grant has no token: the predicate of AttachToken's UPDATE.
Unissued(g) == row[g].token = NoToken

\* A poll reads the grant and finds it approved, unexpired and without a token.
\* In every other case it answers at once and changes nothing.
ReadGrant(p, g) ==
    /\ poll[p].step = "idle"
    /\ row[g].exists /\ ~row[g].expired /\ row[g].token = NoToken
    /\ row[g].user # None
    /\ poll' = [poll EXCEPT ![p] = [step |-> "write", grant |-> g, user |-> row[g].user]]
    /\ UNCHANGED <<row, tokens, approval, got, approvers>>

\* The transaction inserts a token and attaches it, and the device is given it.
IssueToken(p) ==
    LET g == poll[p].grant
        t == [grant |-> g, number |-> Cardinality(TokensOf(g)) + 1, user |-> poll[p].user]
    IN  /\ poll[p].step = "write"
        /\ Unissued(g)
        /\ tokens' = tokens \cup {t}
        /\ row' = [row EXCEPT ![g].token = t.number]
        /\ \E delivered \in BOOLEAN :
              got' = IF delivered THEN [got EXCEPT ![g] = @ \cup {t.number}] ELSE got
        /\ poll' = [poll EXCEPT ![p] = Idle]
        /\ UNCHANGED <<approval, approvers>>

\* Mutant of DropPoll: a failed update leaves the inserted token behind.
DropPollKeeping(p) ==
    LET g == poll[p].grant
    IN  /\ poll[p].step = "write"
        /\ tokens' = tokens \cup {[grant |-> g, number |-> Cardinality(TokensOf(g)) + 1,
                                   user |-> poll[p].user]}
        /\ poll' = [poll EXCEPT ![p] = Idle]
        /\ UNCHANGED <<row, approval, got, approvers>>

\* The update matches no row, the transaction fails or the call is cut off: the
\* insert is rolled back.
DropPoll(p) ==
    /\ poll[p].step = "write"
    /\ poll' = [poll EXCEPT ![p] = Idle]
    /\ UNCHANGED <<row, tokens, approval, got, approvers>>

-----------------------------------------------------------------------------

\* A user's call finds the grant by its user code, unexpired and unapproved.
ReadUserCode(a, g, u) ==
    /\ approval[a].step = "idle"
    /\ row[g].exists /\ ~row[g].expired
    /\ row[g].user = None
    /\ approval' = [approval EXCEPT ![a] = [step |-> "write", grant |-> g, user |-> u]]
    /\ UNCHANGED <<row, tokens, poll, got, approvers>>

\* Mutant of Unapproved: the UPDATE lacks its predicate.
UnapprovedAlways(g) == TRUE

\* The predicate of Approve's UPDATE.
Unapproved(g) == row[g].user = None

Approve(a) ==
    LET g == approval[a].grant
    IN  /\ approval[a].step = "write"
        /\ Unapproved(g)
        /\ row' = [row EXCEPT ![g].user = approval[a].user]
        /\ approvers' = [approvers EXCEPT ![g] = @ \cup {approval[a].user}]
        /\ approval' = [approval EXCEPT ![a] = Idle]
        /\ UNCHANGED <<tokens, poll, got>>

\* ErrAlreadyApproved, or the call fails or is cut off.
DropApproval(a) ==
    /\ approval[a].step = "write"
    /\ approval' = [approval EXCEPT ![a] = Idle]
    /\ UNCHANGED <<row, tokens, poll, got, approvers>>

Next ==
    \/ \E g \in Grants : RequestDeviceCode(g) \/ Expire(g)
    \/ \E p \in Polls, g \in Grants : ReadGrant(p, g)
    \/ \E p \in Polls : IssueToken(p) \/ DropPoll(p)
    \/ \E a \in Approvals, g \in Grants, u \in Users : ReadUserCode(a, g, u)
    \/ \E a \in Approvals : Approve(a) \/ DropApproval(a)

Spec == Init /\ [][Next]_vars

-----------------------------------------------------------------------------

\* The variables have the types their comments give them.
TypeOK ==
    /\ row \in [Grants -> Row]
    /\ tokens \subseteq Token
    /\ poll \in [Polls -> Handler]
    /\ approval \in [Approvals -> Handler]
    /\ got \in [Grants -> SUBSET Nat]
    /\ approvers \in [Grants -> SUBSET Users]

\* However polls interleave, a device code is worth at most one token: the table
\* holds the attached token and no other for the grant, and the device was given
\* no other (device.go:141-163).
SingleToken ==
    \A g \in Grants :
        /\ \A t \in TokensOf(g) : t.number = row[g].token
        /\ got[g] \subseteq {t.number : t \in TokensOf(g)}

\* The token belongs to the one user who was told that they approved the grant
\* (device.go:145-147, 195-212).
TokenOfApprover ==
    \A g \in Grants :
        /\ \A t \in TokensOf(g) : row[g].user = t.user
        /\ approvers[g] \subseteq {row[g].user}

\* An approved grant keeps its user, and a token once attached stays attached
\* (devicegrant.go:12-21).
GrantIsFixed ==
    [][\A g \in Grants :
          /\ row[g].user # None => row'[g].user = row[g].user
          /\ row[g].token # NoToken => row'[g].token = row[g].token]_vars

=============================================================================
