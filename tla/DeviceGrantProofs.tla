-------------------------- MODULE DeviceGrantProofs --------------------------
(***************************************************************************)
(* Theorems about DeviceGrant, for any number of grants, users and         *)
(* handlers.                                                               *)
(*                                                                         *)
(* SingleToken and TokenOfApprover are not inductive: a poll that has read *)
(* an approved grant still has to write, and what it will write is right   *)
(* only because the user it remembers is the grant's user and stays so.    *)
(* PollsRemember says this.                                                *)
(***************************************************************************)
EXTENDS DeviceGrant, FiniteSetTheorems, TLAPS

USE Zenon

\* A handler that is about to write has a grant and a user, and for a poll this
\* is the user who approved the grant.  Attached tokens are numbered from one.
PollsRemember ==
    /\ \A p \in Polls : poll[p].step = "write" =>
          /\ poll[p].grant \in Grants
          /\ poll[p].user \in Users
          /\ row[poll[p].grant].user = poll[p].user
    /\ \A a \in Approvals : approval[a].step = "write" =>
          /\ approval[a].grant \in Grants
          /\ approval[a].user \in Users
    /\ \A t \in tokens : t.number # NoToken

Inv == TypeOK /\ PollsRemember /\ SingleToken /\ TokenOfApprover

LEMMA InitInv == Init => Inv
  <1> SUFFICES ASSUME Init PROVE Inv
    OBVIOUS
  <1>1. TypeOK
    BY SMT DEF Init, TypeOK, Row, Idle, Handler, NoToken
  <1>2. PollsRemember
    BY SMT DEF Init, PollsRemember, Idle
  <1>3. SingleToken /\ TokenOfApprover
    BY SMT DEF Init, SingleToken, TokenOfApprover, TokensOf
  <1> QED
    BY <1>1, <1>2, <1>3 DEF Inv

\* A grant without a token has no token in the table: the next one is the first.
LEMMA FirstToken ==
    ASSUME Inv, NEW g \in Grants, row[g].token = NoToken
    PROVE  TokensOf(g) = {} /\ Cardinality(TokensOf(g)) + 1 = 1
  <1>1. TokensOf(g) = {}
    BY SMT DEF Inv, PollsRemember, SingleToken, TokensOf
  <1> QED
    BY <1>1, FS_EmptySet, SMT

\* The rows, the tokens and what devices were given change together.
LEMMA IssueInv == ASSUME Inv, NEW p \in Polls, IssueToken(p) PROVE Inv'
  <1> DEFINE g == poll[p].grant
             t == [grant |-> g, number |-> 1, user |-> poll[p].user]
  <1>1. /\ g \in Grants /\ poll[p].user \in Users /\ row[g].user = poll[p].user
        /\ row[g].token = NoToken
    BY DEF IssueToken, Inv, PollsRemember, Unissued
  <1>2. TokensOf(g) = {} /\ Cardinality(TokensOf(g)) + 1 = 1
    BY <1>1, FirstToken
  <1>3. /\ tokens' = tokens \cup {t}
        /\ row' = [row EXCEPT ![g].token = 1]
        /\ got' = [got EXCEPT ![g] = @ \cup {1}] \/ got' = got
        /\ poll' = [poll EXCEPT ![p] = Idle]
        /\ approval' = approval /\ approvers' = approvers
    <2>1. PICK n : n = Cardinality(TokensOf(g)) + 1
      OBVIOUS
    <2>2. /\ tokens' = tokens \cup {[grant |-> g, number |-> n, user |-> poll[p].user]}
          /\ row' = [row EXCEPT ![g].token = n]
          /\ got' = [got EXCEPT ![g] = @ \cup {n}] \/ got' = got
          /\ poll' = [poll EXCEPT ![p] = Idle]
          /\ approval' = approval /\ approvers' = approvers
      BY <2>1, SMT DEF IssueToken
    <2>3. n = 1
      BY <1>2, <2>1
    <2> QED
      BY <2>2, <2>3
  <1>4. TypeOK'
    <2>1. row' \in [Grants -> Row]
      BY <1>1, <1>3, SMT DEF Inv, TypeOK, Row
    <2>2. tokens' \subseteq Token
      BY <1>1, <1>3, SMT DEF Inv, TypeOK, Token
    <2>3. poll' \in [Polls -> Handler]
      BY <1>3, SMT DEF Inv, TypeOK, Handler, Idle
    <2>4. got' \in [Grants -> SUBSET Nat]
      BY <1>1, <1>3, SMT DEF Inv, TypeOK
    <2> QED
      BY <1>3, <2>1, <2>2, <2>3, <2>4 DEF Inv, TypeOK
  <1>5. PollsRemember'
    BY <1>1, <1>3, SMT DEF Inv, TypeOK, PollsRemember, Row, Token, Handler, Idle, NoToken
  <1>6. SingleToken'
    <2> SUFFICES ASSUME NEW k \in Grants
                 PROVE  /\ \A u \in TokensOf(k)' : u.number = row'[k].token
                        /\ got'[k] \subseteq {u.number : u \in TokensOf(k)'}
      BY DEF SingleToken
    <2>1. /\ \A u \in TokensOf(k) : u.number = row[k].token
          /\ got[k] \subseteq {u.number : u \in TokensOf(k)}
      BY DEF Inv, SingleToken
    <2>2. CASE k = g
      <3>1. TokensOf(k)' = {t}
        BY <1>2, <1>3, <2>2, SMT DEF TokensOf
      <3>2. row'[k].token = 1 /\ got'[k] \subseteq {1}
        BY <1>1, <1>2, <1>3, <2>1, <2>2, SMT DEF Inv, TypeOK, Row
      <3> QED
        BY <3>1, <3>2, SMT
    <2>3. CASE k # g
      <3>1. TokensOf(k)' = TokensOf(k)
        BY <1>3, <2>3, SMT DEF TokensOf
      <3>2. row'[k] = row[k] /\ got'[k] = got[k]
        BY <1>3, <2>3, SMT DEF Inv, TypeOK
      <3> QED
        BY <2>1, <3>1, <3>2
    <2> QED
      BY <2>2, <2>3
  <1>7. TokenOfApprover'
    BY <1>1, <1>2, <1>3, SMT DEF Inv, TypeOK, TokenOfApprover, TokensOf, Row, Token
  <1> QED
    BY <1>4, <1>5, <1>6, <1>7 DEF Inv

\* An approval names the user of a grant that had none.
LEMMA ApproveInv == ASSUME Inv, NEW a \in Approvals, Approve(a) PROVE Inv'
  <1> DEFINE g == approval[a].grant
  <1>1. g \in Grants /\ approval[a].user \in Users /\ row[g].user = None
    BY DEF Approve, Inv, PollsRemember, Unapproved
  <1>2. None \notin Users
    BY DeviceAssumption
  <1>3. TokensOf(g) = {}
    BY <1>1, <1>2, SMT DEF Inv, TypeOK, TokenOfApprover, TokensOf, Token
  <1>4. /\ row' = [row EXCEPT ![g].user = approval[a].user]
        /\ approvers' = [approvers EXCEPT ![g] = @ \cup {approval[a].user}]
        /\ approval' = [approval EXCEPT ![a] = Idle]
        /\ tokens' = tokens /\ poll' = poll /\ got' = got
    BY DEF Approve
  <1>5. TypeOK'
    BY <1>1, <1>4, SMT DEF Inv, TypeOK, Row, Handler, Idle
  <1>6. PollsRemember'
    BY <1>1, <1>2, <1>4, SMT DEF Inv, TypeOK, PollsRemember, Row, Handler, Idle
  <1>7. SingleToken'
    BY <1>1, <1>4, SMT DEF Inv, TypeOK, SingleToken, TokensOf, Row
  <1>8. TokenOfApprover'
    BY <1>1, <1>2, <1>3, <1>4, SMT DEF Inv, TypeOK, TokenOfApprover, TokensOf, Row, Token
  <1> QED
    BY <1>5, <1>6, <1>7, <1>8 DEF Inv

\* Creating a grant and expiring it keep the user and the token of its row.
LEMMA FlagSet ==
    ASSUME NEW q \in Row, NEW r, r = [q EXCEPT !.exists = TRUE] \/ r = [q EXCEPT !.expired = TRUE]
    PROVE  r \in Row /\ r.user = q.user /\ r.token = q.token
  <1>1. /\ q = [exists |-> q.exists, user |-> q.user, token |-> q.token, expired |-> q.expired]
        /\ q.exists \in BOOLEAN /\ q.user \in Users \cup {None} /\ q.token \in Nat
        /\ q.expired \in BOOLEAN
    BY DEF Row
  <1>2. \/ r = [exists |-> TRUE, user |-> q.user, token |-> q.token, expired |-> q.expired]
        \/ r = [exists |-> q.exists, user |-> q.user, token |-> q.token, expired |-> TRUE]
    BY <1>1
  <1> QED
    BY <1>1, <1>2 DEF Row

\* Every other step leaves tokens, users and answers alone.
LEMMA OtherInv ==
    ASSUME Inv,
           \/ \E g \in Grants : RequestDeviceCode(g) \/ Expire(g)
           \/ \E p \in Polls, g \in Grants : ReadGrant(p, g)
           \/ \E p \in Polls : DropPoll(p)
           \/ \E a \in Approvals, g \in Grants, u \in Users : ReadUserCode(a, g, u)
           \/ \E a \in Approvals : DropApproval(a)
           \/ UNCHANGED vars
    PROVE  Inv'
  <1>1. ASSUME NEW g \in Grants, RequestDeviceCode(g) \/ Expire(g) PROVE Inv'
    <2>1. /\ row' \in [Grants -> Row]
          /\ \A k \in Grants : row'[k].user = row[k].user /\ row'[k].token = row[k].token
          /\ UNCHANGED <<tokens, poll, approval, got, approvers>>
      <3>1. row \in [Grants -> Row]
        BY DEF Inv, TypeOK
      <3>2. PICK r : /\ row' = [row EXCEPT ![g] = r]
                     /\ r \in Row /\ r.user = row[g].user /\ r.token = row[g].token
        <4>1. PICK r : /\ row' = [row EXCEPT ![g] = r]
                       /\ \/ r = [row[g] EXCEPT !.exists = TRUE]
                          \/ r = [row[g] EXCEPT !.expired = TRUE]
          BY <1>1 DEF RequestDeviceCode, Expire
        <4> QED
          BY <3>1, <4>1, FlagSet
      <3>3. UNCHANGED <<tokens, poll, approval, got, approvers>>
        BY <1>1 DEF RequestDeviceCode, Expire
      <3> QED
        BY <3>1, <3>2, <3>3
    <2>2. TypeOK'
      BY <2>1 DEF Inv, TypeOK
    <2>3. PollsRemember'
      BY <2>1 DEF Inv, PollsRemember
    <2>4. SingleToken'
      BY <2>1 DEF Inv, SingleToken, TokensOf
    <2>5. TokenOfApprover'
      BY <2>1 DEF Inv, TokenOfApprover, TokensOf
    <2> QED
      BY <2>2, <2>3, <2>4, <2>5 DEF Inv
  <1>2. ASSUME NEW p \in Polls, NEW g \in Grants, ReadGrant(p, g) PROVE Inv'
    BY <1>2, SMT DEF ReadGrant, Inv, TypeOK, PollsRemember, SingleToken,
                     TokenOfApprover, TokensOf, Row, Handler
  <1>3. ASSUME NEW p \in Polls, DropPoll(p) PROVE Inv'
    BY <1>3, SMT DEF DropPoll, Inv, TypeOK, PollsRemember, SingleToken,
                     TokenOfApprover, TokensOf, Handler, Idle
  <1>4. ASSUME NEW a \in Approvals, NEW g \in Grants, NEW u \in Users, ReadUserCode(a, g, u)
        PROVE  Inv'
    BY <1>4, SMT DEF ReadUserCode, Inv, TypeOK, PollsRemember, SingleToken,
                     TokenOfApprover, TokensOf, Handler
  <1>5. ASSUME NEW a \in Approvals, DropApproval(a) PROVE Inv'
    BY <1>5, SMT DEF DropApproval, Inv, TypeOK, PollsRemember, SingleToken,
                     TokenOfApprover, TokensOf, Handler, Idle
  <1>6. CASE UNCHANGED vars
    BY <1>6, SMT DEF vars, Inv, TypeOK, PollsRemember, SingleToken, TokenOfApprover, TokensOf
  <1> QED
    BY <1>1, <1>2, <1>3, <1>4, <1>5, <1>6

LEMMA NextInv == Inv /\ [Next]_vars => Inv'
  BY IssueInv, ApproveInv, OtherInv DEF Next

\* The inductive invariant holds throughout.
THEOREM Invariance == Spec => []Inv
  BY InitInv, NextInv, PTL DEF Spec

\* The variables have their types, whatever the constants (device.go:78-219).
THEOREM TypeCorrect == Spec => []TypeOK
  <1>1. Inv => TypeOK
    BY DEF Inv
  <1> QED
    BY <1>1, Invariance, PTL

\* A device code is worth at most one token (device.go:141-163).
THEOREM OneToken == Spec => []SingleToken
  <1>1. Inv => SingleToken
    BY DEF Inv
  <1> QED
    BY <1>1, Invariance, PTL

\* The token is that of the one user who approved (device.go:145-147, 195-212).
THEOREM RightUser == Spec => []TokenOfApprover
  <1>1. Inv => TokenOfApprover
    BY DEF Inv
  <1> QED
    BY <1>1, Invariance, PTL

\* Approvals and attached tokens are never overwritten (devicegrant.go:12-21).
THEOREM Fixed == Spec => GrantIsFixed
  <1> DEFINE Kept == \A g \in Grants :
                        /\ row[g].user # None => row'[g].user = row[g].user
                        /\ row[g].token # NoToken => row'[g].token = row[g].token
  <1>1. ASSUME Inv, [Next]_vars PROVE [Kept]_vars
    <2>1. ASSUME NEW g \in Grants, RequestDeviceCode(g) \/ Expire(g) PROVE Kept
      BY <1>1, <2>1, SMT DEF RequestDeviceCode, Expire, Inv, TypeOK, Row
    <2>2. ASSUME NEW p \in Polls, NEW g \in Grants, ReadGrant(p, g) PROVE Kept
      BY <2>2 DEF ReadGrant
    <2>3. ASSUME NEW p \in Polls, IssueToken(p) PROVE Kept
      BY <1>1, <2>3, SMT DEF IssueToken, Unissued, Inv, TypeOK, Row
    <2>4. ASSUME NEW p \in Polls, DropPoll(p) PROVE Kept
      BY <2>4 DEF DropPoll
    <2>5. ASSUME NEW a \in Approvals, NEW g \in Grants, NEW u \in Users, ReadUserCode(a, g, u)
          PROVE  Kept
      BY <2>5 DEF ReadUserCode
    <2>6. ASSUME NEW a \in Approvals, Approve(a) PROVE Kept
      BY <1>1, <2>6, SMT DEF Approve, Unapproved, Inv, TypeOK, Row
    <2>7. ASSUME NEW a \in Approvals, DropApproval(a) PROVE Kept
      BY <2>7 DEF DropApproval
    <2> HIDE DEF Kept
    <2> QED
      BY <1>1, <2>1, <2>2, <2>3, <2>4, <2>5, <2>6, <2>7 DEF Next
  <1> QED
    BY <1>1, Invariance, PTL DEF Spec, GrantIsFixed

=============================================================================
