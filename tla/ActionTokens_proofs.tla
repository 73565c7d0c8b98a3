------------------------ MODULE ActionTokens_proofs ------------------------
(***************************************************************************)
(* Proofs about ActionTokens for every number of people, requests, tokens  *)
(* and counters and every workload: the newest token works, a mailed token *)
(* is single-use, and a mailbox is not flooded.                            *)
(*                                                                         *)
(* The counters of AccountRateLimit play no part in what is said of tokens *)
(* (none of its actions touches a variable that speaks of them), and all   *)
(* the part in what is said of the mailbox.                                *)
(***************************************************************************)
EXTENDS ActionTokens, FiniteSetTheorems, TLAPS

-----------------------------------------------------------------------------
(* Type correctness of what the argument speaks of *)

Labels == {"idle", "limit", "dropOld", "create", "mail", "findUser", "replace", "markVerified",
           "dropAll"}

Flow == [pc: Labels, type: ActionTokenType \cup {"none"}, user: Users \cup {NoUser}, hash: Nat,
         since: Nat]

\* What a request must know by the time it is there.
KnowsUser(f) == f.pc # "idle" => f.user \in Users
KnowsType(f) == f.pc \in {"limit", "dropOld", "create", "mail"} => f.type \in ActionTokenType

FlowTypeOK ==
    /\ flow \in [Requests -> Flow]
    /\ \A r \in Requests : KnowsUser(flow[r]) /\ KnowsType(flow[r])

TokenTypeOK ==
    /\ now \in Nat
    /\ account \in [Users -> {"none", "unverified", "verified", "gone"}]
    /\ actionTokens \subseteq ActionToken
    /\ FlowTypeOK
    /\ issued \in Seq([type: ActionTokenType, user: Users, expiresAt: Nat])
    /\ Len(issued) <= MaxTokens
    /\ mails \subseteq [hash: Nat, type: ActionTokenType, user: Users, at: Nat]

LEMMA InitType == Init => TokenTypeOK
  BY ActionTokensAssumption
  DEF Init, TokenTypeOK, FlowTypeOK, Flow, Labels, Idle, KnowsUser, KnowsType

LEMMA SetType ==
  ASSUME FlowTypeOK, NEW r \in Requests, NEW v \in Flow, KnowsUser(v), KnowsType(v),
         flow' = [flow EXCEPT ![r] = v]
  PROVE  FlowTypeOK'
  BY DEF FlowTypeOK

LEMMA EndType ==
  ASSUME FlowTypeOK, NEW r \in Requests, End(r)
  PROVE  FlowTypeOK'
  <1>1. Idle \in Flow /\ KnowsUser(Idle) /\ KnowsType(Idle)
    BY DEF Idle, Flow, Labels, KnowsUser, KnowsType
  <1> HIDE DEF Idle
  <1> QED BY <1>1, SetType DEF End

LEMMA BeginType ==
  ASSUME FlowTypeOK, NEW r \in Requests, NEW l \in Labels, NEW type \in ActionTokenType \cup {"none"},
         NEW u \in Users, NEW h \in Nat, Begin(r, l, type, u, h),
         type = "none" => l \notin {"limit", "dropOld", "create", "mail"}
  PROVE  FlowTypeOK'
  <1> DEFINE v == [pc |-> l, type |-> type, user |-> u, hash |-> h, since |-> 0]
  <1>1. v \in Flow /\ KnowsUser(v) /\ KnowsType(v)
    BY DEF Flow, KnowsUser, KnowsType
  <1>2. flow' = [flow EXCEPT ![r] = v]
    BY DEF Begin
  <1> HIDE DEF v
  <1> QED BY <1>1, <1>2, SetType

LEMMA GotoType ==
  ASSUME FlowTypeOK, now \in Nat, NEW r \in Requests, NEW l \in Labels, Goto(r, l), Busy(r),
         l = "mail" => flow[r].type \in ActionTokenType,
         l \in {"limit", "dropOld", "create"} => flow[r].type \in ActionTokenType
  PROVE  FlowTypeOK'
  <1> DEFINE v == [flow[r] EXCEPT !.pc = l, !.since = IF l = "create" THEN now ELSE 0]
  <1>1. flow[r] \in Flow /\ KnowsUser(flow[r])
    BY DEF FlowTypeOK
  <1>2. v \in Flow /\ KnowsUser(v) /\ KnowsType(v)
    BY <1>1 DEF Flow, KnowsUser, KnowsType, Busy
  <1>3. flow' = [flow EXCEPT ![r] = v]
    BY DEF Goto
  <1> HIDE DEF v
  <1> QED BY <1>2, <1>3, SetType

\* Steps that only move a request, drop tokens or change an account.
LEMMA OnlyFlowType ==
  ASSUME TokenTypeOK, FlowTypeOK', actionTokens' \subseteq actionTokens,
         account' \in [Users -> {"none", "unverified", "verified", "gone"}],
         UNCHANGED <<now, issued, mails>>
  PROVE  TokenTypeOK'
  BY DEF TokenTypeOK

\* A token is created with an expiry reckoned from some time.
LEMMA CreateIssues ==
  ASSUME TokenTypeOK, NEW r \in Requests, Create(r)
  PROVE  /\ \E sent \in Nat : Issue(r, sent)
         /\ flow[r].pc = "create" /\ Len(issued) < MaxTokens
         /\ UNCHANGED <<now, account, mails, uses, lost, limitVars>>
  <1>1. flow[r].since \in Nat /\ now \in Nat
    BY DEF TokenTypeOK, FlowTypeOK, Flow
  <1>2. \A sent \in flow[r].since..now : sent \in Nat
    BY <1>1
  <1> QED BY <1>2 DEF Create

LEMMA CallType ==
  ASSUME TokenTypeOK, NEW r \in Requests, Call(r)
  PROVE  TokenTypeOK'
  <1> USE DEF TokenTypeOK
  <1>0. 0 \in Nat /\ {"limit", "dropOld", "dropAll", "findUser", "markVerified"} \subseteq Labels
        /\ ActionTokenType = {"passwordReset", "emailVerification"}
    BY DEF Labels, ActionTokenType
  <1>1. ASSUME NEW u \in Users, SignUp(r, u) PROVE TokenTypeOK'
    BY <1>0, <1>1, BeginType, OnlyFlowType DEF SignUp
  <1>2. ASSUME NEW u \in Users, NEW type \in ActionTokenType, AskRateLimit(r, u, type)
        PROVE  TokenTypeOK'
    BY <1>0, <1>2, BeginType, OnlyFlowType DEF AskRateLimit
  <1>3. ASSUME NEW u \in Users, DeleteAccount(r, u) PROVE TokenTypeOK'
    BY <1>0, <1>3, BeginType, OnlyFlowType DEF DeleteAccount
  <1>4. ASSUME NEW h, NEW type \in ActionTokenType, NEW next \in {"findUser", "markVerified"},
               Redeem(r, h, type, next)
        PROVE  TokenTypeOK'
    <2>1. PICK t \in actionTokens :
            /\ Matches(t, h, type)
            /\ actionTokens' = Without(t)
            /\ IF t.expiresAt > now
                 THEN Begin(r, next, type, t.userId, h)
                 ELSE UNCHANGED flow
            /\ UNCHANGED <<now, account, issued, mails>>
      BY <1>4 DEF Redeem
    <2>2. t.userId \in Users /\ h \in Nat
      BY <2>1 DEF ActionToken, Matches
    <2>3. CASE Begin(r, next, type, t.userId, h)
      BY <1>0, <2>1, <2>2, <2>3, BeginType, OnlyFlowType DEF Without
    <2>4. CASE UNCHANGED flow
      BY <2>1, <2>4, OnlyFlowType DEF Without, FlowTypeOK
    <2> QED BY <2>1, <2>3, <2>4
  <1> QED BY <1>0, <1>1, <1>2, <1>3, <1>4
          DEF Call, RequestReset, RequestVerification, Resend, ResetPassword, Verify

LEMMA StepType ==
  ASSUME TokenTypeOK, NEW r \in Requests, Step(r)
  PROVE  TokenTypeOK'
  <1> USE DEF TokenTypeOK
  <1>0. {"create", "dropOld", "mail", "replace"} \subseteq Labels /\ KnowsType(flow[r])
    BY DEF Labels, FlowTypeOK
  <1>1. CASE LimitStep(r)
    BY <1>1, OnlyFlowType DEF LimitStep, tokenVars, FlowTypeOK
  <1>2. CASE Limited(r)
    <2>1. FlowTypeOK'
      BY <1>0, <1>2, GotoType, EndType DEF Limited, Busy, KnowsType
    <2> QED BY <1>2, <2>1, OnlyFlowType DEF Limited
  <1>3. CASE DropOld(r)
    <2>1. FlowTypeOK'
      <3>1. CASE UNCHANGED flow
        BY <3>1 DEF FlowTypeOK
      <3>2. CASE Goto(r, "create")
        BY <1>0, <1>3, <3>2, GotoType DEF DropOld, Busy, KnowsType
      <3> QED BY <1>3, <3>1, <3>2 DEF DropOld
    <2>2. actionTokens' \subseteq actionTokens
      BY <1>3 DEF DropOld
    <2> QED BY <1>3, <2>1, <2>2, OnlyFlowType DEF DropOld
  <1>4. CASE Create(r)
    <2>0. PICK sent \in Nat : Issue(r, sent)
      BY <1>4, CreateIssues
    <2>1. flow[r].type \in ActionTokenType /\ flow[r].user \in Users
      BY <1>0, <1>4 DEF Create, KnowsType, KnowsUser, FlowTypeOK
    <2>2. sent + Ttl(flow[r].type) \in Nat
      BY ActionTokensAssumption DEF Ttl
    <2>3. Len(issued) + 1 \in Nat
      OBVIOUS
    <2>4. [hash |-> Len(issued) + 1, type |-> flow[r].type, userId |-> flow[r].user,
           expiresAt |-> sent + Ttl(flow[r].type)] \in ActionToken
      BY <2>1, <2>2, <2>3 DEF ActionToken
    <2>5. [type |-> flow[r].type, user |-> flow[r].user, expiresAt |-> sent + Ttl(flow[r].type)]
            \in [type: ActionTokenType, user: Users, expiresAt: Nat]
      BY <2>1, <2>2
    <2>6. /\ issued' \in Seq([type: ActionTokenType, user: Users, expiresAt: Nat])
          /\ Len(issued') = Len(issued) + 1
      BY <2>0, <2>5 DEF Issue
    <2>7. FlowTypeOK'
      <3>1. Begin(r, "mail", flow[r].type, flow[r].user, Len(issued) + 1)
        BY <2>0 DEF Issue
      <3> QED BY <1>0, <2>1, <2>3, <3>1, BeginType DEF ActionTokenType
    <2>8. actionTokens' \subseteq ActionToken /\ Len(issued) < MaxTokens
          /\ UNCHANGED <<now, account, mails>>
      BY <1>4, <2>0, <2>4, CreateIssues DEF Issue
    <2> QED BY <2>6, <2>7, <2>8, ActionTokensAssumption
  <1>5. CASE Mail(r)
    <2>1. flow[r].type \in ActionTokenType /\ flow[r].user \in Users /\ flow[r].hash \in Nat
      BY <1>0, <1>5 DEF Mail, KnowsType, KnowsUser, FlowTypeOK, Flow
    <2>2. FlowTypeOK'
      BY <1>5, EndType DEF Mail
    <2> QED BY <1>5, <2>1, <2>2 DEF Mail
  <1>6. CASE FindUser(r)
    <2>1. FlowTypeOK'
      BY <1>0, <1>6, GotoType, EndType DEF FindUser, Busy
    <2> QED BY <1>6, <2>1, OnlyFlowType DEF FindUser
  <1>7. CASE ReplacePassword(r)
    BY <1>7, EndType, OnlyFlowType DEF ReplacePassword
  <1>8. CASE MarkVerified(r)
    BY <1>8, EndType, OnlyFlowType DEF MarkVerified, Verified
  <1>9. CASE DropAll(r)
    BY <1>9, EndType, OnlyFlowType DEF DropAll, FlowTypeOK
  <1> QED BY <1>1, <1>2, <1>3, <1>4, <1>5, <1>6, <1>7, <1>8, <1>9 DEF Step

LEMMA OtherType ==
  ASSUME TokenTypeOK,
         \/ \E r \in Requests : Fail(r)
         \/ Tick
         \/ Purge
         \/ UNCHANGED vars
  PROVE  TokenTypeOK'
  <1> USE DEF TokenTypeOK
  <1>1. ASSUME NEW r \in Requests, Fail(r) PROVE TokenTypeOK'
    BY <1>1, EndType, OnlyFlowType DEF Fail
  <1>2. CASE Tick
    BY <1>2 DEF Tick, tokenVars, FlowTypeOK
  <1>3. CASE Purge
    BY <1>3, OnlyFlowType DEF Purge, tokenVars, FlowTypeOK
  <1>4. CASE UNCHANGED vars
    BY <1>4, OnlyFlowType DEF vars, tokenVars, FlowTypeOK
  <1> QED BY <1>1, <1>2, <1>3, <1>4

LEMMA NextType == TokenTypeOK /\ [Next]_vars => TokenTypeOK'
  BY CallType, StepType, OtherType DEF Next

-----------------------------------------------------------------------------
(* Nobody acts on a token that is still there, or on another's *)

\* A row says what its token was issued for, and no two rows share a hash.
RowsAreIssued ==
    \A t \in actionTokens :
        /\ t.hash \in DOMAIN issued
        /\ t.type = issued[t.hash].type /\ t.userId = issued[t.hash].user
        /\ \A s \in actionTokens : s.hash = t.hash => s = t

MailsAreIssued ==
    /\ \A m \in mails : m.hash \in DOMAIN issued
    /\ \A r \in Requests : flow[r].pc = "mail" => flow[r].hash \in DOMAIN issued

\* A request acts on the word of a token whose row is gone, for the account and
\* the action it was issued for, and is the only one to.
ActsOnSpent ==
    /\ \A r \in Requests :
         Acting(r) => /\ flow[r].hash \in (DOMAIN issued) \ Rows
                      /\ flow[r].user = issued[flow[r].hash].user
                      /\ Act(r) = issued[flow[r].hash].type
    /\ \A r, q \in Requests :
         Acting(r) /\ Acting(q) /\ flow[r].hash = flow[q].hash => r = q

SingleUseInv == RowsAreIssued /\ MailsAreIssued /\ ActsOnSpent

\* What every step does that neither issues, mails nor uses a token.
Calm ==
    /\ actionTokens' \subseteq actionTokens
    /\ UNCHANGED <<issued, mails>>
    /\ \A r \in Requests :
         /\ Acting(r)' => /\ Acting(r) /\ Act(r)' = Act(r)
                          /\ flow'[r].hash = flow[r].hash /\ flow'[r].user = flow[r].user
         /\ flow'[r].pc = "mail" => flow[r].pc = "mail" /\ flow'[r].hash = flow[r].hash

LEMMA CalmKeepsInv ==
  ASSUME SingleUseInv, Calm
  PROVE  SingleUseInv'
  <1> USE DEF SingleUseInv, Calm
  <1>1. RowsAreIssued'
    BY DEF RowsAreIssued
  <1>2. MailsAreIssued'
    BY DEF MailsAreIssued
  <1>3. Rows' \subseteq Rows
    BY DEF Rows
  <1>4. ActsOnSpent'
    <2>1. ASSUME NEW r \in Requests, Acting(r)'
          PROVE  /\ flow'[r].hash \in (DOMAIN issued') \ Rows'
                 /\ flow'[r].user = issued'[flow'[r].hash].user
                 /\ Act(r)' = issued'[flow'[r].hash].type
      BY <1>3, <2>1 DEF ActsOnSpent
    <2>2. ASSUME NEW r \in Requests, NEW q \in Requests, Acting(r)', Acting(q)',
                 flow'[r].hash = flow'[q].hash
          PROVE  r = q
      BY <2>2 DEF ActsOnSpent
    <2> QED BY <2>1, <2>2 DEF ActsOnSpent
  <1> QED BY <1>1, <1>2, <1>4

\* A request that ends, or goes on to something that concerns no token.
LEMMA CalmRequest ==
  ASSUME TokenTypeOK, NEW r \in Requests, NEW v, flow' = [flow EXCEPT ![r] = v],
         v.pc \notin {"mail", "findUser", "replace", "markVerified"},
         actionTokens' \subseteq actionTokens, UNCHANGED <<issued, mails>>
  PROVE  Calm
  BY DEF TokenTypeOK, FlowTypeOK, Calm, Acting, Act

LEMMA CalmGoto ==
  ASSUME TokenTypeOK, NEW r \in Requests, NEW l, Goto(r, l),
         l \notin {"mail", "findUser", "replace", "markVerified"},
         actionTokens' \subseteq actionTokens, UNCHANGED <<issued, mails>>
  PROVE  Calm
  <1> DEFINE v == [flow[r] EXCEPT !.pc = l, !.since = IF l = "create" THEN now ELSE 0]
  <1>1. v.pc = l /\ flow' = [flow EXCEPT ![r] = v]
    BY DEF TokenTypeOK, FlowTypeOK, Flow, Goto
  <1> HIDE DEF v
  <1> QED BY <1>1, CalmRequest

LEMMA CalmEnd ==
  ASSUME TokenTypeOK, NEW r \in Requests, End(r),
         actionTokens' \subseteq actionTokens, UNCHANGED <<issued, mails>>
  PROVE  Calm
  BY CalmRequest DEF End, Idle

LEMMA CalmBegin ==
  ASSUME TokenTypeOK, NEW r \in Requests, NEW l, NEW type, NEW u, NEW h, Begin(r, l, type, u, h),
         l \notin {"mail", "findUser", "replace", "markVerified"},
         actionTokens' \subseteq actionTokens, UNCHANGED <<issued, mails>>
  PROVE  Calm
  BY CalmRequest DEF Begin

LEMMA CalmRest ==
  ASSUME UNCHANGED flow, actionTokens' \subseteq actionTokens, UNCHANGED <<issued, mails>>
  PROVE  Calm
  BY DEF Calm, Acting, Act

\* A token was found, deleted and still good: the request may act on its word.
Uses(r, t, type, next) ==
    /\ t \in actionTokens /\ t.type = type /\ t.expiresAt > now
    /\ actionTokens' = actionTokens \ {t}
    /\ Begin(r, next, type, t.userId, t.hash)
    /\ UNCHANGED <<now, account, issued, mails>>

\* It was found and had run out.
Discards(t) ==
    /\ t \in actionTokens
    /\ actionTokens' = actionTokens \ {t}
    /\ UNCHANGED <<now, account, issued, mails, flow>>

LEMMA RedeemUsesOrDiscards ==
  ASSUME NEW r, NEW h, NEW type, NEW next, Redeem(r, h, type, next)
  PROVE  \/ \E t \in actionTokens : t.hash = h /\ Uses(r, t, type, next)
         \/ \E t \in actionTokens : Discards(t)
  BY DEF Redeem, Matches, Without, Uses, Discards

LEMMA UseKeepsInv ==
  ASSUME TokenTypeOK, SingleUseInv, NEW r \in Requests, NEW t, NEW type, NEW next,
         Uses(r, t, type, next),
         \/ type = "passwordReset" /\ next = "findUser"
         \/ type = "emailVerification" /\ next = "markVerified"
  PROVE  SingleUseInv'
  <1> USE DEF SingleUseInv, Uses
  <1>1. flow'[r] = [pc |-> next, type |-> type, user |-> t.userId, hash |-> t.hash, since |-> 0]
        /\ \A q \in Requests \ {r} : flow'[q] = flow[q]
    BY DEF Begin, TokenTypeOK, FlowTypeOK
  <1>2. Acting(r)' /\ Act(r)' = type /\ flow'[r].hash = t.hash /\ flow'[r].user = t.userId
        /\ flow'[r].pc # "mail"
    BY <1>1 DEF Acting, Act
  <1>3. \A q \in Requests \ {r} : /\ Acting(q)' <=> Acting(q)
                                  /\ Act(q)' = Act(q)
    BY <1>1 DEF Acting, Act
  <1>4. RowsAreIssued'
    BY DEF RowsAreIssued
  <1>5. MailsAreIssued'
    BY <1>1, <1>2 DEF MailsAreIssued
  <1>6. Rows' = Rows \ {t.hash} /\ t.hash \in Rows
    BY DEF Rows, RowsAreIssued
  <1>7. ActsOnSpent'
    <2>1. ASSUME NEW q \in Requests, Acting(q)'
          PROVE  /\ flow'[q].hash \in (DOMAIN issued') \ Rows'
                 /\ flow'[q].user = issued'[flow'[q].hash].user
                 /\ Act(q)' = issued'[flow'[q].hash].type
      <3>1. CASE q = r
        BY <1>2, <1>6, <3>1 DEF RowsAreIssued
      <3>2. CASE q # r
        BY <1>1, <1>3, <1>6, <2>1, <3>2 DEF ActsOnSpent
      <3> QED BY <3>1, <3>2
    <2>2. ASSUME NEW q \in Requests \ {r}, Acting(q)' PROVE flow'[q].hash # t.hash
      BY <1>1, <1>3, <1>6, <2>2 DEF ActsOnSpent
    <2>3. ASSUME NEW p \in Requests, NEW q \in Requests, Acting(p)', Acting(q)',
                 flow'[p].hash = flow'[q].hash
          PROVE  p = q
      BY <1>1, <1>2, <1>3, <2>2, <2>3 DEF ActsOnSpent
    <2> QED BY <2>1, <2>3 DEF ActsOnSpent
  <1> QED BY <1>4, <1>5, <1>7

LEMMA CallKeepsInv ==
  ASSUME TokenTypeOK, SingleUseInv, NEW r \in Requests, Call(r)
  PROVE  SingleUseInv'
  <1>1. ASSUME NEW u \in Users, SignUp(r, u) PROVE SingleUseInv'
    BY <1>1, CalmBegin, CalmKeepsInv DEF SignUp
  <1>2. ASSUME NEW u, NEW type, AskRateLimit(r, u, type) PROVE SingleUseInv'
    BY <1>2, CalmBegin, CalmKeepsInv DEF AskRateLimit
  <1>3. ASSUME NEW u \in Users, DeleteAccount(r, u) PROVE SingleUseInv'
    BY <1>3, CalmBegin, CalmKeepsInv DEF DeleteAccount
  <1>4. ASSUME NEW t \in actionTokens, Discards(t) PROVE SingleUseInv'
    BY <1>4, CalmRest, CalmKeepsInv DEF Discards
  <1>5. ASSUME NEW h, ResetPassword(r, h) PROVE SingleUseInv'
    BY <1>4, <1>5, RedeemUsesOrDiscards, UseKeepsInv DEF ResetPassword
  <1>6. ASSUME NEW h, Verify(r, h) PROVE SingleUseInv'
    BY <1>4, <1>6, RedeemUsesOrDiscards, UseKeepsInv DEF Verify
  <1> QED BY <1>1, <1>2, <1>3, <1>5, <1>6
          DEF Call, RequestReset, RequestVerification, Resend

LEMMA CreateKeepsInv ==
  ASSUME TokenTypeOK, SingleUseInv, NEW r \in Requests, Create(r)
  PROVE  SingleUseInv'
  <1>0. PICK sent \in Nat : Issue(r, sent)
    BY CreateIssues
  <1> DEFINE h == Len(issued) + 1
  <1> DEFINE t == [hash |-> h, type |-> flow[r].type, userId |-> flow[r].user,
                   expiresAt |-> sent + Ttl(flow[r].type)]
  <1>1. /\ h \in Nat /\ h \notin DOMAIN issued
        /\ DOMAIN issued' = (DOMAIN issued) \cup {h}
        /\ issued'[h].type = flow[r].type /\ issued'[h].user = flow[r].user
        /\ \A g \in DOMAIN issued : issued'[g] = issued[g]
    BY <1>0 DEF TokenTypeOK, Issue
  <1>2. actionTokens' = actionTokens \cup {t}
    BY <1>0 DEF Issue
  <1>3. flow'[r].pc = "mail" /\ flow'[r].hash = h /\ ~ Acting(r)'
        /\ \A q \in Requests \ {r} : flow'[q] = flow[q]
    BY <1>0 DEF Issue, Begin, TokenTypeOK, FlowTypeOK, Acting
  <1>4. t.hash = h /\ t.type = flow[r].type /\ t.userId = flow[r].user
    OBVIOUS
  <1>5. UNCHANGED mails
    BY CreateIssues
  <1> HIDE DEF h, t
  <1>6. RowsAreIssued'
    BY <1>1, <1>2, <1>4 DEF SingleUseInv, RowsAreIssued
  <1>7. MailsAreIssued'
    BY <1>1, <1>3, <1>5 DEF SingleUseInv, MailsAreIssued
  <1>8. Rows' = Rows \cup {h}
    BY <1>2, <1>4 DEF Rows
  <1>9. ActsOnSpent'
    BY <1>1, <1>3, <1>8 DEF SingleUseInv, ActsOnSpent, Acting, Act
  <1> QED BY <1>6, <1>7, <1>9 DEF SingleUseInv

LEMMA MailKeepsInv ==
  ASSUME TokenTypeOK, SingleUseInv, NEW r \in Requests, Mail(r)
  PROVE  SingleUseInv'
  <1>1. flow'[r] = Idle /\ \A q \in Requests \ {r} : flow'[q] = flow[q]
    BY DEF Mail, End, TokenTypeOK, FlowTypeOK
  <1>2. UNCHANGED <<issued, actionTokens>>
        /\ \A m \in mails' : m \in mails \/ m.hash = flow[r].hash
    BY DEF Mail
  <1>3. ~ Acting(r)' /\ flow'[r].pc # "mail"
    BY <1>1 DEF Acting, Idle
  <1>4. RowsAreIssued'
    BY <1>2 DEF SingleUseInv, RowsAreIssued
  <1>5. MailsAreIssued'
    BY <1>1, <1>2, <1>3 DEF SingleUseInv, MailsAreIssued, Mail
  <1>6. ActsOnSpent'
    BY <1>1, <1>2, <1>3 DEF SingleUseInv, ActsOnSpent, Acting, Act, Rows
  <1> QED BY <1>4, <1>5, <1>6 DEF SingleUseInv

LEMMA FindUserIsCalm ==
  ASSUME TokenTypeOK, NEW r \in Requests, FindUser(r)
  PROVE  Calm
  <1>1. CASE Goto(r, "replace")
    BY <1>1 DEF FindUser, Goto, Calm, Acting, Act, TokenTypeOK, FlowTypeOK, Flow
  <1>2. CASE End(r)
    BY <1>2, CalmEnd DEF FindUser
  <1> QED BY <1>1, <1>2 DEF FindUser

LEMMA StepKeepsInv ==
  ASSUME TokenTypeOK, SingleUseInv, NEW r \in Requests, Step(r)
  PROVE  SingleUseInv'
  <1>1. CASE LimitStep(r)
    BY <1>1, CalmRest, CalmKeepsInv DEF LimitStep, tokenVars
  <1>2. CASE Limited(r)
    <2>1. Goto(r, "dropOld") \/ End(r)
      BY <1>2 DEF Limited
    <2> QED BY <1>2, <2>1, CalmGoto, CalmEnd, CalmKeepsInv DEF Limited
  <1>3. CASE DropOld(r)
    <2>1. Goto(r, "create") \/ UNCHANGED flow
      BY <1>3 DEF DropOld
    <2>2. actionTokens' \subseteq actionTokens /\ UNCHANGED <<issued, mails>>
      BY <1>3 DEF DropOld
    <2> QED BY <2>1, <2>2, CalmGoto, CalmRest, CalmKeepsInv
  <1>4. CASE Create(r)
    BY <1>4, CreateKeepsInv
  <1>5. CASE Mail(r)
    BY <1>5, MailKeepsInv
  <1>6. CASE FindUser(r)
    BY <1>6, FindUserIsCalm, CalmKeepsInv
  <1>7. CASE ReplacePassword(r) \/ MarkVerified(r)
    BY <1>7, CalmEnd, CalmKeepsInv DEF ReplacePassword, MarkVerified
  <1>8. CASE DropAll(r)
    BY <1>8, CalmEnd, CalmRest, CalmKeepsInv DEF DropAll
  <1> QED BY <1>1, <1>2, <1>3, <1>4, <1>5, <1>6, <1>7, <1>8 DEF Step

LEMMA OtherKeepsInv ==
  ASSUME TokenTypeOK, SingleUseInv,
         \/ \E r \in Requests : Fail(r)
         \/ Tick
         \/ Purge
         \/ UNCHANGED vars
  PROVE  SingleUseInv'
  <1>1. ASSUME NEW r \in Requests, Fail(r) PROVE SingleUseInv'
    BY <1>1, CalmEnd, CalmKeepsInv DEF Fail
  <1>2. CASE Tick
    BY <1>2, CalmRest, CalmKeepsInv DEF Tick, tokenVars
  <1>3. CASE Purge
    BY <1>3, CalmRest, CalmKeepsInv DEF Purge, tokenVars
  <1>4. CASE UNCHANGED vars
    BY <1>4, CalmRest, CalmKeepsInv DEF vars, tokenVars
  <1> QED BY <1>1, <1>2, <1>3, <1>4

LEMMA InvHolds == Spec => [](TokenTypeOK /\ SingleUseInv)
  <1>1. Init => SingleUseInv
    BY DEF Init, SingleUseInv, RowsAreIssued, MailsAreIssued, ActsOnSpent, Acting, Idle
  <1>2. TokenTypeOK /\ SingleUseInv /\ [Next]_vars => SingleUseInv'
    BY CallKeepsInv, StepKeepsInv, OtherKeepsInv DEF Next
  <1> QED BY InitType, NextType, <1>1, <1>2, PTL DEF Spec

-----------------------------------------------------------------------------
(* A deleted account stays deleted *)

\* No step of any flow opens an account again: the one write to an account that
\* was not looked up first, that of a redeemed verification, needs its row.
THEOREM GoneIsGone == Spec => GoneStaysGone
  <1>1. TokenTypeOK /\ [Next]_vars => [\A u \in Users : account[u] = "gone" => account'[u] = "gone"]_vars
    <2> SUFFICES ASSUME TokenTypeOK, [Next]_vars, NEW u \in Users, account[u] = "gone"
                 PROVE  account'[u] = "gone"
      OBVIOUS
    <2> USE DEF TokenTypeOK
    <2>1. ASSUME NEW r \in Requests, NEW v \in Users, SignUp(r, v) \/ DeleteAccount(r, v)
          PROVE  account'[u] = "gone"
      BY <2>1 DEF SignUp, DeleteAccount, Exists
    <2>2. ASSUME NEW r \in Requests, MarkVerified(r) PROVE account'[u] = "gone"
      BY <2>2 DEF MarkVerified, Verified, Exists
    <2>3. ASSUME NEW r \in Requests, Call(r) PROVE account'[u] = "gone"
      BY <2>1, <2>3 DEF Call, RequestReset, RequestVerification, Resend, AskRateLimit,
                        ResetPassword, Verify, Redeem
    <2>4. ASSUME NEW r \in Requests, Step(r) PROVE account'[u] = "gone"
      BY <2>2, <2>4 DEF Step, LimitStep, tokenVars, Limited, DropOld, Create, Mail, FindUser,
                        ReplacePassword, DropAll
    <2>5. CASE \/ \E r \in Requests : Fail(r)
               \/ Tick
               \/ Purge
               \/ UNCHANGED vars
      BY <2>5 DEF Fail, Tick, Purge, vars, tokenVars
    <2> QED BY <2>3, <2>4, <2>5 DEF Next
  <1> QED BY InitType, NextType, <1>1, PTL DEF Spec, GoneStaysGone

-----------------------------------------------------------------------------
(* The last token to be issued is there *)

RowsKeepExpiry == \A t \in actionTokens : t.expiresAt = issued[t.hash].expiresAt

UsersAreKnown ==
    /\ \A r \in Requests : Busy(r) => account[flow[r].user] # "none"
    /\ \A h \in DOMAIN issued : account[issued[h].user] # "none"

CleansUpAfterTheGone ==
    \A r \in Requests : flow[r].pc = "dropAll" => account[flow[r].user] = "gone"

\* Issues, without those that ask the rate limit: they may yet be refused.
Replaces(r, u, type) ==
    flow[r].pc \in {"dropOld", "create"} /\ flow[r].user = u /\ flow[r].type = type

\* Why token h may have no row.
Excused(h, u, type) ==
    \/ issued[h].expiresAt <= now \/ uses[h] > 0 \/ ~ Exists(u)
    \/ <<u, type>> \in lost
    \/ \E r \in Requests : Replaces(r, u, type)

Stands(h) ==
    \/ \E g \in DOMAIN issued :
          g > h /\ issued[g].user = issued[h].user /\ issued[g].type = issued[h].type
    \/ Excused(h, issued[h].user, issued[h].type)
    \/ \E t \in actionTokens : t.hash = h

NewestInv ==
    /\ uses \in [1..MaxTokens -> Nat]
    /\ RowsKeepExpiry
    /\ UsersAreKnown
    /\ CleansUpAfterTheGone
    /\ \A h \in DOMAIN issued : Stands(h)

\* A step that issues nothing, and drops a row only for a reason.
Orderly ==
    /\ UNCHANGED issued
    /\ now' \in Nat /\ now <= now'
    /\ uses' \in [1..MaxTokens -> Nat] /\ \A h \in 1..MaxTokens : uses[h] <= uses'[h]
    /\ lost \subseteq lost'
    /\ actionTokens' \subseteq actionTokens
    /\ \A u \in Users : /\ account[u] # "none" => account'[u] # "none"
                        /\ account[u] = "gone" => account'[u] = "gone"
                        /\ account[u] # "none" /\ Exists(u)' => Exists(u)
    /\ \A r \in Requests :
         /\ Busy(r)' => account'[flow'[r].user] # "none"
         /\ flow'[r].pc = "dropAll" => account'[flow'[r].user] = "gone"
         /\ flow[r].pc \in {"dropOld", "create"} =>
                \/ /\ flow'[r].pc \in {"dropOld", "create"}
                   /\ flow'[r].user = flow[r].user /\ flow'[r].type = flow[r].type
                \/ <<flow[r].user, flow[r].type>> \in lost'
    /\ \A t \in actionTokens : t \in actionTokens' \/ Excused(t.hash, t.userId, t.type)'

LEMMA IssuedType ==
  ASSUME TokenTypeOK, NEW h \in DOMAIN issued
  PROVE  /\ h \in Nat /\ h \in 1..MaxTokens
         /\ issued[h].user \in Users /\ issued[h].type \in ActionTokenType
         /\ issued[h].expiresAt \in Nat
  <1> DEFINE T == [type: ActionTokenType, user: Users, expiresAt: Nat]
  <1>1. issued \in Seq(T) /\ Len(issued) <= MaxTokens
    BY DEF TokenTypeOK
  <1> HIDE DEF T
  <1>2. issued[h] \in T /\ h \in 1..Len(issued) /\ Len(issued) \in Nat
    BY <1>1
  <1> QED BY <1>1, <1>2, ActionTokensAssumption DEF T

LEMMA OrderlyKeepsNewest ==
  ASSUME TokenTypeOK, SingleUseInv, NewestInv, Orderly
  PROVE  NewestInv'
  <1> USE DEF NewestInv, Orderly
  <1>1. RowsKeepExpiry'
    BY DEF RowsKeepExpiry
  <1>2. UsersAreKnown'
    <2>1. \A h \in DOMAIN issued : issued[h].user \in Users
      BY IssuedType
    <2> QED BY <2>1 DEF UsersAreKnown
  <1>3. CleansUpAfterTheGone'
    BY DEF CleansUpAfterTheGone
  <1>4. ASSUME NEW h \in DOMAIN issued PROVE Stands(h)'
    <2>0. /\ h \in 1..MaxTokens /\ h \in Nat
          /\ issued[h].user \in Users /\ issued[h].expiresAt \in Nat
          /\ account[issued[h].user] # "none" /\ now \in Nat
          /\ uses[h] \in Nat /\ uses'[h] \in Nat
      BY IssuedType DEF TokenTypeOK, UsersAreKnown
    <2>1. CASE \E g \in DOMAIN issued : g > h /\ issued[g].user = issued[h].user
                                              /\ issued[g].type = issued[h].type
      BY <2>1 DEF Stands
    <2>2. CASE \E t \in actionTokens : t.hash = h
      BY <2>2 DEF Stands, SingleUseInv, RowsAreIssued
    <2>3. CASE \E r \in Requests : Replaces(r, issued[h].user, issued[h].type)
      BY <2>3 DEF Stands, Excused, Replaces
    <2>4. CASE \/ uses[h] > 0 \/ ~ Exists(issued[h].user)
               \/ <<issued[h].user, issued[h].type>> \in lost
      BY <2>0, <2>4 DEF Stands, Excused
    <2>5. CASE issued[h].expiresAt <= now
      BY <2>0, <2>5 DEF Stands, Excused
    <2> QED BY <2>1, <2>2, <2>3, <2>4, <2>5 DEF Stands, Excused
  <1> QED BY <1>1, <1>2, <1>3, <1>4

\* A step of one request whose row is v, which frees or moves it on.
LEMMA MoveIsOrderly ==
  ASSUME TokenTypeOK, NewestInv, NEW r \in Requests, NEW v,
         flow' = [flow EXCEPT ![r] = v],
         v.pc # "idle" => account'[v.user] # "none",
         v.pc = "dropAll" => account'[v.user] = "gone",
         flow[r].pc \in {"dropOld", "create"} =>
            \/ v.pc \in {"dropOld", "create"} /\ v.user = flow[r].user /\ v.type = flow[r].type
            \/ <<flow[r].user, flow[r].type>> \in lost',
         UNCHANGED <<issued, now>>,
         uses' \in [1..MaxTokens -> Nat], \A h \in 1..MaxTokens : uses[h] <= uses'[h],
         lost \subseteq lost', actionTokens' \subseteq actionTokens,
         \A u \in Users : /\ account[u] # "none" => account'[u] # "none"
                          /\ account[u] = "gone" => account'[u] = "gone"
                          /\ account[u] # "none" /\ Exists(u)' => Exists(u),
         \A t \in actionTokens : t \in actionTokens' \/ Excused(t.hash, t.userId, t.type)'
  PROVE  Orderly
  <1>1. flow'[r] = v /\ \A q \in Requests \ {r} : flow'[q] = flow[q]
    BY DEF TokenTypeOK, FlowTypeOK
  <1>2. \A q \in Requests : Busy(q) => flow[q].user \in Users
    BY DEF TokenTypeOK, FlowTypeOK, KnowsUser, Busy
  <1>3. ASSUME NEW q \in Requests
        PROVE  /\ Busy(q)' => account'[flow'[q].user] # "none"
               /\ flow'[q].pc = "dropAll" => account'[flow'[q].user] = "gone"
               /\ flow[q].pc \in {"dropOld", "create"} =>
                    \/ /\ flow'[q].pc \in {"dropOld", "create"}
                       /\ flow'[q].user = flow[q].user /\ flow'[q].type = flow[q].type
                    \/ <<flow[q].user, flow[q].type>> \in lost'
    <2>1. CASE q = r
      BY <1>1, <2>1 DEF Busy
    <2>2. CASE q # r
      BY <1>1, <1>2, <2>2 DEF Busy, NewestInv, UsersAreKnown, CleansUpAfterTheGone
    <2> QED BY <2>1, <2>2
  <1>4. now' \in Nat /\ now <= now'
    BY DEF TokenTypeOK
  <1> QED BY <1>3, <1>4 DEF Orderly

\* ... that touches no account, no row and no history.
LEMMA MoveOnIsOrderly ==
  ASSUME TokenTypeOK, NewestInv, NEW r \in Requests, NEW v,
         flow' = [flow EXCEPT ![r] = v],
         v.pc # "idle" => account[v.user] # "none",
         v.pc = "dropAll" => account[v.user] = "gone",
         flow[r].pc \in {"dropOld", "create"} =>
            v.pc \in {"dropOld", "create"} /\ v.user = flow[r].user /\ v.type = flow[r].type,
         UNCHANGED <<issued, now, uses, lost, actionTokens, account>>
  PROVE  Orderly
  <1>1. \A h \in 1..MaxTokens : uses[h] <= uses'[h]
    BY DEF NewestInv
  <1>2. \A u \in Users : Exists(u)' => Exists(u)
    BY DEF Exists
  <1>3. uses' \in [1..MaxTokens -> Nat]
    BY DEF NewestInv
  <1> QED BY <1>1, <1>2, <1>3, MoveIsOrderly

\* No request moves.
LEMMA RestIsOrderly ==
  ASSUME TokenTypeOK, NewestInv, UNCHANGED <<flow, issued, uses, lost, account>>,
         now' \in Nat, now <= now', actionTokens' \subseteq actionTokens,
         \A t \in actionTokens : t \in actionTokens' \/ Excused(t.hash, t.userId, t.type)'
  PROVE  Orderly
  <1>1. \A h \in 1..MaxTokens : uses[h] <= uses'[h]
    BY DEF NewestInv
  <1>2. \A u \in Users : Exists(u)' => Exists(u)
    BY DEF Exists
  <1>3. \A r \in Requests : /\ Busy(r)' => Busy(r)
                            /\ Busy(r) => account'[flow'[r].user] # "none"
                            /\ flow'[r].pc = "dropAll" => account'[flow'[r].user] = "gone"
    BY DEF Busy, NewestInv, UsersAreKnown, CleansUpAfterTheGone
  <1>4. uses' \in [1..MaxTokens -> Nat]
    BY DEF NewestInv
  <1> QED BY <1>1, <1>2, <1>3, <1>4 DEF Orderly

LEMMA RowFacts ==
  ASSUME TokenTypeOK, SingleUseInv, NewestInv, NEW t \in actionTokens
  PROVE  /\ t.hash \in DOMAIN issued /\ t.hash \in 1..MaxTokens
         /\ t.userId = issued[t.hash].user /\ t.type = issued[t.hash].type
         /\ t.expiresAt = issued[t.hash].expiresAt
         /\ t.userId \in Users /\ account[t.userId] # "none"
         /\ t.expiresAt \in Nat
  BY IssuedType DEF SingleUseInv, RowsAreIssued, NewestInv, RowsKeepExpiry, UsersAreKnown

LEMMA RedeemIsOrderly ==
  ASSUME TokenTypeOK, SingleUseInv, NewestInv, NEW r \in Requests, NEW h, NEW type, NEW next,
         next \in {"findUser", "markVerified"},
         ~ Busy(r), Redeem(r, h, type, next)
  PROVE  Orderly
  <1>1. PICK t \in actionTokens :
          /\ t.hash = h
          /\ actionTokens' = actionTokens \ {t}
          /\ IF t.expiresAt > now
               THEN /\ uses' = [uses EXCEPT ![h] = @ + 1]
                    /\ Begin(r, next, type, t.userId, h)
               ELSE UNCHANGED <<flow, uses>>
          /\ UNCHANGED <<now, account, issued, lost>>
    BY DEF Redeem, Matches, Without
  <1>2. /\ h \in 1..MaxTokens /\ t.userId \in Users /\ account[t.userId] # "none"
        /\ issued[h].expiresAt = t.expiresAt /\ t.expiresAt \in Nat
    BY <1>1, RowFacts
  <1>3. CASE t.expiresAt > now
    <2> DEFINE v == [pc |-> next, type |-> type, user |-> t.userId, hash |-> h, since |-> 0]
    <2>1. flow' = [flow EXCEPT ![r] = v] /\ v.pc = next /\ v.user = t.userId
      BY <1>1, <1>3 DEF Begin
    <2>2. /\ uses' \in [1..MaxTokens -> Nat] /\ \A g \in 1..MaxTokens : uses[g] <= uses'[g]
          /\ uses'[h] > 0
      <3>1. uses \in [1..MaxTokens -> Nat] /\ uses' = [uses EXCEPT ![h] = uses[h] + 1]
        BY <1>1, <1>3 DEF NewestInv
      <3>2. uses[h] \in Nat /\ uses'[h] = uses[h] + 1
            /\ \A g \in (1..MaxTokens) \ {h} : uses'[g] = uses[g] /\ uses[g] \in Nat
        BY <1>2, <3>1
      <3>3. uses' \in [1..MaxTokens -> Nat]
        BY <3>1, <3>2
      <3>4. ASSUME NEW g \in 1..MaxTokens PROVE uses[g] <= uses'[g]
        BY <3>2
      <3> QED BY <3>2, <3>3, <3>4
    <2>3. \A s \in actionTokens : s \in actionTokens' \/ Excused(s.hash, s.userId, s.type)'
      BY <1>1, <2>2 DEF Excused
    <2>4. \A u \in Users : Exists(u)' => Exists(u)
      BY <1>1 DEF Exists
    <2> HIDE DEF v
    <2> QED BY <1>1, <1>2, <2>1, <2>2, <2>3, <2>4, MoveIsOrderly DEF Busy
  <1>4. CASE ~ (t.expiresAt > now)
    <2>1. now \in Nat /\ t.expiresAt <= now
      BY <1>2, <1>4 DEF TokenTypeOK
    <2>2. Excused(t.hash, t.userId, t.type)'
      BY <1>1, <1>2, <2>1 DEF Excused
    <2> QED BY <1>1, <1>4, <2>1, <2>2, RestIsOrderly
  <1> QED BY <1>3, <1>4

LEMMA CallIsOrderly ==
  ASSUME TokenTypeOK, SingleUseInv, NewestInv, NEW r \in Requests, Call(r)
  PROVE  Orderly
  <1>0. ~ Busy(r)
    BY DEF Call, SignUp, RequestReset, RequestVerification, Resend, DeleteAccount, ResetPassword,
           Verify, Accepts
  <1>1. ASSUME NEW u \in Users, SignUp(r, u) PROVE Orderly
    <2> DEFINE v == [pc |-> "dropOld", type |-> "emailVerification", user |-> u, hash |-> 0,
                     since |-> 0]
    <2>1. flow' = [flow EXCEPT ![r] = v] /\ v.pc = "dropOld" /\ v.user = u
      BY <1>1 DEF SignUp, Begin
    <2>2. /\ account[u] = "none" /\ account' = [account EXCEPT ![u] = "unverified"]
          /\ UNCHANGED <<now, actionTokens, issued, uses, lost>>
      BY <1>1 DEF SignUp
    <2>3. \A w \in Users : /\ account[w] # "none" => account'[w] # "none"
                           /\ account[w] = "gone" => account'[w] = "gone"
                           /\ account[w] # "none" /\ Exists(w)' => Exists(w)
      BY <2>2 DEF Exists, TokenTypeOK
    <2>4. account'[u] # "none"
      BY <2>2 DEF TokenTypeOK
    <2>5. uses' \in [1..MaxTokens -> Nat] /\ \A h \in 1..MaxTokens : uses[h] <= uses'[h]
      BY <2>2 DEF NewestInv
    <2> HIDE DEF v
    <2> QED BY <1>0, <2>1, <2>2, <2>3, <2>4, <2>5, MoveIsOrderly DEF Busy
  <1>2. ASSUME NEW u \in Users, NEW type, AskRateLimit(r, u, type), account[u] # "none"
        PROVE  Orderly
    <2> DEFINE v == [pc |-> "limit", type |-> type, user |-> u, hash |-> 0, since |-> 0]
    <2>1. flow' = [flow EXCEPT ![r] = v] /\ v.pc = "limit" /\ v.user = u
          /\ UNCHANGED <<now, account, actionTokens, issued, uses, lost>>
      BY <1>2 DEF AskRateLimit, Begin
    <2> HIDE DEF v
    <2> QED BY <1>0, <1>2, <2>1, MoveOnIsOrderly DEF Busy
  <1>3. ASSUME NEW u \in Users, DeleteAccount(r, u) PROVE Orderly
    <2> DEFINE v == [pc |-> "dropAll", type |-> "none", user |-> u, hash |-> 0, since |-> 0]
    <2>1. flow' = [flow EXCEPT ![r] = v] /\ v.pc = "dropAll" /\ v.user = u
      BY <1>3 DEF DeleteAccount, Begin
    <2>2. /\ account' = [account EXCEPT ![u] = "gone"]
          /\ UNCHANGED <<now, actionTokens, issued, uses, lost>>
      BY <1>3 DEF DeleteAccount
    <2>3. \A w \in Users : /\ account[w] # "none" => account'[w] # "none"
                           /\ account[w] = "gone" => account'[w] = "gone"
                           /\ account[w] # "none" /\ Exists(w)' => Exists(w)
      BY <2>2 DEF Exists, TokenTypeOK
    <2>4. account'[u] = "gone"
      BY <2>2 DEF TokenTypeOK
    <2>5. uses' \in [1..MaxTokens -> Nat] /\ \A h \in 1..MaxTokens : uses[h] <= uses'[h]
      BY <2>2 DEF NewestInv
    <2> HIDE DEF v
    <2> QED BY <1>0, <2>1, <2>2, <2>3, <2>4, <2>5, MoveIsOrderly DEF Busy
  <1>4. ASSUME NEW h, ResetPassword(r, h) \/ Verify(r, h) PROVE Orderly
    BY <1>0, <1>4, RedeemIsOrderly DEF ResetPassword, Verify
  <1> QED BY <1>1, <1>2, <1>3, <1>4
          DEF Call, RequestReset, RequestVerification, Resend, Exists

LEMMA GotoIsOrderly ==
  ASSUME TokenTypeOK, NewestInv, NEW r \in Requests, NEW l, Goto(r, l), Busy(r),
         l # "dropAll",
         flow[r].pc \in {"dropOld", "create"} => l \in {"dropOld", "create"},
         UNCHANGED <<issued, now, uses, lost, actionTokens, account>>
  PROVE  Orderly
  <1> DEFINE v == [flow[r] EXCEPT !.pc = l, !.since = IF l = "create" THEN now ELSE 0]
  <1>1. /\ v.pc = l /\ v.user = flow[r].user /\ v.type = flow[r].type
        /\ flow' = [flow EXCEPT ![r] = v]
    BY DEF Goto, TokenTypeOK, FlowTypeOK, Flow
  <1>2. account[flow[r].user] # "none"
    BY DEF NewestInv, UsersAreKnown
  <1> HIDE DEF v
  <1> QED BY <1>1, <1>2, MoveOnIsOrderly

LEMMA EndIsOrderly ==
  ASSUME TokenTypeOK, NewestInv, NEW r \in Requests, End(r),
         flow[r].pc \notin {"dropOld", "create"},
         UNCHANGED <<issued, now, uses, lost, actionTokens, account>>
  PROVE  Orderly
  BY MoveOnIsOrderly DEF End, Idle

LEMMA CreateKeepsNewest ==
  ASSUME TokenTypeOK, SingleUseInv, NewestInv, NEW r \in Requests, Create(r)
  PROVE  NewestInv'
  <1>0. PICK sent \in Nat : Issue(r, sent)
    BY CreateIssues
  <1> DEFINE h == Len(issued) + 1
             t == [hash |-> h, type |-> flow[r].type, userId |-> flow[r].user,
                   expiresAt |-> sent + Ttl(flow[r].type)]
             v == [pc |-> "mail", type |-> flow[r].type, user |-> flow[r].user, hash |-> h,
                   since |-> 0]
  <1>1. /\ h \in Nat /\ h \notin DOMAIN issued
        /\ DOMAIN issued' = (DOMAIN issued) \cup {h}
        /\ issued'[h].type = flow[r].type /\ issued'[h].user = flow[r].user
        /\ issued'[h].expiresAt = sent + Ttl(flow[r].type)
        /\ \A g \in DOMAIN issued : issued'[g] = issued[g] /\ g < h
    BY <1>0 DEF TokenTypeOK, Issue
  <1>2. actionTokens' = actionTokens \cup {t}
        /\ UNCHANGED <<now, account, uses, lost>>
    BY <1>0, CreateIssues DEF Issue
  <1>3. flow' = [flow EXCEPT ![r] = v] /\ flow[r].pc = "create"
    BY <1>0, CreateIssues DEF Issue, Begin
  <1>4. t.hash = h /\ t.expiresAt = sent + Ttl(flow[r].type)
        /\ v.pc = "mail" /\ v.user = flow[r].user
    OBVIOUS
  <1> HIDE DEF h, t, v
  <1>5. flow'[r] = v /\ \A q \in Requests \ {r} : flow'[q] = flow[q]
    BY <1>3 DEF TokenTypeOK, FlowTypeOK
  <1>6. account[flow[r].user] # "none"
    BY <1>3 DEF NewestInv, UsersAreKnown, Busy
  <1>7. RowsKeepExpiry'
    BY <1>1, <1>2, <1>4 DEF NewestInv, RowsKeepExpiry, SingleUseInv, RowsAreIssued
  <1>8. UsersAreKnown'
    <2>1. \A q \in Requests : Busy(q)' => account'[flow'[q].user] # "none"
      BY <1>2, <1>4, <1>5, <1>6 DEF Busy, NewestInv, UsersAreKnown
    <2>2. \A g \in DOMAIN issued' : account'[issued'[g].user] # "none"
      BY <1>1, <1>2, <1>6 DEF NewestInv, UsersAreKnown
    <2> QED BY <2>1, <2>2 DEF UsersAreKnown
  <1>9. CleansUpAfterTheGone'
    BY <1>2, <1>4, <1>5 DEF NewestInv, CleansUpAfterTheGone
  <1>10. ASSUME NEW g \in DOMAIN issued' PROVE Stands(g)'
    <2>1. CASE g = h
      BY <1>2, <1>4, <2>1 DEF Stands
    <2>2. CASE g # h
      <3>1. g \in DOMAIN issued /\ issued'[g] = issued[g] /\ Stands(g)
        BY <1>1, <2>2 DEF NewestInv
      <3>2. CASE issued[g].user = flow[r].user /\ issued[g].type = flow[r].type
        BY <1>1, <3>1, <3>2 DEF Stands
      <3>3. CASE ~ (issued[g].user = flow[r].user /\ issued[g].type = flow[r].type)
        <4>1. ASSUME NEW q \in Requests, Replaces(q, issued[g].user, issued[g].type)
              PROVE  \E p \in Requests : Replaces(p, issued[g].user, issued[g].type)'
          <5>1. q # r
            BY <3>3, <4>1 DEF Replaces
          <5>2. flow'[q] = flow[q]
            BY <1>5, <5>1
          <5> QED BY <3>1, <4>1, <5>2 DEF Replaces
        <4>2. Excused(g, issued[g].user, issued[g].type)
                => Excused(g, issued[g].user, issued[g].type)'
          BY <1>2, <3>1, <4>1 DEF Excused, Exists
        <4> QED BY <1>1, <1>2, <3>1, <4>2 DEF Stands
      <3> QED BY <3>2, <3>3
    <2> QED BY <2>1, <2>2
  <1> QED BY <1>2, <1>7, <1>8, <1>9, <1>10 DEF NewestInv

LEMMA StepKeepsNewest ==
  ASSUME TokenTypeOK, SingleUseInv, NewestInv, NEW r \in Requests, Step(r)
  PROVE  NewestInv'
  <1>0. Orderly => NewestInv'
    BY OrderlyKeepsNewest
  <1>1. CASE LimitStep(r)
    BY <1>0, <1>1, RestIsOrderly DEF LimitStep, tokenVars, TokenTypeOK
  <1>2. CASE Limited(r)
    BY <1>0, <1>2, GotoIsOrderly, EndIsOrderly DEF Limited, Busy
  <1>3. CASE DropOld(r)
    <2>1. CASE UNCHANGED flow
      <3>1. PICK t \in TokensOf(flow[r].user, flow[r].type) : actionTokens' = actionTokens \ {t}
        BY <1>3, <2>1 DEF DropOld, Goto, TokenTypeOK, FlowTypeOK, Flow
      <3>2. Excused(t.hash, t.userId, t.type)'
        BY <1>3, <2>1, <3>1 DEF Excused, Replaces, TokensOf, DropOld
      <3> QED BY <1>0, <1>3, <2>1, <3>1, <3>2, RestIsOrderly DEF DropOld, TokenTypeOK
    <2>2. CASE Goto(r, "create") /\ UNCHANGED actionTokens
      BY <1>0, <1>3, <2>2, GotoIsOrderly DEF DropOld, Busy
    <2> QED BY <1>3, <2>1, <2>2 DEF DropOld
  <1>4. CASE Create(r)
    BY <1>4, CreateKeepsNewest
  <1>5. CASE Mail(r)
    BY <1>0, <1>5, EndIsOrderly DEF Mail
  <1>6. CASE FindUser(r)
    BY <1>0, <1>6, GotoIsOrderly, EndIsOrderly DEF FindUser, Busy
  <1>7. CASE ReplacePassword(r)
    BY <1>0, <1>7, EndIsOrderly DEF ReplacePassword
  <1>8. CASE MarkVerified(r)
    <2>1. \A u \in Users : /\ account[u] # "none" => account'[u] # "none"
                           /\ account[u] = "gone" => account'[u] = "gone"
                           /\ account[u] # "none" /\ Exists(u)' => Exists(u)
      BY <1>8 DEF MarkVerified, Verified, Exists, TokenTypeOK
    <2>2. flow' = [flow EXCEPT ![r] = Idle] /\ Idle.pc = "idle"
          /\ UNCHANGED <<now, actionTokens, issued, uses, lost>>
          /\ flow[r].pc = "markVerified"
      BY <1>8 DEF MarkVerified, End, Idle
    <2>3. uses' \in [1..MaxTokens -> Nat] /\ \A h \in 1..MaxTokens : uses[h] <= uses'[h]
      BY <2>2 DEF NewestInv
    <2> QED BY <1>0, <2>1, <2>2, <2>3, MoveIsOrderly
  <1>9. CASE DropAll(r)
    <2>1. CASE UNCHANGED flow
      <3>1. PICK t \in actionTokens : t.userId = flow[r].user /\ actionTokens' = actionTokens \ {t}
        BY <1>9, <2>1 DEF DropAll, End, Idle, TokenTypeOK, FlowTypeOK
      <3>2. Excused(t.hash, t.userId, t.type)'
        BY <1>9, <3>1 DEF Excused, Exists, DropAll, NewestInv, CleansUpAfterTheGone
      <3> QED BY <1>0, <1>9, <2>1, <3>1, <3>2, RestIsOrderly DEF DropAll, TokenTypeOK
    <2>2. CASE End(r) /\ UNCHANGED actionTokens
      BY <1>0, <1>9, <2>2, EndIsOrderly DEF DropAll
    <2> QED BY <1>9, <2>1, <2>2 DEF DropAll
  <1> QED BY <1>1, <1>2, <1>3, <1>4, <1>5, <1>6, <1>7, <1>8, <1>9 DEF Step

LEMMA OtherKeepsNewest ==
  ASSUME TokenTypeOK, SingleUseInv, NewestInv,
         \/ \E r \in Requests : Fail(r)
         \/ Tick
         \/ Purge
         \/ UNCHANGED vars
  PROVE  NewestInv'
  <1>0. Orderly => NewestInv'
    BY OrderlyKeepsNewest
  <1>1. ASSUME NEW r \in Requests, Fail(r) PROVE NewestInv'
    <2>1. /\ flow' = [flow EXCEPT ![r] = Idle] /\ Idle.pc = "idle"
          /\ UNCHANGED <<now, actionTokens, issued, uses, account>>
          /\ lost \subseteq lost'
          /\ flow[r].pc \in {"dropOld", "create"} => <<flow[r].user, flow[r].type>> \in lost'
      BY <1>1 DEF Fail, End, Idle
    <2>2. uses' \in [1..MaxTokens -> Nat] /\ \A h \in 1..MaxTokens : uses[h] <= uses'[h]
      BY <2>1 DEF NewestInv
    <2>3. \A u \in Users : Exists(u)' => Exists(u)
      BY <2>1 DEF Exists
    <2> QED BY <1>0, <2>1, <2>2, <2>3, MoveIsOrderly
  <1>2. CASE Tick
    BY <1>0, <1>2, RestIsOrderly DEF Tick, tokenVars, TokenTypeOK
  <1>3. CASE Purge
    <2>1. CASE \E t \in actionTokens : t.expiresAt <= now /\ actionTokens' = actionTokens \ {t}
                 /\ UNCHANGED <<now, account, flow, issued, uses, lost>>
      <3>1. PICK t \in actionTokens : t.expiresAt <= now /\ actionTokens' = actionTokens \ {t}
        BY <2>1
      <3>2. Excused(t.hash, t.userId, t.type)'
        BY <2>1, <3>1, RowFacts DEF Excused
      <3> QED BY <1>0, <2>1, <3>1, <3>2, RestIsOrderly DEF TokenTypeOK
    <2>2. CASE UNCHANGED <<now, tokenVars>>
      BY <1>0, <2>2, RestIsOrderly DEF tokenVars, TokenTypeOK
    <2> QED BY <1>3, <2>1, <2>2 DEF Purge
  <1>4. CASE UNCHANGED vars
    BY <1>0, <1>4, RestIsOrderly DEF vars, tokenVars, TokenTypeOK
  <1> QED BY <1>1, <1>2, <1>3, <1>4

\* Whatever overlaps with it - other issues, attempts to spend the token on the
\* wrong action, cleanups, the TTL monitor - the token issued last for an
\* account and an action has its row until it is used, runs out or is replaced,
\* unless the request that replaces it dies between its two calls.
THEOREM NewestWorks == Spec => []NewestTokenWorks
  <1>1. Init => NewestInv
    BY DEF Init, NewestInv, RowsKeepExpiry, UsersAreKnown, CleansUpAfterTheGone, Busy, Idle
  <1>2. TokenTypeOK /\ SingleUseInv /\ NewestInv /\ [Next]_vars => NewestInv'
    BY CallIsOrderly, OrderlyKeepsNewest, StepKeepsNewest, OtherKeepsNewest DEF Next
  <1>3. NewestInv => NewestTokenWorks
    <2> SUFFICES ASSUME NewestInv, NEW h \in DOMAIN issued, Stands(h)
                 PROVE  \/ \E g \in DOMAIN issued : g > h /\ issued[g].user = issued[h].user
                                                          /\ issued[g].type = issued[h].type
                        \/ issued[h].expiresAt <= now \/ uses[h] > 0 \/ ~ Exists(issued[h].user)
                        \/ <<issued[h].user, issued[h].type>> \in lost
                        \/ \E r \in Requests : Issues(r, issued[h].user, issued[h].type)
                        \/ \E t \in actionTokens : t.hash = h
      BY DEF NewestTokenWorks, NewestInv
    <2> QED BY DEF Stands, Excused, Replaces, Issues
  <1> QED BY <1>1, <1>2, <1>3, InvHolds, PTL DEF Spec

-----------------------------------------------------------------------------
(* No more redeemable tokens than requests *)

Creators(u, type) ==
    {r \in Requests : /\ flow[r].pc = "create"
                      /\ flow[r].user = u /\ flow[r].type = type}

Bounded(u, type) ==
    Cardinality(TokensOf(u, type)) + Cardinality(Creators(u, type)) <= Cardinality(Requests)

BoundedInv ==
    /\ IsFiniteSet(actionTokens)
    /\ \A u \in Users, type \in ActionTokenType : Bounded(u, type)

LEMMA FiniteSizes ==
  ASSUME BoundedInv, NEW u, NEW type
  PROVE  /\ IsFiniteSet(TokensOf(u, type)) /\ Cardinality(TokensOf(u, type)) \in Nat
         /\ IsFiniteSet(Creators(u, type)) /\ Cardinality(Creators(u, type)) \in Nat
         /\ Creators(u, type) \subseteq Requests
         /\ IsFiniteSet(Requests) /\ Cardinality(Requests) \in Nat
  <1>1. TokensOf(u, type) \subseteq actionTokens /\ Creators(u, type) \subseteq Requests
    BY DEF TokensOf, Creators
  <1> QED BY <1>1, FS_Subset, FS_CardinalityType, ActionTokensAssumption DEF BoundedInv

\* Rows go, and requests that were about to add one do something else.
LEMMA FewerIsBounded ==
  ASSUME BoundedInv, actionTokens' \subseteq actionTokens,
         \A r \in Requests : flow'[r].pc = "create" =>
            /\ flow[r].pc = "create" /\ flow'[r].user = flow[r].user
            /\ flow'[r].type = flow[r].type
  PROVE  BoundedInv'
  <1>1. ASSUME NEW u \in Users, NEW type \in ActionTokenType PROVE Bounded(u, type)'
    <2>1. TokensOf(u, type)' \subseteq TokensOf(u, type)
          /\ Creators(u, type)' \subseteq Creators(u, type)
      BY DEF TokensOf, Creators
    <2>2. /\ Cardinality(TokensOf(u, type)') <= Cardinality(TokensOf(u, type))
          /\ Cardinality(TokensOf(u, type)') \in Nat
          /\ Cardinality(Creators(u, type)') <= Cardinality(Creators(u, type))
          /\ Cardinality(Creators(u, type)') \in Nat
      BY <2>1, FiniteSizes, FS_Subset, FS_CardinalityType
    <2>3. Bounded(u, type)
      BY DEF BoundedInv
    <2> QED BY <2>2, <2>3, FiniteSizes DEF Bounded
  <1>2. IsFiniteSet(actionTokens')
    BY FS_Subset DEF BoundedInv
  <1> QED BY <1>1, <1>2 DEF BoundedInv

LEMMA MoveIsBounded ==
  ASSUME TokenTypeOK, BoundedInv, NEW r \in Requests, NEW v, flow' = [flow EXCEPT ![r] = v],
         v.pc # "create", actionTokens' \subseteq actionTokens
  PROVE  BoundedInv'
  <1>1. flow'[r] = v /\ \A q \in Requests \ {r} : flow'[q] = flow[q]
    BY DEF TokenTypeOK, FlowTypeOK
  <1>2. \A q \in Requests : flow'[q].pc = "create" => q # r /\ flow'[q] = flow[q]
    BY <1>1
  <1> QED BY <1>2, FewerIsBounded

LEMMA GotoIsBounded ==
  ASSUME TokenTypeOK, BoundedInv, NEW r \in Requests, NEW l, l # "create", Goto(r, l) \/ End(r),
         actionTokens' \subseteq actionTokens
  PROVE  BoundedInv'
  <1>1. CASE Goto(r, l)
    <2> DEFINE v == [flow[r] EXCEPT !.pc = l, !.since = IF l = "create" THEN now ELSE 0]
    <2>1. v.pc = l /\ flow' = [flow EXCEPT ![r] = v]
      BY <1>1 DEF Goto, TokenTypeOK, FlowTypeOK, Flow
    <2> HIDE DEF v
    <2> QED BY <2>1, MoveIsBounded
  <1>2. CASE End(r)
    <2>1. flow' = [flow EXCEPT ![r] = Idle] /\ Idle.pc = "idle"
      BY <1>2 DEF End, Idle
    <2> QED BY <2>1, MoveIsBounded
  <1> QED BY <1>1, <1>2

LEMMA RestIsBounded ==
  ASSUME BoundedInv, UNCHANGED flow, actionTokens' \subseteq actionTokens
  PROVE  BoundedInv'
  BY FewerIsBounded

\* Nothing was left to delete: whoever adds a row now, there are no others.
LEMMA NothingLeftIsBounded ==
  ASSUME TokenTypeOK, BoundedInv, NEW r \in Requests, Goto(r, "create"), UNCHANGED actionTokens,
         TokensOf(flow[r].user, flow[r].type) = {}
  PROVE  BoundedInv'
  <1>1. /\ flow'[r].user = flow[r].user /\ flow'[r].type = flow[r].type
        /\ \A q \in Requests \ {r} : flow'[q] = flow[q]
    BY DEF Goto, TokenTypeOK, FlowTypeOK, Flow
  <1>2. ASSUME NEW u \in Users, NEW type \in ActionTokenType PROVE Bounded(u, type)'
    <2>0. TokensOf(u, type)' = TokensOf(u, type)
      BY DEF TokensOf
    <2>1. CASE u = flow[r].user /\ type = flow[r].type
      <3>1. Cardinality(TokensOf(u, type)') = 0
        BY <2>0, <2>1, FS_EmptySet
      <3>2. Creators(u, type)' \subseteq Requests
        BY DEF Creators
      <3>3. Cardinality(Creators(u, type)') <= Cardinality(Requests)
            /\ Cardinality(Creators(u, type)') \in Nat
        BY <3>2, FS_Subset, FS_CardinalityType, ActionTokensAssumption
      <3> QED BY <3>1, <3>3, FiniteSizes DEF Bounded
    <2>2. CASE ~ (u = flow[r].user /\ type = flow[r].type)
      <3>1. Creators(u, type)' = Creators(u, type) \ {r}
        BY <1>1, <2>2 DEF Creators
      <3>2. Cardinality(Creators(u, type)') <= Cardinality(Creators(u, type))
            /\ Cardinality(Creators(u, type)') \in Nat
        BY <3>1, FiniteSizes, FS_Subset, FS_CardinalityType
      <3>3. Bounded(u, type)
        BY DEF BoundedInv
      <3> QED BY <2>0, <3>2, <3>3, FiniteSizes DEF Bounded
    <2> QED BY <2>1, <2>2
  <1>3. IsFiniteSet(actionTokens')
    BY DEF BoundedInv
  <1> QED BY <1>2, <1>3 DEF BoundedInv

\* One request less that will, one row more.
LEMMA CreateIsBounded ==
  ASSUME TokenTypeOK, BoundedInv, NEW r \in Requests, Create(r)
  PROVE  BoundedInv'
  <1>0. PICK sent \in Nat : Issue(r, sent)
    BY CreateIssues
  <1>1. flow'[r].pc = "mail" /\ \A q \in Requests \ {r} : flow'[q] = flow[q]
    BY <1>0 DEF Issue, Begin, TokenTypeOK, FlowTypeOK
  <1>2. PICK t : /\ t.type = flow[r].type /\ t.userId = flow[r].user
                 /\ actionTokens' = actionTokens \cup {t}
    BY <1>0 DEF Issue
  <1>3. flow[r].pc = "create"
    BY CreateIssues
  <1>4. ASSUME NEW u \in Users, NEW type \in ActionTokenType PROVE Bounded(u, type)'
    <2>0. /\ Bounded(u, type)
          /\ Creators(u, type)' = Creators(u, type) \ {r}
      BY <1>1 DEF BoundedInv, Creators
    <2>1. CASE u = flow[r].user /\ type = flow[r].type
      <3>1. r \in Creators(u, type) /\ TokensOf(u, type)' = TokensOf(u, type) \cup {t}
        BY <1>2, <1>3, <2>1 DEF Creators, TokensOf
      <3>2. Cardinality(Creators(u, type)') = Cardinality(Creators(u, type)) - 1
        BY <2>0, <3>1, FiniteSizes, FS_RemoveElement
      <3>3. Cardinality(TokensOf(u, type)') <= Cardinality(TokensOf(u, type)) + 1
            /\ Cardinality(TokensOf(u, type)') \in Nat
        <4>1. IsFiniteSet(TokensOf(u, type)) /\ Cardinality(TokensOf(u, type)) \in Nat
          BY FiniteSizes
        <4>2. PICK S : S = TokensOf(u, type)
          OBVIOUS
        <4>3. Cardinality(S \cup {t}) = IF t \in S THEN Cardinality(S) ELSE Cardinality(S) + 1
          BY <4>1, <4>2, FS_AddElement
        <4> QED BY <3>1, <4>1, <4>2, <4>3
      <3> QED BY <2>0, <3>2, <3>3, FiniteSizes DEF Bounded
    <2>2. CASE ~ (u = flow[r].user /\ type = flow[r].type)
      <3>1. r \notin Creators(u, type) /\ TokensOf(u, type)' = TokensOf(u, type)
        BY <1>2, <2>2 DEF Creators, TokensOf
      <3>2. Creators(u, type)' = Creators(u, type)
        BY <2>0, <3>1
      <3> QED BY <2>0, <3>1, <3>2 DEF Bounded
    <2> QED BY <2>1, <2>2
  <1>5. IsFiniteSet(actionTokens')
    BY <1>2, FS_AddElement DEF BoundedInv
  <1> QED BY <1>4, <1>5 DEF BoundedInv

LEMMA CallIsBounded ==
  ASSUME TokenTypeOK, BoundedInv, NEW r \in Requests, Call(r)
  PROVE  BoundedInv'
  <1>1. ASSUME NEW l, NEW type, NEW u, NEW h, Begin(r, l, type, u, h), l # "create",
               actionTokens' \subseteq actionTokens
        PROVE  BoundedInv'
    <2> DEFINE v == [pc |-> l, type |-> type, user |-> u, hash |-> h, since |-> 0]
    <2>1. flow' = [flow EXCEPT ![r] = v] /\ v.pc = l
      BY <1>1 DEF Begin
    <2> HIDE DEF v
    <2> QED BY <1>1, <2>1, MoveIsBounded
  <1>2. ASSUME NEW h, NEW type, NEW next, Redeem(r, h, type, next), next # "create"
        PROVE  BoundedInv'
    <2>1. actionTokens' \subseteq actionTokens
          /\ (UNCHANGED flow \/ \E t \in actionTokens : Begin(r, next, type, t.userId, h))
      BY <1>2 DEF Redeem, Without
    <2> QED BY <1>1, <1>2, <2>1, RestIsBounded
  <1> QED BY <1>1, <1>2
          DEF Call, SignUp, RequestReset, RequestVerification, Resend, AskRateLimit,
              DeleteAccount, ResetPassword, Verify

LEMMA StepIsBounded ==
  ASSUME TokenTypeOK, BoundedInv, NEW r \in Requests, Step(r)
  PROVE  BoundedInv'
  <1>1. CASE LimitStep(r)
    BY <1>1, RestIsBounded DEF LimitStep, tokenVars
  <1>2. CASE Limited(r)
    BY <1>2, GotoIsBounded DEF Limited
  <1>3. CASE DropOld(r)
    BY <1>3, RestIsBounded, NothingLeftIsBounded DEF DropOld, NothingLeft
  <1>4. CASE Create(r)
    BY <1>4, CreateIsBounded
  <1>5. CASE Mail(r) \/ FindUser(r) \/ ReplacePassword(r) \/ MarkVerified(r)
    BY <1>5, GotoIsBounded DEF Mail, FindUser, ReplacePassword, MarkVerified
  <1>6. CASE DropAll(r)
    BY <1>6, GotoIsBounded, RestIsBounded DEF DropAll
  <1> QED BY <1>1, <1>2, <1>3, <1>4, <1>5, <1>6 DEF Step

LEMMA OtherIsBounded ==
  ASSUME TokenTypeOK, BoundedInv,
         \/ \E r \in Requests : Fail(r)
         \/ Tick
         \/ Purge
         \/ UNCHANGED vars
  PROVE  BoundedInv'
  <1>1. ASSUME NEW r \in Requests, Fail(r) PROVE BoundedInv'
    BY <1>1, GotoIsBounded DEF Fail
  <1>2. CASE Tick \/ Purge \/ UNCHANGED vars
    BY <1>2, RestIsBounded DEF Tick, Purge, vars, tokenVars
  <1> QED BY <1>1, <1>2

\* However many requests issue tokens of one kind for one account at the same
\* time, each drops all it finds before it adds its own: there are never more
\* redeemable than requests that were under way together.
THEOREM RedeemableBounded == Spec => []RedeemableIsBounded
  <1>1. Init => BoundedInv
    <2> SUFFICES ASSUME Init PROVE BoundedInv
      OBVIOUS
    <2>1. IsFiniteSet(actionTokens)
      BY FS_EmptySet DEF Init
    <2>2. ASSUME NEW u \in Users, NEW type \in ActionTokenType PROVE Bounded(u, type)
      <3>1. TokensOf(u, type) = {} /\ Creators(u, type) = {}
        BY DEF Init, TokensOf, Creators, Idle
      <3>2. Cardinality({}) = 0 /\ Cardinality(Requests) \in Nat
        BY FS_EmptySet, FS_CardinalityType, ActionTokensAssumption
      <3> QED BY <3>1, <3>2 DEF Bounded
    <2> QED BY <2>1, <2>2 DEF BoundedInv
  <1>2. TokenTypeOK /\ BoundedInv /\ [Next]_vars => BoundedInv'
    BY CallIsBounded, StepIsBounded, OtherIsBounded DEF Next
  <1>3. BoundedInv => RedeemableIsBounded
    BY DEF BoundedInv, Bounded, Creators, RedeemableIsBounded
  <1> QED BY <1>1, <1>2, <1>3, InitType, NextType, PTL DEF Spec

-----------------------------------------------------------------------------
(* The limiter as these flows use it *)

Boxes == ActionTokenType \X Users

CallRecord == [pc: {"idle", "drop", "count", "alert", "allowed", "refused"},
               key: Boxes \cup {<<"none", NoUser>>}, id: Nat, asked: Nat, since: Nat]

\* The limiter counts sets as this module does.
LEMMA SameCardinality ==
  ASSUME NEW S
  PROVE  RateLimit!Cardinality(S) = Cardinality(S)
  BY DEF RateLimit!Cardinality, Cardinality

\* A call in flight is one of a request that waits for its verdict.
CallsMatch ==
    \A r \in Requests :
        call[r].pc # "idle" => flow[r].pc = "limit" /\ call[r].key = <<flow[r].type, flow[r].user>>

\* The times a call carries have passed; a request that is not slow sees no tick.
TimesFit(r, v) ==
    /\ v.asked <= now /\ v.since <= now
    /\ v.pc = "count" /\ r \notin Slow => v.since = now

CallTimesOK == \A r \in Requests : TimesFit(r, call[r])

LimiterTypeOK ==
    /\ counters \subseteq RateLimit!AccountActionCounter /\ \A c \in counters : c.count >= 1
    /\ call \in [Requests -> CallRecord]
    /\ CallsMatch /\ CallTimesOK
    /\ created \in Nat
    /\ admitted \subseteq [key: Boxes, at: Nat, nth: Nat] /\ IsFiniteSet(admitted)
    /\ alerts \in [1..MaxCounters -> Nat]
    /\ silenced \subseteq Nat /\ overdue \subseteq Nat

LEMMA NoCallType ==
  /\ RateLimit!NoCall \in CallRecord /\ RateLimit!NoCall.pc = "idle"
  /\ now \in Nat => \A r : TimesFit(r, RateLimit!NoCall)
  BY DEF RateLimit!NoCall, CallRecord, TimesFit

LEMMA InitLimiterType == Init => LimiterTypeOK
  <1> SUFFICES ASSUME Init PROVE LimiterTypeOK
    OBVIOUS
  <1>1. /\ call = [r \in Requests |-> RateLimit!NoCall] /\ counters = {} /\ created = 0
        /\ admitted = {} /\ alerts = [i \in 1..MaxCounters |-> 0]
        /\ silenced = {} /\ overdue = {} /\ now = 0
    BY DEF Init, RateLimit!LimitInit
  <1>2. call \in [Requests -> CallRecord] /\ CallsMatch /\ CallTimesOK
    <2> HIDE DEF RateLimit!NoCall
    <2> QED BY <1>1, NoCallType DEF CallsMatch, CallTimesOK
  <1> QED BY <1>1, <1>2, FS_EmptySet DEF LimiterTypeOK

\* What request r does to its own flow and its own call.
OnlyMoves(r) == \A q \in Requests : q # r => flow'[q] = flow[q] /\ call'[q] = call[q]

LEMMA OneCallMoves ==
  ASSUME LimiterTypeOK, NEW r \in Requests, OnlyMoves(r), NEW v \in CallRecord,
         call' = [call EXCEPT ![r] = v], UNCHANGED now, TimesFit(r, v),
         v.pc # "idle" => flow'[r].pc = "limit" /\ v.key = <<flow'[r].type, flow'[r].user>>
  PROVE  call' \in [Requests -> CallRecord] /\ CallsMatch' /\ CallTimesOK'
  <1>1. call'[r] = v /\ call' \in [Requests -> CallRecord]
    BY DEF LimiterTypeOK
  <1>2. CallsMatch'
    BY <1>1 DEF LimiterTypeOK, CallsMatch, OnlyMoves
  <1>3. CallTimesOK'
    BY <1>1 DEF LimiterTypeOK, CallTimesOK, TimesFit, OnlyMoves
  <1> QED BY <1>1, <1>2, <1>3

\* A request that is not waiting for a verdict goes on.
LEMMA FlowMovesType ==
  ASSUME LimiterTypeOK, UNCHANGED <<now, limitVars>>, NEW r \in Requests, OnlyMoves(r),
         flow[r].pc # "limit"
  PROVE  LimiterTypeOK'
  <1>1. UNCHANGED <<counters, call, created, admitted, alerts, silenced, overdue>>
        /\ CallTimesOK'
    BY DEF limitVars, LimiterTypeOK, CallTimesOK, TimesFit
  <1>2. CallsMatch'
    BY <1>1 DEF LimiterTypeOK, CallsMatch, OnlyMoves
  <1> QED BY <1>1, <1>2 DEF LimiterTypeOK

LEMMA RestType ==
  ASSUME LimiterTypeOK, UNCHANGED <<now, limitVars, flow>>
  PROVE  LimiterTypeOK'
  BY DEF LimiterTypeOK, CallsMatch, CallTimesOK, TimesFit, limitVars

\* What the ways to begin, go on and end do to the flows.
LEMMA FlowMoves ==
  ASSUME TokenTypeOK, NEW r \in Requests
  PROVE  /\ \A l, type, u, h : Begin(r, l, type, u, h) =>
               /\ flow'[r] = [pc |-> l, type |-> type, user |-> u, hash |-> h, since |-> 0]
               /\ \A q \in Requests : q # r => flow'[q] = flow[q]
         /\ \A l : Goto(r, l) =>
               /\ flow'[r].pc = l /\ flow'[r].type = flow[r].type /\ flow'[r].user = flow[r].user
               /\ \A q \in Requests : q # r => flow'[q] = flow[q]
         /\ End(r) => flow'[r].pc = "idle" /\ \A q \in Requests : q # r => flow'[q] = flow[q]
  <1>1. ASSUME NEW l, NEW type, NEW u, NEW h, Begin(r, l, type, u, h)
        PROVE  /\ flow'[r] = [pc |-> l, type |-> type, user |-> u, hash |-> h, since |-> 0]
               /\ \A q \in Requests : q # r => flow'[q] = flow[q]
    BY <1>1 DEF Begin, TokenTypeOK, FlowTypeOK
  <1>2. ASSUME NEW l, Goto(r, l)
        PROVE  /\ flow'[r].pc = l /\ flow'[r].type = flow[r].type /\ flow'[r].user = flow[r].user
               /\ \A q \in Requests : q # r => flow'[q] = flow[q]
    BY <1>2 DEF Goto, TokenTypeOK, FlowTypeOK, Flow
  <1>3. End(r) => flow'[r].pc = "idle" /\ \A q \in Requests : q # r => flow'[q] = flow[q]
    BY DEF End, Idle, TokenTypeOK, FlowTypeOK
  <1> QED BY <1>1, <1>2, <1>3

\* A counter a call of box k is counted on: a new one, or the one there is.
Counting(k, sent, c) ==
    \/ RateLimit!CountersOf(k) = {} /\ c.count = 1 /\ c.expiresAt = sent + Window
    \/ \E d \in counters : d.key = k /\ c.count = d.count + 1 /\ c.expiresAt = d.expiresAt

LEMMA IncrementedIs ==
  ASSUME TokenTypeOK, LimiterTypeOK, NEW k \in Boxes, NEW sent \in Nat
  PROVE  /\ RateLimit!Incremented(k, sent) \in RateLimit!AccountActionCounter
         /\ RateLimit!Incremented(k, sent).key = k /\ RateLimit!Incremented(k, sent).count >= 1
         /\ Counting(k, sent, RateLimit!Incremented(k, sent))
  <1>1. CASE RateLimit!CountersOf(k) = {}
    BY <1>1, ActionTokensAssumption
    DEF RateLimit!Incremented, RateLimit!AccountActionCounter, LimiterTypeOK, TokenTypeOK, Boxes, Counting
  <1>2. CASE RateLimit!CountersOf(k) # {}
    <2>1. PICK d \in RateLimit!CountersOf(k) : d = CHOOSE c \in RateLimit!CountersOf(k) : TRUE
      BY <1>2
    <2>2. d \in counters /\ d \in RateLimit!AccountActionCounter /\ d.key = k /\ d.count >= 1
      BY DEF RateLimit!CountersOf, LimiterTypeOK
    <2>3. RateLimit!Incremented(k, sent) = [d EXCEPT !.count = @ + 1]
      BY <1>2, <2>1 DEF RateLimit!Incremented
    <2> QED BY <2>2, <2>3 DEF RateLimit!AccountActionCounter, Counting
  <1> QED BY <1>1, <1>2

\* What Count does, in terms of the box, the time the upsert was sent and the
\* counter it ends up with.
Counts(r, k, sent, c) ==
    /\ call[r].pc = "count" /\ flow[r].pc = "limit" /\ k = <<flow[r].type, flow[r].user>>
    /\ call[r].key = k /\ call[r].since <= sent /\ sent <= now
    /\ c.key = k /\ c.count >= 1 /\ Counting(k, sent, c)
    /\ counters' = (counters \ RateLimit!CountersOf(k)) \cup {c}
    /\ \A q \in Requests : q # r => call'[q] = call[q]
    /\ call'[r].pc = RateLimit!Verdict(c.count)

LEMMA CountIs ==
  ASSUME TokenTypeOK, LimiterTypeOK, NEW r \in Requests, RateLimit!Count(r), UNCHANGED <<now, tokenVars>>
  PROVE  /\ \E k \in Boxes, sent \in Nat, c \in RateLimit!AccountActionCounter : Counts(r, k, sent, c)
         /\ LimiterTypeOK'
  <1>1. PICK k : k = call[r].key
    OBVIOUS
  <1>2. call[r].pc = "count" /\ flow[r].pc = "limit" /\ k = <<flow[r].type, flow[r].user>> /\ k \in Boxes
    <2>1. call[r].pc = "count"
      BY DEF RateLimit!Count
    <2>2. flow[r].pc = "limit" /\ k = <<flow[r].type, flow[r].user>>
      BY <1>1, <2>1 DEF LimiterTypeOK, CallsMatch
    <2>3. flow[r].type \in ActionTokenType /\ flow[r].user \in Users
      BY <2>2 DEF TokenTypeOK, FlowTypeOK, KnowsUser, KnowsType
    <2> QED BY <2>1, <2>2, <2>3 DEF Boxes
  <1>p. PICK sent \in call[r].since..now : \E c :
          /\ c = RateLimit!Incremented(k, sent)
          /\ counters' = (counters \ RateLimit!CountersOf(k)) \cup {c}
          /\ call' = [call EXCEPT ![r] = [call[r] EXCEPT !.pc = RateLimit!Verdict(c.count), !.id = c.id,
                                                         !.asked = 0, !.since = 0]]
          /\ created' \in {created, created + 1} /\ UNCHANGED <<alerts, silenced>>
          /\ admitted' = admitted \/ admitted' = admitted \cup {RateLimit!Admission(k)}
          /\ overdue' = overdue \/ overdue' = overdue \cup {c.id}
    BY <1>1 DEF RateLimit!Count
  <1>3. PICK c :
          /\ c = RateLimit!Incremented(k, sent)
          /\ counters' = (counters \ RateLimit!CountersOf(k)) \cup {c}
          /\ call' = [call EXCEPT ![r] = [call[r] EXCEPT !.pc = RateLimit!Verdict(c.count), !.id = c.id,
                                                         !.asked = 0, !.since = 0]]
          /\ created' \in {created, created + 1} /\ UNCHANGED <<alerts, silenced>>
          /\ admitted' = admitted \/ admitted' = admitted \cup {RateLimit!Admission(k)}
          /\ overdue' = overdue \/ overdue' = overdue \cup {c.id}
    BY <1>p
  <1>s. /\ now \in Nat /\ sent \in Nat /\ call[r].since <= sent /\ sent <= now
        /\ call[r] \in CallRecord
    <2>1. call[r] \in CallRecord /\ now \in Nat
      BY DEF LimiterTypeOK, TokenTypeOK
    <2>2. call[r].since \in Nat
      BY <2>1 DEF CallRecord
    <2> QED BY <1>p, <2>1, <2>2
  <1>4. /\ c \in RateLimit!AccountActionCounter /\ c.key = k /\ c.count >= 1 /\ Counting(k, sent, c)
        /\ c.count \in Nat /\ c.id \in Nat
    <2>1. c \in RateLimit!AccountActionCounter /\ c.key = k /\ c.count >= 1 /\ Counting(k, sent, c)
      BY <1>2, <1>3, <1>s, IncrementedIs
    <2> QED BY <2>1 DEF RateLimit!AccountActionCounter
  <1>6. RateLimit!Verdict(c.count) \in {"alert", "allowed", "refused"}
    BY DEF RateLimit!Verdict
  <1> DEFINE v == [call[r] EXCEPT !.pc = RateLimit!Verdict(c.count), !.id = c.id, !.asked = 0,
                                  !.since = 0]
  <1>7. /\ v \in CallRecord /\ v.pc = RateLimit!Verdict(c.count) /\ v.key = k
        /\ v.asked = 0 /\ v.since = 0
    BY <1>1, <1>s, <1>4, <1>6 DEF CallRecord
  <1>8. call' = [call EXCEPT ![r] = v]
    BY <1>3
  <1> HIDE DEF v
  <1>9. call'[r] = v /\ \A q \in Requests : q # r => call'[q] = call[q]
    BY <1>8 DEF LimiterTypeOK
  <1>10. UNCHANGED flow
    BY DEF tokenVars
  <1>t. TimesFit(r, v)
    BY <1>s, <1>6, <1>7 DEF TimesFit
  <1>11. call' \in [Requests -> CallRecord] /\ CallsMatch' /\ CallTimesOK'
    BY <1>2, <1>t, <1>7, <1>8, <1>9, <1>10, OneCallMoves DEF OnlyMoves
  <1>12. admitted' \subseteq [key: Boxes, at: Nat, nth: Nat] /\ IsFiniteSet(admitted')
    <2>1. PICK a : a = RateLimit!Admission(k)
      OBVIOUS
    <2>2. PICK n : n = Cardinality({b \in admitted : b.key = k /\ b.at = now})
      OBVIOUS
    <2>3. n \in Nat
      BY <2>2, FS_Subset, FS_CardinalityType DEF LimiterTypeOK
    <2>4. a = [key |-> k, at |-> now, nth |-> n] /\ now \in Nat
      BY <2>1, <2>2, SameCardinality DEF RateLimit!Admission, TokenTypeOK
    <2>5. a \in [key: Boxes, at: Nat, nth: Nat]
      BY <1>2, <2>3, <2>4
    <2>6. admitted \subseteq [key: Boxes, at: Nat, nth: Nat] /\ IsFiniteSet(admitted)
      BY DEF LimiterTypeOK
    <2>7. IsFiniteSet(admitted \cup {a})
      BY <2>6, FS_AddElement
    <2>8. admitted' = admitted \/ admitted' = admitted \cup {a}
      BY <1>3, <2>1
    <2> QED BY <2>5, <2>6, <2>7, <2>8
  <1>13. counters' \subseteq RateLimit!AccountActionCounter /\ \A d \in counters' : d.count >= 1
    BY <1>3, <1>4 DEF LimiterTypeOK
  <1>14. overdue' \subseteq Nat /\ silenced' \subseteq Nat /\ created' \in Nat
         /\ alerts' \in [1..MaxCounters -> Nat]
    BY <1>3, <1>4 DEF LimiterTypeOK
  <1>15. LimiterTypeOK'
    BY <1>11, <1>12, <1>13, <1>14 DEF LimiterTypeOK
  <1>16. Counts(r, k, sent, c)
    BY <1>1, <1>2, <1>3, <1>s, <1>4, <1>7, <1>9 DEF Counts
  <1> QED BY <1>2, <1>s, <1>4, <1>15, <1>16

\* A mail of a type to u is under way, from the admission of the request on.
Pends(f, c, u, type) ==
    /\ f.user = u /\ f.type = type
    /\ \/ f.pc \in {"dropOld", "create", "mail"}
       \/ f.pc = "limit" /\ c.pc = "allowed"

Pending(u, type) == {r \in Requests : Pends(flow[r], call[r], u, type)}

\* A call is readied to be counted now, or is one that was.
Ready(v, w) == v.pc = "count" => v.since = now \/ v = w

\* Steps that mail nothing and bring no mail under way: counters go when they
\* have run out, accounts do not become new again.
Quiet ==
    /\ UNCHANGED <<now, mails>>
    /\ \A r \in Requests : Ready(call'[r], call[r])
    /\ counters' \subseteq counters /\ \A c \in counters \ counters' : c.expiresAt <= now
    /\ \A r \in Requests : \A u, type :
          Pends(flow'[r], call'[r], u, type) => Pends(flow[r], call[r], u, type)
    /\ \A u \in Users : account[u] # "none" => account'[u] # "none"

LEMMA RequestIsQuiet ==
  ASSUME NEW r \in Requests, OnlyMoves(r), UNCHANGED <<now, mails, counters>>,
         \A u \in Users : account[u] # "none" => account'[u] # "none",
         \A u, type : Pends(flow'[r], call'[r], u, type) => Pends(flow[r], call[r], u, type),
         Ready(call'[r], call[r])
  PROVE  Quiet
  <1>1. ASSUME NEW q \in Requests, NEW u, NEW type, Pends(flow'[q], call'[q], u, type)
        PROVE  Pends(flow[q], call[q], u, type)
    BY <1>1 DEF OnlyMoves
  <1>2. \A q \in Requests : Ready(call'[q], call[q])
    BY DEF OnlyMoves, Ready
  <1> QED BY <1>1, <1>2 DEF Quiet

LEMMA RestIsQuiet ==
  ASSUME UNCHANGED <<now, account, flow, mails, limitVars>>
  PROVE  Quiet
  BY DEF Quiet, Ready, limitVars

\* A request that is elsewhere, or on its way to where no mail is under way, goes on.
LEMMA FlowIsQuiet ==
  ASSUME TokenTypeOK, LimiterTypeOK, NEW r \in Requests, UNCHANGED <<now, mails, limitVars>>,
         flow[r].pc # "limit",
         \/ \E l, type, u, h : /\ Begin(r, l, type, u, h)
                               /\ l \notin {"limit", "dropOld", "create", "mail"}
         \/ \E l : Goto(r, l) /\ l \notin {"limit", "dropOld", "create", "mail"}
         \/ End(r)
         \/ \E l : Goto(r, l) /\ {l, flow[r].pc} \subseteq {"dropOld", "create", "mail"}
         \/ \E h : Begin(r, "mail", flow[r].type, flow[r].user, h) /\ flow[r].pc = "create",
         \A u \in Users : account[u] # "none" => account'[u] # "none"
  PROVE  LimiterTypeOK' /\ Quiet
  <1>1. UNCHANGED <<call, counters>>
    BY DEF limitVars
  <1>2. /\ \A q \in Requests : q # r => flow'[q] = flow[q]
        /\ \/ flow'[r].pc \notin {"limit", "dropOld", "create", "mail"}
           \/ /\ flow'[r].user = flow[r].user /\ flow'[r].type = flow[r].type
              /\ {flow'[r].pc, flow[r].pc} \subseteq {"dropOld", "create", "mail"}
    <2>1. ASSUME NEW l, NEW type, NEW u, NEW h, Begin(r, l, type, u, h)
          PROVE  /\ flow'[r] = [pc |-> l, type |-> type, user |-> u, hash |-> h, since |-> 0]
                 /\ \A q \in Requests : q # r => flow'[q] = flow[q]
      BY <2>1, FlowMoves
    <2>2. ASSUME NEW l, Goto(r, l)
          PROVE  /\ flow'[r].pc = l /\ flow'[r].type = flow[r].type /\ flow'[r].user = flow[r].user
                 /\ \A q \in Requests : q # r => flow'[q] = flow[q]
      BY <2>2, FlowMoves
    <2>3. ASSUME End(r)
          PROVE  flow'[r].pc = "idle" /\ \A q \in Requests : q # r => flow'[q] = flow[q]
      BY <2>3, FlowMoves
    <2>4. CASE \E l, type, u, h : /\ Begin(r, l, type, u, h)
                                  /\ l \notin {"limit", "dropOld", "create", "mail"}
      <3>1. PICK l, type, u, h : /\ Begin(r, l, type, u, h)
                                 /\ l \notin {"limit", "dropOld", "create", "mail"}
        BY <2>4
      <3>2. /\ flow'[r] = [pc |-> l, type |-> type, user |-> u, hash |-> h, since |-> 0]
            /\ \A q \in Requests : q # r => flow'[q] = flow[q]
        BY <2>1, <3>1
      <3>3. flow'[r].pc = l
        BY <3>2
      <3> QED BY <3>1, <3>2, <3>3
    <2>5. CASE \E l : Goto(r, l) /\ l \notin {"limit", "dropOld", "create", "mail"}
      BY <2>2, <2>5
    <2>6. CASE End(r)
      BY <2>3, <2>6
    <2>7. CASE \E l : Goto(r, l) /\ {l, flow[r].pc} \subseteq {"dropOld", "create", "mail"}
      BY <2>2, <2>7
    <2>8. CASE \E h : Begin(r, "mail", flow[r].type, flow[r].user, h) /\ flow[r].pc = "create"
      <3>1. PICK h : Begin(r, "mail", flow[r].type, flow[r].user, h) /\ flow[r].pc = "create"
        BY <2>8
      <3>2. /\ flow'[r] = [pc |-> "mail", type |-> flow[r].type, user |-> flow[r].user, hash |-> h,
                   since |-> 0]
            /\ \A q \in Requests : q # r => flow'[q] = flow[q]
        BY <2>1, <3>1
      <3> QED BY <3>1, <3>2
    <2> QED BY <2>4, <2>5, <2>6, <2>7, <2>8
  <1>3. OnlyMoves(r)
    BY <1>1, <1>2 DEF OnlyMoves
  <1>4. LimiterTypeOK'
    BY <1>3, FlowMovesType
  <1>5. ASSUME NEW u, NEW type, Pends(flow'[r], call'[r], u, type)
        PROVE  Pends(flow[r], call[r], u, type)
    BY <1>2, <1>5 DEF Pends
  <1>6. Ready(call'[r], call[r])
    BY <1>1 DEF Ready
  <1> QED BY <1>1, <1>3, <1>4, <1>5, <1>6, RequestIsQuiet

LEMMA AskIsQuiet ==
  ASSUME TokenTypeOK, LimiterTypeOK, NEW r \in Requests, NEW u \in Users, NEW type \in ActionTokenType,
         AskRateLimit(r, u, type)
  PROVE  LimiterTypeOK' /\ Quiet
  <1>1. PICK k : k = <<type, u>>
    OBVIOUS
  <1>n. now \in Nat
    BY DEF TokenTypeOK
  <1> DEFINE v == [RateLimit!NoCall EXCEPT !.pc = "drop", !.key = k, !.asked = now]
  <1>2. /\ call' = [call EXCEPT ![r] = v]
        /\ UNCHANGED <<now, account, mails, counters, created, admitted, alerts, silenced, overdue>>
    BY <1>1 DEF AskRateLimit, RateLimit!Consume
  <1>3. v \in CallRecord /\ v.pc = "drop" /\ v.key = k /\ v.asked = now /\ v.since = 0
    BY <1>1, <1>n DEF RateLimit!NoCall, CallRecord, Boxes
  <1> HIDE DEF v
  <1>t. TimesFit(r, v)
    BY <1>3, <1>n DEF TimesFit
  <1>4. /\ flow'[r] = [pc |-> "limit", type |-> type, user |-> u, hash |-> 0, since |-> 0]
        /\ \A q \in Requests : q # r => flow'[q] = flow[q]
    BY FlowMoves DEF AskRateLimit
  <1>5. OnlyMoves(r) /\ call'[r] = v
    BY <1>2, <1>4 DEF OnlyMoves, LimiterTypeOK
  <1>6. call' \in [Requests -> CallRecord] /\ CallsMatch' /\ CallTimesOK'
    <2>1. v.key = <<flow'[r].type, flow'[r].user>> /\ flow'[r].pc = "limit"
      BY <1>1, <1>3, <1>4
    <2>2. call' = [call EXCEPT ![r] = v]
      BY <1>2
    <2> QED BY <1>2, <1>3, <1>t, <1>5, <2>1, <2>2, OneCallMoves
  <1>7. LimiterTypeOK'
    BY <1>2, <1>6 DEF LimiterTypeOK
  <1>8. \A w, y : ~ Pends(flow'[r], call'[r], w, y)
    BY <1>3, <1>4, <1>5 DEF Pends
  <1>9. Ready(call'[r], call[r])
    BY <1>3, <1>5 DEF Ready
  <1> QED BY <1>2, <1>5, <1>7, <1>8, <1>9, RequestIsQuiet

LEMMA CallerIsQuiet ==
  ASSUME TokenTypeOK, LimiterTypeOK, NEW r \in Requests, NEW v \in CallRecord,
         call' = [call EXCEPT ![r] = v], v.key = call[r].key, v.pc \notin {"idle", "allowed"},
         call[r].pc # "idle", TimesFit(r, v), v.pc = "count" => v.since = now,
         UNCHANGED <<now, tokenVars, created, admitted, silenced, overdue>>,
         counters' \subseteq counters, \A c \in counters \ counters' : c.expiresAt <= now,
         alerts' \in [1..MaxCounters -> Nat]
  PROVE  LimiterTypeOK' /\ Quiet
  <1>1. UNCHANGED <<now, account, flow, mails>>
    BY DEF tokenVars
  <1>2. OnlyMoves(r) /\ call'[r] = v
    BY <1>1 DEF OnlyMoves, LimiterTypeOK
  <1>3. call' \in [Requests -> CallRecord] /\ CallsMatch' /\ CallTimesOK'
    BY <1>1, <1>2, OneCallMoves DEF LimiterTypeOK, CallsMatch
  <1>4. LimiterTypeOK'
    BY <1>3 DEF LimiterTypeOK
  <1>5. ASSUME NEW q \in Requests, NEW u, NEW type, Pends(flow'[q], call'[q], u, type)
        PROVE  Pends(flow[q], call[q], u, type)
    BY <1>1, <1>2, <1>5 DEF OnlyMoves, Pends
  <1>6. \A q \in Requests : Ready(call'[q], call[q])
    BY <1>2 DEF OnlyMoves, Ready
  <1> QED BY <1>1, <1>4, <1>5, <1>6 DEF Quiet

\* The way into a flow: a sign-up, whose mail is under way at once, or quiet.
LEMMA CallMoves ==
  ASSUME TokenTypeOK, LimiterTypeOK, NEW r \in Requests, Call(r)
  PROVE  LimiterTypeOK' /\ (Quiet \/ \E u \in Users : SignUp(r, u))
  <1>1. ASSUME NEW u \in Users, SignUp(r, u) PROVE LimiterTypeOK'
    <2>1. flow[r].pc # "limit" /\ UNCHANGED <<now, limitVars>>
      BY <1>1 DEF SignUp, Accepts, Busy
    <2>2. \A q \in Requests : q # r => flow'[q] = flow[q]
      BY <1>1, FlowMoves DEF SignUp
    <2> QED BY <2>1, <2>2, FlowMovesType DEF OnlyMoves, limitVars
  <1>2. ASSUME NEW u \in Users, NEW type \in ActionTokenType, AskRateLimit(r, u, type)
        PROVE  LimiterTypeOK' /\ Quiet
    BY <1>2, AskIsQuiet
  <1>3. ASSUME NEW u \in Users, DeleteAccount(r, u) PROVE LimiterTypeOK' /\ Quiet
    <2>1. /\ flow[r].pc # "limit" /\ UNCHANGED <<now, mails, limitVars>>
          /\ Begin(r, "dropAll", "none", u, 0)
      BY <1>3 DEF DeleteAccount, Accepts, Busy
    <2>2. \A w \in Users : account[w] # "none" => account'[w] # "none"
      BY <1>3 DEF DeleteAccount, TokenTypeOK
    <2> QED BY <2>1, <2>2, FlowIsQuiet
  <1>4. ASSUME NEW h, NEW type, NEW next \in {"findUser", "markVerified"}, NEW f,
               Accepts(r, f), Redeem(r, h, type, next)
        PROVE  LimiterTypeOK' /\ Quiet
    <2>1. /\ flow[r].pc # "limit" /\ UNCHANGED <<now, account, mails, limitVars>>
          /\ UNCHANGED flow \/ \E u : Begin(r, next, type, u, h)
      BY <1>4 DEF Accepts, Busy, Redeem
    <2>2. CASE UNCHANGED flow
      BY <2>1, <2>2, RestType, RestIsQuiet
    <2>3. CASE \E u : Begin(r, next, type, u, h)
      BY <2>1, <2>3, FlowIsQuiet
    <2> QED BY <2>1, <2>2, <2>3
  <1>5. "passwordReset" \in ActionTokenType /\ "emailVerification" \in ActionTokenType
    BY DEF ActionTokenType
  <1> QED BY <1>1, <1>2, <1>3, <1>4, <1>5
          DEF Call, RequestReset, RequestVerification, Resend, ResetPassword, Verify

LEMMA LimiterMoves ==
  ASSUME TokenTypeOK, LimiterTypeOK, NEW r \in Requests, LimitStep(r)
  PROVE  LimiterTypeOK' /\ (Quiet \/ RateLimit!Count(r))
  <1>1. UNCHANGED <<now, tokenVars>> /\ now \in Nat
    BY DEF LimitStep, TokenTypeOK
  <1>2. CASE RateLimit!DropExpired(r)
    <2> DEFINE v == [call[r] EXCEPT !.pc = "count", !.since = now]
    <2>1. /\ call[r].pc = "drop" /\ call' = [call EXCEPT ![r] = v]
          /\ counters' = {c \in counters : ~ (/\ c.key = call[r].key
                                               /\ RateLimit!RanOut(c, call[r].asked))}
          /\ UNCHANGED <<created, admitted, alerts, silenced, overdue>>
      BY <1>2 DEF RateLimit!DropExpired
    <2>a. call[r] \in CallRecord /\ call[r].asked <= now
      BY DEF LimiterTypeOK, CallTimesOK, TimesFit
    <2>2. v \in CallRecord /\ v.key = call[r].key /\ v.pc = "count"
          /\ v.since = now /\ v.asked = call[r].asked
      BY <1>1, <2>1, <2>a DEF CallRecord
    <2>3. counters' \subseteq counters /\ \A c \in counters \ counters' : c.expiresAt <= now
      <3>1. \A c \in counters : c.expiresAt \in Nat
        BY DEF LimiterTypeOK, RateLimit!AccountActionCounter
      <3>2. call[r].asked \in Nat
        BY <2>a DEF CallRecord
      <3> QED BY <1>1, <2>1, <2>a, <3>1, <3>2 DEF RateLimit!RanOut
    <2>4. alerts' \in [1..MaxCounters -> Nat]
      BY <2>1 DEF LimiterTypeOK
    <2> HIDE DEF v
    <2>b. TimesFit(r, v)
      BY <1>1, <2>a, <2>2 DEF TimesFit
    <2>5. LimiterTypeOK' /\ Quiet
      BY <1>1, <2>1, <2>2, <2>3, <2>4, <2>b, CallerIsQuiet
    <2> QED BY <2>5
  <1>3. CASE RateLimit!Alert(r)
    <2> DEFINE v == [call[r] EXCEPT !.pc = "refused"]
    <2>1. /\ call[r].pc = "alert" /\ call' = [call EXCEPT ![r] = v]
          /\ alerts' = [alerts EXCEPT ![call[r].id] = @ + 1]
          /\ UNCHANGED <<counters, created, admitted, silenced, overdue>>
      BY <1>3 DEF RateLimit!Alert
    <2>a. call[r] \in CallRecord /\ call[r].asked <= now /\ call[r].since <= now
      BY DEF LimiterTypeOK, CallTimesOK, TimesFit
    <2>2. v \in CallRecord /\ v.key = call[r].key /\ v.pc = "refused"
          /\ v.since = call[r].since /\ v.asked = call[r].asked
      BY <2>1, <2>a DEF CallRecord
    <2>b. TimesFit(r, v)
      BY <2>a, <2>2 DEF TimesFit
    <2>3. alerts' \in [1..MaxCounters -> Nat]
      <3>1. PICK i, f : i = call[r].id /\ f = alerts
        OBVIOUS
      <3>2. f \in [1..MaxCounters -> Nat] /\ alerts' = [f EXCEPT ![i] = @ + 1]
        BY <2>1, <3>1 DEF LimiterTypeOK
      <3>3. \A j \in 1..MaxCounters : f[j] + 1 \in Nat
        BY <3>2
      <3> QED BY <3>2, <3>3
    <2> HIDE DEF v
    <2>4. LimiterTypeOK' /\ Quiet
      BY <1>1, <2>1, <2>2, <2>3, <2>b, CallerIsQuiet
    <2> QED BY <2>4
  <1>4. CASE RateLimit!Count(r)
    BY <1>1, <1>4, CountIs
  <1> QED BY <1>2, <1>3, <1>4 DEF LimitStep, RateLimit!LimitStep

\* A call that is over, or whose request died, leaves the slot as it found it.
LEMMA CallEnds ==
  ASSUME TokenTypeOK, LimiterTypeOK, NEW r \in Requests, call' = [call EXCEPT ![r] = RateLimit!NoCall],
         UNCHANGED <<now, account, mails, counters, created, admitted, alerts, overdue>>,
         silenced' \subseteq Nat,
         \A q \in Requests : q # r => flow'[q] = flow[q],
         \A u, type : Pends(flow'[r], call'[r], u, type) => Pends(flow[r], call[r], u, type)
  PROVE  LimiterTypeOK' /\ Quiet
  <1> DEFINE v == RateLimit!NoCall
  <1>1. v \in CallRecord /\ v.pc = "idle" /\ TimesFit(r, v) /\ call' = [call EXCEPT ![r] = v]
    BY NoCallType DEF TokenTypeOK
  <1> HIDE DEF v
  <1>2. OnlyMoves(r) /\ Ready(call'[r], call[r])
    BY <1>1 DEF OnlyMoves, Ready, LimiterTypeOK
  <1>3. call' \in [Requests -> CallRecord] /\ CallsMatch' /\ CallTimesOK'
    BY <1>1, <1>2, OneCallMoves
  <1>4. LimiterTypeOK'
    BY <1>3 DEF LimiterTypeOK
  <1> QED BY <1>2, <1>4, RequestIsQuiet

LEMMA LimitedMoves ==
  ASSUME TokenTypeOK, LimiterTypeOK, NEW r \in Requests, Limited(r)
  PROVE  LimiterTypeOK' /\ Quiet
  <1>1. PICK verdict \in {"allowed", "refused"} :
          /\ RateLimit!Return(r, verdict)
          /\ IF GoesOn(verdict) THEN Goto(r, "dropOld") ELSE End(r)
    BY DEF Limited
  <1>2. /\ call[r].pc = verdict /\ call' = [call EXCEPT ![r] = RateLimit!NoCall]
        /\ UNCHANGED <<now, account, mails, counters, created, admitted, alerts, silenced, overdue>>
        /\ silenced' \subseteq Nat /\ flow[r].pc = "limit"
    BY <1>1 DEF RateLimit!Return, Limited, LimiterTypeOK
  <1>3. CASE verdict = "allowed" /\ Goto(r, "dropOld")
    <2>1. /\ flow'[r].pc = "dropOld" /\ flow'[r].type = flow[r].type /\ flow'[r].user = flow[r].user
          /\ \A q \in Requests : q # r => flow'[q] = flow[q]
      BY <1>3, FlowMoves
    <2>2. \A u, type : Pends(flow'[r], call'[r], u, type) => Pends(flow[r], call[r], u, type)
      BY <1>2, <1>3, <2>1 DEF Pends
    <2> QED BY <1>2, <2>1, <2>2, CallEnds
  <1>4. CASE End(r)
    <2>1. flow'[r].pc = "idle" /\ \A q \in Requests : q # r => flow'[q] = flow[q]
      BY <1>4, FlowMoves
    <2>2. \A u, type : ~ Pends(flow'[r], call'[r], u, type)
      BY <2>1 DEF Pends
    <2> QED BY <1>2, <2>1, <2>2, CallEnds
  <1> QED BY <1>1, <1>3, <1>4 DEF GoesOn

LEMMA StepMoves ==
  ASSUME TokenTypeOK, LimiterTypeOK, NEW r \in Requests, Step(r)
  PROVE  /\ LimiterTypeOK'
         /\ \/ Quiet
            \/ RateLimit!Count(r) /\ UNCHANGED <<now, tokenVars>>
            \/ Mail(r)
  <1>1. CASE LimitStep(r)
    BY <1>1, LimiterMoves DEF LimitStep
  <1>2. CASE Limited(r)
    BY <1>2, LimitedMoves
  <1>3. CASE DropOld(r)
    <2>1. /\ flow[r].pc = "dropOld" /\ UNCHANGED <<now, account, mails, limitVars>>
          /\ UNCHANGED flow \/ Goto(r, "create")
      BY <1>3 DEF DropOld
    <2>2. CASE UNCHANGED flow
      BY <2>1, <2>2, RestType, RestIsQuiet
    <2>3. CASE Goto(r, "create")
      BY <2>1, <2>3, FlowIsQuiet
    <2> QED BY <2>1, <2>2, <2>3
  <1>4. CASE Create(r)
    <2>1. /\ flow[r].pc = "create" /\ UNCHANGED <<now, account, mails, limitVars>>
          /\ Begin(r, "mail", flow[r].type, flow[r].user, Len(issued) + 1)
      BY <1>4, CreateIssues DEF Issue
    <2> QED BY <2>1, FlowIsQuiet
  <1>5. CASE Mail(r)
    <2>1. /\ flow[r].pc # "limit" /\ UNCHANGED <<now, limitVars>>
          /\ \A q \in Requests : q # r => flow'[q] = flow[q]
      BY <1>5, FlowMoves DEF Mail
    <2>2. LimiterTypeOK'
      BY <2>1, FlowMovesType DEF OnlyMoves, limitVars
    <2> QED BY <1>5, <2>2
  <1>6. CASE FindUser(r) \/ ReplacePassword(r)
    <2>1. /\ flow[r].pc # "limit" /\ UNCHANGED <<now, account, mails, limitVars>>
          /\ Goto(r, "replace") \/ End(r)
      BY <1>6 DEF FindUser, ReplacePassword
    <2> QED BY <2>1, FlowIsQuiet
  <1>7. CASE MarkVerified(r)
    <2>1. /\ flow[r].pc # "limit" /\ UNCHANGED <<now, mails, limitVars>> /\ End(r)
      BY <1>7 DEF MarkVerified
    <2>2. \A u \in Users : account[u] # "none" => account'[u] # "none"
      BY <1>7 DEF MarkVerified, Verified, Exists, TokenTypeOK
    <2> QED BY <2>1, <2>2, FlowIsQuiet
  <1>8. CASE DropAll(r)
    <2>1. /\ flow[r].pc # "limit" /\ UNCHANGED <<now, account, mails, limitVars>>
          /\ UNCHANGED flow \/ End(r)
      BY <1>8 DEF DropAll
    <2>2. CASE UNCHANGED flow
      BY <2>1, <2>2, RestType, RestIsQuiet
    <2>3. CASE End(r)
      BY <2>1, <2>3, FlowIsQuiet
    <2> QED BY <2>1, <2>2, <2>3
  <1> QED BY <1>1, <1>2, <1>3, <1>4, <1>5, <1>6, <1>7, <1>8 DEF Step

LEMMA OtherMoves ==
  ASSUME TokenTypeOK, LimiterTypeOK,
         \/ \E r \in Requests : Fail(r)
         \/ Tick
         \/ Purge
         \/ UNCHANGED vars
  PROVE  LimiterTypeOK' /\ (Quiet \/ Tick)
  <1>1. ASSUME NEW r \in Requests, Fail(r) PROVE LimiterTypeOK' /\ Quiet
    <2>1. flow'[r].pc = "idle" /\ \A q \in Requests : q # r => flow'[q] = flow[q]
      BY <1>1, FlowMoves DEF Fail
    <2>2. \A u, type : ~ Pends(flow'[r], call'[r], u, type)
      BY <2>1 DEF Pends
    <2>3. UNCHANGED <<now, account, mails>>
      BY <1>1 DEF Fail
    <2>4. CASE RateLimit!Abort(r)
      <3>1. /\ call' = [call EXCEPT ![r] = RateLimit!NoCall]
            /\ UNCHANGED <<counters, created, admitted, alerts, overdue>>
        BY <2>4 DEF RateLimit!Abort
      <3>2. silenced' \subseteq Nat
        <4>1. call[r].id \in Nat /\ silenced \subseteq Nat
          BY DEF LimiterTypeOK, CallRecord
        <4>2. silenced' = silenced \cup {call[r].id} \/ silenced' = silenced
          BY <2>4 DEF RateLimit!Abort
        <4> QED BY <4>1, <4>2
      <3> QED BY <2>1, <2>2, <2>3, <3>1, <3>2, CallEnds
    <2>5. CASE UNCHANGED limitVars /\ call[r].pc = "idle"
      <3>1. UNCHANGED <<counters, call, created, admitted, alerts, silenced, overdue>>
        BY <2>5 DEF limitVars
      <3>2. OnlyMoves(r) /\ Ready(call'[r], call[r])
        BY <2>1, <3>1 DEF OnlyMoves, Ready
      <3>3. CallsMatch' /\ CallTimesOK'
        BY <2>3, <2>5, <3>1, <3>2
        DEF LimiterTypeOK, CallsMatch, CallTimesOK, TimesFit, OnlyMoves
      <3>4. LimiterTypeOK'
        BY <3>1, <3>3 DEF LimiterTypeOK
      <3> QED BY <2>2, <2>3, <3>1, <3>2, <3>4, RequestIsQuiet
    <2> QED BY <1>1, <2>4, <2>5 DEF Fail, RateLimit!Calling
  <1>2. CASE Tick
    <2>1. /\ UNCHANGED <<flow, call, counters, created, admitted, alerts, silenced, overdue>>
          /\ now \in Nat /\ now' = now + 1
          /\ \A r \in Requests \ Slow : flow[r].pc = "idle"
      BY <1>2 DEF Tick, tokenVars, limitVars, TokenTypeOK, Busy
    <2>2. ASSUME NEW r \in Requests PROVE TimesFit(r, call[r])'
      <3>1. /\ TimesFit(r, call[r]) /\ call[r] \in CallRecord
            /\ call[r].pc # "idle" => flow[r].pc = "limit"
        BY DEF LimiterTypeOK, CallTimesOK, CallsMatch
      <3>2. call[r].asked \in Nat /\ call[r].since \in Nat
        BY <3>1 DEF CallRecord
      <3>3. call[r].asked <= now + 1 /\ call[r].since <= now + 1
        BY <2>1, <3>1, <3>2 DEF TimesFit
      <3> QED BY <2>1, <3>1, <3>3 DEF TimesFit
    <2>3. CallTimesOK' /\ CallsMatch'
      BY <2>1, <2>2 DEF CallTimesOK, LimiterTypeOK, CallsMatch
    <2> QED BY <1>2, <2>1, <2>3 DEF LimiterTypeOK
  <1>3. CASE Purge
    <2>1. CASE UNCHANGED limitVars /\ UNCHANGED <<now, account, flow, mails>>
      BY <2>1, RestType, RestIsQuiet
    <2>2. CASE RateLimit!PurgeCounters /\ UNCHANGED <<now, tokenVars>>
      <3>1. /\ counters' \subseteq counters /\ \A c \in counters \ counters' : c.expiresAt <= now
            /\ UNCHANGED <<now, account, flow, mails, call, created, admitted, alerts, silenced,
                           overdue>>
        BY <2>2 DEF RateLimit!PurgeCounters, tokenVars
      <3> QED BY <3>1 DEF LimiterTypeOK, CallsMatch, CallTimesOK, TimesFit, Quiet, Ready
    <2> QED BY <1>3, <2>1, <2>2 DEF Purge, limitVars
  <1>4. CASE UNCHANGED vars
    BY <1>4, RestType, RestIsQuiet DEF vars, tokenVars
  <1> QED BY <1>1, <1>2, <1>3, <1>4

LEMMA LimiterTypeHolds == Spec => [](TokenTypeOK /\ LimiterTypeOK)
  <1>1. Init => TokenTypeOK /\ LimiterTypeOK
    BY InitType, InitLimiterType
  <1>2. TokenTypeOK /\ LimiterTypeOK /\ [Next]_vars => (TokenTypeOK /\ LimiterTypeOK)'
    <2> SUFFICES ASSUME TokenTypeOK, LimiterTypeOK, [Next]_vars PROVE LimiterTypeOK'
      BY NextType
    <2> QED BY CallMoves, StepMoves, OtherMoves DEF Next
  <1> QED BY <1>1, <1>2, PTL DEF Spec

HistoryTypeOK == uses \in [1..MaxTokens -> Nat] /\ lost \subseteq Users \X ActionTokenType

LEMMA HistoryType ==
  ASSUME TokenTypeOK, HistoryTypeOK, [Next]_vars
  PROVE  HistoryTypeOK'
  <1>1. ASSUME NEW h, uses' = [uses EXCEPT ![h] = @ + 1]
        PROVE  uses' \in [1..MaxTokens -> Nat]
    <2>1. PICK f : f = uses
      OBVIOUS
    <2>2. f \in [1..MaxTokens -> Nat] /\ uses' = [f EXCEPT ![h] = @ + 1]
      BY <1>1, <2>1 DEF HistoryTypeOK
    <2>3. \A j \in 1..MaxTokens : f[j] + 1 \in Nat
      BY <2>2
    <2> QED BY <2>2, <2>3
  <1>2. ASSUME NEW h, NEW r, NEW type, NEW next, Redeem(r, h, type, next)
        PROVE  HistoryTypeOK'
    <2>1. /\ uses' = [uses EXCEPT ![h] = @ + 1] \/ UNCHANGED uses
          /\ UNCHANGED lost
      BY <1>2 DEF Redeem
    <2> QED BY <1>1, <2>1 DEF HistoryTypeOK
  <1>3. ASSUME NEW r \in Requests, Fail(r) PROVE HistoryTypeOK'
    <2>1. UNCHANGED uses
      BY <1>3 DEF Fail
    <2>2. CASE flow[r].pc \in {"dropOld", "create"}
      <3>1. flow[r].user \in Users /\ flow[r].type \in ActionTokenType
        BY <2>2 DEF TokenTypeOK, FlowTypeOK, KnowsUser, KnowsType
      <3>2. lost' = lost \cup {<<flow[r].user, flow[r].type>>}
        BY <1>3, <2>2 DEF Fail
      <3> QED BY <2>1, <3>1, <3>2 DEF HistoryTypeOK
    <2>3. CASE flow[r].pc \notin {"dropOld", "create"}
      BY <1>3, <2>1, <2>3 DEF Fail, HistoryTypeOK
    <2> QED BY <2>2, <2>3
  <1>4. CASE UNCHANGED <<uses, lost>>
    BY <1>4 DEF HistoryTypeOK
  <1>5. ASSUME NEW r \in Requests, Call(r) PROVE HistoryTypeOK'
    BY <1>2, <1>4, <1>5
    DEF Call, SignUp, RequestReset, RequestVerification, Resend, AskRateLimit, DeleteAccount,
        ResetPassword, Verify
  <1>6. ASSUME NEW r \in Requests, Step(r) PROVE UNCHANGED <<uses, lost>>
    BY <1>6
    DEF Step, LimitStep, Limited, DropOld, Create, Mail, FindUser, ReplacePassword, MarkVerified,
        DropAll, tokenVars
  <1>7. CASE Tick \/ Purge \/ UNCHANGED vars
    BY <1>4, <1>7 DEF Tick, Purge, vars, tokenVars
  <1> QED BY <1>3, <1>4, <1>5, <1>6, <1>7 DEF Next

\* The collections, the requests and the calls they make hold what they should,
\* and a request knows what it needs to know where it is.
THEOREM TypeCorrect == Spec => []TypeOK
  <1>1. Init => HistoryTypeOK
    BY DEF Init, HistoryTypeOK
  <1>2. TokenTypeOK /\ HistoryTypeOK /\ [Next]_vars => HistoryTypeOK'
    BY HistoryType
  <1>3. TokenTypeOK /\ LimiterTypeOK /\ HistoryTypeOK => TypeOK
    <2> SUFFICES ASSUME TokenTypeOK, LimiterTypeOK, HistoryTypeOK PROVE TypeOK
      OBVIOUS
    <2>1. \A r \in Requests : call[r].pc # "idle" => call[r].key \in Boxes
      <3> SUFFICES ASSUME NEW r \in Requests, call[r].pc # "idle" PROVE call[r].key \in Boxes
        OBVIOUS
      <3>1. flow[r].pc = "limit" /\ call[r].key = <<flow[r].type, flow[r].user>>
        BY DEF LimiterTypeOK, CallsMatch
      <3>2. flow[r].type \in ActionTokenType /\ flow[r].user \in Users
        BY <3>1 DEF TokenTypeOK, FlowTypeOK, KnowsUser, KnowsType
      <3> QED BY <3>1, <3>2 DEF Boxes
    <2>2. RateLimit!RateTypeOK
      BY <2>1 DEF RateLimit!RateTypeOK, RateLimit!Calling, LimiterTypeOK, CallRecord, Boxes,
                  TokenTypeOK
    <2> QED BY <2>2
            DEF TypeOK, TokenTypeOK, FlowTypeOK, HistoryTypeOK, Flow, Labels, KnowsUser, Busy
  <1>4. Spec => []HistoryTypeOK
    <2>1. Spec => []TokenTypeOK
      BY LimiterTypeHolds, PTL
    <2> QED BY <1>1, <1>2, <2>1, PTL DEF Spec
  <1> QED BY <1>3, <1>4, LimiterTypeHolds, PTL

-----------------------------------------------------------------------------
(* How many mails a span of time brings *)

\* The mails of a type to u from t on, and those within a window from t.
MailsSince(M, u, type, t) == {m \in M : m.user = u /\ m.type = type /\ t <= m.at}
MailsWithin(M, u, type, t) ==
    {m \in M : m.user = u /\ m.type = type /\ t <= m.at /\ m.at < t + Window}

\* The calls counter c admitted.
Used(c) == IF c.count <= Limit THEN c.count ELSE Limit

\* A box that n mails of a span from t are put down to: they are what its counter
\* admitted, and what one counter before it can still have admitted in the span.
BoxOK(C, k, t, n) ==
    /\ (\A c \in C : c.key # k) => n <= Limit - 1
    /\ \A c \in C : c.key = k =>
          n <= IF c.expiresAt - Window < t THEN Used(c) - 1 ELSE Limit - 1 + Used(c)

\* The mail of a sign-up, which nobody counts.
SignUpMail(u, type) == IF type = "emailVerification" /\ account[u] # "none" THEN 1 ELSE 0

\* The calls of a box that dropped what had run out before t and are not counted
\* yet: the upsert of each may have been sent before t.
Late(k, t) == {r \in Slow : call[r].pc = "count" /\ call[r].key = k /\ call[r].since < t}

\* What the slow requests may have added to a span, if the upserts of L are still on
\* their way: the limit once for each of the others, whose upsert may have begun a
\* counter that was over too soon, or which may have been admitted before the span.
Spent(L) == Limit * (Cardinality(Slow) - Cardinality(L))

\* The mails from t on and those under way, less those no counter answers for.
Load(u, type, t) ==
    Cardinality(MailsSince(mails, u, type, t)) + Cardinality(Pending(u, type))
        - Spent(Late(<<type, u>>, t)) - SignUpMail(u, type)

Most(type) == (Cardinality(Slow) + 2) * Limit - 1 + (IF type = "emailVerification" THEN 1 ELSE 0)

RunningSpansFit ==
    \A u \in Users, type \in ActionTokenType, t \in Nat :
        t <= now /\ now < t + Window => BoxOK(counters, <<type, u>>, t, Load(u, type, t))

MailboxInv ==
    /\ IsFiniteSet(mails) /\ \A m \in mails : m.at <= now
    /\ RunningSpansFit
    /\ \A u \in Users, type \in ActionTokenType, t \in Nat :
          Cardinality(MailsWithin(mails, u, type, t)) <= Most(type)

LEMMA RequestsAreFinite ==
  ASSUME NEW S \in SUBSET Requests
  PROVE  IsFiniteSet(S) /\ Cardinality(S) \in Nat
  BY FS_Subset, FS_CardinalityType, ActionTokensAssumption

LEMMA MailsAreFinite ==
  ASSUME NEW M, IsFiniteSet(M), NEW u, NEW type, NEW t
  PROVE  /\ IsFiniteSet(MailsSince(M, u, type, t))
         /\ Cardinality(MailsSince(M, u, type, t)) \in Nat
         /\ Cardinality(MailsWithin(M, u, type, t)) \in Nat
         /\ Cardinality(MailsWithin(M, u, type, t)) <= Cardinality(MailsSince(M, u, type, t))
  <1>1. /\ MailsSince(M, u, type, t) \in SUBSET M
        /\ MailsWithin(M, u, type, t) \in SUBSET MailsSince(M, u, type, t)
    BY DEF MailsSince, MailsWithin
  <1>2. IsFiniteSet(MailsSince(M, u, type, t)) /\ IsFiniteSet(MailsWithin(M, u, type, t))
    BY <1>1, FS_Subset
  <1> QED BY <1>1, <1>2, FS_Subset, FS_CardinalityType

LEMMA BoxNumbers ==
  /\ Limit \in Nat \ {0} /\ Window \in Nat \ {0} /\ Cardinality(Slow) \in Nat
  /\ \A u, type : SignUpMail(u, type) \in {0, 1}
  BY RequestsAreFinite, ActionTokensAssumption DEF SignUpMail

LEMMA TimesMono ==
  ASSUME NEW l \in Nat, NEW a \in Nat, NEW b \in Nat, a <= b
  PROVE  l * a \in Nat /\ l * b \in Nat /\ l * a <= l * b
  <1>1. PICK d \in Nat : b = a + d
    <2>1. b - a \in Nat /\ b = a + (b - a)
      OBVIOUS
    <2> QED BY <2>1
  <1>2. l * a \in Nat /\ l * d \in Nat
    OBVIOUS
  <1>3. l * b = l * a + l * d
    BY <1>1
  <1> QED BY <1>2, <1>3

\* No more upserts are late than there are slow requests.
LEMMA SpentType ==
  ASSUME NEW L \in SUBSET Slow
  PROVE  /\ IsFiniteSet(L) /\ Cardinality(L) \in Nat /\ Cardinality(L) <= Cardinality(Slow)
         /\ Spent(L) \in Nat /\ Spent(L) + 2 * Limit - 1 <= (Cardinality(Slow) + 2) * Limit - 1
         /\ (Cardinality(Slow) + 2) * Limit - 1 \in Nat
         /\ Cardinality(Slow) - Cardinality(L) <= Spent(L)
  <1>0. IsFiniteSet(Slow)
    BY RequestsAreFinite, ActionTokensAssumption
  <1>1. PICK s, l : s = Cardinality(Slow) /\ l = Cardinality(L)
    OBVIOUS
  <1>2. IsFiniteSet(L) /\ l \in Nat /\ l <= s /\ s \in Nat
    BY <1>0, <1>1, FS_Subset, FS_CardinalityType
  <1>3. Limit \in Nat \ {0}
    BY ActionTokensAssumption
  <1>4. s - l \in Nat /\ s - l <= s
    BY <1>2
  <1>5. Limit * (s - l) \in Nat /\ Limit * s \in Nat /\ Limit * (s - l) <= Limit * s
    BY <1>2, <1>3, <1>4, TimesMono
  <1>6. (s + 2) * Limit - 1 = Limit * s + 2 * Limit - 1
    BY <1>2, <1>3
  <1>7. s - l <= Limit * (s - l)
    <2>1. PICK d \in Nat : d = s - l
      BY <1>4
    <2>2. d * 1 <= d * Limit
      BY <1>3, TimesMono
    <2>3. d * 1 = d /\ d * Limit = Limit * d
      BY <1>3
    <2> QED BY <2>1, <2>2, <2>3
  <1> QED BY <1>1, <1>2, <1>3, <1>5, <1>6, <1>7 DEF Spent

\* An upsert that was late and no longer is has spent its limit's worth.
LEMMA LateOnesSpend ==
  ASSUME NEW M \in SUBSET Slow, NEW L \in SUBSET M
  PROVE  /\ Spent(M) <= Spent(L)
         /\ \A r \in M : r \notin L => Spent(M) + Limit <= Spent(L)
  <1>1. PICK s, l, m : s = Cardinality(Slow) /\ l = Cardinality(L) /\ m = Cardinality(M)
    OBVIOUS
  <1>2. /\ s \in Nat /\ l \in Nat /\ m \in Nat /\ l <= s /\ m <= s
        /\ IsFiniteSet(M) /\ IsFiniteSet(L) /\ Limit \in Nat
    BY <1>1, SpentType, BoxNumbers
  <1>3. l <= m
    BY <1>1, <1>2, FS_Subset
  <1>4. Spent(M) = Limit * (s - m) /\ Spent(L) = Limit * (s - l)
    BY <1>1 DEF Spent
  <1>5. Limit * (s - m) <= Limit * (s - l)
    <2>1. s - l \in Nat /\ s - m \in Nat /\ s - m <= s - l
      BY <1>2, <1>3
    <2> QED BY <1>2, <2>1, TimesMono
  <1>6. ASSUME NEW r \in M, r \notin L
        PROVE  Limit * (s - m) + Limit <= Limit * (s - l)
    <2>1. L \in SUBSET (M \ {r})
      BY <1>6
    <2>2. IsFiniteSet(M \ {r}) /\ Cardinality(M \ {r}) = m - 1
      BY <1>1, <1>2, <1>6, FS_RemoveElement
    <2>3. l <= m - 1
      BY <1>1, <2>1, <2>2, FS_Subset
    <2>4. s - m + 1 \in Nat /\ s - l \in Nat /\ s - m + 1 <= s - l
      BY <1>2, <2>3
    <2>5. Limit * (s - m + 1) <= Limit * (s - l)
      BY <1>2, <2>4, TimesMono
    <2>6. Limit * (s - m + 1) = Limit * (s - m) + Limit
      BY <1>2
    <2> QED BY <2>5, <2>6
  <1> QED BY <1>4, <1>5, <1>6

LEMMA LateIsSlow == \A k, t : Late(k, t) \in SUBSET Slow /\ Late(k, t)' \in SUBSET Slow
  BY DEF Late

\* What late upserts may have added to a box, before and after a step.
LEMMA LateNumbers ==
  ASSUME NEW k, NEW t
  PROVE  Spent(Late(k, t)) \in Nat /\ Spent(Late(k, t)') \in Nat
  <1>1. PICK L, M : L = Late(k, t) /\ M = Late(k, t)'
    OBVIOUS
  <1>2. L \in SUBSET Slow /\ M \in SUBSET Slow
    BY <1>1, LateIsSlow
  <1> QED BY <1>1, <1>2, SpentType

\* No call becomes late for a span that has begun.
LEMMA LaterSpendsMore ==
  ASSUME TokenTypeOK, \A r \in Requests : Ready(call'[r], call[r]), UNCHANGED now,
         NEW k, NEW t \in Nat, t <= now
  PROVE  Late(k, t)' \in SUBSET Late(k, t) /\ Spent(Late(k, t)) <= Spent(Late(k, t)')
  <1>1. PICK L, M : L = Late(k, t)' /\ M = Late(k, t)
    OBVIOUS
  <1>2. L \in SUBSET M
    BY <1>1, ActionTokensAssumption DEF Late, Ready, TokenTypeOK
  <1>3. M \in SUBSET Slow
    BY <1>1, LateIsSlow
  <1>4. Spent(M) <= Spent(L)
    BY <1>2, <1>3, LateOnesSpend
  <1> QED BY <1>1, <1>2, <1>4

LEMMA LoadIsInt ==
  ASSUME IsFiniteSet(mails), NEW u, NEW type, NEW t
  PROVE  Load(u, type, t) \in Int
  <1>1. /\ Cardinality(MailsSince(mails, u, type, t)) \in Nat
        /\ Cardinality(Pending(u, type)) \in Nat
    BY MailsAreFinite, RequestsAreFinite DEF Pending
  <1> QED BY <1>1, BoxNumbers, LateNumbers DEF Load

CountersAre(C) == C \subseteq RateLimit!AccountActionCounter /\ \A c \in C : c.count >= 1

LEMMA UsedIs ==
  ASSUME NEW C, CountersAre(C), NEW c \in C
  PROVE  Used(c) \in 1..Limit /\ c.expiresAt \in Nat /\ c.count \in Nat
  BY BoxNumbers DEF CountersAre, Used, RateLimit!AccountActionCounter

\* Counters go when they have run out, and a box gets no heavier.
LEMMA LighterBox ==
  ASSUME NEW C, CountersAre(C), NEW B \in SUBSET C, NEW k, NEW s \in Nat, NEW t \in Nat,
         \A c \in C \ B : c.expiresAt <= s, s < t + Window,
         NEW n \in Int, NEW m \in Int, m <= n, BoxOK(C, k, t, n)
  PROVE  BoxOK(B, k, t, m)
  <1>1. ASSUME NEW c \in C, c.key = k, c \notin B
        PROVE  m <= Limit - 1
    <2>1. c.expiresAt - Window < t
      BY <1>1, UsedIs, BoxNumbers
    <2>2. n <= Used(c) - 1
      BY <1>1, <2>1 DEF BoxOK
    <2> QED BY <2>2, UsedIs, BoxNumbers
  <1>2. (\A c \in B : c.key # k) => m <= Limit - 1
    BY <1>1, BoxNumbers DEF BoxOK
  <1>3. ASSUME NEW c \in B, c.key = k
        PROVE  m <= IF c.expiresAt - Window < t THEN Used(c) - 1 ELSE Limit - 1 + Used(c)
    <2>1. n <= IF c.expiresAt - Window < t THEN Used(c) - 1 ELSE Limit - 1 + Used(c)
      BY <1>3 DEF BoxOK
    <2> QED BY <2>1, UsedIs, BoxNumbers
  <1> QED BY <1>2, <1>3 DEF BoxOK

\* A box that fits bounds what a span can hold.
LEMMA BoxIsBounded ==
  ASSUME NEW C, CountersAre(C), NEW k, NEW t \in Nat, NEW n \in Int, BoxOK(C, k, t, n)
  PROVE  n <= 2 * Limit - 1
  <1>1. CASE \A c \in C : c.key # k
    BY <1>1, BoxNumbers DEF BoxOK
  <1>2. CASE \E c \in C : c.key = k
    <2>1. PICK c \in C : c.key = k
      BY <1>2
    <2>2. n <= IF c.expiresAt - Window < t THEN Used(c) - 1 ELSE Limit - 1 + Used(c)
      BY <2>1 DEF BoxOK
    <2>3. Used(c) \in 1..Limit
      BY UsedIs
    <2> QED BY <2>2, <2>3, BoxNumbers
  <1> QED BY <1>1, <1>2

\* A call is counted on k's counter c: one mail more in the span, if it is admitted.
LEMMA CountedBox ==
  ASSUME NEW C, CountersAre(C), NEW B, CountersAre(B), NEW k, NEW c \in B, c.key = k,
         \A d \in B : d.key = k => d = c, NEW s \in Nat, NEW t \in Nat,
         \/ (\A d \in C : d.key # k) /\ c.count = 1 /\ c.expiresAt = s + Window
         \/ \E d \in C : d.key = k /\ c.count = d.count + 1 /\ c.expiresAt = d.expiresAt,
         NEW n \in Int, NEW m \in Int, m <= n + 1, ~ (c.count <= Limit) => m <= n,
         s < t => m <= n + 1 - Limit, BoxOK(C, k, t, n)
  PROVE  BoxOK(B, k, t, m)
  <1>1. c.count \in Nat /\ c.expiresAt \in Nat
    BY UsedIs
  <1>2. m <= IF c.expiresAt - Window < t THEN Used(c) - 1 ELSE Limit - 1 + Used(c)
    <2>1. CASE (\A d \in C : d.key # k) /\ c.count = 1 /\ c.expiresAt = s + Window
      <3>1. n <= Limit - 1
        BY <2>1 DEF BoxOK
      <3>2. Used(c) = 1
        BY <2>1, BoxNumbers DEF Used
      <3>3. c.expiresAt - Window < t <=> s < t
        BY <2>1, BoxNumbers
      <3> QED BY <3>1, <3>2, <3>3, BoxNumbers
    <2>2. CASE \E d \in C : d.key = k /\ c.count = d.count + 1 /\ c.expiresAt = d.expiresAt
      <3>1. PICK d \in C : d.key = k /\ c.count = d.count + 1 /\ c.expiresAt = d.expiresAt
        BY <2>2
      <3>2. /\ n <= IF d.expiresAt - Window < t THEN Used(d) - 1 ELSE Limit - 1 + Used(d)
            /\ d.count \in Nat
        BY <3>1, UsedIs DEF BoxOK
      <3>3. /\ c.count <= Limit => Used(c) = Used(d) + 1
            /\ ~ (c.count <= Limit) => Used(c) = Used(d)
            /\ Used(c) \in Nat /\ Used(d) \in Nat
        BY <1>1, <3>1, <3>2, BoxNumbers DEF Used
      <3> QED BY <1>1, <3>1, <3>2, <3>3, BoxNumbers
    <2> QED BY <2>1, <2>2
  <1> QED BY <1>2 DEF BoxOK

\* One request joins a set of requests, leaves it, or neither.
LEMMA OneJoinsOrLeaves ==
  ASSUME NEW S \in SUBSET Requests, NEW U \in SUBSET Requests, NEW r \in Requests,
         \A q \in Requests \ {r} : q \in S <=> q \in U
  PROVE  /\ r \in S /\ r \notin U => Cardinality(U) = Cardinality(S) - 1
         /\ Cardinality(U) <= Cardinality(S) + 1
         /\ (r \in U => r \in S) => Cardinality(U) <= Cardinality(S)
  <1>1. IsFiniteSet(S) /\ IsFiniteSet(U) /\ Cardinality(S) \in Nat /\ Cardinality(U) \in Nat
    BY RequestsAreFinite
  <1>2. CASE r \in S /\ r \notin U
    <2>1. U = S \ {r}
      BY <1>2
    <2>2. Cardinality(U) = Cardinality(S) - 1
      BY <1>1, <1>2, <2>1, FS_RemoveElement
    <2> QED BY <1>1, <2>2
  <1>3. CASE r \notin S /\ r \in U
    <2>1. U = S \cup {r}
      BY <1>3
    <2>2. Cardinality(U) = Cardinality(S) + 1
      BY <1>1, <1>3, <2>1, FS_AddElement
    <2> QED BY <1>1, <1>3, <2>2
  <1>4. CASE r \in S <=> r \in U
    <2>1. U = S
      BY <1>4
    <2>2. Cardinality(U) = Cardinality(S)
      BY <2>1
    <2> QED BY <1>1, <1>4, <2>2
  <1> QED BY <1>2, <1>3, <1>4

\* A step that mails nothing needs to keep the spans that still run only.
LEMMA NothingMailed ==
  ASSUME MailboxInv, UNCHANGED mails, now <= now', now \in Nat, now' \in Nat,
         mails \subseteq [hash: Nat, type: ActionTokenType, user: Users, at: Nat],
         RunningSpansFit'
  PROVE  MailboxInv'
  <1>1. \A m \in mails : m.at <= now'
    BY DEF MailboxInv
  <1>2. \A u \in Users, type \in ActionTokenType, t \in Nat :
           Cardinality(MailsWithin(mails, u, type, t)) <= Most(type)
    BY DEF MailboxInv
  <1>3. IsFiniteSet(mails) /\ mails' = mails
    BY DEF MailboxInv
  <1> QED BY <1>1, <1>2, <1>3 DEF MailboxInv, Most

LEMMA QuietKeepsMailbox ==
  ASSUME TokenTypeOK, LimiterTypeOK, MailboxInv, Quiet
  PROVE  MailboxInv'
  <1>1. ASSUME NEW u \in Users, NEW type \in ActionTokenType, NEW t \in Nat, t <= now, now < t + Window
        PROVE  BoxOK(counters', <<type, u>>, t, Load(u, type, t)')
    <2>1. PICK n, n2 : n = Load(u, type, t) /\ n2 = Load(u, type, t)'
      OBVIOUS
    <2>2. PICK p, p2, x, x2 :
            /\ p = Cardinality(Pending(u, type)) /\ p2 = Cardinality(Pending(u, type)')
            /\ x = SignUpMail(u, type) /\ x2 = SignUpMail(u, type)'
      OBVIOUS
    <2>3. PICK s \in Nat : s = Cardinality(MailsSince(mails, u, type, t))
      BY MailsAreFinite DEF MailboxInv
    <2>4. p \in Nat /\ p2 \in Nat /\ p2 <= p
      <3>1. Pending(u, type)' \subseteq Pending(u, type) /\ Pending(u, type) \in SUBSET Requests
        BY DEF Quiet, Pending
      <3>2. PICK S, U : S = Pending(u, type) /\ U = Pending(u, type)'
        OBVIOUS
      <3>3. Cardinality(U) <= Cardinality(S) /\ Cardinality(U) \in Nat /\ Cardinality(S) \in Nat
        BY <3>1, <3>2, RequestsAreFinite, FS_Subset
      <3> QED BY <2>2, <3>2, <3>3
    <2>5. x \in {0, 1} /\ x2 \in {0, 1} /\ x <= x2
      BY <2>2 DEF Quiet, SignUpMail
    <2>y. PICK y \in Nat, y2 \in Nat : /\ y = Spent(Late(<<type, u>>, t))
                                       /\ y2 = Spent(Late(<<type, u>>, t)')
      BY LateNumbers
    <2>z. y <= y2
      BY <1>1, <2>y, LaterSpendsMore DEF Quiet
    <2>6. n = s + p - y - x /\ n2 = s + p2 - y2 - x2
      BY <2>1, <2>2, <2>3, <2>y DEF Load, Quiet, Spent
    <2>7. n \in Int /\ n2 \in Int /\ n2 <= n
      BY <2>3, <2>4, <2>5, <2>6, <2>z
    <2>8. BoxOK(counters, <<type, u>>, t, n)
      BY <1>1, <2>1 DEF MailboxInv, RunningSpansFit
    <2>9. CountersAre(counters) /\ now \in Nat /\ counters' \in SUBSET counters
          /\ \A c \in counters \ counters' : c.expiresAt <= now
      BY DEF LimiterTypeOK, CountersAre, TokenTypeOK, Quiet
    <2>10. BoxOK(counters', <<type, u>>, t, n2)
      BY <1>1, <2>7, <2>8, <2>9, LighterBox
    <2> QED BY <2>1, <2>10
  <1>2. UNCHANGED <<now, mails>> /\ now \in Nat
    BY DEF Quiet, TokenTypeOK
  <1>3. RunningSpansFit'
    BY <1>1, <1>2 DEF RunningSpansFit
  <1> QED BY <1>2, <1>3, NothingMailed DEF TokenTypeOK

\* A new account: its first mail is under way, and it is the one nobody counts.
LEMMA SignUpKeepsMailbox ==
  ASSUME TokenTypeOK, LimiterTypeOK, MailboxInv, NEW r \in Requests, NEW w \in Users, SignUp(r, w)
  PROVE  MailboxInv'
  <1>1. /\ UNCHANGED <<now, mails, counters, call>> /\ now \in Nat
        /\ account[w] = "none" /\ account' = [account EXCEPT ![w] = "unverified"]
        /\ flow[r].pc = "idle"
    BY DEF SignUp, limitVars, Accepts, Busy, TokenTypeOK
  <1>2. /\ flow'[r] = [pc |-> "dropOld", type |-> "emailVerification", user |-> w, hash |-> 0,
                       since |-> 0]
        /\ \A q \in Requests : q # r => flow'[q] = flow[q]
    BY FlowMoves DEF SignUp
  <1>3. ASSUME NEW u \in Users, NEW type \in ActionTokenType, NEW t \in Nat, t <= now, now < t + Window
        PROVE  BoxOK(counters', <<type, u>>, t, Load(u, type, t)')
    <2>1. PICK n, n2 : n = Load(u, type, t) /\ n2 = Load(u, type, t)'
      OBVIOUS
    <2>2. PICK x, x2 : x = SignUpMail(u, type) /\ x2 = SignUpMail(u, type)'
      OBVIOUS
    <2>3. PICK S, U : S = Pending(u, type) /\ U = Pending(u, type)'
      OBVIOUS
    <2>4. PICK s \in Nat : s = Cardinality(MailsSince(mails, u, type, t))
      BY MailsAreFinite DEF MailboxInv
    <2>5. PICK p \in Nat, p2 \in Nat : p = Cardinality(S) /\ p2 = Cardinality(U)
      BY <2>3, RequestsAreFinite DEF Pending
    <2>x. Spent(Late(<<type, u>>, t))' = Spent(Late(<<type, u>>, t))
      BY <1>1 DEF Late, Spent
    <2>y. PICK y \in Nat : y = Spent(Late(<<type, u>>, t)) /\ y = Spent(Late(<<type, u>>, t))'
      BY <2>x, LateNumbers
    <2>6. /\ n = s + p - y - x
          /\ n2 = s + p2 - y - x2
      BY <1>1, <2>1, <2>2, <2>3, <2>4, <2>5, <2>y DEF Load
    <2>7. /\ S \in SUBSET Requests /\ U \in SUBSET Requests
          /\ \A q \in Requests \ {r} : q \in S <=> q \in U
          /\ r \in U => u = w /\ type = "emailVerification"
      BY <1>1, <1>2, <2>3 DEF Pending, Pends
    <2>8. n2 <= n
      <3>1. x \in {0, 1} /\ x2 \in {0, 1} /\ x <= x2
        BY <1>1, <2>2 DEF SignUpMail, TokenTypeOK
      <3>2. CASE u = w /\ type = "emailVerification"
        <4>1. x = 0 /\ x2 = 1
          BY <1>1, <2>2, <3>2 DEF SignUpMail, TokenTypeOK
        <4>2. p2 <= p + 1
          BY <2>5, <2>7, OneJoinsOrLeaves
        <4> QED BY <2>6, <4>1, <4>2, BoxNumbers
      <3>3. CASE ~ (u = w /\ type = "emailVerification")
        <4>1. p2 <= p
          BY <2>5, <2>7, <3>3, OneJoinsOrLeaves
        <4> QED BY <2>6, <3>1, <4>1, BoxNumbers
      <3> QED BY <3>2, <3>3
    <2>9. n \in Int /\ n2 \in Int
      BY <2>2, <2>6, BoxNumbers DEF SignUpMail
    <2>10. BoxOK(counters, <<type, u>>, t, n)
      BY <1>3, <2>1 DEF MailboxInv, RunningSpansFit
    <2>11. CountersAre(counters) /\ \A c \in counters \ counters : c.expiresAt <= now
      BY DEF LimiterTypeOK, CountersAre
    <2>12. BoxOK(counters, <<type, u>>, t, n2)
      BY <1>1, <1>3, <2>8, <2>9, <2>10, <2>11, LighterBox
    <2> QED BY <1>1, <2>1, <2>12
  <1>4. RunningSpansFit'
    BY <1>1, <1>3 DEF RunningSpansFit
  <1> QED BY <1>1, <1>4, NothingMailed DEF TokenTypeOK

\* What was under way is in the mailbox.
LEMMA MailKeepsMailbox ==
  ASSUME TokenTypeOK, LimiterTypeOK, MailboxInv, NEW r \in Requests, Mail(r)
  PROVE  MailboxInv'
  <1>1. PICK f, v : f = flow[r] /\ v = [hash |-> f.hash, type |-> f.type, user |-> f.user, at |-> now]
    OBVIOUS
  <1>2. /\ flow[r].pc = "mail" /\ mails' = mails \cup {v}
        /\ UNCHANGED <<now, account, counters, call>> /\ now \in Nat
        /\ v.type = flow[r].type /\ v.user = flow[r].user /\ v.at = now
    BY <1>1 DEF Mail, limitVars, TokenTypeOK
  <1>3. flow'[r].pc = "idle" /\ \A q \in Requests : q # r => flow'[q] = flow[q]
    BY FlowMoves DEF Mail
  <1>4. /\ IsFiniteSet(mails') /\ \A m \in mails' : m.at <= now'
        /\ IsFiniteSet(mails)
    BY <1>2, FS_AddElement DEF MailboxInv
  <1>5. CountersAre(counters)
    BY DEF LimiterTypeOK, CountersAre
  <1>6. ASSUME NEW u \in Users, NEW type \in ActionTokenType, NEW t \in Nat, t <= now, now < t + Window
        PROVE  BoxOK(counters, <<type, u>>, t, Load(u, type, t)')
    <2>1. PICK n, n2 : n = Load(u, type, t) /\ n2 = Load(u, type, t)'
      OBVIOUS
    <2>2. PICK x \in {0, 1} : x = SignUpMail(u, type)
      BY BoxNumbers
    <2>3. PICK S, U : S = Pending(u, type) /\ U = Pending(u, type)'
      OBVIOUS
    <2>4. PICK M, N : M = MailsSince(mails, u, type, t) /\ N = MailsSince(mails', u, type, t)
      OBVIOUS
    <2>5. IsFiniteSet(M) /\ Cardinality(M) \in Nat /\ Cardinality(N) \in Nat
      BY <1>4, <2>4, MailsAreFinite
    <2>6. PICK s \in Nat, s2 \in Nat : s = Cardinality(M) /\ s2 = Cardinality(N)
      BY <2>5
    <2>7. PICK p \in Nat, p2 \in Nat : p = Cardinality(S) /\ p2 = Cardinality(U)
      BY <2>3, RequestsAreFinite DEF Pending
    <2>8. SignUpMail(u, type)' = x
      BY <1>2, <2>2 DEF SignUpMail
    <2>x. Spent(Late(<<type, u>>, t))' = Spent(Late(<<type, u>>, t))
      BY <1>2 DEF Late, Spent
    <2>y. PICK y \in Nat : y = Spent(Late(<<type, u>>, t)) /\ y = Spent(Late(<<type, u>>, t))'
      BY <2>x, LateNumbers
    <2>9. /\ n = s + p - y - x
          /\ n2 = s2 + p2 - y - x
      BY <2>1, <2>2, <2>3, <2>4, <2>6, <2>7, <2>8, <2>y DEF Load
    <2>10. /\ S \in SUBSET Requests /\ U \in SUBSET Requests
           /\ \A q \in Requests \ {r} : q \in S <=> q \in U
           /\ r \notin U
           /\ r \in S <=> u = v.user /\ type = v.type
      BY <1>2, <1>3, <2>3 DEF Pending, Pends
    <2>11. n2 <= n
      <3>1. CASE u = v.user /\ type = v.type
        <4>1. N = M \cup {v}
          BY <1>2, <1>6, <2>4, <3>1 DEF MailsSince
        <4>2. Cardinality(M \cup {v}) = IF v \in M THEN Cardinality(M) ELSE Cardinality(M) + 1
          BY <2>5, FS_AddElement
        <4>3. s2 <= s + 1
          BY <2>6, <4>1, <4>2
        <4>4. p2 = p - 1
          BY <2>7, <2>10, <3>1, OneJoinsOrLeaves
        <4> QED BY <2>9, <4>3, <4>4, BoxNumbers
      <3>2. CASE ~ (u = v.user /\ type = v.type)
        <4>1. N = M
          BY <1>2, <2>4, <3>2 DEF MailsSince
        <4>2. p2 <= p
          BY <2>7, <2>10, OneJoinsOrLeaves
        <4> QED BY <2>6, <2>9, <4>1, <4>2, BoxNumbers
      <3> QED BY <3>1, <3>2
    <2>12. n \in Int /\ n2 \in Int
      BY <2>9, BoxNumbers
    <2>13. BoxOK(counters, <<type, u>>, t, n)
      BY <1>6, <2>1 DEF MailboxInv, RunningSpansFit
    <2>14. \A c \in counters \ counters : c.expiresAt <= now
      OBVIOUS
    <2>15. BoxOK(counters, <<type, u>>, t, n2)
      BY <1>2, <1>5, <1>6, <2>11, <2>12, <2>13, <2>14, LighterBox
    <2> QED BY <2>1, <2>15
  <1>7. RunningSpansFit'
    BY <1>2, <1>6 DEF RunningSpansFit
  <1>8. ASSUME NEW u \in Users, NEW type \in ActionTokenType, NEW t \in Nat
        PROVE  Cardinality(MailsWithin(mails', u, type, t)) <= Most(type)
    <2>1. CASE t <= now /\ now < t + Window
      <3>1. PICK n : n = Load(u, type, t)'
        OBVIOUS
      <3>2. PICK s \in Nat : s = Cardinality(MailsSince(mails', u, type, t))
        BY <1>4, MailsAreFinite
      <3>3. PICK p \in Nat : p = Cardinality(Pending(u, type)')
        <4>1. PICK U : U = Pending(u, type)'
          OBVIOUS
        <4>2. U \in SUBSET Requests
          BY <4>1 DEF Pending
        <4>3. Cardinality(U) \in Nat
          BY <4>2, RequestsAreFinite
        <4> QED BY <4>1, <4>3
      <3>4. PICK x : x = SignUpMail(u, type)'
        OBVIOUS
      <3>5. x \in {0, IF type = "emailVerification" THEN 1 ELSE 0}
        BY <3>4 DEF SignUpMail
      <3>y. PICK y \in Nat : /\ y = Spent(Late(<<type, u>>, t))'
                            /\ y + 2 * Limit - 1 <= (Cardinality(Slow) + 2) * Limit - 1
        <4>1. PICK L : L = Late(<<type, u>>, t)'
          OBVIOUS
        <4>2. L \in SUBSET Slow
          BY <4>1, LateIsSlow
        <4>3. Spent(L) = Spent(Late(<<type, u>>, t))'
          BY <4>1 DEF Spent
        <4> QED BY <4>2, <4>3, SpentType
      <3>6. n = s + p - y - x
        BY <3>1, <3>2, <3>3, <3>4, <3>y DEF Load
      <3>7. n \in Int
        BY <3>5, <3>6, BoxNumbers
      <3>8. BoxOK(counters, <<type, u>>, t, n)
        BY <1>6, <2>1, <3>1
      <3>9. n <= 2 * Limit - 1
        BY <1>5, <3>7, <3>8, BoxIsBounded
      <3>10. s <= Most(type)
        <4>1. PICK z : z = (Cardinality(Slow) + 2) * Limit - 1
          OBVIOUS
        <4>2. z \in Nat /\ y + 2 * Limit - 1 <= z
          BY <3>y, <4>1, SpentType
        <4>3. s <= z + IF type = "emailVerification" THEN 1 ELSE 0
          BY <3>5, <3>6, <3>9, <4>2, BoxNumbers
        <4> QED BY <4>1, <4>3 DEF Most
      <3>11. Cardinality(MailsWithin(mails', u, type, t)) <= s
             /\ Cardinality(MailsWithin(mails', u, type, t)) \in Nat
        BY <1>4, <3>2, MailsAreFinite
      <3>12. Most(type) \in Int
        BY SpentType, BoxNumbers DEF Most
      <3> QED BY <3>10, <3>11, <3>12
    <2>2. CASE ~ (t <= now /\ now < t + Window)
      <3>1. MailsWithin(mails', u, type, t) = MailsWithin(mails, u, type, t)
        BY <1>2, <2>2 DEF MailsWithin
      <3> QED BY <3>1 DEF MailboxInv
    <2> QED BY <2>1, <2>2
  <1> QED BY <1>4, <1>7, <1>8 DEF MailboxInv, Most

\* A call that is admitted brings one mail under way, and a counter answers for it.
LEMMA CountKeepsMailbox ==
  ASSUME TokenTypeOK, LimiterTypeOK, LimiterTypeOK', MailboxInv, NEW r \in Requests,
         RateLimit!Count(r), UNCHANGED <<now, tokenVars>>
  PROVE  MailboxInv'
  <1>1. UNCHANGED <<now, account, flow, mails>> /\ now \in Nat
    BY DEF tokenVars, TokenTypeOK
  <1>2. PICK k \in Boxes, sent \in Nat, c \in RateLimit!AccountActionCounter : Counts(r, k, sent, c)
    BY CountIs
  <1>3. CountersAre(counters) /\ CountersAre(counters')
    BY DEF LimiterTypeOK, CountersAre
  <1>4. /\ call[r].pc = "count" /\ flow[r].pc = "limit" /\ k = <<flow[r].type, flow[r].user>>
        /\ c.key = k /\ counters' = (counters \ RateLimit!CountersOf(k)) \cup {c}
        /\ \A q \in Requests : q # r => call'[q] = call[q]
        /\ call'[r].pc = "allowed" => c.count <= Limit
        /\ call'[r].pc \in {"alert", "allowed", "refused"}
        /\ call[r].key = k /\ call[r].since <= sent /\ sent <= now
        /\ \/ RateLimit!CountersOf(k) = {} /\ c.count = 1 /\ c.expiresAt = sent + Window
           \/ \E d \in counters : d.key = k /\ c.count = d.count + 1 /\ c.expiresAt = d.expiresAt
    BY <1>2 DEF Counts, Counting, RateLimit!Verdict
  <1>r. \A q \in Requests : Ready(call'[q], call[q])
    BY <1>4 DEF Ready
  <1>5. ASSUME NEW u \in Users, NEW type \in ActionTokenType, NEW t \in Nat, t <= now, now < t + Window
        PROVE  BoxOK(counters', <<type, u>>, t, Load(u, type, t)')
    <2>1. PICK n, n2 : n = Load(u, type, t) /\ n2 = Load(u, type, t)'
      OBVIOUS
    <2>2. PICK x \in {0, 1} : x = SignUpMail(u, type)
      BY BoxNumbers
    <2>3. PICK S, U : S = Pending(u, type) /\ U = Pending(u, type)'
      OBVIOUS
    <2>4. PICK s \in Nat : s = Cardinality(MailsSince(mails, u, type, t))
      BY MailsAreFinite DEF MailboxInv
    <2>5. PICK p \in Nat, p2 \in Nat : p = Cardinality(S) /\ p2 = Cardinality(U)
      BY <2>3, RequestsAreFinite DEF Pending
    <2>6. SignUpMail(u, type)' = x
      BY <1>1, <2>2 DEF SignUpMail
    <2>y. PICK y \in Nat, y2 \in Nat : /\ y = Spent(Late(<<type, u>>, t))
                                       /\ y2 = Spent(Late(<<type, u>>, t)')
      BY LateNumbers
    <2>z. y <= y2
      BY <1>1, <1>r, <1>5, <2>y, LaterSpendsMore
    <2>7. /\ n = s + p - y - x
          /\ n2 = s + p2 - y2 - x
      BY <1>1, <2>1, <2>2, <2>3, <2>4, <2>5, <2>6, <2>y DEF Load, Spent
    <2>8. /\ S \in SUBSET Requests /\ U \in SUBSET Requests
          /\ \A q \in Requests \ {r} : q \in S <=> q \in U
          /\ r \in U => /\ u = flow[r].user /\ type = flow[r].type /\ call'[r].pc = "allowed"
      BY <1>1, <1>4, <2>3 DEF Pending, Pends
    <2>9. n \in Int /\ n2 \in Int
      BY <2>7, BoxNumbers
    <2>10. BoxOK(counters, <<type, u>>, t, n)
      BY <1>5, <2>1 DEF MailboxInv, RunningSpansFit
    <2>11. CASE <<type, u>> = k
      <3>1. p2 <= p + 1 /\ (~ (c.count <= Limit) => p2 <= p)
        BY <1>4, <2>5, <2>8, OneJoinsOrLeaves
      <3>2. n2 <= n + 1 /\ (~ (c.count <= Limit) => n2 <= n)
        BY <2>7, <2>z, <3>1, BoxNumbers
      <3>s. sent < t => n2 <= n + 1 - Limit
        <4> SUFFICES ASSUME sent < t PROVE y + Limit <= y2
          BY <2>7, <3>1, BoxNumbers
        <4>1. PICK L, M : L = Late(k, t)' /\ M = Late(k, t)
          OBVIOUS
        <4>2. L \in SUBSET M /\ M \in SUBSET Slow /\ r \notin L
          <5>1. L \in SUBSET M /\ M \in SUBSET Slow
            BY <1>1, <1>r, <1>5, <4>1, LaterSpendsMore, LateIsSlow
          <5>2. r \notin L
            BY <1>4, <4>1 DEF Late
          <5> QED BY <5>1, <5>2
        <4>3. call[r].since \in Nat /\ (r \notin Slow => call[r].since = now)
          BY <1>4 DEF LimiterTypeOK, CallTimesOK, TimesFit, CallRecord
        <4>4. call[r].since < t /\ r \in Slow
          BY <1>1, <1>4, <1>5, <4>3
        <4>5. r \in M
          BY <1>4, <4>1, <4>4 DEF Late
        <4>6. Spent(M) + Limit <= Spent(L)
          BY <4>2, <4>5, LateOnesSpend
        <4> QED BY <2>y, <2>11, <4>1, <4>6
      <3>3. c \in counters' /\ \A d \in counters' : d.key = k => d = c
        BY <1>4 DEF RateLimit!CountersOf
      <3>4. \/ (\A d \in counters : d.key # k) /\ c.count = 1 /\ c.expiresAt = sent + Window
            \/ \E d \in counters : d.key = k /\ c.count = d.count + 1 /\ c.expiresAt = d.expiresAt
        BY <1>4 DEF RateLimit!CountersOf
      <3>5. PICK B : B = counters'
        OBVIOUS
      <3>6. BoxOK(counters, k, t, n)
        BY <2>10, <2>11
      <3>7. BoxOK(B, k, t, n2)
        BY <1>3, <1>4, <1>5, <2>9, <3>2, <3>s, <3>3, <3>4, <3>5, <3>6, CountedBox
      <3> QED BY <2>1, <2>11, <3>5, <3>7
    <2>12. CASE <<type, u>> # k
      <3>1. p2 <= p
        BY <1>4, <2>5, <2>8, <2>12, OneJoinsOrLeaves
      <3>2. n2 <= n
        BY <2>7, <2>z, <3>1
      <3>3. BoxOK(counters, <<type, u>>, t, n2)
        <4>1. \A d \in counters \ counters : d.expiresAt <= now
          OBVIOUS
        <4> QED BY <1>1, <1>3, <1>5, <2>9, <2>10, <3>2, <4>1, LighterBox
      <3>4. \A d : d.key = <<type, u>> => (d \in counters' <=> d \in counters)
        BY <1>4, <2>12 DEF RateLimit!CountersOf
      <3>5. BoxOK(counters', <<type, u>>, t, n2)
        BY <3>3, <3>4 DEF BoxOK
      <3> QED BY <2>1, <3>5
    <2> QED BY <2>11, <2>12
  <1>6. RunningSpansFit'
    BY <1>1, <1>5 DEF RunningSpansFit
  <1> QED BY <1>1, <1>6, NothingMailed DEF TokenTypeOK

\* The clock begins a span: only slow requests are under way, and it counts none of them.
LEMMA TickKeepsMailbox ==
  ASSUME TokenTypeOK, LimiterTypeOK, MailboxInv, Tick
  PROVE  MailboxInv'
  <1>1. /\ now' = now + 1 /\ UNCHANGED <<account, flow, mails, counters, call>> /\ now \in Nat
        /\ \A r \in Requests \ Slow : flow[r].pc = "idle"
    BY DEF Tick, tokenVars, limitVars, Busy, TokenTypeOK
  <1>2. CountersAre(counters)
    BY DEF LimiterTypeOK, CountersAre
  <1>3. ASSUME NEW u \in Users, NEW type \in ActionTokenType, NEW t \in Nat,
               t <= now + 1, now + 1 < t + Window
        PROVE  BoxOK(counters, <<type, u>>, t, Load(u, type, t))
    <2>1. CASE t <= now
      <3>1. now < t + Window
        BY <1>1, <1>3, BoxNumbers
      <3> QED BY <1>3, <2>1, <3>1 DEF MailboxInv, RunningSpansFit
    <2>2. CASE t = now + 1
      <3>1. PICK n : n = Load(u, type, t)
        OBVIOUS
      <3>2. Cardinality(MailsSince(mails, u, type, t)) = 0
        <4>1. \A m \in mails : m.at <= now /\ m.at \in Nat
          BY DEF MailboxInv, TokenTypeOK
        <4>2. MailsSince(mails, u, type, t) = {}
          BY <1>1, <2>2, <4>1 DEF MailsSince
        <4> QED BY <4>2, FS_EmptySet
      <3>3. PICK p \in Nat, y \in Nat : /\ p = Cardinality(Pending(u, type)) /\ p <= y
                                        /\ y = Spent(Late(<<type, u>>, t))
        <4>1. PICK P, L : P = Pending(u, type) /\ L = Late(<<type, u>>, t)
          OBVIOUS
        <4>2. P \subseteq Slow /\ L \in SUBSET Slow /\ Slow \in SUBSET Requests
          BY <1>1, <4>1, LateIsSlow, ActionTokensAssumption DEF Pending, Pends
        <4>3. P \subseteq Slow \ L
          <5>1. \A r \in L : r \in Requests /\ call[r].pc = "count" /\ flow[r].pc = "limit"
            BY <4>1, <4>2 DEF Late, LimiterTypeOK, CallsMatch
          <5>2. \A r \in L : r \notin P
            BY <4>1, <5>1 DEF Pending, Pends
          <5> QED BY <4>2, <5>2
        <4>4. /\ IsFiniteSet(Slow \ L)
              /\ Cardinality(Slow \ L) = Cardinality(Slow) - Cardinality(L)
          <5>1. IsFiniteSet(Slow) /\ Slow \cap L = L
            BY <4>2, RequestsAreFinite
          <5> QED BY <5>1, FS_Difference
        <4>5. Cardinality(P) <= Cardinality(Slow \ L) /\ Cardinality(P) \in Nat
              /\ Cardinality(Slow \ L) \in Nat
          BY <4>3, <4>4, FS_Subset, FS_CardinalityType
        <4>6. Cardinality(Slow) - Cardinality(L) <= Spent(L) /\ Spent(L) \in Nat
          BY <4>2, SpentType
        <4> QED BY <4>1, <4>4, <4>5, <4>6
      <3>4. PICK x \in {0, 1} : x = SignUpMail(u, type)
        BY BoxNumbers
      <3>5. n \in Int /\ n <= 0
        BY <3>1, <3>2, <3>3, <3>4, BoxNumbers DEF Load
      <3>6. n <= Limit - 1
        BY <3>5, BoxNumbers
      <3>7. ASSUME NEW c \in counters
            PROVE  n <= IF c.expiresAt - Window < t THEN Used(c) - 1 ELSE Limit - 1 + Used(c)
        BY <1>2, <3>5, UsedIs, BoxNumbers
      <3> QED BY <3>1, <3>6, <3>7 DEF BoxOK
    <2> QED BY <1>1, <1>3, <2>1, <2>2
  <1>4. \A u, type, t : Load(u, type, t)' = Load(u, type, t)
    BY <1>1 DEF Load, Pending, SignUpMail, Spent, Late
  <1>5. RunningSpansFit'
    BY <1>1, <1>3, <1>4 DEF RunningSpansFit
  <1>6. now' \in Nat /\ now <= now'
    BY <1>1
  <1> QED BY <1>1, <1>5, <1>6, NothingMailed DEF TokenTypeOK

LEMMA InitMailbox == Init => MailboxInv
  <1> SUFFICES ASSUME Init PROVE MailboxInv
    OBVIOUS
  <1>1. mails = {} /\ counters = {} /\ \A r \in Requests : flow[r].pc = "idle"
    BY DEF Init, RateLimit!LimitInit, Idle
  <1>2. ASSUME NEW u \in Users, NEW type \in ActionTokenType, NEW t \in Nat
        PROVE  /\ BoxOK(counters, <<type, u>>, t, Load(u, type, t))
               /\ Cardinality(MailsWithin(mails, u, type, t)) <= Most(type)
    <2>1. MailsSince(mails, u, type, t) = {} /\ MailsWithin(mails, u, type, t) = {} /\ Pending(u, type) = {}
      BY <1>1 DEF MailsSince, MailsWithin, Pending, Pends
    <2>2. Load(u, type, t) <= 0 /\ Load(u, type, t) \in Int
      <3>1. PICK x \in {0, 1}, y \in Nat : /\ x = SignUpMail(u, type)
                                         /\ y = Spent(Late(<<type, u>>, t))
        BY BoxNumbers, LateNumbers
      <3>2. Load(u, type, t) = 0 + 0 - y - x
        BY <2>1, <3>1, FS_EmptySet DEF Load
      <3> QED BY <3>2, BoxNumbers
    <2>3. BoxOK(counters, <<type, u>>, t, Load(u, type, t))
      BY <1>1, <2>2, BoxNumbers DEF BoxOK
    <2>4. Cardinality(MailsWithin(mails, u, type, t)) = 0
      BY <2>1, FS_EmptySet
    <2> QED BY <2>3, <2>4, SpentType DEF Most
  <1> QED BY <1>1, <1>2, FS_EmptySet DEF MailboxInv, RunningSpansFit

LEMMA MailboxHolds == Spec => []MailboxInv
  <1>1. TokenTypeOK /\ LimiterTypeOK /\ (TokenTypeOK /\ LimiterTypeOK)' /\ MailboxInv /\ [Next]_vars
          => MailboxInv'
    <2> SUFFICES ASSUME TokenTypeOK, LimiterTypeOK, LimiterTypeOK', MailboxInv, [Next]_vars
                 PROVE  MailboxInv'
      OBVIOUS
    <2>1. ASSUME NEW r \in Requests, Call(r) PROVE MailboxInv'
      BY <2>1, CallMoves, QuietKeepsMailbox, SignUpKeepsMailbox
    <2>2. ASSUME NEW r \in Requests, Step(r) PROVE MailboxInv'
      BY <2>2, StepMoves, QuietKeepsMailbox, CountKeepsMailbox, MailKeepsMailbox
    <2>3. CASE (\E r \in Requests : Fail(r)) \/ Tick \/ Purge \/ UNCHANGED vars
      BY <2>3, OtherMoves, QuietKeepsMailbox, TickKeepsMailbox
    <2> QED BY <2>1, <2>2, <2>3 DEF Next
  <1> QED BY <1>1, InitMailbox, LimiterTypeHolds, PTL DEF Spec

\* What the rate limit buys the mailbox, whatever requests overlap, fail or are
\* slow and whenever the TTL monitor comes round: in a span as long as the window
\* fewer mails than twice the cap, once more the cap for every slow request, and the
\* one of the sign-up.
THEOREM MailboxProtected == Spec => []MailboxIsProtected
  <1>1. MailboxInv => MailboxIsProtected
    <2> SUFFICES ASSUME MailboxInv, NEW u \in Users, NEW type \in ActionTokenType, NEW t \in 0..MaxTime
                 PROVE  Cardinality(MailsWithin(mails, u, type, t))
                          < (Cardinality(Slow) + 2) * Limit + (IF type = "emailVerification" THEN 1 ELSE 0)
      BY DEF MailboxIsProtected, MailsWithin
    <2>1. t \in Nat
      BY ActionTokensAssumption
    <2>2. (Cardinality(Slow) + 2) * Limit \in Int
      BY SpentType, BoxNumbers
    <2>3. Cardinality(MailsWithin(mails, u, type, t)) \in Nat
      BY <2>1, MailsAreFinite DEF MailboxInv
    <2>4. Cardinality(MailsWithin(mails, u, type, t)) <= Most(type)
      BY <2>1 DEF MailboxInv
    <2> QED BY <2>2, <2>3, <2>4 DEF Most
  <1> QED BY <1>1, MailboxHolds, PTL

-----------------------------------------------------------------------------
(* The flows implement single-use tokens *)

\* The abstract state, as the mapping in ActionTokens has it.
Purposes == [h \in DOMAIN issued |-> <<issued[h].user, issued[h].type>>]
SpentTokens == (DOMAIN issued) \ Rows
Mailed == {m.hash : m \in mails}
Authorized == {<<flow[r].hash, flow[r].user, Act(r)>> : r \in {q \in Requests : Acting(q)}}

SameAct(q) ==
    /\ Acting(q)' <=> Acting(q)
    /\ Acting(q) => /\ flow'[q].hash = flow[q].hash /\ flow'[q].user = flow[q].user
                    /\ Act(q)' = Act(q)

SameActs == \A q \in Requests : SameAct(q)

LEMMA RowsAreSpentOrNot ==
  ASSUME SingleUseInv
  PROVE  Rows \subseteq DOMAIN issued /\ Rows \cup SpentTokens = DOMAIN issued
  BY DEF SingleUseInv, RowsAreIssued, Rows, SpentTokens

LEMMA SameAuthorized ==
  ASSUME SameActs
  PROVE  Authorized' = Authorized
  BY DEF SameActs, SameAct, Authorized

\* A request that was not acting moves to a place where it is not, either.
LEMMA BystanderKeepsActs ==
  ASSUME NEW r \in Requests, ~ Acting(r), ~ Acting(r)',
         \A q \in Requests \ {r} : flow'[q] = flow[q]
  PROVE  SameActs
  BY DEF SameActs, SameAct, Acting, Act

LEMMA RestKeepsActs ==
  ASSUME UNCHANGED flow
  PROVE  SameActs
  BY DEF SameActs, SameAct, Acting, Act

LEMMA Stutters ==
  ASSUME SameActs, UNCHANGED <<account, actionTokens, issued, mails>>
  PROVE  UNCHANGED SingleUse!vars
  BY SameAuthorized DEF SingleUse!vars, Authorized, Rows

\* A row disappears: Drop.
LEMMA LosingARowDrops ==
  ASSUME TokenTypeOK, SingleUseInv, SameActs, NEW t \in actionTokens,
         actionTokens' = actionTokens \ {t}, UNCHANGED <<account, issued, mails>>
  PROVE  SingleUse!Next
  <1>1. Rows' = Rows \ {t.hash} /\ t.hash \in Rows
    BY DEF Rows, SingleUseInv, RowsAreIssued
  <1>2. SpentTokens' = SpentTokens \cup {t.hash} /\ t.hash \in 1..MaxTokens
    BY <1>1, RowsAreSpentOrNot, ActionTokensAssumption DEF SpentTokens, TokenTypeOK
  <1>3. Authorized' = Authorized
    BY SameAuthorized
  <1>4. SingleUse!Drop(t.hash)
    BY <1>1, <1>2, <1>3
    DEF SingleUse!Drop, SingleUse!Spend, SpentTokens, Authorized
  <1> QED BY <1>2, <1>4 DEF SingleUse!Next

\* A row disappears into the hands of a request: Use.
LEMMA UseRefines ==
  ASSUME TokenTypeOK, SingleUseInv, NEW r \in Requests, ~ Busy(r),
         NEW t, NEW type, NEW next, NEW m \in mails, m.hash = t.hash,
         Uses(r, t, type, next),
         \/ type = "passwordReset" /\ next = "findUser"
         \/ type = "emailVerification" /\ next = "markVerified"
  PROVE  SingleUse!Next
  <1> USE DEF Uses
  <1>1. Rows' = Rows \ {t.hash} /\ t.hash \in Rows
    BY DEF Rows, SingleUseInv, RowsAreIssued
  <1>2. SpentTokens' = SpentTokens \cup {t.hash} /\ t.hash \in 1..MaxTokens
    BY <1>1, RowsAreSpentOrNot, ActionTokensAssumption DEF SpentTokens, TokenTypeOK
  <1>3. flow'[r] = [pc |-> next, type |-> type, user |-> t.userId, hash |-> t.hash, since |-> 0]
        /\ \A q \in Requests \ {r} : flow'[q] = flow[q]
    BY DEF Begin, TokenTypeOK, FlowTypeOK
  <1>4. Acting(r)' /\ Act(r)' = type /\ flow'[r].hash = t.hash /\ flow'[r].user = t.userId
    BY <1>3 DEF Acting, Act
  <1>5. ~ Acting(r)
    BY DEF Acting, Busy
  <1>6. \A q \in Requests \ {r} : SameAct(q)
    BY <1>3 DEF SameAct, Acting, Act
  <1>7. Authorized' = Authorized \cup {<<t.hash, t.userId, type>>}
    BY <1>4, <1>5, <1>6 DEF Authorized, SameAct
  <1>8. Purposes[t.hash][1] = t.userId /\ Purposes[t.hash][2] = type
    BY DEF Purposes, SingleUseInv, RowsAreIssued
  <1>9. t.hash \in Mailed
    BY DEF Mailed
  <1>10. SingleUse!Use(t.hash)
    BY <1>1, <1>2, <1>7, <1>8, <1>9
    DEF SingleUse!Use, SingleUse!Spend, SpentTokens, Authorized, Purposes, Mailed
  <1> QED BY <1>2, <1>10 DEF SingleUse!Next

\* A request acts on the word of its token, or will not any more: Act.
LEMMA ActRefines ==
  ASSUME TokenTypeOK, SingleUseInv, NEW r \in Requests, Acting(r), ~ Acting(r)',
         \A q \in Requests \ {r} : flow'[q] = flow[q],
         UNCHANGED <<actionTokens, issued, mails>>,
         \/ UNCHANGED account
         \/ /\ Act(r) = "emailVerification" /\ Exists(flow[r].user)
            /\ account' = [account EXCEPT ![flow[r].user] = "verified"]
  PROVE  SingleUse!Next
  <1>0. PICK x : x = <<flow[r].hash, flow[r].user, Act(r)>>
    OBVIOUS
  <1>1. x \in Authorized
    BY <1>0 DEF Authorized
  <1>2. \A q \in Requests \ {r} : SameAct(q)
    BY DEF SameAct, Acting, Act
  <1>3. \A q \in Requests \ {r} : Acting(q) => flow[q].hash # flow[r].hash
    BY DEF SingleUseInv, ActsOnSpent
  <1>4. Authorized' = Authorized \ {x}
    BY <1>0, <1>2, <1>3 DEF Authorized, SameAct
  <1>5. x[2] = flow[r].user /\ x[3] = Act(r)
    BY <1>0
  <1>6. Rows' = Rows /\ SpentTokens' = SpentTokens
    BY DEF Rows, SpentTokens
  <1>7. SingleUse!Act(x)
    BY <1>1, <1>4, <1>5, <1>6 DEF SingleUse!Act, Authorized, SpentTokens, Exists
  <1> QED BY <1>1, <1>7 DEF SingleUse!Next, Authorized

\* A step after which a request that was not acting waits for something else.
LEMMA MovesElsewhere ==
  ASSUME TokenTypeOK, NEW r \in Requests, ~ Acting(r),
         NEW v, flow' = [flow EXCEPT ![r] = v],
         v.pc \notin {"findUser", "replace", "markVerified"}
  PROVE  SameActs
  BY BystanderKeepsActs DEF TokenTypeOK, FlowTypeOK, Acting

LEMMA GoesElsewhere ==
  ASSUME TokenTypeOK, NEW r \in Requests, ~ Acting(r),
         NEW l \in Labels \ {"findUser", "replace", "markVerified"}, Goto(r, l) \/ End(r)
  PROVE  SameActs
  <1>1. CASE Goto(r, l)
    <2> DEFINE v == [flow[r] EXCEPT !.pc = l, !.since = IF l = "create" THEN now ELSE 0]
    <2>1. v.pc = l /\ flow' = [flow EXCEPT ![r] = v]
      BY <1>1 DEF Goto, TokenTypeOK, FlowTypeOK, Flow
    <2> HIDE DEF v
    <2> QED BY <2>1, MovesElsewhere
  <1>2. CASE End(r)
    BY <1>2, MovesElsewhere DEF End, Idle
  <1> QED BY <1>1, <1>2

LEMMA CallRefines ==
  ASSUME TokenTypeOK, SingleUseInv, NEW r \in Requests, Call(r)
  PROVE  SingleUse!Next \/ UNCHANGED SingleUse!vars
  <1>0. ~ Acting(r) /\ ~ Busy(r)
    BY DEF Call, SignUp, RequestReset, RequestVerification, Resend, DeleteAccount, ResetPassword,
           Verify, Accepts, Acting, Busy
  <1>1. ASSUME NEW u \in Users, SignUp(r, u) PROVE SingleUse!Next
    <2>1. SameActs
      BY <1>0, <1>1, MovesElsewhere DEF SignUp, Begin
    <2>2. SingleUse!Open(u)
      BY <1>1, <2>1, SameAuthorized DEF SignUp, SingleUse!Open, Authorized, Rows
    <2> QED BY <2>2 DEF SingleUse!Next
  <1>2. ASSUME NEW u \in Users, DeleteAccount(r, u) PROVE SingleUse!Next
    <2>1. SameActs
      BY <1>0, <1>2, MovesElsewhere DEF DeleteAccount, Begin
    <2>2. SingleUse!Close(u)
      BY <1>2, <2>1, SameAuthorized DEF DeleteAccount, Exists, SingleUse!Close, Authorized, Rows
    <2> QED BY <2>2 DEF SingleUse!Next
  <1>3. ASSUME NEW u \in Users, NEW type, AskRateLimit(r, u, type) PROVE UNCHANGED SingleUse!vars
    <2>1. SameActs
      BY <1>0, <1>3, MovesElsewhere DEF AskRateLimit, Begin
    <2> QED BY <1>3, <2>1, Stutters DEF AskRateLimit
  <1>4. ASSUME NEW t \in actionTokens, Discards(t) PROVE SingleUse!Next
    BY <1>4, RestKeepsActs, LosingARowDrops DEF Discards
  <1>5. ASSUME NEW m \in mails, ResetPassword(r, m.hash) \/ Verify(r, m.hash)
        PROVE  SingleUse!Next
    <2>1. CASE ResetPassword(r, m.hash)
      BY <1>0, <1>4, <2>1, RedeemUsesOrDiscards, UseRefines DEF ResetPassword
    <2>2. CASE Verify(r, m.hash)
      BY <1>0, <1>4, <2>2, RedeemUsesOrDiscards, UseRefines DEF Verify
    <2> QED BY <1>5, <2>1, <2>2
  <1> QED BY <1>1, <1>2, <1>3, <1>5 DEF Call, RequestReset, RequestVerification, Resend

LEMMA DropRefines ==
  ASSUME TokenTypeOK, SingleUseInv, NEW r \in Requests, DropOld(r) \/ DropAll(r)
  PROVE  SingleUse!Next \/ UNCHANGED SingleUse!vars
  <1>1. /\ ~ Acting(r) /\ UNCHANGED <<account, issued, mails>>
        /\ \/ UNCHANGED flow /\ \E t \in actionTokens : actionTokens' = actionTokens \ {t}
           \/ UNCHANGED actionTokens /\ (Goto(r, "create") \/ End(r))
    BY DEF DropOld, DropAll, Acting, TokensOf
  <1>2. SameActs
    BY <1>1, GoesElsewhere, RestKeepsActs DEF Labels
  <1> QED BY <1>1, <1>2, LosingARowDrops, Stutters

LEMMA CreateRefines ==
  ASSUME TokenTypeOK, SingleUseInv, NEW r \in Requests, Create(r)
  PROVE  SingleUse!Next
  <1>0. PICK h, u, a : h = Len(issued) + 1 /\ u = flow[r].user /\ a = flow[r].type
    OBVIOUS
  <1>s. PICK sent \in Nat : Issue(r, sent)
    BY CreateIssues
  <1>1. u \in Users /\ a \in ActionTokenType /\ h \in 1..MaxTokens
    BY <1>0, ActionTokensAssumption
    DEF TokenTypeOK, FlowTypeOK, KnowsUser, KnowsType, Create
  <1>2. /\ h \notin DOMAIN issued
        /\ DOMAIN issued' = (DOMAIN issued) \cup {h}
        /\ issued'[h].type = a /\ issued'[h].user = u
        /\ \A g \in DOMAIN issued : issued'[g] = issued[g]
    BY <1>0, <1>s DEF TokenTypeOK, Issue
  <1>3. PICK t : t.hash = h /\ actionTokens' = actionTokens \cup {t}
    BY <1>0, <1>s DEF Issue
  <1>4. Rows' = Rows \cup {h}
    BY <1>3 DEF Rows
  <1>5. SpentTokens' = SpentTokens /\ h \notin SpentTokens /\ h \notin Rows
    BY <1>2, <1>4, RowsAreSpentOrNot DEF SpentTokens
  <1>6. Purposes' = [g \in (DOMAIN Purposes) \cup {h} |-> IF g = h THEN <<u, a>> ELSE Purposes[g]]
    BY <1>2 DEF Purposes
  <1>7. Authorized' = Authorized
    <2>1. SameActs
      BY <1>s, CreateIssues, MovesElsewhere DEF Issue, Begin, Acting
    <2> QED BY <2>1, SameAuthorized
  <1>8. UNCHANGED <<account, mails>>
    BY DEF Create
  <1>9. SingleUse!Issue(h, u, a)
    BY <1>4, <1>5, <1>6, <1>7, <1>8
    DEF SingleUse!Issue, SingleUse!Issued, SpentTokens, Purposes, Authorized
  <1> QED BY <1>1, <1>9 DEF SingleUse!Next

LEMMA MailRefines ==
  ASSUME TokenTypeOK, SingleUseInv, NEW r \in Requests, Mail(r)
  PROVE  SingleUse!Next
  <1>0. PICK h : h = flow[r].hash
    OBVIOUS
  <1>1. h \in Rows \cup SpentTokens /\ h \in 1..MaxTokens
    BY <1>0, RowsAreSpentOrNot, ActionTokensAssumption
    DEF Mail, SingleUseInv, MailsAreIssued, TokenTypeOK
  <1>2. Mailed' = Mailed \cup {h}
    <2>1. PICK m : m.hash = h /\ mails' = mails \cup {m}
      BY <1>0 DEF Mail
    <2> QED BY <2>1 DEF Mailed
  <1>3. Authorized' = Authorized
    <2>1. SameActs
      BY MovesElsewhere DEF Mail, End, Idle, Acting
    <2> QED BY <2>1, SameAuthorized
  <1>4. UNCHANGED <<account, actionTokens, issued>>
    BY DEF Mail
  <1>5. SingleUse!Mail(h)
    BY <1>1, <1>2, <1>3, <1>4
    DEF SingleUse!Mail, SingleUse!Issued, SpentTokens, Mailed, Authorized, Rows
  <1> QED BY <1>1, <1>5 DEF SingleUse!Next

LEMMA EndingRefines ==
  ASSUME TokenTypeOK, SingleUseInv, NEW r \in Requests, End(r),
         UNCHANGED <<account, actionTokens, issued, mails>>
  PROVE  SingleUse!Next \/ UNCHANGED SingleUse!vars
  <1>1. ~ Acting(r)' /\ \A q \in Requests \ {r} : flow'[q] = flow[q]
    BY DEF End, Idle, Acting, TokenTypeOK, FlowTypeOK
  <1>2. CASE Acting(r)
    BY <1>1, <1>2, ActRefines
  <1>3. CASE ~ Acting(r)
    BY <1>1, <1>3, BystanderKeepsActs, Stutters
  <1> QED BY <1>2, <1>3

LEMMA StepRefines ==
  ASSUME TokenTypeOK, SingleUseInv, NEW r \in Requests, Step(r)
  PROVE  SingleUse!Next \/ UNCHANGED SingleUse!vars
  <1>1. CASE LimitStep(r)
    BY <1>1, RestKeepsActs, Stutters DEF LimitStep, tokenVars
  <1>2. CASE Limited(r)
    <2>1. SameActs
      BY <1>2, GoesElsewhere DEF Limited, Acting, Labels
    <2> QED BY <1>2, <2>1, Stutters DEF Limited
  <1>3. CASE DropOld(r) \/ DropAll(r)
    BY <1>3, DropRefines
  <1>4. CASE Create(r)
    BY <1>4, CreateRefines
  <1>5. CASE Mail(r)
    BY <1>5, MailRefines
  <1>6. CASE FindUser(r)
    <2>1. CASE Goto(r, "replace")
      <3>1. SameActs
        BY <1>6, <2>1
        DEF FindUser, Goto, SameActs, SameAct, Acting, Act, TokenTypeOK, FlowTypeOK, Flow
      <3> QED BY <1>6, <3>1, Stutters DEF FindUser
    <2>2. CASE End(r)
      BY <1>6, <2>2, EndingRefines DEF FindUser
    <2> QED BY <1>6, <2>1, <2>2 DEF FindUser
  <1>7. CASE ReplacePassword(r)
    BY <1>7, EndingRefines DEF ReplacePassword
  <1>8. CASE MarkVerified(r)
    <2>1. /\ Acting(r) /\ Act(r) = "emailVerification" /\ ~ Acting(r)'
          /\ \A q \in Requests \ {r} : flow'[q] = flow[q]
      BY <1>8 DEF MarkVerified, End, Idle, Acting, Act, TokenTypeOK, FlowTypeOK
    <2>2. \/ UNCHANGED account
          \/ /\ Exists(flow[r].user)
             /\ account' = [account EXCEPT ![flow[r].user] = "verified"]
      BY <1>8 DEF MarkVerified, Verified, TokenTypeOK
    <2> QED BY <1>8, <2>1, <2>2, ActRefines DEF MarkVerified
  <1> QED BY <1>1, <1>2, <1>3, <1>4, <1>5, <1>6, <1>7, <1>8 DEF Step

LEMMA OtherRefines ==
  ASSUME TokenTypeOK, SingleUseInv,
         \/ \E r \in Requests : Fail(r)
         \/ Tick
         \/ Purge
         \/ UNCHANGED vars
  PROVE  SingleUse!Next \/ UNCHANGED SingleUse!vars
  <1>1. ASSUME NEW r \in Requests, Fail(r) PROVE SingleUse!Next \/ UNCHANGED SingleUse!vars
    BY <1>1, EndingRefines DEF Fail
  <1>2. CASE Tick
    BY <1>2, RestKeepsActs, Stutters DEF Tick, tokenVars
  <1>3. CASE Purge
    BY <1>3, RestKeepsActs, LosingARowDrops, Stutters DEF Purge, tokenVars
  <1>4. CASE UNCHANGED vars
    BY <1>4, RestKeepsActs, Stutters DEF vars, tokenVars
  <1> QED BY <1>1, <1>2, <1>3, <1>4

LEMMA InitRefines == Init => SingleUse!Init
  <1> SUFFICES ASSUME Init PROVE SingleUse!Init
    OBVIOUS
  <1>1. DOMAIN issued = {} /\ Rows = {} /\ Mailed = {} /\ SpentTokens = {}
    BY DEF Init, Rows, Mailed, SpentTokens
  <1>2. Authorized = {}
    BY DEF Init, Authorized, Acting, Idle
  <1>3. Purposes = [h \in {} |-> {}]
    BY <1>1 DEF Purposes
  <1>4. account = [u \in Users |-> "none"]
    BY DEF Init
  <1> QED BY <1>1, <1>2, <1>3, <1>4 DEF SingleUse!Init, Purposes, Mailed, SpentTokens, Authorized

\* However many requests mail, present, drop and clean up tokens at the same
\* time, whichever of them die and whenever tokens run out: a token that was
\* mailed authorizes the action and the account it was issued for, once.
THEOREM SingleUseIsImplemented == Spec => ImplementsSingleUse
  <1>1. TokenTypeOK /\ SingleUseInv /\ [Next]_vars => [SingleUse!Next]_(SingleUse!vars)
    BY CallRefines, StepRefines, OtherRefines DEF Next
  <1> QED BY <1>1, InitRefines, InvHolds, PTL DEF Spec, ImplementsSingleUse, SingleUse!Spec
=============================================================================
