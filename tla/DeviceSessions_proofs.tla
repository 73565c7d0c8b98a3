----------------------- MODULE DeviceSessions_proofs ------------------------
(***************************************************************************)
(* Proofs about DeviceSessions for every number of accounts, requests,     *)
(* tokens and sessions and every workload.                                 *)
(***************************************************************************)
EXTENDS DeviceSessions, TLAPS

-----------------------------------------------------------------------------
(* Type correctness *)

\* Idle is a request.
LEMMA IdleType == Idle \in Request
  BY DEF Idle, Request, Labels, KnowUser

LEMMA InitType == Init => TypeOK
  BY DeviceSessionsAssumption, IdleType DEF Init, TypeOK, RefreshToken, Session, Jwt

LEMMA GotoType ==
  ASSUME req \in [Requests -> Request], NEW r \in Requests, NEW l \in Labels, Goto(r, l),
         l \in KnowUser => req[r].user \in Users
  PROVE  req' \in [Requests -> Request]
  BY DEF Goto, Request

LEMMA EndType ==
  ASSUME req \in [Requests -> Request], NEW r \in Requests, End(r)
  PROVE  req' \in [Requests -> Request]
  BY IdleType DEF End

LEMMA RevokeOneType ==
  ASSUME req \in [Requests -> Request], NEW r \in Requests, NEW s \in Nat, RevokeOne(r, s)
  PROVE  req' \in [Requests -> Request]
  <1> DEFINE v == [req[r] EXCEPT !.pc = "revokeSession", !.session = s, !.hash = 0, !.exp = 0,
                                 !.todo = {"tokens", "sessions"}, !.targets = {s}]
  <1>1. v \in Request
    <2>1. req[r] \in Request
      OBVIOUS
    <2>2. "revokeSession" \in Labels
      BY DEF Labels
    <2> QED BY <2>1, <2>2 DEF Request, KnowUser
  <1>2. req' = [req EXCEPT ![r] = v]
    BY DEF RevokeOne
  <1> HIDE DEF v
  <1> QED BY <1>1, <1>2

LEMMA RevokeEveryType ==
  ASSUME TypeOK, NEW r \in Requests, NEW u \in Users, NEW h \in Handlers, RevokeEvery(r, u, h)
  PROVE  req' \in [Requests -> Request]
  <1> DEFINE v == [req[r] EXCEPT !.op = h, !.pc = "revokeAll", !.user = u,
                                 !.todo = {"tokens", "sessions"}, !.targets = SessionsOf(u)]
  <1>1. SessionsOf(u) \subseteq Nat
    BY DEF SessionsOf, TypeOK
  <1>2. v \in Request
    <2>1. req[r] \in Request
      BY DEF TypeOK
    <2>2. "revokeAll" \in Labels
      BY DEF Labels
    <2> QED BY <1>1, <2>1, <2>2 DEF Request
  <1>3. req' = [req EXCEPT ![r] = v]
    BY DEF RevokeEvery
  <1>4. req \in [Requests -> Request]
    BY DEF TypeOK
  <1> HIDE DEF v
  <1> QED BY <1>2, <1>3, <1>4

\* A call that starts handler h: nothing of the last one is left in its record.
LEMMA BeginType ==
  ASSUME req \in [Requests -> Request], NEW r \in Requests, NEW v \in Request,
         req' = [req EXCEPT ![r] = v]
  PROVE  req' \in [Requests -> Request]
  OBVIOUS

LEMMA OnlyReqType ==
  ASSUME TypeOK, req' \in [Requests -> Request], UNCHANGED <<now, store, issued, history>>
  PROVE  TypeOK'
  BY DEF TypeOK, store, history

LEMMA CallType ==
  ASSUME TypeOK, NEW r \in Requests, Call(r)
  PROVE  TypeOK'
  <1> USE DEF TypeOK
  <1>1. ASSUME NEW u \in Users, SignIn(r, u) PROVE TypeOK'
    <2>1. [Idle EXCEPT !.op = "signIn", !.pc = "start", !.user = u] \in Request
      BY IdleType DEF Request, Labels, KnowUser, Handlers
    <2> QED BY <1>1, <2>1, BeginType, OnlyReqType DEF SignIn
  <1>2. ASSUME NEW u \in Users, ChangePassword(r, u) PROVE TypeOK'
    BY <1>2, RevokeEveryType, OnlyReqType DEF ChangePassword, Handlers
  <1>3. ASSUME NEW u \in Users, ResetPassword(r, u) PROVE TypeOK'
    BY <1>3, RevokeEveryType, OnlyReqType DEF ResetPassword, Handlers
  <1>4. ASSUME NEW u \in Users, DeleteAccount(r, u) PROVE TypeOK'
    <2>1. [Idle EXCEPT !.op = "deleteAccount", !.pc = "dropUser", !.user = u] \in Request
      BY IdleType DEF Request, Labels, KnowUser, Handlers
    <2> QED BY <1>4, <2>1, BeginType, OnlyReqType DEF DeleteAccount
  <1>5. ASSUME NEW u \in Users, NEW s \in DOMAIN owner, RevokeSession(r, u, s) PROVE TypeOK'
    <2>0. s \in Nat
      OBVIOUS
    <2>1. [Idle EXCEPT !.op = "revokeSession", !.pc = "belongs", !.user = u, !.session = s]
            \in Request
      BY IdleType, <2>0 DEF Request, Labels, KnowUser, Handlers
    <2> QED BY <1>5, <2>1, BeginType, OnlyReqType DEF RevokeSession
  <1>6. ASSUME NEW t \in handed, NEW h \in {"refresh", "logout"}, Present(r, t, h) PROVE TypeOK'
    <2>1. [Idle EXCEPT !.op = h, !.pc = "consume", !.hash = t.hash] \in Request
      BY IdleType DEF Request, Labels, KnowUser, Jwt, Handlers
    <2> QED BY <1>6, <2>1, BeginType, OnlyReqType DEF Present
  <1> QED BY <1>1, <1>2, <1>3, <1>4, <1>5, <1>6 DEF Call, Refresh, Logout, Handlers

LEMMA StepType ==
  ASSUME TypeOK, NEW r \in Requests, Step(r)
  PROVE  TypeOK'
  <1> USE DEF TypeOK
  <1>1. CASE Consume(r)
    <2>1. refreshTokens' \subseteq RefreshToken
      <3>1. ASSUME NEW t \in refreshTokens, MarkConsumed(t) PROVE refreshTokens' \subseteq RefreshToken
        <4>1. [t EXCEPT !.consumed = TRUE] \in RefreshToken
          BY DEF RefreshToken
        <4> QED BY <3>1, <4>1 DEF MarkConsumed
      <3>2. \/ \E t \in refreshTokens : MarkConsumed(t)
            \/ UNCHANGED refreshTokens
        BY <1>1 DEF Consume
      <3> QED BY <3>1, <3>2
    <2>2. ASSUME NEW t \in refreshTokens,
                 req' = [req EXCEPT ![r] = [@ EXCEPT !.pc = "findUser", !.hash = 0,
                                       !.user = t.userId, !.session = t.sessionId]]
          PROVE  req' \in [Requests -> Request]
      <3>1. [req[r] EXCEPT !.pc = "findUser", !.hash = 0, !.user = t.userId,
                           !.session = t.sessionId] \in Request
        BY DEF Request, Labels, KnowUser, RefreshToken
      <3> QED BY <2>2, <3>1
    <2>3. ASSUME NEW t \in refreshTokens, RevokeOne(r, t.sessionId)
          PROVE  req' \in [Requests -> Request]
      BY <2>3, RevokeOneType DEF RefreshToken
    <2>4. req' \in [Requests -> Request]
      BY <1>1, <2>2, <2>3, GotoType DEF Consume, Labels, KnowUser
    <2> QED BY <1>1, <2>1, <2>4 DEF Consume, history
  <1>2. CASE FindReused(r)
    <2>1. ASSUME NEW t \in refreshTokens, RevokeOne(r, t.sessionId)
          PROVE  req' \in [Requests -> Request]
      BY <2>1, RevokeOneType DEF RefreshToken
    <2> QED BY <1>2, <2>1, EndType, OnlyReqType DEF FindReused
  <1>3. CASE FindUser(r)
    <2>1. req[r].user \in Users
      BY <1>3 DEF FindUser, Request, KnowUser
    <2> QED BY <1>3, <2>1, GotoType, EndType, OnlyReqType DEF FindUser, Labels
  <1>4. CASE Start(r)
    <2>1. req[r].user \in Users
      BY <1>4 DEF Start, Request, KnowUser
    <2>2. [req[r] EXCEPT !.pc = "sign", !.session = Len(owner) + 1, !.targets = {}] \in Request
      <3>1. Len(owner) + 1 \in Nat /\ req[r] \in Request
        OBVIOUS
      <3> QED BY <2>1, <3>1 DEF Request, Labels
    <2>3. req' \in [Requests -> Request]
      BY <1>4, <2>2 DEF Start
    <2>4. sessions' \subseteq Session
      BY <1>4, <2>1, DeviceSessionsAssumption DEF Start, Session
    <2>5. owner' \in Seq(Users)
      BY <1>4, <2>1 DEF Start
    <2> QED BY <1>4, <2>3, <2>4, <2>5 DEF Start
  <1>5. CASE Sign(r)
    <2>1. req[r].user \in Users
      BY <1>5 DEF Sign, Request, KnowUser
    <2>2. [req[r] EXCEPT !.pc = "persist", !.hash = issued + 1, !.exp = now + Lifetime] \in Request
      <3>1. issued + 1 \in Nat /\ now + Lifetime \in Nat /\ req[r] \in Request
        BY DeviceSessionsAssumption
      <3> QED BY <2>1, <3>1 DEF Request, Labels
    <2>3. req' \in [Requests -> Request]
      BY <1>5, <2>2 DEF Sign
    <2> QED BY <1>5, <2>3 DEF Sign, store, history
  <1>6. CASE Persist(r)
    <2>1. ASSUME req[r].pc = "persist"
          PROVE  [hash |-> req[r].hash, userId |-> req[r].user, sessionId |-> req[r].session,
                  consumed |-> FALSE, expiresAt |-> req[r].exp] \in RefreshToken
      BY <2>1 DEF RefreshToken, Request, KnowUser
    <2>2. req' \in [Requests -> Request]
      BY <1>6, GotoType, EndType DEF Persist, Labels, KnowUser
    <2>3. refreshTokens' \subseteq RefreshToken
      BY <1>6, <2>1 DEF Persist
    <2> QED BY <1>6, <2>2, <2>3 DEF Persist, history
  <1>7. CASE Touch(r)
    <2>1. sessions' \subseteq Session
      BY <1>7 DEF Touch, Touched, Session, Request
    <2>2. req' \in [Requests -> Request]
      BY <1>7, GotoType DEF Touch, Labels, KnowUser
    <2> QED BY <1>7, <2>1, <2>2 DEF Touch, history
  <1>8. CASE Respond(r)
    <2>1. [hash |-> req[r].hash, exp |-> req[r].exp] \in Jwt
      BY DEF Jwt, Request
    <2> QED BY <1>8, <2>1, EndType DEF Respond, store
  <1>9. CASE CheckOwner(r)
    <2>1. req[r].session \in Nat
      BY DEF Request
    <2> QED BY <1>9, <2>1, RevokeOneType, EndType, OnlyReqType DEF CheckOwner
  <1>10. CASE DropUser(r)
    <2>1. req[r].user \in Users
      BY <1>10 DEF DropUser, Request, KnowUser
    <2>2. req' \in [Requests -> Request]
      BY <1>10, <2>1, RevokeEveryType DEF DropUser, Handlers
    <2> QED BY <1>10, <2>2 DEF DropUser, history
  <1>11. ASSUME NEW b \in {"tokens", "sessions"}, Settle(r, b)
         PROVE  req' \in [Requests -> Request]
    <2>1. [req[r] EXCEPT !.todo = @ \ {b}] \in Request
      BY DEF Request
    <2> QED BY <1>11, <2>1 DEF Settle
  <1>12. CASE DeleteTokens(r)
    BY <1>11, <1>12 DEF DeleteTokens, history
  <1>13. CASE DeleteSessions(r)
    <2>1. ASSUME NEW s \in sessions
          PROVE  [req[r] EXCEPT !.targets = @ \cup {s.id}] \in Request
      BY DEF Request, Session
    <2>2. req' \in [Requests -> Request]
      BY <1>11, <1>13, <2>1 DEF DeleteSessions, DoomedSessions
    <2> QED BY <1>13, <2>2 DEF DeleteSessions, history
  <1>14. CASE Revoked(r)
    <2>1. req[r] \in Request
      OBVIOUS
    <2>2. req' \in [Requests -> Request]
      BY <1>14, <2>1, GotoType, EndType DEF Revoked, Labels, Request
    <2>3. ended' \subseteq Nat
      BY <1>14, <2>1 DEF Revoked, Request
    <2> QED BY <1>14, <2>2, <2>3 DEF Revoked, store
  <1> QED BY <1>1, <1>2, <1>3, <1>4, <1>5, <1>6, <1>7, <1>8, <1>9, <1>10, <1>12, <1>13, <1>14
          DEF Step

LEMMA OtherType ==
  ASSUME TypeOK,
         \/ \E r \in Requests : Fail(r) \/ FailBranch(r)
         \/ Tick
         \/ Purge
         \/ UNCHANGED vars
  PROVE  TypeOK'
  <1> USE DEF TypeOK
  <1>1. ASSUME NEW r \in Requests, Fail(r) PROVE TypeOK'
    BY <1>1, EndType, OnlyReqType DEF Fail
  <1>2. ASSUME NEW r \in Requests, FailBranch(r) PROVE TypeOK'
    <2> DEFINE v(b) == [req[r] EXCEPT !.op = "none", !.todo = @ \ {b}]
    <2>1. ASSUME NEW b PROVE v(b) \in Request
      <3>1. req[r] \in Request
        OBVIOUS
      <3>2. /\ v(b).op = "none" /\ v(b).pc = req[r].pc /\ v(b).user = req[r].user
            /\ v(b).todo = req[r].todo \ {b}
        BY <3>1 DEF Request
      <3> QED BY <3>1, <3>2 DEF Request
    <2>2. PICK b \in req[r].todo : req' = [req EXCEPT ![r] = v(b)]
      BY <1>2 DEF FailBranch
    <2>3. v(b) \in Request
      BY <2>1
    <2> HIDE DEF v
    <2>4. req' \in [Requests -> Request]
      BY <2>2, <2>3
    <2> QED BY <1>2, <2>4, OnlyReqType DEF FailBranch
  <1>3. CASE Tick
    BY <1>3 DEF Tick, store, history
  <1>4. CASE Purge
    BY <1>4 DEF Purge, history
  <1>5. CASE UNCHANGED vars
    BY <1>5 DEF vars
  <1> QED BY <1>1, <1>2, <1>3, <1>4, <1>5

\* Every reachable state is well typed; in particular no handler that opens a
\* session or stores a token does so without an account.
THEOREM TypeCorrect == Spec => []TypeOK
  <1>1. TypeOK /\ [Next]_vars => TypeOK'
    BY CallType, StepType, OtherType DEF Next
  <1> QED BY InitType, <1>1, PTL DEF Spec

-----------------------------------------------------------------------------
(* Rotation is a chain *)

\* What every step does that neither redeems nor stores a token, nor opens a
\* session, nor signs: rows only disappear, and no request becomes an issuer.
Quiet ==
    /\ refreshTokens' \subseteq refreshTokens
    /\ UNCHANGED <<issued, owner>>
    /\ \A r \in Requests :
         /\ Issuer(r)' => Issuer(r) /\ req'[r].session = req[r].session
         /\ req'[r].pc = "persist" => req[r].pc = "persist" /\ req'[r].hash = req[r].hash

LEMMA QuietKeepsRotationInv ==
  ASSUME RotationInv, Quiet
  PROVE  RotationInv'
  <1> USE DEF RotationInv, Quiet, Issuing
  <1>1. TokensAreKnown'
    BY DEF TokensAreKnown
  <1>2. HashesAreUnique'
    BY DEF HashesAreUnique
  <1>3. OneIssuerPerSession'
    BY DEF OneIssuerPerSession, Live
  <1>4. OneLiveTokenPerSession'
    BY DEF OneLiveTokenPerSession, Live
  <1> QED BY <1>1, <1>2, <1>3, <1>4

\* A request that ends or waits for something else than issuing is quiet.
LEMMA QuietRequest ==
  ASSUME TypeOK, NEW r \in Requests, NEW v,
         req' = [req EXCEPT ![r] = v],
         v.pc \notin {"findUser", "sign", "persist"},
         refreshTokens' \subseteq refreshTokens,
         UNCHANGED <<issued, owner>>
  PROVE  Quiet
  BY DEF TypeOK, Quiet, Issuer

LEMMA QuietRevokeOne ==
  ASSUME TypeOK, NEW r \in Requests, NEW s, RevokeOne(r, s),
         refreshTokens' \subseteq refreshTokens, UNCHANGED <<issued, owner>>
  PROVE  Quiet
  <1> DEFINE v == [req[r] EXCEPT !.pc = "revokeSession", !.session = s, !.hash = 0, !.exp = 0,
                                 !.todo = {"tokens", "sessions"}, !.targets = {s}]
  <1>1. req' = [req EXCEPT ![r] = v]
    BY DEF RevokeOne
  <1>2. v.pc = "revokeSession"
    BY DEF TypeOK, Request
  <1> HIDE DEF v
  <1> QED BY <1>1, <1>2, QuietRequest

LEMMA QuietRevokeEvery ==
  ASSUME TypeOK, NEW r \in Requests, NEW u, NEW h, RevokeEvery(r, u, h),
         refreshTokens' \subseteq refreshTokens, UNCHANGED <<issued, owner>>
  PROVE  Quiet
  <1> DEFINE v == [req[r] EXCEPT !.op = h, !.pc = "revokeAll", !.user = u,
                                 !.todo = {"tokens", "sessions"}, !.targets = SessionsOf(u)]
  <1>1. req' = [req EXCEPT ![r] = v]
    BY DEF RevokeEvery
  <1>2. v.pc = "revokeAll"
    BY DEF TypeOK, Request
  <1> HIDE DEF v
  <1> QED BY <1>1, <1>2, QuietRequest

\* A request that stays at its await is quiet.
LEMMA QuietBranch ==
  ASSUME TypeOK, NEW r \in Requests, NEW v,
         req' = [req EXCEPT ![r] = v],
         v.pc = req[r].pc, v.session = req[r].session, v.hash = req[r].hash,
         refreshTokens' \subseteq refreshTokens,
         UNCHANGED <<issued, owner>>
  PROVE  Quiet
  BY DEF TypeOK, Quiet, Issuer

LEMMA CallIsQuiet ==
  ASSUME TypeOK, NEW r \in Requests, Call(r)
  PROVE  Quiet
  <1> USE DEF store, history
  <1>1. ASSUME NEW u \in Users, SignIn(r, u) PROVE Quiet
    BY <1>1, QuietRequest DEF SignIn, Idle
  <1>2. ASSUME NEW u \in Users, ChangePassword(r, u) PROVE Quiet
    BY <1>2, QuietRevokeEvery DEF ChangePassword
  <1>3. ASSUME NEW u \in Users, ResetPassword(r, u) PROVE Quiet
    BY <1>3, QuietRevokeEvery DEF ResetPassword
  <1>4. ASSUME NEW u \in Users, DeleteAccount(r, u) PROVE Quiet
    BY <1>4, QuietRequest DEF DeleteAccount, Idle
  <1>5. ASSUME NEW u \in Users, NEW s \in DOMAIN owner, RevokeSession(r, u, s) PROVE Quiet
    BY <1>5, QuietRequest DEF RevokeSession, Idle
  <1>6. ASSUME NEW t \in handed, NEW h \in {"refresh", "logout"}, Present(r, t, h) PROVE Quiet
    BY <1>6, QuietRequest DEF Present, Idle
  <1> QED BY <1>1, <1>2, <1>3, <1>4, <1>5, <1>6 DEF Call, Refresh, Logout

\* Every step of a handler is quiet but the four that rotate a token.
LEMMA StepIsQuiet ==
  ASSUME TypeOK, NEW r \in Requests, Step(r),
         ~ (Consume(r) \/ Start(r) \/ Sign(r) \/ Persist(r))
  PROVE  Quiet
  <1> USE DEF store, history, TypeOK
  <1>1. CASE FindReused(r)
    BY <1>1, QuietRevokeOne, QuietRequest DEF FindReused, End, Idle
  <1>2. CASE FindUser(r)
    <2>1. CASE Goto(r, "sign")
      BY <1>2, <2>1 DEF FindUser, Goto, Quiet, Issuer, Request
    <2>2. CASE End(r)
      BY <1>2, <2>2, QuietRequest DEF FindUser, End, Idle
    <2> QED BY <1>2, <2>1, <2>2 DEF FindUser
  <1>3. CASE Touch(r)
    BY <1>3 DEF Touch, Goto, Quiet, Issuer, Request
  <1>4. CASE Respond(r)
    BY <1>4, QuietRequest DEF Respond, End, Idle
  <1>5. CASE CheckOwner(r)
    BY <1>5, QuietRevokeOne, QuietRequest DEF CheckOwner, End, Idle
  <1>6. CASE DropUser(r)
    BY <1>6, QuietRevokeEvery DEF DropUser
  <1>7. ASSUME NEW b, Settle(r, b), UNCHANGED <<refreshTokens, issued, owner>> PROVE Quiet
    <2> DEFINE v == [req[r] EXCEPT !.todo = @ \ {b}]
    <2>1. /\ req' = [req EXCEPT ![r] = v]
          /\ v.pc = req[r].pc /\ v.session = req[r].session /\ v.hash = req[r].hash
      BY <1>7 DEF Settle, Request
    <2> HIDE DEF v
    <2> QED BY <1>7, <2>1, QuietBranch
  <1>8. CASE DeleteTokens(r)
    <2>1. CASE UNCHANGED req
      BY <1>8, <2>1 DEF DeleteTokens, Quiet, Issuer
    <2> QED BY <1>7, <1>8, <2>1 DEF DeleteTokens
  <1>10. CASE DeleteSessions(r)
    <2>1. ASSUME NEW s \in sessions, req' = [req EXCEPT ![r].targets = @ \cup {s.id}]
          PROVE  Quiet
      <3> DEFINE v == [req[r] EXCEPT !.targets = @ \cup {s.id}]
      <3>1. /\ req' = [req EXCEPT ![r] = v]
            /\ v.pc = req[r].pc /\ v.session = req[r].session /\ v.hash = req[r].hash
        BY <2>1 DEF Request
      <3> HIDE DEF v
      <3> QED BY <1>10, <3>1, QuietBranch DEF DeleteSessions
    <2> QED BY <1>7, <1>10, <2>1 DEF DeleteSessions, DoomedSessions
  <1>9. CASE Revoked(r)
    BY <1>9 DEF Revoked, Goto, End, Idle, Quiet, Issuer, Request
  <1> QED BY <1>1, <1>2, <1>3, <1>4, <1>5, <1>6, <1>8, <1>9, <1>10 DEF Step

LEMMA OtherIsQuiet ==
  ASSUME TypeOK,
         \/ \E r \in Requests : Fail(r) \/ FailBranch(r)
         \/ Tick
         \/ Purge
         \/ UNCHANGED vars
  PROVE  Quiet
  <1> USE DEF TypeOK, store, history
  <1>1. ASSUME NEW r \in Requests, Fail(r) PROVE Quiet
    BY <1>1, QuietRequest DEF Fail, End, Idle
  <1>2. ASSUME NEW r \in Requests, FailBranch(r) PROVE Quiet
    <2> DEFINE v(b) == [req[r] EXCEPT !.op = "none", !.todo = req[r].todo \ {b}]
    <2>1. PICK b \in req[r].todo : req' = [req EXCEPT ![r] = v(b)]
      BY <1>2 DEF FailBranch
    <2>2. v(b).pc = req[r].pc /\ v(b).session = req[r].session /\ v(b).hash = req[r].hash
      BY DEF Request
    <2> HIDE DEF v
    <2> QED BY <1>2, <2>1, <2>2, QuietBranch DEF FailBranch
  <1>3. CASE Tick
    BY <1>3 DEF Tick, Quiet, Issuer
  <1>4. CASE Purge
    BY <1>4 DEF Purge, Quiet, Issuer
  <1>5. CASE UNCHANGED vars
    BY <1>5 DEF vars, Quiet, Issuer
  <1> QED BY <1>1, <1>2, <1>3, <1>4, <1>5

\* Redeeming: the session's only live token is spent, and with refresh the
\* request becomes the session's only issuer in the same step.
LEMMA ConsumeKeepsRotationInv ==
  ASSUME TypeOK, RotationInv, NEW r \in Requests, Consume(r)
  PROVE  RotationInv'
  <1> USE DEF TypeOK, history
  <1>1. CASE Goto(r, "findReused") /\ UNCHANGED refreshTokens
    <2>1. Quiet
      BY <1>1 DEF Consume, Goto, Quiet, Issuer, Request
    <2> QED BY <2>1, QuietKeepsRotationInv
  <1>2. ASSUME NEW t \in refreshTokens, t.hash = req[r].hash, Live(t),
               refreshTokens' = (refreshTokens \ {t}) \cup {[t EXCEPT !.consumed = TRUE]},
               NEW v, req' = [req EXCEPT ![r] = v],
               v.pc = "findUser" => v.session = t.sessionId,
               v.pc \notin {"sign", "persist"}
        PROVE  RotationInv'
    <2> DEFINE spent == [t EXCEPT !.consumed = TRUE]
    <2>1. /\ spent.hash = t.hash /\ spent.sessionId = t.sessionId /\ ~ Live(spent)
          /\ ~ spent \in refreshTokens
      BY <1>2 DEF Live, RefreshToken, RotationInv, HashesAreUnique
    <2>2. UNCHANGED <<issued, owner>>
      BY DEF Consume
    <2>3. \A q \in Requests : req'[q] = IF q = r THEN v ELSE req[q]
      BY <1>2
    <2> HIDE DEF spent
    <2> USE <1>2, <2>1, <2>2, <2>3 DEF RotationInv
    <2>4. refreshTokens' = (refreshTokens \ {t}) \cup {spent}
      BY DEF spent
    <2>5. TokensAreKnown'
      BY <2>4 DEF TokensAreKnown, Issuer
    <2>6. HashesAreUnique'
      BY <2>4 DEF HashesAreUnique
    <2>7. \A u \in refreshTokens' : u.sessionId = t.sessionId => ~ Live(u)
      BY <2>4 DEF OneLiveTokenPerSession
    <2>8. OneIssuerPerSession'
      BY <2>4, <2>7 DEF OneIssuerPerSession, Issuer, Issuing, Live
    <2>9. OneLiveTokenPerSession'
      BY <2>4 DEF OneLiveTokenPerSession, Live
    <2> QED BY <2>5, <2>6, <2>8, <2>9
  <1>3. CASE ~ (Goto(r, "findReused") /\ UNCHANGED refreshTokens)
    <2>1. PICK t \in refreshTokens :
            /\ t.hash = req[r].hash /\ Live(t)
            /\ refreshTokens' = (refreshTokens \ {t}) \cup {[t EXCEPT !.consumed = TRUE]}
            /\ \/ /\ req[r].op = "refresh"
                  /\ req' = [req EXCEPT ![r] = [@ EXCEPT !.pc = "findUser", !.hash = 0,
                                                         !.user = t.userId,
                                                         !.session = t.sessionId]]
               \/ /\ req[r].op = "logout"
                  /\ RevokeOne(r, t.sessionId)
      BY <1>3 DEF Consume, Redeems, MarkConsumed
    <2> DEFINE v == [req[r] EXCEPT !.pc = "findUser", !.hash = 0, !.user = t.userId,
                                   !.session = t.sessionId]
               w == [req[r] EXCEPT !.pc = "revokeSession", !.session = t.sessionId,
                                   !.hash = 0, !.exp = 0,
                                   !.todo = {"tokens", "sessions"}, !.targets = {t.sessionId}]
    <2>2. v.pc = "findUser" /\ v.session = t.sessionId /\ w.pc = "revokeSession"
      BY DEF Request
    <2>3. req' = [req EXCEPT ![r] = v] \/ req' = [req EXCEPT ![r] = w]
      BY <2>1 DEF RevokeOne
    <2> HIDE DEF v, w
    <2> QED BY <1>2, <2>1, <2>2, <2>3
  <1> QED BY <1>1, <1>3

\* Opening: nobody knows the new session yet, so its issuer is the only one.
LEMMA StartKeepsRotationInv ==
  ASSUME TypeOK, RotationInv, NEW r \in Requests, Start(r)
  PROVE  RotationInv'
  <1> USE DEF RotationInv
  <1> DEFINE s == Len(owner) + 1
             v == [req[r] EXCEPT !.pc = "sign", !.session = s, !.targets = {}]
  <1>1. /\ UNCHANGED <<refreshTokens, issued>>
        /\ req' = [req EXCEPT ![r] = v]
        /\ Len(owner') = s
    BY DEF Start, TypeOK
  <1>2. v.pc = "sign" /\ v.session = s
    BY DEF TypeOK, Request
  <1>3. \A q \in Requests : req'[q] = IF q = r THEN v ELSE req[q]
    BY <1>1 DEF TypeOK
  <1>4. Len(owner) \in Nat /\ \A n \in 1..Len(owner) : n # s /\ n \in 1..s
    BY DEF TypeOK
  <1>5. s \in 1..s
    BY <1>4
  <1> HIDE DEF v, s
  <1>6. TokensAreKnown'
    BY <1>1, <1>2, <1>3, <1>4, <1>5 DEF TokensAreKnown, Issuer
  <1>7. HashesAreUnique'
    BY <1>1, <1>2, <1>3 DEF HashesAreUnique
  <1>8. OneIssuerPerSession'
    BY <1>1, <1>2, <1>3, <1>4 DEF OneIssuerPerSession, TokensAreKnown, Issuer, Issuing, Live
  <1>9. OneLiveTokenPerSession'
    BY <1>1 DEF OneLiveTokenPerSession, Live
  <1> QED BY <1>6, <1>7, <1>8, <1>9

\* Signing: the serial number is new.
LEMMA SignKeepsRotationInv ==
  ASSUME TypeOK, RotationInv, NEW r \in Requests, Sign(r)
  PROVE  RotationInv'
  <1> USE DEF RotationInv
  <1> DEFINE v == [req[r] EXCEPT !.pc = "persist", !.hash = issued + 1, !.exp = now + Lifetime]
  <1>1. /\ UNCHANGED <<refreshTokens, owner>>
        /\ req' = [req EXCEPT ![r] = v]
        /\ issued' = issued + 1
        /\ req[r].pc = "sign"
    BY DEF Sign, store, history
  <1>2. v.pc = "persist" /\ v.session = req[r].session /\ v.hash = issued + 1
    BY DEF TypeOK, Request
  <1>3. \A q \in Requests : req'[q] = IF q = r THEN v ELSE req[q]
    BY <1>1 DEF TypeOK
  <1>4. \A n \in 1..issued : n # issued + 1 /\ n \in 1..(issued + 1)
    BY DEF TypeOK
  <1>5. issued + 1 \in 1..(issued + 1)
    BY DEF TypeOK
  <1> HIDE DEF v
  <1>6. TokensAreKnown'
    BY <1>1, <1>2, <1>3, <1>4, <1>5 DEF TokensAreKnown, Issuer
  <1>7. HashesAreUnique'
    BY <1>1, <1>2, <1>3, <1>4 DEF HashesAreUnique, TokensAreKnown
  <1>8. OneIssuerPerSession'
    BY <1>1, <1>2, <1>3 DEF OneIssuerPerSession, Issuer, Issuing, Live
  <1>9. OneLiveTokenPerSession'
    BY <1>1 DEF OneLiveTokenPerSession, Live
  <1> QED BY <1>6, <1>7, <1>8, <1>9

\* Storing: the session's only issuer stops being one.
LEMMA PersistKeepsRotationInv ==
  ASSUME TypeOK, RotationInv, NEW r \in Requests, Persist(r)
  PROVE  RotationInv'
  <1> USE DEF history
  <1>1. CASE UNCHANGED refreshTokens
    <2>1. CASE Goto(r, "touch")
      BY <1>1, <2>1, QuietKeepsRotationInv DEF Persist, Goto, Quiet, Issuer, TypeOK, Request
    <2>2. CASE End(r)
      BY <1>1, <2>2, QuietRequest, QuietKeepsRotationInv DEF Persist, End, Idle
    <2> QED BY <2>1, <2>2 DEF Persist
  <1>2. CASE ~ UNCHANGED refreshTokens
    <2> USE DEF RotationInv
    <2> DEFINE t == [hash |-> req[r].hash, userId |-> req[r].user, sessionId |-> req[r].session,
                     consumed |-> FALSE, expiresAt |-> req[r].exp]
               v == [req[r] EXCEPT !.pc = "touch"]
    <2>1. /\ refreshTokens' = refreshTokens \cup {t}
          /\ req' = [req EXCEPT ![r] = v]
          /\ UNCHANGED <<issued, owner>>
          /\ req[r].pc = "persist"
      BY <1>2 DEF Persist, Goto
    <2>2. v.pc = "touch"
      BY DEF TypeOK, Request
    <2>3. t.hash = req[r].hash /\ t.sessionId = req[r].session
      OBVIOUS
    <2>4. \A q \in Requests : req'[q] = IF q = r THEN v ELSE req[q]
      BY <2>1 DEF TypeOK
    <2> HIDE DEF t, v
    <2>5. TokensAreKnown'
      BY <2>1, <2>2, <2>3, <2>4 DEF TokensAreKnown, Issuer
    <2>6. HashesAreUnique'
      BY <2>1, <2>2, <2>3, <2>4 DEF HashesAreUnique
    <2>7. OneIssuerPerSession'
      BY <2>1, <2>2, <2>3, <2>4 DEF OneIssuerPerSession, Issuer, Issuing, Live
    <2>8. OneLiveTokenPerSession'
      BY <2>1, <2>3 DEF OneLiveTokenPerSession, OneIssuerPerSession, Issuer, Live
    <2> QED BY <2>5, <2>6, <2>7, <2>8
  <1> QED BY <1>1, <1>2

LEMMA InitRotationInv == Init => RotationInv
  BY DEF Init, RotationInv, TokensAreKnown, HashesAreUnique, OneIssuerPerSession,
         OneLiveTokenPerSession, Issuer, Idle

LEMMA NextKeepsRotationInv == TypeOK /\ RotationInv /\ [Next]_vars => RotationInv'
  <1> SUFFICES ASSUME TypeOK, RotationInv, [Next]_vars PROVE RotationInv'
    OBVIOUS
  <1>1. ASSUME NEW r \in Requests, Call(r) PROVE RotationInv'
    BY <1>1, CallIsQuiet, QuietKeepsRotationInv
  <1>2. ASSUME NEW r \in Requests, Step(r) PROVE RotationInv'
    BY <1>2, StepIsQuiet, QuietKeepsRotationInv, ConsumeKeepsRotationInv,
       StartKeepsRotationInv, SignKeepsRotationInv, PersistKeepsRotationInv
  <1>3. CASE \/ \E r \in Requests : Fail(r) \/ FailBranch(r)
             \/ Tick
             \/ Purge
             \/ UNCHANGED vars
    BY <1>3, OtherIsQuiet, QuietKeepsRotationInv
  <1> QED BY <1>1, <1>2, <1>3 DEF Next

LEMMA RotationInvHolds == Spec => [](TypeOK /\ RotationInv)
  BY InitRotationInv, NextKeepsRotationInv, TypeCorrect, PTL DEF Spec

\* However many requests present the tokens of a session at the same time, at
\* most one of its tokens is redeemable.
THEOREM OneLiveToken == Spec => []OneLiveTokenPerSession
  BY RotationInvHolds, PTL DEF RotationInv

-----------------------------------------------------------------------------
(* A dead session stays dead *)

Dead(s) == LiveTokens(s) = {} /\ ~ \E r \in Requests : Issuing(r, s)

LEMMA QuietKeepsDead ==
  ASSUME Quiet, NEW s, Dead(s)
  PROVE  Dead(s)'
  BY DEF Quiet, Dead, LiveTokens, Live, Issuing

LEMMA ConsumeKeepsDead ==
  ASSUME TypeOK, NEW r \in Requests, Consume(r), NEW s, Dead(s)
  PROVE  Dead(s)'
  <1> USE DEF TypeOK, history
  <1>1. CASE Goto(r, "findReused") /\ UNCHANGED refreshTokens
    <2>1. Quiet
      BY <1>1 DEF Consume, Goto, Quiet, Issuer, Request
    <2> QED BY <2>1, QuietKeepsDead
  <1>2. CASE ~ (Goto(r, "findReused") /\ UNCHANGED refreshTokens)
    <2>1. PICK t \in refreshTokens :
            /\ t.hash = req[r].hash /\ Live(t)
            /\ refreshTokens' = (refreshTokens \ {t}) \cup {[t EXCEPT !.consumed = TRUE]}
            /\ \/ /\ req[r].op = "refresh"
                  /\ req' = [req EXCEPT ![r] = [@ EXCEPT !.pc = "findUser", !.hash = 0,
                                                         !.user = t.userId,
                                                         !.session = t.sessionId]]
               \/ /\ req[r].op = "logout"
                  /\ RevokeOne(r, t.sessionId)
      BY <1>2 DEF Consume, Redeems, MarkConsumed
    <2>2. t.sessionId # s
      BY <2>1 DEF Dead, LiveTokens
    <2>3. ~ Live([t EXCEPT !.consumed = TRUE])
      BY DEF Live, RefreshToken
    <2>4. LiveTokens(s)' = {}
      BY <2>1, <2>3 DEF Dead, LiveTokens, Live
    <2>5. \A q \in Requests : Issuing(q, s)' => Issuing(q, s)
      <3> DEFINE v == [req[r] EXCEPT !.pc = "findUser", !.hash = 0, !.user = t.userId,
                                     !.session = t.sessionId]
                 w == [req[r] EXCEPT !.pc = "revokeSession", !.session = t.sessionId,
                                     !.hash = 0, !.exp = 0,
                                     !.todo = {"tokens", "sessions"}, !.targets = {t.sessionId}]
      <3>1. v.session = t.sessionId /\ w.pc = "revokeSession"
        BY DEF Request
      <3>2. req' = [req EXCEPT ![r] = v] \/ req' = [req EXCEPT ![r] = w]
        BY <2>1 DEF RevokeOne
      <3> HIDE DEF v, w
      <3> QED BY <2>2, <3>1, <3>2 DEF Issuing, Issuer
    <2> QED BY <2>4, <2>5 DEF Dead
  <1> QED BY <1>1, <1>2

\* No replay, retry or late write revives a session that has no redeemable
\* token and no request about to store one.
THEOREM DeadStaysDead == Spec => DeadSessionStaysDead
  <1>1. ASSUME TypeOK, RotationInv, [Next]_vars, NEW s \in DOMAIN owner, Dead(s)
        PROVE  Dead(s)'
    <2> USE <1>1
    <2>1. ASSUME NEW r \in Requests, Start(r) PROVE Dead(s)'
      <3>1. req' = [req EXCEPT ![r] = [@ EXCEPT !.pc = "sign", !.session = Len(owner) + 1,
                                                !.targets = {}]]
        BY <2>1 DEF Start
      <3>2. s # Len(owner) + 1
        BY DEF TypeOK
      <3>3. \A q \in Requests : Issuing(q, s)' => Issuing(q, s)
        BY <3>1, <3>2 DEF Issuing, Issuer, TypeOK, Request
      <3> QED BY <2>1, <3>3 DEF Start, Dead, LiveTokens, Live
    <2>2. ASSUME NEW r \in Requests, Sign(r) PROVE Dead(s)'
      <3>1. \A q \in Requests : Issuing(q, s)' => Issuing(q, s)
        BY <2>2 DEF Sign, Issuing, Issuer, TypeOK, Request
      <3> QED BY <2>2, <3>1 DEF Sign, store, Dead, LiveTokens, Live
    <2>3. ASSUME NEW r \in Requests, Persist(r) PROVE Dead(s)'
      <3>1. req[r].session # s
        BY <2>3 DEF Persist, Dead, Issuing, Issuer
      <3>2. LiveTokens(s)' = {}
        BY <2>3, <3>1 DEF Persist, Dead, LiveTokens, Live
      <3>3. \A q \in Requests : Issuing(q, s)' => Issuing(q, s)
        <4>1. CASE Goto(r, "touch")
          BY <4>1 DEF Goto, Issuing, Issuer, TypeOK, Request
        <4>2. CASE End(r)
          BY <4>2 DEF End, Idle, Issuing, Issuer, TypeOK
        <4> QED BY <2>3, <4>1, <4>2 DEF Persist
      <3> QED BY <3>2, <3>3 DEF Dead
    <2>4. ASSUME NEW r \in Requests, Call(r) PROVE Dead(s)'
      BY <2>4, CallIsQuiet, QuietKeepsDead
    <2>5. ASSUME NEW r \in Requests, Step(r) PROVE Dead(s)'
      BY <2>1, <2>2, <2>3, <2>5, StepIsQuiet, QuietKeepsDead, ConsumeKeepsDead
    <2>6. CASE \/ \E r \in Requests : Fail(r) \/ FailBranch(r)
               \/ Tick
               \/ Purge
               \/ UNCHANGED vars
      BY <2>6, OtherIsQuiet, QuietKeepsDead
    <2> QED BY <2>4, <2>5, <2>6 DEF Next
  <1>2. TypeOK /\ RotationInv /\ [Next]_vars =>
          [\A s \in DOMAIN owner :
             /\ LiveTokens(s) = {}
             /\ ~ \E r \in Requests : Issuing(r, s)
             => /\ LiveTokens(s)' = {}
                /\ ~ \E r \in Requests : Issuing(r, s)']_vars
    BY <1>1 DEF Dead
  <1> QED BY <1>2, RotationInvHolds, PTL DEF Spec, DeadSessionStaysDead

-----------------------------------------------------------------------------
(* The component implements RotatingSessions *)

\* The bounds hold, so every token and session has its abstract counterpart.
Bounded == Len(owner) <= MaxSessions /\ issued <= MaxTokens

LEMMA BoundedStep == TypeOK /\ Bounded /\ [Next]_vars => Bounded'
  <1> SUFFICES ASSUME TypeOK, Bounded, [Next]_vars PROVE Bounded'
    OBVIOUS
  <1> USE DEF Bounded
  <1>1. ASSUME Quiet PROVE Bounded'
    BY <1>1 DEF Quiet
  <1>2. ASSUME NEW r \in Requests, Start(r) PROVE Bounded'
    BY <1>2, DeviceSessionsAssumption DEF Start, TypeOK
  <1>3. ASSUME NEW r \in Requests, Sign(r) PROVE Bounded'
    BY <1>3, DeviceSessionsAssumption DEF Sign, TypeOK, history
  <1>4. ASSUME NEW r \in Requests, Consume(r) \/ Persist(r) PROVE Bounded'
    BY <1>4 DEF Consume, Persist, history
  <1>5. ASSUME NEW r \in Requests, Call(r) PROVE Bounded'
    BY <1>1, <1>5, CallIsQuiet
  <1>6. ASSUME NEW r \in Requests, Step(r) PROVE Bounded'
    BY <1>1, <1>2, <1>3, <1>4, <1>6, StepIsQuiet
  <1>7. CASE \/ \E r \in Requests : Fail(r) \/ FailBranch(r)
             \/ Tick
             \/ Purge
             \/ UNCHANGED vars
    BY <1>1, <1>7, OtherIsQuiet
  <1> QED BY <1>5, <1>6, <1>7 DEF Next

LEMMA InvHolds == Spec => [](TypeOK /\ RotationInv /\ Bounded)
  <1>1. Init => Bounded
    BY DeviceSessionsAssumption DEF Init, Bounded
  <1> QED BY <1>1, BoundedStep, RotationInvHolds, PTL DEF Spec

\* The abstract state depends on the live tokens and the issuers only.
AllLive == {t \in refreshTokens : Live(t)}

SameIssuer(q) ==
    /\ Issuer(q)' <=> Issuer(q)
    /\ Issuer(q) => req'[q].session = req[q].session
    /\ req'[q].pc = "persist" <=> req[q].pc = "persist"
    /\ req[q].pc = "persist" => req'[q].hash = req[q].hash

SameIssuers == \A q \in Requests : SameIssuer(q)

LEMMA SamePhase ==
  ASSUME SameIssuers, UNCHANGED owner, NEW s
  PROVE  Phase(s)' = Phase(s)
  BY DEF SameIssuers, SameIssuer, Phase, Issuing

LEMMA Stutter ==
  ASSUME SameIssuers, AllLive' = AllLive, UNCHANGED <<issued, owner>>
  PROVE  UNCHANGED Rotating!vars
  <1>1. \A s : Redeemable(s)' = Redeemable(s)
    BY DEF Redeemable, LiveTokens, AllLive, Live
  <1>2. \A h : Spent(h)' <=> Spent(h)
    BY DEF Spent, AllLive, Live, SameIssuers, SameIssuer
  <1>3. \A s : Phase(s)' = Phase(s)
    BY SamePhase
  <1> QED BY <1>1, <1>2, <1>3 DEF Rotating!vars

\* Losing a redeemable token, while the rights to issue stay as they are.
LEMMA LosingATokenKills ==
  ASSUME TypeOK, RotationInv, Bounded, SameIssuers, UNCHANGED <<issued, owner>>,
         NEW t \in AllLive, AllLive' = AllLive \ {t}
  PROVE  Rotating!Next
  <1> DEFINE s == t.sessionId
  <1>1. s \in 1..Len(owner) /\ s \in 1..MaxSessions /\ t.hash \in 1..issued
    BY DeviceSessionsAssumption DEF AllLive, RotationInv, TokensAreKnown, TypeOK, Bounded
  <1>2. Phase(s) = "settled"
    BY <1>1 DEF Phase, AllLive, RotationInv, OneIssuerPerSession, Issuing, TypeOK
  <1>3. Redeemable(s) = {t.hash}
    BY DEF Redeemable, LiveTokens, AllLive, RotationInv, OneLiveTokenPerSession
  <1>4. Redeemable(s)' = {}
    BY DEF Redeemable, LiveTokens, AllLive, Live, RotationInv, OneLiveTokenPerSession
  <1>5. \A z : z # s => Redeemable(z)' = Redeemable(z)
    BY DEF Redeemable, LiveTokens, AllLive, Live
  <1>6. \A h : Spent(h)' <=> Spent(h) \/ h = t.hash
    BY DEF Spent, AllLive, Live, SameIssuers, SameIssuer, RotationInv, HashesAreUnique
  <1>7. {h \in 1..issued : Spent(h)}' = {h \in 1..issued : Spent(h)} \cup {t.hash}
    BY <1>1, <1>6
  <1>8. \A z : Phase(z)' = Phase(z)
    BY SamePhase
  <1> HIDE DEF s
  <1>9. Rotating!Kill(s)
    BY <1>1, <1>2, <1>3, <1>4, <1>5, <1>7, <1>8 DEF Rotating!Kill
  <1> QED BY <1>1, <1>9 DEF Rotating!Next

\* An issuer that stops without storing a token.
LEMMA StoppingAnIssuerAbandons ==
  ASSUME TypeOK, RotationInv, Bounded, UNCHANGED <<issued, owner>>, AllLive' = AllLive,
         NEW r \in Requests, Issuer(r), ~ Issuer(r)',
         \A q \in Requests \ {r} : SameIssuer(q)
  PROVE  Rotating!Next
  <1>0. PICK s : s = req[r].session
    OBVIOUS
  <1>1. s \in 1..Len(owner) /\ s \in 1..MaxSessions
    BY <1>0, DeviceSessionsAssumption DEF RotationInv, TokensAreKnown, TypeOK, Bounded
  <1>2. Phase(s) = "issuing"
    BY <1>0, <1>1 DEF Phase, Issuing, TypeOK
  <1>3. \A q \in Requests \ {r} : Issuing(q, s)' <=> Issuing(q, s)
    BY DEF SameIssuer, Issuing
  <1>4. ~ \E q \in Requests : Issuing(q, s)'
    BY <1>0, <1>3 DEF RotationInv, OneIssuerPerSession, Issuing
  <1>5. Phase(s)' = "settled"
    BY <1>1, <1>4 DEF Phase, TypeOK
  <1>6. \A z : z # s => Phase(z)' = Phase(z)
    BY <1>0 DEF Phase, Issuing, SameIssuer
  <1>7. \A z : Redeemable(z)' = Redeemable(z)
    BY DEF Redeemable, LiveTokens, AllLive, Live
  <1>8. req'[r].pc # "persist"
    BY DEF Issuer
  <1>9. CASE req[r].pc # "persist"
    <2>1. \A h : Spent(h)' <=> Spent(h)
      BY <1>8, <1>9 DEF Spent, AllLive, Live, SameIssuer
    <2>2. Rotating!Abandon(s)
      BY <1>1, <1>2, <1>5, <1>6, <1>7, <2>1 DEF Rotating!Abandon
    <2> QED BY <1>1, <2>2 DEF Rotating!Next
  <1>10. CASE req[r].pc = "persist"
    <2>0. PICK g : g = req[r].hash
      OBVIOUS
    <2>1. g \in 1..issued /\ g \in 1..MaxTokens
      BY <1>10, <2>0, DeviceSessionsAssumption DEF RotationInv, TokensAreKnown, TypeOK, Bounded
    <2>2. \A h : Spent(h)' <=> Spent(h) \/ h = g
      BY <1>8, <1>10, <2>0 DEF Spent, AllLive, Live, SameIssuer, RotationInv, HashesAreUnique
    <2>3. ~ Spent(g) /\ \A z : g \notin Redeemable(z)
      BY <1>10, <2>0 DEF Spent, Redeemable, LiveTokens, RotationInv, HashesAreUnique
    <2>4. {h \in 1..issued : Spent(h)}' = {h \in 1..issued : Spent(h)} \cup {g}
      BY <2>1, <2>2
    <2>5. Rotating!Fresh(g)
      BY <2>3 DEF Rotating!Fresh
    <2>6. Rotating!Abandon(s)
      BY <1>1, <1>2, <1>5, <1>6, <1>7, <2>1, <2>4, <2>5 DEF Rotating!Abandon
    <2> QED BY <1>1, <2>6 DEF Rotating!Next
  <1> QED BY <1>9, <1>10

\* A quiet step of a request that is no issuer leaves the issuers alone.
OnlyMoves(r) == \A q \in Requests \ {r} : req'[q] = req[q]

LEMMA BystanderKeepsIssuers ==
  ASSUME Quiet, NEW r \in Requests, ~ Issuer(r), OnlyMoves(r)
  PROVE  SameIssuers
  BY DEF Quiet, OnlyMoves, SameIssuers, SameIssuer, Issuer

LEMMA CallOnlyMoves ==
  ASSUME TypeOK, NEW r \in Requests, Call(r)
  PROVE  OnlyMoves(r) /\ ~ Issuer(r) /\ UNCHANGED refreshTokens
  <1> USE DEF TypeOK, OnlyMoves, Accepts, Issuer, store
  <1>1. ASSUME NEW u \in Users, SignIn(r, u) \/ DeleteAccount(r, u)
        PROVE  OnlyMoves(r) /\ ~ Issuer(r) /\ UNCHANGED refreshTokens
    BY <1>1 DEF SignIn, DeleteAccount
  <1>2. ASSUME NEW u \in Users, ChangePassword(r, u) \/ ResetPassword(r, u)
        PROVE  OnlyMoves(r) /\ ~ Issuer(r) /\ UNCHANGED refreshTokens
    BY <1>2 DEF ChangePassword, ResetPassword, RevokeEvery
  <1>3. ASSUME NEW u \in Users, NEW s \in DOMAIN owner, RevokeSession(r, u, s)
        PROVE  OnlyMoves(r) /\ ~ Issuer(r) /\ UNCHANGED refreshTokens
    BY <1>3 DEF RevokeSession
  <1>4. ASSUME NEW t \in handed, NEW h, Present(r, t, h)
        PROVE  OnlyMoves(r) /\ ~ Issuer(r) /\ UNCHANGED refreshTokens
    BY <1>4 DEF Present
  <1> QED BY <1>1, <1>2, <1>3, <1>4 DEF Call, Refresh, Logout

LEMMA StepOnlyMoves ==
  ASSUME TypeOK, NEW r \in Requests, Step(r)
  PROVE  OnlyMoves(r)
  <1> USE DEF TypeOK, OnlyMoves, Goto, End, RevokeOne, RevokeEvery, Settle
  <1>1. CASE Consume(r) \/ FindReused(r) \/ FindUser(r)
    BY <1>1 DEF Consume, FindReused, FindUser
  <1>2. CASE Start(r) \/ Sign(r) \/ Persist(r) \/ Touch(r) \/ Respond(r)
    BY <1>2 DEF Start, Sign, Persist, Touch, Respond
  <1>3. CASE CheckOwner(r) \/ DropUser(r)
    BY <1>3 DEF CheckOwner, DropUser
  <1>4. CASE DeleteTokens(r)
    BY <1>4 DEF DeleteTokens
  <1>5. CASE DeleteSessions(r)
    BY <1>5 DEF DeleteSessions
  <1>6. CASE Revoked(r)
    BY <1>6 DEF Revoked
  <1> QED BY <1>1, <1>2, <1>3, <1>4, <1>5, <1>6 DEF Step

LEMMA CallRefines ==
  ASSUME TypeOK, NEW r \in Requests, Call(r)
  PROVE  UNCHANGED Rotating!vars
  <1>1. SameIssuers /\ AllLive' = AllLive
    BY CallIsQuiet, CallOnlyMoves, BystanderKeepsIssuers DEF AllLive, Live
  <1> QED BY <1>1, CallIsQuiet, Stutter DEF Quiet

\* Handlers that neither hold a right to issue nor delete tokens.
LEMMA BystanderRefines ==
  ASSUME TypeOK, NEW r \in Requests,
         \/ FindReused(r) \/ Touch(r) \/ Respond(r) \/ CheckOwner(r) \/ DropUser(r)
         \/ DeleteSessions(r) \/ Revoked(r)
  PROVE  UNCHANGED Rotating!vars
  <1>1. Step(r) /\ ~ (Consume(r) \/ Start(r) \/ Sign(r) \/ Persist(r))
    BY DEF Step, FindReused, Touch, Respond, CheckOwner, DropUser, DeleteSessions, Revoked,
           Revoking, Consume, Start, Sign, Persist
  <1>2. ~ Issuer(r) /\ UNCHANGED refreshTokens
    BY DEF Issuer, FindReused, Touch, Respond, CheckOwner, DropUser, DeleteSessions, Revoked,
           Revoking, store
  <1>3. SameIssuers /\ AllLive' = AllLive
    BY <1>1, <1>2, StepIsQuiet, StepOnlyMoves, BystanderKeepsIssuers DEF AllLive, Live
  <1> QED BY <1>1, <1>3, StepIsQuiet, Stutter DEF Quiet

\* One row disappears, redeemable or spent.
LEMMA LosingARowRefines ==
  ASSUME TypeOK, RotationInv, Bounded, SameIssuers, UNCHANGED <<issued, owner>>,
         NEW t \in refreshTokens, refreshTokens' = refreshTokens \ {t}
  PROVE  Rotating!Next \/ UNCHANGED Rotating!vars
  <1>1. CASE Live(t)
    <2>1. t \in AllLive /\ AllLive' = AllLive \ {t}
      BY <1>1 DEF AllLive, Live
    <2> QED BY <2>1, LosingATokenKills
  <1>2. CASE ~ Live(t)
    <2>1. AllLive' = AllLive
      BY <1>2 DEF AllLive, Live
    <2> QED BY <2>1, Stutter
  <1> QED BY <1>1, <1>2

LEMMA DeleteTokensRefines ==
  ASSUME TypeOK, RotationInv, Bounded, NEW r \in Requests, DeleteTokens(r)
  PROVE  Rotating!Next \/ UNCHANGED Rotating!vars
  <1>1. Step(r) /\ ~ (Consume(r) \/ Start(r) \/ Sign(r) \/ Persist(r)) /\ ~ Issuer(r)
    BY DEF Step, DeleteTokens, Revoking, Consume, Start, Sign, Persist, Issuer
  <1>2. SameIssuers /\ UNCHANGED <<issued, owner>>
    BY <1>1, StepIsQuiet, StepOnlyMoves, BystanderKeepsIssuers DEF Quiet
  <1>3. CASE UNCHANGED refreshTokens
    <2>1. AllLive' = AllLive
      BY <1>3 DEF AllLive, Live
    <2> QED BY <1>2, <2>1, Stutter
  <1>4. ASSUME NEW t \in DoomedTokens(r), refreshTokens' = refreshTokens \ {t}
        PROVE  Rotating!Next \/ UNCHANGED Rotating!vars
    BY <1>2, <1>4, LosingARowRefines DEF DoomedTokens
  <1> QED BY <1>3, <1>4 DEF DeleteTokens

\* A request that dies, whatever it was doing.
LEMMA EndingRefines ==
  ASSUME TypeOK, RotationInv, Bounded, NEW r \in Requests, End(r),
         UNCHANGED <<refreshTokens, issued, owner>>
  PROVE  Rotating!Next \/ UNCHANGED Rotating!vars
  <1>1. AllLive' = AllLive
    BY DEF AllLive, Live
  <1>2. ~ Issuer(r)' /\ \A q \in Requests \ {r} : SameIssuer(q)
    BY DEF End, Idle, TypeOK, Issuer, SameIssuer
  <1>3. CASE Issuer(r)
    BY <1>1, <1>2, <1>3, StoppingAnIssuerAbandons
  <1>4. CASE ~ Issuer(r)
    <2>1. SameIssuers
      BY <1>2, <1>4 DEF SameIssuers, SameIssuer, Issuer
    <2> QED BY <1>1, <2>1, Stutter
  <1> QED BY <1>3, <1>4

LEMMA FindUserRefines ==
  ASSUME TypeOK, RotationInv, Bounded, NEW r \in Requests, FindUser(r)
  PROVE  Rotating!Next \/ UNCHANGED Rotating!vars
  <1>1. UNCHANGED <<refreshTokens, issued, owner>>
    BY DEF FindUser, store, history
  <1>2. CASE End(r)
    BY <1>1, <1>2, EndingRefines
  <1>3. CASE Goto(r, "sign")
    <2>1. SameIssuers
      BY <1>3 DEF FindUser, Goto, TypeOK, Request, SameIssuers, SameIssuer, Issuer
    <2>2. AllLive' = AllLive
      BY <1>1 DEF AllLive, Live
    <2> QED BY <1>1, <2>1, <2>2, Stutter
  <1> QED BY <1>2, <1>3 DEF FindUser

\* Opening a session.
LEMMA StartRefines ==
  ASSUME TypeOK, RotationInv, Bounded, NEW r \in Requests, Start(r)
  PROVE  Rotating!Next
  <1> DEFINE v == [req[r] EXCEPT !.pc = "sign", !.session = Len(owner) + 1, !.targets = {}]
  <1>0. PICK s : s = Len(owner) + 1
    OBVIOUS
  <1>1. /\ UNCHANGED <<refreshTokens, issued>>
        /\ owner' = Append(owner, req[r].user)
        /\ req' = [req EXCEPT ![r] = v]
        /\ req[r].pc = "start"
        /\ s \in 1..MaxSessions
    BY <1>0, DeviceSessionsAssumption DEF Start, TypeOK
  <1>2. DOMAIN owner = 1..Len(owner) /\ DOMAIN owner' = 1..s
    <2>1. req[r].user \in Users
      BY <1>1 DEF TypeOK, Request, KnowUser
    <2> QED BY <1>0, <1>1, <2>1 DEF TypeOK
  <1>3. v.pc = "sign" /\ v.session = s
    BY <1>0 DEF TypeOK, Request
  <1>4. \A q \in Requests : req'[q] = IF q = r THEN v ELSE req[q]
    BY <1>1 DEF TypeOK
  <1>5. s \notin DOMAIN owner /\ s \in DOMAIN owner' /\ \A z : z # s => (z \in DOMAIN owner' <=> z \in DOMAIN owner)
    BY <1>0, <1>2 DEF TypeOK
  <1> HIDE DEF v
  <1>6. Phase(s) = "unopened" /\ Phase(s)' = "issuing"
    BY <1>3, <1>4, <1>5 DEF Phase, Issuing, Issuer
  <1>7. \A z : z # s => Phase(z)' = Phase(z)
    BY <1>1, <1>3, <1>4, <1>5 DEF Phase, Issuing, Issuer
  <1>8. \A z : Redeemable(z)' = Redeemable(z)
    BY <1>1 DEF Redeemable, LiveTokens, Live
  <1>9. \A h : Spent(h)' <=> Spent(h)
    BY <1>1, <1>3, <1>4 DEF Spent, Live
  <1>10. Rotating!Open(s)
    BY <1>1, <1>6, <1>7, <1>8, <1>9 DEF Rotating!Open
  <1> QED BY <1>1, <1>10 DEF Rotating!Next

\* A signed token is not redeemable before it is stored: nothing to see.
LEMMA SignRefines ==
  ASSUME TypeOK, RotationInv, Bounded, NEW r \in Requests, Sign(r)
  PROVE  UNCHANGED Rotating!vars
  <1> DEFINE v == [req[r] EXCEPT !.pc = "persist", !.hash = issued + 1, !.exp = now + Lifetime]
  <1>1. /\ UNCHANGED <<refreshTokens, owner>>
        /\ req' = [req EXCEPT ![r] = v]
        /\ issued' = issued + 1
        /\ req[r].pc = "sign"
    BY DEF Sign, store, history
  <1>2. v.pc = "persist" /\ v.session = req[r].session /\ v.hash = issued + 1
    BY DEF TypeOK, Request
  <1>3. \A q \in Requests : req'[q] = IF q = r THEN v ELSE req[q]
    BY <1>1 DEF TypeOK
  <1> HIDE DEF v
  <1>4. \A z : Phase(z)' = Phase(z)
    BY <1>1, <1>2, <1>3 DEF Phase, Issuing, Issuer
  <1>5. \A z : Redeemable(z)' = Redeemable(z)
    BY <1>1 DEF Redeemable, LiveTokens, Live
  <1>0. PICK g : g = issued + 1
    OBVIOUS
  <1>6. ~ Spent(g)'
    BY <1>0, <1>2, <1>3 DEF Spent
  <1>7. \A h : h # g => (Spent(h)' <=> Spent(h))
    BY <1>0, <1>1, <1>2, <1>3 DEF Spent, Live
  <1>8. \A n : n \in 1..issued' <=> n \in 1..issued \/ n = g
    BY <1>0, <1>1 DEF TypeOK
  <1>9. g \notin 1..issued
    BY <1>0 DEF TypeOK
  <1>10. {h \in 1..issued : Spent(h)}' = {h \in 1..issued : Spent(h)}
    BY <1>1, <1>6, <1>7, <1>8, <1>9
  <1> QED BY <1>4, <1>5, <1>10 DEF Rotating!vars

\* Storing the token the session was waiting for.
LEMMA PersistRefines ==
  ASSUME TypeOK, RotationInv, Bounded, NEW r \in Requests, Persist(r)
  PROVE  Rotating!Next \/ UNCHANGED Rotating!vars
  <1>1. CASE End(r) /\ UNCHANGED refreshTokens
    BY <1>1, EndingRefines DEF Persist, history
  <1>2. CASE ~ (End(r) /\ UNCHANGED refreshTokens)
    <2> DEFINE t == [hash |-> req[r].hash, userId |-> req[r].user, sessionId |-> req[r].session,
                     consumed |-> FALSE, expiresAt |-> req[r].exp]
               v == [req[r] EXCEPT !.pc = "touch"]
    <2>0. PICK s, g : s = req[r].session /\ g = req[r].hash
      OBVIOUS
    <2>1. /\ refreshTokens' = refreshTokens \cup {t}
          /\ req' = [req EXCEPT ![r] = v]
          /\ UNCHANGED <<issued, owner>>
          /\ req[r].pc = "persist"
      BY <1>2 DEF Persist, Goto, history
    <2>2. v.pc = "touch" /\ t.sessionId = s /\ t.hash = g /\ Live(t)
      BY <2>0 DEF TypeOK, Request, Live
    <2>3. \A q \in Requests : req'[q] = IF q = r THEN v ELSE req[q]
      BY <2>1 DEF TypeOK
    <2>4. s \in 1..Len(owner) /\ s \in 1..MaxSessions /\ g \in 1..MaxTokens
      BY <2>0, <2>1, DeviceSessionsAssumption
         DEF RotationInv, TokensAreKnown, TypeOK, Bounded, Issuer
    <2>5. Phase(s) = "issuing"
      BY <2>0, <2>1, <2>4 DEF Phase, Issuing, Issuer, TypeOK
    <2> HIDE DEF t, v
    <2>6. Phase(s)' = "settled"
      BY <2>0, <2>1, <2>2, <2>3, <2>4
         DEF Phase, RotationInv, OneIssuerPerSession, Issuing, Issuer, TypeOK
    <2>7. \A z : z # s => Phase(z)' = Phase(z)
      BY <2>0, <2>1, <2>2, <2>3 DEF Phase, Issuing, Issuer
    <2>8. Redeemable(s) = {}
      BY <2>0, <2>1 DEF Redeemable, LiveTokens, RotationInv, OneIssuerPerSession, Issuer
    <2>9. Redeemable(s)' = {g}
      BY <2>1, <2>2, <2>8 DEF Redeemable, LiveTokens, Live
    <2>10. \A z : z # s => Redeemable(z)' = Redeemable(z)
      BY <2>1, <2>2 DEF Redeemable, LiveTokens, Live
    <2>11. \A h : Spent(h)' <=> Spent(h)
      BY <2>0, <2>1, <2>2, <2>3 DEF Spent, Live
    <2>12. Rotating!Fresh(g)
      BY <2>0, <2>1 DEF Rotating!Fresh, Spent, Redeemable, LiveTokens, RotationInv, HashesAreUnique
    <2>13. Rotating!Issue(s)
      BY <2>1, <2>4, <2>5, <2>6, <2>7, <2>8, <2>9, <2>10, <2>11, <2>12 DEF Rotating!Issue
    <2> QED BY <2>4, <2>13 DEF Rotating!Next
  <1> QED BY <1>1, <1>2

\* Redeeming: refresh trades the token for the right to issue, logout drops it.
LEMMA ConsumeRefines ==
  ASSUME TypeOK, RotationInv, Bounded, NEW r \in Requests, Consume(r)
  PROVE  Rotating!Next \/ UNCHANGED Rotating!vars
  <1>0. UNCHANGED <<issued, owner>> /\ req[r].pc = "consume" /\ OnlyMoves(r)
    BY StepOnlyMoves DEF Consume, Step, history
  <1>1. CASE Goto(r, "findReused") /\ UNCHANGED refreshTokens
    <2>1. SameIssuers
      BY <1>0, <1>1 DEF Goto, TypeOK, Request, SameIssuers, SameIssuer, Issuer
    <2>2. AllLive' = AllLive
      BY <1>1 DEF AllLive, Live
    <2> QED BY <1>0, <2>1, <2>2, Stutter
  <1>2. CASE ~ (Goto(r, "findReused") /\ UNCHANGED refreshTokens)
    <2>1. PICK t \in refreshTokens :
            /\ t.hash = req[r].hash /\ Live(t)
            /\ refreshTokens' = (refreshTokens \ {t}) \cup {[t EXCEPT !.consumed = TRUE]}
            /\ \/ /\ req[r].op = "refresh"
                  /\ req' = [req EXCEPT ![r] = [@ EXCEPT !.pc = "findUser", !.hash = 0,
                                                         !.user = t.userId,
                                                         !.session = t.sessionId]]
               \/ /\ req[r].op = "logout"
                  /\ RevokeOne(r, t.sessionId)
      BY <1>2 DEF Consume, Redeems, MarkConsumed
    <2>2. ~ Live([t EXCEPT !.consumed = TRUE])
      BY DEF Live, TypeOK, RefreshToken
    <2>3. t \in AllLive /\ AllLive' = AllLive \ {t}
      BY <2>1, <2>2 DEF AllLive, Live
    <2> DEFINE v == [req[r] EXCEPT !.pc = "findUser", !.hash = 0, !.user = t.userId,
                                   !.session = t.sessionId]
               w == [req[r] EXCEPT !.pc = "revokeSession", !.session = t.sessionId,
                                   !.hash = 0, !.exp = 0,
                                   !.todo = {"tokens", "sessions"}, !.targets = {t.sessionId}]
    <2>4. v.pc = "findUser" /\ v.session = t.sessionId /\ w.pc = "revokeSession"
      BY DEF TypeOK, Request
    <2>5. req' = [req EXCEPT ![r] = v] \/ req' = [req EXCEPT ![r] = w]
      BY <2>1 DEF RevokeOne
    <2> HIDE DEF v, w
    <2>6. CASE req' = [req EXCEPT ![r] = w]
      <3>1. SameIssuers
        BY <1>0, <2>4, <2>6 DEF TypeOK, SameIssuers, SameIssuer, Issuer
      <3> QED BY <1>0, <2>3, <3>1, LosingATokenKills
    <2>7. CASE req' = [req EXCEPT ![r] = v]
      <3> DEFINE s == t.sessionId
      <3>1. \A q \in Requests : req'[q] = IF q = r THEN v ELSE req[q]
        BY <2>7 DEF TypeOK
      <3>2. s \in 1..Len(owner) /\ s \in 1..MaxSessions /\ t.hash \in 1..issued
        BY DeviceSessionsAssumption DEF RotationInv, TokensAreKnown, TypeOK, Bounded
      <3>3. Phase(s) = "settled" /\ Phase(s)' = "issuing"
        BY <1>0, <2>1, <2>4, <3>1, <3>2
           DEF Phase, RotationInv, OneIssuerPerSession, Issuing, Issuer, TypeOK
      <3>4. \A z : z # s => Phase(z)' = Phase(z)
        BY <1>0, <2>4, <3>1 DEF Phase, Issuing, Issuer
      <3>5. Redeemable(s) = {t.hash}
        BY <2>1 DEF Redeemable, LiveTokens, RotationInv, OneLiveTokenPerSession
      <3>6. Redeemable(s)' = {}
        BY <2>3 DEF Redeemable, LiveTokens, AllLive, Live, RotationInv, OneLiveTokenPerSession
      <3>7. \A z : z # s => Redeemable(z)' = Redeemable(z)
        BY <2>3 DEF Redeemable, LiveTokens, AllLive, Live
      <3>8. \A h : Spent(h)' <=> Spent(h) \/ h = t.hash
        BY <1>0, <2>3, <2>4, <3>1 DEF Spent, AllLive, Live, RotationInv, HashesAreUnique
      <3>9. {h \in 1..issued : Spent(h)}' = {h \in 1..issued : Spent(h)} \cup {t.hash}
        BY <1>0, <3>2, <3>8
      <3> HIDE DEF s
      <3>10. Rotating!Redeem(s)
        BY <3>2, <3>3, <3>4, <3>5, <3>6, <3>7, <3>9 DEF Rotating!Redeem
      <3> QED BY <3>2, <3>10 DEF Rotating!Next
    <2> QED BY <2>5, <2>6, <2>7
  <1> QED BY <1>1, <1>2

LEMMA OtherRefines ==
  ASSUME TypeOK, RotationInv, Bounded,
         \/ \E r \in Requests : Fail(r) \/ FailBranch(r)
         \/ Tick
         \/ Purge
         \/ UNCHANGED vars
  PROVE  Rotating!Next \/ UNCHANGED Rotating!vars
  <1> USE DEF store, history
  <1>1. ASSUME NEW r \in Requests, Fail(r) PROVE Rotating!Next \/ UNCHANGED Rotating!vars
    BY <1>1, EndingRefines DEF Fail
  <1>2. ASSUME NEW r \in Requests, FailBranch(r) PROVE UNCHANGED Rotating!vars
    <2>1. OnlyMoves(r) /\ ~ Issuer(r)
      BY <1>2 DEF FailBranch, OnlyMoves, Issuer, Revoking, TypeOK
    <2>2. SameIssuers
      BY <1>2, <2>1, OtherIsQuiet, BystanderKeepsIssuers
    <2>3. AllLive' = AllLive
      BY <1>2 DEF FailBranch, AllLive, Live
    <2> QED BY <1>2, <2>2, <2>3, Stutter DEF FailBranch
  <1>3. CASE Tick \/ UNCHANGED vars
    <2>1. SameIssuers /\ AllLive' = AllLive /\ UNCHANGED <<issued, owner>>
      BY <1>3 DEF Tick, vars, SameIssuers, SameIssuer, Issuer, AllLive, Live
    <2> QED BY <2>1, Stutter
  <1>4. CASE Purge
    <2>1. SameIssuers /\ UNCHANGED <<issued, owner>>
      BY <1>4 DEF Purge, SameIssuers, SameIssuer, Issuer
    <2>2. CASE UNCHANGED refreshTokens
      <3>1. AllLive' = AllLive
        BY <2>2 DEF AllLive, Live
      <3> QED BY <2>1, <3>1, Stutter
    <2>3. CASE \E t \in refreshTokens : refreshTokens' = refreshTokens \ {t}
      BY <2>1, <2>3, LosingARowRefines
    <2> QED BY <1>4, <2>2, <2>3 DEF Purge
  <1> QED BY <1>1, <1>2, <1>3, <1>4

LEMMA InitRefines == Init => Rotating!Init
  <1> SUFFICES ASSUME Init PROVE Rotating!Init
    OBVIOUS
  <1>1. \A s : Phase(s) = "unopened"
    BY DEF Init, Phase
  <1>2. \A s : Redeemable(s) = {}
    BY DEF Init, Redeemable, LiveTokens
  <1>3. 1..issued = {}
    BY DEF Init
  <1> QED BY <1>1, <1>2, <1>3 DEF Rotating!Init

\* Whatever requests do at the same time, die of or replay, tokens move along
\* the abstract rotation only: opened, issued, redeemed or killed, and never back.
THEOREM RotationIsImplemented == Spec => ImplementsRotation
  <1>1. TypeOK /\ RotationInv /\ Bounded /\ [Next]_vars => [Rotating!Next]_(Rotating!vars)
    <2> SUFFICES ASSUME TypeOK, RotationInv, Bounded, [Next]_vars
                 PROVE  Rotating!Next \/ UNCHANGED Rotating!vars
      OBVIOUS
    <2>1. ASSUME NEW r \in Requests, Call(r) PROVE UNCHANGED Rotating!vars
      BY <2>1, CallRefines
    <2>2. ASSUME NEW r \in Requests, Step(r) PROVE Rotating!Next \/ UNCHANGED Rotating!vars
      BY <2>2, BystanderRefines, DeleteTokensRefines, FindUserRefines, StartRefines,
         SignRefines, PersistRefines, ConsumeRefines DEF Step
    <2>3. CASE \/ \E r \in Requests : Fail(r) \/ FailBranch(r)
               \/ Tick
               \/ Purge
               \/ UNCHANGED vars
      BY <2>3, OtherRefines
    <2> QED BY <2>1, <2>2, <2>3 DEF Next
  <1> QED BY <1>1, InitRefines, InvHolds, PTL DEF Spec, ImplementsRotation, Rotating!Spec
-----------------------------------------------------------------------------
(* Whose sessions, and for how long *)

\* A request that holds a token signed but not sent, and what clients were sent.
Signed(r) == req[r].pc \in {"persist", "touch", "respond"}
Hands(h) == \E j \in handed : j.hash = h
Opened(s) == s \in 1..Len(owner)

TokensInHand ==
    /\ \A j \in handed : j.hash \in 1..issued
    /\ \A r \in Requests : Signed(r) => req[r].hash \in 1..issued /\ ~ Hands(req[r].hash)
    /\ \A r, q \in Requests : Signed(r) /\ Signed(q) /\ req[r].hash = req[q].hash => r = q

\* What is presented was handed out; what consume missed once stays redeemed.
PresentsHeld(r) ==
    req[r].pc \in {"consume", "findReused"} =>
        /\ Hands(req[r].hash)
        /\ req[r].pc = "findReused" =>
              \A t \in refreshTokens : t.hash = req[r].hash => ~ Live(t)

\* Nobody can redeem a token before its client has it.
StoredAsSigned ==
    \A r \in Requests, t \in refreshTokens :
        req[r].pc \in {"touch", "respond"} /\ t.hash = req[r].hash =>
            Live(t) /\ t.sessionId = req[r].session /\ t.expiresAt = req[r].exp

\* So no other rotation of the session passes one that has yet to touch its row.
TouchIsDue ==
    \A r \in Requests : req[r].pc = "touch" =>
        /\ Opened(req[r].session)
        /\ \A q \in Requests : ~ Issuing(q, req[r].session)
        /\ \A t \in refreshTokens :
              Live(t) /\ t.sessionId = req[r].session => t.hash = req[r].hash

RowsFollowTokens ==
    \A t \in refreshTokens, s \in sessions :
        /\ Live(t) /\ s.id = t.sessionId
        /\ \/ Hands(t.hash)
           \/ \E r \in Requests : req[r].pc = "respond" /\ req[r].hash = t.hash
        => s.expiresAt = t.expiresAt

RowsHaveOwners ==
    /\ \A t \in refreshTokens : Opened(t.sessionId) /\ t.userId = owner[t.sessionId]
    /\ \A s \in sessions : Opened(s.id) /\ s.userId = owner[s.id]

\* A request rotates, and ends, sessions of the account it acts for.
ActsForOwner(r) ==
    /\ Issuer(r) => Opened(req[r].session) /\ req[r].user = owner[req[r].session]
    /\ req[r].pc \in {"consume", "findReused"} =>
          req[r].user = NoUser /\ req[r].op \in {"refresh", "logout"}
    /\ req[r].pc = "belongs" => req[r].op = "revokeSession"
    /\ req[r].pc = "revokeSession" =>
          /\ req[r].op # "changePassword"
          /\ Opened(req[r].session)
          /\ req[r].user \in {NoUser, owner[req[r].session]}

\* The targets of a revocation are within the filter of its deletes; once the
\* delete of the sessions has settled none of them is left.
Aims(r) ==
    /\ \A s \in req[r].targets : Opened(s)
    /\ req[r].pc = "revokeSession" => req[r].targets = {req[r].session}
    /\ req[r].pc = "revokeAll" => \A s \in req[r].targets : owner[s] = req[r].user
    /\ Revoking(r) /\ req[r].op # "none" /\ "sessions" \notin req[r].todo =>
          \A s \in sessions : s.id \notin req[r].targets

EndedAreGone ==
    \A s \in ended : Opened(s) /\ \A row \in sessions : row.id # s

SessionInv ==
    /\ TokensInHand /\ StoredAsSigned /\ TouchIsDue /\ RowsFollowTokens
    /\ RowsHaveOwners /\ EndedAreGone
    /\ \A r \in Requests : PresentsHeld(r) /\ ActsForOwner(r) /\ Aims(r)

\* Steps that only take rows away, and bring no request closer to a token.
Harmless ==
    /\ refreshTokens' \subseteq refreshTokens /\ sessions' \subseteq sessions
    /\ UNCHANGED <<issued, owner, handed>>
    /\ EndedAreGone'
    /\ \A q \in Requests :
          \/ req'[q] = req[q]
          \/ /\ Issuer(q)' => Issuer(q) /\ req'[q].session = req[q].session
             /\ ~ Signed(q)'
             /\ PresentsHeld(q)' /\ ActsForOwner(q)' /\ Aims(q)'

LEMMA HarmlessKeepsSessionInv ==
  ASSUME SessionInv, Harmless
  PROVE  SessionInv'
  <1> USE DEF Harmless, SessionInv
  <1>0. /\ \A h : Hands(h)' <=> Hands(h)
        /\ \A s : Opened(s)' <=> Opened(s)
        /\ \A q \in Requests : Signed(q)' => req'[q] = req[q]
        /\ \A q \in Requests : Issuer(q)' => Issuer(q) /\ req'[q].session = req[q].session
    BY DEF Hands, Opened, Issuer
  <1>1. TokensInHand'
    BY <1>0 DEF TokensInHand, Signed
  <1>2. StoredAsSigned'
    BY <1>0 DEF StoredAsSigned, Signed, Live
  <1>3. TouchIsDue'
    BY <1>0 DEF TouchIsDue, Signed, Issuing, Live
  <1>4. RowsFollowTokens'
    BY <1>0 DEF RowsFollowTokens, Signed, Live
  <1>5. RowsHaveOwners'
    BY <1>0 DEF RowsHaveOwners
  <1>6. ASSUME NEW q \in Requests PROVE PresentsHeld(q)' /\ ActsForOwner(q)' /\ Aims(q)'
    BY <1>0 DEF PresentsHeld, ActsForOwner, Aims, Issuer, Revoking, Live
  <1> QED BY <1>1, <1>2, <1>3, <1>4, <1>5, <1>6

\* What each way of moving on leaves in the record of a request.
SameCaller(r) == req'[r].op = req[r].op /\ req'[r].user = req[r].user
SameToken(r) ==
    /\ req'[r].session = req[r].session /\ req'[r].hash = req[r].hash
    /\ req'[r].exp = req[r].exp

LEMMA GotoIs ==
  ASSUME TypeOK, NEW r \in Requests, NEW l, Goto(r, l)
  PROVE  /\ OnlyMoves(r) /\ SameCaller(r) /\ SameToken(r)
         /\ req'[r].pc = l
         /\ req'[r].targets = req[r].targets /\ req'[r].todo = req[r].todo
  BY DEF TypeOK, Request, Goto, SameCaller, SameToken, OnlyMoves

LEMMA EndIs ==
  ASSUME TypeOK, NEW r \in Requests, End(r)
  PROVE  OnlyMoves(r) /\ req'[r] = Idle
  BY DEF TypeOK, End, OnlyMoves

LEMMA RevokeOneIs ==
  ASSUME TypeOK, NEW r \in Requests, NEW s, RevokeOne(r, s)
  PROVE  /\ OnlyMoves(r) /\ SameCaller(r)
         /\ req'[r].pc = "revokeSession" /\ req'[r].session = s
         /\ req'[r].targets = {s} /\ req'[r].todo = {"tokens", "sessions"}
  BY DEF TypeOK, Request, RevokeOne, SameCaller, OnlyMoves

LEMMA RevokeEveryIs ==
  ASSUME TypeOK, NEW r \in Requests, NEW u, NEW h, RevokeEvery(r, u, h)
  PROVE  /\ OnlyMoves(r)
         /\ req'[r].op = h /\ req'[r].user = u
         /\ req'[r].pc = "revokeAll"
         /\ req'[r].targets = SessionsOf(u) /\ req'[r].todo = {"tokens", "sessions"}
  BY DEF TypeOK, Request, RevokeEvery, OnlyMoves

\* A request that is idle, or that a step ends, is harmless.
LEMMA MoveIsHarmless ==
  ASSUME EndedAreGone', NEW r \in Requests, OnlyMoves(r),
         refreshTokens' \subseteq refreshTokens, sessions' \subseteq sessions,
         UNCHANGED <<issued, owner, handed>>,
         Issuer(r)' => Issuer(r) /\ req'[r].session = req[r].session,
         ~ Signed(r)',
         PresentsHeld(r)',
         ActsForOwner(r)', Aims(r)'
  PROVE  Harmless
  BY DEF Harmless, OnlyMoves

LEMMA EndIsHarmless ==
  ASSUME TypeOK, SessionInv, NEW r \in Requests, End(r), EndedAreGone',
         refreshTokens' \subseteq refreshTokens, sessions' \subseteq sessions,
         UNCHANGED <<issued, owner, handed>>
  PROVE  Harmless
  <1>1. OnlyMoves(r) /\ req'[r] = Idle
    BY EndIs
  <1>2. ~ Issuer(r)' /\ ~ Signed(r)' /\ PresentsHeld(r)' /\ ActsForOwner(r)' /\ Aims(r)'
    BY <1>1 DEF PresentsHeld, Idle, Issuer, Signed, ActsForOwner, Aims, Revoking
  <1> QED BY <1>1, <1>2, MoveIsHarmless DEF Idle

LEMMA EndedStaysGone ==
  ASSUME SessionInv, UNCHANGED <<owner, ended>>, sessions' \subseteq sessions
  PROVE  EndedAreGone'
  BY DEF SessionInv, EndedAreGone, Opened

LEMMA RevokeOneIsHarmless ==
  ASSUME TypeOK, SessionInv, NEW r \in Requests, NEW s, RevokeOne(r, s),
         Opened(s), req[r].user \in {NoUser, owner[s]}, req[r].op # "changePassword",
         UNCHANGED <<refreshTokens, sessions, issued, owner, handed, ended>>
  PROVE  Harmless
  <1>1. /\ OnlyMoves(r) /\ SameCaller(r)
        /\ req'[r].pc = "revokeSession" /\ req'[r].session = s
        /\ req'[r].targets = {s} /\ req'[r].todo = {"tokens", "sessions"}
    BY RevokeOneIs
  <1>2. ~ Issuer(r)' /\ ~ Signed(r)' /\ PresentsHeld(r)' /\ ActsForOwner(r)' /\ Aims(r)'
    BY <1>1 DEF PresentsHeld, Issuer, Signed, ActsForOwner, Aims, Revoking, SameCaller, Opened
  <1>3. EndedAreGone'
    BY EndedStaysGone
  <1> QED BY <1>1, <1>2, <1>3, MoveIsHarmless

LEMMA RevokeEveryIsHarmless ==
  ASSUME TypeOK, SessionInv, NEW r \in Requests, NEW u, NEW h, RevokeEvery(r, u, h),
         UNCHANGED <<refreshTokens, sessions, issued, owner, handed, ended>>
  PROVE  Harmless
  <1>1. /\ OnlyMoves(r)
        /\ req'[r].user = u /\ req'[r].pc = "revokeAll"
        /\ req'[r].targets = SessionsOf(u) /\ req'[r].todo = {"tokens", "sessions"}
    BY RevokeEveryIs
  <1>2. \A s \in SessionsOf(u) : Opened(s) /\ owner[s] = u
    BY DEF SessionsOf, Opened, TypeOK
  <1>3. ~ Issuer(r)' /\ ~ Signed(r)' /\ PresentsHeld(r)' /\ ActsForOwner(r)' /\ Aims(r)'
    BY <1>1, <1>2 DEF PresentsHeld, Issuer, Signed, ActsForOwner, Aims, Revoking, Opened
  <1>4. EndedAreGone'
    BY EndedStaysGone
  <1> QED BY <1>1, <1>3, <1>4, MoveIsHarmless

\* A call that begins at one of these awaits knows nothing yet that it could misuse.
LEMMA BeginIsHarmless ==
  ASSUME TypeOK, SessionInv, NEW r \in Requests, NEW v, req' = [req EXCEPT ![r] = v],
         v.pc \in {"start", "belongs", "dropUser", "consume"}, v.targets = {},
         v.pc = "consume" => v.user = NoUser /\ v.op \in {"refresh", "logout"} /\ Hands(v.hash),
         v.pc = "belongs" => v.op = "revokeSession",
         UNCHANGED <<store, issued, history>>
  PROVE  Harmless
  <1> USE DEF store, history
  <1>1. OnlyMoves(r) /\ req'[r] = v
    BY DEF TypeOK, OnlyMoves
  <1>2. ~ Issuer(r)' /\ ~ Signed(r)' /\ PresentsHeld(r)' /\ ActsForOwner(r)' /\ Aims(r)'
    BY <1>1 DEF PresentsHeld, Hands, Issuer, Signed, ActsForOwner, Aims, Revoking
  <1>3. EndedAreGone'
    BY EndedStaysGone
  <1> QED BY <1>1, <1>2, <1>3, MoveIsHarmless

LEMMA CallIsHarmless ==
  ASSUME TypeOK, SessionInv, NEW r \in Requests, Call(r)
  PROVE  Harmless
  <1>1. ASSUME NEW u \in Users, SignIn(r, u) PROVE Harmless
    <2> DEFINE v == [Idle EXCEPT !.op = "signIn", !.pc = "start", !.user = u]
    <2>1. v.pc = "start" /\ v.targets = {}
      BY DEF Idle
    <2>2. req' = [req EXCEPT ![r] = v] /\ UNCHANGED <<store, issued, history>>
      BY <1>1 DEF SignIn
    <2> HIDE DEF v
    <2> QED BY <2>1, <2>2, BeginIsHarmless
  <1>2. ASSUME NEW u \in Users, ChangePassword(r, u) \/ ResetPassword(r, u) PROVE Harmless
    BY <1>2, RevokeEveryIsHarmless DEF ChangePassword, ResetPassword, store, history
  <1>3. ASSUME NEW u \in Users, DeleteAccount(r, u) PROVE Harmless
    <2> DEFINE v == [Idle EXCEPT !.op = "deleteAccount", !.pc = "dropUser", !.user = u]
    <2>1. v.pc = "dropUser" /\ v.targets = {}
      BY DEF Idle
    <2>2. req' = [req EXCEPT ![r] = v] /\ UNCHANGED <<store, issued, history>>
      BY <1>3 DEF DeleteAccount
    <2> HIDE DEF v
    <2> QED BY <2>1, <2>2, BeginIsHarmless
  <1>4. ASSUME NEW u \in Users, NEW s \in DOMAIN owner, RevokeSession(r, u, s) PROVE Harmless
    <2> DEFINE v == [Idle EXCEPT !.op = "revokeSession", !.pc = "belongs", !.user = u,
                                 !.session = s]
    <2>1. v.pc = "belongs" /\ v.targets = {} /\ v.op = "revokeSession"
      BY DEF Idle
    <2>2. req' = [req EXCEPT ![r] = v] /\ UNCHANGED <<store, issued, history>>
      BY <1>4 DEF RevokeSession
    <2> HIDE DEF v
    <2> QED BY <2>1, <2>2, BeginIsHarmless
  <1>5. ASSUME NEW t \in handed, NEW h \in {"refresh", "logout"}, Present(r, t, h) PROVE Harmless
    <2> DEFINE v == [Idle EXCEPT !.op = h, !.pc = "consume", !.hash = t.hash]
    <2>1. v.pc = "consume" /\ v.targets = {} /\ v.user = NoUser /\ v.op = h /\ Hands(v.hash)
      BY DEF Idle, Hands
    <2>2. req' = [req EXCEPT ![r] = v] /\ UNCHANGED <<store, issued, history>>
      BY <1>5 DEF Present
    <2> HIDE DEF v
    <2> QED BY <2>1, <2>2, BeginIsHarmless
  <1> QED BY <1>1, <1>2, <1>3, <1>4, <1>5 DEF Call, Refresh, Logout

LEMMA FindReusedIsHarmless ==
  ASSUME TypeOK, SessionInv, NEW r \in Requests, FindReused(r)
  PROVE  Harmless
  <1>1. UNCHANGED <<refreshTokens, sessions, issued, owner, handed, ended>>
    BY DEF FindReused, store, history
  <1>2. req[r].user = NoUser /\ req[r].op # "changePassword"
    BY DEF FindReused, SessionInv, ActsForOwner
  <1>3. ASSUME NEW t \in refreshTokens, RevokeOne(r, t.sessionId) PROVE Harmless
    <2>1. Opened(t.sessionId)
      BY DEF SessionInv, RowsHaveOwners
    <2> QED BY <1>1, <1>2, <1>3, <2>1, RevokeOneIsHarmless
  <1>4. CASE End(r)
    BY <1>1, <1>4, EndIsHarmless, EndedStaysGone
  <1> QED BY <1>3, <1>4 DEF FindReused

LEMMA FindUserIsHarmless ==
  ASSUME TypeOK, SessionInv, NEW r \in Requests, FindUser(r)
  PROVE  Harmless
  <1>1. UNCHANGED <<refreshTokens, sessions, issued, owner, handed, ended>> /\ req[r].pc = "findUser"
    BY DEF FindUser, store, history
  <1>2. EndedAreGone'
    BY <1>1, EndedStaysGone
  <1>3. CASE End(r)
    BY <1>1, <1>2, <1>3, EndIsHarmless
  <1>4. CASE Goto(r, "sign")
    <2>1. /\ OnlyMoves(r) /\ SameCaller(r) /\ SameToken(r)
          /\ req'[r].pc = "sign"
          /\ req'[r].targets = req[r].targets
      BY <1>4, GotoIs
    <2>2. ~ Signed(r)' /\ Issuer(r) /\ ActsForOwner(r) /\ Aims(r)
      BY <1>1, <2>1 DEF Signed, Issuer, SessionInv
    <2>3. PresentsHeld(r)' /\ ActsForOwner(r)' /\ Aims(r)'
      BY <1>1, <2>1, <2>2
      DEF PresentsHeld, ActsForOwner, Issuer, SameCaller, SameToken, Aims, Revoking, Opened
    <2> QED BY <1>1, <1>2, <2>1, <2>2, <2>3, MoveIsHarmless DEF SameToken
  <1> QED BY <1>3, <1>4 DEF FindUser

LEMMA CheckOwnerIsHarmless ==
  ASSUME TypeOK, SessionInv, NEW r \in Requests, CheckOwner(r)
  PROVE  Harmless
  <1>1. UNCHANGED <<refreshTokens, sessions, issued, owner, handed, ended>>
    BY DEF CheckOwner, store, history
  <1>2. CASE End(r)
    BY <1>1, <1>2, EndIsHarmless, EndedStaysGone
  <1>3. CASE BelongsToUser(r) /\ RevokeOne(r, req[r].session)
    <2>1. Opened(req[r].session) /\ req[r].user = owner[req[r].session]
      BY <1>3 DEF BelongsToUser, SessionInv, RowsHaveOwners
    <2>2. req[r].op # "changePassword"
      BY DEF CheckOwner, SessionInv, ActsForOwner
    <2> QED BY <1>1, <1>3, <2>1, <2>2, RevokeOneIsHarmless
  <1> QED BY <1>2, <1>3 DEF CheckOwner

LEMMA DropUserIsHarmless ==
  ASSUME TypeOK, SessionInv, NEW r \in Requests, DropUser(r)
  PROVE  Harmless
  BY RevokeEveryIsHarmless DEF DropUser, history

LEMMA SettleIs ==
  ASSUME TypeOK, NEW r \in Requests, NEW b, Settle(r, b)
  PROVE  /\ OnlyMoves(r) /\ SameCaller(r) /\ SameToken(r)
         /\ req'[r].pc = req[r].pc /\ req'[r].targets = req[r].targets
         /\ req'[r].todo = req[r].todo \ {b}
  BY DEF TypeOK, Request, Settle, SameCaller, SameToken, OnlyMoves

\* A revocation goes on: what is left of its rows may shrink.
LEMMA RevokingIsHarmless ==
  ASSUME TypeOK, SessionInv, NEW r \in Requests, Revoking(r),
         OnlyMoves(r), SameToken(r), req'[r].pc = req[r].pc, req'[r].user = req[r].user,
         req'[r].op \in {"none", req[r].op},
         refreshTokens' \subseteq refreshTokens, sessions' \subseteq sessions,
         UNCHANGED <<issued, owner, handed, ended>>, Aims(r)'
  PROVE  Harmless
  <1>1. EndedAreGone'
    BY EndedStaysGone
  <1>2. ~ Issuer(r)' /\ ~ Signed(r)' /\ req'[r].pc \notin {"consume", "findReused"}
    BY DEF Issuer, Signed, Revoking
  <1>3. ActsForOwner(r)
    BY DEF SessionInv
  <1>4. PresentsHeld(r)' /\ ActsForOwner(r)'
    BY <1>2, <1>3 DEF PresentsHeld, ActsForOwner, Opened, SameToken, Revoking
  <1> QED BY <1>1, <1>2, <1>4, MoveIsHarmless

LEMMA DeleteTokensIsHarmless ==
  ASSUME TypeOK, SessionInv, NEW r \in Requests, DeleteTokens(r)
  PROVE  Harmless
  <1>1. /\ Revoking(r) /\ refreshTokens' \subseteq refreshTokens
        /\ UNCHANGED <<sessions, issued, owner, handed, ended>>
    BY DEF DeleteTokens, history
  <1>2. Aims(r)
    BY DEF SessionInv
  <1>3. CASE UNCHANGED req
    BY <1>1, <1>3, EndedStaysGone DEF Harmless
  <1>4. CASE Settle(r, "tokens")
    <2>1. Aims(r)'
      BY <1>1, <1>2, <1>4, SettleIs DEF Aims, Opened, SameCaller, SameToken, Revoking
    <2> QED BY <1>1, <1>4, <2>1, SettleIs, RevokingIsHarmless DEF SameCaller
  <1> QED BY <1>3, <1>4 DEF DeleteTokens

LEMMA DeleteSessionsIsHarmless ==
  ASSUME TypeOK, SessionInv, NEW r \in Requests, DeleteSessions(r)
  PROVE  Harmless
  <1>1. /\ Revoking(r) /\ "sessions" \in req[r].todo
        /\ UNCHANGED <<refreshTokens, issued, owner, handed, ended>>
    BY DEF DeleteSessions, history
  <1>2. Aims(r) /\ RowsHaveOwners
    BY DEF SessionInv
  <1>3. ASSUME NEW s \in DoomedSessions(r), sessions' = sessions \ {s},
               req' = [req EXCEPT ![r].targets = @ \cup {s.id}]
        PROVE  Harmless
    <2>1. /\ OnlyMoves(r) /\ SameCaller(r) /\ SameToken(r)
          /\ req'[r].pc = req[r].pc /\ req'[r].todo = req[r].todo
          /\ req'[r].targets = req[r].targets \cup {s.id}
      BY <1>3 DEF TypeOK, Request, SameCaller, SameToken, OnlyMoves
    <2>2. /\ Opened(s.id) /\ s.userId = owner[s.id]
          /\ req[r].pc = "revokeSession" => s.id = req[r].session
          /\ req[r].pc = "revokeAll" => s.userId = req[r].user
      BY <1>2, <1>3 DEF DoomedSessions, Covers, RowsHaveOwners
    <2>3. Aims(r)'
      BY <1>1, <1>2, <2>1, <2>2 DEF Aims, Opened, SameCaller, SameToken, Revoking
    <2> QED BY <1>1, <1>3, <2>1, <2>3, RevokingIsHarmless DEF SameCaller
  <1>4. CASE DoomedSessions(r) = {} /\ Settle(r, "sessions") /\ UNCHANGED sessions
    <2>1. \A s \in sessions : s.id \notin req[r].targets
      BY <1>1, <1>2, <1>4 DEF DoomedSessions, Covers, Aims, RowsHaveOwners, Revoking
    <2>2. Aims(r)'
      BY <1>1, <1>2, <1>4, <2>1, SettleIs DEF Aims, Opened, SameCaller, SameToken, Revoking
    <2> QED BY <1>1, <1>4, <2>2, SettleIs, RevokingIsHarmless DEF SameCaller
  <1> QED BY <1>3, <1>4 DEF DeleteSessions

LEMMA RevokedIsHarmless ==
  ASSUME TypeOK, SessionInv, NEW r \in Requests, Revoked(r)
  PROVE  Harmless
  <1>1. /\ Revoking(r) /\ req[r].todo = {}
        /\ UNCHANGED <<refreshTokens, sessions, issued, owner, handed>>
    BY DEF Revoked, store
  <1>2. Aims(r) /\ ActsForOwner(r) /\ EndedAreGone
    BY DEF SessionInv
  <1>3. EndedAreGone'
    BY <1>1, <1>2 DEF Revoked, EndedAreGone, Aims, Opened
  <1>4. CASE End(r)
    BY <1>1, <1>3, <1>4, EndIsHarmless
  <1>5. CASE Goto(r, "start")
    <2>1. OnlyMoves(r) /\ req'[r].pc = "start" /\ req'[r].targets = req[r].targets
      BY <1>5, GotoIs
    <2>2. ~ Issuer(r)' /\ ~ Signed(r)' /\ PresentsHeld(r)' /\ ActsForOwner(r)' /\ Aims(r)'
      BY <1>1, <1>2, <2>1 DEF PresentsHeld, Issuer, Signed, ActsForOwner, Aims, Revoking, Opened
    <2> QED BY <1>1, <1>3, <2>1, <2>2, MoveIsHarmless
  <1> QED BY <1>4, <1>5 DEF Revoked

LEMMA OtherIsHarmless ==
  ASSUME TypeOK, SessionInv,
         \/ \E r \in Requests : Fail(r) \/ FailBranch(r)
         \/ Tick
         \/ Purge
         \/ UNCHANGED vars
  PROVE  Harmless
  <1> USE DEF store, history
  <1>1. ASSUME NEW r \in Requests, Fail(r) PROVE Harmless
    BY <1>1, EndIsHarmless, EndedStaysGone DEF Fail
  <1>2. ASSUME NEW r \in Requests, FailBranch(r) PROVE Harmless
    <2>1. PICK b \in req[r].todo :
            req' = [req EXCEPT ![r] = [@ EXCEPT !.op = "none", !.todo = req[r].todo \ {b}]]
      BY <1>2 DEF FailBranch
    <2>2. /\ OnlyMoves(r) /\ SameToken(r)
          /\ req'[r].op = "none" /\ req'[r].user = req[r].user
          /\ req'[r].pc = req[r].pc /\ req'[r].targets = req[r].targets
      BY <2>1 DEF TypeOK, Request, SameToken, OnlyMoves
    <2>3. Revoking(r) /\ Aims(r)
      BY <1>2 DEF FailBranch, SessionInv
    <2>4. UNCHANGED <<refreshTokens, sessions, issued, owner, handed, ended>>
      BY <1>2 DEF FailBranch
    <2>5. Aims(r)'
      BY <2>2, <2>3, <2>4 DEF Aims, Opened, SameToken, Revoking
    <2> QED BY <2>2, <2>3, <2>4, <2>5, RevokingIsHarmless
  <1>3. CASE Tick
    BY <1>3, EndedStaysGone DEF Tick, Harmless
  <1>4. CASE Purge
    <2>1. /\ refreshTokens' \subseteq refreshTokens /\ sessions' \subseteq sessions
          /\ UNCHANGED <<req, issued, owner, handed, ended>>
      BY <1>4 DEF Purge
    <2> QED BY <2>1, EndedStaysGone DEF Harmless
  <1>5. CASE UNCHANGED vars
    BY <1>5, EndedStaysGone DEF vars, Harmless
  <1> QED BY <1>1, <1>2, <1>3, <1>4, <1>5

\* The steps that rotate: one lemma each.
LEMMA ConsumeKeepsSessionInv ==
  ASSUME TypeOK, RotationInv, SessionInv, NEW r \in Requests, Consume(r)
  PROVE  SessionInv'
  <1> USE DEF history
  <1>0. /\ req[r].pc = "consume" /\ UNCHANGED <<sessions, issued, owner, handed, ended>>
        /\ req[r].user = NoUser /\ Hands(req[r].hash) /\ Aims(r)
        /\ EndedAreGone'
    BY EndedStaysGone DEF Consume, SessionInv, ActsForOwner, PresentsHeld
  <1>1. CASE Goto(r, "findReused") /\ UNCHANGED refreshTokens
    <2>1. /\ OnlyMoves(r) /\ SameCaller(r) /\ SameToken(r)
          /\ req'[r].pc = "findReused" /\ req'[r].targets = req[r].targets
      BY <1>1, GotoIs
    <2>2. ActsForOwner(r)
      BY DEF SessionInv
    <2>0. \A t \in refreshTokens : t.hash = req[r].hash => ~ Live(t)
      <3>1. \A s : ~ RevokeOne(r, s)
        BY <2>1, RevokeOneIs
      <3>2. ASSUME NEW t, req' = [req EXCEPT ![r] = [@ EXCEPT !.pc = "findUser", !.hash = 0,
                                                           !.user = t.userId,
                                                           !.session = t.sessionId]]
            PROVE  FALSE
        <4>1. req'[r].pc = "findUser"
          BY <3>2 DEF TypeOK, Request
        <4> QED BY <2>1, <4>1
      <3> QED BY <3>1, <3>2 DEF Consume, Redeems
    <2>3. ~ Issuer(r)' /\ ~ Signed(r)' /\ PresentsHeld(r)' /\ ActsForOwner(r)' /\ Aims(r)'
      BY <1>0, <1>1, <2>0, <2>1, <2>2
         DEF PresentsHeld, Hands, Live, Issuer, Signed, ActsForOwner, Aims, Revoking, Opened, SameCaller, SameToken
    <2>4. Harmless
      BY <1>0, <1>1, <2>1, <2>3, MoveIsHarmless
    <2> QED BY <2>4, HarmlessKeepsSessionInv
  <1>2. CASE ~ (Goto(r, "findReused") /\ UNCHANGED refreshTokens)
    <2>1. PICK t \in refreshTokens :
            /\ t.hash = req[r].hash /\ Live(t)
            /\ MarkConsumed(t)
            /\ \/ /\ req[r].op = "refresh"
                  /\ req' = [req EXCEPT ![r] = [@ EXCEPT !.pc = "findUser", !.hash = 0,
                                                         !.user = t.userId,
                                                         !.session = t.sessionId]]
               \/ /\ req[r].op = "logout"
                  /\ RevokeOne(r, t.sessionId)
      BY <1>2 DEF Consume, Redeems
    <2> DEFINE spent == [t EXCEPT !.consumed = TRUE]
    <2>2. /\ refreshTokens' = (refreshTokens \ {t}) \cup {spent}
          /\ ~ Live(spent) /\ spent.hash = t.hash /\ spent.sessionId = t.sessionId
          /\ spent.userId = t.userId
      BY <2>1 DEF MarkConsumed, TypeOK, RefreshToken, Live
    <2> HIDE DEF spent
    <2>3. /\ OnlyMoves(r) /\ req'[r].session = t.sessionId
          /\ \/ /\ req'[r].pc = "findUser" /\ req'[r].user = t.userId
                /\ req'[r].targets = req[r].targets
             \/ /\ req'[r].pc = "revokeSession" /\ req'[r].user = NoUser
                /\ req'[r].op = "logout"
                /\ req'[r].targets = {t.sessionId} /\ req'[r].todo = {"tokens", "sessions"}
      <3>1. CASE req[r].op = "logout" /\ RevokeOne(r, t.sessionId)
        BY <1>0, <3>1, RevokeOneIs DEF SameCaller
      <3>2. CASE req' = [req EXCEPT ![r] = [@ EXCEPT !.pc = "findUser", !.hash = 0,
                                             !.user = t.userId, !.session = t.sessionId]]
        BY <3>2 DEF TypeOK, Request, OnlyMoves
      <3> QED BY <2>1, <3>1, <3>2
    <2>4. /\ ~ Signed(r)' /\ req'[r].pc \notin {"consume", "findReused", "touch", "respond"}
          /\ \A q \in Requests \ {r} : req'[q] = req[q]
          /\ \A q \in Requests : Signed(q)' => q # r
          /\ \A h : Hands(h)' <=> Hands(h)
          /\ \A s : Opened(s)' <=> Opened(s)
      BY <1>0, <2>3 DEF Signed, OnlyMoves, Hands, Opened
    <2>5. Opened(t.sessionId) /\ t.userId = owner[t.sessionId]
      BY DEF SessionInv, RowsHaveOwners
    <2> USE DEF SessionInv
    <2>6. TokensInHand'
      BY <1>0, <2>4 DEF TokensInHand, Signed
    <2>7. StoredAsSigned'
      <3>1. ASSUME NEW q \in Requests, req[q].pc \in {"touch", "respond"} PROVE req[q].hash # t.hash
        BY <1>0, <2>1, <3>1 DEF TokensInHand, Signed
      <3> QED BY <2>2, <2>4, <3>1 DEF StoredAsSigned, Live
    <2>8. TouchIsDue'
      <3>1. ASSUME NEW q \in Requests, req[q].pc = "touch" PROVE req[q].session # t.sessionId
        BY <1>0, <2>1, <3>1 DEF TouchIsDue, TokensInHand, Signed
      <3> QED BY <2>2, <2>3, <2>4, <3>1 DEF TouchIsDue, Issuing, Issuer, Live
    <2>9. RowsFollowTokens'
      BY <1>0, <2>2, <2>4 DEF RowsFollowTokens, Live
    <2>10. RowsHaveOwners'
      BY <1>0, <2>2, <2>4 DEF RowsHaveOwners
    <2>11. ASSUME NEW q \in Requests PROVE PresentsHeld(q)' /\ ActsForOwner(q)' /\ Aims(q)'
      <3>1. CASE q = r
        BY <1>0, <2>3, <2>4, <2>5, <3>1 DEF PresentsHeld, Live, ActsForOwner, Aims, Issuer, Revoking
      <3>2. CASE q # r
        BY <1>0, <2>2, <2>4, <3>2 DEF PresentsHeld, Live, ActsForOwner, Aims, Issuer, Revoking
      <3> QED BY <3>1, <3>2
    <2> QED BY <1>0, <2>6, <2>7, <2>8, <2>9, <2>10, <2>11
  <1> QED BY <1>1, <1>2

LEMMA StartKeepsSessionInv ==
  ASSUME TypeOK, RotationInv, SessionInv, NEW r \in Requests, Start(r)
  PROVE  SessionInv'
  <1>0. PICK s : s = Len(owner) + 1
    OBVIOUS
  <1>1. /\ UNCHANGED <<refreshTokens, issued, handed, ended>>
        /\ owner' = Append(owner, req[r].user) /\ req[r].pc = "start"
        /\ sessions' = sessions \cup
              {[id |-> s, userId |-> req[r].user, expiresAt |-> now + BootstrapTtl]}
    BY <1>0 DEF Start
  <1>2. /\ OnlyMoves(r) /\ SameCaller(r)
        /\ req'[r].pc = "sign" /\ req'[r].session = s /\ req'[r].targets = {}
    BY <1>0 DEF Start, TypeOK, Request, OnlyMoves, SameCaller
  <1>3. /\ \A q \in Requests \ {r} : req'[q] = req[q]
        /\ \A h : Hands(h)' <=> Hands(h)
        /\ \A x : Opened(x)' <=> Opened(x) \/ x = s
        /\ \A x : Opened(x) => x # s /\ owner'[x] = owner[x]
        /\ owner'[s] = req[r].user
    BY <1>0, <1>1, <1>2 DEF Hands, Opened, OnlyMoves, TypeOK
  <1> USE DEF SessionInv
  <1>4. TokensInHand'
    BY <1>1, <1>2, <1>3 DEF TokensInHand, Signed
  <1>5. StoredAsSigned'
    BY <1>1, <1>2, <1>3 DEF StoredAsSigned, Live
  <1>6. TouchIsDue'
    BY <1>1, <1>2, <1>3 DEF TouchIsDue, Issuing, Issuer, Live
  <1>7. RowsFollowTokens'
    BY <1>1, <1>2, <1>3 DEF RowsFollowTokens, RowsHaveOwners, Live
  <1>8. RowsHaveOwners'
    <2>1. ASSUME NEW t \in refreshTokens' PROVE Opened(t.sessionId)' /\ t.userId = owner'[t.sessionId]
      BY <1>1, <1>3 DEF RowsHaveOwners
    <2>2. ASSUME NEW row \in sessions PROVE Opened(row.id)' /\ row.userId = owner'[row.id]
      BY <1>3 DEF RowsHaveOwners
    <2> DEFINE row == [id |-> s, userId |-> req[r].user, expiresAt |-> now + BootstrapTtl]
    <2>3. row.id = s /\ row.userId = req[r].user /\ sessions' = sessions \cup {row}
      BY <1>1
    <2> HIDE DEF row
    <2> QED BY <1>3, <2>1, <2>2, <2>3 DEF RowsHaveOwners
  <1>9. EndedAreGone'
    BY <1>1, <1>3 DEF EndedAreGone
  <1>10. ASSUME NEW q \in Requests PROVE PresentsHeld(q)' /\ ActsForOwner(q)' /\ Aims(q)'
    <2>1. CASE q = r
      BY <1>1, <1>2, <1>3, <2>1 DEF PresentsHeld, Live, ActsForOwner, Aims, Issuer, Revoking, SameCaller
    <2>2. CASE q # r
      <3>1. PresentsHeld(q) /\ ActsForOwner(q) /\ Aims(q) /\ req'[q] = req[q]
        BY <1>3, <2>2
      <3>2. PresentsHeld(q)' /\ ActsForOwner(q)'
        <4>1. PresentsHeld(q)'
          BY <1>1, <1>3, <3>1 DEF PresentsHeld, Live
        <4>2. ActsForOwner(q)'
          BY <1>3, <3>1 DEF ActsForOwner, Issuer
        <4> QED BY <4>1, <4>2
      <3>3. Aims(q)'
        <4>1. \A x \in req[q].targets : Opened(x)' /\ x # s /\ owner'[x] = owner[x]
          BY <1>3, <3>1 DEF Aims
        <4>2. \A row \in sessions' : row \in sessions \/ row.id = s
          BY <1>1
        <4> QED BY <3>1, <4>1, <4>2 DEF Aims, Revoking
      <3> QED BY <3>2, <3>3
    <2> QED BY <2>1, <2>2
  <1> QED BY <1>4, <1>5, <1>6, <1>7, <1>8, <1>9, <1>10

LEMMA SignKeepsSessionInv ==
  ASSUME TypeOK, RotationInv, SessionInv, NEW r \in Requests, Sign(r)
  PROVE  SessionInv'
  <1>1. /\ UNCHANGED <<refreshTokens, sessions, owner, handed, ended>>
        /\ issued' = issued + 1 /\ req[r].pc = "sign" /\ issued \in Nat
    BY DEF Sign, store, history, TypeOK
  <1>2. /\ OnlyMoves(r) /\ SameCaller(r)
        /\ req'[r].pc = "persist" /\ req'[r].session = req[r].session
        /\ req'[r].hash = issued + 1 /\ req'[r].targets = req[r].targets
    BY DEF Sign, TypeOK, Request, OnlyMoves, SameCaller
  <1>3. /\ \A q \in Requests \ {r} : req'[q] = req[q]
        /\ \A h : Hands(h)' <=> Hands(h)
        /\ \A s : Opened(s)' <=> Opened(s)
    BY <1>1, <1>2 DEF Hands, Opened, OnlyMoves
  <1> USE DEF SessionInv
  <1>4. TokensInHand'
    <2>1. \A j \in handed : j.hash \in 1..issued' /\ j.hash # issued'
      BY <1>1 DEF TokensInHand
    <2>2. \A q \in Requests : Signed(q) => req[q].hash \in 1..issued' /\ req[q].hash # issued'
      BY <1>1 DEF TokensInHand
    <2>3. ~ Hands(issued') /\ issued' \in 1..issued'
      BY <1>1, <2>1 DEF Hands
    <2> QED BY <1>1, <1>2, <1>3, <2>1, <2>2, <2>3 DEF TokensInHand, Signed
  <1>5. StoredAsSigned'
    BY <1>1, <1>2, <1>3 DEF StoredAsSigned, Live
  <1>6. TouchIsDue'
    BY <1>1, <1>2, <1>3 DEF TouchIsDue, Issuing, Issuer, Live
  <1>7. RowsFollowTokens'
    BY <1>1, <1>2, <1>3 DEF RowsFollowTokens, Live
  <1>8. RowsHaveOwners'
    BY <1>1, <1>3 DEF RowsHaveOwners
  <1>9. EndedAreGone'
    BY <1>1, <1>3 DEF EndedAreGone
  <1>10. ASSUME NEW q \in Requests PROVE PresentsHeld(q)' /\ ActsForOwner(q)' /\ Aims(q)'
    <2>1. PresentsHeld(q) /\ ActsForOwner(q) /\ Aims(q)
      OBVIOUS
    <2>2. CASE q = r
      BY <1>1, <1>2, <1>3, <2>1, <2>2 DEF PresentsHeld, Live, ActsForOwner, Aims, Issuer, Revoking, SameCaller
    <2>3. CASE q # r
      BY <1>1, <1>3, <2>1, <2>3 DEF PresentsHeld, Live, ActsForOwner, Aims, Issuer, Revoking
    <2> QED BY <2>2, <2>3
  <1> QED BY <1>4, <1>5, <1>6, <1>7, <1>8, <1>9, <1>10

LEMMA PersistKeepsSessionInv ==
  ASSUME TypeOK, RotationInv, SessionInv, NEW r \in Requests, Persist(r)
  PROVE  SessionInv'
  <1>0. UNCHANGED <<sessions, issued, owner, handed, ended>> /\ req[r].pc = "persist" /\ EndedAreGone'
    BY EndedStaysGone DEF Persist, history
  <1>1. CASE End(r) /\ UNCHANGED refreshTokens
    BY <1>0, <1>1, EndIsHarmless, HarmlessKeepsSessionInv
  <1>2. CASE Goto(r, "touch") /\ ~ (End(r) /\ UNCHANGED refreshTokens)
    <2> DEFINE t == [hash |-> req[r].hash, userId |-> req[r].user, sessionId |-> req[r].session,
                     consumed |-> FALSE, expiresAt |-> req[r].exp]
    <2>1. refreshTokens' = refreshTokens \cup {t}
      BY <1>2 DEF Persist
    <2>2. /\ OnlyMoves(r) /\ SameCaller(r) /\ SameToken(r)
          /\ req'[r].pc = "touch" /\ req'[r].targets = req[r].targets
      BY <1>2, GotoIs
    <2>3. /\ \A q \in Requests \ {r} : req'[q] = req[q]
          /\ \A h : Hands(h)' <=> Hands(h)
          /\ \A s : Opened(s)' <=> Opened(s)
      BY <1>0, <2>2 DEF Hands, Opened, OnlyMoves
    <2>4. /\ Signed(r) /\ Issuer(r) /\ Opened(req[r].session)
          /\ req[r].user = owner[req[r].session]
          /\ ~ Hands(req[r].hash)
          /\ \A q \in Requests \ {r} : Signed(q) => req[q].hash # req[r].hash
          /\ \A q \in Requests \ {r} : ~ Issuing(q, req[r].session)
          /\ \A u \in refreshTokens : u.hash # req[r].hash
          /\ \A u \in refreshTokens : u.sessionId = req[r].session => ~ Live(u)
      BY <1>0 DEF Signed, Issuer, SessionInv, ActsForOwner, TokensInHand, RotationInv,
                  HashesAreUnique, OneIssuerPerSession
    <2> USE DEF SessionInv
    <2>5. TokensInHand'
      BY <1>0, <2>2, <2>3 DEF TokensInHand, Signed, SameToken
    <2>6. StoredAsSigned'
      <3>1. /\ t.hash = req[r].hash /\ t.sessionId = req[r].session
            /\ t.expiresAt = req[r].exp /\ ~ t.consumed
        OBVIOUS
      <3> HIDE DEF t
      <3> QED BY <2>1, <2>2, <2>3, <2>4, <3>1 DEF StoredAsSigned, Live, SameToken, Signed
    <2>7. TouchIsDue'
      <3>1. t.hash = req[r].hash /\ t.sessionId = req[r].session
        OBVIOUS
      <3> HIDE DEF t
      <3>2. ASSUME NEW q \in Requests, q # r, req[q].pc = "touch"
            PROVE  req[q].session # req[r].session
        BY <2>4, <3>2 DEF TouchIsDue, Issuing
      <3>4. ASSUME NEW q \in Requests, NEW s PROVE Issuing(q, s)' => Issuing(q, s)
        BY <2>2, <2>3 DEF Issuing, Issuer
      <3>5. PICK z : z = req[r].session
        OBVIOUS
      <3>6. \A q \in Requests : ~ Issuing(q, z)'
        BY <2>2, <2>4, <3>4, <3>5 DEF Issuing, Issuer
      <3>7. ASSUME NEW q \in Requests \ {r}, req[q].pc = "touch", NEW p \in Requests,
                   Issuer(p)', req'[p].session = req[q].session
            PROVE  FALSE
        BY <2>3, <3>4, <3>7 DEF TouchIsDue, Issuing
      <3>8. ASSUME NEW p \in Requests, Issuer(p)', req'[p].session = req[r].session
            PROVE  FALSE
        BY <3>5, <3>6, <3>8 DEF Issuing
      <3> QED BY <2>1, <2>2, <2>3, <2>4, <3>1, <3>2, <3>5, <3>7, <3>8
              DEF TouchIsDue, Issuing, Live, SameToken
    <2>8. RowsFollowTokens'
      <3>1. t.hash = req[r].hash
        OBVIOUS
      <3> HIDE DEF t
      <3> QED BY <1>0, <2>1, <2>2, <2>3, <2>4, <3>1 DEF RowsFollowTokens, Live, Signed
    <2>9. RowsHaveOwners'
      <3>1. t.userId = req[r].user /\ t.sessionId = req[r].session
        OBVIOUS
      <3> HIDE DEF t
      <3> QED BY <1>0, <2>1, <2>3, <2>4, <3>1 DEF RowsHaveOwners
    <2>10. ASSUME NEW q \in Requests PROVE PresentsHeld(q)' /\ ActsForOwner(q)' /\ Aims(q)'
      <3>1. PresentsHeld(q) /\ ActsForOwner(q) /\ Aims(q)
        OBVIOUS
      <3>2. CASE q = r
        BY <1>0, <2>2, <2>3, <3>1, <3>2
        DEF PresentsHeld, Live, ActsForOwner, Aims, Issuer, Revoking, SameCaller
      <3>3. CASE q # r
        <4>1. PresentsHeld(q)'
          <5>1. t.hash = req[r].hash
            OBVIOUS
          <5> HIDE DEF t
          <5> QED BY <2>1, <2>3, <2>4, <3>1, <3>3, <5>1 DEF PresentsHeld, Live
        <4>2. ActsForOwner(q)' /\ Aims(q)'
          BY <1>0, <2>3, <3>1, <3>3 DEF ActsForOwner, Aims, Issuer, Revoking
        <4> QED BY <4>1, <4>2
      <3> QED BY <3>2, <3>3
    <2> QED BY <1>0, <2>5, <2>6, <2>7, <2>8, <2>9, <2>10
  <1> QED BY <1>1, <1>2 DEF Persist

LEMMA TouchKeepsSessionInv ==
  ASSUME TypeOK, RotationInv, SessionInv, NEW r \in Requests, Touch(r)
  PROVE  SessionInv'
  <1>1. /\ UNCHANGED <<refreshTokens, issued, owner, handed, ended>> /\ req[r].pc = "touch"
        /\ sessions' = Touched(r)
    BY DEF Touch, history
  <1>2. /\ OnlyMoves(r) /\ SameCaller(r) /\ SameToken(r)
        /\ req'[r].pc = "respond" /\ req'[r].targets = req[r].targets
    BY GotoIs DEF Touch
  <1>3. /\ \A q \in Requests \ {r} : req'[q] = req[q]
        /\ \A h : Hands(h)' <=> Hands(h)
        /\ \A s : Opened(s)' <=> Opened(s)
    BY <1>1, <1>2 DEF Hands, Opened, OnlyMoves
  <1>4. ASSUME NEW row \in sessions'
        PROVE  \E s \in sessions :
                  /\ row.id = s.id /\ row.userId = s.userId
                  /\ row.id = req[r].session => row.expiresAt = req[r].exp
                  /\ row.id # req[r].session => row = s
    <2>1. PICK s \in sessions :
            row = IF s.id = req[r].session THEN [s EXCEPT !.expiresAt = req[r].exp] ELSE s
      BY <1>1 DEF Touched
    <2> QED BY <2>1 DEF TypeOK, Session
  <1> USE DEF SessionInv
  <1>5. TokensInHand'
    BY <1>1, <1>2, <1>3 DEF TokensInHand, Signed, SameToken
  <1>6. StoredAsSigned'
    BY <1>1, <1>2, <1>3 DEF StoredAsSigned, Live, SameToken
  <1>7. TouchIsDue'
    BY <1>1, <1>2, <1>3 DEF TouchIsDue, Issuing, Issuer, Live, SameToken
  <1>8. RowsFollowTokens'
    <2> SUFFICES ASSUME NEW t \in refreshTokens, NEW row \in sessions', Live(t), row.id = t.sessionId,
                        Hands(t.hash) \/ \E q \in Requests : req'[q].pc = "respond" /\ req'[q].hash = t.hash
                 PROVE  row.expiresAt = t.expiresAt
      BY <1>1, <1>3 DEF RowsFollowTokens, Live
    <2>1. CASE t.sessionId = req[r].session
      BY <1>1, <1>4, <2>1 DEF TouchIsDue, StoredAsSigned
    <2>2. CASE t.sessionId # req[r].session
      <3>1. row \in sessions
        BY <1>4, <2>2
      <3>2. Hands(t.hash) \/ \E q \in Requests : req[q].pc = "respond" /\ req[q].hash = t.hash
        BY <1>1, <1>2, <1>3, <2>2 DEF StoredAsSigned, SameToken
      <3> QED BY <3>1, <3>2 DEF RowsFollowTokens
    <2> QED BY <2>1, <2>2
  <1>9. RowsHaveOwners'
    BY <1>1, <1>3, <1>4 DEF RowsHaveOwners
  <1>10. EndedAreGone'
    BY <1>1, <1>3, <1>4 DEF EndedAreGone
  <1>11. ASSUME NEW q \in Requests PROVE PresentsHeld(q)' /\ ActsForOwner(q)' /\ Aims(q)'
    <2>1. PresentsHeld(q) /\ ActsForOwner(q) /\ Aims(q)
      OBVIOUS
    <2>2. CASE q = r
      BY <1>1, <1>2, <1>3, <2>1, <2>2 DEF PresentsHeld, Live, ActsForOwner, Aims, Issuer, Revoking, SameCaller
    <2>3. CASE q # r
      BY <1>1, <1>3, <1>4, <2>1, <2>3 DEF PresentsHeld, Live, ActsForOwner, Aims, Issuer, Revoking
    <2> QED BY <2>2, <2>3
  <1> QED BY <1>5, <1>6, <1>7, <1>8, <1>9, <1>10, <1>11

LEMMA RespondKeepsSessionInv ==
  ASSUME TypeOK, RotationInv, SessionInv, NEW r \in Requests, Respond(r)
  PROVE  SessionInv'
  <1>1. /\ UNCHANGED <<refreshTokens, sessions, issued, owner, ended>> /\ req[r].pc = "respond"
        /\ handed' = handed \cup {[hash |-> req[r].hash, exp |-> req[r].exp]}
    BY DEF Respond, store
  <1>2. OnlyMoves(r) /\ req'[r] = Idle
    BY EndIs DEF Respond
  <1>3. /\ \A q \in Requests \ {r} : req'[q] = req[q]
        /\ req'[r].pc = "idle" /\ req'[r].targets = {}
        /\ \A s : Opened(s)' <=> Opened(s)
    BY <1>1, <1>2 DEF Opened, OnlyMoves, Idle
  <1>0. \A h : Hands(h)' <=> Hands(h) \/ h = req[r].hash
    <2> DEFINE jwt == [hash |-> req[r].hash, exp |-> req[r].exp]
    <2>1. jwt.hash = req[r].hash /\ handed' = handed \cup {jwt}
      BY <1>1
    <2> HIDE DEF jwt
    <2> QED BY <2>1 DEF Hands
  <1> USE DEF SessionInv
  <1>4. TokensInHand'
    BY <1>0, <1>1, <1>3 DEF TokensInHand, Signed
  <1>5. StoredAsSigned'
    BY <1>0, <1>1, <1>3 DEF StoredAsSigned, Live
  <1>6. TouchIsDue'
    BY <1>1, <1>3 DEF TouchIsDue, Issuing, Issuer, Live
  <1>7. RowsFollowTokens'
    BY <1>0, <1>1, <1>3 DEF RowsFollowTokens, Live
  <1>8. RowsHaveOwners'
    BY <1>1, <1>3 DEF RowsHaveOwners
  <1>9. EndedAreGone'
    BY <1>1, <1>3 DEF EndedAreGone
  <1>10. ASSUME NEW q \in Requests PROVE PresentsHeld(q)' /\ ActsForOwner(q)' /\ Aims(q)'
    <2>1. PresentsHeld(q) /\ ActsForOwner(q) /\ Aims(q)
      OBVIOUS
    <2>2. CASE q = r
      BY <1>3, <2>2 DEF PresentsHeld, Live, ActsForOwner, Aims, Issuer, Revoking
    <2>3. CASE q # r
      BY <1>0, <1>1, <1>3, <2>1, <2>3 DEF PresentsHeld, Live, ActsForOwner, Aims, Issuer, Revoking
    <2> QED BY <2>2, <2>3
  <1> QED BY <1>4, <1>5, <1>6, <1>7, <1>8, <1>9, <1>10

LEMMA InitSessionInv == Init => SessionInv
  BY DEF Init, SessionInv, TokensInHand, StoredAsSigned, TouchIsDue, RowsFollowTokens,
         RowsHaveOwners, EndedAreGone, PresentsHeld, ActsForOwner, Aims, Idle, Signed, Issuer, Revoking

LEMMA NextKeepsSessionInv == TypeOK /\ RotationInv /\ SessionInv /\ [Next]_vars => SessionInv'
  <1> SUFFICES ASSUME TypeOK, RotationInv, SessionInv, [Next]_vars PROVE SessionInv'
    OBVIOUS
  <1>1. ASSUME NEW r \in Requests, Call(r) PROVE SessionInv'
    BY <1>1, CallIsHarmless, HarmlessKeepsSessionInv
  <1>2. ASSUME NEW r \in Requests, Step(r) PROVE SessionInv'
    <2>1. CASE Consume(r) \/ Start(r) \/ Sign(r) \/ Persist(r) \/ Touch(r) \/ Respond(r)
      BY <2>1, ConsumeKeepsSessionInv, StartKeepsSessionInv, SignKeepsSessionInv,
         PersistKeepsSessionInv, TouchKeepsSessionInv, RespondKeepsSessionInv
    <2>2. CASE FindReused(r) \/ FindUser(r) \/ CheckOwner(r) \/ DropUser(r)
               \/ DeleteTokens(r) \/ DeleteSessions(r) \/ Revoked(r)
      BY <2>2, FindReusedIsHarmless, FindUserIsHarmless, CheckOwnerIsHarmless,
         DropUserIsHarmless, DeleteTokensIsHarmless, DeleteSessionsIsHarmless,
         RevokedIsHarmless, HarmlessKeepsSessionInv
    <2> QED BY <1>2, <2>1, <2>2 DEF Step
  <1>3. CASE \/ \E r \in Requests : Fail(r) \/ FailBranch(r)
             \/ Tick
             \/ Purge
             \/ UNCHANGED vars
    BY <1>3, OtherIsHarmless, HarmlessKeepsSessionInv
  <1> QED BY <1>1, <1>2, <1>3 DEF Next

LEMMA SessionInvHolds == Spec => [](TypeOK /\ RotationInv /\ SessionInv)
  BY InitSessionInv, NextKeepsSessionInv, RotationInvHolds, PTL DEF Spec

\* consume reports theft only for a token that was redeemed before: whatever
\* happens between its two queries, no row with that hash is redeemable.
THEOREM AccusationSound == Spec => []ReuseAccusationIsSound
  <1>1. SessionInv => ReuseAccusationIsSound
    BY DEF SessionInv, PresentsHeld, ReuseAccusationIsSound
  <1> QED BY <1>1, SessionInvHolds, PTL

\* Once a client has a redeemable token, the session row carries its expiry.
THEOREM LivesAsLong == Spec => []SessionLivesAsLongAsItsToken
  <1>1. SessionInv => SessionLivesAsLongAsItsToken
    BY DEF SessionInv, RowsFollowTokens, Hands, SessionLivesAsLongAsItsToken
  <1> QED BY <1>1, SessionInvHolds, PTL

\* No revocation an account asked for deletes a row of another account.
THEOREM EndsOnlyOwn == Spec => []NobodyEndsAnothersSession
  <1>1. ASSUME TypeOK, SessionInv, NEW r \in Requests, Revoking(r), req[r].user # NoUser
        PROVE  /\ \A t \in DoomedTokens(r) : t.userId = req[r].user
               /\ \A s \in DoomedSessions(r) : s.userId = req[r].user
    <2>1. CASE req[r].pc = "revokeSession"
      <3>1. owner[req[r].session] = req[r].user
        BY <1>1, <2>1 DEF SessionInv, ActsForOwner
      <3> QED BY <1>1, <2>1, <3>1 DEF DoomedTokens, DoomedSessions, Covers, SessionInv, RowsHaveOwners
    <2>2. CASE req[r].pc = "revokeAll"
      BY <2>2 DEF DoomedTokens, DoomedSessions, Covers
    <2> QED BY <1>1, <2>1, <2>2 DEF Revoking
  <1>2. TypeOK /\ SessionInv => NobodyEndsAnothersSession
    BY <1>1 DEF NobodyEndsAnothersSession
  <1> QED BY <1>2, SessionInvHolds, PTL

\* A revocation that ran to its end leaves no row of its sessions, and nothing
\* brings one back.
THEOREM RevokedNeverListed == Spec => []RevokedSessionIsNeverListed
  <1>1. SessionInv => RevokedSessionIsNeverListed
    BY DEF SessionInv, EndedAreGone, RevokedSessionIsNeverListed, DeviceList
  <1> QED BY <1>1, SessionInvHolds, PTL

-----------------------------------------------------------------------------
(* An account that is gone gets no token *)

\* The handlers that act for an account without looking it up again.
Bound(r, u) == req[r].user = u /\ req[r].pc \in {"revokeAll", "start", "sign"}

LEMMA CallBindsExisting ==
  ASSUME TypeOK, NEW r \in Requests, Call(r), NEW u \in Users \ users,
         NEW q \in Requests, req'[q].user = u, req'[q].pc \in {"start", "sign"}
  PROVE  Bound(q, u)
  <1>1. CASE q # r
    BY <1>1, CallOnlyMoves DEF OnlyMoves, Bound
  <1>2. CASE q = r
    <2> USE <1>2
    <2>1. ASSUME NEW w \in Users, SignIn(r, w) PROVE FALSE
      BY <2>1 DEF SignIn, Idle, TypeOK
    <2>2. ASSUME NEW w \in Users, ChangePassword(r, w) \/ ResetPassword(r, w) PROVE FALSE
      BY <2>2, RevokeEveryIs DEF ChangePassword, ResetPassword
    <2>3. ASSUME NEW w \in Users, DeleteAccount(r, w) PROVE FALSE
      BY <2>3 DEF DeleteAccount, Idle, TypeOK
    <2>4. ASSUME NEW w \in Users, NEW s \in DOMAIN owner, RevokeSession(r, w, s) PROVE FALSE
      BY <2>4 DEF RevokeSession, Idle, TypeOK
    <2>5. ASSUME NEW t \in handed, NEW h \in {"refresh", "logout"}, Present(r, t, h) PROVE FALSE
      BY <2>5 DEF Present, Idle, TypeOK
    <2> QED BY <2>1, <2>2, <2>3, <2>4, <2>5 DEF Call, Refresh, Logout
  <1> QED BY <1>1, <1>2

LEMMA StepBindsExisting ==
  ASSUME TypeOK, SessionInv, NEW r \in Requests, Step(r), NEW u \in Users \ users,
         NEW q \in Requests, req'[q].user = u, req'[q].pc \in {"start", "sign"}
  PROVE  Bound(q, u)
  <1>1. CASE q # r
    BY <1>1, StepOnlyMoves DEF OnlyMoves, Bound
  <1>2. CASE q = r
    <2> USE <1>2
    <2>0. ~ End(r) /\ \A s : ~ RevokeOne(r, s)
      BY EndIs, RevokeOneIs DEF Idle
    <2>1. CASE Consume(r)
      <3>1. ASSUME NEW t, req' = [req EXCEPT ![r] = [@ EXCEPT !.pc = "findUser", !.hash = 0,
                                                           !.user = t.userId,
                                                           !.session = t.sessionId]]
            PROVE  FALSE
        <4>1. req'[r].pc = "findUser"
          BY <3>1 DEF TypeOK, Request
        <4> QED BY <4>1
      <3>2. ~ Goto(r, "findReused")
        BY GotoIs
      <3> QED BY <2>0, <2>1, <3>1, <3>2 DEF Consume
    <2>2. CASE FindReused(r)
      BY <2>0, <2>2 DEF FindReused
    <2>3. CASE FindUser(r)
      BY <2>0, <2>3, GotoIs DEF FindUser, SameCaller
    <2>4. CASE Start(r)
      BY <2>4 DEF Start, Bound, TypeOK, Request
    <2>5. CASE Sign(r)
      BY <2>5 DEF Sign, TypeOK, Request
    <2>6. CASE Persist(r) \/ Touch(r) \/ Respond(r)
      BY <2>0, <2>6, GotoIs DEF Persist, Touch, Respond
    <2>7. CASE CheckOwner(r) \/ DropUser(r)
      BY <2>0, <2>7, RevokeEveryIs DEF CheckOwner, DropUser
    <2>8. CASE DeleteTokens(r)
      BY <2>8, SettleIs DEF DeleteTokens, Revoking
    <2>9. CASE DeleteSessions(r)
      <3>1. req'[r].pc = req[r].pc
        BY <2>9, SettleIs DEF DeleteSessions, TypeOK, Request
      <3> QED BY <2>9, <3>1 DEF DeleteSessions, Revoking
    <2>10. CASE Revoked(r)
      <3>1. req[r].pc = "revokeAll"
        BY <2>0, <2>10 DEF Revoked, Revoking, SessionInv, ActsForOwner
      <3> QED BY <2>0, <2>10, <3>1, GotoIs DEF Revoked, Bound, SameCaller
    <2> QED BY <2>1, <2>2, <2>3, <2>4, <2>5, <2>6, <2>7, <2>8, <2>9, <2>10 DEF Step
  <1> QED BY <1>1, <1>2

\* Once an account is gone and the handlers that had found it are done, no
\* handler gets to sign a token for it.
THEOREM GoneGetsNothing == Spec => GoneUserGetsNoToken
  <1>1. ASSUME TypeOK, SessionInv, [Next]_vars, NEW u \in Users \ users,
               NEW q \in Requests, req'[q].user = u, req'[q].pc \in {"start", "sign"}
        PROVE  Bound(q, u)
    <2> USE <1>1
    <2>1. ASSUME NEW r \in Requests, Call(r) PROVE Bound(q, u)
      BY <2>1, CallBindsExisting
    <2>2. ASSUME NEW r \in Requests, Step(r) PROVE Bound(q, u)
      BY <2>2, StepBindsExisting
    <2>3. ASSUME NEW r \in Requests, Fail(r) PROVE Bound(q, u)
      BY <2>3, EndIs DEF Fail, OnlyMoves, Bound, Idle
    <2>4. ASSUME NEW r \in Requests, FailBranch(r) PROVE Bound(q, u)
      <3>1. PICK b \in req[r].todo :
              req' = [req EXCEPT ![r] = [@ EXCEPT !.op = "none", !.todo = req[r].todo \ {b}]]
        BY <2>4 DEF FailBranch
      <3>2. req'[q].pc = req[q].pc /\ req'[q].user = req[q].user
        BY <3>1 DEF TypeOK, Request
      <3> QED BY <3>2 DEF Bound
    <2>5. CASE Tick \/ Purge \/ UNCHANGED vars
      BY <2>5 DEF Tick, Purge, vars, Bound
    <2> QED BY <2>1, <2>2, <2>3, <2>4, <2>5 DEF Next
  <1>2. TypeOK /\ SessionInv /\ [Next]_vars =>
          \A u \in Users \ users :
            ~ (\E r \in Requests : req[r].user = u /\ req[r].pc \in {"revokeAll", "start", "sign"})
            => ~ (\E r \in Requests : req[r].user = u /\ req[r].pc \in {"start", "sign"})'
    BY <1>1 DEF Bound
  <1>3. TypeOK /\ SessionInv /\ [Next]_vars =>
          [\A u \in Users \ users :
            ~ (\E r \in Requests : req[r].user = u /\ req[r].pc \in {"revokeAll", "start", "sign"})
            => ~ (\E r \in Requests : req[r].user = u /\ req[r].pc \in {"start", "sign"})']_vars
    BY <1>2
  <1> QED BY <1>3, SessionInvHolds, PTL DEF Spec, GoneUserGetsNoToken

-----------------------------------------------------------------------------
(* Whoever can refresh is listed *)

\* As long as nothing fails half-way and the clock stands still while a request
\* is under way, every session with a token in the making or in a client's hands
\* has a row that outlasts this instant, or somebody is ending it or has.
Prompt == Slow = {} /\ Faulty = {}

Shown(s) ==
    \/ s \in ended
    \/ \E r \in Requests : s \in req[r].targets
    \/ \E row \in sessions : row.id = s /\ now < row.expiresAt

Timely(r) ==
    /\ req[r].pc \in {"findUser", "sign", "persist", "touch", "respond"} => Shown(req[r].session)
    /\ req[r].pc \in {"persist", "touch"} => now < req[r].exp
    /\ req[r].pc = "start" => req[r].targets \subseteq ended
    /\ req[r].pc \notin {"start", "revokeSession", "revokeAll"} => req[r].targets = {}
    /\ Revoking(r) => req[r].op # "none"
    /\ req[r].pc = "consume" => \E j \in handed : j.hash = req[r].hash /\ now < j.exp

HandsExpire == \A j \in handed, t \in refreshTokens : j.hash = t.hash => t.expiresAt = j.exp

UsableIsShown ==
    \A t \in refreshTokens :
        Live(t) /\ now < t.expiresAt /\ Hands(t.hash) => Shown(t.sessionId)

ListedInv == HandsExpire /\ UsableIsShown /\ \A r \in Requests : Timely(r)

\* What keeps a session shown: its row goes only to a revocation that then
\* covers it, and a revocation is over only when the session has ended.
KeepsShown ==
    /\ UNCHANGED now /\ ended \subseteq ended'
    /\ \A q \in Requests : req[q].targets \subseteq req'[q].targets \cup ended'
    /\ \A row \in sessions : now < row.expiresAt =>
          \/ \E s \in sessions' : s.id = row.id /\ now < s.expiresAt
          \/ \E q \in Requests : row.id \in req'[q].targets

LEMMA ShownStays ==
  ASSUME KeepsShown, NEW s, Shown(s)
  PROVE  Shown(s)'
  BY DEF KeepsShown, Shown

\* A step of one request that leaves alone what clients hold.
LEMMA MoveKeepsListedInv ==
  ASSUME ListedInv, KeepsShown, NEW r \in Requests, OnlyMoves(r), Timely(r)',
         refreshTokens' \subseteq refreshTokens, UNCHANGED handed
  PROVE  ListedInv'
  <1> USE DEF ListedInv
  <1>1. HandsExpire'
    BY DEF HandsExpire
  <1>2. UsableIsShown'
    BY ShownStays DEF UsableIsShown, Hands, Live, KeepsShown
  <1>3. ASSUME NEW q \in Requests \ {r} PROVE Timely(q)'
    <2>1. Timely(q) /\ req'[q] = req[q]
      BY DEF OnlyMoves
    <2>2. req[q].pc \in {"findUser", "sign", "persist", "touch", "respond"} => Shown(req[q].session)'
      BY <2>1, ShownStays DEF Timely
    <2> QED BY <2>1, <2>2 DEF Timely, KeepsShown, Revoking, Shown
  <1> QED BY <1>1, <1>2, <1>3

\* The rows and the ended sessions stay as they are.
LEMMA RequestKeepsListedInv ==
  ASSUME ListedInv, NEW r \in Requests, OnlyMoves(r), Timely(r)',
         req[r].targets \subseteq req'[r].targets \cup ended,
         refreshTokens' \subseteq refreshTokens, UNCHANGED <<now, sessions, handed, ended>>
  PROVE  ListedInv'
  <1>1. KeepsShown
    BY DEF KeepsShown, OnlyMoves
  <1> QED BY <1>1, MoveKeepsListedInv

LEMMA EndKeepsListedInv ==
  ASSUME TypeOK, ListedInv, NEW r \in Requests, End(r), ~ Revoking(r),
         refreshTokens' \subseteq refreshTokens, UNCHANGED <<now, sessions, handed, ended>>
  PROVE  ListedInv'
  <1>1. OnlyMoves(r) /\ req'[r] = Idle
    BY EndIs
  <1>2. Timely(r)'
    BY <1>1 DEF Timely, Idle, Revoking
  <1>3. req[r].targets \subseteq ended
    BY DEF ListedInv, Timely, Revoking
  <1> QED BY <1>1, <1>2, <1>3, RequestKeepsListedInv

LEMMA RevokeOneKeepsListedInv ==
  ASSUME TypeOK, ListedInv, NEW r \in Requests, NEW s, RevokeOne(r, s), req[r].op # "none",
         ~ Revoking(r), req[r].pc # "start",
         refreshTokens' \subseteq refreshTokens, UNCHANGED <<now, sessions, handed, ended>>
  PROVE  ListedInv'
  <1>1. /\ OnlyMoves(r) /\ SameCaller(r) /\ req'[r].pc = "revokeSession"
        /\ req[r].targets = {}
    BY RevokeOneIs DEF ListedInv, Timely, Revoking
  <1>2. Timely(r)'
    BY <1>1 DEF Timely, SameCaller
  <1> QED BY <1>1, <1>2, RequestKeepsListedInv

LEMMA RevokeEveryKeepsListedInv ==
  ASSUME TypeOK, ListedInv, NEW r \in Requests, NEW u, NEW h \in Handlers, RevokeEvery(r, u, h),
         ~ Revoking(r), req[r].pc # "start",
         UNCHANGED <<now, refreshTokens, sessions, handed, ended>>
  PROVE  ListedInv'
  <1>1. /\ OnlyMoves(r) /\ req'[r].op = h /\ req'[r].pc = "revokeAll"
        /\ req[r].targets = {}
    BY RevokeEveryIs DEF ListedInv, Timely, Revoking
  <1>2. Timely(r)'
    BY <1>1 DEF Timely, Handlers
  <1> QED BY <1>1, <1>2, RequestKeepsListedInv

LEMMA BeginKeepsListedInv ==
  ASSUME TypeOK, ListedInv, NEW r \in Requests, NEW v, req' = [req EXCEPT ![r] = v],
         req[r].pc = "idle", v.pc \in {"start", "belongs", "dropUser", "consume"}, v.targets = {},
         v.pc = "consume" => \E j \in handed : j.hash = v.hash /\ now < j.exp,
         UNCHANGED <<now, store, issued, history>>
  PROVE  ListedInv'
  <1> USE DEF store, history
  <1>1. OnlyMoves(r) /\ req'[r] = v
    BY DEF TypeOK, OnlyMoves
  <1>2. Timely(r)'
    BY <1>1 DEF Timely, Revoking
  <1>3. req[r].targets = {}
    BY DEF ListedInv, Timely
  <1> QED BY <1>1, <1>2, <1>3, RequestKeepsListedInv

LEMMA CallKeepsListedInv ==
  ASSUME TypeOK, ListedInv, NEW r \in Requests, Call(r)
  PROVE  ListedInv'
  <1> USE DEF Accepts
  <1>1. ASSUME NEW u \in Users, SignIn(r, u) PROVE ListedInv'
    <2> DEFINE v == [Idle EXCEPT !.op = "signIn", !.pc = "start", !.user = u]
    <2>1. v.pc = "start" /\ v.targets = {}
      BY DEF Idle
    <2>2. req' = [req EXCEPT ![r] = v] /\ UNCHANGED <<now, store, issued, history>> /\ req[r].pc = "idle"
      BY <1>1 DEF SignIn
    <2> HIDE DEF v
    <2> QED BY <2>1, <2>2, BeginKeepsListedInv
  <1>2. ASSUME NEW u \in Users, ChangePassword(r, u) \/ ResetPassword(r, u) PROVE ListedInv'
    BY <1>2, RevokeEveryKeepsListedInv
       DEF ChangePassword, ResetPassword, store, history, Handlers, Revoking
  <1>3. ASSUME NEW u \in Users, DeleteAccount(r, u) PROVE ListedInv'
    <2> DEFINE v == [Idle EXCEPT !.op = "deleteAccount", !.pc = "dropUser", !.user = u]
    <2>1. v.pc = "dropUser" /\ v.targets = {}
      BY DEF Idle
    <2>2. req' = [req EXCEPT ![r] = v] /\ UNCHANGED <<now, store, issued, history>> /\ req[r].pc = "idle"
      BY <1>3 DEF DeleteAccount
    <2> HIDE DEF v
    <2> QED BY <2>1, <2>2, BeginKeepsListedInv
  <1>4. ASSUME NEW u \in Users, NEW s \in DOMAIN owner, RevokeSession(r, u, s) PROVE ListedInv'
    <2> DEFINE v == [Idle EXCEPT !.op = "revokeSession", !.pc = "belongs", !.user = u,
                                 !.session = s]
    <2>1. v.pc = "belongs" /\ v.targets = {}
      BY DEF Idle
    <2>2. req' = [req EXCEPT ![r] = v] /\ UNCHANGED <<now, store, issued, history>> /\ req[r].pc = "idle"
      BY <1>4 DEF RevokeSession
    <2> HIDE DEF v
    <2> QED BY <2>1, <2>2, BeginKeepsListedInv
  <1>5. ASSUME NEW t \in handed, NEW h \in {"refresh", "logout"}, Present(r, t, h) PROVE ListedInv'
    <2> DEFINE v == [Idle EXCEPT !.op = h, !.pc = "consume", !.hash = t.hash]
    <2>1. v.pc = "consume" /\ v.targets = {} /\ v.hash = t.hash
      BY DEF Idle
    <2>2. /\ req' = [req EXCEPT ![r] = v] /\ UNCHANGED <<now, store, issued, history>>
          /\ req[r].pc = "idle" /\ now < t.exp
      BY <1>5 DEF Present
    <2> HIDE DEF v
    <2> QED BY <2>1, <2>2, BeginKeepsListedInv
  <1> QED BY <1>1, <1>2, <1>3, <1>4, <1>5 DEF Call, Refresh, Logout

LEMMA ConsumeKeepsListedInv ==
  ASSUME TypeOK, SessionInv, ListedInv, NEW r \in Requests, Consume(r)
  PROVE  ListedInv'
  <1>0. /\ req[r].pc = "consume" /\ req[r].op # "none" /\ req[r].targets = {}
        /\ UNCHANGED <<now, sessions, handed, ended>>
    BY DEF Consume, history, SessionInv, ActsForOwner, ListedInv, Timely
  <1>1. CASE Goto(r, "findReused") /\ UNCHANGED refreshTokens
    <2>1. OnlyMoves(r) /\ req'[r].pc = "findReused" /\ req'[r].targets = req[r].targets
      BY <1>1, GotoIs
    <2>2. Timely(r)'
      BY <1>0, <2>1 DEF Timely, Revoking
    <2> QED BY <1>0, <1>1, <2>1, <2>2, RequestKeepsListedInv
  <1>2. ASSUME NEW t \in refreshTokens, Redeems(r, t), MarkConsumed(t),
               \/ req' = [req EXCEPT ![r] = [@ EXCEPT !.pc = "findUser", !.hash = 0,
                                                      !.user = t.userId, !.session = t.sessionId]]
               \/ RevokeOne(r, t.sessionId)
        PROVE  ListedInv'
    <2> DEFINE spent == [t EXCEPT !.consumed = TRUE]
    <2>1. /\ refreshTokens' = (refreshTokens \ {t}) \cup {spent}
          /\ ~ Live(spent) /\ spent.hash = t.hash /\ spent.expiresAt = t.expiresAt
      BY <1>2 DEF MarkConsumed, TypeOK, RefreshToken, Live
    <2> HIDE DEF spent
    <2>2. PICK j \in handed : j.hash = t.hash /\ now < j.exp
      BY <1>0, <1>2 DEF ListedInv, Timely, Redeems
    <2>3. t.expiresAt = j.exp /\ Live(t) /\ Hands(t.hash)
      BY <1>2, <2>2 DEF ListedInv, HandsExpire, Redeems, Hands
    <2>4. Shown(t.sessionId)
      BY <2>2, <2>3 DEF ListedInv, UsableIsShown
    <2>5. /\ OnlyMoves(r) /\ req'[r].session = t.sessionId
          /\ \/ req'[r].pc = "findUser" /\ req'[r].targets = {}
             \/ req'[r].pc = "revokeSession" /\ req'[r].op # "none"
      <3>1. CASE RevokeOne(r, t.sessionId)
        BY <1>0, <3>1, RevokeOneIs DEF SameCaller
      <3>2. CASE req' = [req EXCEPT ![r] = [@ EXCEPT !.pc = "findUser", !.hash = 0,
                                             !.user = t.userId, !.session = t.sessionId]]
        BY <1>0, <3>2 DEF TypeOK, Request, OnlyMoves
      <3> QED BY <1>2, <3>1, <3>2
    <2>6. KeepsShown
      BY <1>0, <2>5 DEF KeepsShown, OnlyMoves
    <2>7. Timely(r)'
      BY <2>4, <2>5, <2>6, ShownStays DEF Timely, Revoking
    <2>8. ASSUME NEW q \in Requests \ {r} PROVE Timely(q)'
      <3>1. Timely(q) /\ req'[q] = req[q]
        BY <2>5 DEF OnlyMoves, ListedInv
      <3>2. req[q].pc \in {"findUser", "sign", "persist", "touch", "respond"} =>
              Shown(req[q].session)'
        BY <2>6, <3>1, ShownStays DEF Timely
      <3> QED BY <1>0, <3>1, <3>2 DEF Timely, Revoking, Shown
    <2>9. HandsExpire'
      BY <1>0, <2>1 DEF ListedInv, HandsExpire
    <2>10. UsableIsShown'
      BY <1>0, <2>1, <2>6, ShownStays DEF ListedInv, UsableIsShown, Hands, Live
    <2> QED BY <2>7, <2>8, <2>9, <2>10 DEF ListedInv
  <1> QED BY <1>1, <1>2 DEF Consume

\* Steps that send no token: what they leave in the record is still timely.
LEMMA QueriesKeepListedInv ==
  ASSUME TypeOK, SessionInv, ListedInv, NEW r \in Requests,
         FindReused(r) \/ FindUser(r) \/ CheckOwner(r) \/ DropUser(r)
  PROVE  ListedInv'
  <1>1. UNCHANGED <<now, refreshTokens, sessions, handed, ended>>
    BY DEF FindReused, FindUser, CheckOwner, DropUser, store, history
  <1>2. ~ Revoking(r) /\ req[r].pc # "start" /\ Timely(r)
    BY DEF FindReused, FindUser, CheckOwner, DropUser, Revoking, ListedInv
  <1>3. CASE End(r)
    BY <1>1, <1>2, <1>3, EndKeepsListedInv
  <1>4. ASSUME NEW s, RevokeOne(r, s), req[r].pc \in {"findReused", "belongs"} PROVE ListedInv'
    <2>1. req[r].op # "none"
      BY <1>4 DEF SessionInv, ActsForOwner
    <2> QED BY <1>1, <1>2, <1>4, <2>1, RevokeOneKeepsListedInv
  <1>5. CASE DropUser(r)
    BY <1>1, <1>2, <1>5, RevokeEveryKeepsListedInv DEF DropUser, Handlers
  <1>6. CASE FindUser(r) /\ Goto(r, "sign")
    <2>1. /\ OnlyMoves(r) /\ SameToken(r) /\ req'[r].pc = "sign"
          /\ req'[r].targets = req[r].targets
      BY <1>6, GotoIs
    <2>2. KeepsShown
      BY <1>1, <2>1 DEF KeepsShown, OnlyMoves
    <2>3. Shown(req[r].session) /\ req[r].targets = {}
      BY <1>2, <1>6 DEF FindUser, Timely
    <2>4. Timely(r)'
      BY <2>1, <2>2, <2>3, ShownStays DEF Timely, Revoking, SameToken
    <2> QED BY <1>1, <2>1, <2>2, <2>4, MoveKeepsListedInv
  <1> QED BY <1>3, <1>4, <1>5, <1>6 DEF FindReused, FindUser, CheckOwner

LEMMA StartKeepsListedInv ==
  ASSUME TypeOK, ListedInv, NEW r \in Requests, Start(r)
  PROVE  ListedInv'
  <1> DEFINE row == [id |-> Len(owner) + 1, userId |-> req[r].user, expiresAt |-> now + BootstrapTtl]
  <1>1. /\ req[r].pc = "start" /\ sessions' = sessions \cup {row}
        /\ UNCHANGED <<now, refreshTokens, handed, ended>>
    BY DEF Start
  <1>2. /\ OnlyMoves(r) /\ req'[r].pc = "sign" /\ req'[r].targets = {}
        /\ req'[r].session = Len(owner) + 1
    BY DEF Start, TypeOK, Request, OnlyMoves
  <1>3. row.id = Len(owner) + 1 /\ now < row.expiresAt
    BY DeviceSessionsAssumption DEF TypeOK
  <1> HIDE DEF row
  <1>4. KeepsShown
    BY <1>1, <1>2 DEF KeepsShown, OnlyMoves, ListedInv, Timely
  <1>5. Timely(r)'
    BY <1>1, <1>2, <1>3 DEF Timely, Revoking, Shown
  <1> QED BY <1>1, <1>2, <1>4, <1>5, MoveKeepsListedInv

LEMMA SignKeepsListedInv ==
  ASSUME TypeOK, ListedInv, NEW r \in Requests, Sign(r)
  PROVE  ListedInv'
  <1>1. /\ UNCHANGED <<now, refreshTokens, sessions, handed, ended>>
        /\ Shown(req[r].session) /\ req[r].targets = {}
    BY DEF Sign, store, history, ListedInv, Timely
  <1>2. /\ OnlyMoves(r) /\ req'[r].pc = "persist" /\ req'[r].session = req[r].session
        /\ req'[r].targets = req[r].targets /\ req'[r].exp = now + Lifetime
    BY DEF Sign, TypeOK, Request, OnlyMoves
  <1>3. now < req'[r].exp
    BY <1>2, DeviceSessionsAssumption DEF TypeOK
  <1>4. KeepsShown
    BY <1>1, <1>2 DEF KeepsShown, OnlyMoves
  <1>5. Timely(r)'
    BY <1>1, <1>2, <1>3, <1>4, ShownStays DEF Timely, Revoking
  <1> QED BY <1>1, <1>2, <1>4, <1>5, MoveKeepsListedInv

LEMMA PersistKeepsListedInv ==
  ASSUME TypeOK, SessionInv, ListedInv, NEW r \in Requests, Persist(r)
  PROVE  ListedInv'
  <1> DEFINE t == [hash |-> req[r].hash, userId |-> req[r].user, sessionId |-> req[r].session,
                   consumed |-> FALSE, expiresAt |-> req[r].exp]
  <1>1. /\ req[r].pc = "persist" /\ Shown(req[r].session) /\ req[r].targets = {}
        /\ now < req[r].exp
        /\ UNCHANGED <<now, sessions, handed, ended>>
    BY DEF Persist, history, ListedInv, Timely
  <1>2. refreshTokens' = refreshTokens \cup {t} /\ Goto(r, "touch")
    BY <1>1, DeviceSessionsAssumption DEF Persist, TypeOK, Request
  <1>3. /\ OnlyMoves(r) /\ SameToken(r) /\ req'[r].pc = "touch"
        /\ req'[r].targets = req[r].targets
    BY <1>2, GotoIs
  <1>4. t.hash = req[r].hash /\ ~ Hands(req[r].hash)
    BY <1>1 DEF SessionInv, TokensInHand, Signed
  <1> HIDE DEF t
  <1>5. KeepsShown
    BY <1>1, <1>3 DEF KeepsShown, OnlyMoves
  <1>6. ASSUME NEW q \in Requests PROVE Timely(q)'
    <2>1. CASE q = r
      BY <1>1, <1>3, <1>5, <2>1, ShownStays DEF Timely, Revoking, SameToken
    <2>2. CASE q # r
      <3>1. Timely(q) /\ req'[q] = req[q]
        BY <1>3, <2>2 DEF OnlyMoves, ListedInv
      <3>2. req[q].pc \in {"findUser", "sign", "persist", "touch", "respond"} =>
              Shown(req[q].session)'
        BY <1>5, <3>1, ShownStays DEF Timely
      <3> QED BY <1>1, <3>1, <3>2 DEF Timely, Revoking
    <2> QED BY <2>1, <2>2
  <1>7. HandsExpire'
    BY <1>1, <1>2, <1>4 DEF ListedInv, HandsExpire, Hands
  <1>8. UsableIsShown'
    BY <1>1, <1>2, <1>4, <1>5, ShownStays DEF ListedInv, UsableIsShown, Hands, Live
  <1> QED BY <1>6, <1>7, <1>8 DEF ListedInv

LEMMA TouchKeepsListedInv ==
  ASSUME TypeOK, ListedInv, NEW r \in Requests, Touch(r)
  PROVE  ListedInv'
  <1>1. /\ req[r].pc = "touch" /\ Shown(req[r].session) /\ req[r].targets = {}
        /\ now < req[r].exp /\ sessions' = Touched(r)
        /\ UNCHANGED <<now, refreshTokens, handed, ended>>
    BY DEF Touch, history, ListedInv, Timely
  <1>2. /\ OnlyMoves(r) /\ SameToken(r) /\ req'[r].pc = "respond"
        /\ req'[r].targets = req[r].targets
    BY GotoIs DEF Touch
  <1>3. ASSUME NEW row \in sessions, now < row.expiresAt
        PROVE  \E s \in sessions' : s.id = row.id /\ now < s.expiresAt
    <2> DEFINE s == IF row.id = req[r].session THEN [row EXCEPT !.expiresAt = req[r].exp] ELSE row
    <2>1. s \in sessions'
      BY <1>1 DEF Touched
    <2>2. s.id = row.id /\ now < s.expiresAt
      BY <1>1, <1>3 DEF TypeOK, Session
    <2> QED BY <2>1, <2>2
  <1>4. KeepsShown
    BY <1>1, <1>2, <1>3 DEF KeepsShown, OnlyMoves
  <1>5. Timely(r)'
    BY <1>1, <1>2, <1>4, ShownStays DEF Timely, Revoking, SameToken
  <1> QED BY <1>1, <1>2, <1>4, <1>5, MoveKeepsListedInv

LEMMA RespondKeepsListedInv ==
  ASSUME TypeOK, SessionInv, ListedInv, NEW r \in Requests, Respond(r)
  PROVE  ListedInv'
  <1> DEFINE jwt == [hash |-> req[r].hash, exp |-> req[r].exp]
  <1>1. /\ req[r].pc = "respond" /\ Shown(req[r].session) /\ req[r].targets = {}
        /\ handed' = handed \cup {jwt}
        /\ UNCHANGED <<now, refreshTokens, sessions, ended>>
    BY DEF Respond, store, ListedInv, Timely
  <1>2. OnlyMoves(r) /\ req'[r] = Idle
    BY EndIs DEF Respond
  <1>3. jwt.hash = req[r].hash /\ jwt.exp = req[r].exp
    OBVIOUS
  <1> HIDE DEF jwt
  <1>4. KeepsShown
    BY <1>1, <1>2 DEF KeepsShown, OnlyMoves
  <1>5. \A t \in refreshTokens : t.hash = req[r].hash =>
          t.sessionId = req[r].session /\ t.expiresAt = req[r].exp
    BY <1>1 DEF SessionInv, StoredAsSigned
  <1>6. ASSUME NEW q \in Requests PROVE Timely(q)'
    <2>1. CASE q = r
      BY <1>2, <2>1 DEF Timely, Revoking, Idle
    <2>2. CASE q # r
      <3>1. Timely(q) /\ req'[q] = req[q]
        BY <1>2, <2>2 DEF OnlyMoves, ListedInv
      <3>2. req[q].pc \in {"findUser", "sign", "persist", "touch", "respond"} =>
              Shown(req[q].session)'
        BY <1>4, <3>1, ShownStays DEF Timely
      <3> QED BY <1>1, <3>1, <3>2 DEF Timely, Revoking
    <2> QED BY <2>1, <2>2
  <1>7. HandsExpire'
    BY <1>1, <1>3, <1>5 DEF ListedInv, HandsExpire
  <1>8. UsableIsShown'
    BY <1>1, <1>3, <1>4, <1>5, ShownStays DEF ListedInv, UsableIsShown, Hands, Live
  <1> QED BY <1>6, <1>7, <1>8 DEF ListedInv

LEMMA RevocationKeepsListedInv ==
  ASSUME TypeOK, SessionInv, ListedInv, NEW r \in Requests,
         DeleteTokens(r) \/ DeleteSessions(r) \/ Revoked(r)
  PROVE  ListedInv'
  <1>0. Revoking(r) /\ req[r].op # "none"
    BY DEF DeleteTokens, DeleteSessions, Revoked, ListedInv, Timely
  <1>1. ASSUME NEW b, Settle(r, b), UNCHANGED <<now, refreshTokens, sessions, handed, ended>>
        PROVE  ListedInv'
    <2>1. Timely(r)'
      BY <1>0, <1>1, SettleIs DEF Timely, Revoking, SameCaller
    <2> QED BY <1>1, <2>1, SettleIs, RequestKeepsListedInv
  <1>2. CASE DeleteTokens(r)
    <2>1. CASE UNCHANGED req
      <3>1. OnlyMoves(r) /\ Timely(r)'
        BY <1>0, <2>1 DEF OnlyMoves, ListedInv, Timely, Revoking
      <3>2. /\ refreshTokens' \subseteq refreshTokens
            /\ UNCHANGED <<now, sessions, handed, ended>>
        BY <1>2 DEF DeleteTokens, history
      <3> QED BY <2>1, <3>1, <3>2, RequestKeepsListedInv
    <2> QED BY <1>1, <1>2, <2>1 DEF DeleteTokens, history
  <1>3. CASE DeleteSessions(r)
    <2>1. ASSUME NEW s \in DoomedSessions(r), sessions' = sessions \ {s},
                 req' = [req EXCEPT ![r].targets = @ \cup {s.id}]
          PROVE  ListedInv'
      <3>1. UNCHANGED <<now, refreshTokens, handed, ended>>
        BY <1>3 DEF DeleteSessions, history
      <3>2. /\ OnlyMoves(r) /\ req'[r].pc = req[r].pc /\ req'[r].op = req[r].op
            /\ req'[r].targets = req[r].targets \cup {s.id}
        BY <2>1 DEF TypeOK, Request, OnlyMoves
      <3>3. KeepsShown
        BY <2>1, <3>1, <3>2 DEF KeepsShown, OnlyMoves
      <3>4. Timely(r)'
        BY <1>0, <3>2 DEF Timely, Revoking
      <3> QED BY <3>1, <3>2, <3>3, <3>4, MoveKeepsListedInv
    <2> QED BY <1>1, <1>3, <2>1 DEF DeleteSessions, history
  <1>4. CASE Revoked(r)
    <2>1. ended' = ended \cup req[r].targets /\ UNCHANGED <<now, refreshTokens, sessions, handed>>
      BY <1>0, <1>4 DEF Revoked, store
    <2>2. OnlyMoves(r) /\ Timely(r)'
      <3>1. CASE End(r)
        BY <3>1, EndIs DEF Timely, Idle, Revoking
      <3>2. CASE Goto(r, "start")
        BY <2>1, <3>2, GotoIs DEF Timely, Revoking
      <3> QED BY <1>4, <3>1, <3>2 DEF Revoked
    <2>3. KeepsShown
      BY <2>1, <2>2 DEF KeepsShown, OnlyMoves
    <2> QED BY <2>1, <2>2, <2>3, MoveKeepsListedInv
  <1> QED BY <1>2, <1>3, <1>4

\* The clock moves only between requests, and the TTL monitor takes only rows
\* that are not shown any more.
LEMMA OtherKeepsListedInv ==
  ASSUME Prompt, TypeOK, SessionInv, ListedInv,
         \/ \E r \in Requests : Fail(r) \/ FailBranch(r)
         \/ Tick
         \/ Purge
         \/ UNCHANGED vars
  PROVE  ListedInv'
  <1> USE DEF ListedInv
  <1>1. CASE Tick
    <2>1. /\ UNCHANGED <<refreshTokens, sessions, req, handed, ended>>
          /\ \A q \in Requests : req[q].pc = "idle"
      BY <1>1 DEF Tick, store, history, Prompt
    <2>2. ASSUME NEW q \in Requests PROVE Timely(q)' /\ req[q].targets = {}
      BY <2>1 DEF Timely, Revoking
    <2>3. HandsExpire'
      BY <2>1 DEF HandsExpire
    <2>4. ASSUME NEW t \in refreshTokens, Live(t), now' < t.expiresAt, Hands(t.hash)
          PROVE  Shown(t.sessionId)'
      <3>1. now < t.expiresAt
        BY <1>1, <2>4 DEF Tick, TypeOK, RefreshToken
      <3>2. Shown(t.sessionId)
        BY <2>4, <3>1 DEF UsableIsShown
      <3>3. ASSUME NEW row \in sessions, row.id = t.sessionId PROVE now' < row.expiresAt
        BY <2>4, <3>3 DEF SessionInv, RowsFollowTokens
      <3> QED BY <2>1, <2>2, <3>2, <3>3 DEF Shown
    <2>5. UsableIsShown'
      BY <2>1, <2>4 DEF UsableIsShown, Hands, Live
    <2> QED BY <2>2, <2>3, <2>5
  <1>2. CASE Purge \/ UNCHANGED vars
    <2>1. /\ UNCHANGED <<now, req, handed, ended>> /\ refreshTokens' \subseteq refreshTokens
          /\ \A row \in sessions : row \in sessions' \/ row.expiresAt <= now
      <3>1. CASE Purge
        BY <3>1 DEF Purge, history
      <3>2. CASE UNCHANGED vars
        BY <3>2 DEF vars
      <3> QED BY <1>2, <3>1, <3>2
    <2>2. ASSUME NEW row \in sessions, now < row.expiresAt PROVE row \in sessions'
      BY <2>1, <2>2 DEF TypeOK, Session
    <2>3. KeepsShown
      BY <2>1, <2>2 DEF KeepsShown
    <2>4. ASSUME NEW q \in Requests PROVE Timely(q)'
      <3>1. Timely(q) /\ req'[q] = req[q]
        BY <2>1
      <3>2. req[q].pc \in {"findUser", "sign", "persist", "touch", "respond"} =>
              Shown(req[q].session)'
        BY <2>3, <3>1, ShownStays DEF Timely
      <3> QED BY <2>1, <3>1, <3>2 DEF Timely, Revoking
    <2>5. HandsExpire'
      BY <2>1 DEF HandsExpire
    <2>6. UsableIsShown'
      BY <2>1, <2>3, ShownStays DEF UsableIsShown, Hands, Live
    <2> QED BY <2>4, <2>5, <2>6
  <1> QED BY <1>1, <1>2 DEF Fail, FailBranch, Prompt

LEMMA ListedInvHolds == Prompt => (Spec => [](TypeOK /\ SessionInv /\ ListedInv))
  <1> SUFFICES ASSUME Prompt PROVE Spec => [](TypeOK /\ SessionInv /\ ListedInv)
    OBVIOUS
  <1>1. Init => ListedInv
    BY DEF Init, ListedInv, HandsExpire, UsableIsShown, Timely, Idle, Revoking
  <1>2. TypeOK /\ SessionInv /\ ListedInv /\ [Next]_vars => ListedInv'
    <2> SUFFICES ASSUME TypeOK, SessionInv, ListedInv, [Next]_vars PROVE ListedInv'
      OBVIOUS
    <2>1. ASSUME NEW r \in Requests, Call(r) PROVE ListedInv'
      BY <2>1, CallKeepsListedInv
    <2>2. ASSUME NEW r \in Requests, Step(r) PROVE ListedInv'
      BY <2>2, ConsumeKeepsListedInv, QueriesKeepListedInv, StartKeepsListedInv,
         SignKeepsListedInv, PersistKeepsListedInv, TouchKeepsListedInv,
         RespondKeepsListedInv, RevocationKeepsListedInv DEF Step
    <2>3. CASE \/ \E r \in Requests : Fail(r) \/ FailBranch(r)
               \/ Tick
               \/ Purge
               \/ UNCHANGED vars
      BY <2>3, OtherKeepsListedInv
    <2> QED BY <2>1, <2>2, <2>3 DEF Next
  <1> QED BY <1>1, <1>2, SessionInvHolds, PTL DEF Spec

\* Where no request is slow and none fails half-way, whoever holds a redeemable
\* token is in the device list, unless a revocation of the session has begun.
THEOREM UsableListed == Slow = {} /\ Faulty = {} => (Spec => []UsableTokenIsListed)
  <1> SUFFICES ASSUME Prompt PROVE Spec => []UsableTokenIsListed
    BY DEF Prompt
  <1>1. TypeOK /\ SessionInv /\ ListedInv => UsableTokenIsListed
    <2> SUFFICES ASSUME TypeOK, SessionInv, ListedInv, NEW t \in refreshTokens,
                        Live(t), ~ (t.expiresAt <= now), Hands(t.hash)
                 PROVE  \/ t.sessionId \in ended
                        \/ \E r \in Requests : t.sessionId \in req[r].targets
                        \/ \E s \in DeviceList(t.userId) : s.id = t.sessionId
      BY DEF UsableTokenIsListed, Hands
    <2>1. now < t.expiresAt
      BY DEF TypeOK, RefreshToken
    <2>2. Shown(t.sessionId)
      BY <2>1 DEF ListedInv, UsableIsShown
    <2> QED BY <2>2 DEF Shown, DeviceList, SessionInv, RowsHaveOwners
  <1> QED BY <1>1, ListedInvHolds, PTL
=============================================================================
