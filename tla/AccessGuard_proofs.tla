------------------------- MODULE AccessGuard_proofs -------------------------
(***************************************************************************)
(* Proofs about AccessGuard for every number of accounts, requests and     *)
(* tokens, every length of a second and of a token's life: what the guard  *)
(* keeps out, and what it may not keep out, whatever races it.             *)
(***************************************************************************)
EXTENDS AccessGuard, TLAPS

-----------------------------------------------------------------------------
(* Whole seconds *)

\* A quotient is where the multiples of the divisor put it.
LEMMA DivBounds ==
  ASSUME NEW a \in Int, NEW d \in Nat \ {0}
  PROVE  a \div d \in Int /\ d * (a \div d) <= a /\ a < d * (a \div d) + d
  OBVIOUS

\* Rounding down to whole seconds keeps the order of times.
LEMMA SecondsMonotone ==
  ASSUME NEW a \in Int, NEW b \in Int, a <= b
  PROVE  Seconds(a) <= Seconds(b)
  <1>1. Second \in Nat \ {0}
    BY AccessGuardAssumption
  <1> DEFINE p == a \div Second
             q == b \div Second
  <1>2. p \in Int /\ q \in Int /\ Second * p <= a /\ b < Second * q + Second
    BY <1>1, DivBounds
  <1> HIDE DEF p, q
  <1>3. ASSUME q < p PROVE FALSE
    <2>1. q + 1 <= p
      BY <1>2, <1>3
    <2>2. Second * (q + 1) <= Second * p
      BY <1>1, <1>2, <2>1
    <2> QED BY <1>1, <1>2, <2>2
  <1> QED BY <1>2, <1>3 DEF Seconds, p, q

LEMMA SecondsType ==
  ASSUME NEW a \in Int
  PROVE  Seconds(a) \in Int
  BY AccessGuardAssumption, DivBounds DEF Seconds

-----------------------------------------------------------------------------
(* Type correctness *)

Request ==
    [pc: {"idle", "load", "handler", "mark", "sign"}, user: Users \cup {NoUser},
     op: {"none", "listUsers", "updateProfile", "changePassword", "resetPassword"},
     at: Nat, token: AccessToken \cup {NoToken}, hopeless: BOOLEAN]

\* What a request must know by the time it is there.
Knows(q) ==
    /\ q.pc # "idle" => q.user \in Users
    /\ q.pc \in {"load", "handler"} => q.token \in AccessToken

LEMMA TypeOKIs ==
  TypeOK <=>
    /\ now \in Nat
    /\ account \in [Users -> {"user", "admin", "gone"}]
    /\ validFrom \in [Users -> Nat \cup {Never}]
    /\ tokens \subseteq AccessToken
    /\ req \in [Requests -> Request]
    /\ \A r \in Requests : Knows(req[r])
    /\ opened \in Nat /\ revocations \in Nat
    /\ retired \in [Users -> Nat \cup {Never}]
    /\ ended \subseteq Nat
  BY DEF TypeOK, Request, Knows, Busy

LEMMA InitType == Init => TypeOK
  BY DEF Init, TypeOK, Idle, Busy

\* A request's record is replaced by another one.
LEMMA SetType ==
  ASSUME TypeOK, NEW r \in Requests, NEW v \in Request, Knows(v), req' = [req EXCEPT ![r] = v]
  PROVE  req' \in [Requests -> Request] /\ \A q \in Requests : Knows(req'[q])
  BY TypeOKIs

LEMMA IdleType == Idle \in Request /\ Knows(Idle)
  BY DEF Idle, Request, Knows

LEMMA EndType ==
  ASSUME TypeOK, NEW r \in Requests, End(r)
  PROVE  req' \in [Requests -> Request] /\ \A q \in Requests : Knows(req'[q])
  <1> HIDE DEF Idle
  <1> QED BY IdleType, SetType DEF End

LEMMA GotoType ==
  ASSUME TypeOK, NEW r \in Requests, NEW l \in {"handler", "sign"}, Goto(r, l),
         req[r].pc # "idle", l = "handler" => req[r].pc = "load"
  PROVE  req' \in [Requests -> Request] /\ \A q \in Requests : Knows(req'[q])
  <1> DEFINE v == [req[r] EXCEPT !.pc = l]
  <1>1. v \in Request /\ Knows(v)
    BY TypeOKIs DEF Request, Knows
  <1>2. req' = [req EXCEPT ![r] = v]
    BY DEF Goto
  <1> HIDE DEF v
  <1> QED BY <1>1, <1>2, SetType

LEMMA PresentType ==
  ASSUME TypeOK, NEW r \in Requests, NEW t \in tokens, NEW op \in {"listUsers", "updateProfile"},
         Present(r, t, op)
  PROVE  TypeOK'
  <1> DEFINE v == [Idle EXCEPT !.pc = "load", !.op = op, !.token = t, !.user = t.user,
                               !.hopeless = ~ Exists(t.user) \/ Iat(t) < Seconds(retired[t.user])]
  <1>1. t \in AccessToken
    BY DEF TypeOK
  <1>2. v \in Request /\ Knows(v)
    BY <1>1, IdleType DEF Request, Knows, AccessToken
  <1>3. req' = [req EXCEPT ![r] = v]
    BY DEF Present
  <1> HIDE DEF v
  <1>4. req' \in [Requests -> Request] /\ \A q \in Requests : Knows(req'[q])
    BY <1>2, <1>3, SetType
  <1> QED BY <1>4 DEF Present, TypeOK, Request, Knows, Busy

LEMMA RevokeType ==
  ASSUME TypeOK, NEW r \in Requests, NEW u \in Users, NEW op \in {"changePassword", "resetPassword"},
         Revoke(r, u, op)
  PROVE  TypeOK'
  <1> DEFINE v == [Idle EXCEPT !.pc = "mark", !.op = op, !.user = u, !.at = now]
  <1>1. v \in Request /\ Knows(v)
    BY IdleType DEF TypeOK, Request, Knows
  <1>2. req' = [req EXCEPT ![r] = v]
    BY DEF Revoke
  <1> HIDE DEF v
  <1>3. req' \in [Requests -> Request] /\ \A q \in Requests : Knows(req'[q])
    BY <1>1, <1>2, SetType
  <1> QED BY <1>3 DEF Revoke, TypeOK, Request, Knows, Busy

LEMMA RequestStepType ==
  ASSUME TypeOK, NEW r \in Requests, Load(r) \/ Handle(r) \/ Mark(r) \/ Sign(r)
  PROVE  TypeOK'
  <1>1. CASE Load(r)
    <2>1. req' \in [Requests -> Request] /\ \A q \in Requests : Knows(req'[q])
      BY <1>1, GotoType, EndType DEF Load
    <2> QED BY <1>1, <2>1 DEF Load, TypeOK, Request, Knows, Busy
  <1>2. CASE Handle(r)
    <2>1. req' \in [Requests -> Request] /\ \A q \in Requests : Knows(req'[q])
      BY <1>2, EndType DEF Handle
    <2> QED BY <1>2, <2>1 DEF Handle, TypeOK, Request, Knows, Busy
  <1>3. CASE Mark(r)
    <2>1. req' \in [Requests -> Request] /\ \A q \in Requests : Knows(req'[q])
      BY <1>3, GotoType, EndType DEF Mark
    <2>2. req[r].user \in Users /\ req[r].at \in Nat
      BY <1>3 DEF Mark, TypeOK, Busy
    <2>3. validFrom' \in [Users -> Nat \cup {Never}]
      BY <1>3, <2>2 DEF Mark, MarkSessionsRevoked, TypeOK
    <2>4. retired' \in [Users -> Nat \cup {Never}]
      BY <1>3, <2>2 DEF Mark, Later, TypeOK
    <2> QED BY <1>3, <2>1, <2>3, <2>4 DEF Mark, TypeOK, Request, Knows, Busy
  <1>4. CASE Sign(r)
    <2>1. req' \in [Requests -> Request] /\ \A q \in Requests : Knows(req'[q])
      BY <1>4, EndType DEF Sign
    <2>2. req[r].user \in Users
      BY <1>4 DEF Sign, TypeOK, Busy
    <2>3. tokens' \subseteq AccessToken /\ opened' \in Nat
      BY <1>4, <2>2 DEF Sign, OpenSession, IssueIn, TypeOK, AccessToken
    <2> QED BY <1>4, <2>1, <2>3 DEF Sign, TypeOK, Request, Knows, Busy
  <1> QED BY <1>1, <1>2, <1>3, <1>4

LEMMA NextType ==
  ASSUME TypeOK, [Next]_vars
  PROVE  TypeOK'
  <1>1. ASSUME NEW r \in Requests, Load(r) \/ Handle(r) \/ Mark(r) \/ Sign(r) PROVE TypeOK'
    BY <1>1, RequestStepType
  <1>2. ASSUME NEW r \in Requests, NEW t \in tokens, NEW op \in {"listUsers", "updateProfile"},
               Present(r, t, op)
        PROVE  TypeOK'
    BY <1>2, PresentType
  <1>3. ASSUME NEW r \in Requests, NEW u \in Users, ChangePassword(r, u) \/ ResetPassword(r, u)
        PROVE  TypeOK'
    BY <1>3, RevokeType DEF ChangePassword, ResetPassword
  <1>4. ASSUME NEW u \in Users, SignIn(u) PROVE TypeOK'
    BY <1>4 DEF SignIn, OpenSession, IssueIn, TypeOK, AccessToken, Busy
  <1>5. ASSUME NEW u \in Users, DeleteAccount(u) PROVE TypeOK'
    BY <1>5 DEF DeleteAccount, TypeOK, Busy
  <1>6. ASSUME NEW u \in Users, NEW role \in {"user", "admin"}, SetRole(u, role) PROVE TypeOK'
    BY <1>6 DEF SetRole, TypeOK, Busy
  <1>7. ASSUME NEW t \in tokens, Refresh(t) PROVE TypeOK'
    BY <1>7 DEF Refresh, IssueIn, TypeOK, AccessToken, Busy
  <1>8. ASSUME NEW t \in tokens, RevokeSession(t.session) PROVE TypeOK'
    BY <1>8 DEF RevokeSession, TypeOK, AccessToken, Busy
  <1>9. CASE Tick
    BY <1>9 DEF Tick, TypeOK, Busy
  <1>10. CASE UNCHANGED vars
    BY <1>10 DEF vars, TypeOK, Busy
  <1> QED BY <1>1, <1>2, <1>3, <1>4, <1>5, <1>6, <1>7, <1>8, <1>9, <1>10 DEF Next

\* Every reachable state is well typed; above all, no request gets past the
\* guard's first step, or moves a cutoff, without knowing whose account it is.
THEOREM TypeCorrect == Spec => []TypeOK
  BY InitType, NextType, PTL DEF Spec

-----------------------------------------------------------------------------
(* The inductive invariant *)

\* Nothing is dated in the future.
Dated ==
    /\ \A r \in Requests : req[r].at <= now
    /\ \A u \in Users : retired[u] <= now

\* The mark of a revocation that is over still stands: no older one can take it
\* back, because none is under way any more.
MarksStand ==
    /\ \A u \in Users : Exists(u) => retired[u] <= validFrom[u]
    /\ \A r \in Requests : req[r].pc = "mark" => retired[req[r].user] <= req[r].at

\* The guard is going to refuse t, whenever it looks.
TooLate(t) == ~ Exists(t.user) \/ Iat(t) < Seconds(retired[t.user])

HopelessStays == \A r \in Requests : req[r].pc = "load" /\ req[r].hopeless => TooLate(req[r].token)

GuardInv == Dated /\ MarksStand /\ HopelessStays /\ NoServiceAfterTheFact

LEMMA InitInv == Init => GuardInv
  BY DEF Init, GuardInv, Dated, MarksStand, HopelessStays, NoServiceAfterTheFact, Idle, Never

\* A token that is too late is refused: the cutoff is where the latest revocation
\* that counts put it, or after.
LEMMA TooLateIsRefused ==
  ASSUME TypeOK, GuardInv, NEW t \in AccessToken, TooLate(t)
  PROVE  ~ GuardAccepts(t)
  <1>1. CASE ~ Exists(t.user)
    BY <1>1 DEF GuardAccepts
  <1>2. CASE Exists(t.user) /\ Iat(t) < Seconds(retired[t.user])
    <2>1. t.user \in Users /\ t.issuedAt \in Nat
      BY DEF AccessToken
    <2>2. retired[t.user] \in Int /\ validFrom[t.user] \in Int /\ retired[t.user] <= validFrom[t.user]
      BY <1>2, <2>1 DEF TypeOK, GuardInv, MarksStand, Never
    <2>3. Seconds(retired[t.user]) <= Seconds(validFrom[t.user])
      BY <2>2, SecondsMonotone
    <2>4. Iat(t) \in Int /\ Seconds(retired[t.user]) \in Int /\ Seconds(validFrom[t.user]) \in Int
      BY <2>1, <2>2, SecondsType DEF Iat
    <2>5. Iat(t) < Seconds(validFrom[t.user])
      BY <1>2, <2>3, <2>4
    <2>6. validFrom[t.user] # Never
      <3>1. SUFFICES ASSUME validFrom[t.user] = -1 PROVE FALSE
        BY DEF Never
      <3>2. Seconds(-1) <= Seconds(0) /\ Seconds(0) = 0 /\ 0 <= Iat(t)
        BY <2>1, SecondsMonotone, AccessGuardAssumption DEF Seconds, Iat
      <3> QED BY <2>4, <2>5, <3>1, <3>2
    <2> QED BY <2>5, <2>6 DEF GuardAccepts, IsIssuedBefore
  <1> QED BY <1>1, <1>2 DEF TooLate

\* Revocations only add up and nobody brings an account back, so too late is
\* for good.
LEMMA TooLateForGood ==
  ASSUME TypeOK, TypeOK', NEW t \in AccessToken, TooLate(t),
         ~ Exists(t.user) => ~ Exists(t.user)', retired[t.user] <= retired'[t.user]
  PROVE  TooLate(t)'
  <1>1. t.user \in Users /\ t.issuedAt \in Nat
    BY DEF AccessToken
  <1>2. retired[t.user] \in Int /\ retired'[t.user] \in Int
    BY <1>1 DEF TypeOK, Never
  <1>3. Seconds(retired[t.user]) <= Seconds(retired'[t.user])
    BY <1>2, SecondsMonotone
  <1>4. Iat(t) \in Int /\ Seconds(retired[t.user]) \in Int /\ Seconds(retired'[t.user]) \in Int
    BY <1>1, <1>2, SecondsType DEF Iat
  <1> QED BY <1>3, <1>4 DEF TooLate

-----------------------------------------------------------------------------
(* The steps *)

\* What the guard owes a hopeless request, as long as requests that are presented
\* are marked for what they are.
LEMMA HopelessStep ==
  ASSUME TypeOK, TypeOK', HopelessStays,
         \A u \in Users : (~ Exists(u) => ~ Exists(u)') /\ retired[u] <= retired'[u],
         \A r \in Requests : req'[r].pc = "load" /\ req'[r].hopeless =>
            req'[r] = req[r] \/ \E t \in AccessToken : req'[r].token = t /\ TooLate(t)
  PROVE  HopelessStays'
  <1> SUFFICES ASSUME NEW r \in Requests, req'[r].pc = "load", req'[r].hopeless
               PROVE  TooLate(req[r].token)'
    BY DEF HopelessStays
  <1>1. PICK t \in AccessToken : req'[r].token = t /\ TooLate(t)
    BY DEF HopelessStays, TypeOK
  <1>2. t.user \in Users
    BY DEF AccessToken
  <1>3. TooLate(t)'
    BY <1>1, <1>2, TooLateForGood
  <1> QED BY <1>1, <1>3 DEF TooLate

\* A step that touches neither requests, cutoffs nor time and brings no account back.
LEMMA QuietInv ==
  ASSUME TypeOK, TypeOK', GuardInv, UNCHANGED <<now, req, validFrom, retired>>,
         \A u \in Users : ~ Exists(u) => ~ Exists(u)'
  PROVE  GuardInv'
  <1>1. Dated' /\ NoServiceAfterTheFact'
    BY DEF GuardInv, Dated, NoServiceAfterTheFact
  <1>2. MarksStand'
    BY DEF GuardInv, MarksStand
  <1>3. \A u \in Users : retired[u] <= retired'[u]
    BY DEF TypeOK, Never
  <1>4. HopelessStays'
    BY <1>3, HopelessStep DEF GuardInv
  <1> QED BY <1>1, <1>2, <1>4 DEF GuardInv

\* A step of the guard, or the end of a request: records change, nothing else.
LEMMA OnlyReqInv ==
  ASSUME TypeOK, TypeOK', GuardInv, NEW r \in Requests, NEW v, req' = [req EXCEPT ![r] = v],
         UNCHANGED <<now, account, validFrom, retired>>,
         v.at <= now, v.pc = "mark" => retired[v.user] <= v.at,
         v.pc = "load" /\ v.hopeless => v.token \in AccessToken /\ TooLate(v.token),
         v.pc = "handler" => ~ v.hopeless
  PROVE  GuardInv'
  <1> USE DEF TypeOK
  <1>1. Dated' /\ NoServiceAfterTheFact'
    BY DEF GuardInv, Dated, NoServiceAfterTheFact
  <1>2. MarksStand'
    BY DEF GuardInv, MarksStand, Exists
  <1>3. \A u \in Users : (~ Exists(u) => ~ Exists(u)') /\ retired[u] <= retired'[u]
    BY DEF Never, Exists
  <1>4. \A q \in Requests : req'[q].pc = "load" /\ req'[q].hopeless =>
            req'[q] = req[q] \/ \E t \in AccessToken : req'[q].token = t /\ TooLate(t)
    OBVIOUS
  <1>5. HopelessStays'
    BY <1>3, <1>4, HopelessStep DEF GuardInv
  <1> QED BY <1>1, <1>2, <1>5 DEF GuardInv

LEMMA EndInv ==
  ASSUME TypeOK, TypeOK', GuardInv, NEW r \in Requests, End(r),
         UNCHANGED <<now, account, validFrom, retired>>
  PROVE  GuardInv'
  <1>1. Idle.at <= now /\ Idle.pc = "idle"
    BY DEF Idle, TypeOK
  <1> HIDE DEF Idle
  <1> QED BY <1>1, OnlyReqInv DEF End

LEMMA PresentInv ==
  ASSUME TypeOK, TypeOK', GuardInv, NEW r \in Requests, NEW t \in tokens,
         NEW op \in {"listUsers", "updateProfile"}, Present(r, t, op)
  PROVE  GuardInv'
  <1> DEFINE v == [Idle EXCEPT !.pc = "load", !.op = op, !.token = t, !.user = t.user,
                               !.hopeless = ~ Exists(t.user) \/ Iat(t) < Seconds(retired[t.user])]
  <1>1. v.pc = "load" /\ v.at = 0 /\ v.token = t /\ v.hopeless = TooLate(t)
    BY DEF Idle, TooLate
  <1>2. req' = [req EXCEPT ![r] = v] /\ UNCHANGED <<now, account, validFrom, retired>>
    BY DEF Present
  <1>3. t \in AccessToken /\ 0 <= now
    BY DEF TypeOK
  <1> HIDE DEF v
  <1> QED BY <1>1, <1>2, <1>3, OnlyReqInv

\* The handler runs for requests the guard let pass: none of them is hopeless.
LEMMA LoadInv ==
  ASSUME TypeOK, TypeOK', GuardInv, NEW r \in Requests, Load(r)
  PROVE  GuardInv'
  <1>1. UNCHANGED <<now, account, validFrom, retired>>
    BY DEF Load
  <1>2. CASE End(r)
    BY <1>1, <1>2, EndInv
  <1>3. CASE GuardAccepts(req[r].token) /\ Goto(r, "handler")
    <2> DEFINE v == [req[r] EXCEPT !.pc = "handler"]
    <2>1. req[r].token \in AccessToken /\ req[r].pc = "load"
      BY DEF TypeOK, Load
    <2>2. ~ req[r].hopeless
      BY <1>3, <2>1, TooLateIsRefused DEF GuardInv, HopelessStays
    <2>3. v.pc = "handler" /\ v.at = req[r].at /\ v.hopeless = req[r].hopeless
      BY DEF TypeOK
    <2>4. v.at <= now
      BY <2>3 DEF GuardInv, Dated
    <2>5. req' = [req EXCEPT ![r] = v]
      BY <1>3 DEF Goto
    <2> HIDE DEF v
    <2> QED BY <1>1, <2>2, <2>3, <2>4, <2>5, OnlyReqInv
  <1> QED BY <1>2, <1>3 DEF Load

LEMMA RevokeInv ==
  ASSUME TypeOK, TypeOK', GuardInv, NEW r \in Requests, NEW u \in Users, NEW op, Revoke(r, u, op)
  PROVE  GuardInv'
  <1> DEFINE v == [Idle EXCEPT !.pc = "mark", !.op = op, !.user = u, !.at = now]
  <1>1. v.pc = "mark" /\ v.at = now /\ v.user = u
    BY DEF Idle
  <1>2. req' = [req EXCEPT ![r] = v] /\ UNCHANGED <<now, account, validFrom, retired>>
    BY DEF Revoke
  <1>3. retired[u] <= now /\ now <= now
    BY DEF GuardInv, Dated, TypeOK
  <1> HIDE DEF v
  <1> QED BY <1>1, <1>2, <1>3, OnlyReqInv

\* The step that moves a cutoff.  It counts only if no older one can still arrive.
LEMMA MarkInv ==
  ASSUME TypeOK, TypeOK', GuardInv, NEW r \in Requests, Mark(r)
  PROVE  GuardInv'
  <1> DEFINE u == req[r].user
             at == req[r].at
  <1>1. u \in Users /\ at \in Nat /\ retired[u] \in Int /\ at <= now /\ retired[u] <= at
    BY DEF Mark, TypeOK, Busy, GuardInv, Dated, MarksStand, Never
  <1>2. retired' = [retired EXCEPT ![u] = IF IsOldest(r) THEN at ELSE @]
    <2>1. Later(retired[u], at) = at
      BY <1>1 DEF Later
    <2> QED BY <2>1 DEF Mark
  <1>3. validFrom' = IF Exists(u) THEN [validFrom EXCEPT ![u] = at] ELSE validFrom
    BY DEF Mark, MarkSessionsRevoked
  <1>4. UNCHANGED <<now, account>>
    BY DEF Mark
  <1>5. \A q \in Requests : \/ req'[q] = req[q]
                            \/ q = r /\ req'[q].pc \in {"idle", "sign"} /\ req'[q].at <= now
    BY <1>1 DEF Mark, Goto, End, Idle, TypeOK
  <1>6. \A w \in Users : retired'[w] \in Int /\ retired[w] <= retired'[w] /\ retired'[w] <= now'
    BY <1>1, <1>2, <1>4 DEF TypeOK, Never, GuardInv, Dated
  <1>7. Dated'
    BY <1>4, <1>5, <1>6 DEF GuardInv, Dated
  <1>8. MarksStand'
    <2>1. \A w \in Users : Exists(w)' => retired'[w] <= validFrom'[w]
      BY <1>1, <1>2, <1>3, <1>4 DEF Exists, GuardInv, MarksStand, TypeOK, Never
    <2>2. ASSUME NEW q \in Requests, req'[q].pc = "mark" PROVE retired'[req'[q].user] <= req'[q].at
      <3>1. req'[q] = req[q]
        BY <1>5, <2>2
      <3>2. retired[req[q].user] <= req[q].at /\ req[q].user \in Users
        BY <2>2, <3>1 DEF GuardInv, MarksStand, TypeOK, Busy
      <3>3. CASE IsOldest(r) /\ req[q].user = u
        BY <1>1, <1>2, <2>2, <3>1, <3>3 DEF IsOldest, TypeOK
      <3>4. CASE ~ (IsOldest(r) /\ req[q].user = u)
        <4>1. retired'[req[q].user] = retired[req[q].user]
          BY <1>1, <1>2, <3>2, <3>4 DEF TypeOK
        <4> QED BY <3>1, <3>2, <4>1
      <3> QED BY <3>3, <3>4
    <2> QED BY <2>1, <2>2 DEF MarksStand
  <1>9. HopelessStays'
    <2>1. \A w \in Users : (~ Exists(w) => ~ Exists(w)') /\ retired[w] <= retired'[w]
      BY <1>4, <1>6 DEF Exists
    <2>2. \A q \in Requests : req'[q].pc = "load" => req'[q] = req[q]
      BY <1>5
    <2> QED BY <2>1, <2>2, HopelessStep DEF GuardInv
  <1>10. NoServiceAfterTheFact'
    BY <1>5 DEF GuardInv, NoServiceAfterTheFact
  <1> QED BY <1>7, <1>8, <1>9, <1>10 DEF GuardInv

LEMMA TickInv ==
  ASSUME TypeOK, TypeOK', GuardInv, Tick
  PROVE  GuardInv'
  <1>1. Dated'
    BY DEF Tick, GuardInv, Dated, TypeOK, Never
  <1>2. MarksStand' /\ NoServiceAfterTheFact'
    BY DEF Tick, GuardInv, MarksStand, NoServiceAfterTheFact, Exists
  <1>3. \A u \in Users : (~ Exists(u) => ~ Exists(u)') /\ retired[u] <= retired'[u]
    BY DEF Tick, Exists, TypeOK, Never
  <1>4. \A q \in Requests : req'[q] = req[q]
    BY DEF Tick
  <1>5. HopelessStays'
    BY <1>3, <1>4, HopelessStep DEF GuardInv
  <1> QED BY <1>1, <1>2, <1>5 DEF GuardInv

LEMMA NextInv ==
  ASSUME TypeOK, TypeOK', GuardInv, [Next]_vars
  PROVE  GuardInv'
  <1>1. ASSUME NEW r \in Requests, Load(r) PROVE GuardInv'
    BY <1>1, LoadInv
  <1>2. ASSUME NEW r \in Requests, Handle(r) PROVE GuardInv'
    BY <1>2, EndInv DEF Handle
  <1>3. ASSUME NEW r \in Requests, Mark(r) PROVE GuardInv'
    BY <1>3, MarkInv
  <1>4. ASSUME NEW r \in Requests, Sign(r) PROVE GuardInv'
    BY <1>4, EndInv DEF Sign
  <1>5. ASSUME NEW r \in Requests, NEW t \in tokens, NEW op \in {"listUsers", "updateProfile"},
               Present(r, t, op)
        PROVE  GuardInv'
    BY <1>5, PresentInv
  <1>6. ASSUME NEW r \in Requests, NEW u \in Users, ChangePassword(r, u) \/ ResetPassword(r, u)
        PROVE  GuardInv'
    BY <1>6, RevokeInv DEF ChangePassword, ResetPassword
  <1>7. ASSUME NEW u \in Users, SignIn(u) PROVE GuardInv'
    BY <1>7, QuietInv DEF SignIn, Exists
  <1>8. ASSUME NEW u \in Users, DeleteAccount(u) PROVE GuardInv'
    BY <1>8, QuietInv DEF DeleteAccount, Exists, TypeOK
  <1>9. ASSUME NEW u \in Users, NEW role \in {"user", "admin"}, SetRole(u, role) PROVE GuardInv'
    BY <1>9, QuietInv DEF SetRole, Exists, TypeOK
  <1>10. ASSUME NEW t \in tokens, Refresh(t) \/ RevokeSession(t.session) PROVE GuardInv'
    BY <1>10, QuietInv DEF Refresh, RevokeSession, Exists
  <1>11. CASE Tick
    BY <1>11, TickInv
  <1>12. CASE UNCHANGED vars
    BY <1>12, QuietInv DEF vars, Exists
  <1> QED BY <1>1, <1>2, <1>3, <1>4, <1>5, <1>6, <1>7, <1>8, <1>9, <1>10, <1>11, <1>12 DEF Next

LEMMA InvHolds == Spec => [](TypeOK /\ GuardInv)
  <1>1. Init => TypeOK /\ GuardInv
    BY InitType, InitInv
  <1>2. TypeOK /\ GuardInv /\ [Next]_vars => (TypeOK /\ GuardInv)'
    BY NextType, NextInv
  <1> QED BY <1>1, <1>2, PTL DEF Spec

-----------------------------------------------------------------------------
(* The theorems *)

\* No handler runs for a request that was presented after its account was gone
\* or its token retired, however the guard's steps interleave with revocations.
THEOREM NoServiceAfter == Spec => []NoServiceAfterTheFact
  <1>1. GuardInv => NoServiceAfterTheFact
    BY DEF GuardInv
  <1> QED BY <1>1, InvHolds, PTL

\* What a finished password change or reset keeps out stays out, whatever other
\* changes and resets of the account overlap it.
THEOREM RetiredStaysRetired == Spec => []RetiredTokenStaysRetired
  <1>1. TypeOK /\ GuardInv => RetiredTokenStaysRetired
    <2> SUFFICES ASSUME TypeOK, GuardInv, NEW t \in tokens, Iat(t) < Seconds(retired[t.user])
                 PROVE  ~ GuardAccepts(t)
      BY DEF RetiredTokenStaysRetired
    <2>1. t \in AccessToken
      BY DEF TypeOK
    <2> QED BY <2>1, TooLateIsRefused DEF TooLate
  <1> QED BY <1>1, InvHolds, PTL

\* Rounding to whole seconds never costs a client a token issued since the cutoff,
\* however long a second is in ticks of the clock.
THEOREM FreshWorks == Spec => []FreshTokenWorks
  <1>1. TypeOK => FreshTokenWorks
    <2> SUFFICES ASSUME TypeOK, NEW t \in tokens, Exists(t.user), t.issuedAt >= validFrom[t.user]
                 PROVE  GuardAccepts(t)
      BY DEF FreshTokenWorks
    <2>1. t.user \in Users /\ t.issuedAt \in Int
      BY DEF TypeOK, AccessToken
    <2>2. validFrom[t.user] \in Int
      BY <2>1 DEF TypeOK, Never
    <2>3. Seconds(validFrom[t.user]) <= Seconds(t.issuedAt)
      BY <2>1, <2>2, SecondsMonotone
    <2>4. Seconds(validFrom[t.user]) \in Int /\ Seconds(t.issuedAt) \in Int
      BY <2>1, <2>2, SecondsType
    <2> QED BY <2>3, <2>4 DEF GuardAccepts, IsIssuedBefore, Iat
  <1> QED BY <1>1, TypeCorrect, PTL
=============================================================================
