------------------------ MODULE SignInLockout_proofs ------------------------
(***************************************************************************)
(* Proofs about SignInLockout for every number of emails and of requests   *)
(* that overlap, every limit, every window and whichever requests die.     *)
(***************************************************************************)
EXTENDS SignInLockout, FiniteSetTheorems, TLAPS

-----------------------------------------------------------------------------
(* Type correctness *)

Labels == {"idle", "verify", "replace", "dropUser", "reset", "drop", "count", "warn"}

Request == [op: Handlers \cup {"none"}, email: Emails \cup {NoEmail}, known: BOOLEAN,
            asked: Nat, since: Nat, id: Nat, pc: Labels]

\* A request in progress knows its email.
Knows(v) == v.pc # "idle" => v.email \in Emails

RequestsOK == req \in [Requests -> Request] /\ \A r \in Requests : Knows(req[r])

\* The numbers a counter document can have.
Ids == 1 .. MaxRecords + Cardinality(Requests)

TypeInv ==
    /\ now \in Nat
    /\ accounts \subseteq passwords /\ passwords \subseteq Emails
    /\ attempts \subseteq SignInAttempt
    /\ RequestsOK
    /\ created \in Nat
    /\ tries \subseteq [email: Emails, at: Nat, nth: Nat] /\ IsFiniteSet(tries)
    /\ warned \in [Ids -> Nat]
    /\ died \in Seq(Nat)
    /\ overdue \subseteq Nat

LEMMA IdleType == Idle \in Request /\ Knows(Idle)
  BY DEF Idle, Request, Labels, Knows

LEMMA InitType == Init => TypeInv
  BY IdleType, FS_EmptySet, SignInLockoutAssumption DEF Init, TypeInv, RequestsOK, Ids

\* Counting one more of something, if it is counted at all.
LEMMA BumpType ==
  ASSUME NEW S, NEW f \in [S -> Nat], NEW i
  PROVE  [f EXCEPT ![i] = @ + 1] \in [S -> Nat]
  <1> DEFINE g == [f EXCEPT ![i] = f[i] + 1]
  <1>1. g = [j \in S |-> IF j = i THEN f[i] + 1 ELSE f[j]]
    OBVIOUS
  <1>2. \A j \in S : (IF j = i THEN f[i] + 1 ELSE f[j]) \in Nat
    OBVIOUS
  <1> HIDE DEF g
  <1>3. g \in [S -> Nat]
    BY <1>1, <1>2
  <1> QED BY <1>3 DEF g

\* The record of a request is replaced by another one.
LEMMA SetType ==
  ASSUME RequestsOK, NEW r \in Requests, NEW v \in Request, Knows(v), req' = [req EXCEPT ![r] = v]
  PROVE  RequestsOK'
  BY DEF RequestsOK

LEMMA EndType ==
  ASSUME RequestsOK, NEW r \in Requests, End(r)
  PROVE  RequestsOK'
  <1> HIDE DEF Idle
  <1> QED BY IdleType, SetType DEF End

LEMMA GotoType ==
  ASSUME RequestsOK, NEW r \in Requests, NEW l \in Labels, Goto(r, l), req[r].pc # "idle"
  PROVE  RequestsOK'
  <1> DEFINE v == [req[r] EXCEPT !.pc = l]
  <1>1. v \in Request /\ Knows(v)
    BY DEF RequestsOK, Request, Knows
  <1>2. req' = [req EXCEPT ![r] = v]
    BY DEF Goto
  <1> HIDE DEF v
  <1> QED BY <1>1, <1>2, SetType

LEMMA AttemptType ==
  ASSUME TypeInv, NEW r \in Requests, NEW e \in Emails, NEW op \in Handlers, Attempt(r, e, op)
  PROVE  TypeInv'
  <1> DEFINE v == [Idle EXCEPT !.op = op, !.pc = "verify", !.email = e, !.known = e \in accounts]
  <1>0. ASSUME NEW b \in BOOLEAN
        PROVE  LET w == [Idle EXCEPT !.op = op, !.pc = "verify", !.email = e, !.known = b]
               IN  w \in Request /\ Knows(w)
    BY IdleType DEF Request, Labels, Knows
  <1>1. v \in Request /\ Knows(v)
    <2>1. (e \in accounts) \in BOOLEAN
      OBVIOUS
    <2> QED BY <1>0, <2>1
  <1>2. req' = [req EXCEPT ![r] = v]
    BY DEF Attempt
  <1> HIDE DEF v
  <1>3. RequestsOK'
    BY <1>1, <1>2, SetType DEF TypeInv
  <1> QED BY <1>3 DEF Attempt, TypeInv

\* The delete that recordFailure sends when a password is wrong.
LEMMA AskMoves ==
  ASSUME RequestsOK, now \in Nat, NEW r \in Requests, WrongPassword(r)
  PROVE  /\ req'[r].pc = "drop" /\ req'[r].asked = now /\ req'[r].since = req[r].since
         /\ req'[r].email = req[r].email /\ req'[r].id = req[r].id
         /\ \A s \in Requests : s # r => req'[s] = req[s]
         /\ req[r].pc # "idle" => RequestsOK'
  <1> DEFINE v == [req[r] EXCEPT !.pc = "drop", !.asked = now]
  <1>1. /\ v \in Request /\ v.pc = "drop" /\ v.asked = now /\ v.since = req[r].since
        /\ v.email = req[r].email /\ v.id = req[r].id
        /\ req[r].pc # "idle" => Knows(v)
    BY DEF RequestsOK, Request, Labels, Knows
  <1>2. req' = [req EXCEPT ![r] = v]
    BY DEF WrongPassword
  <1> HIDE DEF v
  <1>3. req[r].pc # "idle" => RequestsOK'
    BY <1>1, <1>2, SetType
  <1> QED BY <1>1, <1>2, <1>3 DEF RequestsOK

LEMMA TryType ==
  ASSUME TypeInv, NEW e \in Emails
  PROVE  Try(e) \in [email: Emails, at: Nat, nth: Nat]
  <1> DEFINE S == {x \in tries : x.email = e /\ x.at = now}
  <1>1. S \subseteq tries
    OBVIOUS
  <1>2. Cardinality(S) \in Nat
    BY <1>1, FS_Subset, FS_CardinalityType DEF TypeInv
  <1> QED BY <1>2 DEF Try, TypeInv

LEMMA VerifyPasswordType ==
  ASSUME TypeInv, NEW r \in Requests, VerifyPassword(r)
  PROVE  TypeInv'
  <1>1. req[r].pc # "idle" /\ req[r].email \in Emails
    BY DEF VerifyPassword, TypeInv, RequestsOK, Knows
  <1>2. RequestsOK /\ now \in Nat
    BY DEF TypeInv
  <1>3. CASE WrongPassword(r)
    <2>1. RequestsOK'
      BY <1>1, <1>2, <1>3, AskMoves
    <2>2. tries' \subseteq [email: Emails, at: Nat, nth: Nat] /\ IsFiniteSet(tries')
      BY <1>1, <1>3, TryType, FS_AddElement DEF WrongPassword, TypeInv
    <2> QED BY <2>1, <2>2 DEF VerifyPassword, TypeInv
  <1>4. CASE UNCHANGED tries /\ Goto(r, Proceed(req[r].op))
    <2>1. PICK l \in Labels : l = Proceed(req[r].op)
      BY DEF Proceed, Labels
    <2>2. RequestsOK'
      BY <1>1, <1>2, <1>4, <2>1, GotoType
    <2> QED BY <1>4, <2>2 DEF VerifyPassword, TypeInv
  <1> QED BY <1>3, <1>4 DEF VerifyPassword

\* The counter a failure is counted on is one of its email.
LEMMA CountedType ==
  ASSUME TypeInv, NEW e \in Emails, NEW sent \in Nat
  PROVE  Counted(e, sent) \in SignInAttempt /\ Counted(e, sent).email = e
  <1>1. CASE AttemptsOf(e) = {}
    BY <1>1, SignInLockoutAssumption DEF Counted, SignInAttempt, TypeInv
  <1>2. CASE AttemptsOf(e) # {}
    <2>1. PICK d \in AttemptsOf(e) : d = CHOOSE a \in AttemptsOf(e) : TRUE
      BY <1>2
    <2>2. d \in SignInAttempt /\ d.email = e
      BY DEF AttemptsOf, TypeInv
    <2>3. Counted(e, sent) = [d EXCEPT !.failedCount = @ + 1, !.expiresAt = sent + Window]
      BY <1>2, <2>1 DEF Counted
    <2>4. d.failedCount + 1 \in Nat /\ sent + Window \in Nat
      BY <2>2, SignInLockoutAssumption DEF SignInAttempt, TypeInv
    <2> QED BY <2>2, <2>3, <2>4 DEF SignInAttempt
  <1> QED BY <1>1, <1>2

LEMMA RecordFailureType ==
  ASSUME TypeInv, NEW r \in Requests, RecordFailure(r)
  PROVE  TypeInv'
  <1>1. PICK e : e = req[r].email
    OBVIOUS
  <1>2. e \in Emails /\ req[r].pc # "idle"
    BY <1>1 DEF RecordFailure, TypeInv, RequestsOK, Knows
  <1>3. PICK sent \in req[r].since..now :
           LET a == Counted(e, sent)
           IN  /\ attempts' = (attempts \ AttemptsOf(e)) \cup {a}
               /\ overdue' = IF a.expiresAt <= now THEN overdue \cup {a.id} ELSE overdue \ {a.id}
               /\ IF Warns(a)
                    THEN req' = [req EXCEPT ![r] = [@ EXCEPT !.pc = "warn", !.id = a.id,
                                                             !.asked = 0, !.since = 0]]
                    ELSE End(r)
    BY <1>1 DEF RecordFailure
  <1>4. PICK a : a = Counted(e, sent)
    OBVIOUS
  <1>5. a \in SignInAttempt
    <2>1. req[r].since \in Nat
      BY DEF TypeInv, RequestsOK, Request
    <2>2. sent \in Nat
      BY <2>1
    <2> QED BY <1>2, <1>4, <2>2, CountedType
  <1>6. attempts' \subseteq SignInAttempt
    BY <1>3, <1>4, <1>5 DEF TypeInv
  <1>7. RequestsOK'
    <2> DEFINE v == [req[r] EXCEPT !.pc = "warn", !.id = a.id, !.asked = 0, !.since = 0]
    <2>1. v \in Request /\ Knows(v)
      BY <1>2, <1>5 DEF TypeInv, RequestsOK, Request, Labels, Knows, SignInAttempt
    <2>2. req' = [req EXCEPT ![r] = v] \/ End(r)
      BY <1>3, <1>4
    <2> HIDE DEF v
    <2> QED BY <2>1, <2>2, SetType, EndType DEF TypeInv
  <1>8. overdue' \subseteq Nat
    <2>1. a.id \in Nat
      BY <1>5 DEF SignInAttempt
    <2>2. overdue' \subseteq overdue \cup {a.id}
      BY <1>3, <1>4
    <2> QED BY <2>1, <2>2 DEF TypeInv
  <1>9. created' \in Nat
    BY DEF RecordFailure, TypeInv
  <1> QED BY <1>6, <1>7, <1>8, <1>9 DEF RecordFailure, TypeInv

LEMMA StepType ==
  ASSUME TypeInv, NEW r \in Requests, Step(r)
  PROVE  TypeInv'
  <1> USE DEF TypeInv
  <1>1. CASE VerifyPassword(r)
    BY <1>1, VerifyPasswordType
  <1>2. CASE ReplacePassword(r)
    <2>1. RequestsOK'
      BY <1>2, GotoType, EndType DEF ReplacePassword, Labels
    <2> QED BY <1>2, <2>1 DEF ReplacePassword
  <1>3. CASE DropUser(r)
    <2>1. RequestsOK'
      BY <1>3, GotoType DEF DropUser, Labels
    <2> QED BY <1>3, <2>1 DEF DropUser
  <1>4. CASE Reset(r)
    <2>1. RequestsOK'
      BY <1>4, EndType DEF Reset
    <2>2. tries' \subseteq tries /\ IsFiniteSet(tries')
      BY <1>4, FS_Subset DEF Reset
    <2> QED BY <1>4, <2>1, <2>2 DEF Reset
  <1>5. CASE DropExpired(r)
    <2> DEFINE v == [req[r] EXCEPT !.pc = "count", !.since = now]
    <2>0. now \in Nat /\ req[r].pc = "drop"
      BY <1>5 DEF DropExpired
    <2>1. v \in Request /\ Knows(v)
      BY <2>0 DEF RequestsOK, Request, Labels, Knows
    <2>2. req' = [req EXCEPT ![r] = v]
      BY <1>5 DEF DropExpired
    <2> HIDE DEF v
    <2>3. RequestsOK'
      BY <2>1, <2>2, SetType
    <2>4. attempts' \subseteq SignInAttempt
      BY <1>5 DEF DropExpired
    <2> QED BY <1>5, <2>3, <2>4 DEF DropExpired
  <1>6. CASE RecordFailure(r)
    BY <1>6, RecordFailureType
  <1>7. CASE NotifyAccountOwner(r)
    <2>1. RequestsOK'
      BY <1>7, EndType DEF NotifyAccountOwner
    <2>2. warned' \in [Ids -> Nat]
      <3>1. PICK i : i = req[r].id
        OBVIOUS
      <3>2. warned' = [warned EXCEPT ![i] = @ + 1] \/ warned' = warned
        BY <1>7, <3>1 DEF NotifyAccountOwner
      <3>3. [warned EXCEPT ![i] = @ + 1] \in [Ids -> Nat]
        BY BumpType
      <3> QED BY <3>2, <3>3
    <2> QED BY <1>7, <2>1, <2>2 DEF NotifyAccountOwner
  <1> QED BY <1>1, <1>2, <1>3, <1>4, <1>5, <1>6, <1>7 DEF Step

LEMMA FailType ==
  ASSUME TypeInv, NEW r \in Requests, Fail(r)
  PROVE  TypeInv'
  <1>1. RequestsOK'
    BY EndType DEF Fail, TypeInv
  <1>2. died' \in Seq(Nat)
    <2>1. req[r].id \in Nat /\ died \in Seq(Nat)
      BY DEF TypeInv, RequestsOK, Request
    <2>2. died' = Append(died, req[r].id) \/ died' = died
      BY DEF Fail
    <2> QED BY <2>1, <2>2
  <1> QED BY <1>1, <1>2 DEF Fail, TypeInv

LEMMA NextType ==
  ASSUME TypeInv, [Next]_vars
  PROVE  TypeInv'
  <1>1. ASSUME NEW r \in Requests, Step(r) PROVE TypeInv'
    BY <1>1, StepType
  <1>2. ASSUME NEW r \in Requests, Fail(r) PROVE TypeInv'
    BY <1>2, FailType
  <1>3. ASSUME NEW r \in Requests, NEW e \in Emails, NEW op \in Handlers, Attempt(r, e, op)
        PROVE  TypeInv'
    BY <1>3, AttemptType
  <1>4. ASSUME NEW e \in Emails, DropPassword(e) PROVE TypeInv'
    BY <1>4 DEF DropPassword, TypeInv, RequestsOK
  <1>5. CASE Tick
    BY <1>5, SignInLockoutAssumption DEF Tick, TypeInv, RequestsOK
  <1>6. CASE Purge
    BY <1>6 DEF Purge, TypeInv, RequestsOK
  <1>7. CASE UNCHANGED vars
    BY <1>7 DEF vars, TypeInv, RequestsOK
  <1> QED BY <1>1, <1>2, <1>3, <1>4, <1>5, <1>6, <1>7 DEF Next

LEMMA TypeHolds == Spec => []TypeInv
  BY InitType, NextType, PTL DEF Spec

\* Every reachable state is well typed: a request that is under way knows its
\* email, and no account outlives its credential.
THEOREM TypeCorrect == Spec => []TypeOK
  <1>1. TypeInv => TypeOK
    BY DEF TypeInv, RequestsOK, Request, Labels, Knows, Ids, TypeOK
  <1> QED BY <1>1, TypeHolds, PTL

-----------------------------------------------------------------------------
(* The inductive invariant *)

\* An email has one counter document at a time, and no two share a number.
CountersAreUnique ==
    /\ \A a, b \in attempts : a.email = b.email \/ a.id = b.id => a = b
    /\ \A a \in attempts : a.id \in 1..created

\* The requests that may still create a counter are within the bound on counters.
MayCount == {r \in Requests : req[r].pc \notin {"idle", "warn"}}
WithinBound == created + Cardinality(MayCount) <= MaxRecords + Cardinality(Requests)

\* Nobody is warned on account of a counter to come.
NoEarlyWarning ==
    /\ \A i \in Ids : i > created => warned[i] = 0
    /\ \A r \in Requests : req[r].pc = "warn" => req[r].id \in 1..created

\* The requests that are about to warn of counter i.
Due(i) == {r \in Requests : req[r].pc = "warn" /\ req[r].id = i}

\* Why nobody warned of a, nor will: there is nobody to warn, or the request died.
Excused(a) == a.email \notin accounts \/ \E i \in DOMAIN died : died[i] = a.id

\* The request that reached the limit is to warn, or has warned; no other is.
WarningIsOwed(a) ==
    \/ a.failedCount < MaxFailed /\ warned[a.id] = 0 /\ Due(a.id) = {}
    \/ a.failedCount >= MaxFailed /\ warned[a.id] = 1 /\ Due(a.id) = {}
    \/ a.failedCount >= MaxFailed /\ warned[a.id] = 0 /\ Due(a.id) = {} /\ Excused(a)
    \/ /\ a.failedCount >= MaxFailed /\ warned[a.id] = 0
       /\ \E r \in Requests : Due(a.id) = {r} /\ req[r].email = a.email

\* A request that dropped what had run out finds only what was running when it asked,
\* and what an overdue failure has ended since.
StillRuns ==
    \A r \in Requests :
        /\ req[r].asked <= now /\ req[r].since <= now
        /\ req[r].pc = "count" =>
              /\ r \notin Slow => req[r].since = now
              /\ \A a \in attempts : a.email = req[r].email =>
                    req[r].asked < a.expiresAt \/ a.id \in overdue

LockoutInv ==
    /\ CountersAreUnique
    /\ WithinBound
    /\ NoEarlyWarning
    /\ \A a \in attempts : WarningIsOwed(a)
    /\ StillRuns

LEMMA MayCountIsFinite ==
  /\ IsFiniteSet(MayCount) /\ Cardinality(MayCount) \in Nat
  /\ Cardinality(Requests) \in Nat /\ Cardinality(MayCount) <= Cardinality(Requests)
  BY FS_Subset, FS_CardinalityType, SignInLockoutAssumption DEF MayCount

LEMMA InitInv == Init => LockoutInv
  <1> SUFFICES ASSUME Init PROVE LockoutInv
    OBVIOUS
  <1>1. \A r \in Requests : req[r] = Idle
    BY DEF Init
  <1>2. WithinBound
    BY MayCountIsFinite, SignInLockoutAssumption DEF Init, WithinBound
  <1>3. CountersAreUnique /\ NoEarlyWarning /\ StillRuns
    BY <1>1 DEF Init, CountersAreUnique, NoEarlyWarning, StillRuns, Idle, Ids
  <1> QED BY <1>2, <1>3 DEF LockoutInv, Init

-----------------------------------------------------------------------------
(* Steps that neither record a failure nor end a warning *)

\* Requests that can no longer count do no harm to the bound.
LEMMA FewerMayCount ==
  ASSUME WithinBound, created \in Nat, created' = created, MayCount' \subseteq MayCount
  PROVE  WithinBound'
  <1>1. Cardinality(MayCount') <= Cardinality(MayCount) /\ Cardinality(MayCount') \in Nat
    BY MayCountIsFinite, FS_Subset, FS_CardinalityType
  <1> QED BY <1>1, MayCountIsFinite, SignInLockoutAssumption DEF WithinBound

\* Counters, accounts and requests may go; who is to warn stays as it was.
LEMMA QuietInv ==
  ASSUME TypeInv, TypeInv', LockoutInv, attempts' \subseteq attempts, accounts' \subseteq accounts,
         UNCHANGED <<created, warned>>,
         \A i \in DOMAIN died : i \in DOMAIN died' /\ died'[i] = died[i],
         \A r \in Requests :
            /\ req'[r].pc = "warn" <=> req[r].pc = "warn"
            /\ req[r].pc = "warn" => req'[r].id = req[r].id /\ req'[r].email = req[r].email,
         WithinBound', StillRuns'
  PROVE  LockoutInv'
  <1>1. CountersAreUnique'
    BY DEF LockoutInv, CountersAreUnique
  <1>2. NoEarlyWarning'
    BY DEF LockoutInv, NoEarlyWarning
  <1>3. ASSUME NEW a \in attempts' PROVE WarningIsOwed(a)'
    <2>1. WarningIsOwed(a)
      BY DEF LockoutInv
    <2>2. Due(a.id)' = Due(a.id)
      BY DEF Due
    <2>3. Excused(a) => Excused(a)'
      BY DEF Excused
    <2>4. ASSUME NEW r \in Requests, Due(a.id) = {r} PROVE req'[r].email = req[r].email
      BY <2>4 DEF Due
    <2> QED BY <2>1, <2>2, <2>3, <2>4 DEF WarningIsOwed
  <1> QED BY <1>1, <1>2, <1>3 DEF LockoutInv

\* The record of one request that is not to warn is replaced by that of one that
\* neither is, nor is about to count.
LEMMA OneRequestInv ==
  ASSUME TypeInv, TypeInv', LockoutInv, NEW r \in Requests, NEW v, req' = [req EXCEPT ![r] = v],
         req[r].pc \notin {"idle", "warn"}, v.pc \notin {"warn", "count"},
         v.asked <= now, v.since <= now,
         attempts' \subseteq attempts, accounts' \subseteq accounts,
         UNCHANGED <<now, created, warned, overdue>>,
         \A i \in DOMAIN died : i \in DOMAIN died' /\ died'[i] = died[i]
  PROVE  LockoutInv'
  <1>1. req'[r] = v /\ \A q \in Requests : q # r => req'[q] = req[q]
    BY DEF TypeInv, RequestsOK
  <1>2. MayCount' \subseteq MayCount
    BY <1>1 DEF MayCount
  <1>3. WithinBound'
    BY <1>2, FewerMayCount DEF LockoutInv, TypeInv
  <1>4. StillRuns'
    BY <1>1 DEF LockoutInv, StillRuns
  <1> QED BY <1>1, <1>3, <1>4, QuietInv

LEMMA GotoInv ==
  ASSUME TypeInv, TypeInv', LockoutInv, NEW r \in Requests, NEW l \in Labels \ {"warn", "count"},
         Goto(r, l), req[r].pc \notin {"idle", "warn"}, attempts' \subseteq attempts,
         accounts' \subseteq accounts, UNCHANGED <<now, created, warned, died, overdue>>
  PROVE  LockoutInv'
  <1> DEFINE v == [req[r] EXCEPT !.pc = l]
  <1>1. v.pc = l /\ v.since = req[r].since /\ v.asked = req[r].asked
    BY DEF TypeInv, RequestsOK, Request
  <1>2. v.since <= now /\ v.asked <= now
    BY <1>1 DEF LockoutInv, StillRuns
  <1>3. req' = [req EXCEPT ![r] = v]
    BY DEF Goto
  <1> HIDE DEF v
  <1> QED BY <1>1, <1>2, <1>3, OneRequestInv

LEMMA WrongPasswordInv ==
  ASSUME TypeInv, TypeInv', LockoutInv, NEW r \in Requests, WrongPassword(r), req[r].pc = "verify",
         UNCHANGED <<now, accounts, attempts, created, warned, died, overdue>>
  PROVE  LockoutInv'
  <1> DEFINE v == [req[r] EXCEPT !.pc = "drop", !.asked = now]
  <1>1. v.pc = "drop" /\ v.since = req[r].since /\ v.asked = now
    BY DEF TypeInv, RequestsOK, Request
  <1>2. v.since <= now /\ v.asked <= now
    BY <1>1 DEF LockoutInv, StillRuns, TypeInv
  <1>3. req' = [req EXCEPT ![r] = v]
    BY DEF WrongPassword
  <1> HIDE DEF v
  <1> QED BY <1>1, <1>2, <1>3, OneRequestInv

LEMMA EndInv ==
  ASSUME TypeInv, TypeInv', LockoutInv, NEW r \in Requests, End(r), req[r].pc \notin {"idle", "warn"},
         attempts' \subseteq attempts, accounts' \subseteq accounts,
         UNCHANGED <<now, created, warned, overdue>>,
         \A i \in DOMAIN died : i \in DOMAIN died' /\ died'[i] = died[i]
  PROVE  LockoutInv'
  <1>1. Idle.pc = "idle" /\ Idle.since <= now /\ Idle.asked <= now
    BY DEF Idle, TypeInv
  <1> HIDE DEF Idle
  <1> QED BY <1>1, OneRequestInv DEF End

\* What was noted of the requests that died is never forgotten.
LEMMA DiedGrows ==
  ASSUME TypeInv, NEW n \in Nat, died' = Append(died, n) \/ died' = died
  PROVE  \A i \in DOMAIN died : i \in DOMAIN died' /\ died'[i] = died[i]
  BY DEF TypeInv

LEMMA AttemptInv ==
  ASSUME TypeInv, TypeInv', LockoutInv, NEW r \in Requests, NEW e \in Emails, NEW op \in Handlers,
         Attempt(r, e, op)
  PROVE  LockoutInv'
  <1>1. \A q \in Requests : q # r => req'[q] = req[q]
    BY DEF Attempt, TypeInv, RequestsOK
  <1>2. /\ req[r].pc = "idle" /\ req'[r].pc = "verify"
        /\ req'[r].since = 0 /\ req'[r].asked = 0
    BY DEF Attempt, TypeInv, RequestsOK, Idle
  <1>3. WithinBound'
    <2>1. created' < MaxRecords /\ created' \in Nat
      BY DEF Attempt, Budget, TypeInv
    <2>2. MayCount' \subseteq Requests
      BY DEF MayCount
    <2>3. Cardinality(MayCount') \in Nat /\ Cardinality(MayCount') <= Cardinality(Requests)
      BY <2>2, FS_Subset, FS_CardinalityType, SignInLockoutAssumption
    <2> QED BY <2>1, <2>3, MayCountIsFinite, SignInLockoutAssumption DEF WithinBound
  <1>4. StillRuns'
    BY <1>1, <1>2 DEF Attempt, LockoutInv, StillRuns, TypeInv
  <1> QED BY <1>1, <1>2, <1>3, <1>4, QuietInv DEF Attempt

LEMMA DropExpiredInv ==
  ASSUME TypeInv, TypeInv', LockoutInv, NEW r \in Requests, DropExpired(r)
  PROVE  LockoutInv'
  <1>1. \A q \in Requests : q # r => req'[q] = req[q]
    BY DEF DropExpired, TypeInv, RequestsOK
  <1>2. /\ req[r].pc = "drop" /\ req'[r].pc = "count" /\ req'[r].since = now
        /\ req'[r].email = req[r].email /\ req'[r].asked = req[r].asked
        /\ req[r].asked \in Nat
    BY DEF DropExpired, TypeInv, RequestsOK, Request
  <1>3. MayCount' \subseteq MayCount
    BY <1>1, <1>2 DEF MayCount
  <1>4. WithinBound'
    BY <1>3, FewerMayCount DEF LockoutInv, TypeInv, DropExpired
  <1>5. attempts' \subseteq attempts
    BY DEF DropExpired
  <1>6. \A a \in attempts' : a.email = req'[r].email => req'[r].asked < a.expiresAt
    BY <1>2 DEF DropExpired, RanOut, TypeInv, SignInAttempt
  <1>7. StillRuns'
    BY <1>1, <1>2, <1>5, <1>6 DEF DropExpired, LockoutInv, StillRuns, TypeInv
  <1> QED BY <1>1, <1>2, <1>4, <1>5, <1>7, QuietInv DEF DropExpired

LEMMA IdleStepInv ==
  ASSUME TypeInv, TypeInv', LockoutInv,
         Tick \/ Purge \/ (\E e \in Emails : DropPassword(e)) \/ UNCHANGED vars
  PROVE  LockoutInv'
  <1>1. /\ attempts' \subseteq attempts /\ now <= now'
        /\ UNCHANGED <<accounts, req, created, warned, died, overdue>>
        /\ now' # now => \A r \in Requests \ Slow : req[r].pc # "count"
    BY DEF Tick, Purge, DropPassword, vars, TypeInv
  <1>2. WithinBound'
    BY <1>1 DEF LockoutInv, WithinBound, MayCount
  <1>3. StillRuns'
    <2>1. \A r \in Requests : req[r].asked \in Nat /\ req[r].since \in Nat
      BY DEF TypeInv, RequestsOK, Request
    <2> QED BY <1>1, <2>1 DEF LockoutInv, StillRuns, TypeInv
  <1> QED BY <1>1, <1>2, <1>3, QuietInv

-----------------------------------------------------------------------------
(* The ends of a request that is to warn *)

\* The request sends the warning, finds nobody to send it to, or dies.
LEMMA WarnEndsInv ==
  ASSUME TypeInv, TypeInv', LockoutInv, NEW r \in Requests, req[r].pc = "warn", End(r),
         UNCHANGED <<now, accounts, attempts, created, overdue>>,
         \/ /\ req[r].email \in accounts
            /\ warned' = [warned EXCEPT ![req[r].id] = @ + 1] /\ UNCHANGED died
         \/ req[r].email \notin accounts /\ UNCHANGED <<warned, died>>
         \/ UNCHANGED warned /\ died' = Append(died, req[r].id)
  PROVE  LockoutInv'
  <1>1. PICK i : i = req[r].id
    OBVIOUS
  <1>2. /\ req'[r].pc = "idle" /\ req'[r].since = 0 /\ req'[r].asked = 0
        /\ \A q \in Requests : q # r => req'[q] = req[q]
    BY DEF End, Idle, TypeInv, RequestsOK
  <1>3. i \in 1..created /\ created \in Nat
    BY <1>1 DEF LockoutInv, NoEarlyWarning, TypeInv
  <1>4. created <= MaxRecords + Cardinality(Requests)
    BY MayCountIsFinite, SignInLockoutAssumption DEF LockoutInv, WithinBound, TypeInv
  <1>5. i \in Ids
    BY <1>3, <1>4, MayCountIsFinite, SignInLockoutAssumption DEF Ids
  <1>6. CountersAreUnique'
    BY DEF LockoutInv, CountersAreUnique
  <1>7. WithinBound'
    <2>1. MayCount' \subseteq MayCount
      BY <1>2 DEF MayCount
    <2> QED BY <2>1, FewerMayCount DEF LockoutInv, TypeInv
  <1>8. NoEarlyWarning'
    <2>1. ASSUME NEW j \in Ids, j > created' PROVE warned'[j] = 0
      <3>1. warned[j] = 0 /\ j # i
        BY <1>3, <2>1 DEF LockoutInv, NoEarlyWarning
      <3> QED BY <1>1, <2>1, <3>1 DEF TypeInv
    <2>2. \A q \in Requests : req'[q].pc = "warn" => req'[q].id \in 1..created'
      BY <1>2 DEF LockoutInv, NoEarlyWarning
    <2> QED BY <2>1, <2>2 DEF NoEarlyWarning
  <1>9. StillRuns'
    <2>1. 0 <= now
      BY DEF TypeInv
    <2> QED BY <1>2, <2>1 DEF LockoutInv, StillRuns
  <1>10. \A j \in DOMAIN died : j \in DOMAIN died' /\ died'[j] = died[j]
    <2>1. i \in Nat
      BY <1>3
    <2> QED BY <1>1, <2>1, DiedGrows
  <1>11. ASSUME NEW a \in attempts' PROVE WarningIsOwed(a)'
    <2>1. WarningIsOwed(a) /\ a \in attempts
      BY DEF LockoutInv
    <2>2. Excused(a) => Excused(a)'
      BY <1>10 DEF Excused
    <2>3. CASE a.id = i
      <3>1. r \in Due(i)
        BY <1>1 DEF Due
      <3>2. /\ a.failedCount >= MaxFailed /\ warned[i] = 0
            /\ Due(i) = {r} /\ req[r].email = a.email
        BY <2>1, <2>3, <3>1 DEF WarningIsOwed
      <3>3. Due(i)' = {}
        BY <1>2, <3>2 DEF Due
      <3>4. CASE warned' = [warned EXCEPT ![i] = @ + 1]
        <4>1. warned'[i] = 1
          BY <1>5, <3>2, <3>4 DEF TypeInv
        <4> QED BY <2>3, <3>2, <3>3, <4>1 DEF WarningIsOwed
      <3>5. CASE req[r].email \notin accounts /\ UNCHANGED <<warned, died>>
        BY <2>3, <3>2, <3>3, <3>5 DEF WarningIsOwed, Excused
      <3>6. CASE UNCHANGED warned /\ died' = Append(died, i)
        <4>1. Len(died) + 1 \in DOMAIN died' /\ died'[Len(died) + 1] = i
          BY <1>3, <3>6 DEF TypeInv
        <4>2. Excused(a)'
          BY <2>3, <4>1 DEF Excused
        <4> QED BY <2>3, <3>2, <3>3, <3>6, <4>2 DEF WarningIsOwed
      <3> QED BY <1>1, <3>4, <3>5, <3>6
    <2>4. CASE a.id # i
      <3>1. Due(a.id)' = Due(a.id)
        BY <1>1, <1>2, <2>4 DEF Due
      <3>2. warned'[a.id] = warned[a.id]
        <4>1. a.id \in Ids
          BY <1>3, <1>4, <2>1, MayCountIsFinite, SignInLockoutAssumption
          DEF LockoutInv, CountersAreUnique, Ids
        <4> QED BY <1>1, <2>4, <4>1 DEF TypeInv
      <3>3. ASSUME NEW q \in Requests, Due(a.id) = {q} PROVE req'[q].email = req[q].email
        BY <1>1, <1>2, <2>4, <3>3 DEF Due
      <3> QED BY <2>1, <2>2, <3>1, <3>2, <3>3 DEF WarningIsOwed
    <2> QED BY <2>3, <2>4
  <1> QED BY <1>6, <1>7, <1>8, <1>9, <1>11 DEF LockoutInv

-----------------------------------------------------------------------------
(* The step that records a failure *)

\* Either the email's only counter goes up by one and slides, or a new one starts.
Bumped(e, a, d, sent) ==
    /\ AttemptsOf(e) = {d}
    /\ a = [d EXCEPT !.failedCount = @ + 1, !.expiresAt = sent + Window]
Started(e, a, sent) ==
    /\ AttemptsOf(e) = {}
    /\ a = [id |-> created + 1, email |-> e, failedCount |-> 1, expiresAt |-> sent + Window]

LEMMA CountedIs ==
  ASSUME TypeInv, LockoutInv, NEW e \in Emails, NEW sent \in Nat
  PROVE  Started(e, Counted(e, sent), sent) \/ \E d \in attempts : Bumped(e, Counted(e, sent), d, sent)
  <1>1. CASE AttemptsOf(e) = {}
    BY <1>1 DEF Counted, Started
  <1>2. CASE AttemptsOf(e) # {}
    <2>1. PICK d \in AttemptsOf(e) : d = CHOOSE a \in AttemptsOf(e) : TRUE
      BY <1>2
    <2>2. AttemptsOf(e) = {d} /\ d \in attempts
      BY <2>1 DEF AttemptsOf, LockoutInv, CountersAreUnique
    <2>3. Counted(e, sent) = [d EXCEPT !.failedCount = @ + 1, !.expiresAt = sent + Window]
      BY <1>2, <2>1 DEF Counted
    <2> QED BY <2>2, <2>3 DEF Bumped
  <1> QED BY <1>1, <1>2

\* What RecordFailure does, in terms of the email and the counter it ends up with.
Records(r, e, a, sent) ==
    /\ req[r].pc = "count" /\ req[r].email = e
    /\ req[r].since <= sent /\ sent <= now
    /\ attempts' = (attempts \ AttemptsOf(e)) \cup {a}
    /\ created' = IF AttemptsOf(e) = {} THEN created + 1 ELSE created
    /\ overdue' = IF a.expiresAt <= now THEN overdue \cup {a.id} ELSE overdue \ {a.id}
    /\ \A q \in Requests : q # r => req'[q] = req[q]
    /\ req'[r].since = 0 /\ req'[r].asked = 0
    /\ \/ Warns(a) /\ req'[r].pc = "warn" /\ req'[r].id = a.id /\ req'[r].email = e
       \/ ~ Warns(a) /\ req'[r].pc = "idle"
    /\ UNCHANGED <<now, accounts, warned, died>>

LEMMA RecordFailureIs ==
  ASSUME TypeInv, LockoutInv, NEW r \in Requests, RecordFailure(r)
  PROVE  \E e \in Emails, a \in SignInAttempt, sent \in Nat :
            /\ Records(r, e, a, sent)
            /\ Started(e, a, sent) \/ \E d \in attempts : Bumped(e, a, d, sent)
  <1>1. PICK e : e = req[r].email
    OBVIOUS
  <1>2. e \in Emails
    BY <1>1 DEF RecordFailure, TypeInv, RequestsOK, Knows
  <1>3. PICK sent \in req[r].since..now :
           LET a == Counted(e, sent)
           IN  /\ attempts' = (attempts \ AttemptsOf(e)) \cup {a}
               /\ created' = IF AttemptsOf(e) = {} THEN created + 1 ELSE created
               /\ overdue' = IF a.expiresAt <= now THEN overdue \cup {a.id} ELSE overdue \ {a.id}
               /\ IF Warns(a)
                    THEN req' = [req EXCEPT ![r] = [@ EXCEPT !.pc = "warn", !.id = a.id,
                                                             !.asked = 0, !.since = 0]]
                    ELSE End(r)
    BY <1>1 DEF RecordFailure
  <1>4. PICK a : a = Counted(e, sent)
    OBVIOUS
  <1>5. sent \in Nat /\ req[r].since <= sent /\ sent <= now
    <2>1. req[r].since \in Nat /\ now \in Nat
      BY DEF TypeInv, RequestsOK, Request
    <2> QED BY <2>1
  <1>6. a \in SignInAttempt
    BY <1>2, <1>4, <1>5, CountedType
  <1>7. \/ /\ Warns(a)
           /\ req' = [req EXCEPT ![r] = [req[r] EXCEPT !.pc = "warn", !.id = a.id,
                                                       !.asked = 0, !.since = 0]]
        \/ ~ Warns(a) /\ req' = [req EXCEPT ![r] = Idle]
    BY <1>3, <1>4 DEF End
  <1>8. \/ Warns(a) /\ req'[r].pc = "warn" /\ req'[r].id = a.id /\ req'[r].email = e
           /\ req'[r].since = 0 /\ req'[r].asked = 0
        \/ ~ Warns(a) /\ req'[r].pc = "idle" /\ req'[r].since = 0 /\ req'[r].asked = 0
    <2> DEFINE v == [req[r] EXCEPT !.pc = "warn", !.id = a.id, !.asked = 0, !.since = 0]
    <2>1. v.pc = "warn" /\ v.id = a.id /\ v.email = e /\ v.since = 0 /\ v.asked = 0
      BY <1>1 DEF TypeInv, RequestsOK, Request
    <2>2. Idle.pc = "idle" /\ Idle.since = 0 /\ Idle.asked = 0
      BY DEF Idle
    <2>3. \/ Warns(a) /\ req' = [req EXCEPT ![r] = v]
          \/ ~ Warns(a) /\ req' = [req EXCEPT ![r] = Idle]
      BY <1>7
    <2> HIDE DEF v, Idle
    <2> QED BY <2>1, <2>2, <2>3 DEF TypeInv, RequestsOK
  <1>9. \A q \in Requests : q # r => req'[q] = req[q]
    BY <1>7 DEF TypeInv, RequestsOK
  <1>10. Records(r, e, a, sent)
    BY <1>1, <1>3, <1>4, <1>5, <1>8, <1>9 DEF RecordFailure, Records
  <1> QED BY <1>2, <1>4, <1>5, <1>6, <1>10, CountedIs

LEMMA RecordsWithinBound ==
  ASSUME TypeInv, LockoutInv, NEW r \in Requests, NEW e, NEW a \in SignInAttempt, NEW sent \in Nat,
         Records(r, e, a, sent)
  PROVE  /\ WithinBound'
         /\ created + 1 <= MaxRecords + Cardinality(Requests)
         /\ created' \in created..(created + 1)
  <1>1. r \in MayCount /\ MayCount' = MayCount \ {r}
    BY DEF MayCount, Records
  <1>2. Cardinality(MayCount') = Cardinality(MayCount) - 1
    BY <1>1, MayCountIsFinite, FS_RemoveElement
  <1>3. Cardinality(MayCount) >= 1
    BY <1>1, MayCountIsFinite, FS_EmptySet
  <1>4. created + Cardinality(MayCount) <= MaxRecords + Cardinality(Requests)
    BY DEF LockoutInv, WithinBound
  <1>5. created' \in created..(created + 1)
    BY DEF Records, TypeInv
  <1> QED BY <1>2, <1>3, <1>4, <1>5, MayCountIsFinite, SignInLockoutAssumption
      DEF WithinBound, TypeInv

\* The counter of the failure: below the limit nobody is to warn; the failure that
\* reaches the limit leaves the warning to its own request; later ones change nothing.
LEMMA RecordsOwes ==
  ASSUME TypeInv, LockoutInv, NEW r \in Requests, NEW e \in Emails, NEW a \in SignInAttempt,
         NEW sent \in Nat, Records(r, e, a, sent), Started(e, a, sent) \/ \E d \in attempts : Bumped(e, a, d, sent)
  PROVE  WarningIsOwed(a)'
  <1> USE DEF SignInAttempt
  <1>0. MaxFailed \in Nat \ {0}
    BY SignInLockoutAssumption
  <1>1. CASE Started(e, a, sent)
    <2>0. created + 1 <= MaxRecords + Cardinality(Requests)
      BY RecordsWithinBound
    <2>1. a.failedCount = 1 /\ a.id = created + 1 /\ a.id \in Ids /\ a.email = e
      BY <1>1, <2>0, MayCountIsFinite, SignInLockoutAssumption DEF Started, TypeInv, Ids
    <2>2. warned'[a.id] = 0
      BY <2>1 DEF LockoutInv, NoEarlyWarning, Records, TypeInv
    <2>3. \A q \in Requests : q # r /\ req'[q].pc = "warn" => req'[q].id # a.id
      BY <2>1 DEF Records, LockoutInv, NoEarlyWarning, TypeInv
    <2>4. CASE MaxFailed = 1
      <3>1. req'[r].pc = "warn" /\ req'[r].id = a.id /\ req'[r].email = a.email
        BY <2>1, <2>4 DEF Records, Warns
      <3>2. Due(a.id)' = {r}
        BY <2>3, <3>1 DEF Due
      <3> QED BY <2>1, <2>2, <2>4, <3>1, <3>2 DEF WarningIsOwed
    <2>5. CASE MaxFailed # 1
      <3>1. req'[r].pc = "idle"
        BY <2>1, <2>5 DEF Records, Warns
      <3>2. Due(a.id)' = {}
        BY <2>3, <3>1 DEF Due
      <3> QED BY <1>0, <2>1, <2>2, <2>5, <3>2 DEF WarningIsOwed
    <2> QED BY <2>4, <2>5
  <1>2. ASSUME NEW d \in attempts, Bumped(e, a, d, sent) PROVE WarningIsOwed(a)'
    <2>1. /\ d.failedCount \in Nat /\ a.failedCount = d.failedCount + 1
          /\ a.id = d.id /\ a.email = d.email /\ d.email = e
      BY <1>2 DEF Bumped, TypeInv, AttemptsOf
    <2>2. WarningIsOwed(d) /\ warned' = warned
      BY DEF LockoutInv, Records
    <2>3. Excused(d) => Excused(a)'
      BY <2>1 DEF Excused, Records
    <2>4. CASE a.failedCount = MaxFailed
      <3>1. req'[r].pc = "warn" /\ req'[r].id = d.id /\ req'[r].email = a.email
        BY <2>1, <2>4 DEF Records, Warns
      <3>2. Due(d.id) = {} /\ warned[d.id] = 0
        BY <1>0, <2>1, <2>2, <2>4 DEF WarningIsOwed
      <3>3. Due(d.id)' = {r}
        BY <3>1, <3>2 DEF Due, Records
      <3> QED BY <1>0, <2>1, <2>2, <2>4, <3>1, <3>2, <3>3 DEF WarningIsOwed
    <2>5. CASE a.failedCount # MaxFailed
      <3>1. req'[r].pc # "warn"
        BY <2>5 DEF Records, Warns
      <3>2. Due(d.id)' = Due(d.id)
        BY <3>1 DEF Due, Records
      <3>3. ASSUME NEW q \in Requests, Due(d.id) = {q} PROVE req'[q].email = req[q].email
        <4>1. q # r
          BY <3>3 DEF Due, Records
        <4> QED BY <4>1 DEF Records
      <3>4. CASE d.failedCount < MaxFailed
        <4>1. a.failedCount < MaxFailed
          BY <1>0, <2>1, <2>5, <3>4
        <4> QED BY <1>0, <2>1, <2>2, <3>2, <3>4, <4>1 DEF WarningIsOwed
      <3>5. CASE d.failedCount >= MaxFailed
        <4>1. a.failedCount >= MaxFailed
          BY <1>0, <2>1, <3>5
        <4> QED BY <1>0, <2>1, <2>2, <2>3, <3>2, <3>3, <3>5, <4>1 DEF WarningIsOwed
      <3> QED BY <1>0, <2>1, <3>4, <3>5
    <2> QED BY <2>4, <2>5
  <1> QED BY <1>1, <1>2

LEMMA RecordFailureInv ==
  ASSUME TypeInv, TypeInv', LockoutInv, NEW r \in Requests, RecordFailure(r)
  PROVE  LockoutInv'
  <1>1. PICK e \in Emails, a \in SignInAttempt, sent \in Nat :
           /\ Records(r, e, a, sent)
           /\ Started(e, a, sent) \/ \E d \in attempts : Bumped(e, a, d, sent)
    BY RecordFailureIs
  <1>2. /\ WithinBound' /\ created' \in created..(created + 1)
    BY <1>1, RecordsWithinBound
  <1>3. /\ a.email = e /\ a.id \in 1..created' /\ a.expiresAt = sent + Window
        /\ \A b \in attempts : b.email # e => b.id # a.id
    <2>1. CASE Started(e, a, sent)
      BY <1>1, <2>1 DEF Started, Records, LockoutInv, CountersAreUnique, TypeInv
    <2>2. ASSUME NEW d \in attempts, Bumped(e, a, d, sent)
          PROVE  /\ a.email = e /\ a.id \in 1..created' /\ a.expiresAt = sent + Window
                 /\ \A b \in attempts : b.email # e => b.id # a.id
      <3>1. /\ d.email = e /\ a.id = d.id /\ a.email = e /\ created' = created
            /\ a.expiresAt = sent + Window
        BY <1>1, <2>2 DEF Bumped, AttemptsOf, Records, TypeInv, SignInAttempt
      <3> QED BY <3>1 DEF LockoutInv, CountersAreUnique
    <2> QED BY <1>1, <2>1, <2>2
  <1>4. attempts' = (attempts \ AttemptsOf(e)) \cup {a} /\ UNCHANGED <<now, warned, accounts, died>>
    BY <1>1 DEF Records
  <1>5. \A b \in attempts' : b # a => b \in attempts /\ b.email # e /\ b.id # a.id
    BY <1>3, <1>4 DEF AttemptsOf
  <1>6. CountersAreUnique'
    <2>1. \A b \in attempts' : b.id \in 1..created'
      BY <1>2, <1>3, <1>5 DEF LockoutInv, CountersAreUnique, TypeInv
    <2>2. \A b, c \in attempts' : b.email = c.email \/ b.id = c.id => b = c
      BY <1>3, <1>5 DEF LockoutInv, CountersAreUnique
    <2> QED BY <2>1, <2>2 DEF CountersAreUnique
  <1>7. NoEarlyWarning'
    <2>1. created \in Nat /\ created' \in Nat /\ created <= created'
      BY <1>2 DEF TypeInv
    <2>2. \A i \in Ids : i > created' => warned'[i] = 0
      BY <1>4, <2>1 DEF LockoutInv, NoEarlyWarning, Ids
    <2>3. ASSUME NEW q \in Requests, req'[q].pc = "warn" PROVE req'[q].id \in 1..created'
      <3>1. CASE q = r
        BY <1>1, <1>3, <2>3, <3>1 DEF Records
      <3>2. CASE q # r
        BY <1>1, <2>1, <2>3, <3>2 DEF Records, LockoutInv, NoEarlyWarning
      <3> QED BY <3>1, <3>2
    <2> QED BY <2>2, <2>3 DEF NoEarlyWarning
  <1>8. ASSUME NEW b \in attempts' PROVE WarningIsOwed(b)'
    <2>1. CASE b = a
      BY <1>1, <2>1, RecordsOwes
    <2>2. CASE b # a
      <3>1. b \in attempts /\ b.id # a.id
        BY <1>5, <2>2
      <3>2. Due(b.id)' = Due(b.id)
        BY <1>1, <3>1 DEF Due, Records
      <3>3. Excused(b) => Excused(b)'
        BY <1>4 DEF Excused
      <3>4. ASSUME NEW q \in Requests, Due(b.id) = {q} PROVE req'[q].email = req[q].email
        BY <1>1, <3>4 DEF Due, Records
      <3>5. WarningIsOwed(b)
        BY <3>1 DEF LockoutInv
      <3> QED BY <1>4, <3>2, <3>3, <3>4, <3>5 DEF WarningIsOwed
    <2> QED BY <2>1, <2>2
  <1>9. StillRuns'
    <2>1. ASSUME NEW q \in Requests, req'[q].pc = "count",
                 NEW b \in attempts', b.email = req'[q].email
          PROVE  req'[q].asked < b.expiresAt \/ b.id \in overdue'
      <3>1. q # r /\ req'[q] = req[q]
        BY <1>1, <2>1 DEF Records
      <3>2. \A c \in attempts : c.email = req[q].email => req[q].asked < c.expiresAt \/ c.id \in overdue
        BY <2>1, <3>1 DEF LockoutInv, StillRuns
      <3>3. CASE b # a
        BY <1>1, <1>5, <2>1, <3>1, <3>2, <3>3 DEF Records
      <3>4. CASE b = a
        <4>1. req[q].asked \in Nat /\ req[q].asked <= now /\ now \in Nat /\ a.expiresAt \in Nat
          BY DEF TypeInv, RequestsOK, Request, LockoutInv, StillRuns, SignInAttempt
        <4>2. a.expiresAt <= now => a.id \in overdue'
          BY <1>1 DEF Records
        <4> QED BY <3>1, <3>4, <4>1, <4>2
      <3> QED BY <3>3, <3>4
    <2>2. \A q \in Requests : req'[q].since <= now /\ req'[q].asked <= now
      BY <1>1 DEF Records, LockoutInv, StillRuns, TypeInv
    <2>3. \A q \in Requests \ Slow : req'[q].pc = "count" => req'[q].since = now
      BY <1>1 DEF Records, LockoutInv, StillRuns
    <2> QED BY <1>4, <2>1, <2>2, <2>3 DEF StillRuns
  <1> QED BY <1>2, <1>6, <1>7, <1>8, <1>9 DEF LockoutInv

-----------------------------------------------------------------------------
(* All steps *)

LEMMA StepInv ==
  ASSUME TypeInv, TypeInv', LockoutInv, NEW r \in Requests, Step(r)
  PROVE  LockoutInv'
  <1>1. CASE VerifyPassword(r)
    <2>1. CASE WrongPassword(r)
      BY <1>1, <2>1, WrongPasswordInv DEF VerifyPassword
    <2>2. CASE UNCHANGED tries /\ Goto(r, Proceed(req[r].op))
      <3>1. PICK l \in Labels \ {"warn", "count"} : l = Proceed(req[r].op)
        BY DEF Proceed, Labels
      <3> QED BY <1>1, <2>2, <3>1, GotoInv DEF VerifyPassword
    <2> QED BY <1>1, <2>1, <2>2 DEF VerifyPassword
  <1>2. CASE ReplacePassword(r)
    BY <1>2, GotoInv, EndInv DEF ReplacePassword, Labels
  <1>3. CASE DropUser(r)
    BY <1>3, GotoInv DEF DropUser, Labels
  <1>4. CASE Reset(r)
    BY <1>4, EndInv DEF Reset
  <1>5. CASE DropExpired(r)
    BY <1>5, DropExpiredInv
  <1>6. CASE RecordFailure(r)
    BY <1>6, RecordFailureInv
  <1>7. CASE NotifyAccountOwner(r)
    BY <1>7, WarnEndsInv DEF NotifyAccountOwner
  <1> QED BY <1>1, <1>2, <1>3, <1>4, <1>5, <1>6, <1>7 DEF Step

LEMMA FailInv ==
  ASSUME TypeInv, TypeInv', LockoutInv, NEW r \in Requests, Fail(r)
  PROVE  LockoutInv'
  <1>1. CASE req[r].pc = "warn"
    BY <1>1, WarnEndsInv DEF Fail
  <1>2. CASE req[r].pc # "warn"
    <2>1. req[r].id \in Nat
      BY DEF TypeInv, RequestsOK, Request
    <2>2. \A i \in DOMAIN died : i \in DOMAIN died' /\ died'[i] = died[i]
      BY <2>1, DiedGrows DEF Fail
    <2> QED BY <1>2, <2>2, EndInv DEF Fail
  <1> QED BY <1>1, <1>2

LEMMA NextInv ==
  ASSUME TypeInv, TypeInv', LockoutInv, [Next]_vars
  PROVE  LockoutInv'
  BY StepInv, FailInv, AttemptInv, IdleStepInv DEF Next

LEMMA InvHolds == Spec => [](TypeInv /\ LockoutInv)
  <1>1. Init => TypeInv /\ LockoutInv
    BY InitType, InitInv
  <1>2. TypeInv /\ LockoutInv /\ [Next]_vars => (TypeInv /\ LockoutInv)'
    BY NextType, NextInv
  <1> QED BY <1>1, <1>2, PTL DEF Spec

-----------------------------------------------------------------------------
(* The theorems *)

\* Every counter that reaches the limit warns the owner once, or is about to, however
\* many failures overlap and arrive later - unless the request that is to warn dies.
THEOREM WarnedOnce == Spec => []OwnerIsWarnedOnce
  <1>1. TypeInv /\ LockoutInv => OwnerIsWarnedOnce
    <2> SUFFICES ASSUME TypeInv, LockoutInv, NEW a \in attempts
                 PROVE  /\ warned[a.id] + Cardinality(Due(a.id)) <= 1
                        /\ a.email \in accounts /\ a.failedCount >= MaxFailed =>
                              \/ warned[a.id] + Cardinality(Due(a.id)) = 1
                              \/ \E i \in DOMAIN died : died[i] = a.id
      BY DEF OwnerIsWarnedOnce, Due
    <2>1. WarningIsOwed(a) /\ a.failedCount \in Nat /\ MaxFailed \in Nat
      BY SignInLockoutAssumption DEF LockoutInv, TypeInv, SignInAttempt
    <2>2. CASE Due(a.id) = {}
      <3>1. Cardinality(Due(a.id)) = 0 /\ \A r \in Requests : Due(a.id) # {r}
        BY <2>2, FS_EmptySet
      <3> QED BY <2>1, <3>1 DEF WarningIsOwed, Excused
    <2>3. ASSUME NEW r \in Requests, Due(a.id) = {r}
          PROVE  warned[a.id] + Cardinality(Due(a.id)) = 1
      <3>1. Cardinality(Due(a.id)) = 1 /\ Due(a.id) # {}
        BY <2>3, FS_Singleton
      <3>2. warned[a.id] = 0
        BY <2>1, <3>1 DEF WarningIsOwed
      <3> QED BY <3>1, <3>2
    <2> QED BY <2>1, <2>2, <2>3 DEF WarningIsOwed
  <1> QED BY <1>1, InvHolds, PTL

\* Steps that leave an email's running counter alone leave it locked.
LEMMA LockStays ==
  ASSUME NEW e \in Emails, Locked(e), now' = now,
         \A a \in AttemptsOf(e) : now < a.expiresAt => a \in attempts'
  PROVE  Locked(e)'
  BY DEF Locked, AttemptsOf

\* A failure that is counted keeps a locked email locked, and for longer, if it took
\* less than the window to arrive.
LEMMA FailureKeepsLock ==
  ASSUME TypeInv, LockoutInv, NEW r \in Requests, RecordFailure(r), NEW e \in Emails, Locked(e),
         ~ (req[r].email = e /\ req[r].since + Window <= now)
  PROVE  Locked(e)'
  <1>1. PICK f \in Emails, a \in SignInAttempt, sent \in Nat :
           /\ Records(r, f, a, sent)
           /\ Started(f, a, sent) \/ \E d \in attempts : Bumped(f, a, d, sent)
    BY RecordFailureIs
  <1>2. PICK b \in AttemptsOf(e) : b.failedCount >= MaxFailed /\ now < b.expiresAt
    BY DEF Locked
  <1>3. CASE f # e
    BY <1>1, <1>3, LockStays DEF Records, AttemptsOf
  <1>4. CASE f = e
    <2>1. PICK d \in attempts : Bumped(e, a, d, sent)
      BY <1>1, <1>2, <1>4 DEF Started
    <2>2. d = b /\ d \in SignInAttempt /\ d.email = e
      BY <1>2, <2>1 DEF Bumped, AttemptsOf, TypeInv
    <2>3. a.failedCount = d.failedCount + 1 /\ a.expiresAt = sent + Window /\ a.email = e
      BY <2>1, <2>2 DEF Bumped, SignInAttempt
    <2>4. /\ now < req[r].since + Window /\ req[r].since <= sent
          /\ req[r].since \in Nat /\ now \in Nat
      BY <1>1, <1>4, SignInLockoutAssumption DEF Records, TypeInv, RequestsOK, Request
    <2>5. a.failedCount >= MaxFailed /\ now < a.expiresAt
      BY <1>2, <2>2, <2>3, <2>4, SignInLockoutAssumption DEF SignInAttempt
    <2>6. a \in AttemptsOf(e)'
      BY <1>1, <2>3 DEF Records, AttemptsOf
    <2>7. now' = now
      BY DEF RecordFailure
    <2> QED BY <2>5, <2>6, <2>7 DEF Locked
  <1> QED BY <1>3, <1>4

\* Before its window ends, only a right password lifts a lock, or a failure that took as
\* long as the window to arrive: no other step that records one, drops what ran out or
\* cleans up does, for this or another email.
THEOREM LockOutlives == Spec => LockOutlivesGuessing
  <1>1. TypeInv /\ LockoutInv /\ [Next]_vars =>
          \A e \in Emails : Locked(e) /\ now' = now /\ ~ Locked(e)' =>
             \E r \in Requests : /\ req[r].email = e
                                 /\ \/ Reset(r)
                                    \/ RecordFailure(r) /\ req[r].since + Window <= now
    <2> SUFFICES ASSUME TypeInv, LockoutInv, [Next]_vars, NEW e \in Emails, Locked(e), now' = now,
                        \A r \in Requests :
                           req[r].email = e =>
                              ~ Reset(r) /\ ~ (RecordFailure(r) /\ req[r].since + Window <= now)
                 PROVE  Locked(e)'
      OBVIOUS
    <2>1. ASSUME NEW r \in Requests, RecordFailure(r) PROVE Locked(e)'
      BY <2>1, FailureKeepsLock
    <2>2. ASSUME NEW r \in Requests, DropExpired(r) PROVE Locked(e)'
      <3>1. req[r].asked \in Nat /\ req[r].asked <= now /\ now \in Nat
        BY DEF TypeInv, RequestsOK, Request, LockoutInv, StillRuns
      <3> QED BY <2>2, <3>1, LockStays DEF DropExpired, RanOut, AttemptsOf, TypeInv, SignInAttempt
    <2>3. ASSUME NEW r \in Requests, Reset(r) PROVE Locked(e)'
      BY <2>3, LockStays DEF Reset, AttemptsOf
    <2>4. CASE Purge
      BY <2>4, LockStays DEF Purge, AttemptsOf, TypeInv, SignInAttempt
    <2>5. CASE UNCHANGED attempts
      BY <2>5, LockStays DEF AttemptsOf
    <2>6. ASSUME NEW r \in Requests, Step(r) \/ Fail(r) PROVE Locked(e)'
      BY <2>1, <2>2, <2>3, <2>5, <2>6
      DEF Step, Fail, VerifyPassword, ReplacePassword, DropUser, NotifyAccountOwner
    <2>7. ASSUME NEW r \in Requests, NEW f \in Emails, NEW op \in Handlers, Attempt(r, f, op)
          PROVE  Locked(e)'
      BY <2>5, <2>7 DEF Attempt
    <2>8. CASE Tick \/ (\E f \in Emails : DropPassword(f)) \/ UNCHANGED vars
      BY <2>5, <2>8 DEF Tick, DropPassword, vars
    <2> QED BY <2>4, <2>6, <2>7, <2>8 DEF Next
  <1> QED BY <1>1, InvHolds, PTL DEF Spec, LockOutlivesGuessing

\* No step locks an email by what it takes away or by letting time pass.
LEMMA LockIsNew ==
  ASSUME TypeInv, now' \in Nat, now <= now', NEW e \in Emails, attempts' \subseteq attempts, Locked(e)'
  PROVE  Locked(e)
  BY DEF Locked, AttemptsOf, TypeInv, SignInAttempt

\* The step that locks an email is the count of a failure, and its request goes on to
\* warn the owner - unless it counts on a counter over the limit that ran out after the
\* request asked to have it dropped, or that an overdue failure had ended.
THEOREM LockWarns == Spec => LockEngagesWithWarning
  <1>1. TypeInv /\ TypeInv' /\ LockoutInv /\ [Next]_vars =>
          \A e \in Emails : ~ Locked(e) /\ Locked(e)' =>
             \E r \in Requests :
                 /\ req[r].pc = "count" /\ req[r].email = e
                 /\ \/ req'[r].pc = "warn"
                    \/ \E a \in AttemptsOf(e) :
                          /\ a.failedCount >= MaxFailed
                          /\ req[r].asked < a.expiresAt \/ a.id \in overdue
    <2> SUFFICES ASSUME TypeInv, TypeInv', LockoutInv, [Next]_vars,
                        NEW e \in Emails, ~ Locked(e), Locked(e)'
                 PROVE  \E r \in Requests :
                           /\ req[r].pc = "count" /\ req[r].email = e
                           /\ \/ req'[r].pc = "warn"
                              \/ \E a \in AttemptsOf(e) :
                                    /\ a.failedCount >= MaxFailed
                                    /\ req[r].asked < a.expiresAt \/ a.id \in overdue
      OBVIOUS
    <2>1. PICK r \in Requests : RecordFailure(r)
      <3>1. ~ (attempts' \subseteq attempts /\ now <= now')
        BY LockIsNew DEF TypeInv
      <3>2. now <= now'
        <4>1. UNCHANGED now \/ Tick
          BY DEF Next, Step, VerifyPassword, ReplacePassword, DropUser, Reset, DropExpired,
                 RecordFailure, NotifyAccountOwner, Fail, Attempt, DropPassword, Purge, vars
        <4> QED BY <4>1 DEF Tick, TypeInv
      <3> QED BY <3>1, <3>2
          DEF Next, Step, VerifyPassword, ReplacePassword, DropUser, Reset, DropExpired,
              NotifyAccountOwner, Fail, Attempt, DropPassword, Tick, Purge, vars
    <2>2. PICK f \in Emails, a \in SignInAttempt, sent \in Nat :
             /\ Records(r, f, a, sent)
             /\ Started(f, a, sent) \/ \E d \in attempts : Bumped(f, a, d, sent)
      BY <2>1, RecordFailureIs
    <2>3. PICK b \in attempts' : b.email = e /\ b.failedCount >= MaxFailed /\ now < b.expiresAt
      BY <2>2 DEF Locked, AttemptsOf, Records
    <2>4. b = a
      BY <2>2, <2>3 DEF Records, Locked, AttemptsOf
    <2>5. a.email = f
      <3>1. CASE Started(f, a, sent)
        BY <3>1 DEF Started
      <3>2. ASSUME NEW d \in attempts, Bumped(f, a, d, sent) PROVE a.email = f
        <4>1. d \in SignInAttempt /\ d.email = f
          BY <3>2 DEF Bumped, AttemptsOf, TypeInv
        <4> QED BY <3>2, <4>1 DEF Bumped, SignInAttempt
      <3> QED BY <2>2, <3>1, <3>2
    <2>6. f = e /\ a.failedCount \in Nat /\ MaxFailed \in Nat \ {0}
      BY <2>3, <2>4, <2>5, SignInLockoutAssumption DEF SignInAttempt
    <2>7. SUFFICES ASSUME \A d \in AttemptsOf(e) :
                             d.failedCount >= MaxFailed =>
                                ~ (req[r].asked < d.expiresAt \/ d.id \in overdue)
                   PROVE  req'[r].pc = "warn"
      BY <2>2, <2>6 DEF Records
    <2>8. a.failedCount = MaxFailed
      <3>1. CASE Started(f, a, sent)
        BY <2>3, <2>4, <2>6, <3>1 DEF Started
      <3>2. ASSUME NEW d \in attempts, Bumped(f, a, d, sent) PROVE a.failedCount = MaxFailed
        <4>1. d \in SignInAttempt /\ d.email = e /\ a.failedCount = d.failedCount + 1
          BY <2>6, <3>2 DEF Bumped, AttemptsOf, TypeInv, SignInAttempt
        <4>2. req[r].asked < d.expiresAt \/ d.id \in overdue
          BY <2>2, <2>6, <4>1 DEF Records, LockoutInv, StillRuns
        <4>3. ~ (d.failedCount >= MaxFailed)
          BY <2>7, <4>1, <4>2 DEF AttemptsOf
        <4> QED BY <2>3, <2>4, <2>6, <4>1, <4>3 DEF SignInAttempt
      <3> QED BY <2>2, <3>1, <3>2
    <2> QED BY <2>2, <2>8 DEF Records, Warns
  <1> QED BY <1>1, InvHolds, PTL DEF Spec, LockEngagesWithWarning

-----------------------------------------------------------------------------
(* How many guesses a window sees *)

\* A wrong password tried for e at or after t is followed by its request until it is
\* counted, or by the note that its request died.  Verifying: those that may still
\* try one.
TriesSince(T, e, t) == {x \in T : x.email = e /\ t <= x.at}
TriesWithin(T, e, t) == {x \in T : x.email = e /\ t <= x.at /\ x.at < t + Window}
Waiting(q, e) == {r \in Requests : q[r].email = e /\ q[r].pc \in {"drop", "count"}}
Verifying(q, e) == {r \in Requests : q[r].email = e /\ q[r].pc = "verify"}
Uncounted(d) == {i \in DOMAIN d : d[i] = 0}

\* One of the counters A has counted n failures of e, the last of them since t.
Charged(A, e, t, n) ==
    n <= 0 \/ \E a \in A : a.email = e /\ t + Window <= a.expiresAt /\ n <= a.failedCount

\* What one counter lets a span see: the limit, and what had passed before the lock.
Base == MaxFailed - 1 + Cardinality(Requests)

\* The slow requests that dropped what had run out before t and have not counted yet:
\* the upsert of each may have been sent before t, and none of their wrong passwords
\* was tried since.
Late(q, e, t) == {r \in Slow : q[r].pc = "count" /\ q[r].email = e /\ q[r].since < t}

\* The upsert of a slow request that is not late any more may have moved the end of
\* the counter's window back to before the span's.
Spent(L) == Base * (Cardinality(Slow) - Cardinality(L))

\* The wrong passwords of a span no counter answers for: those of requests that died,
\* and those that were on a counter when its end was moved back.
Lost(q, d, e, t) == Cardinality(Uncounted(d)) + Spent(Late(q, e, t)) - Cardinality(Slow)

\* n wrong passwords since t, w requests waiting to count one, v that may still try
\* one, and d that are lost: what is not on a counter is still to come or lost, and a
\* request that may still try one had found the email open.
Span(A, e, t, n, w, v, d) == Charged(A, e, t, n - w - d) /\ n + v <= Base + d

GuessInv ==
    /\ \A x \in tries : x.at <= now
    /\ \A r \in Requests : req[r].pc \in {"verify", "drop", "count"} => req[r].id = 0
    /\ \A e \in Emails, t \in Nat :
          t <= now /\ now < t + Window =>
             Span(attempts, e, t, Cardinality(TriesSince(tries, e, t)), Cardinality(Waiting(req, e)),
                  Cardinality(Verifying(req, e)), Lost(req, died, e, t))

LEMMA CountsAreNat ==
  ASSUME NEW T, IsFiniteSet(T), NEW q, NEW d \in Seq(Nat), NEW e, NEW t
  PROVE  /\ Cardinality(TriesSince(T, e, t)) \in Nat
         /\ Cardinality(TriesWithin(T, e, t)) \in Nat
         /\ Cardinality(TriesWithin(T, e, t)) <= Cardinality(TriesSince(T, e, t))
         /\ Cardinality(Waiting(q, e)) \in Nat
         /\ Cardinality(Verifying(q, e)) \in Nat
         /\ Cardinality(Uncounted(d)) \in Nat /\ IsFiniteSet(Uncounted(d))
  <1>1. TriesSince(T, e, t) \subseteq T /\ TriesWithin(T, e, t) \subseteq TriesSince(T, e, t)
    BY DEF TriesSince, TriesWithin
  <1>2. Waiting(q, e) \subseteq Requests /\ Verifying(q, e) \subseteq Requests
    BY DEF Waiting, Verifying
  <1>3. IsFiniteSet(TriesSince(T, e, t)) /\ IsFiniteSet(TriesWithin(T, e, t))
    BY <1>1, FS_Subset
  <1>4. Uncounted(d) \subseteq 1..Len(d) /\ Len(d) \in Nat
    BY DEF Uncounted
  <1>5. IsFiniteSet(1..Len(d))
    <2>1. Len(d) \in Int /\ 1 \in Int
      BY <1>4
    <2> QED BY <2>1, FS_Interval
  <1>6. IsFiniteSet(Uncounted(d))
    BY <1>4, <1>5, FS_Subset
  <1>7. IsFiniteSet(Waiting(q, e)) /\ IsFiniteSet(Verifying(q, e))
    BY <1>2, FS_Subset, SignInLockoutAssumption
  <1> QED BY <1>1, <1>3, <1>6, <1>7, FS_Subset, FS_CardinalityType

\* Those that wait and those that verify are different requests of a set S.
LEMMA RoomWithin ==
  ASSUME NEW q, NEW e, NEW S \in SUBSET Requests,
         \A r \in Requests \ S : q[r].pc = "idle"
  PROVE  Cardinality(Waiting(q, e)) + Cardinality(Verifying(q, e)) <= Cardinality(S)
  <1> DEFINE W == Waiting(q, e)
             V == Verifying(q, e)
  <1>1. W \subseteq S /\ V \subseteq S /\ W \cap V = {}
    BY DEF Waiting, Verifying
  <1>2. IsFiniteSet(S) /\ Cardinality(S) \in Nat
    BY FS_Subset, FS_CardinalityType, SignInLockoutAssumption
  <1> HIDE DEF W, V
  <1>3. IsFiniteSet(W) /\ IsFiniteSet(V)
    BY <1>1, <1>2, FS_Subset
  <1>4. /\ IsFiniteSet(W \cup V)
        /\ Cardinality(W \cup V) = Cardinality(W) + Cardinality(V) - Cardinality(W \cap V)
    BY <1>3, FS_Union
  <1>5. Cardinality(W \cap V) = 0
    BY <1>1, FS_EmptySet
  <1>6. Cardinality(W \cup V) <= Cardinality(S)
    BY <1>1, <1>2, FS_Subset
  <1>7. Cardinality(W) \in Nat /\ Cardinality(V) \in Nat
    BY <1>3, FS_CardinalityType
  <1>8. Cardinality(W) + Cardinality(V) <= Cardinality(S)
    BY <1>2, <1>4, <1>5, <1>6, <1>7
  <1> QED BY <1>8 DEF W, V

\* A request that is doing something else has room beside those that wait and verify.
LEMMA RoomForOne ==
  ASSUME NEW q, NEW e, NEW r \in Requests, q[r].pc = "idle"
  PROVE  Cardinality(Waiting(q, e)) + Cardinality(Verifying(q, e)) + 1 <= Cardinality(Requests)
  <1>1. Cardinality(Waiting(q, e)) + Cardinality(Verifying(q, e)) <= Cardinality(Requests \ {r})
    BY RoomWithin
  <1>2. Cardinality(Requests \ {r}) = Cardinality(Requests) - 1 /\ Cardinality(Requests) \in Nat
    BY FS_RemoveElement, FS_CardinalityType, SignInLockoutAssumption
  <1>3. <<>> \in Seq(Nat) /\ IsFiniteSet({})
    BY FS_EmptySet
  <1>4. Cardinality(Waiting(q, e)) \in Nat /\ Cardinality(Verifying(q, e)) \in Nat
    BY <1>3, CountsAreNat
  <1> QED BY <1>1, <1>2, <1>4

-----------------------------------------------------------------------------
(* What late upserts may have moved *)

LEMMA BaseType ==
  /\ Base \in Nat /\ Cardinality(Requests) \in Nat /\ MaxFailed \in Nat \ {0}
  /\ IsFiniteSet(Slow) /\ Cardinality(Slow) \in Nat /\ Cardinality(Slow) <= Cardinality(Requests)
  /\ Cardinality(Requests) <= Base
  BY FS_Subset, FS_CardinalityType, SignInLockoutAssumption DEF Base

LEMMA TimesMono ==
  ASSUME NEW l \in Nat, NEW a \in Nat, NEW b \in Nat, a <= b
  PROVE  l * a \in Nat /\ l * b \in Nat /\ l * a <= l * b
  <1>1. PICK d \in Nat : b = a + d
    <2>1. b - a \in Nat /\ b = a + (b - a)
      OBVIOUS
    <2> QED BY <2>1
  <1>2. l * a \in Nat /\ l * d \in Nat
    OBVIOUS
  <1>3. l * b = l * a + l * d
    BY <1>1
  <1> QED BY <1>2, <1>3

\* No more upserts are late than there are slow requests.
LEMMA SpentType ==
  ASSUME NEW L \in SUBSET Slow
  PROVE  /\ IsFiniteSet(L) /\ Cardinality(L) \in Nat /\ Cardinality(L) <= Cardinality(Slow)
         /\ Spent(L) \in Nat /\ Spent(L) <= Base * Cardinality(Slow)
         /\ Cardinality(Slow) - Cardinality(L) <= Spent(L)
  <1>1. PICK s, l : s = Cardinality(Slow) /\ l = Cardinality(L)
    OBVIOUS
  <1>2. IsFiniteSet(L) /\ l \in Nat /\ l <= s /\ s \in Nat /\ s <= Base /\ Base \in Nat
    BY <1>1, BaseType, FS_Subset, FS_CardinalityType
  <1>3. s - l \in Nat /\ s - l <= s
    BY <1>2
  <1>4. Base * (s - l) \in Nat /\ Base * s \in Nat /\ Base * (s - l) <= Base * s
    BY <1>2, <1>3, TimesMono
  <1>5. s - l <= Base * (s - l)
    <2>1. PICK d \in Nat : d = s - l
      BY <1>3
    <2>2. CASE d = 0
      BY <1>4, <2>1, <2>2
    <2>3. CASE d # 0
      <3>1. 1 <= Base
        BY <1>2, <2>1, <2>3
      <3>2. d * 1 <= d * Base
        BY <1>2, <3>1, TimesMono
      <3>3. d * 1 = d /\ d * Base = Base * d
        BY <1>2
      <3> QED BY <2>1, <3>2, <3>3
    <2> QED BY <2>2, <2>3
  <1> QED BY <1>1, <1>2, <1>4, <1>5 DEF Spent

\* An upsert that was late and no longer is has spent what a counter lets a span see.
LEMMA LateOnesSpend ==
  ASSUME NEW M \in SUBSET Slow, NEW L \in SUBSET M
  PROVE  /\ Spent(M) <= Spent(L)
         /\ \A r \in M : r \notin L => Spent(M) + Base <= Spent(L)
  <1>1. PICK s, l, m : s = Cardinality(Slow) /\ l = Cardinality(L) /\ m = Cardinality(M)
    OBVIOUS
  <1>2. /\ s \in Nat /\ l \in Nat /\ m \in Nat /\ l <= s /\ m <= s
        /\ IsFiniteSet(M) /\ IsFiniteSet(L) /\ Base \in Nat
    BY <1>1, SpentType, BaseType
  <1>3. l <= m
    BY <1>1, <1>2, FS_Subset
  <1>4. Spent(M) = Base * (s - m) /\ Spent(L) = Base * (s - l)
    BY <1>1 DEF Spent
  <1>5. Base * (s - m) <= Base * (s - l)
    <2>1. s - l \in Nat /\ s - m \in Nat /\ s - m <= s - l
      BY <1>2, <1>3
    <2> QED BY <1>2, <2>1, TimesMono
  <1>6. ASSUME NEW r \in M, r \notin L
        PROVE  Base * (s - m) + Base <= Base * (s - l)
    <2>1. L \in SUBSET (M \ {r})
      BY <1>6
    <2>2. IsFiniteSet(M \ {r}) /\ Cardinality(M \ {r}) = m - 1
      BY <1>1, <1>2, <1>6, FS_RemoveElement
    <2>3. l <= m - 1
      BY <1>1, <2>1, <2>2, FS_Subset
    <2>4. s - m + 1 \in Nat /\ s - l \in Nat /\ s - m + 1 <= s - l
      BY <1>2, <2>3
    <2>5. Base * (s - m + 1) <= Base * (s - l)
      BY <1>2, <2>4, TimesMono
    <2>6. Base * (s - m + 1) = Base * (s - m) + Base
      BY <1>2
    <2> QED BY <2>5, <2>6
  <1> QED BY <1>4, <1>5, <1>6

LEMMA LostType ==
  ASSUME NEW q, NEW d \in Seq(Nat), NEW e, NEW t
  PROVE  /\ Lost(q, d, e, t) \in Int /\ Spent(Late(q, e, t)) \in Nat
         /\ Lost(q, d, e, t) <= Cardinality(Uncounted(d)) + Base * Cardinality(Slow) - Cardinality(Slow)
  <1>1. PICK L : L = Late(q, e, t)
    OBVIOUS
  <1>2. L \in SUBSET Slow
    BY <1>1 DEF Late
  <1>3. Spent(L) \in Nat /\ Spent(L) <= Base * Cardinality(Slow)
    BY <1>2, SpentType
  <1>4. Cardinality(Slow) \in Nat /\ Base \in Nat
    BY BaseType
  <1>5. Base * Cardinality(Slow) \in Nat
    BY <1>4
  <1>6. Cardinality(Uncounted(d)) \in Nat
    BY CountsAreNat, FS_EmptySet
  <1> QED BY <1>1, <1>3, <1>4, <1>5, <1>6 DEF Lost

\* One request moves, and is not late if it was not before.
LEMMA LateMoves ==
  ASSUME NEW q, NEW p, NEW r \in Requests, \A s \in Requests : s # r => p[s] = q[s], NEW e, NEW t,
         r \in Late(p, e, t) => r \in Late(q, e, t), NEW d \in Seq(Nat)
  PROVE  /\ Lost(q, d, e, t) <= Lost(p, d, e, t)
         /\ r \in Late(q, e, t) /\ r \notin Late(p, e, t) =>
               Lost(q, d, e, t) + Base <= Lost(p, d, e, t)
         /\ (r \in Late(q, e, t) <=> r \in Late(p, e, t)) => Lost(p, d, e, t) = Lost(q, d, e, t)
  <1>1. PICK M, L : M = Late(q, e, t) /\ L = Late(p, e, t)
    OBVIOUS
  <1>2. M \in SUBSET Slow /\ L \in SUBSET M /\ ((r \in M <=> r \in L) => L = M)
    BY <1>1, SignInLockoutAssumption DEF Late
  <1>3. /\ Spent(M) <= Spent(L)
        /\ r \in M /\ r \notin L => Spent(M) + Base <= Spent(L)
        /\ (r \in M <=> r \in L) => Spent(L) = Spent(M)
    BY <1>2, LateOnesSpend
  <1>4. Spent(M) \in Nat /\ Spent(L) \in Nat /\ Cardinality(Slow) \in Nat /\ Base \in Nat
    BY <1>2, SpentType, BaseType
  <1>5. Cardinality(Uncounted(d)) \in Nat
    BY CountsAreNat, FS_EmptySet
  <1> QED BY <1>1, <1>3, <1>4, <1>5 DEF Lost

\* A span nothing was tried in is within every bound.
LEMMA FreshSpan ==
  ASSUME NEW A, NEW q, NEW d \in Seq(Nat), NEW e, NEW t
  PROVE  Span(A, e, t, 0, Cardinality(Waiting(q, e)), Cardinality(Verifying(q, e)), Lost(q, d, e, t))
  <1>1. PICK L, W : L = Late(q, e, t) /\ W = Waiting(q, e)
    OBVIOUS
  <1>2. L \in SUBSET Slow /\ L \subseteq W /\ W \in SUBSET Requests
    BY <1>1, SignInLockoutAssumption DEF Late, Waiting
  <1>3. PICK l, w, y, s, v, u : /\ l = Cardinality(L) /\ w = Cardinality(W) /\ y = Spent(L)
                                /\ s = Cardinality(Slow) /\ v = Cardinality(Verifying(q, e))
                                /\ u = Cardinality(Uncounted(d))
    OBVIOUS
  <1>4. w \in Nat /\ v \in Nat /\ u \in Nat
    <2>1. IsFiniteSet({})
      BY FS_EmptySet
    <2> QED BY <1>1, <1>3, <2>1, CountsAreNat
  <1>5. l \in Nat /\ y \in Nat /\ s \in Nat /\ s - l <= y
    BY <1>2, <1>3, SpentType, BaseType
  <1>6. l <= w
    <2>1. IsFiniteSet(W)
      BY <1>2, FS_Subset, SignInLockoutAssumption
    <2> QED BY <1>2, <1>3, <2>1, FS_Subset
  <1>7. w + v <= Cardinality(Requests)
    BY <1>1, <1>3, RoomWithin
  <1>8. Lost(q, d, e, t) = u + y - s
    BY <1>1, <1>3 DEF Lost
  <1>9. 0 - w - (u + y - s) <= 0 /\ 0 + v <= Base + (u + y - s)
    BY <1>4, <1>5, <1>6, <1>7, BaseType
  <1> QED BY <1>1, <1>3, <1>8, <1>9 DEF Span, Charged

-----------------------------------------------------------------------------
(* The numbers of a span, step by step *)

\* One request joins a set of requests, leaves it, or neither.
LEMMA OneMoves ==
  ASSUME NEW S \in SUBSET Requests, NEW U \in SUBSET Requests, NEW r \in Requests,
         \A q \in Requests \ {r} : q \in S <=> q \in U
  PROVE  /\ r \in S /\ r \notin U => Cardinality(U) = Cardinality(S) - 1
         /\ r \notin S /\ r \in U => Cardinality(U) = Cardinality(S) + 1
         /\ (r \in S <=> r \in U) => U = S
  <1>1. IsFiniteSet(S) /\ IsFiniteSet(U)
    BY FS_Subset, SignInLockoutAssumption
  <1>2. CASE r \in S /\ r \notin U
    <2>1. U = S \ {r}
      BY <1>2
    <2> QED BY <1>1, <1>2, <2>1, FS_RemoveElement
  <1>3. CASE r \notin S /\ r \in U
    <2>1. U = S \cup {r}
      BY <1>3
    <2> QED BY <1>1, <1>3, <2>1, FS_AddElement
  <1>4. CASE r \in S <=> r \in U
    <2>1. U = S
      BY <1>4
    <2> QED BY <1>4, <2>1
  <1> QED BY <1>2, <1>3, <1>4

LEMMA RequestMoves ==
  ASSUME NEW q, NEW p, NEW r \in Requests, \A s \in Requests : s # r => p[s] = q[s], NEW e
  PROVE  /\ r \in Waiting(q, e) /\ r \notin Waiting(p, e) =>
               Cardinality(Waiting(p, e)) = Cardinality(Waiting(q, e)) - 1
         /\ r \notin Waiting(q, e) /\ r \in Waiting(p, e) =>
               Cardinality(Waiting(p, e)) = Cardinality(Waiting(q, e)) + 1
         /\ (r \in Waiting(q, e) <=> r \in Waiting(p, e)) => Waiting(p, e) = Waiting(q, e)
         /\ r \in Verifying(q, e) /\ r \notin Verifying(p, e) =>
               Cardinality(Verifying(p, e)) = Cardinality(Verifying(q, e)) - 1
         /\ r \notin Verifying(q, e) /\ r \in Verifying(p, e) =>
               Cardinality(Verifying(p, e)) = Cardinality(Verifying(q, e)) + 1
         /\ (r \in Verifying(q, e) <=> r \in Verifying(p, e)) => Verifying(p, e) = Verifying(q, e)
  <1>1. /\ Waiting(q, e) \in SUBSET Requests /\ Waiting(p, e) \in SUBSET Requests
        /\ \A s \in Requests \ {r} : s \in Waiting(q, e) <=> s \in Waiting(p, e)
    BY DEF Waiting
  <1>2. /\ Verifying(q, e) \in SUBSET Requests /\ Verifying(p, e) \in SUBSET Requests
        /\ \A s \in Requests \ {r} : s \in Verifying(q, e) <=> s \in Verifying(p, e)
    BY DEF Verifying
  <1>3. /\ r \in Waiting(q, e) /\ r \notin Waiting(p, e) =>
              Cardinality(Waiting(p, e)) = Cardinality(Waiting(q, e)) - 1
        /\ r \notin Waiting(q, e) /\ r \in Waiting(p, e) =>
              Cardinality(Waiting(p, e)) = Cardinality(Waiting(q, e)) + 1
        /\ (r \in Waiting(q, e) <=> r \in Waiting(p, e)) => Waiting(p, e) = Waiting(q, e)
    <2> DEFINE S == Waiting(q, e)
               U == Waiting(p, e)
    <2>1. S \in SUBSET Requests /\ U \in SUBSET Requests /\ \A s \in Requests \ {r} : s \in S <=> s \in U
      BY <1>1
    <2> HIDE DEF S, U
    <2>2. /\ r \in S /\ r \notin U => Cardinality(U) = Cardinality(S) - 1
          /\ r \notin S /\ r \in U => Cardinality(U) = Cardinality(S) + 1
          /\ (r \in S <=> r \in U) => U = S
      BY <2>1, OneMoves
    <2> QED BY <2>2 DEF S, U
  <1>4. /\ r \in Verifying(q, e) /\ r \notin Verifying(p, e) =>
              Cardinality(Verifying(p, e)) = Cardinality(Verifying(q, e)) - 1
        /\ r \notin Verifying(q, e) /\ r \in Verifying(p, e) =>
              Cardinality(Verifying(p, e)) = Cardinality(Verifying(q, e)) + 1
        /\ (r \in Verifying(q, e) <=> r \in Verifying(p, e)) => Verifying(p, e) = Verifying(q, e)
    <2> DEFINE S == Verifying(q, e)
               U == Verifying(p, e)
    <2>1. S \in SUBSET Requests /\ U \in SUBSET Requests /\ \A s \in Requests \ {r} : s \in S <=> s \in U
      BY <1>2
    <2> HIDE DEF S, U
    <2>2. /\ r \in S /\ r \notin U => Cardinality(U) = Cardinality(S) - 1
          /\ r \notin S /\ r \in U => Cardinality(U) = Cardinality(S) + 1
          /\ (r \in S <=> r \in U) => U = S
      BY <2>1, OneMoves
    <2> QED BY <2>2 DEF S, U
  <1> QED BY <1>3, <1>4

\* One more request is noted to have died.
LEMMA OneMoreDied ==
  ASSUME NEW d \in Seq(Nat), NEW n \in Nat
  PROVE  /\ Cardinality(Uncounted(Append(d, n))) >= Cardinality(Uncounted(d))
         /\ n = 0 => Cardinality(Uncounted(Append(d, n))) = Cardinality(Uncounted(d)) + 1
  <1>1. IsFiniteSet(Uncounted(d)) /\ Cardinality(Uncounted(d)) \in Nat
    BY CountsAreNat, FS_EmptySet
  <1>2. CASE n = 0
    <2>1. Uncounted(Append(d, n)) = Uncounted(d) \cup {Len(d) + 1} /\ Len(d) + 1 \notin Uncounted(d)
      BY <1>2 DEF Uncounted
    <2>2. Cardinality(Uncounted(Append(d, n))) = Cardinality(Uncounted(d)) + 1
      BY <1>1, <2>1, FS_AddElement
    <2> QED BY <1>1, <2>2
  <1>3. CASE n # 0
    <2>1. Uncounted(Append(d, n)) = Uncounted(d)
      BY <1>3 DEF Uncounted
    <2> QED BY <1>1, <1>3, <2>1
  <1> QED BY <1>2, <1>3

\* Numbers that did not get worse, over counters that count at least as much.
LEMMA SpanKept ==
  ASSUME NEW A \in SUBSET SignInAttempt, NEW B \in SUBSET SignInAttempt, NEW e, NEW t \in Nat,
         NEW n \in Nat, NEW w \in Nat, NEW v \in Nat, NEW d \in Int,
         NEW n2 \in Nat, NEW w2 \in Nat, NEW v2 \in Nat, NEW d2 \in Int,
         Span(A, e, t, n, w, v, d), n2 - w2 - d2 <= n - w - d, n2 + v2 - d2 <= n + v - d,
         \A a \in A : a.email = e /\ t + Window <= a.expiresAt => a \in B
  PROVE  Span(B, e, t, n2, w2, v2, d2)
  <1>1. Charged(A, e, t, n - w - d) => Charged(B, e, t, n2 - w2 - d2)
    BY DEF Charged, SignInAttempt
  <1> QED BY <1>1, BaseType DEF Span

LEMMA InitGuesses == Init => GuessInv
  <1> SUFFICES ASSUME Init PROVE GuessInv
    OBVIOUS
  <1>1. \A r \in Requests : req[r].pc = "idle"
    BY DEF Init, Idle
  <1>2. tries = {} /\ died \in Seq(Nat)
    BY DEF Init
  <1>3. \A e, t : Cardinality(TriesSince(tries, e, t)) = 0
    <2>1. \A e, t : TriesSince(tries, e, t) = {}
      BY <1>2 DEF TriesSince
    <2> QED BY <2>1, FS_EmptySet
  <1> QED BY <1>1, <1>2, <1>3, FreshSpan DEF GuessInv

\* The numbers of a state, and of the next one.
LEMMA NumbersAreNat ==
  ASSUME TypeInv, TypeInv', NEW e, NEW t
  PROVE  /\ Cardinality(TriesSince(tries, e, t)) \in Nat
         /\ Cardinality(TriesSince(tries', e, t)) \in Nat
         /\ Cardinality(Waiting(req, e)) \in Nat /\ Cardinality(Waiting(req', e)) \in Nat
         /\ Cardinality(Verifying(req, e)) \in Nat /\ Cardinality(Verifying(req', e)) \in Nat
         /\ Cardinality(Uncounted(died)) \in Nat /\ Cardinality(Uncounted(died')) \in Nat
         /\ Lost(req, died, e, t) \in Int /\ Lost(req', died', e, t) \in Int
  <1>1. IsFiniteSet(tries) /\ IsFiniteSet(tries') /\ died \in Seq(Nat) /\ died' \in Seq(Nat)
    BY DEF TypeInv
  <1>2. Lost(req, died, e, t) \in Int /\ Lost(req', died', e, t) \in Int
    BY <1>1, LostType
  <1> QED BY <1>1, <1>2, CountsAreNat

\* Steps after which no span is worse off, and no counter is lost that still runs.
LEMMA SpansKept ==
  ASSUME TypeInv, TypeInv', GuessInv, now' = now, \A x \in tries' : x.at <= now',
         \A r \in Requests : req'[r].pc \in {"verify", "drop", "count"} => req'[r].id = 0,
         \A a \in attempts : now < a.expiresAt => a \in attempts',
         \A e \in Emails, t \in Nat : t <= now =>
            /\ Cardinality(TriesSince(tries', e, t)) - Cardinality(Waiting(req', e))
                     - Lost(req', died', e, t)
                  <= Cardinality(TriesSince(tries, e, t)) - Cardinality(Waiting(req, e))
                        - Lost(req, died, e, t)
            /\ Cardinality(TriesSince(tries', e, t)) + Cardinality(Verifying(req', e))
                     - Lost(req', died', e, t)
                  <= Cardinality(TriesSince(tries, e, t)) + Cardinality(Verifying(req, e))
                        - Lost(req, died, e, t)
  PROVE  GuessInv'
  <1>1. ASSUME NEW e \in Emails, NEW t \in Nat, t <= now, now < t + Window
        PROVE  Span(attempts', e, t, Cardinality(TriesSince(tries', e, t)), Cardinality(Waiting(req', e)),
                    Cardinality(Verifying(req', e)), Lost(req', died', e, t))
    <2>1. Span(attempts, e, t, Cardinality(TriesSince(tries, e, t)), Cardinality(Waiting(req, e)),
               Cardinality(Verifying(req, e)), Lost(req, died, e, t))
      BY <1>1 DEF GuessInv
    <2>2. \A a \in attempts : a.email = e /\ t + Window <= a.expiresAt => a \in attempts'
      BY <1>1, SignInLockoutAssumption DEF TypeInv, SignInAttempt
    <2>3. attempts \in SUBSET SignInAttempt /\ attempts' \in SUBSET SignInAttempt
      BY DEF TypeInv
    <2> QED BY <1>1, <2>1, <2>2, <2>3, NumbersAreNat, SpanKept
  <1> QED BY <1>1 DEF GuessInv

\* One request goes on, neither to try a password nor to wait if it did not.
LEMMA QuietCounts ==
  ASSUME NEW q, NEW p, NEW r \in Requests, \A s \in Requests : s # r => p[s] = q[s],
         p[r].pc # "verify",
         p[r].pc \in {"drop", "count"} => q[r].pc \in {"drop", "count"} /\ p[r].email = q[r].email,
         NEW e
  PROVE  /\ \/ Waiting(p, e) = Waiting(q, e)
            \/ /\ Cardinality(Waiting(p, e)) = Cardinality(Waiting(q, e)) - 1
               /\ q[r].pc \in {"drop", "count"} /\ p[r].pc \notin {"drop", "count"}
         /\ Cardinality(Verifying(p, e)) <= Cardinality(Verifying(q, e))
  <1>1. r \in Waiting(p, e) => r \in Waiting(q, e)
    BY DEF Waiting
  <1>2. r \in Waiting(q, e) /\ r \notin Waiting(p, e) =>
           q[r].pc \in {"drop", "count"} /\ p[r].pc \notin {"drop", "count"}
    BY DEF Waiting
  <1>3. r \notin Verifying(p, e)
    BY DEF Verifying
  <1>4. Cardinality(Verifying(q, e)) \in Nat
    <2>1. <<>> \in Seq(Nat) /\ IsFiniteSet({})
      BY FS_EmptySet
    <2> QED BY <2>1, CountsAreNat
  <1>5. ASSUME r \in Waiting(q, e), r \notin Waiting(p, e)
        PROVE  Cardinality(Waiting(p, e)) = Cardinality(Waiting(q, e)) - 1
    BY <1>5, RequestMoves
  <1>6. ASSUME r \in Waiting(q, e) <=> r \in Waiting(p, e)
        PROVE  Waiting(p, e) = Waiting(q, e)
    BY <1>6, RequestMoves
  <1>7. ASSUME r \in Verifying(q, e)
        PROVE  Cardinality(Verifying(p, e)) = Cardinality(Verifying(q, e)) - 1
    BY <1>3, <1>7, RequestMoves
  <1>8. ASSUME r \notin Verifying(q, e)
        PROVE  Verifying(p, e) = Verifying(q, e)
    BY <1>3, <1>8, RequestMoves
  <1> QED BY <1>1, <1>2, <1>4, <1>5, <1>6, <1>7, <1>8

\* A request goes on to something other than trying a password.  One that waited to
\* count a failure still waits, or is noted to have died.
LEMMA QuietMoveKeeps ==
  ASSUME TypeInv, TypeInv', GuessInv, NEW r \in Requests, NEW v, req'[r] = v,
         \A s \in Requests : s # r => req'[s] = req[s], UNCHANGED <<now, tries>>,
         \A a \in attempts : now < a.expiresAt => a \in attempts',
         v.pc # "verify",
         v.pc \in {"drop", "count"} =>
            /\ req[r].pc \in {"drop", "count"}
            /\ v.email = req[r].email /\ v.id = req[r].id,
         v.pc = "count" => v.since = now,
         died' = died \/ \E n \in Nat : died' = Append(died, n),
         req[r].pc \in {"drop", "count"} => v.pc \in {"drop", "count"} \/ died' = Append(died, 0)
  PROVE  GuessInv'
  <1>1. req'[r] = v /\ \A s \in Requests : s # r => req'[s] = req[s]
    OBVIOUS
  <1>2. \A s \in Requests : req'[s].pc \in {"verify", "drop", "count"} => req'[s].id = 0
    BY <1>1 DEF GuessInv
  <1>3. /\ Cardinality(Uncounted(died')) >= Cardinality(Uncounted(died))
        /\ died' = Append(died, 0) => Cardinality(Uncounted(died')) = Cardinality(Uncounted(died)) + 1
    <2>1. died \in Seq(Nat)
      BY DEF TypeInv
    <2>2. Cardinality(Uncounted(died)) \in Nat
      BY NumbersAreNat
    <2>3. ASSUME NEW n \in Nat, died' = Append(died, n)
          PROVE  Cardinality(Uncounted(died')) >= Cardinality(Uncounted(died))
      BY <2>1, <2>3, OneMoreDied
    <2>4. Cardinality(Uncounted(Append(died, 0))) = Cardinality(Uncounted(died)) + 1
      BY <2>1, OneMoreDied
    <2>5. Cardinality(Uncounted(died')) >= Cardinality(Uncounted(died))
      BY <2>2, <2>3
    <2>6. ASSUME died' = Append(died, 0)
          PROVE  Cardinality(Uncounted(died')) = Cardinality(Uncounted(died)) + 1
      BY <2>4, <2>6
    <2> QED BY <2>5, <2>6
  <1>4. ASSUME NEW e \in Emails
        PROVE  /\ \/ Waiting(req', e) = Waiting(req, e)
                  \/ /\ Cardinality(Waiting(req', e)) = Cardinality(Waiting(req, e)) - 1
                     /\ died' = Append(died, 0)
               /\ Cardinality(Verifying(req', e)) <= Cardinality(Verifying(req, e))
    <2>1. /\ req'[r].pc # "verify"
          /\ req'[r].pc \in {"drop", "count"} =>
                req[r].pc \in {"drop", "count"} /\ req'[r].email = req[r].email
          /\ req[r].pc \in {"drop", "count"} => req'[r].pc \in {"drop", "count"} \/ died' = Append(died, 0)
      BY <1>1
    <2>2. /\ \/ Waiting(req', e) = Waiting(req, e)
             \/ /\ Cardinality(Waiting(req', e)) = Cardinality(Waiting(req, e)) - 1
                /\ req[r].pc \in {"drop", "count"} /\ req'[r].pc \notin {"drop", "count"}
          /\ Cardinality(Verifying(req', e)) <= Cardinality(Verifying(req, e))
      BY <1>1, <2>1, QuietCounts
    <2> QED BY <2>1, <2>2
  <1>5. \A x \in tries' : x.at <= now'
    BY DEF GuessInv
  <1>6. now' = now /\ now \in Nat
    BY DEF TypeInv
  <1>7. ASSUME NEW e \in Emails, NEW t \in Nat, t <= now
        PROVE  /\ Lost(req', died', e, t) >= Lost(req, died, e, t)
               /\ died' = Append(died, 0) => Lost(req', died', e, t) >= Lost(req, died, e, t) + 1
    <2>1. r \notin Late(req', e, t)
      BY <1>1, <1>6, <1>7 DEF Late
    <2>2. died \in Seq(Nat) /\ died' \in Seq(Nat)
      BY DEF TypeInv
    <2>3. Lost(req, died, e, t) <= Lost(req', died, e, t)
      BY <1>1, <2>1, <2>2, LateMoves
    <2>4. Lost(req', died', e, t) = Lost(req', died, e, t)
             + (Cardinality(Uncounted(died')) - Cardinality(Uncounted(died)))
      <3>1. PICK y, z : y = Spent(Late(req', e, t)) /\ z = Cardinality(Slow)
        OBVIOUS
      <3>2. PICK u, x : u = Cardinality(Uncounted(died)) /\ x = Cardinality(Uncounted(died'))
        OBVIOUS
      <3>3. y \in Nat /\ z \in Nat /\ u \in Nat /\ x \in Nat
        BY <2>2, <3>1, <3>2, LostType, BaseType, NumbersAreNat
      <3>4. Lost(req', died', e, t) = x + y - z /\ Lost(req', died, e, t) = u + y - z
        BY <3>1, <3>2 DEF Lost
      <3> QED BY <3>2, <3>3, <3>4
    <2>5. /\ Lost(req, died, e, t) \in Int /\ Lost(req', died, e, t) \in Int
          /\ Cardinality(Uncounted(died)) \in Nat /\ Cardinality(Uncounted(died')) \in Nat
      BY <2>2, LostType, NumbersAreNat
    <2> QED BY <1>3, <2>3, <2>4, <2>5
  <1>8. ASSUME NEW e \in Emails, NEW t \in Nat, t <= now
        PROVE  /\ Cardinality(TriesSince(tries', e, t)) - Cardinality(Waiting(req', e))
                        - Lost(req', died', e, t)
                     <= Cardinality(TriesSince(tries, e, t)) - Cardinality(Waiting(req, e))
                           - Lost(req, died, e, t)
               /\ Cardinality(TriesSince(tries', e, t)) + Cardinality(Verifying(req', e))
                        - Lost(req', died', e, t)
                     <= Cardinality(TriesSince(tries, e, t)) + Cardinality(Verifying(req, e))
                           - Lost(req, died, e, t)
    <2>1. TriesSince(tries', e, t) = TriesSince(tries, e, t)
      OBVIOUS
    <2> DEFINE N == Cardinality(TriesSince(tries, e, t))
               W == Cardinality(Waiting(req, e))
               X == Cardinality(Waiting(req', e))
               V == Cardinality(Verifying(req, e))
               Y == Cardinality(Verifying(req', e))
               D == Lost(req, died, e, t)
               E == Lost(req', died', e, t)
    <2>2. N \in Nat /\ W \in Nat /\ X \in Nat /\ V \in Nat /\ Y \in Nat /\ D \in Int /\ E \in Int
      BY NumbersAreNat
    <2>3. Y <= V /\ E >= D /\ (X = W \/ (X = W - 1 /\ E >= D + 1))
      BY <1>4, <1>7, <1>8
    <2> HIDE DEF N, W, X, V, Y, D, E
    <2>4. N - X - E <= N - W - D /\ N + Y - E <= N + V - D
      BY <2>2, <2>3
    <2> QED BY <2>1, <2>4 DEF N, W, X, V, Y, D, E
  <1> QED BY <1>2, <1>5, <1>6, <1>8, SpansKept

\* A wrong password: one more was tried, one fewer request may try one, and one more
\* waits to count it.
LEMMA WrongPasswordKeeps ==
  ASSUME TypeInv, TypeInv', GuessInv, NEW r \in Requests, req[r].pc = "verify", WrongPassword(r),
         UNCHANGED <<now, attempts, died>>
  PROVE  GuessInv'
  <1>1. PICK f \in Emails : f = req[r].email
    BY DEF TypeInv, RequestsOK, Knows
  <1>2. /\ req'[r].pc = "drop" /\ req'[r].email = f /\ req'[r].id = req[r].id
        /\ \A s \in Requests : s # r => req'[s] = req[s]
    BY <1>1, AskMoves DEF TypeInv
  <1>3. PICK x : x = Try(f)
    OBVIOUS
  <1>4. tries' = tries \cup {x} /\ x.email = f /\ x.at = now
    BY <1>1, <1>3 DEF WrongPassword, Try
  <1>5. \A y \in tries' : y.at <= now'
    BY <1>4 DEF GuessInv, TypeInv
  <1>6. \A s \in Requests : req'[s].pc \in {"verify", "drop", "count"} => req'[s].id = 0
    BY <1>2 DEF GuessInv
  <1>7. ASSUME NEW e \in Emails, NEW t \in Nat
        PROVE  \/ /\ Cardinality(TriesSince(tries', e, t)) <= Cardinality(TriesSince(tries, e, t)) + 1
                  /\ Cardinality(Waiting(req', e)) = Cardinality(Waiting(req, e)) + 1
                  /\ Cardinality(Verifying(req', e)) = Cardinality(Verifying(req, e)) - 1
               \/ /\ TriesSince(tries', e, t) = TriesSince(tries, e, t)
                  /\ Waiting(req', e) = Waiting(req, e) /\ Verifying(req', e) = Verifying(req, e)
    <2>1. CASE e = f
      <3>1. r \notin Waiting(req, e) /\ r \in Waiting(req', e)
        BY <1>2, <2>1 DEF Waiting
      <3>2. r \in Verifying(req, e) /\ r \notin Verifying(req', e)
        BY <1>1, <1>2, <2>1 DEF Verifying
      <3>3. Cardinality(Waiting(req', e)) = Cardinality(Waiting(req, e)) + 1
        BY <1>2, <3>1, RequestMoves
      <3>4. Cardinality(Verifying(req', e)) = Cardinality(Verifying(req, e)) - 1
        BY <1>2, <3>2, RequestMoves
      <3>5. Cardinality(TriesSince(tries', e, t)) <= Cardinality(TriesSince(tries, e, t)) + 1
        <4>1. TriesSince(tries, e, t) \subseteq tries
          BY DEF TriesSince
        <4>2. IsFiniteSet(TriesSince(tries, e, t)) /\ Cardinality(TriesSince(tries, e, t)) \in Nat
          BY <4>1, FS_Subset, NumbersAreNat DEF TypeInv
        <4>3. TriesSince(tries', e, t) \subseteq TriesSince(tries, e, t) \cup {x}
          BY <1>4 DEF TriesSince
        <4> DEFINE S == TriesSince(tries, e, t)
        <4> HIDE DEF S
        <4>4. IsFiniteSet(S \cup {x}) /\ Cardinality(S \cup {x}) <= Cardinality(S) + 1
          <5>1. IsFiniteSet(S) /\ Cardinality(S) \in Nat
            BY <4>2 DEF S
          <5>2. /\ IsFiniteSet(S \cup {x})
                /\ Cardinality(S \cup {x}) = IF x \in S THEN Cardinality(S) ELSE Cardinality(S) + 1
            BY <5>1, FS_AddElement
          <5> QED BY <5>1, <5>2
        <4>5. Cardinality(TriesSince(tries', e, t)) <= Cardinality(S \cup {x})
          BY <4>3, <4>4, FS_Subset DEF S
        <4>6. Cardinality(S \cup {x}) \in Nat
          BY <4>4, FS_CardinalityType
        <4>7. Cardinality(TriesSince(tries', e, t)) <= Cardinality(S) + 1
          BY <4>2, <4>4, <4>5, <4>6, NumbersAreNat DEF S
        <4> QED BY <4>7 DEF S
      <3> QED BY <3>3, <3>4, <3>5
    <2>2. CASE e # f
      <3>1. TriesSince(tries', e, t) = TriesSince(tries, e, t)
        BY <1>4, <2>2 DEF TriesSince
      <3>2. Waiting(req', e) = Waiting(req, e) /\ Verifying(req', e) = Verifying(req, e)
        BY <1>1, <1>2, <2>2 DEF Waiting, Verifying
      <3> QED BY <3>1, <3>2
    <2> QED BY <2>1, <2>2
  <1>8. ASSUME NEW e \in Emails, NEW t \in Nat
        PROVE  Lost(req', died', e, t) = Lost(req, died, e, t)
    <2>1. r \notin Late(req, e, t) /\ r \notin Late(req', e, t)
      BY <1>2 DEF Late
    <2>2. died \in Seq(Nat) /\ died' = died
      BY DEF TypeInv
    <2>3. Lost(req', died, e, t) = Lost(req, died, e, t)
      BY <1>2, <2>1, <2>2, LateMoves
    <2> QED BY <2>2, <2>3
  <1>9. ASSUME NEW e \in Emails, NEW t \in Nat, t <= now
        PROVE  /\ Cardinality(TriesSince(tries', e, t)) - Cardinality(Waiting(req', e))
                        - Lost(req', died', e, t)
                     <= Cardinality(TriesSince(tries, e, t)) - Cardinality(Waiting(req, e))
                           - Lost(req, died, e, t)
               /\ Cardinality(TriesSince(tries', e, t)) + Cardinality(Verifying(req', e))
                        - Lost(req', died', e, t)
                     <= Cardinality(TriesSince(tries, e, t)) + Cardinality(Verifying(req, e))
                           - Lost(req, died, e, t)
    BY <1>7, <1>8, NumbersAreNat
  <1> QED BY <1>5, <1>6, <1>9, SpansKept

\* assertNotLocked let one more request pass: whatever it may try is within the limit,
\* for what was tried since t is on a counter below it, on its way to one, or lost.
LEMMA AttemptKeeps ==
  ASSUME TypeInv, TypeInv', GuessInv, NEW r \in Requests, NEW f \in Emails, NEW op \in Handlers,
         Attempt(r, f, op)
  PROVE  GuessInv'
  <1>1. /\ req[r].pc = "idle" /\ ~ Locked(f) /\ UNCHANGED <<now, attempts, tries, died>>
        /\ \A s \in Requests : s # r => req'[s] = req[s]
    BY DEF Attempt, TypeInv, RequestsOK
  <1>2. req'[r].pc = "verify" /\ req'[r].id = 0 /\ req'[r].email = f
    BY DEF Attempt, TypeInv, RequestsOK, Idle
  <1>3. \A s \in Requests : req'[s].pc \in {"verify", "drop", "count"} => req'[s].id = 0
    BY <1>1, <1>2 DEF GuessInv
  <1>4. ASSUME NEW e \in Emails, NEW t \in Nat, t <= now, now < t + Window
        PROVE  Span(attempts, e, t, Cardinality(TriesSince(tries, e, t)), Cardinality(Waiting(req', e)),
                    Cardinality(Verifying(req', e)), Lost(req', died', e, t))
    <2> DEFINE n == Cardinality(TriesSince(tries, e, t))
               w == Cardinality(Waiting(req, e))
               v == Cardinality(Verifying(req, e))
               d == Lost(req, died, e, t)
    <2>1. Span(attempts, e, t, n, w, v, d)
      BY <1>4 DEF GuessInv
    <2>2. n \in Nat /\ w \in Nat /\ v \in Nat /\ d \in Int
      BY NumbersAreNat
    <2>6. Lost(req', died', e, t) = d
      <3>1. r \notin Late(req, e, t) /\ r \notin Late(req', e, t)
        BY <1>1, <1>2 DEF Late
      <3>2. died \in Seq(Nat) /\ died' = died
        BY <1>1 DEF TypeInv
      <3>3. Lost(req', died, e, t) = Lost(req, died, e, t)
        BY <1>1, <3>1, <3>2, LateMoves
      <3> QED BY <3>2, <3>3
    <2>3. Cardinality(Waiting(req', e)) = w
      <3>1. r \notin Waiting(req, e) /\ r \notin Waiting(req', e)
        BY <1>1, <1>2 DEF Waiting
      <3>2. Waiting(req', e) = Waiting(req, e)
        BY <1>1, <3>1, RequestMoves
      <3> QED BY <3>2
    <2>4. CASE e = f
      <3>1. r \notin Verifying(req, e) /\ r \in Verifying(req', e)
        BY <1>1, <1>2, <2>4 DEF Verifying
      <3>2. Cardinality(Verifying(req', e)) = v + 1
        BY <1>1, <3>1, RequestMoves
      <3>3. w + v + 1 <= Cardinality(Requests)
        BY <1>1, RoomForOne
      <3>4. Charged(attempts, e, t, n - w - d)
        BY <2>1 DEF Span
      <3> HIDE DEF n, w, v, d
      <3>5. n - w - d <= MaxFailed - 1
        <4>1. MaxFailed \in Nat \ {0} /\ Window \in Nat
          BY SignInLockoutAssumption
        <4>2. CASE n - w - d <= 0
          BY <2>2, <4>1, <4>2
        <4>3. CASE ~ (n - w - d <= 0)
          <5>1. PICK a \in attempts : a.email = e /\ t + Window <= a.expiresAt /\ n - w - d <= a.failedCount
            BY <3>4, <4>3 DEF Charged
          <5>2. a.failedCount \in Nat /\ a.expiresAt \in Nat /\ now \in Nat
            BY DEF TypeInv, SignInAttempt
          <5>3. ~ (a.failedCount >= MaxFailed)
            BY <1>1, <1>4, <2>4, <4>1, <5>1, <5>2 DEF Locked, AttemptsOf
          <5> QED BY <2>2, <4>1, <5>1, <5>2, <5>3
        <4> QED BY <4>2, <4>3
      <3>6. n + (v + 1) <= Base + d
        BY <2>2, <3>3, <3>5, BaseType, NumbersAreNat DEF Base, n, w, v, d
      <3>7. Span(attempts, e, t, n, w, v + 1, d)
        BY <3>4, <3>6 DEF Span
      <3> QED BY <2>3, <2>6, <3>2, <3>7 DEF n, w, v, d
    <2>5. CASE e # f
      <3>1. r \notin Verifying(req, e) /\ r \notin Verifying(req', e)
        BY <1>1, <1>2, <2>5 DEF Verifying
      <3>2. Verifying(req', e) = Verifying(req, e)
        BY <1>1, <3>1, RequestMoves
      <3> QED BY <2>1, <2>3, <2>6, <3>2
    <2> QED BY <2>4, <2>5
  <1> QED BY <1>1, <1>3, <1>4 DEF GuessInv

\* The failure that waited is on a counter now, whose window starts anew.
LEMMA RecordFailureKeeps ==
  ASSUME TypeInv, TypeInv', LockoutInv, GuessInv, NEW r \in Requests, RecordFailure(r)
  PROVE  GuessInv'
  <1>1. PICK f \in Emails, a \in SignInAttempt, sent \in Nat :
           /\ Records(r, f, a, sent)
           /\ Started(f, a, sent) \/ \E d \in attempts : Bumped(f, a, d, sent)
    BY RecordFailureIs
  <1>2. /\ req[r].pc = "count" /\ req[r].email = f /\ UNCHANGED <<now, tries, died>>
        /\ req[r].since <= sent /\ req[r].since \in Nat /\ now \in Nat
        /\ attempts' = (attempts \ AttemptsOf(f)) \cup {a}
        /\ \A s \in Requests : s # r => req'[s] = req[s]
        /\ req'[r].pc \in {"warn", "idle"}
    BY <1>1 DEF RecordFailure, Records, TypeInv, RequestsOK, Request
  <1>3. \A s \in Requests : req'[s].pc \in {"verify", "drop", "count"} => req'[s].id = 0
    BY <1>2 DEF GuessInv
  <1>4. a.email = f /\ a.expiresAt = sent + Window /\ a.failedCount >= 1
    <2>1. CASE Started(f, a, sent)
      BY <2>1 DEF Started
    <2>2. ASSUME NEW d \in attempts, Bumped(f, a, d, sent)
          PROVE  a.email = f /\ a.expiresAt = sent + Window /\ a.failedCount >= 1
      <3>1. d \in SignInAttempt /\ d.email = f
        BY <2>2 DEF Bumped, AttemptsOf, TypeInv
      <3> QED BY <2>2, <3>1 DEF Bumped, SignInAttempt
    <2> QED BY <1>1, <2>1, <2>2
  <1>5. \A b \in attempts : b.email = f => a.failedCount >= b.failedCount + 1
    <2>1. CASE Started(f, a, sent)
      BY <2>1 DEF Started, AttemptsOf
    <2>2. ASSUME NEW d \in attempts, Bumped(f, a, d, sent), NEW b \in attempts, b.email = f
          PROVE  a.failedCount >= b.failedCount + 1
      <3>1. b = d /\ d \in SignInAttempt
        BY <2>2 DEF Bumped, AttemptsOf, TypeInv
      <3> QED BY <2>2, <3>1 DEF Bumped, SignInAttempt
    <2> QED BY <1>1, <2>1, <2>2
  <1>6. ASSUME NEW e \in Emails, NEW t \in Nat, t <= now, now < t + Window
        PROVE  Span(attempts', e, t, Cardinality(TriesSince(tries, e, t)), Cardinality(Waiting(req', e)),
                    Cardinality(Verifying(req', e)), Lost(req', died, e, t))
    <2>1. PICK n, w, v, d, d2 : /\ n = Cardinality(TriesSince(tries, e, t))
                                /\ w = Cardinality(Waiting(req, e))
                                /\ v = Cardinality(Verifying(req, e))
                                /\ d = Lost(req, died, e, t) /\ d2 = Lost(req', died, e, t)
      OBVIOUS
    <2>2. n \in Nat /\ w \in Nat /\ v \in Nat /\ d \in Int /\ d2 \in Int
      BY <1>2, <2>1, NumbersAreNat
    <2>3. n + v <= Base + d /\ Charged(attempts, e, t, n - w - d)
      BY <1>6, <2>1 DEF GuessInv, Span
    <2>4. Cardinality(Verifying(req', e)) = v
      <3>1. r \notin Verifying(req, e) /\ r \notin Verifying(req', e)
        BY <1>2 DEF Verifying
      <3>2. Verifying(req', e) = Verifying(req, e)
        BY <1>2, <3>1, RequestMoves
      <3> QED BY <2>1, <3>2
    <2>5. r \notin Late(req', e, t) /\ died \in Seq(Nat)
      BY <1>2 DEF Late, TypeInv
    <2>6. d <= d2
      BY <1>2, <2>1, <2>5, LateMoves
    <2>7. CASE e = f
      <3>1. r \in Waiting(req, e) /\ r \notin Waiting(req', e)
        BY <1>2, <2>7 DEF Waiting
      <3>2. Cardinality(Waiting(req', e)) = w - 1
        BY <1>2, <2>1, <3>1, RequestMoves
      <3>3. w >= 1
        <4>1. Cardinality(Waiting(req', e)) \in Nat
          BY NumbersAreNat
        <4> QED BY <2>2, <3>2, <4>1
      <3>4. Charged(attempts', e, t, n - (w - 1) - d2)
        <4>1. CASE r \in Late(req, e, t)
          <5>1. d + Base <= d2
            BY <1>2, <2>1, <2>5, <4>1, LateMoves
          <5>2. n - (w - 1) - d2 <= 0
            BY <2>2, <2>3, <3>3, <5>1, BaseType
          <5> QED BY <5>2 DEF Charged
        <4>2. CASE r \notin Late(req, e, t)
          <5>1. t <= req[r].since
            <6>1. CASE r \in Slow
              BY <1>2, <2>7, <4>2, <6>1 DEF Late
            <6>2. CASE r \notin Slow
              BY <1>2, <1>6, <6>2 DEF LockoutInv, StillRuns
            <6> QED BY <6>1, <6>2
          <5>2. t + Window <= a.expiresAt /\ a \in attempts' /\ a.failedCount \in Nat
            BY <1>2, <1>4, <5>1, SignInLockoutAssumption DEF SignInAttempt
          <5>3. n - (w - 1) - d2 <= a.failedCount
            <6>1. CASE n - w - d <= 0
              BY <1>4, <2>2, <2>6, <5>2, <6>1
            <6>2. CASE ~ (n - w - d <= 0)
              <7>1. PICK b \in attempts : b.email = e /\ n - w - d <= b.failedCount
                BY <2>3, <6>2 DEF Charged
              <7>2. b.failedCount \in Nat /\ a.failedCount >= b.failedCount + 1
                BY <1>5, <2>7, <7>1 DEF TypeInv, SignInAttempt
              <7> QED BY <2>2, <2>6, <5>2, <7>1, <7>2
            <6> QED BY <6>1, <6>2
          <5> QED BY <1>4, <2>7, <5>2, <5>3 DEF Charged
        <4> QED BY <4>1, <4>2
      <3>5. n + v <= Base + d2
        BY <2>2, <2>3, <2>6, BaseType
      <3> QED BY <2>1, <2>4, <3>2, <3>4, <3>5 DEF Span
    <2>8. CASE e # f
      <3>1. r \notin Waiting(req, e) /\ r \notin Waiting(req', e) /\ r \notin Late(req, e, t)
        BY <1>2, <2>8 DEF Waiting, Late
      <3>2. Cardinality(Waiting(req', e)) = w
        BY <1>2, <2>1, <3>1, RequestMoves
      <3>3. d2 = d
        BY <1>2, <2>1, <2>5, <3>1, LateMoves
      <3>4. Charged(attempts', e, t, n - w - d)
        BY <1>2, <2>3, <2>8 DEF Charged, AttemptsOf
      <3> QED BY <2>1, <2>3, <2>4, <3>2, <3>3, <3>4 DEF Span
    <2> QED BY <2>7, <2>8
  <1> QED BY <1>2, <1>3, <1>6 DEF GuessInv

\* A right password wipes the email's slate: what still waits counts from nothing.
LEMMA ResetKeeps ==
  ASSUME TypeInv, TypeInv', GuessInv, NEW r \in Requests, Reset(r)
  PROVE  GuessInv'
  <1>1. PICK f \in Emails : f = req[r].email
    BY DEF Reset, TypeInv, RequestsOK, Knows
  <1>2. /\ req[r].pc = "reset" /\ req'[r].pc = "idle" /\ UNCHANGED <<now, died>>
        /\ attempts' = attempts \ AttemptsOf(f) /\ tries' = {x \in tries : x.email # f}
        /\ \A s \in Requests : s # r => req'[s] = req[s]
    BY <1>1 DEF Reset, End, Idle, TypeInv, RequestsOK
  <1>3. \A s \in Requests : req'[s].pc \in {"verify", "drop", "count"} => req'[s].id = 0
    BY <1>2 DEF GuessInv
  <1>4. \A x \in tries' : x.at <= now'
    BY <1>2 DEF GuessInv
  <1>5. ASSUME NEW e \in Emails, NEW t \in Nat, t <= now, now < t + Window
        PROVE  Span(attempts', e, t, Cardinality(TriesSince(tries', e, t)), Cardinality(Waiting(req', e)),
                    Cardinality(Verifying(req', e)), Lost(req', died, e, t))
    <2>0. died \in Seq(Nat)
      BY DEF TypeInv
    <2>1. CASE e = f
      <3>1. TriesSince(tries', e, t) = {}
        BY <1>2, <2>1 DEF TriesSince
      <3>2. Cardinality(TriesSince(tries', e, t)) = 0
        BY <3>1, FS_EmptySet
      <3> QED BY <2>0, <3>2, FreshSpan
    <2>2. CASE e # f
      <3>1. TriesSince(tries', e, t) = TriesSince(tries, e, t)
        BY <1>2, <2>2 DEF TriesSince
      <3>2. /\ r \notin Waiting(req, e) /\ r \notin Waiting(req', e)
            /\ r \notin Verifying(req, e) /\ r \notin Verifying(req', e)
            /\ r \notin Late(req, e, t) /\ r \notin Late(req', e, t)
        BY <1>2 DEF Waiting, Verifying, Late
      <3>3. Waiting(req', e) = Waiting(req, e) /\ Verifying(req', e) = Verifying(req, e)
        BY <1>2, <3>2, RequestMoves
      <3>4. Lost(req', died, e, t) = Lost(req, died, e, t)
        BY <1>2, <2>0, <3>2, LateMoves
      <3>5. Span(attempts, e, t, Cardinality(TriesSince(tries, e, t)), Cardinality(Waiting(req, e)),
                 Cardinality(Verifying(req, e)), Lost(req, died, e, t))
        BY <1>5 DEF GuessInv
      <3>6. \A m : Charged(attempts, e, t, m) => Charged(attempts', e, t, m)
        BY <1>2, <2>2 DEF Charged, AttemptsOf
      <3> QED BY <3>1, <3>3, <3>4, <3>5, <3>6 DEF Span
    <2> QED BY <2>1, <2>2
  <1> QED BY <1>2, <1>3, <1>4, <1>5 DEF GuessInv

\* Time passes, counters run out, a credential goes.
LEMMA ClockKeeps ==
  ASSUME TypeInv, TypeInv', GuessInv,
         Tick \/ Purge \/ (\E e \in Emails : DropPassword(e)) \/ UNCHANGED vars
  PROVE  GuessInv'
  <1>1. /\ UNCHANGED <<req, tries, died>> /\ now \in Nat /\ now' \in Nat /\ now <= now'
        /\ \A a \in attempts : now < a.expiresAt => a \in attempts'
        /\ now' = now \/ attempts' = attempts
    BY DEF Tick, Purge, DropPassword, vars, TypeInv, SignInAttempt
  <1>2. \A x \in tries' : x.at <= now'
    BY <1>1 DEF GuessInv, TypeInv
  <1>3. \A r \in Requests : req'[r].pc \in {"verify", "drop", "count"} => req'[r].id = 0
    BY <1>1 DEF GuessInv
  <1>4. CASE now' = now
    <2>1. ASSUME NEW e \in Emails, NEW t \in Nat
          PROVE  /\ Cardinality(TriesSince(tries', e, t)) - Cardinality(Waiting(req', e))
                          - Lost(req', died', e, t)
                       <= Cardinality(TriesSince(tries, e, t)) - Cardinality(Waiting(req, e))
                             - Lost(req, died, e, t)
                 /\ Cardinality(TriesSince(tries', e, t)) + Cardinality(Verifying(req', e))
                          - Lost(req', died', e, t)
                       <= Cardinality(TriesSince(tries, e, t)) + Cardinality(Verifying(req, e))
                             - Lost(req, died, e, t)
      BY <1>1, NumbersAreNat
    <2> QED BY <1>1, <1>2, <1>3, <1>4, <2>1, SpansKept
  <1>5. CASE attempts' = attempts
    <2>1. ASSUME NEW e \in Emails, NEW t \in Nat, t <= now', now' < t + Window
          PROVE  Span(attempts', e, t, Cardinality(TriesSince(tries', e, t)),
                      Cardinality(Waiting(req', e)), Cardinality(Verifying(req', e)),
                      Lost(req', died', e, t))
      <3>1. CASE t <= now
        <4>1. now < t + Window
          BY <1>1, <2>1, SignInLockoutAssumption
        <4>2. Span(attempts, e, t, Cardinality(TriesSince(tries, e, t)),
                   Cardinality(Waiting(req, e)), Cardinality(Verifying(req, e)),
                   Lost(req, died, e, t))
          BY <3>1, <4>1 DEF GuessInv
        <4> QED BY <1>1, <1>5, <4>2
      <3>2. CASE ~ (t <= now)
        <4>1. TriesSince(tries', e, t) = {}
          BY <1>1, <3>2 DEF TriesSince, GuessInv, TypeInv
        <4>2. Cardinality(TriesSince(tries', e, t)) = 0 /\ died' \in Seq(Nat)
          BY <4>1, FS_EmptySet DEF TypeInv
        <4> QED BY <4>2, FreshSpan
      <3> QED BY <3>1, <3>2
    <2> QED BY <1>2, <1>3, <2>1 DEF GuessInv
  <1> QED BY <1>1, <1>4, <1>5

LEMMA GotoKeeps ==
  ASSUME TypeInv, TypeInv', GuessInv, NEW r \in Requests, NEW l \in Labels \ {"verify", "drop", "count"},
         Goto(r, l), req[r].pc \notin {"drop", "count"}, UNCHANGED <<now, tries, attempts, died>>
  PROVE  GuessInv'
  <1>1. req'[r].pc = l /\ \A s \in Requests : s # r => req'[s] = req[s]
    BY DEF Goto, TypeInv, RequestsOK, Request
  <1>2. PICK v : v = req'[r]
    OBVIOUS
  <1> QED BY <1>1, <1>2, QuietMoveKeeps

LEMMA EndKeeps ==
  ASSUME TypeInv, TypeInv', GuessInv, NEW r \in Requests, End(r), UNCHANGED <<now, tries, attempts>>,
         died' = died \/ \E n \in Nat : died' = Append(died, n),
         req[r].pc \in {"drop", "count"} => died' = Append(died, 0)
  PROVE  GuessInv'
  <1>1. req'[r].pc = "idle" /\ \A s \in Requests : s # r => req'[s] = req[s]
    BY DEF End, Idle, TypeInv, RequestsOK
  <1>2. PICK v : v = req'[r]
    OBVIOUS
  <1> QED BY <1>1, <1>2, QuietMoveKeeps

LEMMA StepKeeps ==
  ASSUME TypeInv, TypeInv', LockoutInv, GuessInv, NEW r \in Requests, Step(r)
  PROVE  GuessInv'
  <1>1. CASE VerifyPassword(r)
    <2>1. CASE WrongPassword(r)
      BY <1>1, <2>1, WrongPasswordKeeps DEF VerifyPassword
    <2>2. CASE UNCHANGED tries /\ Goto(r, Proceed(req[r].op))
      <3>1. PICK l \in Labels \ {"verify", "drop", "count"} : l = Proceed(req[r].op)
        BY DEF Proceed, Labels
      <3> QED BY <1>1, <2>2, <3>1, GotoKeeps DEF VerifyPassword
    <2> QED BY <1>1, <2>1, <2>2 DEF VerifyPassword
  <1>2. CASE ReplacePassword(r)
    BY <1>2, GotoKeeps, EndKeeps DEF ReplacePassword, Labels
  <1>3. CASE DropUser(r)
    BY <1>3, GotoKeeps DEF DropUser, Labels
  <1>4. CASE Reset(r)
    BY <1>4, ResetKeeps
  <1>5. CASE DropExpired(r)
    <2>1. /\ req[r].pc = "drop" /\ req'[r].pc = "count" /\ req'[r].email = req[r].email
          /\ req'[r].id = req[r].id /\ req'[r].since = now /\ UNCHANGED <<now, tries, died>>
          /\ \A s \in Requests : s # r => req'[s] = req[s]
      BY <1>5 DEF DropExpired, TypeInv, RequestsOK, Request
    <2>2. \A a \in attempts : now < a.expiresAt => a \in attempts'
      <3>1. req[r].asked <= now
        BY DEF LockoutInv, StillRuns
      <3>2. req[r].asked \in Nat
        BY DEF TypeInv, RequestsOK, Request
      <3> QED BY <1>5, <3>1, <3>2 DEF DropExpired, RanOut, TypeInv, SignInAttempt
    <2>3. PICK v : v = req'[r]
      OBVIOUS
    <2> QED BY <2>1, <2>2, <2>3, QuietMoveKeeps
  <1>6. CASE RecordFailure(r)
    BY <1>6, RecordFailureKeeps
  <1>7. CASE NotifyAccountOwner(r)
    BY <1>7, EndKeeps DEF NotifyAccountOwner
  <1> QED BY <1>1, <1>2, <1>3, <1>4, <1>5, <1>6, <1>7 DEF Step

LEMMA FailKeeps ==
  ASSUME TypeInv, TypeInv', GuessInv, NEW r \in Requests, Fail(r)
  PROVE  GuessInv'
  <1>1. PICK n \in Nat : n = req[r].id
    BY DEF TypeInv, RequestsOK, Request
  <1>2. req[r].pc \in {"drop", "count"} => n = 0
    BY <1>1 DEF GuessInv
  <1> QED BY <1>1, <1>2, EndKeeps DEF Fail

LEMMA NextKeeps ==
  ASSUME TypeInv, TypeInv', LockoutInv, GuessInv, [Next]_vars
  PROVE  GuessInv'
  BY StepKeeps, FailKeeps, AttemptKeeps, ClockKeeps DEF Next

LEMMA GuessesHold == Spec => [](TypeInv /\ LockoutInv /\ GuessInv)
  <1>1. Init => GuessInv
    BY InitGuesses
  <1>2. (TypeInv /\ LockoutInv) /\ (TypeInv /\ LockoutInv)' /\ GuessInv /\ [Next]_vars => GuessInv'
    BY NextKeeps
  <1> QED BY <1>1, <1>2, InvHolds, PTL DEF Spec

-----------------------------------------------------------------------------
(* The tries are told apart *)

\* The tries for an email at one instant carry the numbers from 0 on, so that another
\* one is never taken for one that was noted: each adds one to what is counted.
SameInstant(T, e, s) == {x \in T : x.email = e /\ x.at = s}
Numbered(T) == \A x \in T : x.nth < Cardinality(SameInstant(T, x.email, x.at))

LEMMA SameInstantIsFinite ==
  ASSUME NEW T, IsFiniteSet(T), NEW e, NEW s
  PROVE  IsFiniteSet(SameInstant(T, e, s)) /\ Cardinality(SameInstant(T, e, s)) \in Nat
  <1>1. SameInstant(T, e, s) \subseteq T
    BY DEF SameInstant
  <1> QED BY <1>1, FS_Subset, FS_CardinalityType

LEMMA TryIsNew ==
  ASSUME TypeInv, Numbered(tries), NEW e \in Emails
  PROVE  /\ Try(e) \notin tries
         /\ Numbered(tries \cup {Try(e)})
  <1>1. PICK x : x = Try(e)
    OBVIOUS
  <1>2. PICK S : S = SameInstant(tries, e, now)
    OBVIOUS
  <1>3. IsFiniteSet(S) /\ Cardinality(S) \in Nat
    BY <1>2, SameInstantIsFinite DEF TypeInv
  <1>4. x.email = e /\ x.at = now /\ x.nth = Cardinality(S)
    BY <1>1, <1>2 DEF Try, SameInstant
  <1>5. x \notin tries
    BY <1>2, <1>3, <1>4 DEF Numbered
  <1>6. SameInstant(tries \cup {x}, e, now) = S \cup {x}
    BY <1>2, <1>4 DEF SameInstant
  <1>7. Cardinality(SameInstant(tries \cup {x}, e, now)) = Cardinality(S) + 1
    <2>1. x \notin S
      BY <1>2, <1>5 DEF SameInstant
    <2> QED BY <1>3, <1>6, <2>1, FS_AddElement
  <1>8. ASSUME NEW y \in tries
        PROVE  y.nth < Cardinality(SameInstant(tries \cup {x}, y.email, y.at))
    <2>0. y.nth \in Nat /\ y.nth < Cardinality(SameInstant(tries, y.email, y.at))
      BY DEF TypeInv, Numbered
    <2>1. CASE y.email = e /\ y.at = now
      BY <1>2, <1>3, <1>7, <2>0, <2>1
    <2>2. CASE ~ (y.email = e /\ y.at = now)
      <3>1. SameInstant(tries \cup {x}, y.email, y.at) = SameInstant(tries, y.email, y.at)
        BY <1>4, <2>2 DEF SameInstant
      <3> QED BY <2>0, <3>1
    <2> QED BY <2>1, <2>2
  <1>9. x.nth < Cardinality(SameInstant(tries \cup {x}, x.email, x.at))
    BY <1>3, <1>4, <1>7
  <1>10. Numbered(tries \cup {x})
    <2>1. ASSUME NEW y \in tries \cup {x}
          PROVE  y.nth < Cardinality(SameInstant(tries \cup {x}, y.email, y.at))
      BY <1>8, <1>9
    <2> QED BY <2>1 DEF Numbered
  <1> QED BY <1>1, <1>5, <1>10

\* An email's tries are forgotten all together.
LEMMA ForgottenTogether ==
  ASSUME NEW T, Numbered(T), NEW f
  PROVE  Numbered({x \in T : x.email # f})
  <1>1. \A y \in T : y.email # f =>
           SameInstant({x \in T : x.email # f}, y.email, y.at) = SameInstant(T, y.email, y.at)
    BY DEF SameInstant
  <1> QED BY <1>1 DEF Numbered

\* What a step does to the history.
LEMMA HistoryMoves ==
  ASSUME TypeInv, [Next]_vars
  PROVE  \/ tries' = tries
         \/ now' = now /\ \E e \in Emails : tries' = tries \cup {Try(e)}
         \/ \E e : tries' = {x \in tries : x.email # e}
  <1>1. ASSUME NEW r \in Requests, VerifyPassword(r)
        PROVE  tries' = tries \/ (now' = now /\ \E e \in Emails : tries' = tries \cup {Try(e)})
    <2>1. req[r].email \in Emails
      BY <1>1 DEF VerifyPassword, TypeInv, RequestsOK, Knows
    <2> QED BY <1>1, <2>1 DEF VerifyPassword, WrongPassword
  <1>2. ASSUME NEW r \in Requests, Reset(r)
        PROVE  \E e : tries' = {x \in tries : x.email # e}
    BY <1>2 DEF Reset
  <1>3. ASSUME NEW r \in Requests, Step(r), ~ VerifyPassword(r), ~ Reset(r)
        PROVE  tries' = tries
    BY <1>3 DEF Step, ReplacePassword, DropUser, DropExpired, RecordFailure, NotifyAccountOwner
  <1>4. ASSUME NEW r \in Requests, Fail(r)
        PROVE  tries' = tries
    BY <1>4 DEF Fail
  <1>5. CASE Tick \/ Purge \/ (\E e \in Emails : DropPassword(e)) \/ UNCHANGED vars
               \/ (\E r \in Requests, e \in Emails, op \in Handlers : Attempt(r, e, op))
    BY <1>5 DEF Tick, Purge, DropPassword, Attempt, vars
  <1> QED BY <1>1, <1>2, <1>3, <1>4, <1>5 DEF Next

TriesAreNumbered == Numbered(tries)

\* No wrong password hides another in the history GuessesAreBounded counts in.
LEMMA NumberedHolds == Spec => []TriesAreNumbered
  <1>1. Init => TriesAreNumbered
    BY DEF Init, Numbered, TriesAreNumbered
  <1>2. TypeInv /\ TriesAreNumbered /\ [Next]_vars => TriesAreNumbered'
    <2> SUFFICES ASSUME TypeInv, Numbered(tries), [Next]_vars PROVE Numbered(tries')
      BY DEF TriesAreNumbered
    <2>1. ASSUME NEW e \in Emails, tries' = tries \cup {Try(e)} PROVE Numbered(tries')
      BY <2>1, TryIsNew
    <2>2. ASSUME NEW e, tries' = {x \in tries : x.email # e} PROVE Numbered(tries')
      BY <2>2, ForgottenTogether
    <2> QED BY <2>1, <2>2, HistoryMoves
  <1> QED BY <1>1, <1>2, TypeHolds, PTL DEF Spec

-----------------------------------------------------------------------------
(* The bound on guesses *)

Bound(d) ==
    MaxFailed - 1 + Cardinality(Requests)
      + Cardinality(Slow) * (MaxFailed - 2 + Cardinality(Requests))
      + Cardinality(Uncounted(d))

\* It is what one counter lets a span see, and all that can be lost.
LEMMA BoundIs ==
  ASSUME NEW d \in Seq(Nat)
  PROVE  /\ Bound(d) = Base + Cardinality(Uncounted(d)) + Base * Cardinality(Slow) - Cardinality(Slow)
         /\ Base * Cardinality(Slow) - Cardinality(Slow) \in Nat
         /\ Cardinality(Uncounted(d)) \in Nat
  <1>1. PICK s, b, n : s = Cardinality(Slow) /\ b = Base /\ n = Cardinality(Requests)
    OBVIOUS
  <1>2. /\ s \in Nat /\ b \in Nat /\ n \in Nat /\ s <= n /\ n <= b /\ MaxFailed \in Nat
        /\ b = MaxFailed - 1 + n
    BY <1>1, BaseType DEF Base
  <1>3. Cardinality(Uncounted(d)) \in Nat
    BY CountsAreNat, FS_EmptySet
  <1>4. MaxFailed - 2 + n = b - 1
    BY <1>2
  <1>5. s * (b - 1) = b * s - s
    BY <1>2
  <1>6. b * s - s \in Nat
    <2>1. CASE s = 0
      BY <1>2, <2>1
    <2>2. CASE s # 0
      <3>1. 1 <= b
        BY <1>2, <2>2
      <3>2. s * 1 <= s * b /\ s * b \in Nat
        BY <1>2, <3>1, TimesMono
      <3>3. PICK p : p = b * s
        OBVIOUS
      <3>4. s * 1 = s /\ s * b = p
        BY <1>2, <3>3
      <3>5. p \in Nat /\ s <= p
        BY <3>2, <3>4
      <3> QED BY <1>2, <3>3, <3>5
    <2> QED BY <2>1, <2>2
  <1>7. Bound(d) = b + (b * s - s) + Cardinality(Uncounted(d))
    <2>1. Bound(d) = MaxFailed - 1 + n + s * (MaxFailed - 2 + n) + Cardinality(Uncounted(d))
      BY <1>1 DEF Bound
    <2>2. s * (MaxFailed - 2 + n) = b * s - s
      BY <1>4, <1>5
    <2> QED BY <1>2, <2>1, <2>2
  <1>8. b * s \in Nat
    BY <1>2
  <1>9. b + (b * s - s) + Cardinality(Uncounted(d)) = b + Cardinality(Uncounted(d)) + b * s - s
    BY <1>2, <1>3, <1>8
  <1> QED BY <1>1, <1>3, <1>6, <1>7, <1>9

WithinBounds ==
    \A e \in Emails, t \in Nat : Cardinality(TriesWithin(tries, e, t)) <= Bound(died)

\* A span that is not over is bounded by what was tried since its start.
RunningWithinBounds ==
    \A e \in Emails, t \in Nat : now < t + Window => Cardinality(TriesWithin(tries, e, t)) <= Bound(died)

LEMMA RunningSpansAreBounded ==
  ASSUME TypeInv, GuessInv
  PROVE  RunningWithinBounds
  <1> SUFFICES ASSUME NEW e \in Emails, NEW t \in Nat, now < t + Window
               PROVE  Cardinality(TriesWithin(tries, e, t)) <= Bound(died)
    BY DEF RunningWithinBounds
  <1>1. /\ Cardinality(TriesSince(tries, e, t)) \in Nat /\ Cardinality(TriesWithin(tries, e, t)) \in Nat
        /\ Cardinality(TriesWithin(tries, e, t)) <= Cardinality(TriesSince(tries, e, t))
        /\ Cardinality(Verifying(req, e)) \in Nat /\ died \in Seq(Nat)
    BY CountsAreNat DEF TypeInv
  <1>2. PICK u, y : u = Cardinality(Uncounted(died)) /\ y = Base * Cardinality(Slow) - Cardinality(Slow)
    OBVIOUS
  <1>3. Bound(died) = Base + u + y /\ y \in Nat /\ u \in Nat /\ Base \in Nat
    <2>1. Base * Cardinality(Slow) \in Nat /\ Cardinality(Slow) \in Nat /\ Base \in Nat
      BY BaseType
    <2> QED BY <1>1, <1>2, <2>1, BoundIs
  <1>4. CASE t <= now
    <2>1. Span(attempts, e, t, Cardinality(TriesSince(tries, e, t)), Cardinality(Waiting(req, e)),
               Cardinality(Verifying(req, e)), Lost(req, died, e, t))
      BY <1>4 DEF GuessInv
    <2>2. Lost(req, died, e, t) \in Int /\ Lost(req, died, e, t) <= u + y
      <3>1. Base * Cardinality(Slow) \in Nat /\ Cardinality(Slow) \in Nat
        BY BaseType
      <3>2. /\ Lost(req, died, e, t) \in Int
            /\ Lost(req, died, e, t)
                  <= Cardinality(Uncounted(died)) + Base * Cardinality(Slow) - Cardinality(Slow)
        BY <1>1, LostType
      <3> QED BY <1>2, <1>3, <3>1, <3>2
    <2>3. Cardinality(TriesSince(tries, e, t)) + Cardinality(Verifying(req, e))
             <= Base + Lost(req, died, e, t)
      BY <2>1 DEF Span
    <2> QED BY <1>1, <1>3, <2>2, <2>3
  <1>5. CASE ~ (t <= now)
    <2>1. TriesWithin(tries, e, t) = {}
      BY <1>5 DEF TriesWithin, GuessInv, TypeInv
    <2>2. Cardinality(TriesWithin(tries, e, t)) = 0
      BY <2>1, FS_EmptySet
    <2> QED BY <1>3, <2>2
  <1> QED BY <1>4, <1>5

\* The requests that died are noted one after another.
LEMMA DiedMoves ==
  ASSUME TypeInv, [Next]_vars
  PROVE  died' = died \/ \E n \in Nat : died' = Append(died, n)
  <1>1. \A r \in Requests : req[r].id \in Nat
    BY DEF TypeInv, RequestsOK, Request
  <1>2. ASSUME NEW r \in Requests, Step(r)
        PROVE  died' = died
    BY <1>2 DEF Step, VerifyPassword, ReplacePassword, DropUser, Reset, DropExpired, RecordFailure,
                NotifyAccountOwner
  <1>3. ASSUME NEW r \in Requests, Fail(r)
        PROVE  died' = died \/ \E n \in Nat : died' = Append(died, n)
    BY <1>1, <1>3 DEF Fail
  <1>4. CASE Tick \/ Purge \/ (\E e \in Emails : DropPassword(e)) \/ UNCHANGED vars
               \/ (\E r \in Requests, e \in Emails, op \in Handlers : Attempt(r, e, op))
    BY <1>4 DEF Tick, Purge, DropPassword, Attempt, vars
  <1> QED BY <1>2, <1>3, <1>4 DEF Next

LEMMA BoundsHold == Spec => []WithinBounds
  <1>1. Init => WithinBounds
    <2> SUFFICES ASSUME Init, NEW e \in Emails, NEW t \in Nat
                 PROVE  Cardinality(TriesWithin(tries, e, t)) <= Bound(died)
      BY DEF WithinBounds
    <2>1. TriesWithin(tries, e, t) = {} /\ Uncounted(died) = {}
      BY DEF Init, TriesWithin, Uncounted
    <2>2. Cardinality(TriesWithin(tries, e, t)) = 0 /\ Cardinality(Uncounted(died)) = 0
      BY <2>1, FS_EmptySet
    <2>3. died \in Seq(Nat)
      BY DEF Init
    <2>4. Bound(died) \in Nat
      BY <2>3, BoundIs, BaseType
    <2> QED BY <2>2, <2>4
  <1>2. TypeInv /\ TypeInv' /\ RunningWithinBounds' /\ WithinBounds /\ [Next]_vars
           => WithinBounds'
    <2> SUFFICES ASSUME TypeInv, TypeInv', RunningWithinBounds', WithinBounds, [Next]_vars,
                        NEW e \in Emails, NEW t \in Nat
                 PROVE  Cardinality(TriesWithin(tries', e, t)) <= Bound(died')
      BY DEF WithinBounds
    <2>1. CASE now' < t + Window
      BY <2>1 DEF RunningWithinBounds
    <2>2. CASE ~ (now' < t + Window)
      <3>1. TriesWithin(tries', e, t) \subseteq TriesWithin(tries, e, t)
        <4>1. \A f : Try(f).at = now
          BY DEF Try
        <4> QED BY <2>2, <4>1, HistoryMoves DEF TriesWithin
      <3>2. /\ Cardinality(TriesWithin(tries, e, t)) \in Nat
            /\ Cardinality(TriesWithin(tries', e, t)) \in Nat
            /\ Cardinality(Uncounted(died)) \in Nat /\ Cardinality(Uncounted(died')) \in Nat
        BY CountsAreNat DEF TypeInv
      <3>3. IsFiniteSet(TriesWithin(tries, e, t))
        <4>1. TriesWithin(tries, e, t) \subseteq tries /\ IsFiniteSet(tries)
          BY DEF TriesWithin, TypeInv
        <4> QED BY <4>1, FS_Subset
      <3>4. Cardinality(TriesWithin(tries', e, t)) <= Cardinality(TriesWithin(tries, e, t))
        BY <3>1, <3>3, FS_Subset
      <3>5. Cardinality(Uncounted(died')) >= Cardinality(Uncounted(died))
        <4>1. ASSUME NEW n \in Nat, died' = Append(died, n)
              PROVE  Cardinality(Uncounted(died')) >= Cardinality(Uncounted(died))
          BY <4>1, OneMoreDied DEF TypeInv
        <4> QED BY <3>2, <4>1, DiedMoves
      <3>6. Cardinality(TriesWithin(tries, e, t)) <= Bound(died)
        BY DEF WithinBounds
      <3>7. PICK y : y = Base * Cardinality(Slow) - Cardinality(Slow)
        OBVIOUS
      <3>8. /\ Bound(died) = Base + Cardinality(Uncounted(died)) + y
            /\ Bound(died') = Base + Cardinality(Uncounted(died')) + y
            /\ y \in Nat /\ Base \in Nat
        <4>1. Base * Cardinality(Slow) \in Nat /\ Cardinality(Slow) \in Nat /\ Base \in Nat
          BY BaseType
        <4>2. died \in Seq(Nat) /\ died' \in Seq(Nat)
          BY DEF TypeInv
        <4>3. /\ Bound(died) = Base + Cardinality(Uncounted(died)) + Base * Cardinality(Slow) - Cardinality(Slow)
              /\ Base * Cardinality(Slow) - Cardinality(Slow) \in Nat
          BY <4>2, BoundIs
        <4>4. Bound(died') = Base + Cardinality(Uncounted(died')) + Base * Cardinality(Slow) - Cardinality(Slow)
          BY <4>2, BoundIs
        <4> QED BY <3>2, <3>7, <4>1, <4>3, <4>4
      <3> QED BY <3>2, <3>4, <3>5, <3>6, <3>8
    <2> QED BY <2>1, <2>2
  <1>3. TypeInv /\ GuessInv => RunningWithinBounds
    BY RunningSpansAreBounded
  <1> QED BY <1>1, <1>2, <1>3, GuessesHold, PTL DEF Spec

\* A span as long as the window sees at most the limit of wrong passwords for an email,
\* one more for every other request that is handled at the same time and one for every
\* request that died before its failure was counted - unless a right one came in.  Every
\* slow request, by moving the end of the window back, lets almost as many pass again.
THEOREM GuessesBounded == Spec => []GuessesAreBounded
  <1>1. WithinBounds => GuessesAreBounded
    <2> SUFFICES ASSUME WithinBounds, NEW e \in Emails, NEW t \in 0..MaxTime
                 PROVE  Cardinality(TriesWithin(tries, e, t)) <= Bound(died)
      BY DEF GuessesAreBounded, TriesWithin, Bound, Uncounted
    <2>1. t \in Nat
      BY SignInLockoutAssumption
    <2> QED BY <2>1 DEF WithinBounds
  <1> QED BY <1>1, BoundsHold, PTL
=============================================================================
