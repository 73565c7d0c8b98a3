---------------------- MODULE AccountRateLimit_proofs ----------------------
(***************************************************************************)
(* Proofs about AccountRateLimit for every number of accounts and of calls *)
(* that overlap, every limit and every window.                             *)
(***************************************************************************)
EXTENDS AccountRateLimit, FiniteSetTheorems, TLAPS

-----------------------------------------------------------------------------
(* Type correctness *)

Call == [pc: {"idle", "drop", "count", "alert", "allowed", "refused"},
         key: Keys \cup {NoKey}, id: Nat, asked: Nat, since: Nat]

\* A call in progress knows its account.
Knows(v) == v.pc # "idle" => v.key \in Keys

CallsOK == call \in [Requests -> Call] /\ \A r \in Requests : Knows(call[r])

\* The times a call carries have passed; a call that is not slow sees no tick.
TimesOK ==
    \A r \in Requests :
        /\ call[r].asked <= now /\ call[r].since <= now
        /\ call[r].pc = "count" /\ r \notin Slow => call[r].since = now

\* The clock's bound is part of what keeps the history well typed.
TypeInv ==
    /\ now \in 0..MaxTime
    /\ counters \subseteq AccountActionCounter
    /\ CallsOK
    /\ TimesOK
    /\ created \in Nat
    /\ admitted \subseteq [key: Keys, at: Nat, nth: Nat] /\ IsFiniteSet(admitted)
    /\ alerts \in [1..MaxCounters -> Nat]
    /\ silenced \subseteq Nat
    /\ overdue \subseteq Nat

LEMMA NoCallType == NoCall \in Call /\ Knows(NoCall)
  BY DEF NoCall, Call, Knows

LEMMA InitType == RateInit => TypeInv
  BY NoCallType, FS_EmptySet, AccountRateLimitAssumption
  DEF RateInit, LimitInit, TypeInv, CallsOK, TimesOK, NoCall

\* The record of a call is replaced by another one.
LEMMA SetType ==
  ASSUME CallsOK, NEW r \in Requests, NEW v \in Call, Knows(v), call' = [call EXCEPT ![r] = v]
  PROVE  CallsOK'
  BY DEF CallsOK

\* A call that is not waiting to be counted, or has just dropped what ran out.
LEMMA SetTimes ==
  ASSUME CallsOK, TimesOK, now \in Nat, UNCHANGED now, NEW r \in Requests, NEW v \in Call,
         call' = [call EXCEPT ![r] = v],
         v.asked <= now, v.since <= now, v.pc # "count" \/ v.since = now
  PROVE  TimesOK'
  BY DEF CallsOK, TimesOK

LEMMA ConsumeType ==
  ASSUME CallsOK, now \in Nat, NEW r \in Requests, NEW k \in Keys, Consume(r, k)
  PROVE  CallsOK'
  <1> DEFINE v == [NoCall EXCEPT !.pc = "drop", !.key = k, !.asked = now]
  <1>1. v \in Call /\ Knows(v)
    BY NoCallType DEF Call, Knows
  <1>2. call' = [call EXCEPT ![r] = v]
    BY DEF Consume
  <1> HIDE DEF v
  <1> QED BY <1>1, <1>2, SetType

LEMMA DropExpiredType ==
  ASSUME CallsOK, now \in Nat, NEW r \in Requests, DropExpired(r)
  PROVE  CallsOK'
  <1> DEFINE v == [call[r] EXCEPT !.pc = "count", !.since = now]
  <1>1. v \in Call /\ Knows(v)
    BY DEF CallsOK, Call, Knows, DropExpired
  <1>2. call' = [call EXCEPT ![r] = v]
    BY DEF DropExpired
  <1> HIDE DEF v
  <1> QED BY <1>1, <1>2, SetType

\* The counter a call is counted on is one of its account.
LEMMA IncrementedType ==
  ASSUME TypeInv, NEW k \in Keys, NEW sent \in Nat
  PROVE  Incremented(k, sent) \in AccountActionCounter /\ Incremented(k, sent).key = k
  <1>1. CASE CountersOf(k) = {}
    BY <1>1, AccountRateLimitAssumption DEF Incremented, AccountActionCounter, TypeInv
  <1>2. CASE CountersOf(k) # {}
    <2>1. PICK d \in CountersOf(k) : d = CHOOSE c \in CountersOf(k) : TRUE
      BY <1>2
    <2>2. d \in AccountActionCounter /\ d.key = k
      BY DEF CountersOf, TypeInv
    <2>3. Incremented(k, sent) = [d EXCEPT !.count = @ + 1]
      BY <1>2, <2>1 DEF Incremented
    <2> QED BY <2>2, <2>3 DEF AccountActionCounter
  <1> QED BY <1>1, <1>2

LEMMA VerdictType ==
  ASSUME NEW n \in Nat
  PROVE  Verdict(n) \in {"alert", "allowed", "refused"}
  BY DEF Verdict

\* Counting one more of something, if it is counted at all.
LEMMA BumpType ==
  ASSUME NEW S, NEW f \in [S -> Nat], NEW i
  PROVE  [f EXCEPT ![i] = @ + 1] \in [S -> Nat]
  <1> DEFINE g == [f EXCEPT ![i] = f[i] + 1]
  <1>1. g = [j \in S |-> IF j = i THEN f[i] + 1 ELSE f[j]]
    OBVIOUS
  <1>2. \A j \in S : j = i => f[i] + 1 \in Nat
    OBVIOUS
  <1>3. \A j \in S : (IF j = i THEN f[i] + 1 ELSE f[j]) \in Nat
    BY <1>2
  <1> HIDE DEF g
  <1>4. g \in [S -> Nat]
    BY <1>1, <1>3
  <1> QED BY <1>4 DEF g

\* The parts of a count: the call is counted on c, which is what it was or has
\* an expiry reckoned from a time between the end of the delete and now.
CountsAs(r, k, sent, c) ==
    /\ call[r].pc = "count" /\ k = call[r].key
    /\ sent \in call[r].since..now /\ c = Incremented(k, sent)
    /\ counters' = (counters \ CountersOf(k)) \cup {c}
    /\ created' = IF CountersOf(k) = {} THEN created + 1 ELSE created
    /\ overdue' = IF CountersOf(k) = {} /\ c.expiresAt <= now
                    THEN overdue \cup {c.id} ELSE overdue
    /\ call' = [call EXCEPT ![r] = [@ EXCEPT !.pc = Verdict(c.count), !.id = c.id,
                                             !.asked = 0, !.since = 0]]
    /\ admitted' = IF Verdict(c.count) = "allowed" THEN admitted \cup {Admission(k)} ELSE admitted
    /\ UNCHANGED <<alerts, silenced>>

LEMMA CountIsAs ==
  ASSUME TypeInv, NEW r \in Requests, Count(r)
  PROVE  \E k \in Keys, sent \in Nat, c \in AccountActionCounter :
            CountsAs(r, k, sent, c) /\ c.key = k
  <1>1. PICK sent : sent \in call[r].since..now /\ \E k, c : CountsAs(r, k, sent, c)
    BY DEF Count, CountsAs
  <1>2. PICK k, c : CountsAs(r, k, sent, c)
    BY <1>1
  <1>3. k \in Keys /\ sent \in Nat
    BY <1>1, <1>2 DEF CountsAs, TypeInv, CallsOK, Knows, Call
  <1>4. c \in AccountActionCounter /\ c.key = k
    BY <1>2, <1>3, IncrementedType DEF CountsAs
  <1> QED BY <1>2, <1>3, <1>4

LEMMA CountType ==
  ASSUME TypeInv, NEW r \in Requests, Count(r), UNCHANGED now
  PROVE  /\ counters' \subseteq AccountActionCounter
         /\ CallsOK' /\ TimesOK'
         /\ created' \in Nat
         /\ admitted' \subseteq [key: Keys, at: Nat, nth: Nat] /\ IsFiniteSet(admitted')
         /\ overdue' \subseteq Nat
  <1>1. PICK k \in Keys, sent \in Nat, c \in AccountActionCounter : CountsAs(r, k, sent, c)
    BY CountIsAs
  <1>2. counters' \subseteq AccountActionCounter
    BY <1>1 DEF CountsAs, TypeInv
  <1>3. CallsOK' /\ TimesOK'
    <2> DEFINE v == [call[r] EXCEPT !.pc = Verdict(c.count), !.id = c.id, !.asked = 0, !.since = 0]
    <2>1. Verdict(c.count) \in {"alert", "allowed", "refused"} /\ c.id \in Nat
      BY VerdictType DEF AccountActionCounter
    <2>2. CallsOK /\ TimesOK /\ now \in Nat
      BY DEF TypeInv
    <2>3. call[r] \in Call /\ call[r].key = k
      BY <1>1, <2>2 DEF CountsAs, CallsOK
    <2>4. v \in Call /\ Knows(v)
      BY <2>1, <2>3 DEF Call, Knows
    <2>5. v.asked <= now /\ v.since <= now /\ v.pc # "count"
      BY <2>1, <2>2, <2>3 DEF Call
    <2>6. call' = [call EXCEPT ![r] = v]
      BY <1>1 DEF CountsAs
    <2> HIDE DEF v
    <2>7. CallsOK'
      BY <2>2, <2>4, <2>6, SetType
    <2>8. TimesOK'
      BY <2>2, <2>4, <2>5, <2>6, SetTimes
    <2> QED BY <2>7, <2>8
  <1>4. created' \in Nat
    BY <1>1 DEF CountsAs, TypeInv
  <1>5. admitted' \subseteq [key: Keys, at: Nat, nth: Nat] /\ IsFiniteSet(admitted')
    <2>1. PICK a : a = Admission(k)
      OBVIOUS
    <2>2. a \in [key: Keys, at: Nat, nth: Nat]
      <3>1. PICK n : n = Cardinality({b \in admitted : b.key = k /\ b.at = now})
        OBVIOUS
      <3>2. n \in Nat
        BY <3>1, FS_Subset, FS_CardinalityType DEF TypeInv
      <3> QED BY <2>1, <3>1, <3>2 DEF Admission, TypeInv
    <2>3. admitted' = admitted \cup {a} \/ admitted' = admitted
      BY <1>1, <2>1 DEF CountsAs
    <2> QED BY <2>2, <2>3, FS_AddElement DEF TypeInv
  <1>6. overdue' \subseteq Nat
    BY <1>1 DEF CountsAs, TypeInv, AccountActionCounter
  <1> QED BY <1>2, <1>3, <1>4, <1>5, <1>6

LEMMA AlertType ==
  ASSUME CallsOK, NEW r \in Requests, Alert(r)
  PROVE  CallsOK'
  <1> DEFINE v == [call[r] EXCEPT !.pc = "refused"]
  <1>1. v \in Call /\ Knows(v)
    BY DEF CallsOK, Call, Knows, Alert
  <1>2. call' = [call EXCEPT ![r] = v]
    BY DEF Alert
  <1> HIDE DEF v
  <1> QED BY <1>1, <1>2, SetType

LEMMA ReturnType ==
  ASSUME CallsOK, NEW r \in Requests, NEW verdict, Return(r, verdict)
  PROVE  CallsOK'
  <1> HIDE DEF NoCall
  <1> QED BY NoCallType, SetType DEF Return

LEMMA AbortType ==
  ASSUME TypeInv, NEW r \in Requests, Abort(r)
  PROVE  CallsOK' /\ silenced' \subseteq Nat
  <1>1. CallsOK'
    <2> HIDE DEF NoCall
    <2> QED BY NoCallType, SetType DEF Abort, TypeInv
  <1>2. silenced' \subseteq Nat
    BY DEF Abort, TypeInv, CallsOK, Call
  <1> QED BY <1>1, <1>2

LEMMA NextType ==
  ASSUME TypeInv, [RateNext]_rateVars
  PROVE  TypeInv'
  <1>0. CallsOK /\ TimesOK /\ now \in Nat
    BY DEF TypeInv
  <1>c. /\ NoCall.asked <= now /\ NoCall.since <= now /\ NoCall.pc # "count"
        /\ \A r \in Requests : call[r] \in Call
    BY <1>0 DEF NoCall, CallsOK
  <1>1. ASSUME NEW r \in Requests, NEW k \in Keys, Consume(r, k), UNCHANGED now PROVE TypeInv'
    <2>1. PICK v : v = [NoCall EXCEPT !.pc = "drop", !.key = k, !.asked = now]
      OBVIOUS
    <2>2. v \in Call /\ v.asked = now /\ v.since = NoCall.since /\ v.pc = "drop"
      BY <1>0, <2>1, NoCallType DEF Call
    <2>3. v.asked <= now /\ v.since <= now
      BY <1>0, <1>c, <2>2
    <2>4. call' = [call EXCEPT ![r] = v]
      BY <1>1, <2>1 DEF Consume
    <2>5. TimesOK'
      BY <1>0, <1>1, <2>2, <2>3, <2>4, SetTimes
    <2> QED BY <1>0, <1>1, <2>5, ConsumeType DEF Consume, TypeInv
  <1>2. ASSUME NEW r \in Requests, DropExpired(r), UNCHANGED now PROVE TypeInv'
    <2>1. CallsOK'
      BY <1>0, <1>2, DropExpiredType
    <2>2. counters' \subseteq counters
      BY <1>2 DEF DropExpired
    <2>3. PICK v : v = [call[r] EXCEPT !.pc = "count", !.since = now]
      OBVIOUS
    <2>4. v \in Call /\ v.asked = call[r].asked /\ v.since = now
      BY <1>0, <1>c, <2>3 DEF Call
    <2>5. v.asked <= now /\ v.since <= now
      BY <1>0, <2>4 DEF TimesOK
    <2>6. call' = [call EXCEPT ![r] = v]
      BY <1>2, <2>3 DEF DropExpired
    <2>7. TimesOK'
      BY <1>0, <1>2, <2>4, <2>5, <2>6, SetTimes
    <2> QED BY <1>2, <2>1, <2>2, <2>7 DEF DropExpired, TypeInv
  <1>3. ASSUME NEW r \in Requests, Count(r), UNCHANGED now PROVE TypeInv'
    <2>1. UNCHANGED <<alerts, silenced>>
      BY <1>3 DEF Count
    <2> QED BY <1>3, <2>1, CountType DEF TypeInv
  <1>4. ASSUME NEW r \in Requests, Alert(r), UNCHANGED now PROVE TypeInv'
    <2>1. CallsOK'
      BY <1>0, <1>4, AlertType
    <2>2. PICK i : alerts' = [alerts EXCEPT ![i] = alerts[i] + 1]
      BY <1>4 DEF Alert
    <2>3. alerts' \in [1..MaxCounters -> Nat]
      BY <2>2, BumpType DEF TypeInv
    <2>4. PICK v : v = [call[r] EXCEPT !.pc = "refused"]
      OBVIOUS
    <2>5. v.asked <= now /\ v.since <= now /\ v.pc # "count" /\ v \in Call
      BY <1>0, <1>c, <2>4 DEF TimesOK, Call
    <2>6. call' = [call EXCEPT ![r] = v]
      BY <1>4, <2>4 DEF Alert
    <2>7. TimesOK'
      BY <1>0, <1>4, <2>5, <2>6, SetTimes
    <2> QED BY <1>4, <2>1, <2>3, <2>7 DEF Alert, TypeInv
  <1>5. ASSUME NEW r \in Requests, NEW verdict, Return(r, verdict), UNCHANGED now PROVE TypeInv'
    <2>1. TimesOK'
      <3>1. call' = [call EXCEPT ![r] = NoCall]
        BY <1>5 DEF Return
      <3> QED BY <1>0, <1>c, <1>5, <3>1, SetTimes, NoCallType
    <2> QED BY <1>0, <1>5, <2>1, ReturnType DEF Return, TypeInv
  <1>6. ASSUME NEW r \in Requests, Abort(r), UNCHANGED now PROVE TypeInv'
    <2>1. TimesOK'
      <3>1. call' = [call EXCEPT ![r] = NoCall]
        BY <1>6 DEF Abort
      <3> QED BY <1>0, <1>c, <1>6, <3>1, SetTimes, NoCallType
    <2> QED BY <1>6, <2>1, AbortType DEF Abort, TypeInv
  <1>7. CASE PurgeCounters /\ UNCHANGED now
    BY <1>7 DEF PurgeCounters, CallsOK, TimesOK, TypeInv
  <1>8. CASE Tick
    <2>1. TimesOK'
      BY <1>0, <1>c, <1>8 DEF Tick, limitVars, TimesOK, Calling, Call
    <2> QED BY <1>8, <2>1, AccountRateLimitAssumption DEF Tick, limitVars, CallsOK, TypeInv
  <1>9. CASE UNCHANGED rateVars
    BY <1>9 DEF rateVars, limitVars, CallsOK, TimesOK, TypeInv
  <1> QED BY <1>1, <1>2, <1>3, <1>4, <1>5, <1>6, <1>7, <1>8, <1>9 DEF RateNext, LimitStep

LEMMA TypeHolds == RateSpec => []TypeInv
  BY InitType, NextType, PTL DEF RateSpec

\* Every reachable state is well typed: a call that is under way knows its
\* account, and every counter belongs to one.
THEOREM TypeCorrect == RateSpec => []RateTypeOK
  <1>1. TypeInv => RateTypeOK
    BY DEF TypeInv, CallsOK, Call, Knows, RateTypeOK, Calling
  <1> QED BY <1>1, TypeHolds, PTL

-----------------------------------------------------------------------------
(* The inductive invariant *)

\* An account has one counter at a time, and no two share a serial number.
CountersAreUnique ==
    /\ \A c, d \in counters : c.key = d.key \/ c.id = d.id => c = d
    /\ \A c \in counters : c.id \in 1..created

\* The calls that may still create a counter are within the bound on counters.
Counting == {r \in Requests : call[r].pc \in {"drop", "count"}}
WithinBound == created + Cardinality(Counting) <= MaxCounters

\* Nobody is alerted on account of a counter to come.
NoEarlyAlert ==
    /\ \A i \in 1..MaxCounters : i > created => alerts[i] = 0
    /\ \A r \in Requests : call[r].pc = "alert" => call[r].id \in 1..created
    /\ silenced \subseteq 1..created

\* The calls that are about to mail the alert of counter i.
Due(i) == {r \in Requests : call[r].pc = "alert" /\ call[r].id = i}

\* The call that was the first over the limit mails, has mailed, or was cut off;
\* no other does.
AlertIsOwed(c) ==
    \/ c.count <= Limit /\ alerts[c.id] = 0 /\ Due(c.id) = {} /\ c.id \notin silenced
    \/ c.count > Limit /\ alerts[c.id] = 1 /\ Due(c.id) = {} /\ c.id \notin silenced
    \/ c.count > Limit /\ alerts[c.id] = 0 /\ Due(c.id) = {} /\ c.id \in silenced
    \/ /\ c.count > Limit /\ alerts[c.id] = 0 /\ c.id \notin silenced
       /\ \E r \in Requests : Due(c.id) = {r}

\* A call that had what ran out dropped finds only what was still running when it
\* asked, or was over when it was created.
StillRuns ==
    \A r \in Requests : call[r].pc = "count" =>
        \A c \in counters :
            c.key = call[r].key => call[r].asked < c.expiresAt \/ c.id \in overdue

RateInv ==
    /\ CountersAreUnique
    /\ WithinBound
    /\ NoEarlyAlert
    /\ \A c \in counters : AlertIsOwed(c)
    /\ StillRuns

LEMMA InitInv == RateInit => RateInv
  <1> SUFFICES ASSUME RateInit PROVE RateInv
    OBVIOUS
  <1>1. \A r \in Requests : call[r] = NoCall
    BY DEF RateInit, LimitInit
  <1>2. Counting = {}
    BY <1>1 DEF Counting, NoCall
  <1>3. WithinBound
    BY <1>2, FS_EmptySet, AccountRateLimitAssumption DEF WithinBound, RateInit, LimitInit
  <1>4. CountersAreUnique /\ NoEarlyAlert /\ StillRuns
    BY <1>1 DEF RateInit, LimitInit, CountersAreUnique, NoEarlyAlert, StillRuns, NoCall
  <1> QED BY <1>3, <1>4 DEF RateInv, RateInit, LimitInit

-----------------------------------------------------------------------------
(* Steps that neither count nor alert *)

LEMMA CountingIsFinite == IsFiniteSet(Counting) /\ Cardinality(Counting) \in Nat
  BY FS_Subset, FS_CardinalityType, AccountRateLimitAssumption DEF Counting

\* Counters may go; who is to alert stays as it was.
LEMMA QuietInv ==
  ASSUME TypeInv, TypeInv', RateInv, counters' \subseteq counters, UNCHANGED <<created, alerts, silenced>>,
         \A r \in Requests :
            /\ call'[r].pc = "alert" <=> call[r].pc = "alert"
            /\ call[r].pc = "alert" => call'[r].id = call[r].id,
         WithinBound', StillRuns'
  PROVE  RateInv'
  <1>1. CountersAreUnique'
    BY DEF RateInv, CountersAreUnique
  <1>2. NoEarlyAlert'
    BY DEF RateInv, NoEarlyAlert
  <1>3. ASSUME NEW c \in counters' PROVE AlertIsOwed(c)'
    <2>1. AlertIsOwed(c)
      BY DEF RateInv
    <2>2. Due(c.id)' = Due(c.id)
      BY DEF Due
    <2> QED BY <2>1, <2>2 DEF AlertIsOwed
  <1> QED BY <1>1, <1>2, <1>3 DEF RateInv

\* What a call found running it still finds running: counters only go, and no
\* call is readied to be counted.
LEMMA StillRunsOn ==
  ASSUME StillRuns, counters' \subseteq counters, UNCHANGED overdue,
         \A r \in Requests : call'[r].pc = "count" => call'[r] = call[r]
  PROVE  StillRuns'
  BY DEF StillRuns

LEMMA ConsumeInv ==
  ASSUME TypeInv, TypeInv', RateInv, NEW r \in Requests, NEW k \in Keys, Consume(r, k), UNCHANGED now
  PROVE  RateInv'
  <1>1. \A q \in Requests : q # r => call'[q] = call[q]
    BY DEF Consume, TypeInv, CallsOK
  <1>2. call[r].pc = "idle" /\ call'[r].pc = "drop"
    BY DEF Consume, TypeInv, CallsOK, NoCall, Calling
  <1>3. WithinBound'
    <2>1. Counting' = Counting \cup {r} /\ r \notin Counting
      BY <1>1, <1>2 DEF Counting
    <2>2. Cardinality(Counting') = Cardinality(Counting) + 1
      BY <2>1, CountingIsFinite, FS_AddElement
    <2>3. created + Cardinality(Counting) < MaxCounters /\ created' = created
      BY DEF Consume, CallBudget, Counting
    <2>4. Cardinality(Counting) \in Nat /\ created \in Nat /\ MaxCounters \in Nat
      BY CountingIsFinite, AccountRateLimitAssumption DEF TypeInv
    <2> QED BY <2>2, <2>3, <2>4 DEF WithinBound
  <1>4. StillRuns'
    BY <1>1, <1>2, StillRunsOn DEF Consume, RateInv
  <1> QED BY <1>1, <1>2, <1>3, <1>4, QuietInv DEF Consume

LEMMA DropExpiredInv ==
  ASSUME TypeInv, TypeInv', RateInv, NEW r \in Requests, DropExpired(r), UNCHANGED now
  PROVE  RateInv'
  <1>1. \A q \in Requests : q # r => call'[q] = call[q]
    BY DEF DropExpired, TypeInv, CallsOK
  <1>2. /\ call[r].pc = "drop" /\ call'[r].pc = "count"
        /\ call'[r].key = call[r].key /\ call'[r].asked = call[r].asked
        /\ call[r].asked \in Nat
    BY DEF DropExpired, TypeInv, CallsOK, Call
  <1>3. Counting' = Counting
    BY <1>1, <1>2 DEF Counting
  <1>4. WithinBound'
    BY <1>3 DEF WithinBound, RateInv, DropExpired
  <1>5. counters' \subseteq counters
    BY DEF DropExpired
  <1>6. \A c \in counters' : c.key = call'[r].key => call'[r].asked < c.expiresAt
    BY <1>2 DEF DropExpired, RanOut, TypeInv, AccountActionCounter
  <1>7. StillRuns'
    BY <1>1, <1>2, <1>5, <1>6 DEF RateInv, StillRuns, DropExpired
  <1> QED BY <1>1, <1>2, <1>4, <1>5, <1>7, QuietInv DEF DropExpired

LEMMA ReturnInv ==
  ASSUME TypeInv, TypeInv', RateInv, NEW r \in Requests, NEW verdict \in {"allowed", "refused"},
         Return(r, verdict), UNCHANGED now
  PROVE  RateInv'
  <1>1. \A q \in Requests : q # r => call'[q] = call[q]
    BY DEF Return, TypeInv, CallsOK
  <1>2. call[r].pc = verdict /\ call'[r].pc = "idle"
    BY DEF Return, TypeInv, CallsOK, NoCall
  <1>3. Counting' = Counting
    BY <1>1, <1>2 DEF Counting
  <1>4. WithinBound'
    BY <1>3 DEF WithinBound, RateInv, Return
  <1>5. StillRuns'
    BY <1>1, <1>2, StillRunsOn DEF RateInv, Return
  <1> QED BY <1>1, <1>2, <1>4, <1>5, QuietInv DEF Return

LEMMA PurgeInv ==
  ASSUME TypeInv, TypeInv', RateInv, PurgeCounters, UNCHANGED now
  PROVE  RateInv'
  <1>1. WithinBound' /\ counters' \subseteq counters
    BY DEF PurgeCounters, RateInv, WithinBound, Counting
  <1>2. StillRuns'
    BY <1>1, StillRunsOn DEF PurgeCounters, RateInv
  <1> QED BY <1>1, <1>2, QuietInv DEF PurgeCounters

LEMMA TickInv ==
  ASSUME TypeInv, TypeInv', RateInv, Tick
  PROVE  RateInv'
  <1>1. WithinBound'
    BY DEF Tick, limitVars, RateInv, WithinBound, Counting
  <1>2. StillRuns'
    BY StillRunsOn DEF Tick, limitVars, RateInv
  <1> QED BY <1>1, <1>2, QuietInv DEF Tick, limitVars

-----------------------------------------------------------------------------
(* The step that mails *)

LEMMA AlertInv ==
  ASSUME TypeInv, TypeInv', RateInv, NEW r \in Requests, Alert(r), UNCHANGED now
  PROVE  RateInv'
  <1>1. PICK i : i = call[r].id
    OBVIOUS
  <1>2. \A q \in Requests : q # r => call'[q] = call[q]
    BY DEF Alert, TypeInv, CallsOK
  <1>3. call[r].pc = "alert" /\ call'[r].pc = "refused"
    BY DEF Alert, TypeInv, CallsOK, Call
  <1>4. i \in 1..created /\ created \in Nat
    BY <1>1, <1>3 DEF RateInv, NoEarlyAlert, TypeInv
  <1>5. i \in 1..MaxCounters
    BY <1>4, CountingIsFinite, AccountRateLimitAssumption DEF RateInv, WithinBound
  <1>6. alerts' = [alerts EXCEPT ![i] = @ + 1]
    BY <1>1 DEF Alert
  <1>7. UNCHANGED <<counters, created, silenced, overdue>>
    BY DEF Alert
  <1>8. CountersAreUnique'
    BY <1>7 DEF RateInv, CountersAreUnique
  <1>9. WithinBound'
    <2>1. Counting' = Counting
      BY <1>2, <1>3 DEF Counting
    <2> QED BY <1>7, <2>1 DEF RateInv, WithinBound
  <1>10. NoEarlyAlert'
    BY <1>2, <1>3, <1>4, <1>5, <1>6, <1>7 DEF RateInv, NoEarlyAlert, TypeInv
  <1>11. StillRuns'
    BY <1>2, <1>3, <1>7, StillRunsOn DEF RateInv
  <1>12. ASSUME NEW c \in counters' PROVE AlertIsOwed(c)'
    <2>1. AlertIsOwed(c) /\ c \in counters /\ c.id \in Nat
      BY <1>7 DEF RateInv, TypeInv, AccountActionCounter
    <2>2. CASE c.id = i
      <3>1. r \in Due(i)
        BY <1>1, <1>3 DEF Due
      <3>2. c.count > Limit /\ alerts[i] = 0 /\ Due(i) = {r} /\ i \notin silenced
        BY <2>1, <2>2, <3>1 DEF AlertIsOwed
      <3>3. Due(i)' = {}
        BY <1>2, <1>3, <3>2 DEF Due
      <3>4. alerts'[i] = 1
        BY <1>5, <1>6, <3>2 DEF TypeInv
      <3> QED BY <1>7, <2>2, <3>2, <3>3, <3>4 DEF AlertIsOwed
    <2>3. CASE c.id # i
      <3>1. Due(c.id)' = Due(c.id)
        BY <1>1, <1>2, <1>3, <2>3 DEF Due
      <3>2. alerts'[c.id] = alerts[c.id]
        <4>1. c.id \in 1..MaxCounters
          BY <2>1, CountingIsFinite, AccountRateLimitAssumption
          DEF RateInv, CountersAreUnique, WithinBound, TypeInv
        <4> QED BY <1>6, <2>3, <4>1 DEF TypeInv
      <3> QED BY <1>7, <2>1, <3>1, <3>2 DEF AlertIsOwed
    <2> QED BY <2>2, <2>3
  <1> QED BY <1>8, <1>9, <1>10, <1>11, <1>12 DEF RateInv

-----------------------------------------------------------------------------
(* The step that is cut off *)

\* A call that owes no alert takes nothing with it.
LEMMA AbortQuietInv ==
  ASSUME TypeInv, TypeInv', RateInv, NEW r \in Requests, Abort(r), call[r].pc # "alert"
  PROVE  RateInv'
  <1>1. \A q \in Requests : q # r => call'[q] = call[q]
    BY DEF Abort, TypeInv, CallsOK
  <1>2. call'[r].pc = "idle"
    BY DEF Abort, TypeInv, CallsOK, NoCall
  <1>3. WithinBound'
    <2>1. Counting' \in SUBSET Counting
      BY <1>1, <1>2 DEF Counting
    <2>2. Cardinality(Counting') <= Cardinality(Counting) /\ Cardinality(Counting') \in Nat
      BY <2>1, CountingIsFinite, FS_Subset, FS_CardinalityType
    <2> QED BY <2>2, CountingIsFinite, AccountRateLimitAssumption
        DEF RateInv, WithinBound, Abort, TypeInv
  <1>4. StillRuns'
    BY <1>1, <1>2, StillRunsOn DEF Abort, RateInv
  <1> QED BY <1>1, <1>2, <1>3, <1>4, QuietInv DEF Abort

\* A call that owes one leaves its counter without.
LEMMA AbortAlertInv ==
  ASSUME TypeInv, TypeInv', RateInv, NEW r \in Requests, Abort(r), call[r].pc = "alert"
  PROVE  RateInv'
  <1>1. PICK i : i = call[r].id
    OBVIOUS
  <1>2. \A q \in Requests : q # r => call'[q] = call[q]
    BY DEF Abort, TypeInv, CallsOK
  <1>3. call'[r].pc = "idle"
    BY DEF Abort, TypeInv, CallsOK, NoCall
  <1>4. i \in 1..created
    BY <1>1 DEF RateInv, NoEarlyAlert
  <1>5. silenced' = silenced \cup {i} /\ UNCHANGED <<counters, created, alerts, overdue>>
    BY <1>1 DEF Abort
  <1>6. CountersAreUnique'
    BY <1>5 DEF RateInv, CountersAreUnique
  <1>7. WithinBound'
    <2>1. Counting' = Counting
      BY <1>2, <1>3 DEF Counting
    <2> QED BY <1>5, <2>1 DEF RateInv, WithinBound
  <1>8. NoEarlyAlert'
    BY <1>2, <1>3, <1>4, <1>5 DEF RateInv, NoEarlyAlert
  <1>9. StillRuns'
    BY <1>2, <1>3, <1>5, StillRunsOn DEF RateInv
  <1>10. ASSUME NEW c \in counters' PROVE AlertIsOwed(c)'
    <2>1. AlertIsOwed(c)
      BY <1>5 DEF RateInv
    <2>2. CASE c.id = i
      <3>1. r \in Due(i)
        BY <1>1 DEF Due
      <3>2. c.count > Limit /\ alerts[i] = 0 /\ Due(i) = {r}
        BY <2>1, <2>2, <3>1 DEF AlertIsOwed
      <3>3. Due(i)' = {}
        BY <1>2, <1>3, <3>2 DEF Due
      <3> QED BY <1>5, <2>2, <3>2, <3>3 DEF AlertIsOwed
    <2>3. CASE c.id # i
      <3>1. Due(c.id)' = Due(c.id)
        BY <1>1, <1>2, <1>3, <2>3 DEF Due
      <3> QED BY <1>5, <2>1, <2>3, <3>1 DEF AlertIsOwed
    <2> QED BY <2>2, <2>3
  <1> QED BY <1>6, <1>7, <1>8, <1>9, <1>10 DEF RateInv

-----------------------------------------------------------------------------
(* The step that counts *)

\* Either the account's only counter goes up by one, or a new one starts.
Bumped(k, c, d) == d \in counters /\ CountersOf(k) = {d} /\ c = [d EXCEPT !.count = @ + 1]
Started(k, sent, c) ==
    /\ CountersOf(k) = {}
    /\ c = [id |-> created + 1, key |-> k, count |-> 1, expiresAt |-> sent + Window]

LEMMA IncrementedIs ==
  ASSUME TypeInv, RateInv, NEW k \in Keys, NEW sent
  PROVE  \/ Started(k, sent, Incremented(k, sent))
         \/ \E d \in counters : Bumped(k, Incremented(k, sent), d)
  <1>1. CASE CountersOf(k) = {}
    BY <1>1 DEF Incremented, Started
  <1>2. CASE CountersOf(k) # {}
    <2>1. PICK d \in CountersOf(k) : d = CHOOSE c \in CountersOf(k) : TRUE
      BY <1>2
    <2>2. CountersOf(k) = {d} /\ d \in counters
      BY <2>1 DEF CountersOf, RateInv, CountersAreUnique
    <2>3. Incremented(k, sent) = [d EXCEPT !.count = @ + 1]
      BY <1>2, <2>1 DEF Incremented
    <2> QED BY <2>2, <2>3 DEF Bumped
  <1> QED BY <1>1, <1>2

\* What Count does, in terms of the account and the counter it ends up with.
Counts(r, k, c) ==
    /\ call[r].pc = "count" /\ call[r].key = k
    /\ counters' = (counters \ CountersOf(k)) \cup {c}
    /\ created' = IF CountersOf(k) = {} THEN created + 1 ELSE created
    /\ \A q \in Requests : q # r => call'[q] = call[q]
    /\ call'[r].pc = Verdict(c.count) /\ call'[r].id = c.id
    /\ overdue \subseteq overdue'
    /\ CountersOf(k) = {} /\ c.expiresAt <= now => c.id \in overdue'
    /\ UNCHANGED <<alerts, silenced>>

LEMMA CountIs ==
  ASSUME TypeInv, RateInv, NEW r \in Requests, Count(r)
  PROVE  \E k \in Keys, sent \in Nat, c \in AccountActionCounter :
            /\ Counts(r, k, c)
            /\ Started(k, sent, c) \/ \E d \in counters : Bumped(k, c, d)
  <1>1. PICK k \in Keys, sent \in Nat, c \in AccountActionCounter : CountsAs(r, k, sent, c)
    BY CountIsAs
  <1>2. /\ call'[r].pc = Verdict(c.count) /\ call'[r].id = c.id
        /\ \A q \in Requests : q # r => call'[q] = call[q]
    BY <1>1 DEF CountsAs, TypeInv, CallsOK, Call
  <1>3. Counts(r, k, c)
    BY <1>1, <1>2 DEF CountsAs, Counts
  <1>4. Started(k, sent, c) \/ \E d \in counters : Bumped(k, c, d)
    BY <1>1, IncrementedIs DEF CountsAs
  <1> QED BY <1>3, <1>4

LEMMA CountWithinBound ==
  ASSUME TypeInv, RateInv, NEW r \in Requests, NEW k, NEW c \in AccountActionCounter, Counts(r, k, c)
  PROVE  WithinBound' /\ created + 1 <= MaxCounters /\ created' \in created..(created + 1)
  <1>1. Verdict(c.count) \notin {"drop", "count"}
    BY VerdictType DEF AccountActionCounter
  <1>2. r \in Counting /\ Counting' = Counting \ {r}
    BY <1>1 DEF Counting, Counts
  <1>3. Cardinality(Counting') = Cardinality(Counting) - 1
    BY <1>2, CountingIsFinite, FS_RemoveElement
  <1>4. Cardinality(Counting) >= 1
    BY <1>2, CountingIsFinite, FS_EmptySet
  <1>5. created + Cardinality(Counting) <= MaxCounters
    BY DEF RateInv, WithinBound
  <1>6. created' \in created..(created + 1)
    BY DEF Counts, TypeInv
  <1> QED BY <1>3, <1>4, <1>5, <1>6, CountingIsFinite, AccountRateLimitAssumption
      DEF WithinBound, TypeInv

\* The counter of the call: the first of its account, alerting nobody, or one up on
\* what it was - and if that is the first over the limit, this very call is to mail.
LEMMA CountOwes ==
  ASSUME TypeInv, RateInv, NEW r \in Requests, NEW k \in Keys, NEW sent,
         NEW c \in AccountActionCounter,
         Counts(r, k, c), Started(k, sent, c) \/ \E d \in counters : Bumped(k, c, d)
  PROVE  AlertIsOwed(c)'
  <1> USE DEF AccountActionCounter
  <1>1. CASE Started(k, sent, c)
    <2>1. c.count = 1 /\ c.id = created + 1 /\ c.id \in 1..MaxCounters
      BY <1>1, CountWithinBound DEF Started, TypeInv
    <2>2. alerts'[c.id] = 0
      BY <2>1 DEF RateInv, NoEarlyAlert, Counts, TypeInv
    <2>3. call'[r].pc = "allowed"
      BY <2>1, AccountRateLimitAssumption DEF Counts, Verdict
    <2>4. Due(c.id)' = {}
      BY <2>1, <2>3 DEF Due, Counts, RateInv, NoEarlyAlert, TypeInv
    <2>5. c.id \notin silenced'
      BY <2>1 DEF Counts, RateInv, NoEarlyAlert, TypeInv
    <2> QED BY <2>1, <2>2, <2>4, <2>5, AccountRateLimitAssumption DEF AlertIsOwed
  <1>2. ASSUME NEW d \in counters, Bumped(k, c, d) PROVE AlertIsOwed(c)'
    <2>1. d.count \in Nat /\ c.count = d.count + 1 /\ c.id = d.id
      BY <1>2 DEF Bumped, TypeInv
    <2>2. AlertIsOwed(d) /\ alerts' = alerts /\ silenced' = silenced
      BY DEF RateInv, Counts
    <2>3. Limit \in Nat
      BY AccountRateLimitAssumption
    <2>4. CASE d.count = Limit
      <3>1. call'[r].pc = "alert" /\ call'[r].id = d.id
        BY <2>1, <2>3, <2>4 DEF Counts, Verdict
      <3>2. Due(d.id) = {} /\ alerts[d.id] = 0 /\ d.id \notin silenced
        BY <2>1, <2>2, <2>3, <2>4 DEF AlertIsOwed
      <3>3. Due(d.id)' = {r}
        BY <3>1, <3>2 DEF Due, Counts
      <3> QED BY <2>1, <2>2, <2>3, <2>4, <3>2, <3>3 DEF AlertIsOwed
    <2>5. CASE d.count # Limit
      <3>1. call'[r].pc # "alert"
        BY <2>1, <2>3, <2>5 DEF Counts, Verdict
      <3>2. Due(d.id)' = Due(d.id)
        BY <3>1 DEF Due, Counts
      <3> QED BY <2>1, <2>2, <2>3, <2>5, <3>2 DEF AlertIsOwed
    <2> QED BY <2>4, <2>5
  <1> QED BY <1>1, <1>2

LEMMA CountInv ==
  ASSUME TypeInv, TypeInv', RateInv, NEW r \in Requests, Count(r), UNCHANGED now
  PROVE  RateInv'
  <1>1. PICK k \in Keys, sent \in Nat, c \in AccountActionCounter :
           /\ Counts(r, k, c)
           /\ Started(k, sent, c) \/ \E d \in counters : Bumped(k, c, d)
    BY CountIs
  <1>2. WithinBound' /\ created + 1 <= MaxCounters /\ created' \in created..(created + 1)
    BY <1>1, CountWithinBound
  <1>3. c.key = k /\ c.id \in 1..created' /\ \A e \in counters : e.key # k => e.id # c.id
    <2>1. CASE Started(k, sent, c)
      BY <1>1, <2>1 DEF Started, Counts, RateInv, CountersAreUnique, TypeInv
    <2>2. ASSUME NEW d \in counters, Bumped(k, c, d)
          PROVE  c.key = k /\ c.id \in 1..created' /\ \A e \in counters : e.key # k => e.id # c.id
      <3>1. d \in AccountActionCounter /\ d.key = k /\ c.id = d.id /\ c.key = k /\ created' = created
        BY <1>1, <2>2 DEF Bumped, CountersOf, Counts, TypeInv, AccountActionCounter
      <3> QED BY <3>1 DEF RateInv, CountersAreUnique
    <2> QED BY <1>1, <2>1, <2>2
  <1>4. counters' = (counters \ CountersOf(k)) \cup {c} /\ UNCHANGED <<alerts, silenced>>
    BY <1>1 DEF Counts
  <1>5. \A e \in counters' : e # c => e \in counters /\ e.key # k /\ e.id # c.id
    BY <1>3, <1>4 DEF CountersOf
  <1>6. CountersAreUnique'
    <2>1. \A e \in counters' : e.id \in 1..created'
      BY <1>2, <1>3, <1>5 DEF RateInv, CountersAreUnique, TypeInv
    <2>2. \A e, f \in counters' : e.key = f.key \/ e.id = f.id => e = f
      BY <1>3, <1>5 DEF RateInv, CountersAreUnique
    <2> QED BY <2>1, <2>2 DEF CountersAreUnique
  <1>7. NoEarlyAlert'
    <2>1. created \in Nat /\ created' \in Nat /\ created <= created'
      BY <1>2 DEF TypeInv
    <2>2. \A i \in 1..MaxCounters : i > created' => alerts'[i] = 0
      BY <1>4, <2>1 DEF RateInv, NoEarlyAlert
    <2>3. ASSUME NEW q \in Requests, call'[q].pc = "alert" PROVE call'[q].id \in 1..created'
      <3>1. CASE q = r
        BY <1>1, <1>3, <3>1 DEF Counts
      <3>2. CASE q # r
        BY <1>1, <2>1, <2>3, <3>2 DEF Counts, RateInv, NoEarlyAlert
      <3> QED BY <3>1, <3>2
    <2>4. silenced' \subseteq 1..created'
      BY <1>4, <2>1 DEF RateInv, NoEarlyAlert
    <2> QED BY <2>2, <2>3, <2>4 DEF NoEarlyAlert
  <1>8. ASSUME NEW e \in counters' PROVE AlertIsOwed(e)'
    <2>1. CASE e = c
      BY <1>1, <2>1, CountOwes
    <2>2. CASE e # c
      <3>1. e \in counters /\ e.id # c.id
        BY <1>5, <2>2
      <3>2. Due(e.id)' = Due(e.id)
        BY <1>1, <3>1 DEF Due, Counts
      <3> QED BY <1>4, <3>1, <3>2 DEF RateInv, AlertIsOwed
    <2> QED BY <2>1, <2>2
  <1>9. StillRuns'
    <2> SUFFICES ASSUME NEW q \in Requests, call'[q].pc = "count",
                        NEW e \in counters', e.key = call'[q].key
                 PROVE  call'[q].asked < e.expiresAt \/ e.id \in overdue'
      BY DEF StillRuns
    <2>1. q # r /\ call'[q] = call[q]
      BY <1>1, VerdictType DEF Counts, AccountActionCounter
    <2>2. \A f \in counters : f.key = call[q].key => call[q].asked < f.expiresAt \/ f.id \in overdue
      BY <2>1 DEF RateInv, StillRuns
    <2>3. overdue \subseteq overdue'
      BY <1>1 DEF Counts
    <2>4. CASE e # c
      BY <1>5, <2>1, <2>2, <2>3, <2>4
    <2>5. CASE e = c /\ Started(k, sent, c)
      <3>1. call[q].asked <= now /\ call[q].asked \in Nat /\ now \in Nat /\ c.expiresAt \in Nat
        BY DEF TypeInv, TimesOK, CallsOK, Call, AccountActionCounter
      <3>2. c.expiresAt <= now => c.id \in overdue'
        BY <1>1, <2>5 DEF Counts, Started
      <3> QED BY <2>1, <2>5, <3>1, <3>2
    <2>6. ASSUME e = c, NEW d \in counters, Bumped(k, c, d)
          PROVE  call'[q].asked < e.expiresAt \/ e.id \in overdue'
      <3>1. d.key = k /\ c.expiresAt = d.expiresAt /\ c.id = d.id
        BY <2>6 DEF Bumped, CountersOf, TypeInv, AccountActionCounter
      <3> QED BY <1>3, <2>1, <2>2, <2>3, <2>6, <3>1
    <2> QED BY <1>1, <2>4, <2>5, <2>6
  <1> QED BY <1>2, <1>6, <1>7, <1>8, <1>9 DEF RateInv

-----------------------------------------------------------------------------
(* The theorems *)

LEMMA NextInv ==
  ASSUME TypeInv, TypeInv', RateInv, [RateNext]_rateVars
  PROVE  RateInv'
  <1>1. ASSUME NEW r \in Requests, NEW k \in Keys, Consume(r, k), UNCHANGED now PROVE RateInv'
    BY <1>1, ConsumeInv
  <1>2. ASSUME NEW r \in Requests, LimitStep(r), UNCHANGED now PROVE RateInv'
    BY <1>2, DropExpiredInv, CountInv, AlertInv DEF LimitStep
  <1>3. ASSUME NEW r \in Requests, NEW verdict \in {"allowed", "refused"}, Return(r, verdict),
               UNCHANGED now
        PROVE  RateInv'
    BY <1>3, ReturnInv
  <1>4. ASSUME NEW r \in Requests, Abort(r), UNCHANGED now PROVE RateInv'
    BY <1>4, AbortQuietInv, AbortAlertInv
  <1>5. CASE PurgeCounters /\ UNCHANGED now
    BY <1>5, PurgeInv
  <1>6. CASE Tick
    BY <1>6, TickInv
  <1>7. CASE UNCHANGED rateVars
    <2>1. WithinBound' /\ StillRuns' /\ counters' \subseteq counters
      BY <1>7 DEF rateVars, limitVars, RateInv, WithinBound, Counting, StillRuns
    <2> QED BY <1>7, <2>1, QuietInv DEF rateVars, limitVars
  <1> QED BY <1>1, <1>2, <1>3, <1>4, <1>5, <1>6, <1>7 DEF RateNext

LEMMA InvHolds == RateSpec => [](TypeInv /\ RateInv)
  <1>1. RateInit => TypeInv /\ RateInv
    BY InitType, InitInv
  <1>2. TypeInv /\ RateInv /\ [RateNext]_rateVars => (TypeInv /\ RateInv)'
    BY NextType, NextInv
  <1> QED BY <1>1, <1>2, PTL DEF RateSpec

\* Every counter that refused anybody has exactly one alert mailed, about to be
\* mailed, or cut off with the call that owed it, and no other counter has any,
\* however many calls find themselves over the limit at the same time.
THEOREM OneAlert == RateSpec => []OneAlertPerWindow
  <1>1. TypeInv /\ RateInv => OneAlertPerWindow
    <2> SUFFICES ASSUME TypeInv, RateInv, NEW c \in counters
                 PROVE  alerts[c.id] + Cardinality(Due(c.id)) + (IF c.id \in silenced THEN 1 ELSE 0)
                            = IF c.count > Limit THEN 1 ELSE 0
      BY DEF OneAlertPerWindow, Due
    <2>1. AlertIsOwed(c) /\ c.count \in Nat /\ Limit \in Nat
      BY AccountRateLimitAssumption DEF RateInv, TypeInv, AccountActionCounter
    <2>2. CASE Due(c.id) = {}
      <3>1. Cardinality(Due(c.id)) = 0
        BY <2>2, FS_EmptySet
      <3>2. \A r : Due(c.id) # {r}
        BY <2>2
      <3>3. ~ \E r \in Requests : Due(c.id) = {r}
        BY <3>2
      <3>4. \/ c.count <= Limit /\ alerts[c.id] = 0 /\ c.id \notin silenced
            \/ c.count > Limit /\ alerts[c.id] = 1 /\ c.id \notin silenced
            \/ c.count > Limit /\ alerts[c.id] = 0 /\ c.id \in silenced
        BY <2>1, <3>3 DEF AlertIsOwed
      <3> QED BY <2>1, <3>1, <3>4
    <2>3. ASSUME NEW r \in Requests, Due(c.id) = {r}
          PROVE  alerts[c.id] + Cardinality(Due(c.id)) + (IF c.id \in silenced THEN 1 ELSE 0)
                     = IF c.count > Limit THEN 1 ELSE 0
      <3>1. Cardinality(Due(c.id)) = 1 /\ Due(c.id) # {}
        BY <2>3, FS_Singleton
      <3>2. c.count > Limit /\ alerts[c.id] = 0 /\ c.id \notin silenced
        BY <2>1, <3>1 DEF AlertIsOwed
      <3> QED BY <2>1, <3>1, <3>2
    <2> QED BY <2>1, <2>2, <2>3 DEF AlertIsOwed
  <1> QED BY <1>1, InvHolds, PTL

\* A call is refused only on account of a counter that was running when the call
\* asked for the expired one to be dropped, or that was over when a late upsert
\* created it: neither the calls of other requests nor the TTL monitor's lateness
\* leaves it a stale count.
THEOREM RefusedInside == RateSpec => RefusedOnlyInsideWindow
  <1>1. TypeInv /\ RateInv /\ [RateNext]_rateVars =>
          \A r \in Requests :
             Count(r) /\ call'[r].pc # "allowed" =>
                \E c \in counters' :
                    /\ c.id = call'[r].id
                    /\ call[r].asked < c.expiresAt \/ c.id \in overdue'
    <2> SUFFICES ASSUME TypeInv, RateInv, NEW r \in Requests, Count(r)
                 PROVE  \E c \in counters' :
                            /\ c.id = call'[r].id
                            /\ call[r].asked < c.expiresAt \/ c.id \in overdue'
      OBVIOUS
    <2>1. PICK k \in Keys, sent \in Nat, c \in AccountActionCounter :
             /\ Counts(r, k, c)
             /\ Started(k, sent, c) \/ \E d \in counters : Bumped(k, c, d)
      BY CountIs
    <2>2. c \in counters' /\ c.id = call'[r].id
      BY <2>1 DEF Counts
    <2>3. CASE Started(k, sent, c)
      <3>1. call[r].asked <= now /\ call[r].asked \in Nat /\ now \in Nat /\ c.expiresAt \in Nat
        BY DEF TypeInv, TimesOK, CallsOK, Call, AccountActionCounter
      <3>2. c.expiresAt <= now => c.id \in overdue'
        BY <2>1, <2>3 DEF Counts, Started
      <3> QED BY <2>2, <3>1, <3>2
    <2>4. ASSUME NEW d \in counters, Bumped(k, c, d)
          PROVE  call[r].asked < c.expiresAt \/ c.id \in overdue'
      <3>1. d.key = call[r].key /\ c.expiresAt = d.expiresAt /\ c.id = d.id
        BY <2>1, <2>4 DEF Bumped, CountersOf, Counts, TypeInv, AccountActionCounter
      <3>2. call[r].asked < d.expiresAt \/ d.id \in overdue
        BY <2>1, <3>1 DEF Counts, RateInv, StillRuns
      <3> QED BY <2>1, <3>1, <3>2 DEF Counts
    <2> QED BY <2>1, <2>2, <2>3, <2>4
  <1> QED BY <1>1, InvHolds, PTL DEF RateSpec, RefusedOnlyInsideWindow

-----------------------------------------------------------------------------
(* How many calls a span of time admits *)

\* The calls for k admitted at t or later, and those admitted within a window from t.
Since(A, k, t) == {a \in A : a.key = k /\ t <= a.at}
Within(A, k, t) == {a \in A : a.key = k /\ t <= a.at /\ a.at < t + Window}

\* The calls counter c admitted.
Used(c) == IF c.count <= Limit THEN c.count ELSE Limit

\* The slow calls for k whose upsert may carry a time before t.
Late(k, t) == {r \in Slow : call[r].pc = "count" /\ call[r].key = k /\ call[r].since < t}

\* What the upserts that were held up may have added to a span, if those of L are
\* still on their way: the limit once for each.
Spent(L) == Limit * (Cardinality(Slow) - Cardinality(L))

\* A span that is not over, from t, has seen but one counter of k that runs until
\* its end or beyond: before that one, a counter that had admitted its first call
\* earlier, and one for each late upsert.  C are the counters, n the calls
\* admitted, x what late upserts may have added.
SpanOK(C, k, t, n, x) ==
    /\ (\A c \in C : c.key # k) => n <= x + Limit - 1
    /\ \A c \in C : c.key = k =>
          n <= x + IF c.expiresAt - Window < t THEN Used(c) - 1 ELSE Limit - 1 + Used(c)

Most == (Cardinality(Slow) + 2) * Limit - 1

BurstInv ==
    /\ \A c \in counters : c.count >= 1
    /\ \A a \in admitted : a.at <= now
    /\ \A k \in Keys, t \in Nat :
          now < t + Window =>
              SpanOK(counters, k, t, Cardinality(Since(admitted, k, t)), Spent(Late(k, t)))
    /\ \A k \in Keys, t \in Nat : Cardinality(Within(admitted, k, t)) <= Most

LEMMA SlowIsFinite == IsFiniteSet(Slow) /\ Cardinality(Slow) \in Nat
  BY FS_Subset, FS_CardinalityType, AccountRateLimitAssumption

LEMMA TimesMono ==
  ASSUME NEW l \in Nat, NEW a \in Nat, NEW b \in Nat, a <= b
  PROVE  l * a \in Nat /\ l * b \in Nat /\ l * a <= l * b
  <1>1. PICK d \in Nat : b = a + d
    <2>1. b - a \in Nat /\ b = a + (b - a)
      OBVIOUS
    <2> QED BY <2>1
  <1>2. l * a \in Nat /\ l * d \in Nat
    OBVIOUS
  <1>3. l * b = l * a + l * d
    BY <1>1
  <1> QED BY <1>2, <1>3

\* No more upserts are late than there are slow slots.
LEMMA SpentType ==
  ASSUME NEW L \in SUBSET Slow
  PROVE  /\ IsFiniteSet(L) /\ Cardinality(L) \in Nat /\ Cardinality(L) <= Cardinality(Slow)
         /\ Spent(L) \in Nat /\ Spent(L) + 2 * Limit - 1 <= Most /\ Most \in Nat
  <1>1. PICK s, l : s = Cardinality(Slow) /\ l = Cardinality(L)
    OBVIOUS
  <1>2. IsFiniteSet(L) /\ l \in Nat /\ l <= s /\ s \in Nat
    BY <1>1, SlowIsFinite, FS_Subset, FS_CardinalityType
  <1>3. Limit \in Nat \ {0}
    BY AccountRateLimitAssumption
  <1>4. s - l \in Nat /\ s - l <= s
    BY <1>2
  <1>5. Limit * (s - l) \in Nat /\ Limit * s \in Nat /\ Limit * (s - l) <= Limit * s
    BY <1>2, <1>3, <1>4, TimesMono
  <1>6. Most = Limit * s + 2 * Limit - 1
    BY <1>1, <1>2, <1>3 DEF Most
  <1> QED BY <1>1, <1>2, <1>3, <1>5, <1>6 DEF Spent

\* An upsert that was late and no longer is has spent its limit's worth.
LEMMA LateOnesSpend ==
  ASSUME NEW M \in SUBSET Slow, NEW L \in SUBSET M
  PROVE  /\ Spent(M) <= Spent(L)
         /\ \A r \in M : r \notin L => Spent(M) + Limit <= Spent(L)
  <1>1. PICK s, l, m : s = Cardinality(Slow) /\ l = Cardinality(L) /\ m = Cardinality(M)
    OBVIOUS
  <1>2. /\ s \in Nat /\ l \in Nat /\ m \in Nat /\ l <= s /\ m <= s
        /\ IsFiniteSet(M) /\ IsFiniteSet(L) /\ Limit \in Nat
    BY <1>1, SpentType, SlowIsFinite, AccountRateLimitAssumption
  <1>3. l <= m
    BY <1>1, <1>2, FS_Subset
  <1>4. Spent(M) = Limit * (s - m) /\ Spent(L) = Limit * (s - l)
    BY <1>1 DEF Spent
  <1>5. Limit * (s - m) <= Limit * (s - l)
    <2>1. s - l \in Nat /\ s - m \in Nat /\ s - m <= s - l
      BY <1>2, <1>3
    <2> QED BY <1>2, <2>1, TimesMono
  <1>6. ASSUME NEW r \in M, r \notin L
        PROVE  Limit * (s - m) + Limit <= Limit * (s - l)
    <2>1. L \in SUBSET (M \ {r})
      BY <1>6
    <2>2. IsFiniteSet(M \ {r}) /\ Cardinality(M \ {r}) = m - 1
      BY <1>1, <1>2, <1>6, FS_RemoveElement
    <2>3. l <= m - 1
      BY <1>1, <2>1, <2>2, FS_Subset
    <2>4. s - m + 1 \in Nat /\ s - l \in Nat /\ s - m + 1 <= s - l
      BY <1>2, <2>3
    <2>5. Limit * (s - m + 1) <= Limit * (s - l)
      BY <1>2, <2>4, TimesMono
    <2>6. Limit * (s - m + 1) = Limit * (s - m) + Limit
      BY <1>2
    <2> QED BY <2>5, <2>6
  <1> QED BY <1>4, <1>5, <1>6

LEMMA SpansAreFinite ==
  ASSUME NEW A, IsFiniteSet(A), NEW k, NEW t
  PROVE  /\ Cardinality(Since(A, k, t)) \in Nat
         /\ Cardinality(Within(A, k, t)) \in Nat
         /\ Cardinality(Within(A, k, t)) <= Cardinality(Since(A, k, t))
  <1>1. Since(A, k, t) \in SUBSET A /\ Within(A, k, t) \in SUBSET Since(A, k, t)
    BY DEF Since, Within
  <1>2. IsFiniteSet(Since(A, k, t)) /\ IsFiniteSet(Within(A, k, t))
    BY <1>1, FS_Subset
  <1> QED BY <1>1, <1>2, FS_Subset, FS_CardinalityType

\* What is admitted lies in the spans it is admitted in.
LEMMA AdmittedIsOne ==
  ASSUME NEW A, IsFiniteSet(A), NEW a, NEW k, NEW t
  PROVE  /\ Cardinality(Since(A \cup {a}, k, t)) <= Cardinality(Since(A, k, t)) + 1
         /\ a.key # k \/ ~ (t <= a.at) => Since(A \cup {a}, k, t) = Since(A, k, t)
         /\ a.key # k \/ ~ (t <= a.at /\ a.at < t + Window) =>
              Within(A \cup {a}, k, t) = Within(A, k, t)
  <1>1. PICK S, T : S = Since(A, k, t) /\ T = Since(A \cup {a}, k, t)
    OBVIOUS
  <1>2. S \in SUBSET A /\ T \in SUBSET (S \cup {a})
    BY <1>1 DEF Since
  <1>3. IsFiniteSet(S) /\ Cardinality(S) \in Nat
    BY <1>2, FS_Subset, FS_CardinalityType
  <1>4. /\ IsFiniteSet(S \cup {a}) /\ Cardinality(S \cup {a}) <= Cardinality(S) + 1
        /\ Cardinality(S \cup {a}) \in Nat
    <2>1. /\ IsFiniteSet(S \cup {a})
          /\ Cardinality(S \cup {a}) = IF a \in S THEN Cardinality(S) ELSE Cardinality(S) + 1
      BY <1>3, FS_AddElement
    <2> QED BY <1>3, <2>1
  <1>5. Cardinality(T) <= Cardinality(S \cup {a}) /\ Cardinality(T) \in Nat
    BY <1>2, <1>4, FS_Subset, FS_CardinalityType
  <1>6. Cardinality(T) <= Cardinality(S) + 1
    BY <1>3, <1>4, <1>5
  <1> QED BY <1>1, <1>6 DEF Since, Within

\* No span is longer than what is left of it, or it is over.
LEMMA SpansStayBounded ==
  ASSUME NEW C \in SUBSET AccountActionCounter, \A c \in C : c.count >= 1,
         NEW A, IsFiniteSet(A), NEW k, NEW t, NEW L \in SUBSET Slow,
         SpanOK(C, k, t, Cardinality(Since(A, k, t)), Spent(L))
  PROVE  Cardinality(Within(A, k, t)) <= Most
  <1>1. PICK n \in Nat : n = Cardinality(Since(A, k, t))
    BY SpansAreFinite
  <1>2. PICK x \in Nat : x = Spent(L) /\ x + 2 * Limit - 1 <= Most /\ Most \in Nat
    BY SpentType
  <1>3. Limit \in Nat \ {0} /\ \A c \in C : c.count \in Nat
    BY AccountRateLimitAssumption DEF AccountActionCounter
  <1>4. n <= x + 2 * Limit - 1
    <2>1. CASE \A c \in C : c.key # k
      BY <1>1, <1>2, <1>3, <2>1 DEF SpanOK
    <2>2. CASE \E c \in C : c.key = k
      <3>1. PICK c \in C : c.key = k
        BY <2>2
      <3>2. Used(c) \in 1..Limit
        BY <1>3, <3>1 DEF Used
      <3>3. n <= x + IF c.expiresAt - Window < t THEN Used(c) - 1 ELSE Limit - 1 + Used(c)
        BY <1>1, <1>2, <3>1 DEF SpanOK
      <3> QED BY <1>3, <3>2, <3>3
    <2> QED BY <2>1, <2>2
  <1>5. Cardinality(Within(A, k, t)) <= n /\ Cardinality(Within(A, k, t)) \in Nat
    BY <1>1, SpansAreFinite
  <1> QED BY <1>2, <1>3, <1>4, <1>5

\* Nothing has been admitted in a span that is to come.
LEMMA NothingYet ==
  ASSUME TypeInv, BurstInv, NEW k, NEW t \in Nat, now < t
  PROVE  Cardinality(Since(admitted, k, t)) = 0
  <1>1. \A b \in admitted : b.at <= now /\ b.at \in Nat
    BY DEF BurstInv, TypeInv
  <1>2. now \in Nat
    BY DEF TypeInv
  <1>3. Since(admitted, k, t) = {}
    BY <1>1, <1>2 DEF Since
  <1> QED BY <1>3, FS_EmptySet

LEMMA LateIsSlow == \A k, t : Late(k, t) \in SUBSET Slow /\ Late(k, t)' \in SUBSET Slow
  BY DEF Late

\* A call is readied to be counted now, or is one that was.
Readied == \A q \in Requests : call'[q].pc = "count" => call'[q].since = now \/ call'[q] = call[q]

LEMMA ReadiedIsNotLate ==
  ASSUME TypeInv, Readied, NEW k, NEW t \in Nat, t <= now
  PROVE  Late(k, t)' \in SUBSET Late(k, t)
  BY AccountRateLimitAssumption DEF Readied, Late, TypeInv

\* Counters go when they have run out: what they admitted is not in a span that
\* is not over, but for the first call it is older than.
LEMMA DroppingKeepsSpans ==
  ASSUME TypeInv, TypeInv', BurstInv, counters' \subseteq counters, UNCHANGED <<now, admitted>>,
         \A c \in counters \ counters' : c.expiresAt <= now, Readied
  PROVE  BurstInv'
  <1>1. ASSUME NEW k \in Keys, NEW t \in Nat, now < t + Window
        PROVE  SpanOK(counters', k, t, Cardinality(Since(admitted, k, t)), Spent(Late(k, t)'))
    <2>1. PICK n \in Nat : n = Cardinality(Since(admitted, k, t))
      BY SpansAreFinite DEF TypeInv
    <2>2. PICK x, y \in Nat : x = Spent(Late(k, t)) /\ y = Spent(Late(k, t)')
      BY LateIsSlow, SpentType
    <2>3. Limit \in Nat \ {0} /\ now \in Nat /\ Window \in Nat
      BY AccountRateLimitAssumption DEF TypeInv
    <2>4. \A c \in counters : c.expiresAt \in Nat /\ Used(c) \in 1..Limit
      BY <2>3 DEF TypeInv, BurstInv, AccountActionCounter, Used
    <2>5. CASE now < t
      <3>1. n = 0
        BY <2>1, <2>5, NothingYet
      <3> QED BY <2>1, <2>2, <2>3, <2>4, <3>1 DEF SpanOK
    <2>6. CASE t <= now
      <3>1. SpanOK(counters, k, t, n, x)
        BY <1>1, <2>1, <2>2 DEF BurstInv
      <3>2. x <= y
        BY <2>2, <2>6, LateIsSlow, ReadiedIsNotLate, LateOnesSpend
      <3>3. ASSUME \A c \in counters' : c.key # k, NEW c \in counters, c.key = k
            PROVE  n <= x + Limit - 1
        <4>1. c.expiresAt - Window < t
          BY <1>1, <2>3, <2>4, <3>3
        <4>2. n <= x + Used(c) - 1
          BY <3>1, <3>3, <4>1 DEF SpanOK
        <4> QED BY <2>3, <2>4, <4>2
      <3>4. (\A c \in counters' : c.key # k) => n <= x + Limit - 1
        BY <3>1, <3>3 DEF SpanOK
      <3>5. \A c \in counters' : c.key = k =>
               n <= x + IF c.expiresAt - Window < t THEN Used(c) - 1 ELSE Limit - 1 + Used(c)
        BY <3>1 DEF SpanOK
      <3>6. (\A c \in counters' : c.key # k) => n <= y + Limit - 1
        BY <2>3, <3>2, <3>4
      <3>7. \A c \in counters' : c.key = k =>
               n <= y + IF c.expiresAt - Window < t THEN Used(c) - 1 ELSE Limit - 1 + Used(c)
        BY <2>3, <2>4, <3>2, <3>5
      <3> QED BY <2>1, <2>2, <3>6, <3>7 DEF SpanOK
    <2> QED BY <2>3, <2>5, <2>6
  <1> QED BY <1>1 DEF BurstInv

\* The clock only ends spans.
LEMMA TickKeepsSpans ==
  ASSUME TypeInv, BurstInv, now' = now + 1, UNCHANGED <<counters, admitted, call>>
  PROVE  BurstInv'
  <1>1. \A a \in admitted : a.at <= now'
    BY DEF BurstInv, TypeInv
  <1>2. \A t \in Nat : now' < t + Window => now < t + Window
    BY AccountRateLimitAssumption DEF TypeInv
  <1>3. \A k, t : Late(k, t)' = Late(k, t)
    BY DEF Late
  <1> QED BY <1>1, <1>2, <1>3 DEF BurstInv

\* A call is counted for account k: on a new counter, or on the one there is.
LEMMA CountKeepsSpans ==
  ASSUME TypeInv, TypeInv', BurstInv, NEW r \in Requests, NEW k \in Keys, NEW sent \in Nat,
         NEW c \in AccountActionCounter, CountsAs(r, k, sent, c), c.key = k, UNCHANGED now
  PROVE  BurstInv'
  <1>0. PICK a : a = Admission(k)
    OBVIOUS
  <1>1. /\ a.key = k /\ a.at = now
        /\ Limit \in Nat \ {0} /\ Window \in Nat \ {0} /\ now \in Nat
        /\ c.count \in Nat /\ c.expiresAt \in Nat
        /\ counters' = (counters \ CountersOf(k)) \cup {c}
    BY <1>0, AccountRateLimitAssumption DEF Admission, TypeInv, AccountActionCounter, CountsAs
  <1>2. /\ c.count <= Limit => admitted' = admitted \cup {a}
        /\ ~ (c.count <= Limit) => admitted' = admitted
    BY <1>0, <1>1 DEF Verdict, CountsAs
  <1>3. \/ CountersOf(k) = {} /\ c.count = 1 /\ c.expiresAt = sent + Window
        \/ \E d \in counters : /\ d.key = k /\ c.count = d.count + 1 /\ c.expiresAt = d.expiresAt
    <2>1. CASE CountersOf(k) = {}
      BY <2>1 DEF CountsAs, Incremented
    <2>2. CASE CountersOf(k) # {}
      <3>1. PICK d \in CountersOf(k) : d = CHOOSE x \in CountersOf(k) : TRUE
        BY <2>2
      <3>2. c = [d EXCEPT !.count = @ + 1]
        BY <2>2, <3>1 DEF CountsAs, Incremented
      <3>3. d \in counters /\ d.key = k /\ d \in AccountActionCounter
        BY DEF CountersOf, TypeInv
      <3> QED BY <3>2, <3>3 DEF AccountActionCounter
    <2> QED BY <2>1, <2>2
  <1>4. /\ \A d \in counters' : d.count >= 1
        /\ \A b \in admitted' : b.at <= now
    BY <1>1, <1>2, <1>3 DEF BurstInv, TypeInv, AccountActionCounter
  <1>5. \A d \in counters' : d.key = k => d = c
    BY <1>1 DEF CountersOf
  <1>6. /\ call'[r].pc # "count" /\ call[r].pc = "count" /\ call[r].key = k
        /\ call[r].since <= sent /\ call[r].since \in Nat /\ sent <= now
        /\ \A q \in Requests : q # r => call'[q] = call[q]
    BY <1>1, VerdictType DEF CountsAs, TypeInv, CallsOK, Call
  <1>7. \A j, t : Late(j, t)' \in SUBSET Late(j, t) /\ r \notin Late(j, t)'
    BY <1>6, AccountRateLimitAssumption DEF Late
  <1>8. ASSUME NEW t \in Nat, now < t + Window
        PROVE  SpanOK(counters', k, t, Cardinality(Since(admitted', k, t)), Spent(Late(k, t)'))
    <2>1. PICK n \in Nat : n = Cardinality(Since(admitted, k, t))
      BY SpansAreFinite DEF TypeInv
    <2>2. PICK m \in Nat : m = Cardinality(Since(admitted', k, t))
      BY SpansAreFinite DEF TypeInv
    <2>3. PICK x, y \in Nat : x = Spent(Late(k, t)) /\ y = Spent(Late(k, t)')
      BY LateIsSlow, SpentType
    <2>4. x <= y
      BY <1>7, <2>3, LateIsSlow, LateOnesSpend
    <2>5. r \in Slow /\ call[r].since < t => x + Limit <= y
      <3>1. r \in Slow /\ call[r].since < t => r \in Late(k, t)
        BY <1>6 DEF Late
      <3> QED BY <1>7, <2>3, <3>1, LateIsSlow, LateOnesSpend
    <2>6. SpanOK(counters, k, t, n, x)
      BY <1>8, <2>1, <2>3 DEF BurstInv
    <2>7. /\ c.count <= Limit => m <= n + 1
          /\ ~ (c.count <= Limit) \/ now < t => m = n
      <3>1. CASE c.count <= Limit
        <4>1. admitted' = admitted \cup {a} /\ IsFiniteSet(admitted)
          BY <1>2, <3>1 DEF TypeInv
        <4>2. m <= n + 1
          BY <2>1, <2>2, <4>1, AdmittedIsOne
        <4>3. now < t => m = n
          BY <1>1, <2>1, <2>2, <4>1, AdmittedIsOne
        <4> QED BY <3>1, <4>2, <4>3
      <3>2. CASE ~ (c.count <= Limit)
        BY <1>2, <2>1, <2>2, <3>2
      <3> QED BY <3>1, <3>2
    <2>8. now < t => n = 0
      BY <2>1, NothingYet
    <2>9. m <= y + IF c.expiresAt - Window < t THEN Used(c) - 1 ELSE Limit - 1 + Used(c)
      <3>1. CASE CountersOf(k) = {} /\ c.count = 1 /\ c.expiresAt = sent + Window
        <4>1. n <= x + Limit - 1
          BY <2>6, <3>1 DEF SpanOK, CountersOf
        <4>2. Used(c) = 1
          BY <1>1, <3>1 DEF Used
        <4>3. CASE now < t
          BY <1>1, <2>7, <2>8, <3>1, <4>2, <4>3
        <4>4. CASE t <= now /\ sent < t
          <5>1. call[r].since < t
            BY <1>6, <4>4
          <5>2. r \in Slow
            BY <1>1, <1>6, <4>4, <5>1 DEF TypeInv, TimesOK
          <5>3. x + Limit <= y
            BY <2>5, <5>1, <5>2
          <5> QED BY <1>1, <2>7, <3>1, <4>1, <4>2, <4>4, <5>3
        <4>5. CASE t <= now /\ t <= sent
          BY <1>1, <2>4, <2>7, <3>1, <4>1, <4>2, <4>5
        <4> QED BY <1>1, <4>3, <4>4, <4>5
      <3>2. CASE \E d \in counters : d.key = k /\ c.count = d.count + 1 /\ c.expiresAt = d.expiresAt
        <4>1. PICK d \in counters : d.key = k /\ c.count = d.count + 1 /\ c.expiresAt = d.expiresAt
          BY <3>2
        <4>2. d.count \in Nat
          BY DEF TypeInv, AccountActionCounter
        <4>3. /\ c.count <= Limit => Used(c) = Used(d) + 1
              /\ ~ (c.count <= Limit) => Used(c) = Used(d)
              /\ Used(c) \in Nat /\ Used(d) \in Nat
          BY <1>1, <4>1, <4>2 DEF Used
        <4>4. n <= x + IF d.expiresAt - Window < t THEN Used(d) - 1 ELSE Limit - 1 + Used(d)
          BY <2>6, <4>1 DEF SpanOK
        <4> QED BY <1>1, <2>4, <2>7, <4>1, <4>3, <4>4
      <3> QED BY <1>3, <3>1, <3>2
    <2> QED BY <1>5, <1>1, <2>2, <2>3, <2>9 DEF SpanOK
  <1>9. ASSUME NEW j \in Keys, j # k, NEW t
        PROVE  /\ Since(admitted', j, t) = Since(admitted, j, t)
               /\ Within(admitted', j, t) = Within(admitted, j, t)
               /\ Late(j, t)' = Late(j, t)
    <2>1. Late(j, t)' = Late(j, t)
      BY <1>6, <1>9, AccountRateLimitAssumption DEF Late
    <2> QED BY <1>1, <1>2, <1>9, <2>1 DEF Since, Within
  <1>10. ASSUME NEW j \in Keys, NEW t \in Nat, now < t + Window
         PROVE  SpanOK(counters', j, t, Cardinality(Since(admitted', j, t)), Spent(Late(j, t)'))
    <2>1. CASE j = k
      BY <1>8, <1>10, <2>1
    <2>2. CASE j # k
      <3>1. SpanOK(counters, j, t, Cardinality(Since(admitted, j, t)), Spent(Late(j, t)))
        BY <1>10 DEF BurstInv
      <3>2. \A d : d.key = j => (d \in counters' <=> d \in counters)
        BY <1>1, <2>2 DEF CountersOf
      <3> QED BY <1>9, <2>2, <3>1, <3>2 DEF SpanOK
    <2> QED BY <2>1, <2>2
  <1>11. ASSUME NEW j \in Keys, NEW t \in Nat
         PROVE  Cardinality(Within(admitted', j, t)) <= Most
    <2>1. CASE now < t + Window
      <3>1. SpanOK(counters', j, t, Cardinality(Since(admitted', j, t)), Spent(Late(j, t)'))
        BY <1>10, <2>1
      <3>2. counters' \in SUBSET AccountActionCounter /\ IsFiniteSet(admitted')
        BY DEF TypeInv
      <3> QED BY <1>4, <3>1, <3>2, LateIsSlow, SpansStayBounded
    <2>2. CASE ~ (now < t + Window)
      <3>1. Within(admitted', j, t) = Within(admitted, j, t)
        BY <1>1, <1>2, <2>2 DEF Within
      <3> QED BY <3>1 DEF BurstInv
    <2> QED BY <2>1, <2>2
  <1> QED BY <1>4, <1>10, <1>11 DEF BurstInv

\* What the steps of the limiter do to counters and admissions, whoever calls it.
LimiterMoves ==
    \/ /\ counters' \subseteq counters /\ UNCHANGED <<now, admitted>>
       /\ \A c \in counters \ counters' : c.expiresAt <= now
       /\ Readied
    \/ now' = now + 1 /\ UNCHANGED <<counters, admitted, call>>
    \/ \E r \in Requests : Count(r) /\ UNCHANGED now

LEMMA LimiterKeepsSpans ==
  ASSUME TypeInv, TypeInv', BurstInv, LimiterMoves
  PROVE  BurstInv'
  <1>1. CASE /\ counters' \subseteq counters /\ UNCHANGED <<now, admitted>>
             /\ \A c \in counters \ counters' : c.expiresAt <= now
             /\ Readied
    BY <1>1, DroppingKeepsSpans
  <1>2. CASE now' = now + 1 /\ UNCHANGED <<counters, admitted, call>>
    BY <1>2, TickKeepsSpans
  <1>3. ASSUME NEW r \in Requests, Count(r), UNCHANGED now
        PROVE  BurstInv'
    <2>1. PICK k \in Keys, sent \in Nat, c \in AccountActionCounter :
             CountsAs(r, k, sent, c) /\ c.key = k
      BY <1>3, CountIsAs
    <2> QED BY <1>3, <2>1, CountKeepsSpans
  <1> QED BY <1>1, <1>2, <1>3 DEF LimiterMoves

LEMMA InitSpans ==
  ASSUME LimitInit
  PROVE  BurstInv
  <1>1. counters = {} /\ admitted = {}
    BY DEF LimitInit
  <1>2. \A k, t : Since(admitted, k, t) = {} /\ Within(admitted, k, t) = {}
    BY <1>1 DEF Since, Within
  <1>3. \A k, t : Cardinality(Since(admitted, k, t)) = 0 /\ Cardinality(Within(admitted, k, t)) = 0
    BY <1>2, FS_EmptySet
  <1>4. Limit \in Nat \ {0}
    BY AccountRateLimitAssumption
  <1>5. \A k, t : Spent(Late(k, t)) \in Nat /\ Most \in Nat
    BY LateIsSlow, SpentType
  <1> QED BY <1>1, <1>3, <1>4, <1>5 DEF BurstInv, SpanOK

\* A drop of what ran out when it was asked for drops what has run out.
LEMMA DropMoves ==
  ASSUME TypeInv, NEW r \in Requests, DropExpired(r), UNCHANGED now
  PROVE  LimiterMoves
  <1>1. /\ call[r].asked <= now /\ call[r].asked \in Nat /\ now \in Nat
        /\ \A c \in counters : c.expiresAt \in Nat
        /\ call'[r].since = now /\ \A q \in Requests : q # r => call'[q] = call[q]
    BY DEF DropExpired, TypeInv, TimesOK, CallsOK, Call, AccountActionCounter
  <1>2. \A c \in counters \ counters' : c.expiresAt <= now
    BY <1>1 DEF DropExpired, RanOut
  <1>3. Readied
    BY <1>1 DEF Readied
  <1> QED BY <1>2, <1>3 DEF DropExpired, LimiterMoves

LEMMA OtherMoves ==
  ASSUME TypeInv, NEW r \in Requests, NEW k, NEW verdict \in {"allowed", "refused"},
         Consume(r, k) \/ Alert(r) \/ Return(r, verdict) \/ Abort(r), UNCHANGED now
  PROVE  LimiterMoves
  <1>1. \A q \in Requests : q # r => call'[q] = call[q]
    BY DEF Consume, Alert, Return, Abort, TypeInv, CallsOK
  <1>2. call'[r].pc # "count"
    <2>1. CASE Consume(r, k)
      BY <2>1 DEF Consume, TypeInv, CallsOK, NoCall
    <2>2. CASE Alert(r)
      BY <2>2 DEF Alert, TypeInv, CallsOK, Call
    <2>3. CASE Return(r, verdict) \/ Abort(r)
      BY <2>3 DEF Return, Abort, TypeInv, CallsOK, NoCall
    <2> QED BY <2>1, <2>2, <2>3
  <1>3. Readied
    BY <1>1, <1>2 DEF Readied
  <1> QED BY <1>3 DEF Consume, Alert, Return, Abort, LimiterMoves

LEMMA SpansHold == RateSpec => [](TypeInv /\ BurstInv)
  <1>1. RateInit => TypeInv /\ BurstInv
    BY InitType, InitSpans DEF RateInit
  <1>2. TypeInv /\ BurstInv /\ [RateNext]_rateVars => (TypeInv /\ BurstInv)'
    <2> SUFFICES ASSUME TypeInv, BurstInv, [RateNext]_rateVars PROVE (TypeInv /\ BurstInv)'
      OBVIOUS
    <2>1. LimiterMoves
      <3>1. ASSUME NEW r \in Requests, NEW k, NEW verdict \in {"allowed", "refused"},
                   Consume(r, k) \/ LimitStep(r) \/ Return(r, verdict) \/ Abort(r), UNCHANGED now
            PROVE  LimiterMoves
        BY <3>1, DropMoves, OtherMoves DEF LimitStep, LimiterMoves
      <3>2. ASSUME PurgeCounters, UNCHANGED now PROVE LimiterMoves
        BY <3>2 DEF PurgeCounters, LimiterMoves, Readied
      <3>3. CASE Tick
        BY <3>3 DEF Tick, limitVars, LimiterMoves
      <3>4. CASE UNCHANGED rateVars
        BY <3>4 DEF rateVars, limitVars, LimiterMoves, Readied
      <3> QED BY <3>1, <3>2, <3>3, <3>4 DEF RateNext
    <2> QED BY <2>1, NextType, LimiterKeepsSpans
  <1> QED BY <1>1, <1>2, PTL DEF RateSpec

\* In any span as long as the window an account gets fewer than twice the limit
\* through, and once more the limit for every call the clock can overtake,
\* however its calls overlap and whenever the TTL monitor comes round.
THEOREM BurstBounded == RateSpec => []BurstIsBounded
  <1>1. TypeInv /\ BurstInv => BurstIsBounded
    <2> SUFFICES ASSUME TypeInv, BurstInv, NEW k \in Keys, NEW t \in 0..MaxTime
                 PROVE  Cardinality(Within(admitted, k, t)) < (Cardinality(Slow) + 2) * Limit
      BY DEF BurstIsBounded, Within
    <2>1. Cardinality(Within(admitted, k, t)) <= Most
      BY AccountRateLimitAssumption DEF BurstInv
    <2>2. Cardinality(Within(admitted, k, t)) \in Nat /\ (Cardinality(Slow) + 2) * Limit \in Nat
      BY SpansAreFinite, SlowIsFinite, AccountRateLimitAssumption DEF TypeInv
    <2> QED BY <2>1, <2>2 DEF Most
  <1> QED BY <1>1, SpansHold, PTL
=============================================================================
