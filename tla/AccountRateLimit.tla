-------------------------- MODULE AccountRateLimit --------------------------
(***************************************************************************)
(* The per-account cap on actions that send mail.                          *)
(*                                                                         *)
(* One counter document per action and account, with a fixed window: the   *)
(* call that creates it sets its expiry.  consume is two awaited database  *)
(* calls, dropping a counter that ran out and counting on whatever is      *)
(* there then; calls of other requests, the clock and the TTL monitor come *)
(* between them.  Both calls carry a time read when they are SENT: a slow  *)
(* one asks about an instant that is over, and may create a counter that   *)
(* has run out before it is there.                                         *)
(*                                                                         *)
(* A counter carries the serial number MongoDB's _id gives it: a key has   *)
(* many counters over time.                                                *)
(***************************************************************************)
EXTENDS Integers, FiniteSets

CONSTANTS
    Keys,           \* an action and the account it is counted for
    NoKey,          \* the key of a slot that runs no call
    Requests,       \* slots for requests being handled at the same time
    Slow,           \* the slots whose calls the clock may overtake
    Faulty,         \* the slots whose calls may be cut off
    Limit,          \* calls a window admits
    Window,         \* how long a counter counts
    MaxTime,        \* bound: the clock stops here
    MaxCounters,    \* bound: counters ever created
    MaxCount        \* bound: calls counted on one counter

ASSUME AccountRateLimitAssumption ==
    /\ NoKey \notin Keys
    /\ IsFiniteSet(Requests)
    /\ Slow \subseteq Requests
    /\ Faulty \subseteq Requests
    /\ Limit \in Nat \ {0}
    /\ Window \in Nat \ {0}
    /\ MaxTime \in Nat
    /\ MaxCounters \in Nat
    /\ MaxCount \in Nat

VARIABLES
    now,            \* the server clock
    counters,       \* the accountactioncounters collection
    call,           \* the calls of consume in flight
    created,        \* how many counters have been created
    admitted,       \* the calls that were admitted, and when (history)
    alerts,         \* alerts mailed on account of a counter (history)
    silenced,       \* counters whose alert was cut off (history)
    overdue         \* counters that had run out when they were created (history)

limitVars == <<counters, call, created, admitted, alerts, silenced, overdue>>
rateVars == <<now, limitVars>>

\* id is the counter the call was counted on, asked the time its delete names,
\* since the time the delete was carried out: the upsert is sent after that.
NoCall == [pc |-> "idle", key |-> NoKey, id |-> 0, asked |-> 0, since |-> 0]

AccountActionCounter == [id: Nat, key: Keys, count: Nat, expiresAt: Nat]

CountersOf(k) == {c \in counters : c.key = k}

Calling(r) == call[r].pc # "idle"

\* The bounds: a call starts only if it can be counted.
CallsFor(k) == {r \in Requests : call[r].key = k}
CallBudget(k) ==
    /\ created + Cardinality({r \in Requests : call[r].pc \in {"drop", "count"}}) < MaxCounters
    /\ \A c \in CountersOf(k) : c.count + Cardinality(CallsFor(k)) < MaxCount

-----------------------------------------------------------------------------
\* new Date() is read here, when the delete is sent.
Consume(r, k) ==
    /\ ~ Calling(r) /\ CallBudget(k)
    /\ call' = [call EXCEPT ![r] = [NoCall EXCEPT !.pc = "drop", !.key = k, !.asked = now]]
    /\ UNCHANGED <<counters, created, admitted, alerts, silenced, overdue>>

\* Mutants of the filter: the boundary excluded, and the condition on the
\* expiry turned into something that always matches.
RanOutLate(c, asked) == c.expiresAt < asked
RanOutAlways(c, asked) == TRUE

\* deleteOne({key, expiresAt: {$lte: asked}})
RanOut(c, asked) == c.expiresAt <= asked

DropExpired(r) ==
    /\ call[r].pc = "drop"
    /\ counters' = {c \in counters : ~ (c.key = call[r].key /\ RanOut(c, call[r].asked))}
    /\ call' = [call EXCEPT ![r] = [@ EXCEPT !.pc = "count", !.since = now]]
    /\ UNCHANGED <<created, admitted, alerts, silenced, overdue>>

\* findOneAndUpdate with upsert: the counter after this call was counted.  The
\* expiry of a new one is reckoned from the time the upsert was sent.
Incremented(k, sent) ==
    IF CountersOf(k) = {}
      THEN [id |-> created + 1, key |-> k, count |-> 1, expiresAt |-> sent + Window]
      ELSE LET c == CHOOSE c \in CountersOf(k) : TRUE IN [c EXCEPT !.count = @ + 1]

\* Mutant: an alert for every refusal.
VerdictNoisy(count) == IF count > Limit THEN "alert" ELSE "allowed"

\* The first call over the limit, and only that one, alerts the owner.
Verdict(count) ==
    IF count = Limit + 1 THEN "alert" ELSE IF count <= Limit THEN "allowed" ELSE "refused"

\* nth tells the calls for a key that are admitted at the same instant apart.
Admission(k) == [key |-> k, at |-> now,
                 nth |-> Cardinality({a \in admitted : a.key = k /\ a.at = now})]

Count(r) ==
    /\ call[r].pc = "count"
    /\ \E sent \in call[r].since..now :
         LET k == call[r].key
             c == Incremented(k, sent)
         IN  /\ counters' = (counters \ CountersOf(k)) \cup {c}
             /\ created' = IF CountersOf(k) = {} THEN created + 1 ELSE created
             /\ overdue' = IF CountersOf(k) = {} /\ c.expiresAt <= now
                             THEN overdue \cup {c.id} ELSE overdue
             /\ call' = [call EXCEPT ![r] = [@ EXCEPT !.pc = Verdict(c.count), !.id = c.id,
                                                      !.asked = 0, !.since = 0]]
             /\ admitted' = IF Verdict(c.count) = "allowed"
                              THEN admitted \cup {Admission(k)} ELSE admitted
    /\ UNCHANGED <<alerts, silenced>>

Alert(r) ==
    /\ call[r].pc = "alert"
    /\ alerts' = [alerts EXCEPT ![call[r].id] = @ + 1]
    /\ call' = [call EXCEPT ![r].pc = "refused"]
    /\ UNCHANGED <<counters, created, admitted, silenced, overdue>>

\* The caller learns whether it may go on.
Return(r, verdict) ==
    /\ call[r].pc = verdict
    /\ call' = [call EXCEPT ![r] = NoCall]
    /\ UNCHANGED <<counters, created, admitted, alerts, silenced, overdue>>

\* A database call or the mail fails, or the server stops: the call is cut off
\* wherever it is, and an alert it owed is not mailed by anybody.
Abort(r) ==
    /\ r \in Faulty /\ Calling(r)
    /\ silenced' = IF call[r].pc = "alert" THEN silenced \cup {call[r].id} ELSE silenced
    /\ call' = [call EXCEPT ![r] = NoCall]
    /\ UNCHANGED <<counters, created, admitted, alerts, overdue>>

LimitStep(r) == DropExpired(r) \/ Count(r) \/ Alert(r)

\* The TTL index on expiresAt.
PurgeCounters ==
    /\ \E c \in counters : c.expiresAt <= now /\ counters' = counters \ {c}
    /\ UNCHANGED <<call, created, admitted, alerts, silenced, overdue>>

LimitInit ==
    /\ counters = {}
    /\ call = [r \in Requests |-> NoCall]
    /\ created = 0
    /\ admitted = {}
    /\ alerts = [i \in 1..MaxCounters |-> 0]
    /\ silenced = {}
    /\ overdue = {}

-----------------------------------------------------------------------------
(* The limiter by itself, called at any time for any account *)

RateInit == now = 0 /\ LimitInit

Tick ==
    /\ now < MaxTime
    /\ \A r \in Requests \ Slow : ~ Calling(r)
    /\ now' = now + 1
    /\ UNCHANGED limitVars

RateNext ==
    \/ \E r \in Requests :
         \/ /\ \/ \E k \in Keys : Consume(r, k)
               \/ LimitStep(r)
               \/ Abort(r)
               \/ \E verdict \in {"allowed", "refused"} : Return(r, verdict)
            /\ UNCHANGED now
    \/ PurgeCounters /\ UNCHANGED now
    \/ Tick

RateSpec == RateInit /\ [][RateNext]_rateVars

-----------------------------------------------------------------------------
(* What the limiter promises *)

RateTypeOK ==
    /\ now \in Nat
    /\ counters \subseteq AccountActionCounter
    /\ call \in [Requests -> [pc: {"idle", "drop", "count", "alert", "allowed", "refused"},
                              key: Keys \cup {NoKey}, id: Nat, asked: Nat, since: Nat]]
    /\ \A r \in Requests : Calling(r) => call[r].key \in Keys
    /\ created \in Nat
    /\ admitted \subseteq [key: Keys, at: Nat, nth: Nat]
    /\ alerts \in [1..MaxCounters -> Nat]
    /\ silenced \subseteq Nat
    /\ overdue \subseteq Nat

\* What the window buys: in any span as long as the window an account gets
\* fewer than twice the limit through, plus the limit once more for every call
\* the clock can overtake, whatever calls overlap and whenever the TTL monitor
\* comes round.  (Not the limit itself: a window may be used up at its end and
\* the next one at its beginning; and a counter created by an upsert that was
\* held up is short, or over when it is created, and the next one starts
\* inside the span.)
BurstIsBounded ==
    \A k \in Keys : \A t \in 0..MaxTime :
        Cardinality({a \in admitted : a.key = k /\ t <= a.at /\ a.at < t + Window})
            < (Cardinality(Slow) + 2) * Limit

\* "The first request over the limit - and only that one" alerts the owner: a
\* counter that refused anybody has its one alert mailed, on its way, or cut
\* off together with the call that owed it; one that did not has none, though
\* many calls may find themselves over the limit at the same time.
OneAlertPerWindow ==
    \A c \in counters :
        alerts[c.id] + Cardinality({r \in Requests : call[r].pc = "alert" /\ call[r].id = c.id})
                + (IF c.id \in silenced THEN 1 ELSE 0)
            = IF c.count > Limit THEN 1 ELSE 0

\* "A logically expired counter must not leak stale counts while it awaits TTL
\* purging": a call is refused only on account of a counter that was still
\* running when the call asked for the expired one to be dropped, or of one
\* that an upsert which was held up created when its time was already over.
RefusedOnlyInsideWindow ==
    [][\A r \in Requests :
          Count(r) /\ call'[r].pc # "allowed" =>
              \E c \in counters' :
                  /\ c.id = call'[r].id
                  /\ call[r].asked < c.expiresAt \/ c.id \in overdue']_rateVars
=============================================================================
