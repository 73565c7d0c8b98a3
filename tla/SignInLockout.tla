---------------------------- MODULE SignInLockout ----------------------------
(***************************************************************************)
(* The lockout that follows too many wrong passwords for one email.        *)
(*                                                                         *)
(* Three handlers check a password and share the counter: signIn,          *)
(* changePassword and deleteAccount.  Each asks assertNotLocked first,     *)
(* checks the password some awaits later, and then either counts a failure *)
(* (recordFailure, two database calls) or wipes the counter (reset).       *)
(* Requests for the same email overlap freely.  The two calls carry a time *)
(* read when they are SENT: a slow one asks about an instant that is over, *)
(* and moves the end of the window back to before where others had set it. *)
(*                                                                         *)
(* A locked email is refused with a 429, which changes nothing: only       *)
(* requests that got past the question are modelled.  Nobody signs up in    *)
(* the meantime.                                                           *)
(***************************************************************************)
EXTENDS Integers, FiniteSets, Sequences

CONSTANTS
    Emails,         \* addresses people try to sign in with
    NoEmail,        \* the email of a free slot
    Requests,       \* slots for requests being handled at the same time
    Slow,           \* the slots whose recordFailure the clock may overtake
    MaxFailed,      \* MAX_FAILED_SIGN_IN_ATTEMPTS
    Window,         \* SIGN_IN_LOCKOUT_WINDOW_MS
    MaxTime,        \* bound: the clock stops here
    MaxRecords,     \* bound: counter documents created before requests stop coming
    MaxCount,       \* bound: failures counted on one document
    MaxCrashes      \* bound: requests that die while a failure is recorded

ASSUME SignInLockoutAssumption ==
    /\ NoEmail \notin Emails
    /\ IsFiniteSet(Requests)
    /\ Slow \subseteq Requests
    /\ MaxFailed \in Nat \ {0}
    /\ Window \in Nat \ {0}
    /\ MaxTime \in Nat
    /\ MaxRecords \in Nat
    /\ MaxCount \in Nat
    /\ MaxCrashes \in Nat

VARIABLES
    now,            \* the server clock
    accounts,       \* the emails an account exists for
    passwords,      \* the emails of accounts whose credential is stored
    attempts,       \* the signinattempts collection
    req,            \* the requests in flight
    created,        \* how many counter documents have been created
    tries,          \* wrong passwords tried since the email's last reset (history)
    warned,         \* warnings mailed on account of a counter document (history)
    died,           \* the requests that died: the counter to warn of, or 0 (history)
    overdue         \* counters whose last failure arrived after the window it set (history)

vars == <<now, accounts, passwords, attempts, req, created, tries, warned, died, overdue>>

Handlers == {"signIn", "changePassword", "deleteAccount"}

\* known: the account was found, and the handler goes by its id from there on;
\* asked: the time its delete names; since: when that was carried out, the upsert
\* is sent after it; id: the counter it warns of.
Idle == [op |-> "none", pc |-> "idle", email |-> NoEmail, known |-> FALSE, asked |-> 0,
         since |-> 0, id |-> 0]

SignInAttempt == [id: Nat, email: Emails, failedCount: Nat, expiresAt: Nat]

AttemptsOf(e) == {a \in attempts : a.email = e}

\* The bounds: a request starts only if its failure could be counted.  Those in
\* flight at the bound may create a counter each.
Budget(e) ==
    /\ created < MaxRecords
    /\ \A a \in AttemptsOf(e) :
          a.failedCount + Cardinality({r \in Requests : req[r].email = e}) < MaxCount

-----------------------------------------------------------------------------
Locked(e) == \E a \in AttemptsOf(e) : a.failedCount >= MaxFailed /\ now < a.expiresAt

\* assertNotLocked let the request pass, the account was looked up.  Only signIn
\* accepts any email.
Attempt(r, e, op) ==
    /\ req[r].pc = "idle" /\ Budget(e)
    /\ op = "signIn" \/ e \in accounts
    /\ ~ Locked(e)
    /\ req' = [req EXCEPT ![r] = [Idle EXCEPT !.op = op, !.pc = "verify", !.email = e,
                                              !.known = e \in accounts]]
    /\ UNCHANGED <<now, accounts, passwords, attempts, created, tries, warned, died, overdue>>

Goto(r, label) == req' = [req EXCEPT ![r].pc = label]

End(r) == req' = [req EXCEPT ![r] = Idle]

\* Where a right password leads, by handler.
Proceed(op) ==
    CASE op = "signIn" -> "reset" [] op = "changePassword" -> "replace" [] OTHER -> "dropUser"

\* nth tells the wrong passwords tried for an email at the same instant apart.
Try(e) == [email |-> e, at |-> now, nth |-> Cardinality({x \in tries : x.email = e /\ x.at = now})]

\* Mutant: a quieter place to guess, changePassword does not count.
WrongPasswordQuiet(r) ==
    /\ IF req[r].op = "changePassword"
         THEN End(r) ELSE req' = [req EXCEPT ![r] = [@ EXCEPT !.pc = "drop", !.asked = now]]
    /\ tries' = tries \cup {Try(req[r].email)}

\* recordFailure reads new Date() here, and sends its delete.
WrongPassword(r) ==
    /\ req' = [req EXCEPT ![r] = [@ EXCEPT !.pc = "drop", !.asked = now]]
    /\ tries' = tries \cup {Try(req[r].email)}

\* An unknown email is checked against a dummy hash and is always wrong; a
\* known one is right if the caller says so and the credential is still there.
VerifyPassword(r) ==
    /\ req[r].pc = "verify"
    /\ \/ WrongPassword(r)
       \/ /\ req[r].known /\ req[r].email \in passwords
          /\ Goto(r, Proceed(req[r].op))
          /\ UNCHANGED tries
    /\ UNCHANGED <<now, accounts, passwords, attempts, created, warned, died, overdue>>

\* replacePassword refuses a breached new password: neither success nor failure.
ReplacePassword(r) ==
    /\ req[r].pc = "replace"
    /\ Goto(r, "reset") \/ End(r)
    /\ UNCHANGED <<now, accounts, passwords, attempts, created, tries, warned, died, overdue>>

DropUser(r) ==
    /\ req[r].pc = "dropUser"
    /\ accounts' = accounts \ {req[r].email}
    /\ Goto(r, "reset")
    /\ UNCHANGED <<now, passwords, attempts, created, tries, warned, died, overdue>>

\* Another branch of the cleanup that deleteAccount runs in parallel to reset.
DropPassword(e) ==
    /\ e \in passwords \ accounts
    /\ passwords' = passwords \ {e}
    /\ UNCHANGED <<now, accounts, attempts, req, created, tries, warned, died, overdue>>

\* reset: "the slate is wiped".
Reset(r) ==
    /\ req[r].pc = "reset"
    /\ attempts' = attempts \ AttemptsOf(req[r].email)
    /\ tries' = {x \in tries : x.email # req[r].email}
    /\ End(r)
    /\ UNCHANGED <<now, accounts, passwords, created, warned, died, overdue>>

\* Mutants: sanitizeFilter turns the condition on expiresAt into one that does not
\* keep a running counter from being dropped, or into one that nothing meets.
RanOutAlways(a, asked) == TRUE
RanOutNever(a, asked) == FALSE

\* deleteOne({email, expiresAt: {$lte: asked}})
RanOut(a, asked) == a.expiresAt <= asked

DropExpired(r) ==
    /\ req[r].pc = "drop"
    /\ attempts' = {a \in attempts : ~ (a.email = req[r].email /\ RanOut(a, req[r].asked))}
    /\ req' = [req EXCEPT ![r] = [@ EXCEPT !.pc = "count", !.since = now]]
    /\ UNCHANGED <<now, accounts, passwords, created, tries, warned, died, overdue>>

\* findOneAndUpdate with upsert: one more failure, and the window slides to where
\* it ends as of the time the upsert was sent.
Counted(e, sent) ==
    IF AttemptsOf(e) = {}
      THEN [id |-> created + 1, email |-> e, failedCount |-> 1, expiresAt |-> sent + Window]
      ELSE LET a == CHOOSE a \in AttemptsOf(e) : TRUE
           IN  [a EXCEPT !.failedCount = @ + 1, !.expiresAt = sent + Window]

\* Mutant: a warning for every failure over the limit.
WarnsAlways(a) == a.failedCount >= MaxFailed

Warns(a) == a.failedCount = MaxFailed

RecordFailure(r) ==
    /\ req[r].pc = "count"
    /\ \E sent \in req[r].since..now :
         LET e == req[r].email
             a == Counted(e, sent)
         IN  /\ attempts' = (attempts \ AttemptsOf(e)) \cup {a}
             /\ created' = IF AttemptsOf(e) = {} THEN created + 1 ELSE created
             /\ overdue' = IF a.expiresAt <= now THEN overdue \cup {a.id} ELSE overdue \ {a.id}
             /\ IF Warns(a)
                  THEN req' = [req EXCEPT ![r] = [@ EXCEPT !.pc = "warn", !.id = a.id,
                                                           !.asked = 0, !.since = 0]]
                  ELSE End(r)
    /\ UNCHANGED <<now, accounts, passwords, tries, warned, died>>

\* The warning goes out only if the email belongs to an account by now.
NotifyAccountOwner(r) ==
    /\ req[r].pc = "warn"
    /\ warned' = IF req[r].email \in accounts THEN [warned EXCEPT ![req[r].id] = @ + 1] ELSE warned
    /\ End(r)
    /\ UNCHANGED <<now, accounts, passwords, attempts, created, tries, died, overdue>>

\* A call to the database or the mailer fails, or the process dies: what was
\* done stays done, what was due is not.  died notes the failures that were not
\* counted and the warnings that were not sent.
Fail(r) ==
    /\ req[r].pc # "idle"
    /\ IF req[r].pc \in {"drop", "count", "warn"}
         THEN Len(died) < MaxCrashes /\ died' = Append(died, req[r].id)
         ELSE UNCHANGED died
    /\ End(r)
    /\ UNCHANGED <<now, accounts, passwords, attempts, created, tries, warned, overdue>>

\* The TTL index on expiresAt.
Purge ==
    /\ \E a \in attempts : a.expiresAt <= now /\ attempts' = attempts \ {a}
    /\ UNCHANGED <<now, accounts, passwords, req, created, tries, warned, died, overdue>>

\* recordFailure is overtaken by the clock only in slow requests; checking a
\* password, and all that follows a right one, takes its time in any.
Tick ==
    /\ now < MaxTime
    /\ \A r \in Requests \ Slow : req[r].pc \notin {"drop", "count"}
    /\ now' = now + 1
    /\ UNCHANGED <<accounts, passwords, attempts, req, created, tries, warned, died, overdue>>

-----------------------------------------------------------------------------
Init ==
    /\ now = 0
    /\ accounts \in SUBSET Emails
    /\ passwords = accounts
    /\ attempts = {}
    /\ req = [r \in Requests |-> Idle]
    /\ created = 0
    /\ tries = {}
    /\ warned = [i \in 1 .. MaxRecords + Cardinality(Requests) |-> 0]
    /\ died = <<>>
    /\ overdue = {}

Step(r) ==
    \/ VerifyPassword(r) \/ ReplacePassword(r) \/ DropUser(r) \/ Reset(r)
    \/ DropExpired(r) \/ RecordFailure(r) \/ NotifyAccountOwner(r)

Next ==
    \/ \E r \in Requests : Step(r) \/ Fail(r) \/ \E e \in Emails, op \in Handlers : Attempt(r, e, op)
    \/ \E e \in Emails : DropPassword(e)
    \/ Tick
    \/ Purge

Spec == Init /\ [][Next]_vars

-----------------------------------------------------------------------------
(* What the lockout promises *)

TypeOK ==
    /\ now \in Nat
    /\ accounts \subseteq passwords /\ passwords \subseteq Emails
    /\ attempts \subseteq SignInAttempt
    /\ req \in [Requests -> [op: Handlers \cup {"none"}, email: Emails \cup {NoEmail},
                             known: BOOLEAN, asked: Nat, since: Nat, id: Nat,
                             pc: {"idle", "verify", "replace", "dropUser", "reset", "drop",
                                  "count", "warn"}]]
    /\ \A r \in Requests : req[r].pc # "idle" => req[r].email \in Emails
    /\ created \in Nat
    /\ tries \subseteq [email: Emails, at: Nat, nth: Nat]
    /\ warned \in [1 .. MaxRecords + Cardinality(Requests) -> Nat]
    /\ died \in Seq(Nat)
    /\ overdue \subseteq Nat

\* What the lockout is for: unless a right password came in, a span as long
\* as the window sees no more wrong ones tried than the limit, plus one for
\* every other request that had passed assertNotLocked before the lock - by
\* whichever of the three handlers, however long each checks the password -
\* and one for every request that died before its failure was counted.  A
\* slow failure may move the end of the window back to before the span ends
\* and let almost as many pass again.
GuessesAreBounded ==
    \A e \in Emails : \A t \in 0..MaxTime :
        Cardinality({x \in tries : x.email = e /\ t <= x.at /\ x.at < t + Window})
            <= MaxFailed - 1 + Cardinality(Requests)
                 + Cardinality(Slow) * (MaxFailed - 2 + Cardinality(Requests))
                 + Cardinality({i \in DOMAIN died : died[i] = 0})

\* A lock ends when its window does, or by a right password whose request had
\* passed assertNotLocked before; no failure being recorded, for this or any
\* other email, lifts it on the way.  The exception is a failure that took as
\* long as the window to arrive: it sets an end of the window that is past.
LockOutlivesGuessing ==
    [][\A e \in Emails :
          Locked(e) /\ now' = now /\ ~ Locked(e)'
          => \E r \in Requests : /\ req[r].email = e
                                 /\ \/ Reset(r)
                                    \/ RecordFailure(r) /\ req[r].since + Window <= now]_vars

\* A counter that reached the limit warned the owner, or is about to: once,
\* however many failures arrive after the one that locked the email.  Only if
\* the one request that is to warn dies does nobody ever warn of this lock.
OwnerIsWarnedOnce ==
    \A a \in attempts :
        LET pending == Cardinality({r \in Requests : req[r].pc = "warn" /\ req[r].id = a.id})
        IN  /\ warned[a.id] + pending <= 1
            /\ a.email \in accounts /\ a.failedCount >= MaxFailed =>
                  \/ warned[a.id] + pending = 1
                  \/ \E i \in DOMAIN died : died[i] = a.id

\* "A sign-in lockout engaging sends a warning to the account owner": whenever
\* an email becomes locked, the request that locked it goes on to warn.  The
\* exception is a counter over the limit that has run out and was not dropped:
\* it ran out after the request asked for that, or an overdue failure moved
\* its end back.  It is counted on, which locks the email again and warns
\* nobody, although "a logically expired record must not contribute".
LockEngagesWithWarning ==
    [][\A e \in Emails :
          ~ Locked(e) /\ Locked(e)' =>
              \E r \in Requests :
                  /\ req[r].pc = "count" /\ req[r].email = e
                  /\ \/ req'[r].pc = "warn"
                     \/ \E a \in AttemptsOf(e) :
                           /\ a.failedCount >= MaxFailed
                           /\ req[r].asked < a.expiresAt \/ a.id \in overdue]_vars
=============================================================================
