----------------------------- MODULE ActionTokens -----------------------------
(***************************************************************************)
(* Single-use tokens mailed to a user, and the flows that mail and redeem  *)
(* them: forgot-password / reset-password, the three ways to be mailed a   *)
(* verification token (at sign-up, by an authenticated call, by address),  *)
(* verify-email, and the cleanup when an account is deleted.               *)
(*                                                                         *)
(* Flows that mail on request ask AccountRateLimit first; that module is   *)
(* instantiated on the counters of this one, so its database calls         *)
(* interleave with those of the flows.                                     *)
(*                                                                         *)
(* A token's hash is its serial number.  Owners read their mail: a token   *)
(* can be presented once it was mailed, to either endpoint, any number of  *)
(* times.                                                                  *)
(***************************************************************************)
EXTENDS Integers, FiniteSets, Sequences

CONSTANTS
    Users,          \* people who may sign up, one account and address each
    NoUser,         \* the user of a free slot
    Requests,       \* slots for requests being handled at the same time
    Workload,       \* the flows clients start, a subset of Flows
    Faulty,         \* the requests that may die half-way
    Slow,           \* the requests the clock may advance during
    ResetTtl,       \* PASSWORD_RESET_TOKEN_TTL_MS
    VerificationTtl,\* EMAIL_VERIFICATION_TOKEN_TTL_MS
    Limit,          \* EMAIL_ACTION_LIMIT
    Window,         \* EMAIL_ACTION_WINDOW_MS
    MaxTime,        \* bound: the clock stops here
    MaxTokens,      \* bound: tokens ever issued
    MaxCounters,    \* bound: rate limit counters ever created
    MaxCount        \* bound: calls counted on one counter

ActionTokenType == {"passwordReset", "emailVerification"}

Flows == {"signUp", "requestReset", "requestVerification", "resend",
          "resetPassword", "verify", "deleteAccount"}

ASSUME ActionTokensAssumption ==
    /\ NoUser \notin Users
    /\ IsFiniteSet(Requests)
    /\ Workload \subseteq Flows
    /\ Faulty \subseteq Requests /\ Slow \subseteq Requests
    /\ ResetTtl \in Nat \ {0} /\ VerificationTtl \in Nat \ {0}
    /\ Limit \in Nat \ {0} /\ Window \in Nat \ {0}
    /\ MaxTime \in Nat /\ MaxTokens \in Nat /\ MaxCounters \in Nat /\ MaxCount \in Nat

VARIABLES
    now,            \* the server clock
    account,        \* the users collection: what becomes of each person's account
    actionTokens,   \* the actiontokens collection
    flow,           \* the requests in flight
    issued,         \* issued[h] says what token h was issued for (history)
    mails,          \* the tokens that were mailed, and when (history)
    uses,           \* how often each token authorized its action (history)
    lost,           \* whose tokens a request may have dropped and died (history)
    counters, call, created, admitted, alerts, silenced, overdue  \* of AccountRateLimit

tokenVars == <<account, actionTokens, flow, issued, mails, uses, lost>>
limitVars == <<counters, call, created, admitted, alerts, silenced, overdue>>
vars == <<now, tokenVars, limitVars>>

\* One counter for each kind of mail and account.
RateLimit == INSTANCE AccountRateLimit WITH
    Keys <- ActionTokenType \X Users,
    NoKey <- <<"none", NoUser>>

-----------------------------------------------------------------------------
ActionToken == [hash: Nat, type: ActionTokenType, userId: Users, expiresAt: Nat]

\* since is when the old tokens were gone: the new one is sent after that.
Idle == [pc |-> "idle", type |-> "none", user |-> NoUser, hash |-> 0, since |-> 0]

Busy(r) == flow[r].pc # "idle"

Exists(u) == account[u] \in {"unverified", "verified"}

TokensOf(u, type) == {t \in actionTokens : t.userId = u /\ t.type = type}

Issues(r, u, type) ==
    flow[r].pc \in {"limit", "dropOld", "create"} /\ flow[r].user = u /\ flow[r].type = type

\* The bound: a flow that issues a token starts only if there is one left.
TokenBudget ==
    Len(issued) + Cardinality({r \in Requests : flow[r].pc \in {"limit", "dropOld", "create"}})
        < MaxTokens

Accepts(r, f) == ~ Busy(r) /\ f \in Workload

Goto(r, label) ==
    flow' = [flow EXCEPT ![r] = [@ EXCEPT !.pc = label,
                                          !.since = IF label = "create" THEN now ELSE 0]]

Begin(r, label, type, u, h) ==
    flow' = [flow EXCEPT ![r] = [pc |-> label, type |-> type, user |-> u, hash |-> h, since |-> 0]]

End(r) == flow' = [flow EXCEPT ![r] = Idle]

-----------------------------------------------------------------------------
(* Mailing a token *)

\* UsersService.create; the verification mail of a sign-up is not rate limited.
SignUp(r, u) ==
    /\ Accepts(r, "signUp") /\ TokenBudget
    /\ account[u] = "none"
    /\ account' = [account EXCEPT ![u] = "unverified"]
    /\ Begin(r, "dropOld", "emailVerification", u, 0)
    /\ UNCHANGED <<now, actionTokens, issued, mails, uses, lost, limitVars>>

\* Mutant: the cap is not asked.
AskNobody(r, u, type) ==
    /\ TokenBudget
    /\ Begin(r, "dropOld", type, u, 0)
    /\ UNCHANGED <<now, account, actionTokens, issued, mails, uses, lost, limitVars>>

\* The account was found, consume is called.
AskRateLimit(r, u, type) ==
    /\ TokenBudget
    /\ Begin(r, "limit", type, u, 0)
    /\ RateLimit!Consume(r, <<type, u>>)
    /\ UNCHANGED <<now, account, actionTokens, issued, mails, uses, lost>>

RequestReset(r, u) ==
    Accepts(r, "requestReset") /\ Exists(u) /\ AskRateLimit(r, u, "passwordReset")

\* POST /auth/send-verification, and by address POST /auth/resend-verification
RequestVerification(r, u) ==
    /\ Accepts(r, "requestVerification")
    /\ account[u] = "unverified"
    /\ AskRateLimit(r, u, "emailVerification")

Resend(r, u) ==
    /\ Accepts(r, "resend")
    /\ account[u] = "unverified"
    /\ AskRateLimit(r, u, "emailVerification")

\* Database calls of consume.
LimitStep(r) == RateLimit!LimitStep(r) /\ UNCHANGED <<now, tokenVars>>

GoesOn(verdict) == verdict = "allowed"

\* Over the cap nothing more is sent.
Limited(r) ==
    /\ flow[r].pc = "limit"
    /\ \E verdict \in {"allowed", "refused"} :
         /\ RateLimit!Return(r, verdict)
         /\ IF GoesOn(verdict) THEN Goto(r, "dropOld") ELSE End(r)
    /\ UNCHANGED <<now, account, actionTokens, issued, mails, uses, lost>>

\* Mutant: deleteOne instead of deleteMany.
DropsOne(r, old) == old = {} \/ Cardinality(TokensOf(flow[r].user, flow[r].type)) < 2

\* deleteMany returns when nothing is left to delete.
NothingLeft(r, old) == old = {}

\* ActionTokensService.issue: deleteMany({userId, type}), document by document
DropOld(r) ==
    /\ flow[r].pc = "dropOld"
    /\ LET old == TokensOf(flow[r].user, flow[r].type) IN
         \/ \E t \in old : actionTokens' = actionTokens \ {t} /\ UNCHANGED flow
         \/ NothingLeft(r, old) /\ Goto(r, "create") /\ UNCHANGED actionTokens
    /\ UNCHANGED <<now, account, issued, mails, uses, lost, limitVars>>

Ttl(type) == IF type = "passwordReset" THEN ResetTtl ELSE VerificationTtl

\* ... and create.  The expiry is reckoned from the time the call was sent.
Issue(r, sent) ==
    LET f == flow[r]
        h == Len(issued) + 1
        end == sent + Ttl(f.type)
    IN  /\ issued' = Append(issued, [type |-> f.type, user |-> f.user, expiresAt |-> end])
        /\ actionTokens' = actionTokens \cup
             {[hash |-> h, type |-> f.type, userId |-> f.user, expiresAt |-> end]}
        /\ Begin(r, "mail", f.type, f.user, h)

Create(r) ==
    /\ flow[r].pc = "create" /\ Len(issued) < MaxTokens
    /\ \E sent \in flow[r].since..now : Issue(r, sent)
    /\ UNCHANGED <<now, account, mails, uses, lost, limitVars>>

Mail(r) ==
    /\ flow[r].pc = "mail"
    /\ mails' = mails \cup {[hash |-> flow[r].hash, type |-> flow[r].type,
                             user |-> flow[r].user, at |-> now]}
    /\ End(r)
    /\ UNCHANGED <<now, account, actionTokens, issued, uses, lost, limitVars>>

-----------------------------------------------------------------------------
(* Redeeming one *)

\* Mutant: any token serves any action.
MatchesAnyType(t, h, type) == t.hash = h

Matches(t, h, type) == t.hash = h /\ t.type = type

Kept(t) == actionTokens  \* mutant: found, but not deleted

Without(t) == actionTokens \ {t}

\* Mutant: looked up by its hash alone, its type checked once it is deleted.
RedeemThenLook(r, h, type, next) ==
    \E t \in actionTokens :
        /\ t.hash = h
        /\ actionTokens' = Without(t)
        /\ IF t.type = type /\ t.expiresAt > now
             THEN /\ uses' = [uses EXCEPT ![h] = @ + 1]
                  /\ Begin(r, next, type, t.userId, h)
             ELSE UNCHANGED <<flow, uses>>
        /\ UNCHANGED <<now, account, issued, mails, lost, limitVars>>

\* findOneAndDelete({tokenHash, type}); an expired token is deleted and
\* refused.  (A token that matches nothing is answered 400 and changes nothing.)
Redeem(r, h, type, next) ==
    \E t \in actionTokens :
        /\ Matches(t, h, type)
        /\ actionTokens' = Without(t)
        /\ IF t.expiresAt > now
             THEN /\ uses' = [uses EXCEPT ![h] = @ + 1]
                  /\ Begin(r, next, type, t.userId, h)
             ELSE UNCHANGED <<flow, uses>>
        /\ UNCHANGED <<now, account, issued, mails, lost, limitVars>>

ResetPassword(r, h) ==
    Accepts(r, "resetPassword") /\ Redeem(r, h, "passwordReset", "findUser")

Verify(r, h) ==
    Accepts(r, "verify") /\ Redeem(r, h, "emailVerification", "markVerified")

\* resetPassword: the account must still be there.
FindUser(r) ==
    /\ flow[r].pc = "findUser"
    /\ IF Exists(flow[r].user) THEN Goto(r, "replace") ELSE End(r)
    /\ UNCHANGED <<now, account, actionTokens, issued, mails, uses, lost, limitVars>>

\* replacePassword stores the new password, or refuses it as breached; the
\* sessions it ends then are the business of DeviceSessions.
ReplacePassword(r) ==
    /\ flow[r].pc = "replace"
    /\ End(r)
    /\ UNCHANGED <<now, account, actionTokens, issued, mails, uses, lost, limitVars>>

\* Mutant: an upsert, which brings a deleted account back.
VerifiedUpsert(u) == [account EXCEPT ![u] = "verified"]

\* UsersService.markEmailVerified updates the row if it is there.
Verified(u) == [account EXCEPT ![u] = IF Exists(u) THEN "verified" ELSE @]

MarkVerified(r) ==
    /\ flow[r].pc = "markVerified"
    /\ account' = Verified(flow[r].user)
    /\ End(r)
    /\ UNCHANGED <<now, actionTokens, issued, mails, uses, lost, limitVars>>

-----------------------------------------------------------------------------
(* Deleting the account *)

DeleteAccount(r, u) ==
    /\ Accepts(r, "deleteAccount")
    /\ Exists(u)
    /\ account' = [account EXCEPT ![u] = "gone"]
    /\ Begin(r, "dropAll", "none", u, 0)
    /\ UNCHANGED <<now, actionTokens, issued, mails, uses, lost, limitVars>>

\* ActionTokensService.deleteForUser
DropAll(r) ==
    /\ flow[r].pc = "dropAll"
    /\ LET all == {t \in actionTokens : t.userId = flow[r].user} IN
         \/ \E t \in all : actionTokens' = actionTokens \ {t} /\ UNCHANGED flow
         \/ all = {} /\ End(r) /\ UNCHANGED actionTokens
    /\ UNCHANGED <<now, account, issued, mails, uses, lost, limitVars>>

-----------------------------------------------------------------------------
(* Failures, the clock and the TTL monitor *)

Fail(r) ==
    /\ r \in Faulty /\ Busy(r)
    /\ End(r)
    /\ IF RateLimit!Calling(r) THEN RateLimit!Abort(r) ELSE UNCHANGED limitVars
    /\ lost' = IF flow[r].pc \in {"dropOld", "create"}
                 THEN lost \cup {<<flow[r].user, flow[r].type>>} ELSE lost
    /\ UNCHANGED <<now, account, actionTokens, issued, mails, uses>>

Tick ==
    /\ now < MaxTime
    /\ \A r \in Requests \ Slow : ~ Busy(r)
    /\ now' = now + 1
    /\ UNCHANGED <<tokenVars, limitVars>>

Purge ==
    \/ /\ \E t \in actionTokens : t.expiresAt <= now /\ actionTokens' = actionTokens \ {t}
       /\ UNCHANGED <<now, account, flow, issued, mails, uses, lost, limitVars>>
    \/ RateLimit!PurgeCounters /\ UNCHANGED <<now, tokenVars>>

-----------------------------------------------------------------------------
Init ==
    /\ now = 0
    /\ account = [u \in Users |-> "none"]
    /\ actionTokens = {}
    /\ flow = [r \in Requests |-> Idle]
    /\ issued = <<>>
    /\ mails = {}
    /\ uses = [h \in 1..MaxTokens |-> 0]
    /\ lost = {}
    /\ RateLimit!LimitInit

Call(r) ==
    \/ \E u \in Users : \/ SignUp(r, u) \/ RequestReset(r, u)
                        \/ RequestVerification(r, u) \/ Resend(r, u)
                        \/ DeleteAccount(r, u)
    \/ \E m \in mails : ResetPassword(r, m.hash) \/ Verify(r, m.hash)

Step(r) ==
    \/ LimitStep(r) \/ Limited(r) \/ DropOld(r) \/ Create(r) \/ Mail(r)
    \/ FindUser(r) \/ ReplacePassword(r) \/ MarkVerified(r) \/ DropAll(r)

Next ==
    \/ \E r \in Requests : Call(r) \/ Step(r) \/ Fail(r)
    \/ Tick
    \/ Purge

Spec == Init /\ [][Next]_vars

-----------------------------------------------------------------------------
(* What the component promises *)

TypeOK ==
    /\ RateLimit!RateTypeOK
    /\ account \in [Users -> {"none", "unverified", "verified", "gone"}]
    /\ actionTokens \subseteq ActionToken
    /\ flow \in [Requests ->
                   [pc: {"idle", "limit", "dropOld", "create", "mail", "findUser", "replace",
                         "markVerified", "dropAll"},
                    type: ActionTokenType \cup {"none"}, user: Users \cup {NoUser}, hash: Nat,
                    since: Nat]]
    /\ \A r \in Requests : Busy(r) => flow[r].user \in Users
    /\ issued \in Seq([type: ActionTokenType, user: Users, expiresAt: Nat])
    /\ mails \subseteq [hash: Nat, type: ActionTokenType, user: Users, at: Nat]
    /\ uses \in [1..MaxTokens -> Nat]
    /\ lost \subseteq Users \X ActionTokenType

\* Whoever waits for the last token to be issued can use it: no earlier or
\* overlapping request, no attempt to spend it on the wrong action and no
\* cleanup takes it away.  (Only a crash between the two calls of issue does.)
NewestTokenWorks ==
    \A h \in DOMAIN issued :
        LET u == issued[h].user
            type == issued[h].type
        IN  \/ \E g \in DOMAIN issued : g > h /\ issued[g].user = u /\ issued[g].type = type
            \/ issued[h].expiresAt <= now \/ uses[h] > 0 \/ ~ Exists(u)
            \/ <<u, type>> \in lost
            \/ \E r \in Requests : Issues(r, u, type)
            \/ \E t \in actionTokens : t.hash = h

\* "Any previous token for the same user and action is dropped first, so
\* exactly one is redeemable at a time" is true of requests that come one after
\* the other.  Two that both dropped before either created leave two tokens;
\* but never are there more than requests at a time, since every issue clears
\* out what it finds before it adds its own.
RedeemableIsBounded ==
    \A u \in Users, type \in ActionTokenType :
        Cardinality(TokensOf(u, type))
            + Cardinality({r \in Requests : /\ flow[r].pc = "create"
                                            /\ flow[r].user = u /\ flow[r].type = type})
        <= Cardinality(Requests)

\* What the rate limit buys the mailbox, across all flows that mail: what the
\* cap admits in any span as long as the window, and one for the sign-up.  A
\* slow request that was admitted before the span and mails in it costs no more
\* than one whose upsert comes late, and it cannot be both.
MailboxIsProtected ==
    \A u \in Users, type \in ActionTokenType : \A t \in 0..MaxTime :
        Cardinality({m \in mails : /\ m.user = u /\ m.type = type
                                   /\ t <= m.at /\ m.at < t + Window})
        < (Cardinality(Slow) + 2) * Limit + (IF type = "emailVerification" THEN 1 ELSE 0)

\* A deleted account stays deleted, whatever tokens of it are still redeemed.
GoneStaysGone == [][\A u \in Users : account[u] = "gone" => account'[u] = "gone"]_vars

-----------------------------------------------------------------------------
(* The abstract specification it implements *)

\* What a request that redeemed a token is about to do.
Acting(r) == flow[r].pc \in {"findUser", "replace", "markVerified"}

Act(r) == IF flow[r].pc = "markVerified" THEN "emailVerification" ELSE "passwordReset"

Rows == {t.hash : t \in actionTokens}

SingleUse == INSTANCE SingleUseTokens WITH
    Actions <- ActionTokenType,
    Tokens <- 1..MaxTokens,
    Verification <- "emailVerification",
    purpose <- [h \in DOMAIN issued |-> <<issued[h].user, issued[h].type>>],
    redeemable <- Rows,
    spent <- (DOMAIN issued) \ Rows,
    mailed <- {m.hash : m \in mails},
    authorized <- {<<flow[r].hash, flow[r].user, Act(r)>> : r \in {q \in Requests : Acting(q)}}

\* "A token works exactly once", from however many devices it is presented at
\* the same time, and only for the action and the account it was issued for: an
\* account is verified, and a password reset begun, on the word of a token that
\* was mailed to its owner and was redeemable at that moment; no issue, cleanup,
\* expiry or crash brings a token back.
ImplementsSingleUse == SingleUse!Spec

=============================================================================
