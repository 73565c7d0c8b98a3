----------------------------- MODULE AccessGuard -----------------------------
(***************************************************************************)
(* Access tokens, and what takes them out of service before they expire.   *)
(*                                                                         *)
(* JwtAuthGuard checks a token's signature and expiry, then loads the      *)
(* account: a deleted one, or a token issued before the account's cutoff   *)
(* (sessionsValidFrom), is refused; RolesGuard looks at the role loaded    *)
(* with it.  changePassword and resetPassword move the cutoff to the time  *)
(* their update was sent, which is not the time it arrives.                *)
(*                                                                         *)
(* The clock counts fractions of a second.  JWT claims and the comparison  *)
(* with the cutoff are in whole seconds.                                   *)
(***************************************************************************)
EXTENDS Integers, FiniteSets

CONSTANTS
    Users,          \* accounts
    NoUser,         \* the user of a free slot
    Requests,       \* slots for requests being handled at the same time
    Slow,           \* the requests the clock may advance during
    Second,         \* ticks of the clock in a second
    AccessTtl,      \* JWT_ACCESS_TTL in seconds
    MaxTime,        \* bound: the clock stops here
    MaxTokens,      \* bound: access tokens ever issued
    MaxRevocations  \* bound: password changes and resets ever started

ASSUME AccessGuardAssumption ==
    /\ NoUser \notin Users
    /\ Slow \subseteq Requests
    /\ Second \in Nat \ {0}
    /\ AccessTtl \in Nat \ {0}
    /\ MaxTime \in Nat
    /\ MaxTokens \in Nat
    /\ MaxRevocations \in Nat

VARIABLES
    now,            \* the server clock
    account,        \* the users collection: a role, or "gone"
    validFrom,      \* sessionsValidFrom of each account
    tokens,         \* the access tokens clients hold
    req,            \* the requests in flight
    opened,         \* how many sessions have been opened
    revocations,    \* how many password changes and resets have been started
    retired,        \* the latest revocation of each account that counts (history)
    ended           \* sessions revoked one by one (history)

vars == <<now, account, validFrom, tokens, req, opened, revocations, retired, ended>>

Never == -1     \* sessionsValidFrom of an account that never revoked anything

Seconds(t) == t \div Second

\* What a client holds.  The guard sees iat, whole seconds of the time of issue.
AccessToken == [user: Users, session: Nat, issuedAt: Nat]

Iat(t) == Seconds(t.issuedAt)

Expired(t) == Seconds(now) >= Iat(t) + AccessTtl

NoToken == [user |-> NoUser, session |-> 0, issuedAt |-> 0]

Idle == [pc |-> "idle", op |-> "none", user |-> NoUser, at |-> 0, token |-> NoToken,
         hopeless |-> FALSE]

Busy(r) == req[r].pc # "idle"

Goto(r, label) == req' = [req EXCEPT ![r].pc = label]

End(r) == req' = [req EXCEPT ![r] = Idle]

Exists(u) == account[u] # "gone"

-----------------------------------------------------------------------------
(* The guard *)

\* Mutant: the cutoff rounded up.
IsIssuedBeforeCeil(iat, cutoff) ==
    cutoff # Never /\ iat < (cutoff + Second - 1) \div Second

IsIssuedBefore(iat, cutoff) == cutoff # Never /\ iat < Seconds(cutoff)

\* Mutant: the signature is enough.
GuardAcceptsSigned(t) == TRUE

\* findForAuthentication and the decision on what it returns.
GuardAccepts(t) == Exists(t.user) /\ ~ IsIssuedBefore(Iat(t), validFrom[t.user])

\* verifyAccessToken let the token pass.  (hopeless: it could not have been
\* accepted when it was presented, for good.)
Present(r, t, op) ==
    /\ ~ Busy(r)
    /\ ~ Expired(t)
    /\ req' = [req EXCEPT ![r] = [Idle EXCEPT !.pc = "load", !.op = op, !.token = t,
                                    !.user = t.user,
                                    !.hopeless = ~ Exists(t.user)
                                                 \/ Iat(t) < Seconds(retired[t.user])]]
    /\ UNCHANGED <<now, account, validFrom, tokens, opened, revocations, retired, ended>>

\* RolesGuard: listing the users is for admins, the profile for everybody.
RoleAllows(r) == req[r].op = "listUsers" => account[req[r].user] = "admin"

Load(r) ==
    /\ req[r].pc = "load"
    /\ IF GuardAccepts(req[r].token) /\ RoleAllows(r) THEN Goto(r, "handler") ELSE End(r)
    /\ UNCHANGED <<now, account, validFrom, tokens, opened, revocations, retired, ended>>

\* findPage or updateProfile; the latter updates a row only if it is there.
Handle(r) ==
    /\ req[r].pc = "handler"
    /\ End(r)
    /\ UNCHANGED <<now, account, validFrom, tokens, opened, revocations, retired, ended>>

-----------------------------------------------------------------------------
(* Where tokens come from *)

IssueIn(u, s) == tokens' = tokens \cup {[user |-> u, session |-> s, issuedAt |-> now]}

OpenSession(u) ==
    /\ opened' = opened + 1
    /\ IssueIn(u, opened + 1)

\* The bound; password changes in flight are going to issue a token as well.
WillIssue == {r \in Requests : req[r].op = "changePassword"}

TokenBudget == Cardinality(tokens) + Cardinality(WillIssue) < MaxTokens

SignIn(u) ==
    /\ Exists(u) /\ TokenBudget
    /\ OpenSession(u)
    /\ UNCHANGED <<now, account, validFrom, req, revocations, retired, ended>>

\* A rotation issues another access token in the same session.
Refresh(t) ==
    /\ Exists(t.user) /\ t.session \notin ended /\ TokenBudget
    /\ IssueIn(t.user, t.session)
    /\ UNCHANGED <<now, account, validFrom, req, opened, revocations, retired, ended>>

-----------------------------------------------------------------------------
(* What takes them out of service *)

\* The new password is stored; markSessionsRevoked sends an update that carries
\* the time it was sent.
Revoke(r, u, op) ==
    /\ ~ Busy(r) /\ Exists(u)
    /\ revocations < MaxRevocations
    /\ revocations' = revocations + 1
    /\ req' = [req EXCEPT ![r] = [Idle EXCEPT !.pc = "mark", !.op = op, !.user = u, !.at = now]]
    /\ UNCHANGED <<now, account, validFrom, tokens, opened, retired, ended>>

ChangePassword(r, u) == TokenBudget /\ Revoke(r, u, "changePassword")
ResetPassword(r, u) == Revoke(r, u, "resetPassword")

Later(a, b) == IF a < b THEN b ELSE a

MarkNothing(u, date) == validFrom  \* mutant: the update finds no row

MarkSessionsRevoked(u, date) == IF Exists(u) THEN [validFrom EXCEPT ![u] = date] ELSE validFrom

\* No update sent before this one is still on its way to the same account.
IsOldest(r) ==
    \A q \in Requests : req[q].pc = "mark" /\ req[q].user = req[r].user => req[q].at >= req[r].at

\* The update arrives.  changePassword hands its caller a fresh token next.
Mark(r) ==
    /\ req[r].pc = "mark"
    /\ validFrom' = MarkSessionsRevoked(req[r].user, req[r].at)
    /\ retired' = [retired EXCEPT ![req[r].user] = IF IsOldest(r) THEN Later(@, req[r].at) ELSE @]
    /\ IF req[r].op = "changePassword" THEN Goto(r, "sign") ELSE End(r)
    /\ UNCHANGED <<now, account, tokens, opened, revocations, ended>>

Sign(r) ==
    /\ req[r].pc = "sign"
    /\ OpenSession(req[r].user)
    /\ End(r)
    /\ UNCHANGED <<now, account, validFrom, revocations, retired, ended>>

\* DELETE /auth/sessions/:id and logout: the refresh tokens and the row go.  The
\* guard does not look at sessions, and the access token lives out its ttl.
RevokeSession(s) ==
    /\ ended' = ended \cup {s}
    /\ UNCHANGED <<now, account, validFrom, tokens, req, opened, revocations, retired>>

DeleteAccount(u) ==
    /\ account' = [account EXCEPT ![u] = "gone"]
    /\ UNCHANGED <<now, validFrom, tokens, req, opened, revocations, retired, ended>>

\* The operator's command; an account that is gone is not found.
SetRole(u, role) ==
    /\ Exists(u)
    /\ account' = [account EXCEPT ![u] = role]
    /\ UNCHANGED <<now, validFrom, tokens, req, opened, revocations, retired, ended>>

Tick ==
    /\ now < MaxTime
    /\ \A r \in Requests \ Slow : ~ Busy(r)
    /\ now' = now + 1
    /\ UNCHANGED <<account, validFrom, tokens, req, opened, revocations, retired, ended>>

-----------------------------------------------------------------------------
Init ==
    /\ now = 0
    /\ account = [u \in Users |-> "user"]
    /\ validFrom = [u \in Users |-> Never]
    /\ tokens = {}
    /\ req = [r \in Requests |-> Idle]
    /\ opened = 0
    /\ revocations = 0
    /\ retired = [u \in Users |-> Never]
    /\ ended = {}

Next ==
    \/ \E r \in Requests :
         \/ Load(r) \/ Handle(r) \/ Mark(r) \/ Sign(r)
         \/ \E t \in tokens, op \in {"listUsers", "updateProfile"} : Present(r, t, op)
         \/ \E u \in Users : ChangePassword(r, u) \/ ResetPassword(r, u)
    \/ \E u \in Users :
         SignIn(u) \/ DeleteAccount(u) \/ \E role \in {"user", "admin"} : SetRole(u, role)
    \/ \E t \in tokens : Refresh(t) \/ RevokeSession(t.session)
    \/ Tick

Spec == Init /\ [][Next]_vars

-----------------------------------------------------------------------------
(* What the guard promises *)

TypeOK ==
    /\ now \in Nat
    /\ account \in [Users -> {"user", "admin", "gone"}]
    /\ validFrom \in [Users -> Nat \cup {Never}]
    /\ tokens \subseteq AccessToken
    /\ req \in [Requests ->
                  [pc: {"idle", "load", "handler", "mark", "sign"}, user: Users \cup {NoUser},
                   op: {"none", "listUsers", "updateProfile", "changePassword", "resetPassword"},
                   at: Nat, token: AccessToken \cup {NoToken}, hopeless: BOOLEAN]]
    /\ \A r \in Requests : Busy(r) => req[r].user \in Users
    /\ \A r \in Requests : req[r].pc \in {"load", "handler"} => req[r].token \in AccessToken
    /\ opened \in Nat /\ revocations \in Nat
    /\ retired \in [Users -> Nat \cup {Never}]
    /\ ended \subseteq Nat

\* Rounding never costs a client its token: one issued since the cutoff - such
\* as the one a password change hands back in the very second it moved the
\* cutoff - is accepted for as long as it lasts.
FreshTokenWorks ==
    \A t \in tokens :
        Exists(t.user) /\ ~ Expired(t) /\ t.issuedAt >= validFrom[t.user] => GuardAccepts(t)

\* A password change or reset that is over keeps out every token issued in an
\* earlier second, whatever other revocations of the account come after it.
\* (One that overtakes an older one does not count: markSessionsRevoked "retires
\* every access token issued so far", but stores its date unconditionally, and
\* the older update, arriving last, moves the cutoff back.)
RetiredTokenStaysRetired ==
    \A t \in tokens :
        Exists(t.user) /\ Iat(t) < Seconds(retired[t.user]) => ~ GuardAccepts(t)

\* No handler runs for a request that came after the fact: the account was
\* gone, or the token retired, when it was presented.  (One that was under way
\* already may be served.)
NoServiceAfterTheFact == \A r \in Requests : req[r].pc = "handler" => ~ req[r].hopeless

=============================================================================
