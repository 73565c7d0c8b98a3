--------------------------- MODULE DeviceSessions ---------------------------
(***************************************************************************)
(* Refresh tokens and the device sessions they rotate in.                  *)
(*                                                                         *)
(* The NestJS server handles requests concurrently: a handler gives up the *)
(* event loop at every await, so between two of its database calls any     *)
(* other handler may run.  A request is a record that remembers which      *)
(* await it is parked at (pc) and the values its closure holds; each       *)
(* action below is what happens between two awaits.  A Promise.all is the  *)
(* set of its branches that have not settled yet (todo).                   *)
(*                                                                         *)
(* refreshTokens, sessions and users are the three collections.  A single  *)
(* document operation is atomic; deleteMany removes its matches one        *)
(* document at a time and returns once it finds no more.                   *)
(*                                                                         *)
(* The token hash is the serial number of the token: two tokens never      *)
(* share a hash (every JWT carries its own jti), and nothing else about it *)
(* matters.  Session ids are numbered the same way.                        *)
(***************************************************************************)
EXTENDS Integers, FiniteSets, Sequences

CONSTANTS
    Users,          \* accounts
    NoUser,         \* the user field of a request that knows no account
    Requests,       \* slots for requests being handled at the same time
    Workload,       \* the handlers clients call, a subset of Handlers
    Faulty,         \* the requests that may die half-way
    Slow,           \* the requests the clock may advance during
    Lifetime,       \* refresh token time to live
    BootstrapTtl,   \* time to live of a session no token was stored for yet
    MaxTime,        \* bound: the clock stops here
    MaxTokens,      \* bound: refresh tokens ever signed
    MaxSessions     \* bound: sessions ever opened

Handlers == {"signIn", "refresh", "logout", "revokeSession",
             "changePassword", "resetPassword", "deleteAccount"}

ASSUME DeviceSessionsAssumption ==
    /\ NoUser \notin Users
    /\ Workload \subseteq Handlers
    /\ Faulty \subseteq Requests
    /\ Slow \subseteq Requests
    /\ Lifetime \in Nat \ {0}
    /\ BootstrapTtl \in Nat \ {0}
    /\ MaxTime \in Nat
    /\ MaxTokens \in Nat
    /\ MaxSessions \in Nat

VARIABLES
    now,            \* the server clock
    users,          \* the users collection: accounts that exist
    refreshTokens,  \* the refreshtokens collection
    sessions,       \* the sessions collection
    req,            \* the requests in flight
    issued,         \* how many refresh tokens have been signed
    owner,          \* owner[s] is who session s was opened for (history)
    handed,         \* the refresh tokens clients received (and may replay)
    ended           \* sessions a revocation that ran to its end covered (history)

vars == <<now, users, refreshTokens, sessions, req, issued, owner, handed, ended>>

store == <<users, refreshTokens, sessions>>
history == <<owner, handed, ended>>

Labels == {"idle", "consume", "findReused", "findUser", "start", "sign",
           "persist", "touch", "respond", "belongs", "dropUser",
           "revokeSession", "revokeAll"}

\* A parked handler that has nothing to remember.
Idle == [op |-> "none", pc |-> "idle", user |-> NoUser, session |-> 0,
         hash |-> 0, exp |-> 0, todo |-> {}, targets |-> {}]

-----------------------------------------------------------------------------
(* The collections *)

RefreshToken ==
    [hash: Nat, userId: Users, sessionId: Nat, consumed: BOOLEAN, expiresAt: Nat]

Session == [id: Nat, userId: Users, expiresAt: Nat]

\* The handlers at these awaits know an account they act for.
KnowUser == {"findUser", "start", "sign", "persist", "belongs", "dropUser", "revokeAll"}

Request ==
    {q \in [op: Handlers \cup {"none"}, pc: Labels, user: Users \cup {NoUser}, session: Nat,
            hash: Nat, exp: Nat, todo: SUBSET {"tokens", "sessions"}, targets: SUBSET Nat] :
       q.pc \in KnowUser \/ q.op = "changePassword" => q.user \in Users}

\* What a client holds: the hash identifies the token, exp is its JWT claim.
Jwt == [hash: Nat, exp: Nat]

Live(t) == ~ t.consumed

\* SessionsService.findForUser: the device list of u, expired rows not purged yet included.
DeviceList(u) == {s \in sessions : s.userId = u}

LiveTokens(s) == {t \in refreshTokens : t.sessionId = s /\ Live(t)}

-----------------------------------------------------------------------------
(* The bounds on what handlers create.  A call that may create something    *)
(* starts only if the bound leaves room for it, so no handler ever waits.   *)

\* Requests that may still sign a token, and those that may open a session.
WillSign == {r \in Requests :
                /\ req[r].op \in {"signIn", "refresh", "changePassword"}
                /\ req[r].pc \notin {"persist", "touch", "respond"}}
WillOpen == {r \in Requests :
                /\ req[r].op \in {"signIn", "changePassword"}
                /\ req[r].pc \in {"revokeAll", "start"}}

TokenBudget == issued + Cardinality(WillSign) < MaxTokens
SessionBudget == Len(owner) + Cardinality(WillOpen) < MaxSessions

-----------------------------------------------------------------------------
(* Control of a handler *)

\* A free slot accepts a call of handler h.
Accepts(r, h) == req[r].pc = "idle" /\ h \in Workload

Goto(r, label) == req' = [req EXCEPT ![r].pc = label]

\* The request is answered, or dies: its closure is gone.
End(r) == req' = [req EXCEPT ![r] = Idle]

\* Promise.all([deleteMany tokens, delete sessions]) of one session ...
RevokeOne(r, s) ==
    req' = [req EXCEPT ![r] = [@ EXCEPT !.pc = "revokeSession", !.session = s,
                                        !.hash = 0, !.exp = 0,
                                        !.todo = {"tokens", "sessions"},
                                        !.targets = {s}]]

\* The sessions opened for u so far.
SessionsOf(u) == {s \in DOMAIN owner : owner[s] = u}

\* Mutant: the revocation does not say whose sessions it ends.
RevokeEveryAnonymous(r, u, h) ==
    req' = [req EXCEPT ![r] = [@ EXCEPT !.op = h, !.pc = "revokeAll",
                                        !.todo = {"tokens", "sessions"}]]

\* ... and of every session of a user.
RevokeEvery(r, u, h) ==
    req' = [req EXCEPT ![r] = [@ EXCEPT !.op = h, !.pc = "revokeAll", !.user = u,
                                        !.todo = {"tokens", "sessions"},
                                        !.targets = SessionsOf(u)]]

-----------------------------------------------------------------------------
(* Calls.  Clients present only tokens they were handed, any number of      *)
(* times and from any number of devices (a copy is as good as the token).   *)

\* The password was right: signUp, signIn and changePassword all end here.
SignIn(r, u) ==
    /\ Accepts(r, "signIn")
    /\ u \in users
    /\ TokenBudget /\ SessionBudget
    /\ req' = [req EXCEPT ![r] = [Idle EXCEPT !.op = "signIn", !.pc = "start", !.user = u]]
    /\ UNCHANGED <<now, store, issued, history>>

\* verifyRefreshToken accepts the token: it is ours and has not expired.
Present(r, t, h) ==
    /\ Accepts(r, h)
    /\ now < t.exp
    /\ req' = [req EXCEPT ![r] = [Idle EXCEPT !.op = h, !.pc = "consume", !.hash = t.hash]]
    /\ UNCHANGED <<now, store, issued, history>>

Refresh(r, t) == TokenBudget /\ Present(r, t, "refresh")

Logout(r, t) == Present(r, t, "logout")

\* DELETE /auth/sessions/:id by a caller the guard let in; any id may be named.
RevokeSession(r, u, s) ==
    /\ Accepts(r, "revokeSession")
    /\ u \in users
    /\ req' = [req EXCEPT ![r] = [Idle EXCEPT !.op = "revokeSession", !.pc = "belongs",
                                              !.user = u, !.session = s]]
    /\ UNCHANGED <<now, store, issued, history>>

\* The new password is stored; every session ends and the caller gets a new one.
ChangePassword(r, u) ==
    /\ Accepts(r, "changePassword")
    /\ u \in users
    /\ TokenBudget /\ SessionBudget
    /\ RevokeEvery(r, u, "changePassword")
    /\ UNCHANGED <<now, store, issued, history>>

ResetPassword(r, u) ==
    /\ Accepts(r, "resetPassword")
    /\ u \in users
    /\ RevokeEvery(r, u, "resetPassword")
    /\ UNCHANGED <<now, store, issued, history>>

\* The password was right; the user row goes first.
DeleteAccount(r, u) ==
    /\ Accepts(r, "deleteAccount")
    /\ u \in users
    /\ req' = [req EXCEPT ![r] = [Idle EXCEPT !.op = "deleteAccount", !.pc = "dropUser",
                                              !.user = u]]
    /\ UNCHANGED <<now, store, issued, history>>

-----------------------------------------------------------------------------
(* Redeeming a token: RefreshTokensService.consume *)

\* Mutants of the filter: one forgets consumedAt, one looks at the row's expiry.
RedeemsSpentToo(r, t) == t.hash = req[r].hash
RedeemsUnexpiredRow(r, t) == t.hash = req[r].hash /\ Live(t) /\ now < t.expiresAt

\* findOneAndUpdate({tokenHash, consumedAt: null}, {consumedAt: now})
Redeems(r, t) == t.hash = req[r].hash /\ Live(t)

MarkNothing(t) == UNCHANGED refreshTokens  \* mutant: the update is lost

MarkConsumed(t) ==
    refreshTokens' = (refreshTokens \ {t}) \cup {[t EXCEPT !.consumed = TRUE]}

Consume(r) ==
    /\ req[r].pc = "consume"
    /\ \/ \E t \in refreshTokens :
            /\ Redeems(r, t)
            /\ MarkConsumed(t)
            /\ \/ /\ req[r].op = "refresh"
                  /\ req' = [req EXCEPT ![r] = [@ EXCEPT !.pc = "findUser", !.hash = 0,
                                                         !.user = t.userId,
                                                         !.session = t.sessionId]]
               \/ /\ req[r].op = "logout"
                  /\ RevokeOne(r, t.sessionId)
       \/ /\ ~ \E t \in refreshTokens : Redeems(r, t)
          /\ Goto(r, "findReused")
          /\ UNCHANGED refreshTokens
    /\ UNCHANGED <<now, users, sessions, issued, history>>

\* findOne({tokenHash}): a row means the token was redeemed before.
FindReused(r) ==
    /\ req[r].pc = "findReused"
    /\ \/ \E t \in refreshTokens : t.hash = req[r].hash /\ RevokeOne(r, t.sessionId)
       \/ /\ ~ \E t \in refreshTokens : t.hash = req[r].hash
          /\ End(r)
    /\ UNCHANGED <<now, store, issued, history>>

\* Mutant: the account is not looked up.
FindUserUnchecked(r) ==
    /\ req[r].pc = "findUser"
    /\ Goto(r, "sign")
    /\ UNCHANGED <<now, store, issued, history>>

\* refresh: the account behind the redeemed token must still exist.
FindUser(r) ==
    /\ req[r].pc = "findUser"
    /\ IF req[r].user \in users THEN Goto(r, "sign") ELSE End(r)
    /\ UNCHANGED <<now, store, issued, history>>

-----------------------------------------------------------------------------
(* Opening a session and issuing tokens in it *)

\* SessionsService.start
Start(r) ==
    /\ req[r].pc = "start" /\ Len(owner) < MaxSessions
    /\ LET s == Len(owner) + 1 IN
         /\ sessions' = sessions \cup
              {[id |-> s, userId |-> req[r].user, expiresAt |-> now + BootstrapTtl]}
         /\ owner' = Append(owner, req[r].user)
         /\ req' = [req EXCEPT ![r] = [@ EXCEPT !.pc = "sign", !.session = s, !.targets = {}]]
    /\ UNCHANGED <<now, users, refreshTokens, issued, handed, ended>>

\* TokensService.issueTokenPair
Sign(r) ==
    /\ req[r].pc = "sign" /\ issued < MaxTokens
    /\ issued' = issued + 1
    /\ req' = [req EXCEPT ![r] = [@ EXCEPT !.pc = "persist", !.hash = issued + 1,
                                           !.exp = now + Lifetime]]
    /\ UNCHANGED <<now, store, history>>

\* RefreshTokensService.persist refuses a token that expired meanwhile.
Persist(r) ==
    /\ req[r].pc = "persist"
    /\ \/ /\ now < req[r].exp
          /\ refreshTokens' = refreshTokens \cup
               {[hash |-> req[r].hash, userId |-> req[r].user, sessionId |-> req[r].session,
                 consumed |-> FALSE, expiresAt |-> req[r].exp]}
          /\ Goto(r, "touch")
       \/ /\ now >= req[r].exp
          /\ End(r)
          /\ UNCHANGED refreshTokens
    /\ UNCHANGED <<now, users, sessions, issued, history>>

\* Mutants of touch: an upsert, and one that leaves the bootstrap expiry alone.
TouchedUpsert(r) ==
    {s \in sessions : s.id # req[r].session} \cup
        {[id |-> req[r].session, userId |-> req[r].user, expiresAt |-> req[r].exp]}
TouchedLastSeen(r) == sessions

\* SessionsService.touch: an update without upsert, so a missing row stays missing.
Touched(r) ==
    {IF s.id = req[r].session THEN [s EXCEPT !.expiresAt = req[r].exp] ELSE s : s \in sessions}

Touch(r) ==
    /\ req[r].pc = "touch"
    /\ sessions' = Touched(r)
    /\ Goto(r, "respond")
    /\ UNCHANGED <<now, users, refreshTokens, issued, history>>

\* The pair reaches the client.  (A lost response is Fail at this point.)
Respond(r) ==
    /\ req[r].pc = "respond"
    /\ handed' = handed \cup {[hash |-> req[r].hash, exp |-> req[r].exp]}
    /\ End(r)
    /\ UNCHANGED <<now, store, issued, owner, ended>>

-----------------------------------------------------------------------------
(* Revocation *)

SessionExists(r) == \E s \in sessions : s.id = req[r].session  \* mutant: any owner

\* SessionsService.belongsToUser
BelongsToUser(r) == \E s \in sessions : s.id = req[r].session /\ s.userId = req[r].user

\* Someone else's session, or none, is a 404.
CheckOwner(r) ==
    /\ req[r].pc = "belongs"
    /\ IF BelongsToUser(r)
         THEN RevokeOne(r, req[r].session)
         ELSE End(r)
    /\ UNCHANGED <<now, store, issued, history>>

\* UsersService.delete, then everything the account owned
DropUser(r) ==
    /\ req[r].pc = "dropUser"
    /\ users' = users \ {req[r].user}
    /\ RevokeEvery(r, req[r].user, "deleteAccount")
    /\ UNCHANGED <<now, refreshTokens, sessions, issued, history>>

Revoking(r) == req[r].pc \in {"revokeSession", "revokeAll"}

\* The filter of the deletes: {sessionId} (_id in sessions), or {userId}.
Covers(r, sessionId, userId) ==
    IF req[r].pc = "revokeSession" THEN sessionId = req[r].session ELSE userId = req[r].user

\* Mutant: only the tokens that were redeemed already are deleted.
DoomedSpentTokens(r) ==
    {t \in refreshTokens : ~ Live(t) /\ Covers(r, t.sessionId, t.userId)}

DoomedTokens(r) == {t \in refreshTokens : Covers(r, t.sessionId, t.userId)}
DoomedSessions(r) == {s \in sessions : Covers(r, s.id, s.userId)}

Settle(r, branch) == req' = [req EXCEPT ![r].todo = @ \ {branch}]

\* refreshTokenModel.deleteMany, one document at a time until none is left
DeleteTokens(r) ==
    /\ Revoking(r) /\ "tokens" \in req[r].todo
    /\ \/ \E t \in DoomedTokens(r) : refreshTokens' = refreshTokens \ {t} /\ UNCHANGED req
       \/ DoomedTokens(r) = {} /\ Settle(r, "tokens") /\ UNCHANGED refreshTokens
    /\ UNCHANGED <<now, users, sessions, issued, history>>

\* SessionsService.delete and deleteAllForUser.  A session opened while a
\* deleteAllForUser runs may lose its row to it as well.
DeleteSessions(r) ==
    /\ Revoking(r) /\ "sessions" \in req[r].todo
    /\ \/ \E s \in DoomedSessions(r) :
            /\ sessions' = sessions \ {s}
            /\ req' = [req EXCEPT ![r].targets = @ \cup {s.id}]
       \/ DoomedSessions(r) = {} /\ Settle(r, "sessions") /\ UNCHANGED sessions
    /\ UNCHANGED <<now, users, refreshTokens, issued, history>>

\* Both branches settled.  changePassword goes on to open the caller's new
\* session; an abandoned revocation (see FailBranch) has nobody to answer.
Revoked(r) ==
    /\ Revoking(r) /\ req[r].todo = {}
    /\ ended' = IF req[r].op = "none" THEN ended ELSE ended \cup req[r].targets
    /\ IF req[r].op = "changePassword" THEN Goto(r, "start") ELSE End(r)
    /\ UNCHANGED <<now, store, issued, owner, handed>>

-----------------------------------------------------------------------------
(* Failures, the clock and the TTL monitor *)

\* A database call throws, the process dies, or the response gets lost.
Fail(r) ==
    /\ r \in Faulty
    /\ req[r].pc # "idle"
    /\ End(r)
    /\ UNCHANGED <<now, store, issued, history>>

\* One branch of a Promise.all rejects: the caller is answered at once, while
\* the other branch keeps running with nobody waiting for it.
FailBranch(r) ==
    /\ r \in Faulty
    /\ Revoking(r)
    /\ \E branch \in req[r].todo :
         req' = [req EXCEPT ![r] = [@ EXCEPT !.op = "none",
                                        !.todo = req[r].todo \ {branch}]]
    /\ UNCHANGED <<now, store, issued, history>>

Tick ==
    /\ now < MaxTime
    /\ \A r \in Requests \ Slow : req[r].pc = "idle"
    /\ now' = now + 1
    /\ UNCHANGED <<store, req, issued, history>>

\* The TTL indexes on expiresAt: MongoDB removes expired documents eventually.
Purge ==
    /\ \/ \E t \in refreshTokens :
            t.expiresAt <= now /\ refreshTokens' = refreshTokens \ {t} /\ UNCHANGED sessions
       \/ \E s \in sessions :
            s.expiresAt <= now /\ sessions' = sessions \ {s} /\ UNCHANGED refreshTokens
    /\ UNCHANGED <<now, users, req, issued, history>>

-----------------------------------------------------------------------------
Init ==
    /\ now = 0
    /\ users = Users
    /\ refreshTokens = {}
    /\ sessions = {}
    /\ req = [r \in Requests |-> Idle]
    /\ issued = 0
    /\ owner = <<>>
    /\ handed = {}
    /\ ended = {}

Call(r) ==
    \/ \E u \in Users : \/ SignIn(r, u)
                        \/ ChangePassword(r, u)
                        \/ ResetPassword(r, u)
                        \/ DeleteAccount(r, u)
                        \/ \E s \in DOMAIN owner : RevokeSession(r, u, s)
    \/ \E t \in handed : Refresh(r, t) \/ Logout(r, t)

\* What a request in flight does next.
Step(r) ==
    \/ Consume(r) \/ FindReused(r) \/ FindUser(r)
    \/ Start(r) \/ Sign(r) \/ Persist(r) \/ Touch(r) \/ Respond(r)
    \/ CheckOwner(r) \/ DropUser(r)
    \/ DeleteTokens(r) \/ DeleteSessions(r) \/ Revoked(r)

Next ==
    \/ \E r \in Requests : Call(r) \/ Step(r) \/ Fail(r) \/ FailBranch(r)
    \/ Tick
    \/ Purge

Spec == Init /\ [][Next]_vars

\* Node.js resumes every handler whose awaited call has returned; neither the
\* clock, the TTL monitor nor a client owes us anything.
FairSpec == Spec /\ \A r \in Requests : WF_vars(Step(r))
-----------------------------------------------------------------------------
(* What the component promises *)

TypeOK ==
    /\ now \in Nat
    /\ users \subseteq Users
    /\ refreshTokens \subseteq RefreshToken
    /\ sessions \subseteq Session
    /\ req \in [Requests -> Request]
    /\ issued \in Nat
    /\ owner \in Seq(Users)
    /\ handed \subseteq Jwt
    /\ ended \subseteq Nat

\* A request that will put a live token into session s unless it stops first:
\* it redeemed the session's token, or opened the session.
Issuer(r) == req[r].pc \in {"findUser", "sign", "persist"}
Issuing(r, s) == Issuer(r) /\ req[r].session = s

\* Rotation is a chain: however many requests present the tokens of one
\* session at the same time, never do two of its tokens stay redeemable.  (The
\* atomic findOneAndUpdate of consume, and issueTokens storing one token for
\* each token redeemed.)
OneLiveTokenPerSession ==
    \A t, u \in refreshTokens :
        t.sessionId = u.sessionId /\ Live(t) /\ Live(u) => t = u

\* Only a token that really was redeemed before makes consume report theft,
\* though its second query does not look at consumedAt any more and the row
\* may have changed since the first one missed.
ReuseAccusationIsSound ==
    \A r \in Requests, t \in refreshTokens :
        req[r].pc = "findReused" /\ t.hash = req[r].hash => ~ Live(t)

\* A revocation asked for by an account deletes only that account's rows: the
\* ownership check of DELETE /auth/sessions/:id looks at the session row, the
\* delete that follows at the session id of the token rows.
NobodyEndsAnothersSession ==
    \A r \in Requests : Revoking(r) /\ req[r].user # NoUser =>
        /\ \A t \in DoomedTokens(r) : t.userId = req[r].user
        /\ \A s \in DoomedSessions(r) : s.userId = req[r].user

\* "It lives exactly as long as its newest refresh token": once the client has
\* a redeemable token, the session row carries the expiry of that very token,
\* whatever rotations were abandoned between persist and touch before.
SessionLivesAsLongAsItsToken ==
    \A t \in refreshTokens, s \in sessions :
        /\ Live(t) /\ s.id = t.sessionId
        /\ \E j \in handed : j.hash = t.hash
        => s.expiresAt = t.expiresAt

\* Whoever can refresh shows up in the device list, as long as nobody revoked
\* the session: the session row is neither forgotten nor purged before the
\* token.  (Not so once a revocation of the session began, see
\* RevokedSessionStaysRevoked; nor after half a revocation; nor when a refresh
\* is so slow that the TTL monitor takes the session row before touch extends
\* it.  The run leaves failures and slow requests out.)
UsableTokenIsListed ==
    \A t \in refreshTokens :
        \/ ~ Live(t) \/ t.expiresAt <= now
        \/ ~ \E j \in handed : j.hash = t.hash
        \/ t.sessionId \in ended
        \/ \E r \in Requests : t.sessionId \in req[r].targets
        \/ \E s \in DeviceList(t.userId) : s.id = t.sessionId

\* A revoked session never comes back to the device list, though requests that
\* were in flight go on to touch it.
RevokedSessionIsNeverListed ==
    \A u \in Users : \A s \in DeviceList(u) : s.id \notin ended

\* A session without a redeemable token, and without a request about to store
\* one, never gets one again: no replay, retry or late write revives it.
DeadSessionStaysDead ==
    [][\A s \in DOMAIN owner :
          /\ LiveTokens(s) = {}
          /\ ~ \E r \in Requests : Issuing(r, s)
          => /\ LiveTokens(s)' = {}
             /\ ~ \E r \in Requests : Issuing(r, s)']_vars

\* Once an account is gone and the handlers that had already found it are
\* done, no token is ever signed for it, whatever tokens are still presented.
GoneUserGetsNoToken ==
    [][\A u \in Users \ users :
          ~ (\E r \in Requests : req[r].user = u /\ req[r].pc \in {"revokeAll", "start", "sign"})
          => ~ (\E r \in Requests : req[r].user = u /\ req[r].pc \in {"start", "sign"})']_vars

\* Reuse detection: when a token redeemed before is presented again, every
\* token of its session that was redeemable by then stops being so.
ReplayKillsLiveTokens ==
    \A h \in 1..MaxTokens :
        (\E t, u \in refreshTokens, r \in Requests :
            /\ req[r].pc = "findReused" /\ t.hash = req[r].hash
            /\ u.sessionId = t.sessionId /\ u.hash = h /\ Live(u))
        ~> ~ \E u \in refreshTokens : u.hash = h /\ Live(u)

\* Why OneLiveTokenPerSession holds: redeeming a token turns it into the right
\* to store one new token of the same session, and nothing else hands out
\* such a right but opening a session nobody knows yet.
TokensAreKnown ==
    /\ \A t \in refreshTokens : t.sessionId \in 1..Len(owner) /\ t.hash \in 1..issued
    /\ \A r \in Requests : Issuer(r) => req[r].session \in 1..Len(owner)
    /\ \A r \in Requests : req[r].pc = "persist" => req[r].hash \in 1..issued

HashesAreUnique ==
    /\ \A t, u \in refreshTokens : t.hash = u.hash => t = u
    /\ \A r \in Requests, t \in refreshTokens : req[r].pc = "persist" => t.hash # req[r].hash
    /\ \A r, q \in Requests :
          req[r].pc = "persist" /\ req[q].pc = "persist" /\ req[r].hash = req[q].hash => r = q

OneIssuerPerSession ==
    /\ \A r, q \in Requests : Issuer(r) /\ Issuing(q, req[r].session) => r = q
    /\ \A r \in Requests, t \in refreshTokens :
          Issuer(r) /\ t.sessionId = req[r].session => ~ Live(t)

RotationInv ==
    TokensAreKnown /\ HashesAreUnique /\ OneIssuerPerSession /\ OneLiveTokenPerSession

\* The abstraction: a session is issuing while a request is about to store a
\* token in it, and a signed token that is neither stored redeemable nor about
\* to be stored is spent.
Phase(s) ==
    IF s \notin DOMAIN owner THEN "unopened"
    ELSE IF \E r \in Requests : Issuing(r, s) THEN "issuing"
    ELSE "settled"

Spent(h) ==
    /\ ~ \E t \in refreshTokens : t.hash = h /\ Live(t)
    /\ ~ \E r \in Requests : req[r].pc = "persist" /\ req[r].hash = h

Redeemable(s) == {t.hash : t \in LiveTokens(s)}

Rotating == INSTANCE RotatingSessions WITH
    Ids <- 1..MaxSessions,
    Tokens <- 1..MaxTokens,
    phase <- [s \in 1..MaxSessions |-> Phase(s)],
    redeemable <- [s \in 1..MaxSessions |-> Redeemable(s)],
    spent <- {h \in 1..issued : Spent(h)}

\* The component implements the abstract rotation: tokens only move along
\* issued - redeemable - spent, and every new one pays with an old one.
ImplementsRotation == Rotating!Spec

-----------------------------------------------------------------------------
(* What a comment promises and the code does not keep *)

\* refreshTokens.service.ts on revokeSession: "its tokens and the session row
\* go together, so nothing is left that could be redeemed".  A rotation that
\* redeemed the old token before the deletes stores the new one after them.
RevokedSessionStaysRevoked == \A s \in ended : LiveTokens(s) = {}
=============================================================================
