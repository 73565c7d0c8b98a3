------------------------------ MODULE HttpApi ------------------------------
(***************************************************************************)
(* From the socket to the error envelope: what the application puts around *)
(* its services.                                                           *)
(*                                                                         *)
(* A process validates its environment, applies TRUST_PROXY and serves.  A *)
(* call passes the body parser, the throttler, JwtAuthGuard, RolesGuard    *)
(* and ZodValidationPipe, in this order, then its handler; whatever throws *)
(* ends in AllExceptionsFilter.  The route tables are the decorators of    *)
(* the controllers.  What services do inside is in the other modules, here *)
(* they are the exceptions they may throw; only what concerns the users    *)
(* collection as a whole runs: sign-up, deletion and paging (UserPages).   *)
(*                                                                         *)
(* A client picks what a step reads (header, token, body) when it is read. *)
(***************************************************************************)
EXTENDS UserPages, Sequences

CONSTANTS
    Requests,      \* slots for calls being handled at the same time
    Clients,       \* where calls really come from
    Forged,        \* further addresses a client may write into X-Forwarded-For
    Scenarios,     \* what a behaviour is about: see Scenario
    DefaultLimit, DefaultTtl,  \* the global profile, THROTTLE_*
    BurstLimit, BurstTtl,      \* BURST_THROTTLE_*
    AuthLimit, AuthTtl,        \* AUTH_THROTTLE_*
    Admins,        \* accounts an operator made admin
    InitialUsers,  \* accounts there from the start
    MaxUsers       \* bound: accounts ever stamped

VARIABLES
    scenario,  \* never changes
    server,    \* "down" until booted, then "up" or "aborted"
    now,       \* the clock
    hits,      \* ThrottlerStorage: calls counted and not expired yet
    calls,     \* how many calls were made
    req,       \* the calls being handled
    stamped,   \* how many accounts were given a place in the sort order
    gone       \* accounts that were deleted (clients may still hold their tokens)

vars == <<scenario, server, now, hits, calls, req, stamped, gone, users, page, scan>>
accounts == <<stamped, gone, pagesVars>>
serving == <<scenario, server, now, hits, calls>>

-----------------------------------------------------------------------------
(* Routes: the decorators of each handler, and what its service throws.     *)
(* documented: the error statuses its Api...Response decorators name, those *)
(* of its class included.                                                   *)

Route(public, admin, wantsUser, dto, profile, documented, throws) ==
    [public |-> public, admin |-> admin, wantsUser |-> wantsUser, dto |-> dto,
     profile |-> profile, documented |-> documented, throws |-> throws]

\* @Controller('auth'): the stricter 'default' profile, 429 and 413 for all.
AuthPublic(documented, throws) ==
    Route(TRUE, FALSE, FALSE, TRUE, "auth", documented \cup {413, 429}, throws)
AuthUser(dto, documented, throws) ==
    Route(FALSE, FALSE, TRUE, dto, "auth", documented \cup {401, 413, 429}, throws)

SessionRoutes == [
    signUp |-> AuthPublic({400, 409}, {"emailTaken", "breachedPassword"}),
    signIn |-> AuthPublic({400, 401}, {"invalidCredentials", "accountLocked"}),
    refresh |-> AuthPublic({400, 401}, {"invalidRefreshToken"}),
    logout |-> AuthPublic({400}, {})]

MailRoutes == [
    sendVerification |-> AuthUser(FALSE, {400}, {"emailAlreadyVerified", "mailsRateLimited"}),
    verifyEmail |-> AuthPublic({400}, {"invalidVerificationToken"}),
    resendVerification |-> AuthPublic({400}, {}),
    forgotPassword |-> AuthPublic({400}, {}),
    resetPassword |-> AuthPublic({400}, {"invalidResetToken", "breachedPassword"})]

AccountRoutes == [
    deleteAccount |-> AuthUser(TRUE, {400}, {"accountLocked", "wrongCurrentPassword"}),
    changePassword |-> AuthUser(TRUE, {400}, {"accountLocked", "wrongCurrentPassword",
                                              "breachedPassword"}),
    listSessions |-> AuthUser(FALSE, {}, {}),
    revokeSession |-> AuthUser(FALSE, {404}, {"sessionNotFound"})]

\* @Controller('users') names 401 and 429 for all.
UserRoutes == [
    list |-> Route(FALSE, TRUE, FALSE, TRUE, "global", {401, 403, 429}, {}),
    getMe |-> Route(FALSE, FALSE, TRUE, FALSE, "global", {401, 429}, {}),
    updateMe |-> Route(FALSE, FALSE, TRUE, TRUE, "global", {400, 401, 429}, {})]

\* The probes
HealthRoutes == [getHealth |-> Route(TRUE, FALSE, FALSE, FALSE, "skip", {}, {})]
AppRoutes == [getHello |-> Route(TRUE, FALSE, FALSE, FALSE, "global", {429}, {})]

\* @Module({ imports }): the handlers of all controllers.
Routes ==
    [route \in DOMAIN SessionRoutes \cup DOMAIN MailRoutes \cup DOMAIN AccountRoutes
                 \cup DOMAIN UserRoutes \cup DOMAIN HealthRoutes \cup DOMAIN AppRoutes |->
        CASE route \in DOMAIN SessionRoutes -> SessionRoutes[route]
          [] route \in DOMAIN MailRoutes -> MailRoutes[route]
          [] route \in DOMAIN AccountRoutes -> AccountRoutes[route]
          [] route \in DOMAIN UserRoutes -> UserRoutes[route]
          [] route \in DOMAIN HealthRoutes -> HealthRoutes[route]
          [] route \in DOMAIN AppRoutes -> AppRoutes[route]]

-----------------------------------------------------------------------------
(* Deployment and boot *)

\* What a behaviour is about: the routes called; as bounds the number of calls,
\* of calls handled at once and of ticks of the clock; and the deployment: the
\* addresses of the proxies really in front, the nearest first, the value of
\* TRUST_PROXY, and whether the two JWT secrets differ.
Scenario == [routes: SUBSET DOMAIN Routes, calls: Nat, atOnce: Nat, ticks: Nat, deployment:
    [proxies: Seq(STRING), secretsDiffer: BOOLEAN,
     trust: [kind: {"unset", "false", "true"}] \cup [kind: {"count"}, n: Nat]
            \cup [kind: {"list"}, addresses: SUBSET STRING]]]

ASSUME HttpApiAssumption ==
    /\ Scenarios \subseteq Scenario
    /\ \A s \in Scenarios : \A i \in DOMAIN s.deployment.proxies :
          s.deployment.proxies[i] \notin Clients
    /\ {DefaultLimit, DefaultTtl, BurstLimit, BurstTtl, AuthLimit, AuthTtl} \subseteq Nat \ {0}
    /\ InitialUsers \in Nat /\ Admins \subseteq 1..InitialUsers

deployment == scenario.deployment

\* isTrustProxyValue: "true" and zero hops are refused, as is a list of nothing.
IsTrustProxyValue(value) ==
    \/ value.kind = "false"
    \/ value.kind = "count" /\ value.n > 0
    \/ value.kind = "list" /\ value.addresses # {}

ValidateOptimist(d) == d.trust.kind = "unset" \/ IsTrustProxyValue(d.trust)  \* mutant: any secrets

\* validateEnv, as far as a later step depends on it
ValidateEnv(d) ==
    /\ d.trust.kind = "unset" \/ IsTrustProxyValue(d.trust)
    /\ d.secretsDiffer

\* parseTrustProxy: does Express trust the i-th address, counted from the socket?
ParseTrustProxy(value, address, i) ==
    CASE value.kind = "count" -> i <= value.n
      [] value.kind = "list" -> address \in value.addresses
      [] OTHER -> FALSE

\* Mutants of setupApp: trust whatever is there, or leave Express as it is.
TrustsAll(address, i) == TRUE
TrustsNone(address, i) == FALSE

\* setupApp: app.set('trust proxy', parseTrustProxy(TRUST_PROXY))
Trusts(address, i) == ParseTrustProxy(deployment.trust, address, i)

\* The socket address and X-Forwarded-For, from the server outwards: every
\* proxy adds the address it was called from to what the client wrote.
Hops(client, forged) == deployment.proxies \o <<client>> \o forged

\* request.ip: the first address on the way out that is not trusted.
ClientAddress(client, forged) ==
    LET hops == Hops(client, forged)
        stops == {i \in DOMAIN hops : i = Len(hops) \/ ~ Trusts(hops[i], i)}
    IN  hops[CHOOSE i \in stops : \A j \in stops : i <= j]

-----------------------------------------------------------------------------
(* The throttler: one counter per handler, profile and address.  A call over *)
(* the limit is counted once and blocks the counter for one more ttl.        *)

Throttlers == {"burst", "default"}

\* @Throttle on AuthController overrides 'default' only.
Limit(route, throttler) ==
    CASE throttler = "burst" -> BurstLimit
      [] Routes[route].profile = "auth" -> AuthLimit
      [] OTHER -> DefaultLimit

Ttl(route, throttler) ==
    CASE throttler = "burst" -> BurstTtl
      [] Routes[route].profile = "auth" -> AuthTtl
      [] OTHER -> DefaultTtl

Counted(route, throttler, address) ==
    {h \in hits : h.route = route /\ h.throttler = throttler /\ h.address = address}

\* The client is history; nth tells calls of the same instant apart.
Hit(route, throttler, address, client, passed) ==
    [route |-> route, throttler |-> throttler, address |-> address, passed |-> passed,
     client |-> client, at |-> now,
     nth |-> Cardinality({h \in Counted(route, throttler, address) :
                            h.client = client /\ h.at = now})]

Exceeded(route, throttler, address) ==
    LET counted == Counted(route, throttler, address) IN
    \/ \E h \in counted : ~ h.passed
    \/ Cardinality(counted) >= Limit(route, throttler)

SkipsNothing(route, throttler) == FALSE  \* mutant: probes are throttled like the rest

\* A bare @SkipThrottle() names no throttler, which means 'default'.
Skips(route, throttler) == Routes[route].profile = "skip" /\ throttler = "default"

Refuses(route, throttler, address) ==
    ~ Skips(route, throttler) /\ Exceeded(route, throttler, address)

\* The throttler that refuses the call, if any; the shorter window goes first.
RefusedBy(route, address) ==
    IF Refuses(route, "burst", address) THEN "burst"
    ELSE IF Refuses(route, "default", address) THEN "default"
    ELSE "none"

NewHits(route, address, client) ==
    LET refused == RefusedBy(route, address)
        asked == IF refused = "burst" THEN {} ELSE Throttlers \ {refused}
        passes == {t \in asked : ~ Skips(route, t)}
    IN  {Hit(route, t, address, client, TRUE) : t \in passes} \cup
        {Hit(route, t, address, client, FALSE) :
            t \in {u \in {refused} \cap Throttlers :
                     \A h \in Counted(route, u, address) : h.passed}}

-----------------------------------------------------------------------------
(* Exceptions and the filter that answers with them *)

App(status, code, details) == [kind |-> "app", status |-> status, code |-> code, details |-> details]
Other(kind, status) == [kind |-> kind, status |-> status, code |-> "none", details |-> FALSE]

\* Mutant: the wrong current password is a 401, as a wrong password at sign-in.
WrongPassword401 == App(401, "WRONG_CURRENT_PASSWORD", TRUE)

\* The caller's password, asked for once more.
WrongCurrentPassword == App(400, "WRONG_CURRENT_PASSWORD", TRUE)

\* Each AppException the guards, the pipe and the services throw, Nest's own,
\* those of the body parser (http-errors), and everything else.
Exceptions == [
    unauthenticated |-> App(401, "UNAUTHENTICATED", FALSE),
    forbidden |-> App(403, "FORBIDDEN", FALSE),
    validationFailed |-> App(400, "VALIDATION_FAILED", TRUE),
    emailTaken |-> App(409, "EMAIL_TAKEN", TRUE),
    breachedPassword |-> App(400, "BREACHED_PASSWORD", TRUE),
    invalidCredentials |-> App(401, "INVALID_CREDENTIALS", FALSE),
    invalidRefreshToken |-> App(401, "INVALID_REFRESH_TOKEN", FALSE),
    accountLocked |-> App(429, "ACCOUNT_LOCKED", FALSE),
    wrongCurrentPassword |-> WrongCurrentPassword,
    sessionNotFound |-> App(404, "NOT_FOUND", FALSE),
    emailAlreadyVerified |-> App(400, "EMAIL_ALREADY_VERIFIED", FALSE),
    mailsRateLimited |-> App(429, "RATE_LIMITED", FALSE),
    invalidVerificationToken |-> App(400, "INVALID_VERIFICATION_TOKEN", TRUE),
    invalidResetToken |-> App(400, "INVALID_RESET_TOKEN", TRUE),
    throttled |-> Other("http", 429),
    malformedBody |-> Other("middleware", 400),
    bodyTooLarge |-> Other("middleware", 413),
    unsupportedBody |-> Other("middleware", 415),
    unexpected |-> Other("unknown", 500)]

FromParser == {"malformedBody", "bodyTooLarge", "unsupportedBody"}

CodeByStatus ==
    [status \in {400, 401, 403, 404, 409, 413, 429, 503} |->
        CASE status = 400 -> "BAD_REQUEST" [] status = 401 -> "UNAUTHENTICATED"
          [] status = 403 -> "FORBIDDEN" [] status = 404 -> "NOT_FOUND"
          [] status = 409 -> "CONFLICT" [] status = 413 -> "PAYLOAD_TOO_LARGE"
          [] status = 429 -> "RATE_LIMITED" [] status = 503 -> "SERVICE_UNAVAILABLE"]

CodeForStatus(status) ==
    IF status \in DOMAIN CodeByStatus THEN CodeByStatus[status] ELSE "INTERNAL_ERROR"

\* What was thrown: meta and header hold the seconds to wait where there are
\* any, in the exception's meta or the response's Retry-After header.
Thrown == [name: DOMAIN Exceptions, meta: SUBSET {0, 1}, header: SUBSET {0, 1}]
Nothing == [name |-> "unexpected", meta |-> {}, header |-> {}]

RetryAfter(status, meta, header) ==
    IF status = 429 /\ meta = {} THEN {s \in header : s > 0} ELSE meta

Body(status, code, details, generic, retryAfter) ==
    [status |-> status, code |-> code, details |-> details, generic |-> generic,
     retryAfter |-> retryAfter]

\* Mutant: an AppException is an HttpException, too, and is taken for one.
CatchHttpFirst(x) ==
    LET e == Exceptions[x.name] IN
    IF e.kind = "unknown"
      THEN Body(500, "INTERNAL_ERROR", FALSE, TRUE, {})
      ELSE Body(e.status, CodeForStatus(e.status), FALSE, FALSE, RetryAfter(e.status, {}, x.header))

\* AllExceptionsFilter.catch
Catch(x) ==
    LET e == Exceptions[x.name] IN
    CASE e.kind = "app" ->
           Body(e.status, e.code, e.details, FALSE, RetryAfter(e.status, x.meta, x.header))
      [] e.kind \in {"http", "middleware"} ->
           Body(e.status, CodeForStatus(e.status), FALSE, FALSE, RetryAfter(e.status, {}, x.header))
      [] OTHER -> Body(500, "INTERNAL_ERROR", FALSE, TRUE, {})

-----------------------------------------------------------------------------
(* Control of a call *)

NoBearer == [kind |-> "none", user |-> 0]
Idle == [pc |-> "idle", route |-> "none", bearer |-> NoBearer, user |-> 0, exception |-> Nothing]

Goto(r, label) == req' = [req EXCEPT ![r].pc = label]

\* The call is answered.
End(r) == req' = [req EXCEPT ![r] = Idle]

Raise(r, name, meta, header) ==
    req' = [req EXCEPT ![r] = [@ EXCEPT !.pc = "failed",
                                        !.exception = [name |-> name, meta |-> meta, header |-> header]]]

Throw(r, name) == Raise(r, name, {}, {})

RouteOf(r) == Routes[req[r].route]

-----------------------------------------------------------------------------
(* Before the handler *)

Boot ==
    /\ server = "down"
    /\ server' = IF ValidateEnv(deployment) THEN "up" ELSE "aborted"
    /\ UNCHANGED <<scenario, now, hits, calls, req, accounts>>

\* A call arrives: body parser, then ThrottlerGuard.  The parser runs as
\* middleware, so what it refuses is not counted.  Retry-After carries the name
\* of every throttler but 'default', so the filter finds only that one's.
Receive(r, route, client, forged) ==
    /\ server = "up" /\ req[r].pc = "idle"
    /\ calls < scenario.calls
    /\ Cardinality({q \in Requests : req[q].pc # "idle"}) < scenario.atOnce
    /\ route = "list" => \A q \in Requests : req[q].route # "list"  \* one page after the other
    /\ calls' = calls + 1
    /\ LET start == [Idle EXCEPT !.pc = "guard", !.route = route]
           failed == [start EXCEPT !.pc = "failed"]
           address == ClientAddress(client, forged)
           refused == RefusedBy(route, address)
       IN  \/ \E name \in FromParser :
                /\ req' = [req EXCEPT ![r] = [failed EXCEPT !.exception.name = name]]
                /\ UNCHANGED hits
           \/ /\ hits' = hits \cup NewHits(route, address, client)
              /\ req' = [req EXCEPT ![r] =
                   IF refused = "none" THEN start
                   ELSE [failed EXCEPT !.exception =
                          [name |-> "throttled", meta |-> {},
                           header |-> IF refused = "default" THEN {1} ELSE {}]]]
    /\ UNCHANGED <<scenario, server, now, accounts>>

\* Tokens clients hold: access tokens that are retired (expired, or from before
\* a cutoff) or not, refresh tokens; none, or one that is not ours.
Bearers ==
    {NoBearer} \cup [kind: {"access", "retired", "refresh"}, user: users \cup gone]

\* verifyAccessToken: the kind of a token is not in it, only the secret tells.
Verifies(bearer) ==
    \/ bearer.kind \in {"access", "retired"}
    \/ bearer.kind = "refresh" /\ ~ deployment.secretsDiffer

\* JwtAuthGuard: an account that exists, and a token from after its cutoff.
Authenticated(bearer) ==
    Verifies(bearer) /\ bearer.kind # "retired" /\ bearer.user \in users

RoleAllows(r, bearer) == RouteOf(r).admin => bearer.user \in Admins

\* ZodValidationPipe: a parameter typed with a DTO may fail its schema.
Transform(r) == RouteOf(r).dto /\ Throw(r, "validationFailed")

\* The guards, the pipe, and the one await among them: the account.
Guard(r) ==
    /\ req[r].pc = "guard"
    /\ \E bearer \in IF RouteOf(r).public THEN {NoBearer} ELSE Bearers :
         \/ /\ ~ RouteOf(r).public /\ ~ Authenticated(bearer)
            /\ req' = [req EXCEPT ![r] = [@ EXCEPT !.pc = "failed", !.bearer = bearer,
                                                   !.exception.name = "unauthenticated"]]
         \/ /\ Authenticated(bearer)
            /\ ~ RoleAllows(r, bearer)
            /\ Throw(r, "forbidden")
         \/ /\ RouteOf(r).public \/ Authenticated(bearer)
            /\ RoleAllows(r, bearer)
            /\ \/ Transform(r)
               \/ req' = [req EXCEPT ![r] = [@ EXCEPT !.pc = "handle", !.bearer = bearer,
                                                      !.user = bearer.user]]
    /\ UNCHANGED <<serving, accounts>>

-----------------------------------------------------------------------------
(* Handlers *)

\* These read the account again; it may have gone since the guard did.
ReadsUser == {"sendVerification", "deleteAccount", "changePassword", "updateMe"}
Vanished(r) == req[r].route \in ReadsUser /\ req[r].user \notin users

HandlerSeesNoUser(r) ==
    /\ req[r].pc = "handle" /\ Vanished(r)
    /\ Throw(r, "unauthenticated")
    /\ UNCHANGED <<serving, accounts>>

\* A service refuses.  The lockout reads the clock once to find the lock and
\* once more for the seconds that are left, which may be none by then.
Refuse(r) ==
    /\ req[r].pc = "handle" /\ ~ Vanished(r)
    /\ \E name \in RouteOf(r).throws :
         CASE name = "accountLocked" -> \E left \in {0, 1} : Raise(r, name, {left}, {})
           [] name = "mailsRateLimited" -> Raise(r, name, {1}, {})
           [] OTHER -> Throw(r, name)
    /\ UNCHANGED <<serving, accounts>>

\* A service does its work, or a handler that has none returns.
Handle(r) ==
    /\ req[r].pc = "handle" /\ ~ Vanished(r)
    /\ req[r].route \notin {"signUp", "deleteAccount", "list"}
    /\ End(r)
    /\ UNCHANGED <<serving, accounts>>

\* The address was free: the new account gets its id and createdAt ...
StampUser(r) ==
    /\ req[r].pc = "handle" /\ req[r].route = "signUp"
    /\ stamped < MaxUsers
    /\ stamped' = stamped + 1
    /\ req' = [req EXCEPT ![r] = [@ EXCEPT !.pc = "insert", !.user = stamped + 1]]
    /\ UNCHANGED <<serving, gone, pagesVars>>

\* ... and its row arrives, unless another sign-up took the address meanwhile.
InsertUser(r) ==
    /\ req[r].pc = "insert"
    /\ \/ Insert(req[r].user) /\ End(r)
       \/ Throw(r, "emailTaken") /\ UNCHANGED pagesVars
    /\ UNCHANGED <<serving, stamped, gone>>

DeleteUser(r) ==
    /\ req[r].pc = "handle" /\ req[r].route = "deleteAccount" /\ ~ Vanished(r)
    /\ Goto(r, "drop")
    /\ UNCHANGED <<serving, accounts>>

DropUser(r) ==
    /\ req[r].pc = "drop"
    /\ Delete(req[r].user)
    /\ gone' = gone \cup {req[r].user}
    /\ End(r)
    /\ UNCHANGED <<serving, stamped>>

ListUsers(r) ==
    /\ req[r].pc = "handle" /\ req[r].route = "list"
    /\ FindPage
    /\ Goto(r, "page")
    /\ UNCHANGED <<serving, stamped, gone>>

ReadPage(r) ==
    /\ req[r].pc = "page"
    /\ \/ (ReadRows \/ CountDocuments) /\ UNCHANGED req
       \/ TakePage /\ End(r)
    /\ UNCHANGED <<serving, stamped, gone>>

\* A database call fails.  getMe and the probes make none.
Break(r) ==
    /\ \/ req[r].pc = "guard" /\ ~ RouteOf(r).public
       \/ /\ req[r].pc \in {"handle", "insert", "drop", "page"}
          /\ req[r].route \notin {"getMe", "getHealth", "getHello"}
    /\ Throw(r, "unexpected")
    /\ IF req[r].pc = "page" THEN DropPage ELSE UNCHANGED pagesVars
    /\ UNCHANGED <<serving, stamped, gone>>

\* AllExceptionsFilter sends Catch(exception).
Answer(r) ==
    /\ req[r].pc = "failed"
    /\ End(r)
    /\ UNCHANGED <<serving, accounts>>

\* Hits expire one by one, a ttl after they were counted.
Tick ==
    /\ server = "up" /\ now < scenario.ticks
    /\ now' = now + 1
    /\ hits' = {h \in hits : now + 1 < h.at + Ttl(h.route, h.throttler)}
    /\ UNCHANGED <<scenario, server, calls, req, accounts>>

-----------------------------------------------------------------------------
Init ==
    /\ scenario \in Scenarios
    /\ server = "down"
    /\ now = 0
    /\ hits = {}
    /\ calls = 0
    /\ req = [r \in Requests |-> Idle]
    /\ stamped = InitialUsers
    /\ gone = {}
    /\ PagesInit(1..InitialUsers)

Call(r) ==
    \E route \in scenario.routes, client \in Clients :
        \E forged \in {<<>>} \cup {<<a>> : a \in Forged \cup Clients} :
            Receive(r, route, client, forged)

Step(r) ==
    \/ Guard(r) \/ HandlerSeesNoUser(r) \/ Refuse(r) \/ Handle(r)
    \/ StampUser(r) \/ InsertUser(r) \/ DeleteUser(r) \/ DropUser(r)
    \/ ListUsers(r) \/ ReadPage(r) \/ Break(r) \/ Answer(r)

Next == Boot \/ Tick \/ \E r \in Requests : Call(r) \/ Step(r)

Spec == Init /\ [][Next]_vars

-----------------------------------------------------------------------------
(* What the pipeline promises *)

\* TRUST_PROXY claims no proxy that is not there, or describes exactly those there are.
ClaimsNoStranger ==
    LET trust == deployment.trust  proxies == deployment.proxies IN
    /\ trust.kind = "count" => trust.n <= Len(proxies)
    /\ trust.kind = "list" => trust.addresses \subseteq {proxies[i] : i \in DOMAIN proxies}

DescribesProxies ==
    LET trust == deployment.trust  proxies == deployment.proxies IN
    CASE trust.kind = "count" -> trust.n = Len(proxies)
      [] trust.kind = "list" -> trust.addresses = {proxies[i] : i \in DOMAIN proxies}
      [] OTHER -> proxies = <<>>

\* "the value cannot be forged by the caller": whatever a client writes into
\* X-Forwarded-For, no window of a handler's limit admits more of its calls than
\* the limit, in every deployment whose setting was accepted at boot.  (As long
\* as the operator does not claim proxies that are not there.)
FloodIsCut ==
    ClaimsNoStranger =>
        \A h \in hits :
            Cardinality({g \in hits : /\ g.passed
                                      /\ g.client = h.client
                                      /\ g.route = h.route
                                      /\ g.throttler = h.throttler})
                <= Limit(h.route, h.throttler)

\* "without this, every client shares one rate-limit bucket": a client is cut
\* off only after it used up a limit itself, behind proxies and next to clients
\* that forge its address, if TRUST_PROXY describes the proxies there are.
CutOffForOwnCalls ==
    DescribesProxies =>
        \A h \in hits : ~ h.passed /\ h.at = now =>
            Cardinality({g \in hits : /\ g.passed
                                      /\ g.client = h.client
                                      /\ g.route = h.route
                                      /\ g.throttler = h.throttler})
                = Limit(h.route, h.throttler)

\* "default-closed": a handler that is given the caller, or is reserved for
\* admins, is reached with an access token of an account the guard found, and
\* never with a refresh token, though nothing in a token tells its kind.
ClosedByDefault ==
    \A r \in Requests :
        /\ req[r].pc \in {"handle", "insert", "drop", "page"}
        /\ RouteOf(r).wantsUser \/ RouteOf(r).admin
        => /\ req[r].bearer = [kind |-> "access", user |-> req[r].user]
           /\ req[r].user \in users \cup gone
           /\ RouteOf(r).admin => req[r].user \in Admins

\* "a 401 would make clients treat the access token as dead and force a logout":
\* a route that demands a token answers 401 only if that token is no good any
\* more, for every reason a handler, a service or a guard has to refuse.
DeadTokenMeansDead ==
    \A r \in Requests :
        req[r].pc = "failed" /\ ~ RouteOf(r).public /\ Catch(req[r].exception).status = 401
            => ~ Authenticated(req[r].bearer)

\* The status a code stands for.
Statuses(code) ==
    {Exceptions[x].status : x \in {n \in DOMAIN Exceptions : Exceptions[n].code = code}} \cup
    {s \in DOMAIN CodeByStatus : CodeByStatus[s] = code} \cup
    (IF code = "INTERNAL_ERROR" THEN {500} ELSE {})

\* "Stable, machine-readable error codes - the contract clients branch on": every
\* answer has a code that stands for one status, its own; a generic message
\* exactly if the server is at fault; the field at fault if one of the input is;
\* and with 429 the seconds to wait, none left in the worst case.
\* (Not so for a status of the body parser that has no code, which is answered
\* as INTERNAL_ERROR; nor for the burst throttler, whose header has a suffix.)
AnswerFits ==
    \A r \in Requests : req[r].pc = "failed" =>
        LET x == req[r].exception  body == Catch(x) IN
        /\ x.name = "unsupportedBody" \/ Statuses(body.code) = {body.status}
        /\ body.generic <=> body.status >= 500
        /\ x.name \in {"validationFailed", "emailTaken", "wrongCurrentPassword",
                       "breachedPassword", "invalidVerificationToken", "invalidResetToken"}
             => body.details
        /\ body.status = 429 /\ ~ (x.name = "throttled" /\ x.header = {})
             => body.retryAfter # {}

\* Error statuses that do happen though no decorator of the route names them:
\* what the body parser refuses on routes that do not expect it, a limit or
\* offset of GET /users that is out of range, and the burst limit on the probe,
\* though it "must never be rate limited".
Undocumented(r) ==
    \/ req[r].exception.name = "unsupportedBody"
    \/ req[r].exception.name \in FromParser /\ (RouteOf(r).profile # "auth" \/ ~ RouteOf(r).dto)
    \/ req[r].route = "list" /\ req[r].exception.name = "validationFailed"
    \/ /\ req[r].route = "getHealth"
       /\ req[r].exception.name = "throttled" /\ req[r].exception.header = {}

\* The errors a client is told to expect (the Api...Response decorators) are
\* the ones it meets, 500 apart, whatever throws them and whenever; the limit
\* of a longer window, among others, refuses no probe.
DocumentedAnswers ==
    \A r \in Requests : req[r].pc = "failed" =>
        Catch(req[r].exception).status \in RouteOf(r).documented \cup {500} \/ Undocumented(r)
=============================================================================
