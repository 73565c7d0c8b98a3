--------------------------- MODULE HttpApi_proofs ---------------------------
(***************************************************************************)
(* Proofs about HttpApi for every number of calls, clients, accounts and   *)
(* addresses, every deployment and every setting of the throttlers.        *)
(***************************************************************************)
EXTENDS HttpApi, FiniteSetTheorems, SequenceTheorems, TLAPS

-----------------------------------------------------------------------------
(* What the tables say of every route and every exception *)

LEMMA RouteNames ==
  /\ DOMAIN SessionRoutes = {"signUp", "signIn", "refresh", "logout"}
  /\ DOMAIN MailRoutes = {"sendVerification", "verifyEmail", "resendVerification",
                          "forgotPassword", "resetPassword"}
  /\ DOMAIN AccountRoutes = {"deleteAccount", "changePassword", "listSessions", "revokeSession"}
  /\ DOMAIN UserRoutes = {"list", "getMe", "updateMe"}
  /\ DOMAIN HealthRoutes = {"getHealth"}
  /\ DOMAIN AppRoutes = {"getHello"}
  BY DEF SessionRoutes, MailRoutes, AccountRoutes, UserRoutes, HealthRoutes, AppRoutes

LEMMA RouteTable ==
  /\ \A x \in DOMAIN SessionRoutes : Routes[x] = SessionRoutes[x]
  /\ \A x \in DOMAIN MailRoutes : Routes[x] = MailRoutes[x]
  /\ \A x \in DOMAIN AccountRoutes : Routes[x] = AccountRoutes[x]
  /\ \A x \in DOMAIN UserRoutes : Routes[x] = UserRoutes[x]
  /\ \A x \in DOMAIN HealthRoutes : Routes[x] = HealthRoutes[x]
  /\ \A x \in DOMAIN AppRoutes : Routes[x] = AppRoutes[x]
  /\ DOMAIN Routes = DOMAIN SessionRoutes \cup DOMAIN MailRoutes \cup DOMAIN AccountRoutes
                       \cup DOMAIN UserRoutes \cup DOMAIN HealthRoutes \cup DOMAIN AppRoutes
  BY RouteNames DEF Routes

\* What a service throws, with its status.
ServiceError(name, status) ==
    /\ name \in DOMAIN Exceptions
    /\ Exceptions[name].kind = "app" /\ Exceptions[name].status = status

LEMMA ServiceErrors ==
  /\ ServiceError("emailTaken", 409) /\ ServiceError("breachedPassword", 400)
  /\ ServiceError("invalidCredentials", 401) /\ ServiceError("invalidRefreshToken", 401)
  /\ ServiceError("accountLocked", 429) /\ ServiceError("wrongCurrentPassword", 400)
  /\ ServiceError("sessionNotFound", 404) /\ ServiceError("emailAlreadyVerified", 400)
  /\ ServiceError("mailsRateLimited", 429) /\ ServiceError("invalidVerificationToken", 400)
  /\ ServiceError("invalidResetToken", 400)
  /\ ServiceError("unauthenticated", 401) /\ ServiceError("forbidden", 403)
  /\ ServiceError("validationFailed", 400)
  BY DEF ServiceError, Exceptions, App, Other, WrongCurrentPassword

\* The error statuses of a service are documented; none is 401 on a route that
\* demands a token; and what guards, pipe and throttler add is documented, too.
Consistent(x, route) ==
    /\ \A name \in route.throws :
          /\ name \in DOMAIN Exceptions /\ Exceptions[name].kind = "app"
          /\ Exceptions[name].status \in route.documented
          /\ ~ route.public => Exceptions[name].status # 401
          /\ name # "unauthenticated"
    /\ route.wantsUser \/ route.admin \/ x \in ReadsUser => ~ route.public
    /\ x = "signUp" => route.public
    /\ ~ route.public => 401 \in route.documented
    /\ route.admin => 403 \in route.documented
    /\ route.dto /\ x # "list" => 400 \in route.documented
    /\ x = "signUp" => 409 \in route.documented
    /\ route.profile = "auth" => 413 \in route.documented
    /\ route.profile = "skip" => x = "getHealth"
    /\ route.profile # "skip" => 429 \in route.documented

LEMMA RoutesAreConsistent ==
  ASSUME NEW x \in DOMAIN Routes
  PROVE  Consistent(x, Routes[x])
  <1> USE ServiceErrors DEF ServiceError, Consistent, ReadsUser, Route, AuthPublic, AuthUser
  <1>1. CASE x \in DOMAIN SessionRoutes
    BY <1>1, RouteNames, RouteTable DEF SessionRoutes
  <1>2. CASE x \in DOMAIN MailRoutes
    BY <1>2, RouteNames, RouteTable DEF MailRoutes
  <1>3. CASE x \in DOMAIN AccountRoutes
    BY <1>3, RouteNames, RouteTable DEF AccountRoutes
  <1>4. CASE x \in DOMAIN UserRoutes \cup DOMAIN HealthRoutes \cup DOMAIN AppRoutes
    BY <1>4, RouteNames, RouteTable DEF UserRoutes, HealthRoutes, AppRoutes
  <1> QED BY <1>1, <1>2, <1>3, <1>4, RouteTable

-----------------------------------------------------------------------------
(* The control of a call *)

Labels == {"idle", "guard", "handle", "insert", "drop", "page", "failed"}
Kinds == {"none", "access", "retired", "refresh"}

CallRecord ==
    [pc: Labels, route: DOMAIN Routes \cup {"none"}, bearer: [kind: Kinds, user: Nat],
     user: Nat, exception: Thrown]

\* A token that is no good and never will be.
Dead(bearer) == ~ Verifies(bearer) \/ bearer.kind = "retired" \/ bearer.user \in gone

\* What is known of the exception a call failed with.
FailureOK(c) ==
    LET x == c.exception IN
    /\ Exceptions[x.name].status = 401 /\ ~ Routes[c.route].public => Dead(c.bearer)
    /\ \/ Exceptions[x.name].status \in Routes[c.route].documented
       \/ Exceptions[x.name].kind = "unknown"
       \/ x.name = "unsupportedBody"
       \/ x.name \in FromParser /\ (Routes[c.route].profile # "auth" \/ ~ Routes[c.route].dto)
       \/ c.route = "list" /\ x.name = "validationFailed"
       \/ c.route = "getHealth" /\ x.name = "throttled" /\ x.header = {}
    /\ x.name \in {"accountLocked", "mailsRateLimited"} => x.meta # {}
    /\ x.name = "throttled" => x.header \in {{}, {1}}

\* Whom a call may act for once the guards let it pass.
CallerOK(c) ==
    ~ Routes[c.route].public =>
        /\ c.bearer.kind = "access" /\ c.bearer.user = c.user
        /\ c.user \in users \cup gone
        /\ Routes[c.route].admin => c.user \in Admins

CallOK(c) ==
    /\ c.pc # "idle" => server = "up" /\ c.route \in DOMAIN Routes
    /\ c.pc = "insert" => c.route = "signUp" /\ c.user \in (1..stamped) \ (users \cup gone)
    /\ c.pc = "drop" => c.route = "deleteAccount"
    /\ c.pc = "page" => c.route = "list"
    /\ c.pc \in {"handle", "drop", "page"} => CallerOK(c)
    /\ c.pc = "failed" => FailureOK(c)

StoreInv ==
    /\ scenario \in Scenarios
    /\ server \in {"down", "up", "aborted"}
    /\ server = "up" => ValidateEnv(deployment)
    /\ stamped \in Nat
    /\ users \cup gone \subseteq 1..stamped
    /\ users \cap gone = {}

ControlInv ==
    /\ StoreInv
    /\ req \in [Requests -> CallRecord]
    /\ \A r \in Requests : CallOK(req[r])
    /\ \A r, q \in Requests :
         req[r].pc = "insert" /\ req[q].pc = "insert" /\ req[r].user = req[q].user => r = q

LEMMA OtherErrors ==
  /\ {"throttled", "unexpected"} \cup FromParser \subseteq DOMAIN Exceptions
  /\ Exceptions["throttled"].status = 429 /\ Exceptions["unexpected"].kind = "unknown"
  /\ Exceptions["malformedBody"].status = 400 /\ Exceptions["bodyTooLarge"].status = 413
  /\ Exceptions["unsupportedBody"].status = 415 /\ Exceptions["unexpected"].status = 500
  BY DEF Exceptions, Other, FromParser

LEMMA IdleIsACall == Idle \in CallRecord /\ Idle.pc = "idle"
  BY OtherErrors DEF Idle, CallRecord, Labels, Kinds, NoBearer, Nothing, Thrown

\* What other calls may do while a call waits: accounts come, and go for good.
Onward ==
    /\ UNCHANGED <<scenario, server>>
    /\ stamped \in Nat /\ stamped' \in Nat /\ stamped <= stamped'
    /\ gone \subseteq gone' /\ users \cup gone \subseteq users' \cup gone'

LEMMA WaitingStaysOK ==
  ASSUME NEW q, CallOK(req[q]), req'[q] = req[q], Onward,
         req[q].pc = "insert" => req[q].user \notin users' \cup gone'
  PROVE  CallOK(req[q])'
  <1>1. Verifies(req[q].bearer)' <=> Verifies(req[q].bearer)
    BY DEF Verifies, deployment, Onward
  <1>2. FailureOK(req[q]) => FailureOK(req[q])'
    BY <1>1 DEF FailureOK, Dead, Onward
  <1>3. CallerOK(req[q]) => CallerOK(req[q])'
    BY DEF CallerOK, Onward
  <1>4. stamped' \in Nat /\ 1..stamped \subseteq 1..stamped'
    BY DEF Onward
  <1> QED BY <1>2, <1>3, <1>4 DEF CallOK, Onward

LEMMA MovedIsOK ==
  ASSUME NEW r, NEW v, CallOK(v)', req'[r] = v
  PROVE  CallOK(req[r])'
  BY DEF CallOK, FailureOK, CallerOK, Dead, Verifies, deployment

LEMMA SameCall ==
  ASSUME NEW v, CallOK(v), UNCHANGED <<scenario, server, stamped, users, gone>>
  PROVE  CallOK(v)'
  BY DEF CallOK, FailureOK, CallerOK, Dead, Verifies, deployment

LEMMA Move ==
  ASSUME ControlInv, StoreInv', Onward,
         NEW r \in Requests, NEW v \in CallRecord, req' = [req EXCEPT ![r] = v], CallOK(v)',
         \A q \in Requests \ {r} : req[q].pc = "insert" =>
            /\ req[q].user \notin users' \cup gone'
            /\ v.pc = "insert" => req[q].user # v.user
  PROVE  ControlInv'
  <1>1. req'[r] = v /\ \A q \in Requests \ {r} : req'[q] = req[q]
    BY DEF ControlInv
  <1>2. ASSUME NEW q \in Requests PROVE CallOK(req[q])'
    BY <1>1, WaitingStaysOK, MovedIsOK DEF ControlInv
  <1>3. ASSUME NEW p \in Requests, NEW q \in Requests, req'[p].pc = "insert", req'[q].pc = "insert",
               req'[p].user = req'[q].user
        PROVE  p = q
    BY <1>1, <1>3 DEF ControlInv
  <1>4. req' \in [Requests -> CallRecord]
    BY DEF ControlInv
  <1> QED BY <1>2, <1>3, <1>4 DEF ControlInv

\* A step of one call that leaves the accounts alone.
LEMMA QuietMove ==
  ASSUME ControlInv, NEW r \in Requests, NEW v \in CallRecord, req' = [req EXCEPT ![r] = v],
         CallOK(v), v.pc # "insert", UNCHANGED <<scenario, server, stamped, users, gone>>
  PROVE  ControlInv'
  <1>1. StoreInv' /\ Onward
    BY DEF ControlInv, StoreInv, Onward, deployment, ValidateEnv
  <1>2. \A q \in Requests : req[q].pc = "insert" => req[q].user \notin users' \cup gone'
    BY DEF ControlInv, CallOK
  <1> QED BY <1>1, <1>2, SameCall, Move

\* No call moves.
LEMMA QuietRest ==
  ASSUME ControlInv, UNCHANGED <<req, scenario, server, stamped, users, gone>>
  PROVE  ControlInv'
  <1>1. StoreInv' /\ Onward
    BY DEF ControlInv, StoreInv, Onward, deployment, ValidateEnv
  <1>2. \A q \in Requests : req[q].pc = "insert" => req[q].user \notin users' \cup gone'
    BY DEF ControlInv, CallOK
  <1>3. \A q \in Requests : CallOK(req[q])'
    BY <1>1, <1>2, WaitingStaysOK DEF ControlInv
  <1> QED BY <1>1, <1>3 DEF ControlInv

\* A call fails with an exception that fits its route.
LEMMA RaiseKeepsControl ==
  ASSUME ControlInv, NEW r \in Requests, NEW name \in DOMAIN Exceptions,
         NEW meta \in SUBSET {0, 1}, NEW header \in SUBSET {0, 1},
         Raise(r, name, meta, header), req[r].pc # "idle",
         Exceptions[name].status = 401 /\ ~ RouteOf(r).public => Dead(req[r].bearer),
         \/ Exceptions[name].status \in RouteOf(r).documented
         \/ Exceptions[name].kind = "unknown"
         \/ req[r].route = "list" /\ name = "validationFailed",
         name \in {"accountLocked", "mailsRateLimited"} => meta # {},
         name = "throttled" => header \in {{}, {1}},
         UNCHANGED <<scenario, server, stamped, users, gone>>
  PROVE  ControlInv'
  <1> DEFINE x == [name |-> name, meta |-> meta, header |-> header]
             v == [req[r] EXCEPT !.pc = "failed", !.exception = x]
  <1>1. req[r] \in CallRecord /\ CallOK(req[r])
    BY DEF ControlInv
  <1>2. x \in Thrown /\ x.name = name /\ x.meta = meta /\ x.header = header
    BY DEF Thrown
  <1> HIDE DEF x
  <1>3. /\ v \in CallRecord /\ v.pc = "failed" /\ v.exception = x
        /\ v.route = req[r].route /\ v.bearer = req[r].bearer
    BY <1>1, <1>2 DEF CallRecord, Labels
  <1>4. req' = [req EXCEPT ![r] = v]
    BY DEF Raise, x
  <1> HIDE DEF v
  <1>5. FailureOK(v)
    BY <1>2, <1>3 DEF FailureOK, RouteOf
  <1>6. CallOK(v)
    BY <1>1, <1>3, <1>5 DEF CallOK
  <1> QED BY <1>3, <1>4, <1>6, QuietMove

\* One that a guard, the pipe or a service throws without more.
LEMMA ThrowKeepsControl ==
  ASSUME ControlInv, NEW r \in Requests, NEW name \in DOMAIN Exceptions,
         Throw(r, name), req[r].pc # "idle",
         Exceptions[name].status = 401 /\ ~ RouteOf(r).public => Dead(req[r].bearer),
         \/ Exceptions[name].status \in RouteOf(r).documented
         \/ Exceptions[name].kind = "unknown"
         \/ req[r].route = "list" /\ name = "validationFailed",
         name \notin {"accountLocked", "mailsRateLimited"},
         UNCHANGED <<scenario, server, stamped, users, gone>>
  PROVE  ControlInv'
  <1>1. {} \in SUBSET {0, 1} /\ Raise(r, name, {}, {})
    BY DEF Throw
  <1> QED BY <1>1, RaiseKeepsControl

LEMMA GotoKeepsControl ==
  ASSUME ControlInv, NEW r \in Requests, NEW l \in Labels, Goto(r, l),
         req[r].pc = "handle",
         \/ l = "drop" /\ req[r].route = "deleteAccount"
         \/ l = "page" /\ req[r].route = "list",
         UNCHANGED <<scenario, server, stamped, users, gone>>
  PROVE  ControlInv'
  <1> DEFINE v == [req[r] EXCEPT !.pc = l]
  <1>1. req[r] \in CallRecord /\ CallOK(req[r])
    BY DEF ControlInv
  <1>2. /\ v \in CallRecord /\ v.pc = l /\ v.route = req[r].route
        /\ v.bearer = req[r].bearer /\ v.user = req[r].user
    BY <1>1 DEF CallRecord, Labels
  <1>3. req' = [req EXCEPT ![r] = v]
    BY DEF Goto
  <1> HIDE DEF v
  <1>4. CallerOK(v)
    BY <1>1, <1>2 DEF CallOK, CallerOK
  <1>5. CallOK(v)
    BY <1>1, <1>2, <1>4 DEF CallOK
  <1> QED BY <1>2, <1>3, <1>5, QuietMove

LEMMA EndKeepsControl ==
  ASSUME ControlInv, NEW r \in Requests, End(r),
         UNCHANGED <<scenario, server, stamped, users, gone>>
  PROVE  ControlInv'
  <1>1. CallOK(Idle)
    BY IdleIsACall DEF CallOK
  <1> QED BY <1>1, IdleIsACall, QuietMove DEF End

LEMMA BootKeepsControl ==
  ASSUME ControlInv, Boot
  PROVE  ControlInv'
  <1>1. \A r \in Requests : req[r].pc = "idle"
    BY DEF ControlInv, CallOK, Boot
  <1>2. \A r \in Requests : CallOK(req[r])'
    BY <1>1 DEF CallOK, Boot
  <1>3. StoreInv'
    BY DEF ControlInv, StoreInv, Boot, accounts, pagesVars, ValidateEnv, deployment
  <1> QED BY <1>1, <1>2, <1>3 DEF ControlInv, Boot

\* What a new call starts as, and what it is if parser or throttler refuse it.
Start(route) == [Idle EXCEPT !.pc = "guard", !.route = route]

LEMMA StartIs ==
  ASSUME NEW route \in DOMAIN Routes
  PROVE  /\ Start(route) \in CallRecord /\ Start(route).pc = "guard"
         /\ Start(route).route = route /\ Start(route).bearer = NoBearer
         /\ Start(route).exception \in Thrown /\ Start(route).exception.meta = {}
  <1>1. Idle \in CallRecord /\ Idle.bearer = NoBearer /\ Idle.exception.meta = {}
    BY IdleIsACall DEF Idle, Nothing
  <1> QED BY <1>1 DEF Start, CallRecord, Labels

LEMMA RefusedAtTheDoor ==
  ASSUME ControlInv, server = "up", NEW r \in Requests, NEW route \in DOMAIN Routes,
         NEW x \in Thrown,
         req' = [req EXCEPT ![r] = [[Start(route) EXCEPT !.pc = "failed"] EXCEPT !.exception = x]],
         \/ x.name \in FromParser
         \/ /\ x.name = "throttled" /\ x.header \in {{}, {1}}
            /\ Routes[route].profile = "skip" => x.header = {},
         UNCHANGED <<scenario, server, stamped, users, gone>>
  PROVE  ControlInv'
  <1> DEFINE v == [[Start(route) EXCEPT !.pc = "failed"] EXCEPT !.exception = x]
  <1>1. /\ v \in CallRecord /\ v.pc = "failed" /\ v.exception = x
        /\ v.route = route /\ v.bearer = NoBearer
    BY StartIs DEF CallRecord, Labels
  <1>2. req' = [req EXCEPT ![r] = v]
    OBVIOUS
  <1> HIDE DEF v
  <1>3. Consistent(route, Routes[route]) /\ Routes["list"].profile = "global"
    BY RoutesAreConsistent, RouteNames, RouteTable DEF UserRoutes, Route
  <1>4. \/ Exceptions[x.name].status \in Routes[route].documented
        \/ x.name = "unsupportedBody"
        \/ x.name \in FromParser /\ (Routes[route].profile # "auth" \/ ~ Routes[route].dto)
        \/ route = "getHealth" /\ x.name = "throttled" /\ x.header = {}
    BY <1>3, OtherErrors DEF Consistent, FromParser
  <1>5. Dead(NoBearer)
    BY DEF Dead, Verifies, NoBearer
  <1>6. FailureOK(v)
    BY <1>1, <1>4, <1>5 DEF FailureOK, FromParser
  <1>7. CallOK(v)
    BY <1>1, <1>6 DEF CallOK
  <1> QED BY <1>1, <1>2, <1>7, QuietMove

LEMMA ReceiveKeepsControl ==
  ASSUME ControlInv, NEW r \in Requests, NEW route \in DOMAIN Routes, NEW client, NEW forged,
         Receive(r, route, client, forged)
  PROVE  ControlInv'
  <1>0. UNCHANGED <<scenario, server, stamped, users, gone>> /\ server = "up"
    BY DEF Receive, accounts, pagesVars
  <1>1. CASE req' = [req EXCEPT ![r] = Start(route)]
    <2>1. CallOK(Start(route))
      BY <1>0, StartIs DEF CallOK
    <2> QED BY <1>0, <1>1, <2>1, StartIs, QuietMove
  <1>2. ASSUME NEW name \in FromParser,
               req' = [req EXCEPT ![r] = [[Start(route) EXCEPT !.pc = "failed"]
                                            EXCEPT !.exception.name = name]]
        PROVE  ControlInv'
    <2> DEFINE x == [Start(route).exception EXCEPT !.name = name]
    <2>1. x \in Thrown /\ x.name = name
      BY OtherErrors, StartIs DEF Thrown
    <2>2. req' = [req EXCEPT ![r] = [[Start(route) EXCEPT !.pc = "failed"] EXCEPT !.exception = x]]
      BY <1>2, StartIs DEF CallRecord
    <2> HIDE DEF x
    <2> QED BY <1>0, <2>1, <2>2, RefusedAtTheDoor
  <1>3. ASSUME NEW header \in {{}, {1}}, Routes[route].profile = "skip" => header = {},
               req' = [req EXCEPT ![r] =
                 [[Start(route) EXCEPT !.pc = "failed"]
                   EXCEPT !.exception = [name |-> "throttled", meta |-> {}, header |-> header]]]
        PROVE  ControlInv'
    <2> DEFINE x == [name |-> "throttled", meta |-> {}, header |-> header]
    <2>1. x \in Thrown /\ x.name = "throttled" /\ x.header = header
      BY OtherErrors DEF Thrown
    <2> HIDE DEF x
    <2>2. req' = [req EXCEPT ![r] = [[Start(route) EXCEPT !.pc = "failed"] EXCEPT !.exception = x]]
      BY <1>3 DEF x
    <2>3. /\ x.name = "throttled" /\ x.header \in {{}, {1}}
          /\ Routes[route].profile = "skip" => x.header = {}
      BY <1>3, <2>1
    <2> QED BY <1>0, <2>1, <2>2, <2>3, RefusedAtTheDoor
  <1>4. Routes[route].profile = "skip" => RefusedBy(route, ClientAddress(client, forged)) # "default"
    BY DEF RefusedBy, Refuses, Skips
  <1> DEFINE refused == RefusedBy(route, ClientAddress(client, forged))
             header == IF refused = "default" THEN {1} ELSE {}
  <1>5. \/ \E name \in FromParser :
              req' = [req EXCEPT ![r] = [[Start(route) EXCEPT !.pc = "failed"]
                                            EXCEPT !.exception.name = name]]
        \/ req' = [req EXCEPT ![r] =
             IF refused = "none" THEN Start(route)
             ELSE [[Start(route) EXCEPT !.pc = "failed"]
                   EXCEPT !.exception = [name |-> "throttled", meta |-> {}, header |-> header]]]
    BY DEF Receive, Start
  <1>6. header \in {{}, {1}} /\ (Routes[route].profile = "skip" => header = {})
    BY <1>4
  <1> HIDE DEF refused, header
  <1>7. CASE \E name \in FromParser :
              req' = [req EXCEPT ![r] = [[Start(route) EXCEPT !.pc = "failed"]
                                            EXCEPT !.exception.name = name]]
    BY <1>2, <1>7
  <1>8. CASE refused = "none" /\ req' = [req EXCEPT ![r] = Start(route)]
    BY <1>1, <1>8
  <1>9. CASE refused # "none" /\ req' = [req EXCEPT ![r] =
             [[Start(route) EXCEPT !.pc = "failed"]
                   EXCEPT !.exception = [name |-> "throttled", meta |-> {}, header |-> header]]]
    BY <1>3, <1>6, <1>9
  <1> QED BY <1>5, <1>7, <1>8, <1>9

LEMMA GuardKeepsControl ==
  ASSUME ControlInv, NEW r \in Requests, Guard(r)
  PROVE  ControlInv'
  <1>0. /\ UNCHANGED <<scenario, server, stamped, users, gone>>
        /\ req[r].pc = "guard" /\ req[r] \in CallRecord
        /\ server = "up" /\ req[r].route \in DOMAIN Routes
        /\ StoreInv
    BY DEF Guard, serving, accounts, pagesVars, ControlInv, CallOK
  <1>1. Consistent(req[r].route, RouteOf(r))
    BY <1>0, RoutesAreConsistent DEF RouteOf
  <1>2. PICK bearer \in IF RouteOf(r).public THEN {NoBearer} ELSE Bearers :
         \/ /\ ~ RouteOf(r).public /\ ~ Authenticated(bearer)
            /\ req' = [req EXCEPT ![r] = [@ EXCEPT !.pc = "failed", !.bearer = bearer,
                                                   !.exception.name = "unauthenticated"]]
         \/ /\ Authenticated(bearer)
            /\ ~ RoleAllows(r, bearer)
            /\ Throw(r, "forbidden")
         \/ /\ RouteOf(r).public \/ Authenticated(bearer)
            /\ RoleAllows(r, bearer)
            /\ \/ Transform(r)
               \/ req' = [req EXCEPT ![r] = [@ EXCEPT !.pc = "handle", !.bearer = bearer,
                                                      !.user = bearer.user]]
    BY DEF Guard
  <1>3. /\ bearer \in [kind: Kinds, user: Nat]
        /\ bearer = NoBearer \/ (bearer.kind # "none" /\ bearer.user \in users \cup gone)
    <2>1. users \cup gone \subseteq Nat
      BY <1>0 DEF StoreInv
    <2> QED BY <1>2, <2>1 DEF Bearers, NoBearer, Kinds
  <1>4. CASE /\ ~ RouteOf(r).public /\ ~ Authenticated(bearer)
             /\ req' = [req EXCEPT ![r] = [@ EXCEPT !.pc = "failed", !.bearer = bearer,
                                                    !.exception.name = "unauthenticated"]]
    <2> DEFINE x == [req[r].exception EXCEPT !.name = "unauthenticated"]
               v == [req[r] EXCEPT !.pc = "failed", !.bearer = bearer, !.exception = x]
    <2>1. x \in Thrown /\ x.name = "unauthenticated"
      BY <1>0, ServiceErrors DEF Thrown, CallRecord, ServiceError
    <2>2. req' = [req EXCEPT ![r] = v]
      BY <1>0, <1>4 DEF CallRecord
    <2> HIDE DEF x
    <2>3. /\ v \in CallRecord /\ v.pc = "failed" /\ v.bearer = bearer /\ v.exception = x
          /\ v.route = req[r].route
      BY <1>0, <1>3, <2>1 DEF CallRecord, Labels
    <2> HIDE DEF v
    <2>4. Dead(bearer)
      BY <1>3, <1>4 DEF Dead, Authenticated, Verifies, NoBearer
    <2>5. FailureOK(v)
      BY <1>1, <1>4, <2>1, <2>3, <2>4, ServiceErrors
      DEF FailureOK, RouteOf, ServiceError, Consistent
    <2>6. CallOK(v)
      BY <1>0, <2>3, <2>5 DEF CallOK
    <2> QED BY <1>0, <2>2, <2>3, <2>6, QuietMove
  <1>5. CASE Authenticated(bearer) /\ ~ RoleAllows(r, bearer) /\ Throw(r, "forbidden")
    <2>1. 403 \in RouteOf(r).documented
      BY <1>1, <1>5 DEF RoleAllows, Consistent
    <2> QED BY <1>0, <1>5, <2>1, ServiceErrors, ThrowKeepsControl DEF ServiceError
  <1>6. CASE Transform(r)
    <2>1. 400 \in RouteOf(r).documented \/ req[r].route = "list"
      BY <1>1, <1>6 DEF Transform, Consistent
    <2> QED BY <1>0, <1>6, <2>1, ServiceErrors, ThrowKeepsControl DEF ServiceError, Transform
  <1>7. CASE /\ RouteOf(r).public \/ Authenticated(bearer)
             /\ RoleAllows(r, bearer)
             /\ req' = [req EXCEPT ![r] = [@ EXCEPT !.pc = "handle", !.bearer = bearer,
                                                    !.user = bearer.user]]
    <2> DEFINE v == [req[r] EXCEPT !.pc = "handle", !.bearer = bearer, !.user = bearer.user]
    <2>1. req' = [req EXCEPT ![r] = v]
      BY <1>7
    <2>2. /\ v \in CallRecord /\ v.pc = "handle" /\ v.bearer = bearer /\ v.user = bearer.user
          /\ v.route = req[r].route
      BY <1>0, <1>3 DEF CallRecord, Labels
    <2> HIDE DEF v
    <2>3. deployment.secretsDiffer
      BY <1>0 DEF StoreInv, ValidateEnv
    <2>4. CallerOK(v)
      BY <1>3, <1>7, <2>2, <2>3 DEF CallerOK, RouteOf, RoleAllows, Authenticated, Verifies
    <2>5. CallOK(v)
      BY <1>0, <2>2, <2>4 DEF CallOK
    <2> QED BY <1>0, <2>1, <2>2, <2>5, QuietMove
  <1> QED BY <1>2, <1>4, <1>5, <1>6, <1>7

LEMMA HandlingFacts ==
  ASSUME ControlInv, NEW r \in Requests, req[r].pc # "idle"
  PROVE  /\ req[r] \in CallRecord /\ CallOK(req[r]) /\ server = "up"
         /\ req[r].route \in DOMAIN Routes /\ Consistent(req[r].route, RouteOf(r))
         /\ req[r].pc \in {"handle", "drop", "page"} => CallerOK(req[r])
  BY RoutesAreConsistent DEF ControlInv, CallOK, RouteOf

LEMMA VanishedKeepsControl ==
  ASSUME ControlInv, NEW r \in Requests, HandlerSeesNoUser(r)
  PROVE  ControlInv'
  <1>1. /\ req[r].pc = "handle" /\ req[r].route \in ReadsUser /\ req[r].user \notin users
        /\ Throw(r, "unauthenticated")
        /\ UNCHANGED <<scenario, server, stamped, users, gone>>
    BY DEF HandlerSeesNoUser, Vanished, serving, accounts, pagesVars
  <1>2. ~ RouteOf(r).public /\ 401 \in RouteOf(r).documented /\ CallerOK(req[r])
    BY <1>1, HandlingFacts DEF Consistent
  <1>3. Dead(req[r].bearer)
    BY <1>1, <1>2 DEF CallerOK, RouteOf, Dead
  <1> QED BY <1>1, <1>2, <1>3, ServiceErrors, ThrowKeepsControl DEF ServiceError

LEMMA RefuseKeepsControl ==
  ASSUME ControlInv, NEW r \in Requests, Refuse(r)
  PROVE  ControlInv'
  <1>1. /\ req[r].pc = "handle"
        /\ UNCHANGED <<scenario, server, stamped, users, gone>>
    BY DEF Refuse, serving, accounts, pagesVars
  <1>2. PICK name \in RouteOf(r).throws :
          \/ name = "accountLocked" /\ \E left \in {0, 1} : Raise(r, name, {left}, {})
          \/ name = "mailsRateLimited" /\ Raise(r, name, {1}, {})
          \/ name \notin {"accountLocked", "mailsRateLimited"} /\ Throw(r, name)
    BY DEF Refuse
  <1>3. /\ name \in DOMAIN Exceptions
        /\ Exceptions[name].status \in RouteOf(r).documented
        /\ ~ RouteOf(r).public => Exceptions[name].status # 401
    BY <1>1, <1>2, HandlingFacts DEF Consistent
  <1>4. {} \in SUBSET {0, 1} /\ {} \in {{}, {1}} /\ \A left \in {0, 1} : {left} \in SUBSET {0, 1}
    OBVIOUS
  <1>5. ASSUME NEW left \in {0, 1}, Raise(r, name, {left}, {}) PROVE ControlInv'
    BY <1>1, <1>3, <1>4, <1>5, RaiseKeepsControl
  <1>6. CASE name \notin {"accountLocked", "mailsRateLimited"} /\ Throw(r, name)
    BY <1>1, <1>3, <1>6, ThrowKeepsControl
  <1> QED BY <1>2, <1>5, <1>6

LEMMA StampKeepsControl ==
  ASSUME ControlInv, NEW r \in Requests, StampUser(r)
  PROVE  ControlInv'
  <1>n. PICK n : n = stamped + 1
    OBVIOUS
  <1>v. PICK v : v = [req[r] EXCEPT !.pc = "insert", !.user = n]
    OBVIOUS
  <1>0. /\ req[r].pc = "handle" /\ req[r].route = "signUp"
        /\ stamped' = n /\ UNCHANGED <<scenario, server, users, gone>>
        /\ req' = [req EXCEPT ![r] = v]
    BY <1>n, <1>v DEF StampUser, serving, pagesVars
  <1>1. /\ stamped \in Nat /\ users \cup gone \subseteq 1..stamped /\ server = "up"
        /\ req[r] \in CallRecord /\ n \in Nat /\ n \in 1..n /\ n \notin 1..stamped
    BY <1>n, <1>0, HandlingFacts DEF ControlInv, StoreInv
  <1>2. /\ v \in CallRecord /\ v.pc = "insert" /\ v.user = n /\ v.route = "signUp"
    BY <1>v, <1>0, <1>1 DEF CallRecord, Labels
  <1>3. "signUp" \in DOMAIN Routes
    BY <1>0, HandlingFacts
  <1>4. CallOK(v)'
    BY <1>0, <1>1, <1>2, <1>3 DEF CallOK
  <1>5. StoreInv' /\ Onward
    BY <1>n, <1>0, <1>1 DEF ControlInv, StoreInv, Onward, ValidateEnv, deployment
  <1>6. ASSUME NEW q \in Requests, req[q].pc = "insert"
        PROVE  req[q].user \notin users' \cup gone' /\ req[q].user # v.user
    BY <1>0, <1>1, <1>2, <1>6 DEF ControlInv, CallOK
  <1> QED BY <1>0, <1>2, <1>4, <1>5, <1>6, Move

\* The place in the sort order that a sign-up was given is nobody else's.
LEMMA InsertKeepsControl ==
  ASSUME ControlInv, NEW r \in Requests, InsertUser(r)
  PROVE  ControlInv'
  <1>0. req[r].pc = "insert" /\ UNCHANGED <<scenario, server, stamped, gone>>
    BY DEF InsertUser, serving
  <1>1. CASE Insert(req[r].user) /\ End(r)
    <2>1. users' = users \cup {req[r].user}
      BY <1>1 DEF Insert
    <2>2. req[r].user \in (1..stamped) \ (users \cup gone)
      BY <1>0, HandlingFacts DEF CallOK
    <2>3. StoreInv' /\ Onward
      BY <1>0, <2>1, <2>2 DEF ControlInv, StoreInv, Onward, ValidateEnv, deployment
    <2>4. ASSUME NEW q \in Requests \ {r}, req[q].pc = "insert"
          PROVE  req[q].user \notin users' \cup gone'
      BY <1>0, <2>1, <2>4 DEF ControlInv, CallOK
    <2>5. CallOK(Idle)'
      BY IdleIsACall DEF CallOK
    <2> QED BY <1>1, <2>3, <2>4, <2>5, IdleIsACall, Move DEF End
  <1>2. CASE Throw(r, "emailTaken") /\ UNCHANGED pagesVars
    <2>1. Consistent("signUp", RouteOf(r)) /\ req[r].route = "signUp"
      BY <1>0, HandlingFacts DEF CallOK
    <2> QED BY <1>0, <1>2, <2>1, ServiceErrors, ThrowKeepsControl
            DEF ServiceError, Consistent, pagesVars
  <1> QED BY <1>1, <1>2 DEF InsertUser

LEMMA DropKeepsControl ==
  ASSUME ControlInv, NEW r \in Requests, DropUser(r)
  PROVE  ControlInv'
  <1>0. /\ req[r].pc = "drop" /\ UNCHANGED <<scenario, server, stamped>>
        /\ users' = users \ {req[r].user} /\ gone' = gone \cup {req[r].user} /\ End(r)
    BY DEF DropUser, Delete, serving
  <1>1. req[r].user \in users \cup gone
    <2>1. CallerOK(req[r]) /\ Consistent("deleteAccount", Routes["deleteAccount"])
          /\ req[r].route = "deleteAccount"
      BY <1>0, HandlingFacts DEF CallOK, RouteOf
    <2> QED BY <2>1 DEF CallerOK, Consistent, ReadsUser
  <1>2. StoreInv' /\ Onward
    BY <1>0, <1>1 DEF ControlInv, StoreInv, Onward, ValidateEnv, deployment
  <1>3. ASSUME NEW q \in Requests, req[q].pc = "insert" PROVE req[q].user \notin users' \cup gone'
    BY <1>0, <1>1, <1>3 DEF ControlInv, CallOK
  <1>4. CallOK(Idle)'
    BY IdleIsACall DEF CallOK
  <1> QED BY <1>0, <1>2, <1>3, <1>4, IdleIsACall, Move DEF End

LEMMA BreakKeepsControl ==
  ASSUME ControlInv, NEW r \in Requests, Break(r)
  PROVE  ControlInv'
  <1>1. /\ req[r].pc # "idle" /\ Throw(r, "unexpected")
        /\ UNCHANGED <<scenario, server, stamped, users, gone>>
    BY DEF Break, DropPage, serving, pagesVars
  <1>2. /\ "unexpected" \in DOMAIN Exceptions /\ Exceptions["unexpected"].kind = "unknown"
        /\ Exceptions["unexpected"].status # 401
    BY OtherErrors
  <1> QED BY <1>1, <1>2, ThrowKeepsControl

LEMMA StepKeepsControl ==
  ASSUME ControlInv, NEW r \in Requests, Step(r)
  PROVE  ControlInv'
  <1>1. CASE Guard(r)
    BY <1>1, GuardKeepsControl
  <1>2. CASE HandlerSeesNoUser(r)
    BY <1>2, VanishedKeepsControl
  <1>3. CASE Refuse(r)
    BY <1>3, RefuseKeepsControl
  <1>4. CASE Handle(r) \/ Answer(r)
    BY <1>4, EndKeepsControl DEF Handle, Answer, serving, accounts, pagesVars
  <1>5. CASE StampUser(r)
    BY <1>5, StampKeepsControl
  <1>6. CASE InsertUser(r)
    BY <1>6, InsertKeepsControl
  <1>7. CASE DeleteUser(r)
    BY <1>7, GotoKeepsControl DEF DeleteUser, serving, accounts, pagesVars, Labels
  <1>8. CASE DropUser(r)
    BY <1>8, DropKeepsControl
  <1>9. CASE ListUsers(r)
    BY <1>9, GotoKeepsControl DEF ListUsers, FindPage, serving, Labels
  <1>10. CASE ReadPage(r)
    <2>1. UNCHANGED <<scenario, server, stamped, users, gone>> /\ (UNCHANGED req \/ End(r))
      BY <1>10 DEF ReadPage, ReadRows, CountDocuments, TakePage, serving
    <2> QED BY <2>1, QuietRest, EndKeepsControl
  <1>11. CASE Break(r)
    BY <1>11, BreakKeepsControl
  <1> QED BY <1>1, <1>2, <1>3, <1>4, <1>5, <1>6, <1>7, <1>8, <1>9, <1>10, <1>11 DEF Step

LEMMA ControlHolds == Spec => []ControlInv
  <1>1. Init => ControlInv
    <2> SUFFICES ASSUME Init PROVE ControlInv
      OBVIOUS
    <2>1. StoreInv
      BY HttpApiAssumption DEF Init, PagesInit, StoreInv
    <2>2. req = [r \in Requests |-> Idle] /\ CallOK(Idle)
      BY IdleIsACall DEF Init, CallOK
    <2> QED BY <2>1, <2>2, IdleIsACall DEF ControlInv
  <1>2. ControlInv /\ [Next]_vars => ControlInv'
    <2> SUFFICES ASSUME ControlInv, [Next]_vars PROVE ControlInv'
      OBVIOUS
    <2>1. ASSUME NEW r \in Requests, Call(r) PROVE ControlInv'
      <3>1. scenario.routes \subseteq DOMAIN Routes
        BY HttpApiAssumption DEF ControlInv, StoreInv, Scenario
      <3> QED BY <2>1, <3>1, ReceiveKeepsControl DEF Call
    <2>2. CASE Tick \/ UNCHANGED vars
      BY <2>2, QuietRest DEF Tick, vars, accounts, pagesVars
    <2> QED BY <2>1, <2>2, BootKeepsControl, StepKeepsControl DEF Next
  <1> QED BY <1>1, <1>2, PTL DEF Spec

-----------------------------------------------------------------------------
(* Who reaches a handler, and what failures tell *)

\* In every deployment that boots, whatever tokens clients present: a handler
\* that is given the caller or is reserved for admins runs for the account of
\* an access token that passed the guards.
THEOREM DefaultClosed == Spec => []ClosedByDefault
  <1>1. ControlInv => ClosedByDefault
    <2> SUFFICES ASSUME ControlInv, NEW r \in Requests,
                        req[r].pc \in {"handle", "insert", "drop", "page"},
                        RouteOf(r).wantsUser \/ RouteOf(r).admin
                 PROVE  /\ req[r].bearer = [kind |-> "access", user |-> req[r].user]
                        /\ req[r].user \in users \cup gone
                        /\ RouteOf(r).admin => req[r].user \in Admins
      BY DEF ClosedByDefault
    <2>1. /\ ~ RouteOf(r).public /\ req[r].pc # "insert"
          /\ req[r] \in CallRecord /\ CallerOK(req[r])
      BY HandlingFacts DEF Consistent, CallOK
    <2> QED BY <2>1 DEF CallerOK, RouteOf, CallRecord
  <1> QED BY <1>1, ControlHolds, PTL

LEMMA ExceptionTable ==
  ASSUME NEW name \in DOMAIN Exceptions
  PROVE  /\ Exceptions[name].kind \in {"app", "http", "middleware", "unknown"}
         /\ Exceptions[name].kind = "unknown" <=> name = "unexpected"
         /\ Exceptions[name].kind = "http" <=> name = "throttled"
         /\ Exceptions[name].kind = "middleware" <=> name \in FromParser
         /\ Exceptions[name].status \in {400, 401, 403, 404, 409, 413, 415, 429, 500}
         /\ Exceptions[name].status = 500 <=> name = "unexpected"
         /\ Exceptions[name].status = 429 <=>
                name \in {"accountLocked", "mailsRateLimited", "throttled"}
         /\ name \in {"validationFailed", "emailTaken", "wrongCurrentPassword", "breachedPassword",
                      "invalidVerificationToken", "invalidResetToken"}
                => Exceptions[name].kind = "app" /\ Exceptions[name].details
  BY DEF Exceptions, App, Other, WrongCurrentPassword, FromParser

LEMMA CatchKeepsStatus ==
  ASSUME NEW x \in Thrown
  PROVE  Catch(x).status = Exceptions[x.name].status
  <1>1. x.name \in DOMAIN Exceptions
    BY DEF Thrown
  <1> QED BY <1>1, ExceptionTable, OtherErrors DEF Catch, Body

\* Of all the reasons guards, pipe, handlers and services have to refuse a call,
\* those answered 401 on a route that demands a token leave it good for nothing.
THEOREM DeadMeansDead == Spec => []DeadTokenMeansDead
  <1>1. ControlInv => DeadTokenMeansDead
    <2> SUFFICES ASSUME ControlInv, NEW r \in Requests, req[r].pc = "failed", ~ RouteOf(r).public,
                        Catch(req[r].exception).status = 401
                 PROVE  ~ Authenticated(req[r].bearer)
      BY DEF DeadTokenMeansDead
    <2>1. FailureOK(req[r]) /\ req[r].exception \in Thrown
      BY HandlingFacts DEF CallOK, CallRecord
    <2>2. Dead(req[r].bearer)
      BY <2>1, CatchKeepsStatus DEF FailureOK, RouteOf
    <2>3. users \cap gone = {}
      BY DEF ControlInv, StoreInv
    <2> QED BY <2>2, <2>3 DEF Dead, Authenticated
  <1> QED BY <1>1, ControlHolds, PTL

\* Every failure of every route has a status its decorators name, but for those
\* Undocumented lists and 500.
THEOREM AnswersAreDocumented == Spec => []DocumentedAnswers
  <1>1. ControlInv => DocumentedAnswers
    <2> SUFFICES ASSUME ControlInv, NEW r \in Requests, req[r].pc = "failed"
                 PROVE  \/ Catch(req[r].exception).status \in RouteOf(r).documented \cup {500}
                        \/ Undocumented(r)
      BY DEF DocumentedAnswers
    <2>1. FailureOK(req[r]) /\ req[r].exception \in Thrown
      BY HandlingFacts DEF CallOK, CallRecord
    <2>2. /\ req[r].exception.name \in DOMAIN Exceptions
          /\ Catch(req[r].exception).status = Exceptions[req[r].exception.name].status
      BY <2>1, CatchKeepsStatus DEF Thrown
    <2>3. CASE Exceptions[req[r].exception.name].kind = "unknown"
      BY <2>2, <2>3, ExceptionTable
    <2> QED BY <2>1, <2>2, <2>3 DEF FailureOK, RouteOf, Undocumented
  <1> QED BY <1>1, ControlHolds, PTL

-----------------------------------------------------------------------------
(* What is in an answer *)

\* The one status of a code, as clients are told.
StatusOf(code) ==
    CASE code = "INTERNAL_ERROR" -> 500
      [] code \in {"UNAUTHENTICATED", "INVALID_CREDENTIALS", "INVALID_REFRESH_TOKEN"} -> 401
      [] code = "FORBIDDEN" -> 403
      [] code = "NOT_FOUND" -> 404
      [] code \in {"CONFLICT", "EMAIL_TAKEN"} -> 409
      [] code = "PAYLOAD_TOO_LARGE" -> 413
      [] code \in {"RATE_LIMITED", "ACCOUNT_LOCKED"} -> 429
      [] code = "SERVICE_UNAVAILABLE" -> 503
      [] OTHER -> 400

LEMMA CodesOfExceptions ==
  ASSUME NEW name \in DOMAIN Exceptions
  PROVE  /\ Exceptions[name].kind = "app" <=> Exceptions[name].code # "none"
         /\ Exceptions[name].kind = "app" => StatusOf(Exceptions[name].code) = Exceptions[name].status
         /\ Exceptions[name].code # "INTERNAL_ERROR"
  BY DEF Exceptions, App, Other, WrongCurrentPassword, StatusOf

LEMMA CodesByStatus ==
  ASSUME NEW status \in DOMAIN CodeByStatus
  PROVE  /\ StatusOf(CodeByStatus[status]) = status
         /\ CodeByStatus[status] \notin {"none", "INTERNAL_ERROR"}
  <1>1. /\ CodeByStatus[400] = "BAD_REQUEST" /\ CodeByStatus[401] = "UNAUTHENTICATED"
        /\ CodeByStatus[403] = "FORBIDDEN" /\ CodeByStatus[404] = "NOT_FOUND"
        /\ CodeByStatus[409] = "CONFLICT" /\ CodeByStatus[413] = "PAYLOAD_TOO_LARGE"
        /\ CodeByStatus[429] = "RATE_LIMITED" /\ CodeByStatus[503] = "SERVICE_UNAVAILABLE"
    BY DEF CodeByStatus
  <1>2. status \in {400, 401, 403, 404, 409, 413, 429, 503}
    BY DEF CodeByStatus
  <1> QED BY <1>1, <1>2 DEF StatusOf

LEMMA OneStatus ==
  /\ \A name \in DOMAIN Exceptions :
        Exceptions[name].kind = "app" =>
            Statuses(Exceptions[name].code) = {Exceptions[name].status}
  /\ \A status \in DOMAIN CodeByStatus : Statuses(CodeByStatus[status]) = {status}
  /\ Statuses("INTERNAL_ERROR") = {500}
  <1>1. ASSUME NEW code, code \notin {"none", "INTERNAL_ERROR"}
        PROVE  Statuses(code) \subseteq {StatusOf(code)}
    BY <1>1, CodesOfExceptions, CodesByStatus DEF Statuses
  <1>2. ASSUME NEW name \in DOMAIN Exceptions, Exceptions[name].kind = "app"
        PROVE  Statuses(Exceptions[name].code) = {Exceptions[name].status}
    <2>1. Exceptions[name].status \in Statuses(Exceptions[name].code)
      BY DEF Statuses
    <2> QED BY <1>1, <1>2, <2>1, CodesOfExceptions
  <1>3. ASSUME NEW status \in DOMAIN CodeByStatus
        PROVE  Statuses(CodeByStatus[status]) = {status}
    <2>1. status \in Statuses(CodeByStatus[status])
      BY DEF Statuses
    <2> QED BY <1>1, <2>1, CodesByStatus
  <1>4. Statuses("INTERNAL_ERROR") = {500}
    BY CodesOfExceptions, CodesByStatus DEF Statuses
  <1> QED BY <1>2, <1>3, <1>4

\* Every answer has a code of one status, its own, a generic message exactly for
\* the server's own faults, the field at fault, and with 429 the seconds to wait.
THEOREM AnswersFit == Spec => []AnswerFits
  <1>1. ASSUME ControlInv, NEW r \in Requests, req[r].pc = "failed", NEW x, x = req[r].exception
        PROVE  /\ x.name = "unsupportedBody" \/ Statuses(Catch(x).code) = {Catch(x).status}
               /\ Catch(x).generic <=> Catch(x).status >= 500
               /\ x.name \in {"validationFailed", "emailTaken", "wrongCurrentPassword",
                              "breachedPassword", "invalidVerificationToken", "invalidResetToken"}
                    => Catch(x).details
               /\ Catch(x).status = 429 /\ ~ (x.name = "throttled" /\ x.header = {})
                    => Catch(x).retryAfter # {}
    <2>1. FailureOK(req[r]) /\ x \in Thrown
      BY <1>1, HandlingFacts DEF CallOK, CallRecord
    <2>2. x.name \in DOMAIN Exceptions
      BY <2>1 DEF Thrown
    <2>3. /\ x.name \in {"accountLocked", "mailsRateLimited"} => x.meta # {}
          /\ x.name = "throttled" => x.header \in {{}, {1}}
      BY <1>1, <2>1 DEF FailureOK
    <2>4. CASE Exceptions[x.name].kind = "app"
      <3>1. Catch(x) = Body(Exceptions[x.name].status, Exceptions[x.name].code,
                            Exceptions[x.name].details, FALSE,
                            RetryAfter(Exceptions[x.name].status, x.meta, x.header))
        BY <2>4 DEF Catch
      <3>2. Exceptions[x.name].status \in {400, 401, 403, 404, 409, 413, 415, 429}
            /\ x.name # "throttled"
        BY <2>2, <2>4, ExceptionTable
      <3>3. Exceptions[x.name].status = 429 => x.meta # {}
        BY <2>2, <2>3, <3>2, ExceptionTable
      <3> QED BY <2>2, <2>4, <3>1, <3>2, <3>3, OneStatus, ExceptionTable DEF Body, RetryAfter
    <2>5. CASE Exceptions[x.name].kind \in {"http", "middleware"}
      <3>1. Catch(x) = Body(Exceptions[x.name].status, CodeForStatus(Exceptions[x.name].status),
                            FALSE, FALSE, RetryAfter(Exceptions[x.name].status, {}, x.header))
        BY <2>5 DEF Catch
      <3>2. x.name \in {"throttled"} \cup FromParser
        BY <2>2, <2>5, ExceptionTable
      <3>3. /\ x.name = "unsupportedBody" \/ Exceptions[x.name].status \in DOMAIN CodeByStatus
            /\ Exceptions[x.name].status \in {400, 413, 415, 429}
            /\ Exceptions[x.name].status = 429 => x.name = "throttled"
        BY <3>2, OtherErrors DEF FromParser, CodeByStatus
      <3>4. x.name = "throttled" /\ x.header # {} => {s \in x.header : s > 0} # {}
        BY <2>3
      <3>5. x.name \notin {"validationFailed", "emailTaken", "wrongCurrentPassword",
                           "breachedPassword", "invalidVerificationToken", "invalidResetToken"}
        BY <3>2 DEF FromParser
      <3> QED BY <3>1, <3>3, <3>4, <3>5, OneStatus DEF Body, RetryAfter, CodeForStatus
    <2>6. CASE Exceptions[x.name].kind = "unknown"
      BY <2>2, <2>6, OneStatus, ExceptionTable DEF Catch, Body
    <2> QED BY <2>2, <2>4, <2>5, <2>6, ExceptionTable
  <1>2. ControlInv => AnswerFits
    BY <1>1 DEF AnswerFits
  <1> QED BY <1>2, ControlHolds, PTL
-----------------------------------------------------------------------------
(* The address a call is counted under *)

\* The least of a nonempty set of naturals.
LEMMA Least ==
  ASSUME NEW S \in SUBSET Nat, S # {}
  PROVE  \E n \in S : \A m \in S : n <= m
  <1>1. \E R : R = {p \in Nat \X Nat : p[1] < p[2]} /\ IsWellFoundedOn(R, Nat)
    <2>1. OpToRel(<, Nat) = {p \in Nat \X Nat : p[1] < p[2]}
      BY DEF OpToRel
    <2> QED BY <2>1, NatLessThanWellFounded, Zenon
  <1>2. PICK R : R = {p \in Nat \X Nat : p[1] < p[2]} /\ IsWellFoundedOn(R, Nat)
    BY <1>1
  <1>3. PICK n \in S : \A m \in S : ~ (<<m, n>> \in R)
    BY <1>2, WFMin, Zenon
  <1>4. ASSUME NEW m \in S
        PROVE  n <= m
    <2>1. <<m, n>> \in Nat \X Nat /\ <<m, n>>[1] = m /\ <<m, n>>[2] = n
      OBVIOUS
    <2>2. ~ (m < n)
      BY <1>2, <1>3, <2>1
    <2> QED BY <2>2
  <1> QED BY <1>4

ForgedHeaders == {<<>>} \cup {<<a>> : a \in Forged \cup Clients}

Proxies == deployment.proxies

LEMMA Joined ==
  ASSUME NEW S, NEW p \in Seq(S), NEW c \in S, NEW f \in Seq(S), NEW h, h = p \o <<c>> \o f
  PROVE  /\ Len(p) \in Nat /\ Len(f) \in Nat /\ Len(h) = Len(p) + 1 + Len(f)
         /\ DOMAIN h = 1..Len(h)
         /\ \A i \in 1..Len(p) : h[i] = p[i]
         /\ h[Len(p) + 1] = c
  <1>1. <<c>> \in Seq(S) /\ Len(<<c>>) = 1 /\ <<c>>[1] = c
    OBVIOUS
  <1>2. PICK o : o \in Seq(S) /\ Len(o) = 1 /\ o[1] = c /\ h = p \o o \o f
    BY <1>1
  <1>3. PICK near : near = p \o o
    OBVIOUS
  <1>4. Len(p) \in Nat /\ Len(f) \in Nat
    BY LenProperties
  <1>5. /\ near \in Seq(S) /\ Len(near) = Len(p) + 1
        /\ \A i \in 1..(Len(p) + 1) : near[i] = IF i <= Len(p) THEN p[i] ELSE o[i - Len(p)]
    BY <1>2, <1>3, ConcatProperties
  <1>6. /\ h \in Seq(S) /\ Len(h) = Len(near) + Len(f)
        /\ \A i \in 1..(Len(near) + Len(f)) :
              h[i] = IF i <= Len(near) THEN near[i] ELSE f[i - Len(near)]
    BY <1>2, <1>3, <1>5, ConcatProperties
  <1>7. DOMAIN h = 1..Len(h)
    BY <1>6, LenProperties
  <1>8. \A i \in 1..Len(p) : h[i] = p[i]
    BY <1>4, <1>5, <1>6
  <1>9. h[Len(p) + 1] = c
    BY <1>2, <1>4, <1>5, <1>6
  <1> QED BY <1>4, <1>5, <1>6, <1>7, <1>8, <1>9

\* The hops up to the client's own are those of the deployment, whatever the
\* client wrote into the header.
LEMMA HopsAre ==
  ASSUME scenario \in Scenarios, NEW client \in Clients, NEW forged \in ForgedHeaders
  PROVE  LET hops == Hops(client, forged) IN
         /\ Len(Proxies) \in Nat /\ DOMAIN hops = 1..Len(hops)
         /\ Len(hops) = Len(Proxies) + 1 + Len(forged) /\ Len(forged) \in Nat
         /\ \A i \in 1..Len(Proxies) : hops[i] = Proxies[i] /\ Proxies[i] # client
         /\ hops[Len(Proxies) + 1] = client
  <1> DEFINE Address == STRING \cup Clients \cup Forged
  <1>1. Proxies \in Seq(STRING)
    BY HttpApiAssumption DEF Scenario, deployment, Proxies
  <1>2. Proxies \in Seq(Address)
    BY <1>1
  <1>3. client \in Address /\ \A a \in Forged \cup Clients : a \in Address
    OBVIOUS
  <1>4. \A i \in 1..Len(Proxies) : Proxies[i] # client
    BY <1>1, HttpApiAssumption DEF deployment, Proxies
  <1>5. PICK hops : hops = Hops(client, forged)
    OBVIOUS
  <1>6. hops = Proxies \o <<client>> \o forged
    BY <1>5 DEF Hops, Proxies
  <1> HIDE DEF Address, Proxies
  <1>7. forged \in Seq(Address)
    <2>1. CASE forged = <<>>
      BY <2>1
    <2>2. CASE \E a \in Forged \cup Clients : forged = <<a>>
      <3>1. PICK a \in Address : forged = <<a>>
        BY <1>3, <2>2
      <3> QED BY <3>1
    <2> QED BY <2>1, <2>2 DEF ForgedHeaders
  <1>8. /\ Len(Proxies) \in Nat /\ Len(forged) \in Nat
        /\ Len(hops) = Len(Proxies) + 1 + Len(forged)
        /\ DOMAIN hops = 1..Len(hops)
        /\ \A i \in 1..Len(Proxies) : hops[i] = Proxies[i]
        /\ hops[Len(Proxies) + 1] = client
    BY <1>2, <1>3, <1>6, <1>7, Joined
  <1> QED BY <1>4, <1>5, <1>8

\* request.ip is the first hop that is not trusted.
LEMMA StopsAt ==
  ASSUME scenario \in Scenarios, NEW client \in Clients, NEW forged \in ForgedHeaders,
         NEW hops, hops = Hops(client, forged), NEW k \in 1..Len(hops),
         k = Len(hops) \/ ~ Trusts(hops[k], k),
         \A j \in 1..(k - 1) : Trusts(hops[j], j)
  PROVE  ClientAddress(client, forged) = hops[k]
  <1> DEFINE stops == {i \in DOMAIN hops : i = Len(hops) \/ ~ Trusts(hops[i], i)}
             first == CHOOSE i \in stops : \A j \in stops : i <= j
  <1>1. PICK n \in Nat : n = Len(hops) /\ DOMAIN hops = 1..n
    <2>1. /\ Len(Proxies) \in Nat /\ DOMAIN hops = 1..Len(hops)
          /\ Len(hops) = Len(Proxies) + 1 + Len(forged) /\ Len(forged) \in Nat
      BY HopsAre
    <2> QED BY <2>1
  <1>2. \A i : i \in stops <=> i \in 1..n /\ (i = n \/ ~ Trusts(hops[i], i))
    BY <1>1
  <1>3. ClientAddress(client, forged) = hops[first]
    BY DEF ClientAddress
  <1>4. k \in 1..n /\ (k = n \/ ~ Trusts(hops[k], k))
    BY <1>1
  <1> HIDE DEF stops
  <1>5. k \in stops /\ \A j \in stops : k <= j
    <2>1. k \in stops
      BY <1>2, <1>4
    <2>2. \A j \in 1..n : k <= j \/ (j \in 1..(k - 1) /\ j # n)
      BY <1>4
    <2> QED BY <1>2, <2>1, <2>2
  <1>6. first \in stops /\ \A j \in stops : first <= j
    BY <1>5
  <1> HIDE DEF first
  <1>7. first \in 1..n /\ first <= k /\ k <= first
    BY <1>2, <1>5, <1>6
  <1>8. first = k
    BY <1>4, <1>7
  <1> QED BY <1>3, <1>8

\* What a setting makes of the proxies there are.
LEMMA TrustFacts ==
  ASSUME scenario \in Scenarios, NEW client \in Clients
  PROVE  /\ ClaimsNoStranger => ~ Trusts(client, Len(Proxies) + 1)
         /\ DescribesProxies => /\ ~ Trusts(client, Len(Proxies) + 1)
                                /\ \A i \in 1..Len(Proxies) : Trusts(Proxies[i], i)
  <1>1. Proxies \in Seq(STRING) /\ Len(Proxies) \in Nat /\ DOMAIN Proxies = 1..Len(Proxies)
    BY HttpApiAssumption DEF Scenario, deployment, Proxies
  <1>2. \A i \in DOMAIN Proxies : Proxies[i] # client
    BY HttpApiAssumption DEF deployment, Proxies
  <1>3. /\ deployment.trust.kind = "count" => deployment.trust.n \in Nat
    BY HttpApiAssumption DEF Scenario, deployment
  <1>4. ClaimsNoStranger => ~ Trusts(client, Len(Proxies) + 1)
    BY <1>1, <1>2, <1>3 DEF ClaimsNoStranger, Trusts, ParseTrustProxy, Proxies
  <1>5. DescribesProxies => /\ ~ Trusts(client, Len(Proxies) + 1)
                            /\ \A i \in 1..Len(Proxies) : Trusts(Proxies[i], i)
    BY <1>1, <1>2, <1>3 DEF DescribesProxies, Trusts, ParseTrustProxy, Proxies
  <1> QED BY <1>4, <1>5

\* No client chooses its address; described as they are, proxies do not hide it.
LEMMA AddressOfClient ==
  ASSUME scenario \in Scenarios, NEW client \in Clients, NEW forged \in ForgedHeaders
  PROVE  /\ ClaimsNoStranger => ClientAddress(client, forged) = ClientAddress(client, <<>>)
         /\ DescribesProxies => ClientAddress(client, forged) = client
  <1> DEFINE n == Len(Proxies)
  <1>1. PICK hops : hops = Hops(client, forged)
    OBVIOUS
  <1>2. PICK bare : bare = Hops(client, <<>>)
    OBVIOUS
  <1>3. <<>> \in ForgedHeaders /\ Len(<<>>) = 0
    BY DEF ForgedHeaders
  <1>4. /\ n \in Nat /\ Len(hops) \in Nat /\ Len(hops) >= n + 1 /\ Len(bare) = n + 1
        /\ \A i \in 1..n : hops[i] = Proxies[i] /\ bare[i] = Proxies[i]
        /\ hops[n + 1] = client /\ bare[n + 1] = client
    <2>1. /\ n \in Nat /\ Len(hops) = n + 1 + Len(forged) /\ Len(forged) \in Nat
          /\ \A i \in 1..n : hops[i] = Proxies[i]
          /\ hops[n + 1] = client
      BY <1>1, HopsAre
    <2>2. /\ Len(bare) = n + 1 + Len(<<>>)
          /\ \A i \in 1..n : bare[i] = Proxies[i]
          /\ bare[n + 1] = client
      BY <1>2, <1>3, HopsAre
    <2> HIDE DEF n
    <2> QED BY <1>3, <2>1, <2>2
  <1>5. /\ ClaimsNoStranger \/ DescribesProxies => ~ Trusts(client, n + 1)
        /\ DescribesProxies => \A i \in 1..n : Trusts(Proxies[i], i)
    BY TrustFacts
  <1> HIDE DEF n
  <1>6. ASSUME ClaimsNoStranger
        PROVE  ClientAddress(client, forged) = ClientAddress(client, <<>>)
    <2> DEFINE stops == {i \in 1..(n + 1) : ~ Trusts(bare[i], i)}
    <2>1. stops \in SUBSET Nat /\ stops # {}
      BY <1>4, <1>5, <1>6
    <2>2. PICK k \in stops : \A j \in stops : k <= j
      <3> HIDE DEF stops
      <3> QED BY <2>1, Least
    <2>3. /\ k \in 1..Len(hops) /\ k \in 1..Len(bare)
          /\ ~ Trusts(bare[k], k) /\ hops[k] = bare[k]
          /\ \A j \in 1..(k - 1) : Trusts(bare[j], j) /\ hops[j] = bare[j]
      BY <1>4, <2>2
    <2>4. ~ Trusts(hops[k], k) /\ \A j \in 1..(k - 1) : Trusts(hops[j], j)
      BY <2>3
    <2>5. ClientAddress(client, forged) = hops[k]
      BY <1>1, <2>3, <2>4, StopsAt
    <2>6. ClientAddress(client, <<>>) = bare[k]
      BY <1>2, <1>3, <2>3, StopsAt
    <2> QED BY <2>3, <2>5, <2>6
  <1>7. ASSUME DescribesProxies
        PROVE  ClientAddress(client, forged) = client
    <2>1. n + 1 \in 1..Len(hops) /\ ~ Trusts(hops[n + 1], n + 1)
      BY <1>4, <1>5, <1>7
    <2>2. \A j \in 1..((n + 1) - 1) : Trusts(hops[j], j)
      BY <1>4, <1>5, <1>7
    <2>3. PICK k : k = n + 1
      OBVIOUS
    <2>4. k \in 1..Len(hops) /\ ~ Trusts(hops[k], k) /\ \A j \in 1..(k - 1) : Trusts(hops[j], j)
      BY <2>1, <2>2, <2>3
    <2>5. ClientAddress(client, forged) = hops[k]
      BY <1>1, <2>4, StopsAt
    <2> QED BY <1>4, <2>3, <2>5
  <1> QED BY <1>6, <1>7
-----------------------------------------------------------------------------
(* The throttler's windows *)

PassesAmong(H, route, throttler, address) ==
    {h \in H : h.passed /\ h.route = route /\ h.throttler = throttler /\ h.address = address}

\* A hit carries the address its client cannot choose.
HitOK(h) ==
    /\ h.route \in DOMAIN Routes /\ h.throttler \in Throttlers /\ h.client \in Clients
    /\ h.passed \in BOOLEAN /\ h.at \in Nat
    /\ ClaimsNoStranger => h.address = ClientAddress(h.client, <<>>)
    /\ DescribesProxies => h.address = h.client

WithinLimits ==
    \A route \in DOMAIN Routes, throttler \in Throttlers : \A address :
        Cardinality(PassesAmong(hits, route, throttler, address)) <= Limit(route, throttler)

BlocksTheFull ==
    \A h \in hits : ~ h.passed /\ h.at = now =>
        Cardinality(PassesAmong(hits, h.route, h.throttler, h.address))
            = Limit(h.route, h.throttler)

ThrottleInv ==
    /\ scenario \in Scenarios /\ now \in Nat /\ IsFiniteSet(hits)
    /\ \A h \in hits : HitOK(h) /\ h.at <= now
    /\ WithinLimits
    /\ BlocksTheFull

LEMMA LimitsArePositive ==
  \A route \in DOMAIN Routes, throttler \in Throttlers : Limit(route, throttler) \in Nat \ {0}
  BY HttpApiAssumption DEF Limit

LEMMA PassesAreFinite ==
  ASSUME NEW H, IsFiniteSet(H), NEW route, NEW throttler, NEW address
  PROVE  /\ IsFiniteSet(PassesAmong(H, route, throttler, address))
         /\ Cardinality(PassesAmong(H, route, throttler, address)) \in Nat
  <1>1. PassesAmong(H, route, throttler, address) \in SUBSET H
    BY DEF PassesAmong
  <1> QED BY <1>1, FS_Subset, FS_CardinalityType

LEMMA HitStaysOK ==
  ASSUME NEW h, HitOK(h), UNCHANGED scenario
  PROVE  HitOK(h)'
  BY DEF HitOK, ClaimsNoStranger, DescribesProxies, ClientAddress, Hops, Trusts, deployment

Passing(route, throttler, address, client) == Hit(route, throttler, address, client, TRUE)
Refusing(route, throttler, address, client) == Hit(route, throttler, address, client, FALSE)

\* A call is passed by throttlers it does not exceed, and is counted against a
\* throttler that it is the first to exceed.
LEMMA NewHitsAre ==
  ASSUME NEW route, NEW address, NEW client
  PROVE  \E A, B \in SUBSET Throttlers :
           /\ NewHits(route, address, client) =
                {Passing(route, t, address, client) : t \in A} \cup
                {Refusing(route, t, address, client) : t \in B}
           /\ \A t \in A : ~ Exceeded(route, t, address)
           /\ \A t \in B : /\ Exceeded(route, t, address)
                           /\ \A h \in Counted(route, t, address) : h.passed
  <1> DEFINE refused == RefusedBy(route, address)
             A == {t \in IF refused = "burst" THEN {} ELSE Throttlers \ {refused} : ~ Skips(route, t)}
             B == {u \in {refused} \cap Throttlers :
                     \A h \in Counted(route, u, address) : h.passed}
  <1>1. NewHits(route, address, client) =
          {Passing(route, t, address, client) : t \in A} \cup
          {Refusing(route, t, address, client) : t \in B}
    BY DEF NewHits, Passing, Refusing
  <1>2. /\ refused \in Throttlers => Exceeded(route, refused, address)
        /\ refused # "burst" => ~ Refuses(route, "burst", address)
        /\ refused \notin Throttlers => ~ Refuses(route, "default", address)
    BY DEF RefusedBy, Refuses, Throttlers
  <1> HIDE DEF refused
  <1>3. A \in SUBSET Throttlers /\ \A t \in A : ~ Exceeded(route, t, address)
    BY <1>2 DEF Throttlers, Refuses
  <1>4. B \in SUBSET Throttlers /\ \A t \in B : /\ Exceeded(route, t, address)
                                                /\ \A h \in Counted(route, t, address) : h.passed
    BY <1>2 DEF Throttlers
  <1> HIDE DEF A, B
  <1> QED BY <1>1, <1>3, <1>4

\* The windows after a call was counted.
LEMMA CountingKeepsThrottle ==
  ASSUME ThrottleInv, UNCHANGED <<scenario, now>>,
         NEW route \in DOMAIN Routes, NEW client \in Clients, NEW forged \in ForgedHeaders,
         NEW address, address = ClientAddress(client, forged),
         NEW N, N = NewHits(route, address, client), hits' = hits \cup N
  PROVE  ThrottleInv'
  <1>1. PICK A \in SUBSET Throttlers, B \in SUBSET Throttlers :
           /\ N = {Passing(route, t, address, client) : t \in A} \cup
                  {Refusing(route, t, address, client) : t \in B}
           /\ \A t \in A : ~ Exceeded(route, t, address)
           /\ \A t \in B : /\ Exceeded(route, t, address)
                           /\ \A h \in Counted(route, t, address) : h.passed
    BY NewHitsAre
  <1>2. ASSUME NEW h \in N
        PROVE  /\ h.route = route /\ h.throttler \in Throttlers /\ h.address = address
               /\ h.client = client /\ h.passed \in BOOLEAN /\ h.at = now
               /\ h.passed => h.throttler \in A /\ h = Passing(route, h.throttler, address, client)
               /\ ~ h.passed => h.throttler \in B
    <2>1. CASE \E t \in A : h = Passing(route, t, address, client)
      <3>1. PICK t \in A : h = Passing(route, t, address, client)
        BY <2>1
      <3>2. /\ h.route = route /\ h.throttler = t /\ h.address = address
            /\ h.client = client /\ h.passed = TRUE /\ h.at = now
        BY <3>1 DEF Passing, Hit
      <3> QED BY <3>1, <3>2
    <2>2. CASE \E t \in B : h = Refusing(route, t, address, client)
      <3>1. PICK t \in B : h = Refusing(route, t, address, client)
        BY <2>2
      <3>2. /\ h.route = route /\ h.throttler = t /\ h.address = address
            /\ h.client = client /\ h.passed = FALSE /\ h.at = now
        BY <3>1 DEF Refusing, Hit
      <3> QED BY <3>1, <3>2
    <2> QED BY <1>1, <2>1, <2>2
  <1>3. IsFiniteSet(hits')
    <2> DEFINE b == Passing(route, "burst", address, client)
               d == Passing(route, "default", address, client)
               x == Refusing(route, "burst", address, client)
               y == Refusing(route, "default", address, client)
    <2>1. N \subseteq {b} \cup {d} \cup {x} \cup {y}
      BY <1>1 DEF Throttlers
    <2> HIDE DEF b, d, x, y
    <2>2. IsFiniteSet((((hits \cup {b}) \cup {d}) \cup {x}) \cup {y})
      <3>1. IsFiniteSet(hits \cup {b})
        BY FS_AddElement DEF ThrottleInv
      <3>2. IsFiniteSet((hits \cup {b}) \cup {d})
        BY <3>1, FS_AddElement
      <3>3. IsFiniteSet(((hits \cup {b}) \cup {d}) \cup {x})
        BY <3>2, FS_AddElement
      <3> QED BY <3>3, FS_AddElement
    <2>3. hits' \in SUBSET ((((hits \cup {b}) \cup {d}) \cup {x}) \cup {y})
      BY <2>1
    <2> QED BY <2>2, <2>3, FS_Subset
  <1>4. \A h \in hits' : HitOK(h)' /\ h.at <= now
    <2>1. \A h \in hits : HitOK(h) /\ h.at <= now
      BY DEF ThrottleInv
    <2>2. ASSUME NEW h \in N PROVE HitOK(h) /\ h.at <= now
      <3>1. /\ ClaimsNoStranger => address = ClientAddress(client, <<>>)
            /\ DescribesProxies => address = client
        BY AddressOfClient DEF ThrottleInv
      <3>2. now \in Nat /\ now <= now
        BY DEF ThrottleInv
      <3>3. /\ h.route = route /\ h.throttler \in Throttlers /\ h.address = address
            /\ h.client = client /\ h.passed \in BOOLEAN /\ h.at = now
        BY <1>2
      <3> QED BY <3>1, <3>2, <3>3 DEF HitOK
    <2> QED BY <2>1, <2>2, HitStaysOK
  <1>5. ASSUME NEW t \in Throttlers
        PROVE  /\ Counted(route, t, address) \in SUBSET hits
               /\ (\A h \in Counted(route, t, address) : h.passed) =>
                     PassesAmong(hits, route, t, address) = Counted(route, t, address)
               /\ \A h \in hits : h.route = route /\ h.throttler = t /\ h.address = address
                     => h \in Counted(route, t, address)
    BY DEF Counted, PassesAmong
  <1>6. ASSUME NEW ro, NEW th, NEW ad, ~ (ro = route /\ th \in A /\ ad = address)
        PROVE  PassesAmong(hits', ro, th, ad) = PassesAmong(hits, ro, th, ad)
    BY <1>2, <1>6 DEF PassesAmong
  <1>7. ASSUME NEW ro \in DOMAIN Routes, NEW th \in Throttlers, NEW ad
        PROVE  Cardinality(PassesAmong(hits', ro, th, ad)) <= Limit(ro, th)
    <2>1. CASE ro = route /\ th \in A /\ ad = address
      <3>1. /\ \A h \in Counted(route, th, address) : h.passed
            /\ ~ (Cardinality(Counted(route, th, address)) >= Limit(route, th))
        <4>1. ~ Exceeded(route, th, address)
          BY <1>1, <2>1
        <4>2. Counted(route, th, address) \subseteq hits /\ \A h \in hits : h.passed \in BOOLEAN
          BY <1>5 DEF ThrottleInv, HitOK
        <4> QED BY <4>1, <4>2 DEF Exceeded
      <3>2. PICK P : P = PassesAmong(hits, route, th, address)
        OBVIOUS
      <3>3. IsFiniteSet(P) /\ Cardinality(P) \in Nat /\ ~ (Cardinality(P) >= Limit(route, th))
        BY <1>5, <3>1, <3>2, PassesAreFinite DEF ThrottleInv
      <3>4. PICK x : x = Passing(route, th, address, client)
        OBVIOUS
      <3>5. PassesAmong(hits', ro, th, ad) \in SUBSET (P \cup {x})
        BY <1>2, <2>1, <3>2, <3>4 DEF PassesAmong
      <3>6. IsFiniteSet(P \cup {x}) /\ Cardinality(P \cup {x}) <= Cardinality(P) + 1
        BY <3>3, FS_AddElement
      <3>7. Cardinality(PassesAmong(hits', ro, th, ad)) <= Cardinality(P \cup {x})
        BY <3>5, <3>6, FS_Subset
      <3>8. /\ Cardinality(PassesAmong(hits', ro, th, ad)) \in Nat
            /\ Cardinality(P \cup {x}) \in Nat /\ Limit(route, th) \in Nat
        BY <1>3, <3>6, PassesAreFinite, FS_CardinalityType, LimitsArePositive
      <3> QED BY <2>1, <3>3, <3>6, <3>7, <3>8
    <2>2. CASE ~ (ro = route /\ th \in A /\ ad = address)
      BY <1>6, <2>2 DEF ThrottleInv, WithinLimits
    <2> QED BY <2>1, <2>2
  <1>8. ASSUME NEW h \in hits', ~ h.passed, h.at = now
        PROVE  Cardinality(PassesAmong(hits', h.route, h.throttler, h.address))
                   = Limit(h.route, h.throttler)
    <2>1. CASE h \in hits
      <3>1. h.throttler \in Throttlers
        BY <2>1 DEF ThrottleInv, HitOK
      <3>2. ~ (h.route = route /\ h.throttler \in A /\ h.address = address)
        BY <1>1, <1>5, <1>8, <2>1, <3>1 DEF Exceeded
      <3> QED BY <1>6, <1>8, <2>1, <3>2 DEF ThrottleInv, BlocksTheFull
    <2>2. CASE h \in N
      <3>1. PICK t \in B : t = h.throttler /\ h.route = route /\ h.address = address
        BY <1>2, <1>8, <2>2
      <3>2. t \in Throttlers /\ t \notin A
        BY <1>1
      <3>3. PassesAmong(hits', route, t, address) = PassesAmong(hits, route, t, address)
        BY <1>6, <3>2
      <3>4. /\ PassesAmong(hits, route, t, address) = Counted(route, t, address)
            /\ Cardinality(Counted(route, t, address)) >= Limit(route, t)
        BY <1>1, <1>5, <3>1, <3>2 DEF Exceeded
      <3>5. Cardinality(PassesAmong(hits, route, t, address)) <= Limit(route, t)
        BY <3>2 DEF ThrottleInv, WithinLimits
      <3>6. /\ Cardinality(PassesAmong(hits, route, t, address)) \in Nat
            /\ Limit(route, t) \in Nat
        BY <3>2, PassesAreFinite, LimitsArePositive DEF ThrottleInv
      <3> QED BY <3>1, <3>3, <3>4, <3>5, <3>6
    <2> QED BY <2>1, <2>2
  <1>9. WithinLimits' /\ BlocksTheFull'
    BY <1>7, <1>8 DEF WithinLimits, BlocksTheFull
  <1> QED BY <1>3, <1>4, <1>9 DEF ThrottleInv

LEMMA TickKeepsThrottle ==
  ASSUME ThrottleInv, Tick
  PROVE  ThrottleInv'
  <1>1. hits' \in SUBSET hits /\ now' = now + 1 /\ UNCHANGED scenario
    BY DEF Tick
  <1>2. IsFiniteSet(hits')
    BY <1>1, FS_Subset DEF ThrottleInv
  <1>3. \A h \in hits' : HitOK(h)' /\ h.at <= now' /\ h.at # now'
    <2>1. \A h \in hits' : HitOK(h) /\ h.at <= now
      BY <1>1 DEF ThrottleInv
    <2>2. \A h \in hits' : h.at \in Nat /\ now \in Nat
      BY <2>1 DEF HitOK, ThrottleInv
    <2> QED BY <1>1, <2>1, <2>2, HitStaysOK
  <1>4. ASSUME NEW ro \in DOMAIN Routes, NEW th \in Throttlers, NEW ad
        PROVE  Cardinality(PassesAmong(hits', ro, th, ad)) <= Limit(ro, th)
    <2>1. PassesAmong(hits', ro, th, ad) \in SUBSET PassesAmong(hits, ro, th, ad)
      BY <1>1 DEF PassesAmong
    <2>2. Cardinality(PassesAmong(hits', ro, th, ad)) <= Cardinality(PassesAmong(hits, ro, th, ad))
      BY <2>1, PassesAreFinite, FS_Subset DEF ThrottleInv
    <2>3. Cardinality(PassesAmong(hits, ro, th, ad)) <= Limit(ro, th)
      BY DEF ThrottleInv, WithinLimits
    <2>4. /\ Cardinality(PassesAmong(hits', ro, th, ad)) \in Nat /\ Limit(ro, th) \in Nat
          /\ Cardinality(PassesAmong(hits, ro, th, ad)) \in Nat
      BY <1>2, PassesAreFinite, LimitsArePositive DEF ThrottleInv
    <2> QED BY <2>2, <2>3, <2>4
  <1>5. WithinLimits' /\ BlocksTheFull'
    BY <1>3, <1>4 DEF WithinLimits, BlocksTheFull
  <1> QED BY <1>1, <1>2, <1>3, <1>5 DEF ThrottleInv

LEMMA RestKeepsThrottle ==
  ASSUME ThrottleInv, UNCHANGED <<scenario, now, hits>>
  PROVE  ThrottleInv'
  BY HitStaysOK DEF ThrottleInv, WithinLimits, BlocksTheFull

LEMMA ThrottleHolds == Spec => []ThrottleInv
  <1>1. Init => ThrottleInv
    <2> SUFFICES ASSUME Init PROVE ThrottleInv
      OBVIOUS
    <2>1. hits = {} /\ now = 0 /\ scenario \in Scenarios /\ IsFiniteSet(hits)
      BY FS_EmptySet DEF Init
    <2>2. \A ro, th, ad : Cardinality(PassesAmong(hits, ro, th, ad)) = 0
      <3>1. \A ro, th, ad : PassesAmong(hits, ro, th, ad) = {}
        BY <2>1 DEF PassesAmong
      <3> QED BY <3>1, FS_EmptySet
    <2> QED BY <2>1, <2>2, LimitsArePositive DEF ThrottleInv, WithinLimits, BlocksTheFull
  <1>2. ThrottleInv /\ [Next]_vars => ThrottleInv'
    <2> SUFFICES ASSUME ThrottleInv, [Next]_vars PROVE ThrottleInv'
      OBVIOUS
    <2>1. CASE UNCHANGED vars
      BY <2>1, RestKeepsThrottle DEF vars
    <2>2. CASE Boot
      BY <2>2, RestKeepsThrottle DEF Boot
    <2>3. CASE Tick
      BY <2>3, TickKeepsThrottle
    <2>4. ASSUME NEW r \in Requests, Step(r)
          PROVE  ThrottleInv'
      <3>1. UNCHANGED serving
        BY <2>4 DEF Step, Guard, HandlerSeesNoUser, Refuse, Handle, StampUser, InsertUser,
                    DeleteUser, DropUser, ListUsers, ReadPage, Break, Answer
      <3> QED BY <3>1, RestKeepsThrottle DEF serving
    <2>5. ASSUME NEW r \in Requests, Call(r)
          PROVE  ThrottleInv'
      <3>1. PICK route \in scenario.routes, client \in Clients, forged \in ForgedHeaders :
               Receive(r, route, client, forged)
        BY <2>5 DEF Call, ForgedHeaders
      <3>2. route \in DOMAIN Routes
        BY HttpApiAssumption DEF ThrottleInv, Scenario
      <3>3. PICK address, N : /\ address = ClientAddress(client, forged)
                              /\ N = NewHits(route, address, client)
        OBVIOUS
      <3>4. /\ UNCHANGED hits \/ hits' = hits \cup N
            /\ UNCHANGED <<scenario, now>>
        BY <3>1, <3>3 DEF Receive
      <3> QED BY <3>2, <3>3, <3>4, RestKeepsThrottle, CountingKeepsThrottle
    <2> QED BY <2>1, <2>2, <2>3, <2>4, <2>5 DEF Next
  <1> QED BY <1>1, <1>2, ControlHolds, PTL DEF Spec

\* No window of a handler's limit admits more calls of a client than the limit,
\* whatever it writes into X-Forwarded-For, unless TRUST_PROXY claims proxies
\* that are not there.
THEOREM FloodsAreCut == Spec => []FloodIsCut
  <1>1. ASSUME ThrottleInv, ClaimsNoStranger, NEW h \in hits
        PROVE  Cardinality({g \in hits : /\ g.passed
                                         /\ g.client = h.client
                                         /\ g.route = h.route
                                         /\ g.throttler = h.throttler})
                   <= Limit(h.route, h.throttler)
    <2> DEFINE own == {g \in hits : /\ g.passed
                                    /\ g.client = h.client
                                    /\ g.route = h.route
                                    /\ g.throttler = h.throttler}
    <2>1. PICK P : P = PassesAmong(hits, h.route, h.throttler, h.address)
      OBVIOUS
    <2>2. own \in SUBSET P
      BY <1>1, <2>1 DEF ThrottleInv, HitOK, PassesAmong
    <2>3. own \in SUBSET hits
      OBVIOUS
    <2> HIDE DEF own
    <2>4. /\ Cardinality(own) \in Nat /\ Cardinality(P) \in Nat
          /\ Cardinality(own) <= Cardinality(P)
      BY <1>1, <2>1, <2>2, <2>3, PassesAreFinite, FS_Subset, FS_CardinalityType DEF ThrottleInv
    <2>5. /\ Cardinality(P) <= Limit(h.route, h.throttler)
          /\ Limit(h.route, h.throttler) \in Nat
      BY <1>1, <2>1, LimitsArePositive DEF ThrottleInv, HitOK, WithinLimits
    <2>6. Cardinality(own) <= Limit(h.route, h.throttler)
      BY <2>4, <2>5
    <2> QED BY <2>6 DEF own
  <1>2. ThrottleInv => FloodIsCut
    BY <1>1 DEF FloodIsCut
  <1> QED BY <1>2, ThrottleHolds, PTL

\* A client is refused only after it used up the limit itself, if TRUST_PROXY
\* describes the proxies there are.
THEOREM CutOffOnlyForOwn == Spec => []CutOffForOwnCalls
  <1>1. ASSUME ThrottleInv, DescribesProxies, NEW h \in hits, ~ h.passed, h.at = now
        PROVE  Cardinality({g \in hits : /\ g.passed
                                         /\ g.client = h.client
                                         /\ g.route = h.route
                                         /\ g.throttler = h.throttler})
                   = Limit(h.route, h.throttler)
    <2>1. {g \in hits : /\ g.passed
                        /\ g.client = h.client
                        /\ g.route = h.route
                        /\ g.throttler = h.throttler}
             = PassesAmong(hits, h.route, h.throttler, h.address)
      BY <1>1 DEF ThrottleInv, HitOK, PassesAmong
    <2> QED BY <1>1, <2>1 DEF ThrottleInv, BlocksTheFull
  <1>2. ThrottleInv => CutOffForOwnCalls
    BY <1>1 DEF CutOffForOwnCalls
  <1> QED BY <1>2, ThrottleHolds, PTL
-----------------------------------------------------------------------------
(* Pages *)

Above(U, S) == {v \in U : \E s \in S : s <= v}

\* Who was expected and not shown is older than all that was shown, and the
\* rows newer than it fill the pages so far.
Behind(U, E, S, o) ==
    \A w \in (E \cap U) \ S : (\A s \in S : w < s) /\ Cardinality(Above(U, S)) >= o

LEMMA SubsetsOfAccounts ==
  ASSUME NEW n \in Nat, NEW U \in SUBSET (1..n)
  PROVE  /\ IsFiniteSet(U) /\ Cardinality(U) \in Nat
         /\ \A u \in U : u \in Nat
  <1>1. 1 \in Int /\ n \in Int
    OBVIOUS
  <1>2. IsFiniteSet(1..n)
    BY <1>1, FS_Interval
  <1>3. IsFiniteSet(U) /\ Cardinality(U) \in Nat
    BY <1>2, FS_Subset, FS_CardinalityType
  <1> QED BY <1>3

LEMMA NobodyShown ==
  ASSUME NEW n \in Nat, NEW U \in SUBSET (1..n), NEW E
  PROVE  Behind(U, E, {}, 0)
  <1>1. Above(U, {}) \in SUBSET (1..n)
    BY DEF Above
  <1>2. Cardinality(Above(U, {})) \in Nat
    BY <1>1, SubsetsOfAccounts
  <1> QED BY <1>2 DEF Behind

LEMMA ArrivalKeepsBehind ==
  ASSUME NEW n \in Nat, NEW U \in SUBSET (1..n), NEW E, NEW S, NEW o \in Nat,
         NEW u \in 1..n, u \notin E, Behind(U, E, S, o)
  PROVE  Behind(U \cup {u}, E, S, o)
  <1> DEFINE V == U \cup {u}
  <1>1. V \in SUBSET (1..n) /\ E \cap V = E \cap U
    OBVIOUS
  <1>2. PICK A, B : A = Above(U, S) /\ B = Above(V, S)
    OBVIOUS
  <1>3. A \in SUBSET B /\ A \in SUBSET (1..n) /\ B \in SUBSET (1..n)
    BY <1>1, <1>2 DEF Above
  <1>4. Cardinality(A) <= Cardinality(B) /\ Cardinality(A) \in Nat /\ Cardinality(B) \in Nat
    BY <1>3, SubsetsOfAccounts, FS_Subset
  <1> QED BY <1>1, <1>2, <1>4 DEF Behind

LEMMA DepartureKeepsBehind ==
  ASSUME NEW n \in Nat, NEW U \in SUBSET (1..n), NEW E, NEW S \in SUBSET (1..n), NEW o \in Nat,
         NEW u \in 1..n, ~ \E s \in S : s <= u, Behind(U, E, S, o)
  PROVE  Behind(U \ {u}, E, S, o)
  <1>1. Above(U \ {u}, S) = Above(U, S)
    BY DEF Above
  <1> QED BY <1>1 DEF Behind

LEMMA RoomForMore ==
  ASSUME NEW n \in Nat, NEW U \in SUBSET (1..n), NEW E, NEW S \in SUBSET (1..n), NEW o \in Nat,
         Behind(U, E, S, o), NEW w \in (E \cap U) \ S
  PROVE  Cardinality(U) > o
  <1>1. PICK A : A = Above(U, S)
    OBVIOUS
  <1>2. A \in SUBSET U /\ w \notin A /\ Cardinality(A) >= o
    <2>1. A \in SUBSET U /\ Cardinality(A) >= o /\ \A s \in S : w < s
      BY <1>1 DEF Above, Behind
    <2>2. w \in Nat /\ \A s \in S : s \in Nat
      BY SubsetsOfAccounts
    <2>3. \A s \in S : ~ (s <= w)
      BY <2>1, <2>2
    <2>4. w \notin A
      BY <1>1, <2>3 DEF Above
    <2> QED BY <2>1, <2>4
  <1>3. /\ IsFiniteSet(U) /\ Cardinality(U) \in Nat /\ Cardinality(A) \in Nat
        /\ Cardinality(A) <= Cardinality(U) /\ (Cardinality(U) = Cardinality(A) => U = A)
    BY <1>2, SubsetsOfAccounts, FS_Subset
  <1> QED BY <1>2, <1>3

\* Ranks: the rows newer than u.
Rank(U, u) == Cardinality({v \in U : v > u})
DownTo(U, u) == {v \in U : u <= v}

LEMMA RanksAreOrdered ==
  ASSUME NEW n \in Nat, NEW U \in SUBSET (1..n), NEW u \in U, NEW w \in U,
         Rank(U, u) < Rank(U, w)
  PROVE  w < u
  <1>1. SUFFICES ASSUME u <= w PROVE FALSE
    OBVIOUS
  <1>2. PICK A, B : A = {v \in U : v > u} /\ B = {v \in U : v > w}
    OBVIOUS
  <1>3. B \in SUBSET A /\ A \in SUBSET (1..n) /\ B \in SUBSET (1..n)
    <2>1. \A v \in U : v \in Nat
      BY SubsetsOfAccounts
    <2>2. \A v \in U : v > w => v > u
      BY <1>1, <2>1
    <2> QED BY <1>2, <2>2
  <1>4. Cardinality(B) <= Cardinality(A) /\ Cardinality(A) \in Nat /\ Cardinality(B) \in Nat
    BY <1>3, SubsetsOfAccounts, FS_Subset
  <1> QED BY <1>2, <1>4 DEF Rank

LEMMA Greatest ==
  ASSUME NEW n \in Nat, NEW W \in SUBSET (1..n), W # {}
  PROVE  \E m \in W : \A w \in W : w <= m
  <1> DEFINE D == {d \in 0..n : n - d \in W}
  <1>1. D \in SUBSET Nat /\ D # {}
    <2>1. PICK w \in 1..n : w \in W
      OBVIOUS
    <2>2. PICK d \in 0..n : n - d = w
      <3>1. n - w \in 0..n /\ n - (n - w) = w
        OBVIOUS
      <3> QED BY <3>1
    <2>3. d \in D
      BY <2>1, <2>2
    <2> QED BY <2>3
  <1>2. \A d : d \in D <=> d \in 0..n /\ n - d \in W
    OBVIOUS
  <1> HIDE DEF D
  <1>3. PICK d \in D : \A e \in D : d <= e
    BY <1>1, Least
  <1>4. ASSUME NEW w \in W PROVE w <= n - d
    <2>1. n - w \in 0..n /\ n - (n - w) = w
      OBVIOUS
    <2>2. d <= n - w /\ d \in 0..n
      BY <1>2, <1>3, <2>1
    <2> QED BY <2>2
  <1> QED BY <1>2, <1>3, <1>4

\* If a row has a rank of m and more, there are m rows down to that of rank m - 1.
LEMMA RankBefore ==
  ASSUME NEW n \in Nat, NEW U \in SUBSET (1..n), NEW w \in U, NEW m \in Nat \ {0},
         Rank(U, w) >= m
  PROVE  \E v \in U : Rank(U, v) = m - 1 /\ Cardinality(DownTo(U, v)) = m
  <1> DEFINE W == {x \in U : Rank(U, x) >= m}
  <1>1. W \in SUBSET (1..n) /\ W # {}
    OBVIOUS
  <1>2. \A x : x \in W <=> x \in U /\ Rank(U, x) >= m
    OBVIOUS
  <1> HIDE DEF W
  <1>3. PICK w0 \in W : \A x \in W : x <= w0
    BY <1>1, Greatest
  <1>4. PICK N : N = {x \in U : x > w0}
    OBVIOUS
  <1>5. N \in SUBSET (1..n) /\ Cardinality(N) >= m
    BY <1>2, <1>3, <1>4 DEF Rank
  <1>6. IsFiniteSet(N) /\ Cardinality(N) \in Nat /\ N # {}
    <2>1. IsFiniteSet(N) /\ Cardinality(N) \in Nat
      BY <1>5, SubsetsOfAccounts
    <2>2. Cardinality(N) # 0
      BY <1>5, <2>1
    <2> QED BY <2>1, <2>2, FS_EmptySet
  <1>7. PICK v \in N : \A x \in N : v <= x
    BY <1>5, <1>6, Least
  <1>8. PICK M : M = {x \in U : x > v}
    OBVIOUS
  <1>9. M = N \ {v} /\ N = {x \in U : v <= x} /\ v \in U /\ v > w0
    <2>1. (\A x \in U : x \in Nat) /\ w0 \in U /\ v \in U /\ v > w0
      BY <1>1, <1>2, <1>3, <1>4, <1>7, SubsetsOfAccounts
    <2>2. \A x \in U : x > v <=> x > w0 /\ x # v
      BY <1>4, <1>7, <2>1
    <2>3. \A x \in U : v <= x <=> x > w0
      BY <1>4, <1>7, <2>1
    <2> QED BY <1>4, <1>8, <2>1, <2>2, <2>3
  <1>10. Cardinality(M) = Cardinality(N) - 1
    BY <1>6, <1>7, <1>9, FS_RemoveElement
  <1>11. ~ (Cardinality(M) >= m)
    <2>1. v \notin W
      BY <1>1, <1>3, <1>5, <1>7, <1>9
    <2> QED BY <1>2, <1>8, <1>9, <2>1 DEF Rank
  <1>12. Cardinality(M) = m - 1 /\ Cardinality(N) = m
    BY <1>5, <1>6, <1>10, <1>11
  <1> QED BY <1>8, <1>9, <1>12 DEF Rank, DownTo

\* The next page leaves nobody out.
LEMMA PageKeepsBehind ==
  ASSUME NEW n \in Nat, NEW U \in SUBSET (1..n), NEW E, NEW S \in SUBSET (1..n), NEW o \in Nat,
         NEW L \in Nat \ {0}, NEW R, R = {u \in U : Rank(U, u) \in o..(o + L - 1)},
         Behind(U, E, S, o)
  PROVE  Behind(U, E, S \cup R, o + L)
  <1> SUFFICES ASSUME NEW w \in (E \cap U) \ (S \cup R)
               PROVE  (\A s \in S \cup R : w < s) /\ Cardinality(Above(U, S \cup R)) >= o + L
    BY DEF Behind
  <1>1. PICK A : A = Above(U, S)
    OBVIOUS
  <1>2. (\A s \in S : w < s) /\ Cardinality(A) >= o
    BY <1>1 DEF Behind
  <1>3. \A u \in U : Rank(U, u) \in Nat
    <2>1. \A u \in U : {v \in U : v > u} \in SUBSET (1..n)
      OBVIOUS
    <2> QED BY <2>1, SubsetsOfAccounts DEF Rank
  <1>4. Rank(U, w) >= o
    <2>1. PICK N : N = {v \in U : v > w}
      OBVIOUS
    <2>2. A \in SUBSET N /\ N \in SUBSET (1..n) /\ A \in SUBSET (1..n)
      <3>1. w \in Nat /\ (\A u \in U : u \in Nat) /\ \A s \in S : s \in Nat
        BY SubsetsOfAccounts
      <3>2. ASSUME NEW v \in U, NEW s \in S, s <= v PROVE v > w
        BY <1>2, <3>1, <3>2
      <3> QED BY <1>1, <2>1, <3>2 DEF Above
    <2>3. Cardinality(A) <= Cardinality(N) /\ Cardinality(A) \in Nat /\ Cardinality(N) \in Nat
      BY <2>2, SubsetsOfAccounts, FS_Subset
    <2> QED BY <1>2, <2>1, <2>3 DEF Rank
  <1>k. PICK k \in Nat : k = Rank(U, w)
    BY <1>3
  <1>5. Rank(U, w) >= o + L
    <2>1. k \notin o..(o + L - 1) /\ k >= o
      BY <1>4, <1>k
    <2>2. k >= o + L
      BY <2>1
    <2> QED BY <1>k, <2>2
  <1>6. \A s \in S \cup R : w < s
    <2>1. ASSUME NEW u \in R PROVE w < u
      <3>1. PICK j \in o..(o + L - 1) : u \in U /\ j = Rank(U, u)
        OBVIOUS
      <3>2. j < k
        BY <1>5, <1>k
      <3>3. u \in U /\ Rank(U, u) < Rank(U, w)
        BY <1>k, <3>1, <3>2
      <3> QED BY <3>3, RanksAreOrdered
    <2> QED BY <1>2, <2>1
  <1>7. PICK v \in U : Rank(U, v) = (o + L) - 1 /\ Cardinality(DownTo(U, v)) = o + L
    <2>1. PICK m \in Nat \ {0} : m = o + L
      OBVIOUS
    <2>2. Rank(U, w) >= m
      BY <1>5, <2>1
    <2>3. \E v \in U : Rank(U, v) = m - 1 /\ Cardinality(DownTo(U, v)) = m
      <3>1. w \in U
        OBVIOUS
      <3> QED BY <2>2, <3>1, RankBefore
    <2> QED BY <2>1, <2>3
  <1>8. v \in R
    <2>1. (o + L) - 1 \in o..(o + L - 1)
      OBVIOUS
    <2> QED BY <1>7, <2>1
  <1>9. PICK V, B : V = DownTo(U, v) /\ B = Above(U, S \cup R)
    OBVIOUS
  <1>10. V \in SUBSET B /\ V \in SUBSET (1..n) /\ B \in SUBSET (1..n)
    BY <1>8, <1>9 DEF Above, DownTo
  <1>11. Cardinality(V) <= Cardinality(B) /\ Cardinality(V) \in Nat /\ Cardinality(B) \in Nat
    BY <1>10, SubsetsOfAccounts, FS_Subset
  <1> QED BY <1>6, <1>7, <1>9, <1>11

\* What holds of the accounts U there are and G that have gone, n stamped, the
\* page P and the client's way C, while a page is being read or not.
PagesTyped(U, G, n, P, C) ==
    /\ n \in Nat /\ U \in SUBSET (1..n)
    /\ P \in [todo: SUBSET {"rows", "total"}, rows: SUBSET (1..n), total: Nat]
    /\ C \in [active: BOOLEAN, offset: Nat, expected: SUBSET (U \cup G), seen: SUBSET (1..n),
              disturbed: BOOLEAN]

Shown(P, C) == C.seen \cup P.rows

\* How many rows the pages read so far had room for.
Reached(P, C, phase) ==
    IF phase = "reading" /\ "rows" \notin P.todo THEN C.offset + PageLimit ELSE C.offset

AllShown(U, P, C) == C.expected \cap U \subseteq Shown(P, C)

\* The total announces whoever is not shown yet.
TotalTells(U, P, C) ==
    /\ P.todo = {"rows"} => Cardinality(U) <= P.total
    /\ P.todo = {} /\ ~ AllShown(U, P, C) => P.total > C.offset + PageLimit

PagesOK(U, G, n, P, C, phase) ==
    /\ PagesTyped(U, G, n, P, C)
    /\ phase = "idle" => P = NoPage
    /\ phase = "reading" => C.active
    /\ "rows" \in P.todo => P.rows = {}
    /\ ~ C.disturbed =>
         /\ Behind(U, C.expected, Shown(P, C), Reached(P, C, phase))
         /\ C.active \/ AllShown(U, P, C)
         /\ phase = "reading" => TotalTells(U, P, C)

LEMMA NoPageIs ==
  /\ NoPage.todo = {} /\ NoPage.rows = {} /\ NoPage.total = 0
  /\ NoScan.active = FALSE /\ NoScan.offset = 0 /\ NoScan.expected = {} /\ NoScan.seen = {}
  /\ NoScan.disturbed = FALSE
  BY DEF NoPage, NoScan

LEMMA ReachedIsANumber ==
  ASSUME NEW U, NEW G, NEW n, NEW P, NEW C, NEW phase, PagesTyped(U, G, n, P, C)
  PROVE  /\ Reached(P, C, phase) \in Nat /\ Shown(P, C) \in SUBSET (1..n)
         /\ C.offset + PageLimit \in Nat
  BY UserPagesAssumption DEF PagesTyped, Reached, Shown

\* Elsewhere a place in the sort order is given, or an account has gone.
LEMMA OthersKeepPages ==
  ASSUME NEW U, NEW G, NEW n, NEW P, NEW C, NEW phase, PagesOK(U, G, n, P, C, phase),
         NEW m \in Nat, n <= m
  PROVE  PagesOK(U, G, m, P, C, phase)
  <1>1. n \in Nat /\ \A x : x \in 1..n => x \in 1..m
    BY DEF PagesOK, PagesTyped
  <1>2. \A X : X \in SUBSET (1..n) => X \in SUBSET (1..m)
    BY <1>1
  <1>3. PagesTyped(U, G, m, P, C)
    BY <1>2 DEF PagesOK, PagesTyped
  <1> QED BY <1>3 DEF PagesOK

LEMMA FindKeepsPages ==
  ASSUME NEW U, NEW G, NEW n, NEW P, NEW C, PagesOK(U, G, n, P, C, "idle"),
         NEW Q, Q = [NoPage EXCEPT !.todo = {"rows", "total"}],
         NEW D, D = IF C.active THEN C ELSE [NoScan EXCEPT !.active = TRUE, !.expected = U]
  PROVE  PagesOK(U, G, n, Q, D, "reading")
  <1>1. /\ Q.todo = {"rows", "total"} /\ Q.rows = {} /\ Q.total = 0 /\ P = NoPage
        /\ Q \in [todo: SUBSET {"rows", "total"}, rows: SUBSET (1..n), total: Nat]
    BY DEF NoPage, PagesOK, PagesTyped
  <1>2. CASE C.active
    <2>1. D = C /\ PagesTyped(U, G, n, Q, D)
      BY <1>1, <1>2 DEF PagesOK, PagesTyped
    <2>2. Shown(Q, D) = Shown(P, C) /\ Reached(Q, D, "reading") = Reached(P, C, "idle")
      BY <1>1, <2>1, NoPageIs DEF Shown, Reached
    <2>3. TotalTells(U, Q, D)
      BY <1>1 DEF TotalTells
    <2> QED BY <1>1, <1>2, <2>1, <2>2, <2>3 DEF PagesOK
  <1>3. CASE ~ C.active
    <2>1. /\ D.active = TRUE /\ D.offset = 0 /\ D.expected = U /\ D.seen = {}
          /\ D.disturbed = FALSE
          /\ D \in [active: BOOLEAN, offset: Nat, expected: SUBSET (U \cup G),
                    seen: SUBSET (1..n), disturbed: BOOLEAN]
      BY <1>3 DEF NoScan
    <2>2. PagesTyped(U, G, n, Q, D)
      BY <1>1, <2>1 DEF PagesOK, PagesTyped
    <2>3. Shown(Q, D) = {} /\ Reached(Q, D, "reading") = 0
      BY <1>1, <2>1 DEF Shown, Reached
    <2>4. Behind(U, D.expected, {}, 0)
      BY NobodyShown DEF PagesOK, PagesTyped
    <2>5. TotalTells(U, Q, D)
      BY <1>1 DEF TotalTells
    <2> QED BY <1>1, <2>1, <2>2, <2>3, <2>4, <2>5 DEF PagesOK
  <1> QED BY <1>2, <1>3

LEMMA ReadKeepsPages ==
  ASSUME NEW U, NEW G, NEW n, NEW P, NEW C, PagesOK(U, G, n, P, C, "reading"),
         "rows" \in P.todo,
         NEW R, R = {u \in U : Rank(U, u) \in C.offset..(C.offset + PageLimit - 1)},
         NEW Q, Q = [P EXCEPT !.todo = @ \ {"rows"}, !.rows = R]
  PROVE  PagesOK(U, G, n, Q, C, "reading")
  <1>1. PagesTyped(U, G, n, P, C)
    BY DEF PagesOK
  <1>2. /\ Q.todo = P.todo \ {"rows"} /\ Q.rows = R /\ Q.total = P.total
        /\ PagesTyped(U, G, n, Q, C)
    BY <1>1 DEF PagesTyped
  <1>3. Shown(Q, C) = C.seen \cup R /\ Shown(P, C) = C.seen
    BY <1>2 DEF Shown, PagesOK
  <1>4. Reached(Q, C, "reading") = C.offset + PageLimit /\ Reached(P, C, "reading") = C.offset
    BY <1>2 DEF Reached
  <1>5. ASSUME ~ C.disturbed
        PROVE  /\ Behind(U, C.expected, Shown(Q, C), Reached(Q, C, "reading"))
               /\ TotalTells(U, Q, C)
    <2>1. Behind(U, C.expected, C.seen, C.offset)
      BY <1>3, <1>4, <1>5 DEF PagesOK
    <2>2. n \in Nat /\ U \in SUBSET (1..n) /\ C.seen \in SUBSET (1..n) /\ C.offset \in Nat
      BY <1>1 DEF PagesTyped
    <2>3. Behind(U, C.expected, C.seen \cup R, C.offset + PageLimit)
      BY <2>1, <2>2, UserPagesAssumption, PageKeepsBehind
    <2>4. ASSUME Q.todo = {}, ~ AllShown(U, Q, C)
          PROVE  Q.total > C.offset + PageLimit
      <3>1. PICK w \in (C.expected \cap U) \ Shown(Q, C) : TRUE
        BY <2>4 DEF AllShown
      <3>2. Cardinality(U) > C.offset + PageLimit
        <4>1. /\ C.seen \cup R \in SUBSET (1..n) /\ C.offset + PageLimit \in Nat
              /\ w \in (C.expected \cap U) \ (C.seen \cup R)
          BY <1>1, <1>2, <1>3, <3>1, ReachedIsANumber
        <4>2. PICK S, E, k : S = C.seen \cup R /\ E = C.expected /\ k = C.offset + PageLimit
          OBVIOUS
        <4>3. /\ S \in SUBSET (1..n) /\ k \in Nat /\ Behind(U, E, S, k)
              /\ w \in (E \cap U) \ S
          BY <2>3, <4>1, <4>2
        <4>4. Cardinality(U) > k
          BY <2>2, <4>3, RoomForMore
        <4> QED BY <4>2, <4>4
      <3>3. P.todo = {"rows"} /\ Cardinality(U) <= P.total
        <4>1. P.todo = {"rows"}
          BY <1>2, <2>4
        <4> QED BY <1>5, <4>1 DEF PagesOK, TotalTells
      <3>4. Cardinality(U) \in Nat /\ P.total \in Nat /\ C.offset + PageLimit \in Nat
        BY <1>1, <2>2, SubsetsOfAccounts, ReachedIsANumber DEF PagesTyped
      <3> QED BY <1>2, <3>2, <3>3, <3>4
    <2>5. Q.todo # {"rows"}
      BY <1>2
    <2> QED BY <1>3, <1>4, <2>3, <2>4, <2>5 DEF TotalTells
  <1> QED BY <1>2, <1>5 DEF PagesOK

LEMMA CountKeepsPages ==
  ASSUME NEW U, NEW G, NEW n, NEW P, NEW C, PagesOK(U, G, n, P, C, "reading"),
         "total" \in P.todo,
         NEW Q, Q = [P EXCEPT !.todo = @ \ {"total"}, !.total = Cardinality(U)]
  PROVE  PagesOK(U, G, n, Q, C, "reading")
  <1>1. PagesTyped(U, G, n, P, C) /\ n \in Nat /\ U \in SUBSET (1..n)
    BY DEF PagesOK, PagesTyped
  <1>2. Cardinality(U) \in Nat
    BY <1>1, SubsetsOfAccounts
  <1>3. /\ Q.todo = P.todo \ {"total"} /\ Q.rows = P.rows /\ Q.total = Cardinality(U)
        /\ PagesTyped(U, G, n, Q, C)
    BY <1>1, <1>2 DEF PagesTyped
  <1>4. /\ Shown(Q, C) = Shown(P, C) /\ Reached(Q, C, "reading") = Reached(P, C, "reading")
        /\ AllShown(U, Q, C) <=> AllShown(U, P, C)
    BY <1>3 DEF Shown, Reached, AllShown
  <1>5. ASSUME ~ C.disturbed, Q.todo = {}, ~ AllShown(U, Q, C)
        PROVE  Q.total > C.offset + PageLimit
    <2>1. PICK w \in (C.expected \cap U) \ Shown(Q, C) : TRUE
      BY <1>5 DEF AllShown
    <2>2. Reached(Q, C, "reading") = C.offset + PageLimit
      BY <1>3, <1>5 DEF Reached
    <2>3. Behind(U, C.expected, Shown(Q, C), C.offset + PageLimit)
      BY <1>4, <1>5, <2>2 DEF PagesOK
    <2>4. /\ Shown(Q, C) \in SUBSET (1..n) /\ C.offset + PageLimit \in Nat
      BY <1>3, ReachedIsANumber
    <2> QED BY <1>1, <1>3, <2>1, <2>3, <2>4, RoomForMore
  <1>6. Q.total \in Nat /\ Cardinality(U) <= Q.total
    BY <1>2, <1>3
  <1> QED BY <1>3, <1>4, <1>5, <1>6 DEF PagesOK, TotalTells

LEMMA TakeKeepsPages ==
  ASSUME NEW U, NEW G, NEW n, NEW P, NEW C, PagesOK(U, G, n, P, C, "reading"), P.todo = {},
         NEW D, D = [C EXCEPT !.offset = @ + PageLimit,
                              !.seen = @ \cup P.rows,
                              !.active = C.offset + PageLimit < P.total]
  PROVE  PagesOK(U, G, n, NoPage, D, "idle")
  <1>1. PagesTyped(U, G, n, P, C)
    BY DEF PagesOK
  <1>b. PICK b : b = (C.offset + PageLimit < P.total)
    OBVIOUS
  <1>c. b \in BOOLEAN /\ D = [C EXCEPT !.offset = @ + PageLimit, !.seen = @ \cup P.rows, !.active = b]
    BY <1>b
  <1>2. /\ D.offset = C.offset + PageLimit /\ D.seen = Shown(P, C)
        /\ D.active <=> C.offset + PageLimit < P.total
        /\ D.expected = C.expected /\ D.disturbed = C.disturbed
        /\ D \in [active: BOOLEAN, offset: Nat, expected: SUBSET (U \cup G),
                  seen: SUBSET (1..n), disturbed: BOOLEAN]
    <2>1. C.offset + PageLimit \in Nat /\ Shown(P, C) \in SUBSET (1..n)
      BY <1>1, ReachedIsANumber
    <2>2. D.active = b
      BY <1>1, <1>c DEF PagesTyped
    <2>3. /\ D.offset = C.offset + PageLimit /\ D.seen = Shown(P, C)
          /\ D.expected = C.expected /\ D.disturbed = C.disturbed
          /\ D \in [active: BOOLEAN, offset: Nat, expected: SUBSET (U \cup G),
                    seen: SUBSET (1..n), disturbed: BOOLEAN]
      BY <1>1, <1>c, <2>1 DEF PagesTyped, Shown
    <2> QED BY <1>b, <2>2, <2>3
  <1>3. PagesTyped(U, G, n, NoPage, D)
    BY <1>1, <1>2 DEF PagesTyped, NoPage
  <1>4. Shown(NoPage, D) = Shown(P, C) /\ Reached(NoPage, D, "idle") = Reached(P, C, "reading")
    BY <1>2, NoPageIs DEF Shown, Reached
  <1>5. AllShown(U, NoPage, D) <=> AllShown(U, P, C)
    BY <1>2, <1>4 DEF AllShown
  <1>6. ASSUME ~ C.disturbed
        PROVE  D.active \/ AllShown(U, P, C)
    <2>1. ~ AllShown(U, P, C) => P.total > C.offset + PageLimit
      BY <1>6 DEF PagesOK, TotalTells
    <2>2. P.total \in Nat /\ C.offset + PageLimit \in Nat
      BY <1>1, ReachedIsANumber DEF PagesTyped
    <2> QED BY <1>2, <2>1, <2>2
  <1> QED BY <1>2, <1>3, <1>4, <1>5, <1>6, NoPageIs DEF PagesOK

LEMMA DropKeepsPages ==
  ASSUME NEW U, NEW G, NEW n, NEW P, NEW C, NEW phase, PagesOK(U, G, n, P, C, phase)
  PROVE  PagesOK(U, G, n, NoPage, NoScan, "idle")
  <1>1. PagesTyped(U, G, n, NoPage, NoScan)
    BY DEF PagesOK, PagesTyped, NoPage, NoScan
  <1>2. AllShown(U, NoPage, NoScan)
    BY NoPageIs DEF AllShown
  <1>3. Behind(U, NoScan.expected, Shown(NoPage, NoScan), Reached(NoPage, NoScan, "idle"))
    BY NoPageIs DEF Behind
  <1> QED BY <1>1, <1>2, <1>3, NoPageIs DEF PagesOK

LEMMA InsertKeepsPages ==
  ASSUME NEW U, NEW G, NEW n, NEW P, NEW C, NEW phase, PagesOK(U, G, n, P, C, phase),
         NEW u \in 1..n, u \notin U \cup G,
         NEW D, D = [C EXCEPT !.disturbed = @ \/ P.todo = {"rows"}]
  PROVE  PagesOK(U \cup {u}, G, n, P, D, phase)
  <1>1. PagesTyped(U, G, n, P, C) /\ n \in Nat /\ U \in SUBSET (1..n)
    BY DEF PagesOK, PagesTyped
  <1>2. /\ D.active = C.active /\ D.offset = C.offset /\ D.expected = C.expected
        /\ D.seen = C.seen /\ (D.disturbed <=> C.disturbed \/ P.todo = {"rows"})
        /\ D \in [active: BOOLEAN, offset: Nat, expected: SUBSET (U \cup G),
                  seen: SUBSET (1..n), disturbed: BOOLEAN]
    BY <1>1 DEF PagesTyped
  <1>3. PagesTyped(U \cup {u}, G, n, P, D)
    <2>1. U \cup {u} \in SUBSET (1..n)
      BY <1>1
    <2>2. D \in [active: BOOLEAN, offset: Nat, expected: SUBSET ((U \cup {u}) \cup G),
                 seen: SUBSET (1..n), disturbed: BOOLEAN]
      BY <1>2
    <2> QED BY <1>1, <2>1, <2>2 DEF PagesTyped
  <1>4. u \notin C.expected
    BY <1>1 DEF PagesTyped
  <1>5. /\ Shown(P, D) = Shown(P, C) /\ Reached(P, D, phase) = Reached(P, C, phase)
        /\ AllShown(U \cup {u}, P, D) <=> AllShown(U, P, C)
    BY <1>2, <1>4 DEF Shown, Reached, AllShown
  <1>6. ASSUME ~ D.disturbed
        PROVE  /\ Behind(U \cup {u}, D.expected, Shown(P, D), Reached(P, D, phase))
               /\ phase = "reading" => TotalTells(U \cup {u}, P, D)
    <2>1. Behind(U, C.expected, Shown(P, C), Reached(P, C, phase))
      BY <1>2, <1>6 DEF PagesOK
    <2>2. Reached(P, C, phase) \in Nat
      BY <1>1, ReachedIsANumber
    <2>3. Behind(U \cup {u}, C.expected, Shown(P, C), Reached(P, C, phase))
      BY <1>1, <1>4, <2>1, <2>2, ArrivalKeepsBehind
    <2>4. phase = "reading" => TotalTells(U \cup {u}, P, D)
      BY <1>2, <1>5, <1>6 DEF PagesOK, TotalTells
    <2> QED BY <1>2, <1>5, <2>3, <2>4
  <1> QED BY <1>2, <1>3, <1>5, <1>6 DEF PagesOK

LEMMA DeleteKeepsPages ==
  ASSUME NEW U, NEW G, NEW n, NEW P, NEW C, NEW phase, PagesOK(U, G, n, P, C, phase),
         NEW u \in 1..n,
         NEW D, D = [C EXCEPT !.disturbed = @ \/ \E v \in C.seen \cup P.rows : v <= u]
  PROVE  PagesOK(U \ {u}, G \cup {u}, n, P, D, phase)
  <1>1. PagesTyped(U, G, n, P, C) /\ n \in Nat /\ U \in SUBSET (1..n)
    BY DEF PagesOK, PagesTyped
  <1>2. /\ D.active = C.active /\ D.offset = C.offset /\ D.expected = C.expected
        /\ D.seen = C.seen /\ (D.disturbed <=> C.disturbed \/ \E v \in Shown(P, C) : v <= u)
        /\ D \in [active: BOOLEAN, offset: Nat, expected: SUBSET (U \cup G),
                  seen: SUBSET (1..n), disturbed: BOOLEAN]
    BY <1>1 DEF PagesTyped, Shown
  <1>3. PagesTyped(U \ {u}, G \cup {u}, n, P, D)
    <2>1. U \ {u} \in SUBSET (1..n)
      BY <1>1
    <2>2. D \in [active: BOOLEAN, offset: Nat, expected: SUBSET ((U \ {u}) \cup (G \cup {u})),
                 seen: SUBSET (1..n), disturbed: BOOLEAN]
      BY <1>2
    <2> QED BY <1>1, <2>1, <2>2 DEF PagesTyped
  <1>4. /\ Shown(P, D) = Shown(P, C) /\ Reached(P, D, phase) = Reached(P, C, phase)
        /\ AllShown(U, P, C) => AllShown(U \ {u}, P, D)
    BY <1>2 DEF Shown, Reached, AllShown
  <1>5. Cardinality(U \ {u}) <= Cardinality(U)
        /\ Cardinality(U \ {u}) \in Nat /\ Cardinality(U) \in Nat
    <2>1. U \ {u} \in SUBSET U /\ U \ {u} \in SUBSET (1..n)
      BY <1>1
    <2> QED BY <1>1, <2>1, SubsetsOfAccounts, FS_Subset
  <1>6. ASSUME ~ D.disturbed
        PROVE  /\ Behind(U \ {u}, D.expected, Shown(P, D), Reached(P, D, phase))
               /\ phase = "reading" => TotalTells(U \ {u}, P, D)
    <2>1. Behind(U, C.expected, Shown(P, C), Reached(P, C, phase))
      BY <1>2, <1>6 DEF PagesOK
    <2>2. Reached(P, C, phase) \in Nat /\ Shown(P, C) \in SUBSET (1..n)
      BY <1>1, ReachedIsANumber
    <2>3. Behind(U \ {u}, C.expected, Shown(P, C), Reached(P, C, phase))
      BY <1>1, <1>2, <1>6, <2>1, <2>2, DepartureKeepsBehind
    <2>4. phase = "reading" => TotalTells(U, P, C)
      BY <1>2, <1>6 DEF PagesOK
    <2>5. P.total \in Nat
      BY <1>1 DEF PagesTyped
    <2>6. ASSUME phase = "reading" PROVE TotalTells(U \ {u}, P, D)
      BY <1>2, <1>4, <1>5, <2>4, <2>5, <2>6 DEF TotalTells
    <2> QED BY <1>2, <1>4, <2>3, <2>6
  <1> QED BY <1>2, <1>3, <1>4, <1>6 DEF PagesOK

-----------------------------------------------------------------------------
(* A client pages while accounts come and go *)

Phase == IF \E r \in Requests : req[r].pc = "page" THEN "reading" ELSE "idle"

\* One page after the other.
OneLister ==
    \A r, q \in Requests : req[r].route = "list" /\ req[q].route = "list" => r = q

ScanInv == OneLister /\ PagesOK(users, gone, stamped, page, scan, Phase)

\* Call r becomes v.
Becomes(r, v) == req' = [req EXCEPT ![r] = v]

LEMMA PhaseOf ==
  ASSUME ControlInv, OneLister, NEW r \in Requests, NEW v, Becomes(r, v),
         v.route \in {req[r].route, "none"}
  PROVE  /\ OneLister'
         /\ req[r].pc # "page" /\ v.pc # "page" => Phase' = Phase
         /\ v.pc = "page" => Phase' = "reading"
         /\ req[r].pc = "page" => Phase = "reading"
         /\ req[r].pc = "page" /\ v.pc # "page" => Phase' = "idle"
         /\ req[r].route = "list" /\ req[r].pc # "page" => Phase = "idle"
  <1>1. req'[r] = v /\ \A q \in Requests \ {r} : req'[q] = req[q]
    BY DEF ControlInv, Becomes
  <1>2. \A q \in Requests : req[q].pc = "page" => req[q].route = "list"
    BY DEF ControlInv, CallOK
  <1>3. OneLister'
    <2>1. \A q \in Requests : req'[q].route = "list" => req[q].route = "list"
      BY <1>1
    <2> QED BY <2>1 DEF OneLister
  <1>4. req[r].route = "list" => \A q \in Requests \ {r} : req[q].pc # "page"
    BY <1>2 DEF OneLister
  <1> QED BY <1>1, <1>2, <1>3, <1>4 DEF Phase

LEMMA ThrowIs ==
  ASSUME ControlInv, NEW r \in Requests, NEW name, Throw(r, name)
  PROVE  \E v : Becomes(r, v) /\ v.route = req[r].route /\ v.pc = "failed"
  <1> DEFINE v == [req[r] EXCEPT !.pc = "failed",
                                 !.exception = [name |-> name, meta |-> {}, header |-> {}]]
  <1>1. req[r] \in CallRecord
    BY DEF ControlInv
  <1>2. v.route = req[r].route /\ v.pc = "failed"
    BY <1>1 DEF CallRecord
  <1>3. Becomes(r, v)
    BY DEF Throw, Raise, Becomes
  <1> HIDE DEF v
  <1> QED BY <1>2, <1>3

LEMMA EndIs ==
  ASSUME ControlInv, NEW r \in Requests, End(r)
  PROVE  Becomes(r, Idle) /\ Idle.route = "none" /\ Idle.pc = "idle"
  BY DEF End, Becomes, Idle

LEMMA GotoIs ==
  ASSUME ControlInv, NEW r \in Requests, NEW l, Goto(r, l)
  PROVE  \E v : Becomes(r, v) /\ v.route = req[r].route /\ v.pc = l
  <1> DEFINE v == [req[r] EXCEPT !.pc = l]
  <1>1. req[r] \in CallRecord
    BY DEF ControlInv
  <1>2. v.route = req[r].route /\ v.pc = l
    BY <1>1 DEF CallRecord
  <1>3. Becomes(r, v)
    BY DEF Goto, Becomes
  <1> HIDE DEF v
  <1> QED BY <1>2, <1>3

\* What does not touch the pages.
LEMMA AwayFromPages ==
  ASSUME ControlInv, NEW r \in Requests,
         Guard(r) \/ HandlerSeesNoUser(r) \/ Refuse(r) \/ Handle(r) \/ StampUser(r)
         \/ DeleteUser(r) \/ Answer(r)
  PROVE  /\ \E v : Becomes(r, v) /\ v.route \in {req[r].route, "none"} /\ v.pc # "page"
         /\ req[r].pc # "page"
         /\ UNCHANGED <<gone, pagesVars>> /\ stamped \in Nat /\ stamped' \in Nat
         /\ stamped <= stamped'
  <1>1. stamped \in Nat /\ req[r] \in CallRecord
    BY DEF ControlInv, StoreInv
  <1>2. CASE Guard(r)
    <2>1. req[r].pc = "guard" /\ UNCHANGED accounts
      BY <1>2 DEF Guard
    <2>2. PICK bearer :
            \/ req' = [req EXCEPT ![r] = [@ EXCEPT !.pc = "failed", !.bearer = bearer,
                                                   !.exception.name = "unauthenticated"]]
            \/ Throw(r, "forbidden") \/ Throw(r, "validationFailed")
            \/ req' = [req EXCEPT ![r] = [@ EXCEPT !.pc = "handle", !.bearer = bearer,
                                                   !.user = bearer.user]]
      BY <1>2 DEF Guard, Transform
    <2>3. ASSUME NEW v, \/ v = [req[r] EXCEPT !.pc = "failed", !.bearer = bearer,
                                              !.exception.name = "unauthenticated"]
                        \/ v = [req[r] EXCEPT !.pc = "handle", !.bearer = bearer,
                                              !.user = bearer.user]
          PROVE  v.route = req[r].route /\ v.pc # "page"
      BY <1>1, <2>3 DEF CallRecord
    <2>4. \E v : Becomes(r, v) /\ v.route = req[r].route /\ v.pc # "page"
      <3>1. CASE req' = [req EXCEPT ![r] = [@ EXCEPT !.pc = "failed", !.bearer = bearer,
                                                     !.exception.name = "unauthenticated"]]
        <4>1. PICK v : v = [req[r] EXCEPT !.pc = "failed", !.bearer = bearer,
                                          !.exception.name = "unauthenticated"]
          OBVIOUS
        <4>2. Becomes(r, v)
          BY <3>1, <4>1 DEF Becomes
        <4> QED BY <2>3, <4>1, <4>2
      <3>2. CASE req' = [req EXCEPT ![r] = [@ EXCEPT !.pc = "handle", !.bearer = bearer,
                                                     !.user = bearer.user]]
        <4>1. PICK v : v = [req[r] EXCEPT !.pc = "handle", !.bearer = bearer,
                                          !.user = bearer.user]
          OBVIOUS
        <4>2. Becomes(r, v)
          BY <3>2, <4>1 DEF Becomes
        <4> QED BY <2>3, <4>1, <4>2
      <3>3. CASE Throw(r, "forbidden") \/ Throw(r, "validationFailed")
        <4>1. \E v : Becomes(r, v) /\ v.route = req[r].route /\ v.pc = "failed"
          BY <3>3, ThrowIs
        <4> QED BY <4>1
      <3> QED BY <2>2, <3>1, <3>2, <3>3
    <2> QED BY <1>1, <2>1, <2>4 DEF accounts
  <1>3. CASE HandlerSeesNoUser(r)
    <2>1. /\ \E v : Becomes(r, v) /\ v.route = req[r].route /\ v.pc = "failed"
          /\ req[r].pc = "handle" /\ UNCHANGED accounts
      BY <1>3, ThrowIs DEF HandlerSeesNoUser
    <2> QED BY <1>1, <2>1 DEF accounts
  <1>4. CASE Refuse(r)
    <2>1. req[r].pc = "handle" /\ UNCHANGED accounts
      BY <1>4 DEF Refuse
    <2>2. PICK name, meta : Raise(r, name, meta, {})
      BY <1>4 DEF Refuse, Throw
    <2>3. PICK v : v = [req[r] EXCEPT !.pc = "failed",
                                      !.exception = [name |-> name, meta |-> meta, header |-> {}]]
      OBVIOUS
    <2>4. Becomes(r, v) /\ v.route = req[r].route /\ v.pc = "failed"
      BY <1>1, <2>2, <2>3 DEF Raise, Becomes, CallRecord
    <2> QED BY <1>1, <2>1, <2>4 DEF accounts
  <1>5. CASE Handle(r) \/ Answer(r)
    <2>1. /\ Becomes(r, Idle) /\ Idle.route = "none" /\ Idle.pc = "idle"
          /\ req[r].pc \in {"handle", "failed"} /\ UNCHANGED accounts
      BY <1>5, EndIs DEF Handle, Answer
    <2> QED BY <1>1, <2>1 DEF accounts
  <1>6. CASE StampUser(r)
    <2>1. PICK n : n = stamped + 1
      OBVIOUS
    <2>2. PICK v : v = [req[r] EXCEPT !.pc = "insert", !.user = n]
      OBVIOUS
    <2>3. /\ Becomes(r, v) /\ req[r].pc = "handle" /\ stamped' = n
          /\ UNCHANGED <<gone, pagesVars>>
      BY <1>6, <2>1, <2>2 DEF StampUser, Becomes
    <2>4. v.route = req[r].route /\ v.pc = "insert"
      BY <1>1, <2>2 DEF CallRecord
    <2> QED BY <1>1, <2>1, <2>3, <2>4
  <1>7. CASE DeleteUser(r)
    <2>1. /\ \E v : Becomes(r, v) /\ v.route = req[r].route /\ v.pc = "drop"
          /\ req[r].pc = "handle" /\ UNCHANGED accounts
      BY <1>7, GotoIs DEF DeleteUser
    <2> QED BY <1>1, <2>1 DEF accounts
  <1> QED BY <1>2, <1>3, <1>4, <1>5, <1>6, <1>7

\* A step of a call that stays away from the pages, or of nobody.
LEMMA QuietKeepsScan ==
  ASSUME ControlInv, ScanInv, UNCHANGED <<gone, pagesVars>>, stamped' \in Nat, stamped <= stamped',
         OneLister', Phase' = Phase
  PROVE  ScanInv'
  <1>1. PagesOK(users, gone, stamped', page, scan, Phase)
    BY OthersKeepPages DEF ScanInv
  <1> QED BY <1>1 DEF ScanInv, pagesVars

LEMMA StepKeepsScan ==
  ASSUME ControlInv, ScanInv, NEW r \in Requests, Step(r)
  PROVE  ScanInv'
  <1>0. /\ OneLister /\ PagesOK(users, gone, stamped, page, scan, Phase)
        /\ PagesTyped(users, gone, stamped, page, scan)
    BY DEF ScanInv, PagesOK
  <1>1. CASE Guard(r) \/ HandlerSeesNoUser(r) \/ Refuse(r) \/ Handle(r) \/ StampUser(r)
             \/ DeleteUser(r) \/ Answer(r)
    <2>1. /\ \E v : Becomes(r, v) /\ v.route \in {req[r].route, "none"} /\ v.pc # "page"
          /\ req[r].pc # "page"
          /\ UNCHANGED <<gone, pagesVars>> /\ stamped \in Nat /\ stamped' \in Nat
          /\ stamped <= stamped'
      BY <1>1, AwayFromPages
    <2>2. OneLister' /\ Phase' = Phase
      BY <1>0, <2>1, PhaseOf
    <2> QED BY <2>1, <2>2, QuietKeepsScan
  <1>2. CASE InsertUser(r)
    <2>1. req[r].pc = "insert" /\ UNCHANGED <<stamped, gone>>
      BY <1>2 DEF InsertUser
    <2>2. PICK u : u = req[r].user
      OBVIOUS
    <2>3. u \in 1..stamped /\ u \notin users \cup gone
      BY <2>1, <2>2 DEF ControlInv, CallOK
    <2>4. CASE Insert(req[r].user) /\ End(r)
      <3>1. OneLister' /\ Phase' = Phase
        BY <1>0, <2>1, <2>4, EndIs, PhaseOf
      <3>2. PICK D : D = [scan EXCEPT !.disturbed = @ \/ page.todo = {"rows"}]
        OBVIOUS
      <3>3. users' = users \cup {u} /\ page' = page /\ scan' = D
        BY <2>2, <2>4, <3>2 DEF Insert
      <3>4. PagesOK(users \cup {u}, gone, stamped, page, D, Phase)
        BY <1>0, <2>3, <3>2, InsertKeepsPages
      <3> QED BY <2>1, <3>1, <3>3, <3>4 DEF ScanInv
    <2>5. CASE Throw(r, "emailTaken") /\ UNCHANGED pagesVars
      <3>1. \E v : Becomes(r, v) /\ v.route = req[r].route /\ v.pc = "failed"
        BY <2>5, ThrowIs
      <3>2. OneLister' /\ Phase' = Phase
        BY <1>0, <2>1, <3>1, PhaseOf
      <3> QED BY <2>1, <2>5, <3>2 DEF ScanInv, pagesVars
    <2> QED BY <1>2, <2>4, <2>5 DEF InsertUser
  <1>3. CASE DropUser(r)
    <2>1. /\ req[r].pc = "drop" /\ UNCHANGED stamped /\ End(r)
      BY <1>3 DEF DropUser
    <2>2. PICK u : u = req[r].user
      OBVIOUS
    <2>3. u \in 1..stamped
      <3>1. CallOK(req[r]) /\ Consistent("deleteAccount", RouteOf(r))
            /\ req[r].route = "deleteAccount"
        BY <2>1, HandlingFacts DEF CallOK
      <3>2. u \in users \cup gone
        BY <2>1, <2>2, <3>1 DEF CallOK, CallerOK, Consistent, ReadsUser, RouteOf
      <3> QED BY <3>2 DEF ControlInv, StoreInv
    <2>4. OneLister' /\ Phase' = Phase
      BY <1>0, <2>1, EndIs, PhaseOf
    <2>5. PICK D : D = [scan EXCEPT !.disturbed = @ \/ \E v \in scan.seen \cup page.rows : v <= u]
      OBVIOUS
    <2>6. users' = users \ {u} /\ gone' = gone \cup {u} /\ page' = page /\ scan' = D
      BY <1>3, <2>2, <2>5 DEF DropUser, Delete
    <2>7. PagesOK(users \ {u}, gone \cup {u}, stamped, page, D, Phase)
      BY <1>0, <2>3, <2>5, DeleteKeepsPages
    <2> QED BY <2>1, <2>4, <2>6, <2>7 DEF ScanInv
  <1>4. CASE ListUsers(r)
    <2>1. /\ req[r].pc = "handle" /\ req[r].route = "list"
          /\ \E v : Becomes(r, v) /\ v.route = req[r].route /\ v.pc = "page"
      BY <1>4, GotoIs DEF ListUsers
    <2>2. OneLister' /\ Phase = "idle" /\ Phase' = "reading"
      BY <1>0, <2>1, PhaseOf
    <2>3. PICK Q, D : /\ Q = [NoPage EXCEPT !.todo = {"rows", "total"}]
                      /\ D = IF scan.active THEN scan
                             ELSE [NoScan EXCEPT !.active = TRUE, !.expected = users]
      OBVIOUS
    <2>4. page' = Q /\ scan' = D /\ UNCHANGED <<users, gone, stamped>>
      BY <1>4, <2>3 DEF ListUsers, FindPage
    <2>5. PagesOK(users, gone, stamped, Q, D, "reading")
      BY <1>0, <2>2, <2>3, FindKeepsPages
    <2> QED BY <2>2, <2>4, <2>5 DEF ScanInv
  <1>5. CASE ReadPage(r)
    <2>1. req[r].pc = "page" /\ UNCHANGED <<stamped, gone>> /\ Phase = "reading"
      BY <1>5 DEF ReadPage, Phase
    <2>2. CASE ReadRows /\ UNCHANGED req
      <3>1. PICK R : R = {u \in users : Rank(users, u) \in
                                          scan.offset..(scan.offset + PageLimit - 1)}
        OBVIOUS
      <3>2. PICK Q : Q = [page EXCEPT !.todo = @ \ {"rows"}, !.rows = R]
        OBVIOUS
      <3>3. R = Page(scan.offset)
        BY <3>1 DEF Page, Newer, Rank
      <3>4. "rows" \in page.todo /\ page' = Q /\ UNCHANGED <<users, scan>>
        BY <2>2, <3>2, <3>3 DEF ReadRows
      <3>5. PagesOK(users, gone, stamped, Q, scan, "reading")
        BY <1>0, <2>1, <3>1, <3>2, <3>4, ReadKeepsPages
      <3>6. OneLister' /\ Phase' = "reading"
        BY <1>0, <2>1, <2>2 DEF OneLister, Phase
      <3> QED BY <2>1, <3>4, <3>5, <3>6 DEF ScanInv
    <2>3. CASE CountDocuments /\ UNCHANGED req
      <3>1. PICK Q : Q = [page EXCEPT !.todo = @ \ {"total"}, !.total = Cardinality(users)]
        OBVIOUS
      <3>2. "total" \in page.todo /\ page' = Q /\ UNCHANGED <<users, scan>>
        BY <2>3, <3>1 DEF CountDocuments
      <3>3. PagesOK(users, gone, stamped, Q, scan, "reading")
        BY <1>0, <2>1, <3>1, <3>2, CountKeepsPages
      <3>4. OneLister' /\ Phase' = "reading"
        BY <1>0, <2>1, <2>3 DEF OneLister, Phase
      <3> QED BY <2>1, <3>2, <3>3, <3>4 DEF ScanInv
    <2>4. CASE TakePage /\ End(r)
      <3>1. PICK D : D = [scan EXCEPT !.offset = @ + PageLimit,
                                      !.seen = @ \cup page.rows,
                                      !.active = scan.offset + PageLimit < page.total]
        OBVIOUS
      <3>2. page.todo = {} /\ page' = NoPage /\ scan' = D /\ UNCHANGED users
        BY <2>4, <3>1 DEF TakePage
      <3>3. PagesOK(users, gone, stamped, NoPage, D, "idle")
        BY <1>0, <2>1, <3>1, <3>2, TakeKeepsPages
      <3>4. OneLister' /\ Phase' = "idle"
        BY <1>0, <2>1, <2>4, EndIs, PhaseOf
      <3> QED BY <2>1, <3>2, <3>3, <3>4 DEF ScanInv
    <2> QED BY <1>5, <2>2, <2>3, <2>4 DEF ReadPage
  <1>6. CASE Break(r)
    <2>1. /\ \E v : Becomes(r, v) /\ v.route = req[r].route /\ v.pc = "failed"
          /\ UNCHANGED <<stamped, gone>>
      BY <1>6, ThrowIs DEF Break
    <2>2. CASE req[r].pc = "page"
      <3>1. OneLister' /\ Phase' = "idle"
        BY <1>0, <2>1, <2>2, PhaseOf
      <3>2. page' = NoPage /\ scan' = NoScan /\ UNCHANGED users
        BY <1>6, <2>2 DEF Break, DropPage
      <3>3. PagesOK(users, gone, stamped, NoPage, NoScan, "idle")
        BY <1>0, DropKeepsPages
      <3> QED BY <2>1, <3>1, <3>2, <3>3 DEF ScanInv
    <2>3. CASE req[r].pc # "page"
      <3>1. OneLister' /\ Phase' = Phase
        BY <1>0, <2>1, <2>3, PhaseOf
      <3>2. UNCHANGED pagesVars
        BY <1>6, <2>3 DEF Break
      <3> QED BY <2>1, <3>1, <3>2 DEF ScanInv, pagesVars
    <2> QED BY <2>2, <2>3
  <1> QED BY <1>1, <1>2, <1>3, <1>4, <1>5, <1>6 DEF Step

LEMMA ReceiveKeepsScan ==
  ASSUME ControlInv, ScanInv, NEW r \in Requests, NEW route \in DOMAIN Routes,
         NEW client \in Clients, NEW forged \in ForgedHeaders, Receive(r, route, client, forged)
  PROVE  ScanInv'
  <1>1. /\ req[r].pc = "idle" /\ UNCHANGED accounts
        /\ route = "list" => \A q \in Requests : req[q].route # "list"
    BY DEF Receive
  <1>2. \E v : Becomes(r, v) /\ v.route = route /\ v.pc # "page"
    <2>1. Start(route).pc = "guard" /\ Start(route).route = route /\ Start(route) \in CallRecord
      BY StartIs
    <2>2. \E v : /\ Becomes(r, v)
                 /\ \/ v = Start(route)
                    \/ \E x : v = [[Start(route) EXCEPT !.pc = "failed"] EXCEPT !.exception = x]
                    \/ \E name : v = [[Start(route) EXCEPT !.pc = "failed"]
                                        EXCEPT !.exception.name = name]
      BY DEF Receive, Becomes, Start
    <2>3. PICK v : /\ Becomes(r, v)
                   /\ \/ v = Start(route)
                      \/ \E x : v = [[Start(route) EXCEPT !.pc = "failed"] EXCEPT !.exception = x]
                      \/ \E name : v = [[Start(route) EXCEPT !.pc = "failed"]
                                          EXCEPT !.exception.name = name]
      BY <2>2
    <2>4. v.route = route /\ v.pc # "page"
      BY <2>1, <2>3 DEF CallRecord
    <2> QED BY <2>3, <2>4
  <1>3. PICK v : Becomes(r, v) /\ v.route = route /\ v.pc # "page"
    BY <1>2
  <1>4. req'[r] = v /\ \A q \in Requests \ {r} : req'[q] = req[q]
    BY <1>3 DEF ControlInv, Becomes
  <1>5. OneLister'
    BY <1>1, <1>3, <1>4 DEF OneLister, ScanInv
  <1>6. Phase' = Phase
    BY <1>1, <1>3, <1>4 DEF Phase
  <1> QED BY <1>1, <1>5, <1>6 DEF ScanInv, accounts, pagesVars

LEMMA ScanHolds == Spec => []ScanInv
  <1>1. Init => ScanInv
    <2> SUFFICES ASSUME Init PROVE ScanInv
      OBVIOUS
    <2>1. /\ req = [r \in Requests |-> Idle] /\ Idle.pc = "idle" /\ Idle.route = "none"
          /\ page = NoPage /\ scan = NoScan /\ users = 1..InitialUsers /\ stamped = InitialUsers
      BY DEF Init, PagesInit, Idle
    <2>2. OneLister /\ Phase = "idle"
      BY <2>1 DEF OneLister, Phase
    <2>3. PagesTyped(users, gone, stamped, page, scan)
      BY <2>1, HttpApiAssumption DEF PagesTyped, NoPage, NoScan
    <2>4. AllShown(users, page, scan) /\ page.todo = {}
      BY <2>1, NoPageIs DEF AllShown
    <2>5. Behind(users, scan.expected, Shown(page, scan), Reached(page, scan, Phase))
      BY <2>1, NoPageIs DEF Behind
    <2> QED BY <2>1, <2>2, <2>3, <2>4, <2>5 DEF ScanInv, PagesOK
  <1>2. ControlInv /\ ScanInv /\ [Next]_vars => ScanInv'
    <2> SUFFICES ASSUME ControlInv, ScanInv, [Next]_vars PROVE ScanInv'
      OBVIOUS
    <2>1. ASSUME NEW r \in Requests, Call(r) PROVE ScanInv'
      <3>1. scenario.routes \subseteq DOMAIN Routes
        BY HttpApiAssumption DEF ControlInv, StoreInv, Scenario
      <3> QED BY <2>1, <3>1, ReceiveKeepsScan DEF Call, ForgedHeaders
    <2>2. CASE Tick \/ Boot \/ UNCHANGED vars
      <3>1. UNCHANGED <<req, accounts>>
        BY <2>2 DEF Tick, Boot, vars, accounts, pagesVars
      <3>2. OneLister' /\ Phase' = Phase
        BY <3>1 DEF ScanInv, OneLister, Phase
      <3> QED BY <3>1, <3>2 DEF ScanInv, accounts, pagesVars
    <2> QED BY <2>1, <2>2, StepKeepsScan DEF Next
  <1> QED BY <1>1, <1>2, ControlHolds, PTL DEF Spec

\* Whoever pages until the total is reached was shown every account that was
\* there all along, whatever sign-ups and deletions run between the reads, unless
\* rows it is past moved.
THEOREM NobodyIsSkipped == Spec => []NoAccountIsSkipped
  <1>1. ScanInv => NoAccountIsSkipped
    <2> SUFFICES ASSUME ScanInv, ~ scan.active, ~ scan.disturbed
                 PROVE  scan.expected \cap users \subseteq scan.seen
      BY DEF NoAccountIsSkipped
    <2>1. PagesOK(users, gone, stamped, page, scan, Phase)
      BY DEF ScanInv
    <2>2. Phase \in {"reading", "idle"}
      BY DEF Phase
    <2>3. page = NoPage /\ AllShown(users, page, scan)
      BY <2>1, <2>2 DEF PagesOK
    <2> QED BY <2>3, NoPageIs DEF AllShown, Shown
  <1> QED BY <1>1, ScanHolds, PTL

=============================================================================
