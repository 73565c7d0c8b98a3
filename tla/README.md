# Verification of template-nest-backend

TLA+ models of the authentication backend in this repository, the TLC runs that
check them on small instances, and proofs checked by TLAPS. Paths below are
relative to the repository root.

The server is a NestJS application on MongoDB without transactions. Its
difficulty is not in any one function but in what lies between two `await`s:
every handler gives up the event loop at each database call, so two requests of
one account interleave there, a TTL monitor deletes rows at its leisure, the
clock moves on, and the process may stop. Tests run one request at a time. The
models run them all.

## 1. Inventory

| Part | State it keeps | Operations | Talks to |
|---|---|---|---|
| `RefreshTokensService` | `refreshtokens`: hash, user, session, `consumedAt`, `expiresAt` (TTL) | persist, consume, revokeSession, revokeAllForUser | sessions, users, mail |
| `SessionsService` | `sessions`: user, device, `expiresAt` (TTL) | start, touch, delete, deleteAllForUser, belongsToUser, findForUser | called by auth and refresh tokens |
| `ActionTokensService` | `actiontokens`: hash, type, user, `expiresAt` (TTL) | issue, redeem, deleteForUser | called by reset, verification, deletion |
| `PasswordResetService` | none | requestReset, resetPassword | users, rate limit, action tokens, credentials, refresh tokens, mail |
| `EmailVerificationService` | none | requestVerification, sendVerification, verify, resend | users, rate limit, action tokens, mail |
| `AccountRateLimitService` | `accountactioncounters`: key, count, `expiresAt` (TTL) | consume | mail |
| `SignInLockoutService` | `signinattempts`: email, failedCount, `expiresAt` (TTL) | assertNotLocked, recordFailure, reset | users, mail |
| `UsersService` | `users`: email (unique), names, emailVerified, role, sessionsValidFrom | create, delete, lookups, markSessionsRevoked, markEmailVerified, setRole, updateProfile, findPage | credentials |
| `CredentialsService` | `credentials`: user + type (unique), hash | createPassword, verifyPassword, updatePassword, replacePassword, deleteForUser | breached-password API |
| `AuthService` | none | signUp, signIn, refresh, logout, sessions, changePassword, deleteAccount | everything above |
| `TokensService`, `JwtAuthGuard`, `RolesGuard` | none (JWTs are held by clients) | issue and verify JWTs; admit a request | users |
| `BreachedPasswordsService` | none | isBreached (external, fails open) | haveibeenpwned |
| controllers, validation pipe, `AllExceptionsFilter` | none that outlives a request | the 18 routes; `catch` | guards, services |
| `ThrottlerGuard` (library) as wired in `app.module.ts` | hits per handler, profile and client address, in memory | two profiles, `@Throttle`, `@SkipThrottle` | `request.ip`, that is, `TRUST_PROXY` |
| configuration (`validateEnv`, `trustProxy.util`), `main.ts`, `app.setup.ts` | none after start | boot or refuse to | environment |
| `HealthService`, `MailService` (a stub that logs), `SecurityEventsService` (log lines) | none | report, send, record | called by everything |
| `migrations/` | index definitions, moved fields | up, down | all collections |

What makes each part correct, and what is hard about it:

* **Refresh tokens and sessions.** A session is a chain of tokens of which at
  most one is redeemable; a replayed token ends the session; a revocation,
  logout, password change or deletion ends what it says it ends; whoever can
  refresh appears in the device list. Hard: `consume`, `persist` and `touch` are
  three awaits, a revocation is two deletes in a `Promise.all`, and any of them
  interleave.
* **Mailed tokens.** A token works once, for one action and one account; the
  newest one works; a mailbox is not flooded. Hard: `issue` is a delete and a
  create; flows overlap with each other and with the deletion of the account.
* **Lockout and cap.** Guesses and mails per window are bounded, a lock is
  lifted only by time or a right password, the owner is warned once per window.
  Hard: dropping a record that ran out and counting on what is there are two
  calls; a check and the failure it should have prevented are further apart.
* **Accounts and passwords.** One account per address, one password per
  account, none without the other. Hard: two collections, no transaction, a
  compensation, upserts, a cascade.
* **Access tokens.** No service for a deleted account or a retired token; no
  refusal of a fresh one. Hard: whole seconds against milliseconds, a cutoff
  that is stored some time after it was read off the clock.
* **The way in and out.** No client exceeds a limit, whatever it writes into a
  header, and none is cut off for what others did; a handler that wants the caller
  has one; each answer has the status, code and seconds its cause stands for. Hard:
  the address depends on a header, the proxies and a setting together; guards,
  pipe, services, throttler and body parser throw different things into one filter.
* **Paging.** Whoever pages to the end has seen everyone. Hard: a page is two reads,
  and accounts come and go between and within pages.
* **Migrations.** Nothing a user has is lost by moving it, or by moving it twice or
  back. Hard: each document takes two calls, and a run may die between them.

`PROJECT.json` lists every hazard with its line and the properties that watch it,
or why none can.

## 2. Modules

```
RotatingSessions  <--implements--  DeviceSessions
SingleUseTokens   <--implements--  ActionTokens  --INSTANCE-->  AccountRateLimit
UserPages         <--EXTENDS--     HttpApi
SignInLockout        AccessGuard        Accounts        Migrations
<module>_proofs: the theorems about the module and their proofs
MC<module>: the symmetry set of a module's runs, its initial data or its scenarios; MC<module>.cfg, or
MC<module>_<run>.cfg where a module has several: one run
```

All modules share one way of modelling the server:

* A **request slot** is a record: the handler it runs (`op`), the await it is
  parked at (`pc`), and what its closure remembers. One action is what happens
  between two awaits: the database operation that returned, with the code up to
  the next call. A `Promise.all` is the set of branches that have not settled
  (`todo`), which run in any order.
* A **collection** is a set of records. One document operation (`updateOne`,
  `findOneAndUpdate`, `findOneAndDelete`, an upsert) is atomic. `deleteMany` is
  not: in DeviceSessions and ActionTokens it removes its matches one at a time
  and returns when it finds none left, so inserts may slip in while it runs. In
  Accounts and AccessGuard, where a revocation of all sessions is only one step
  of a flow, it is one action.
* **Keys** (hashes, ids, passwords) are serial numbers: a random value never
  repeats, and nothing else about it matters. Addresses and accounts are model
  values. What only shapes a response (names, user agents, wording, logging) is
  left out.
* The **clock** is a number that may advance at any time. `Slow` names the requests
  it may advance *during*; a request outside `Slow` takes no time (in SignInLockout
  only its `recordFailure` takes none: any request may verify a password for as long
  as it likes). A time that the code reads before an `await` is the time the call is
  *sent*: `asked` is what the deletes of the counters compare `expiresAt` with, and an
  upsert or insert whose predecessor returned at `since` carries an expiry reckoned from
  any instant between `since` and its arrival. So a slow one creates a counter that is
  short or over (`overdue`), or moves a window's end back. TTL monitors (`Purge`)
  delete an expired row at any later time, or never.
* `Faulty` names the requests that may **die** at any await: a crash, a failed
  call, or a lost response. (A crash of the process is every request dying.)
* **History variables** (marked "history" where declared) record what a
  property needs to look back at, among them what is set aside as already broken
  (`lost`, `torn`, `overdue`, `silenced`). A guard reads one
  only to keep to a bound (the serial numbers given out, `MaxCrashes` on `died`) or to
  keep clients and operators to what is possible: a token is presented by whoever was
  handed it (`handed`), a session that was ended is not refreshed (`ended` in
  AccessGuard, which has no rows), no password is written while a migration is left
  half done (`half`).

| Module | Models | Correspondence |
|---|---|---|
| `DeviceSessions` | `RefreshTokensService`, `SessionsService`, and what signIn, refresh, logout, revokeSession, changePassword, resetPassword, deleteAccount do to their collections | `Consume`/`FindReused` are the two queries of `consume`; `FindUser`, `Sign`, `Persist`, `Touch`, `Respond` the awaits of `refresh` and `issueTokens`; `DeleteTokens`, `DeleteSessions`, `Revoked` the two branches of a revocation and its end; `FailBranch` a rejected branch whose sibling runs on |
| `RotatingSessions` | the promise of rotation, without requests, clock or rows | `Open`, `Issue`, `Abandon`, `Redeem`, `Kill` |
| `AccountRateLimit` | `AccountRateLimitService.consume` | `DropExpired`, `Count`, `Alert`, `Return`: delete, upsert, mail, verdict; `Abort` is a call cut off at any of them |
| `ActionTokens` | `ActionTokensService`, `PasswordResetService`, `EmailVerificationService`, the verification mail of signUp, the clean-up of deleteAccount | `AskRateLimit` and `Limited` bracket the instantiated `RateLimit`; `DropOld` and `Create` (`Issue`) are `issue`; `Redeem` is the find-and-delete |
| `SingleUseTokens` | the promise of mailed tokens, without requests, limits, clock or rows | `Issue`, `Mail`, `Use`, `Drop`, `Act`; `Open` and `Close` of the account |
| `SignInLockout` | `SignInLockoutService` and the password checks of signIn, changePassword, deleteAccount around it | `Attempt` is assertNotLocked letting a request pass and the account lookup; `DropExpired`, `RecordFailure`, `NotifyAccountOwner` are recordFailure; `DropPassword` is an account losing its password to its deletion |
| `AccessGuard` | `JwtAuthGuard`, `RolesGuard`, `markSessionsRevoked`, `setRole`, and where access tokens come from | `Present` is the JWT check, `Load` the account read with both guards' decisions, `Handle` the handler; `Mark` is the arrival of an update that carries the time it was sent |
| `Accounts` | `UsersService.create`/`delete`, `CredentialsService`, and the flows that check or write a password | `InsertUser`, `CreatePassword`, `UndoSignUp` are create with its compensation, after an insert that was refused, failed, or was applied while its answer got lost; `DropUser`, `CleanUp` the deletion |
| `Migrations` | the three migrations that move data, and migrate-mongo's changelog | a call of a migration is an action, `job` what the script holds in its variables; `Interrupt` is a run that dies, `Reject` one that is refused by an index; `AtRest(n)` says that migration n is not under way and was not left unfinished |
| `UserPages` | `UsersService.findPage` and a client that pages to the end | `ReadRows` and `CountDocuments` are the two reads of the `Promise.all`, `TakePage` the client's decision to go on; an account is its place in the sort order |
| `HttpApi` | boot, body parser, throttler, guards, pipe, controllers, filter | `Routes` holds what the decorators say; `Receive` is the parser and the throttler, `Guard` both guards and the pipe, `Refuse` what a service throws, `Answer` the filter, whose `Catch` is a function; sign-up, deletion and the admin's list work on the users of `UserPages` |

Facts of the environment that are modelled from how the code uses them: the
database operations above, the TTL monitor, unique indexes (email; user and type
of a credential), `Promise.all`, unforgeable JWTs whose `iat` and `exp` are in
whole seconds (`AccessGuard`; `DeviceSessions` uses one unit for both), and the
breached-password API, which may refuse any new password at the point it is asked.

## 3. Runs

`CHECK_DEADLOCK FALSE` is set throughout: once the bounds on tokens, accounts or
time are used up an idle server has nothing left to do. A call that would exceed
a bound does not start, so no bound ever stops a handler half-way (in `HttpApi` a
sign-up beyond `MaxUsers` stays in flight). Symmetry is over request slots and
interchangeable clients, accounts or keys; `live`, `tokens` and `migrations` use
none.

Two or three slots are enough for the races here: each needs a request holding
something it read and one or two others changing it; the third slot of `rotation`,
`live`, `rate` and `lockout` is there for the cases in which two others race *each
other* first. Limits, windows and lifetimes are scaled down to the smallest values
at which "below", "at" and "over" differ; the clock runs at least to the beginning
of a second window.

| Run | Instance | What it shows |
|---|---|---|
| `rotation` | 1 account, 3 requests, all may die and be slow; 1 session, 3 tokens that expire after 1 tick, 1 tick | at most one token is redeemable; theft is reported only for redeemed tokens; the row carries the expiry of the token its client holds; a dead session stays dead; the abstract rotation is implemented |
| `accounts` | 2 accounts, 2 requests, all handlers; 2 sessions, 2 tokens, rows that expire | well-typed; no revocation reaches another account; revoked sessions are never listed; whoever can refresh is listed; deleted accounts get no token |
| `live` | 1 session, 3 requests, fairness | a replay ends every token then redeemable, while other requests insert and delete rows of the session |
| `rate` | 2 keys, 3 requests, one of which may be slow and another be cut off; limit 2, window 2, 2 ticks, 4 counters | fewer than `(Slow + 2) * Limit` calls in any span of one window; a counter that refused has its one alert mailed, on its way, or cut off with its call; no refusal by a counter that was over when the call asked, unless a late upsert created it so |
| `lockout` | 1 email with or without an account, 3 requests that verify as slowly as they like, one of which may also be slow to record a failure; limit 2, window 2, 2 ticks; any request may die, one of them while it records a failure | at most `MaxFailed - 1 + Requests` guesses per window, one more for a failure that died uncounted, and `MaxFailed - 2 + Requests` more for a slow failure; one warning per lock, none only if the request that is to warn dies; only time, a right password or a failure that took a window to arrive lifts a lock; a lock that engages warns, unless an expired counter is counted on |
| `tokens` | 1 person, 2 requests, all flows, one request may be slow or die; 3 tokens, 2 counters, limit 1, window 2 | the newest token works; never more redeemable tokens than requests; mails per mailbox and window; a deleted account stays deleted; single-use tokens are implemented |
| `guard` | 1 account, half-second clock, 2 slow requests; 2 tokens, 2 revocations, 5 ticks | a finished password change keeps out tokens of earlier seconds; no service after the fact; a fresh token is never refused |
| `migrations` | 2 accounts, 3 refresh tokens in 2 families, 2 mailed tokens; 7 commands, each of which may die | passwords, families and mailed tokens survive, and are where the code looks for them |
| `passwords` | 2 addresses, 2 requests that may die, all handlers, inserts may fail; 2 accounts, 4 passwords | unique addresses, one password each; no half accounts |
| `api` | 2 clients, 1 forged address, 2 requests, and four kinds of scenario. *Floods*: 2 routes with 2 throttling profiles, 4 calls, 3 ticks, 0 to 2 proxies, all 9 values of `TRUST_PROXY`. *Probing*: 5 calls of the health check, 3 ticks, no proxy. *Paging*: 2 accounts, pages of 1; 5 calls that list, sign up or delete. *Every route*: 2 calls of any route with any exception, secrets that differ or not | limits cannot be evaded and cut off nobody else; handlers run only for the caller they should; a 401 means the token is dead; status, code, details and seconds fit; only documented errors; paging shows everyone |

The bound of `lockout` is attained with window 1, one tick and no deaths, and in the
run's own instance missed by one, for want of a third record; both exceptions in
`LockOutlivesGuessing` and in `LockEngagesWithWarning` are needed, TLC finds a violation
without either. `tokens` has a limit of 1: what a limit of 2 adds needs more mailed
tokens than TLC gets through (at the real limit of 3 a single slow request may let 8
mails of a kind into one window). It is `rate` that takes the cap by itself with a limit
of 2, and the theorems `BurstBounded` and `MailboxProtected` that hold for all limits.

`DeviceSessions`' `TypeOK` is checked by the run `accounts`. The type invariants of
the other modules, and the inductive invariants, are in no run's list: a type is not
what could go wrong here, and they are written for the proofs.

Two runs are **expected violations**: each states what a comment says and exhibits
a run of the code that breaks it. `PROJECT.json` ("findings") quotes the sentence
and explains the trace.

| Run | Property | In short |
|---|---|---|
| `revoke_race` | `RevokedSessionStaysRevoked` | a rotation under way stores its new token after the session was revoked |
| `accounts_evict` | `ResetSignsOutOldPassword` | a sign-in with the old password outlasts the reset |

Other places where the code does less than a comment or a document says are
conditions of a property that holds; each is named at the property.

| What happens | Said otherwise in | Condition of |
|---|---|---|
| a rotation under way stores a token of an account that is being deleted, after the clean-up | `OVERVIEW.md` ("every collection ... is cleaned out") | `GoneUserGetsNoToken`, which is about requests that look the account up after it went |
| the TTL monitor takes a session row before the `touch` of a slow refresh extends it | `sessions.service.ts:38` | `UsableTokenIsListed`, checked with `Slow = {}` |
| a mailbox may get more than twice the cap of 3 in a window: a burst at the end of one and at the beginning of the next, as much again for each upsert that was held up, and the sign-up's own mail | `SECURITY.md:20` ("3 sends per 15-minute window") | `BurstIsBounded`, `MailboxIsProtected` (the bound `(Slow + 2) * Limit`) |
| the call that was the first over the cap is cut off between the increment and the alert: nobody alerts the owner | `SECURITY.md:20` ("exactly one security-alert email") | `OneAlertPerWindow` (`silenced`) |
| the window runs out between delete and increment, or a late upsert created the counter when its time was over, and the call is counted on (and refused for) the old window | `accountRateLimit.service.ts:34` | `RefusedOnlyInsideWindow` (`asked`, `overdue`) |
| the same in the lockout, which then locks again and warns nobody | `signInLockout.service.ts:40` | `LockEngagesWithWarning` |
| a failure that arrives late moves the end of the window back, and may lift the lock: more guesses pass | `signInLockout.service.ts:28` ("the window slides with every failed attempt") | `LockOutlivesGuessing`, `GuessesAreBounded` (`Slow`) |
| two overlapping issues leave two redeemable tokens | `actionTokens.service.ts:23` | `RedeemableIsBounded`, whose bound is the number of requests |
| a crash between the delete and the create of an issue loses the old token | - | `NewestTokenWorks` (`lost`) |
| of two cutoffs the one sent first arrives last and moves the cutoff back | `users.service.ts:78` | `RetiredTokenStaysRetired` (`IsOldest`) |
| a crash between the two inserts of a sign-up leaves an account without a password | `users.service.ts:48` | `AccountsAreWhole` (`torn`) |
| the credential insert of a sign-up is applied and its answer lost: the undo deletes the account and leaves the credential | `users.service.ts:48` (which thinks of accounts only) | `AccountsAreWhole` (`torn`) |
| a password replacement outlasts the deletion of its account and leaves a credential | `credentials.service.ts:91` | `AccountsAreWhole` (`torn`) |
| a migration that died between opening a session and re-pointing its tokens leaves a session nobody can refresh, though "idempotent" | `20260923200000-sessions.js:2` | `FamiliesStayTogether`, which is about tokens |
| a down migration that died is not repeatable: it inserts tokens again, or finds no index to drop | - | `AtRest` |
| a crash between the increment that locks an email and the mail leaves a lock nobody is warned of | `SECURITY.md:58` ("each send a warning to the account owner") | `OwnerIsWarnedOnce` (`died`) |
| `@SkipThrottle()` without arguments skips the throttler `default` only; `burst` (`app.module.ts:85`) cuts off a probe that comes too often, with an undocumented 429 | `health.controller.ts:9` ("must never be rate limited"), `SECURITY.md:17`, `OVERVIEW.md:30`, `WORKLOG.md:20`, `:27` | `DocumentedAnswers` (`Undocumented`) |
| `assertNotLocked` reads the clock twice, and may tell a locked client to wait 0 seconds | - | `AnswerFits` ("none left in the worst case") |
| the burst throttler's header is `Retry-After-burst`, which the filter does not find: its 429 has no seconds | `allExceptions.filter.ts:41` | `AnswerFits` |
| a body in an unsupported charset or encoding is a 415, for which the filter has no code: `INTERNAL_ERROR` | `errorCode.ts:1` | `AnswerFits` |
| `GET /users` answers 400 for a bad limit, and every route 413 for a large body, where the decorators name neither | `users.controller.ts:39`, `:58` | `DocumentedAnswers` (`Undocumented`) |
| a deletion in the part already shown, or an insert between the two reads of a page, makes paging skip an account | `users.service.ts:90` | `NoAccountIsSkipped` (`disturbed`) |
| a single revoked session keeps its access token until it expires; `auth.service.ts:106` says so, the overview the opposite | `OVERVIEW.md:73` | no property: the guard does not look at sessions |

**Fairness** is assumed in one run, `live`: `WF_vars(Step(r))` for each request.
Node.js resumes every handler whose awaited call has returned, and the driver
answers or rejects every call; a step of a parked request stays enabled until it
is taken. `ReplayKillsLiveTokens` needs it of the handler that deletes, whose loop others
may prolong by inserting. Neither clients, the clock nor the TTL monitor is assumed to do
anything. Failures are switched off there, since a request that dies ends anyway.

## 4. Proofs

Every safety property and every action property of a passing run is a theorem, for
all values of the constants: any number of accounts, requests, tokens, sessions,
counters, clients and commands, every limit, window, lifetime and workload,
whichever requests may die or be slow.

| Theorem (in `<module>_proofs`) | Statement |
|---|---|
| `DeviceSessions`: `TypeCorrect` | `Spec => []TypeOK` |
| `OneLiveToken` | `Spec => []OneLiveTokenPerSession` |
| `AccusationSound` | `Spec => []ReuseAccusationIsSound` |
| `LivesAsLong` | `Spec => []SessionLivesAsLongAsItsToken` |
| `EndsOnlyOwn` | `Spec => []NobodyEndsAnothersSession` |
| `RevokedNeverListed` | `Spec => []RevokedSessionIsNeverListed` |
| `UsableListed` | `Slow = {} /\ Faulty = {} => (Spec => []UsableTokenIsListed)` |
| `DeadStaysDead` | `Spec => DeadSessionStaysDead` |
| `GoneGetsNothing` | `Spec => GoneUserGetsNoToken` |
| `RotationIsImplemented` | `Spec => ImplementsRotation` |
| `ActionTokens`: `TypeCorrect` | `Spec => []TypeOK` |
| `NewestWorks` | `Spec => []NewestTokenWorks` |
| `RedeemableBounded` | `Spec => []RedeemableIsBounded` |
| `MailboxProtected` | `Spec => []MailboxIsProtected` |
| `GoneIsGone` | `Spec => GoneStaysGone` |
| `SingleUseIsImplemented` | `Spec => ImplementsSingleUse` |
| `AccountRateLimit`: `TypeCorrect` | `RateSpec => []RateTypeOK` |
| `OneAlert` | `RateSpec => []OneAlertPerWindow` |
| `BurstBounded` | `RateSpec => []BurstIsBounded` |
| `RefusedInside` | `RateSpec => RefusedOnlyInsideWindow` |
| `SignInLockout`: `TypeCorrect` | `Spec => []TypeOK` |
| `WarnedOnce` | `Spec => []OwnerIsWarnedOnce` |
| `GuessesBounded` | `Spec => []GuessesAreBounded` |
| `LockOutlives` | `Spec => LockOutlivesGuessing` |
| `LockWarns` | `Spec => LockEngagesWithWarning` |
| `AccessGuard`: `TypeCorrect` | `Spec => []TypeOK` |
| `RetiredStaysRetired` | `Spec => []RetiredTokenStaysRetired` |
| `NoServiceAfter` | `Spec => []NoServiceAfterTheFact` |
| `FreshWorks` | `Spec => []FreshTokenWorks` |
| `Accounts`: `TypeCorrect` | `Spec => []TypeOK` |
| `EmailsUnique` | `Spec => []EmailsAreUnique` |
| `WholeAtRest` | `Spec => []AccountsAreWhole` |
| `Migrations`: `TypeCorrect` | `Spec => []TypeOK` |
| `PasswordsLast` | `Spec => []PasswordsSurvive` |
| `FamiliesTogether` | `Spec => []FamiliesStayTogether` |
| `MailedTokensLast` | `Spec => []MailedTokensSurvive` |
| `HttpApi`: `FloodsAreCut` | `Spec => []FloodIsCut` |
| `CutOffOnlyForOwn` | `Spec => []CutOffForOwnCalls` |
| `DefaultClosed` | `Spec => []ClosedByDefault` |
| `DeadMeansDead` | `Spec => []DeadTokenMeansDead` |
| `AnswersFit` | `Spec => []AnswerFits` |
| `AnswersAreDocumented` | `Spec => []DocumentedAnswers` |
| `NobodyIsSkipped` | `Spec => []NoAccountIsSkipped` |

**Assumptions.** The only ones are those of the modules, which TLC evaluates in every
run: constants have their types; "no user", "no email" and "no key" are none; limits,
windows and lifetimes are positive; where requests are counted they are finitely many.
`HttpApi` further assumes that a client is not one of the proxies. `Migrations` assumes
what the program before it left: finitely many users and rows, families that are
numbered and belong to one account each, hashes that are unique.

### Rotation

*The inductive invariant.* `OneLiveTokenPerSession` alone is not inductive: a
request that has redeemed a token and not yet stored the next one carries the
right to create a live token, and nothing in the collections shows it.
`RotationInv` makes that right explicit: it adds that a session has at most one
such request and then no live token (`OneIssuerPerSession`), that hashes identify
rows and signed tokens (`HashesAreUnique`), and that rows and requests speak only
of sessions and tokens that exist (`TokensAreKnown`), so that a new session's
serial number is one nobody uses.

*The argument.* Most steps neither add a live token nor a right to one; the
predicate `Quiet` says so, one lemma shows that quiet steps preserve the
invariant, and one lemma per group of actions shows which are quiet. Four actions
are not: `Consume` turns a live token into a right, `Start` creates a right for a
session nobody knows, `Sign` numbers the token, `Persist` turns the right into a
live token; each has its lemma. `DeadStaysDead` follows from the same split: quiet
steps cannot revive a session, `Consume` needs a live token, and the others
concern sessions that are not dead.

*Refinement.* `RotatingSessions` is reached by mapping a session to "issuing" while
a request holds the right, its live rows to `redeemable`, and every signed token
that is neither live nor about to be stored to `spent`. Opening, redeeming and
storing map to `Open`, `Redeem` and `Issue`; losing a live row to any delete or to
the TTL monitor maps to `Kill`; a request that stops while it holds the right, for
whatever reason, maps to `Abandon`; everything else stutters.

### Device sessions

*The inductive invariant.* The other properties of `DeviceSessions` are about what
requests hold between two awaits, and `SessionInv` is what can be relied on there. A
token is with its client or in one request, never both (`TokensInHand`), so what is
presented was handed out, and what `consume` did not find live was redeemed
(`PresentsHeld`): the accusation is sound. Until a stored token is handed out nobody
can redeem it (`StoredAsSigned`), so the `touch` that follows is the last word on the
row (`TouchIsDue`, `RowsFollowTokens`): the session lives as long as its token. Rows
and requests keep to one account (`RowsHaveOwners`, `ActsForOwner`), and a revocation
to its targets (`Aims`): nobody ends another's session. A session whose revocation is
over has no row and will have none (`EndedAreGone`), because `touch` updates and never
inserts.

`UsableListed` needs the clock to stand still during requests and no request to die,
which is also what its run has; section 3 says what happens otherwise. Its invariant
`ListedInv` says of each label what the session's row still has before it: a row that
outlasts this instant, a revocation that has it among its targets, or its end.

### Mailed tokens

*The inductive invariant.* That a token is used once is not visible in
`actiontokens`: the row is gone, and what is left of the token is in the closure of
the request that redeemed it. `SingleUseInv` therefore says that a row carries the
account and action its token was issued for and shares its hash with no other
(`RowsAreIssued`), that only issued tokens are mailed (`MailsAreIssued`), and that a
request which acts on a token's word does so for a token whose row is gone, for the
account and action it was issued for, and alone (`ActsOnSpent`).

*The argument.* Steps that neither issue, mail nor use a token are `Calm`: rows only
disappear and nobody begins to act; one lemma shows that calm steps preserve the
invariant. `Create`, `Mail` and the successful half of `Redeem` (`Uses`) have
lemmas of their own. `AccountRateLimit` needs no assumption at all: its steps leave
every variable this argument speaks of unchanged.

*Refinement.* `redeemable` are the hashes of the rows, `spent` the tokens issued that
have no row, `authorized` what the acting requests are about to do. Whatever deletes
a row maps to `Drop`, except the deletion that hands it to a request, which is `Use`;
`Act` is the end of an acting request, whether it verified the address, replaced the
password, found no account or died. So a row brought back, a token accepted for the
other action, or a second request acting on it would each be a step the abstract
specification does not have.

*The newest token.* `NewestTokenWorks` excuses a token while any request issues, that
is, even while one asks the limiter. This is not inductive, since that request may be
refused. `NewestInv` proves more: only requests that may already have dropped rows
excuse (`Replaces`). `RedeemableIsBounded` is inductive given that the collection is
finite.

### Sliding windows

`BurstIsBounded`, `GuessesAreBounded` and `MailboxIsProtected` bound what happens in
*any* span as long as the window, where the code keeps a counter with a *fixed* window
and drops it in a call of its own. None is inductive: how much a span has seen must be
related to the counter that is there now. All three invariants speak of a span from `t`
that is not over, and of the events since `t`:

* *The cap* (`BurstInv`, `SpanOK`). If the window of the account's counter began before
  `t`, all but its first call may lie in the span: at most `Used(c) - 1` do. If it began
  in the span, the one before it, whose first call is older than the span, adds at most
  `Limit - 1`. If there is none, what ran out left at most `Limit - 1`. A counter that is
  dropped began before `t`, since it has run out; that is where the filter on
  `expiresAt` is needed.
* *Late upserts* (`Late`, `Spent`). A counter whose upsert was sent before `t` and arrives
  in the span breaks that count: it may be over while the span runs. Only a slow call that
  dropped what had run out before `t` (`since < t`) sends such an upsert, and it does so
  once, for after that it begins anew in the span. So each slow call may add the limit
  once, and what it has added by now is `Limit` for each that is late no more.
* *The mailbox* (`MailboxInv`). The same bound holds of `Load`: the mails since `t` and
  those under way, which are counted from their admission on, less what slow requests
  have `Spent` and less the sign-up's mail, which nobody counts. So admission raises the
  load and the counter, mailing neither. When the clock begins a new span, only slow
  requests are under way, and one that was admitted before the span has no upsert that
  is late in it: its mail is paid for by the same `Limit`.
* *The lockout* (`GuessInv`). A wrong password is on a counter, or its request is waiting
  to count it, or died (`Charged`): the counter that has the span's failures runs
  until the span is over, since each started or found it in the span. And a request that
  still verifies a password found the email open, so those verifying and the guesses
  together stay below the limit plus the number of requests (`Base`). A late failure may
  end the counter's window before the span; what was on it is `Lost`, `Base` at most, once
  for each slow request.

As long as a span runs the bound follows from the invariant, and after that nothing
is added to it. The histories are sets of numbered records; for the lockout, which
bounds guesses from above by counting, `TriesAreNumbered` shows that no two tries are
one record. `RateInv` and `LockoutInv` hold the rest: an account has one counter, serial
numbers are not reused, the request that crosses the limit is the only one that is to
mail for it, and if it died nobody is (`AlertIsOwed`, `WarningIsOwed`), and a call that
had what ran out dropped finds only what was running when it asked, or what is overdue
(`StillRuns`).

### Access tokens and accounts

`GuardInv` relates the cutoff stored to the revocations on their way: the cutoff of a
revocation that is over stands (`MarksStand`), because no older one is under way to
take it back, so a token that is hopeless when presented still is when the guard looks
(`HopelessStays`). `FreshWorks` needs only arithmetic of whole seconds.

`AccountsAreWhole` speaks of the moments without requests. `AccountsInv` says who is
responsible at the others: an account without a password has a sign-up that is going to
add it or undo it, and nobody can verify a password of it or drop it meanwhile; a
password without an account has a deletion that is going to drop it, or is `torn`.

### The way in and out

The tables that stand for the decorators and exceptions are finite, so lemmas settle
them by cases (`RoutesAreConsistent`, `ServiceErrors`). `ControlInv` carries them along:
past the guards the caller is whom the token names (`CallerOK`), and a failed call's
exception is one its route can throw, documented or named in the property (`FailureOK`).
`ThrottleInv` says that no address has more passes in a window than the limit
(`WithinLimits`), that a hit was refused at the limit (`BlocksTheFull`), and what address
a hit has if `TRUST_PROXY` claims no stranger, or describes the proxies (`HitOK`).

`ScanInv` is the argument about pages. As long as nothing disturbs the client's way, the
accounts it expects and has not seen sort behind all it has seen, and what was seen fills
the offset (`Behind`); a read of rows takes the next ranks; the total announces whoever
is left (`TotalTells`), in whichever order the two reads return.

### Migrations

One invariant for each, `PasswordInv`, `FamilyInv` and `TokenInv`, says at each label of
its job which documents are where, at every label that nothing is lost (`Together`,
`TokensAnywhere`), and at rest that everything is where the code looks. A job of another
migration, or one that stopped, leaves all of it alone (`Elsewhere`, `Ages`).

**Only model-checked:** the liveness property, `ReplayKillsLiveTokens` (liveness under
fairness is out of the prover's reach), and the two expected violations, which are not
theorems.

## 5. Not modelled

* `MailService` (a stub that logs) and `SecurityEventsService`: they write a line and
  keep nothing. *Whether* and *when* a mail is sent is part of the modules that send it.
* Which field a schema refuses and why, and what a response shows: in `HttpApi` a
  schema accepts or refuses. `updateProfile`'s names and the health report likewise.
* Environment variables that are checked one by one and that no later step depends
  on; helmet, CORS, Swagger, the logger, the connection options.
* Cryptography (password hashing, timing, randomness, signatures): a password is
  right or wrong, a token is known or not.
* Of the migrations, the indexes that cannot refuse a step and the role default.
* A composition of the whole system. What a reset, a change or a deletion promises is
  a conjunction over three kinds of evidence (password, refresh token, access token).
  Each part is stated where its state is: `Accounts`, `DeviceSessions`, `AccessGuard`.
  The three share the users collection only, from which each reads whether the account
  exists and, in one case, a cutoff; a product of the three would multiply their states
  and add no step that one of them does not have.

## 6. Plan

The model covers the operations of the system that change state, and its safety
properties are proved. What is left is to say more of it once and for all:

1. An abstract specification of a sliding-window bound that `AccountRateLimit` and
   `SignInLockout` both implement, in place of two invariants of the same shape.
2. That specification, and the refinement of each module into it, as theorems, by the
   route `RotationIsImplemented` and `SingleUseIsImplemented` take here.
