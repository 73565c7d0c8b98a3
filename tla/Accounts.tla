------------------------------- MODULE Accounts -------------------------------
(***************************************************************************)
(* Accounts and their passwords: users and credentials are two collections *)
(* without a transaction across them.                                      *)
(*                                                                         *)
(* signUp writes both and undoes the first if the second fails;            *)
(* replacePassword (change and reset) upserts a credential; deleteAccount  *)
(* drops the user and then, in parallel, what it owned.  A request parks   *)
(* at every awaited call, so any two handlers may be interleaved.          *)
(*                                                                         *)
(* What a password is does not matter, only which one was proved: every    *)
(* password written gets the next serial number, and whoever presents one  *)
(* either knows the one in force or does not.  A session remembers the     *)
(* password it rests on; how tokens rotate in it is the business of        *)
(* DeviceSessions.                                                         *)
(***************************************************************************)
EXTENDS Integers, FiniteSets

CONSTANTS
    Emails,         \* addresses to sign up with
    NoEmail,        \* the email of a free slot
    Requests,       \* slots for requests being handled at the same time
    Workload,       \* the handlers clients call, a subset of Handlers
    Faulty,         \* the requests that may die half-way
    Flaky,          \* the requests whose credential insert may fail, or seem to
    MaxUsers,       \* bound: accounts ever created
    MaxPasswords    \* bound: passwords ever written

Handlers == {"signUp", "signIn", "changePassword", "resetPassword", "deleteAccount"}

ASSUME AccountsAssumption ==
    /\ NoEmail \notin Emails
    /\ IsFiniteSet(Requests)
    /\ Workload \subseteq Handlers
    /\ Faulty \subseteq Requests /\ Flaky \subseteq Requests
    /\ MaxUsers \in Nat /\ MaxPasswords \in Nat

VARIABLES
    users,          \* the users collection
    credentials,    \* the credentials collection
    sessions,       \* who is signed in, and on which password
    req,            \* the requests in flight
    created,        \* how many accounts have been created
    written,        \* how many passwords have been written
    retired,        \* the password the last reset of an account wrote (history)
    torn            \* accounts something befell that nothing mends (history)

vars == <<users, credentials, sessions, req, created, written, retired, torn>>

User == [id: Nat, email: Emails]
Credential == [userId: Nat, secretHash: Nat]
Session == [userId: Nat, proof: Nat]

\* proof is the password the request has verified or set.
Idle == [op |-> "none", pc |-> "idle", email |-> NoEmail, user |-> 0, proof |-> 0, todo |-> {}]

Goto(r, label) == req' = [req EXCEPT ![r].pc = label]

End(r) == req' = [req EXCEPT ![r] = Idle]

Accepts(r, h) == req[r].pc = "idle" /\ h \in Workload

Begin(r, h, label, e, u) ==
    req' = [req EXCEPT ![r] = [Idle EXCEPT !.op = h, !.pc = label, !.email = e, !.user = u]]

\* The bounds: a request starts only if it can write what it is going to.
UserBudget == created + Cardinality({r \in Requests : req[r].op = "signUp"}) < MaxUsers

WillWrite == {r \in Requests : /\ req[r].op \in {"signUp", "changePassword", "resetPassword"}
                               /\ req[r].pc \in {"insert", "createPassword", "verify", "replace"}}
PasswordBudget == written + Cardinality(WillWrite) < MaxPasswords

-----------------------------------------------------------------------------
(* Calls, up to the first answer of the database *)

\* create: exists({email}), the check the unique index backs up
SignUp(r, e) ==
    /\ Accepts(r, "signUp") /\ UserBudget /\ PasswordBudget
    /\ ~ \E u \in users : u.email = e
    /\ Begin(r, "signUp", "insert", e, 0)
    /\ UNCHANGED <<users, credentials, sessions, created, written, retired, torn>>

\* findByEmail; an unknown email ends in a 401 whatever the password.
SignIn(r, u) ==
    /\ Accepts(r, "signIn")
    /\ Begin(r, "signIn", "verify", u.email, u.id)
    /\ UNCHANGED <<users, credentials, sessions, created, written, retired, torn>>

\* The caller is authenticated and findById found the account.
ChangePassword(r, u) ==
    /\ Accepts(r, "changePassword") /\ PasswordBudget
    /\ Begin(r, "changePassword", "verify", u.email, u.id)
    /\ UNCHANGED <<users, credentials, sessions, created, written, retired, torn>>

DeleteAccount(r, u) ==
    /\ Accepts(r, "deleteAccount")
    /\ Begin(r, "deleteAccount", "verify", u.email, u.id)
    /\ UNCHANGED <<users, credentials, sessions, created, written, retired, torn>>

\* The mailed token was redeemed and findById found the account.
ResetPassword(r, u) ==
    /\ Accepts(r, "resetPassword") /\ PasswordBudget
    /\ Begin(r, "resetPassword", "replace", u.email, u.id)
    /\ UNCHANGED <<users, credentials, sessions, created, written, retired, torn>>

-----------------------------------------------------------------------------
(* Signing up *)

\* Mutant: no unique index behind the check.
EmailFreeUnchecked(e) == TRUE

EmailFree(e) == ~ \E u \in users : u.email = e

\* assertNotBreached may refuse the password before anything is written; the
\* index may refuse the email.
InsertUser(r) ==
    /\ req[r].pc = "insert"
    /\ \/ /\ EmailFree(req[r].email)
          /\ created' = created + 1
          /\ users' = users \cup {[id |-> created + 1, email |-> req[r].email]}
          /\ req' = [req EXCEPT ![r] = [@ EXCEPT !.pc = "createPassword", !.user = created + 1]]
       \/ /\ End(r)
          /\ UNCHANGED <<users, created>>
    /\ UNCHANGED <<credentials, sessions, written, retired, torn>>

CredentialsOf(id) == {c \in credentials : c.userId = id}

\* A password is written, and the handler goes on with it as its proof.
Write(r, label, proof, collection) ==
    /\ written' = written + 1
    /\ credentials' = collection \cup {[userId |-> req[r].user, secretHash |-> written + 1]}
    /\ req' = [req EXCEPT ![r] = [@ EXCEPT !.pc = label, !.proof = proof]]

\* One credential of a type per user: the insert fails if there is one.  A flaky
\* one fails without having been applied, or after that, its answer being lost
\* (torn: the password is stored, and is going to lose its account).
CreatePassword(r) ==
    /\ req[r].pc = "createPassword"
    /\ LET u == req[r].user IN
         \/ /\ CredentialsOf(u) = {}
            /\ \/ Write(r, "session", written + 1, credentials) /\ UNCHANGED torn
               \/ /\ r \in Flaky
                  /\ Write(r, "undo", written + 1, credentials)
                  /\ torn' = torn \cup {u}
         \/ /\ CredentialsOf(u) # {} \/ r \in Flaky
            /\ Goto(r, "undo")
            /\ UNCHANGED <<credentials, written, torn>>
    /\ UNCHANGED <<users, sessions, created, retired>>

\* Mutant: the account stays although its password was never stored.
UndoNothing(r) == users

Undo(r) == {u \in users : u.id # req[r].user}

\* "undo the user when the credential insert fails"
UndoSignUp(r) ==
    /\ req[r].pc = "undo"
    /\ users' = Undo(r)
    /\ End(r)
    /\ UNCHANGED <<credentials, sessions, created, written, retired, torn>>

-----------------------------------------------------------------------------
(* Passwords and sessions *)

\* Where a right password leads, by handler.
Proceed(h) ==
    CASE h = "signIn" -> "session" [] h = "changePassword" -> "replace" [] OTHER -> "dropUser"

\* verifyPassword; a wrong password is answered and counted (SignInLockout).
VerifyPassword(r) ==
    /\ req[r].pc = "verify"
    /\ \/ \E c \in CredentialsOf(req[r].user) :
            req' = [req EXCEPT ![r] = [@ EXCEPT !.pc = Proceed(req[r].op),
                                                !.proof = c.secretHash]]
       \/ End(r)
    /\ UNCHANGED <<users, credentials, sessions, created, written, retired, torn>>

\* replacePassword: updateOne({userId, type}, {secretHash}, {upsert: true}), or
\* the new password is refused as breached.  A reset proves itself by the
\* password it writes, a change by the one it verified.  (torn: the upsert
\* found nothing to update, and added a credential of its own.)
ReplacePassword(r) ==
    /\ req[r].pc = "replace"
    /\ LET u == req[r].user IN
         \/ /\ Write(r, "revoke", IF req[r].op = "resetPassword" THEN written + 1 ELSE req[r].proof,
                     credentials \ CredentialsOf(u))
            /\ torn' = IF CredentialsOf(u) = {} THEN torn \cup {u} ELSE torn
         \/ End(r) /\ UNCHANGED <<credentials, written, torn>>
    /\ UNCHANGED <<users, sessions, created, retired>>

\* revokeAllForUser and markSessionsRevoked.  changePassword then opens a
\* session for its caller.
RevokeAll(r) ==
    /\ req[r].pc = "revoke"
    /\ sessions' = {s \in sessions : s.userId # req[r].user}
    /\ IF req[r].op = "changePassword"
         THEN Goto(r, "session") /\ UNCHANGED retired
         ELSE End(r) /\ retired' = [retired EXCEPT ![req[r].user] = req[r].proof]
    /\ UNCHANGED <<users, credentials, created, written, torn>>

StartSession(r) ==
    /\ req[r].pc = "session"
    /\ sessions' = sessions \cup {[userId |-> req[r].user, proof |-> req[r].proof]}
    /\ End(r)
    /\ UNCHANGED <<users, credentials, created, written, retired, torn>>

-----------------------------------------------------------------------------
(* Deleting an account: the row first, then its data in parallel *)

Owned == {"credentials", "sessions"}

DropUser(r) ==
    /\ req[r].pc = "dropUser"
    /\ users' = {u \in users : u.id # req[r].user}
    /\ req' = [req EXCEPT ![r] = [@ EXCEPT !.pc = "cleanUp", !.todo = Owned]]
    /\ UNCHANGED <<credentials, sessions, created, written, retired, torn>>

Settle(r, branch) == req' = [req EXCEPT ![r].todo = @ \ {branch}]

CleanUp(r) ==
    /\ req[r].pc = "cleanUp"
    /\ \/ /\ "credentials" \in req[r].todo
          /\ credentials' = {c \in credentials : c.userId # req[r].user}
          /\ Settle(r, "credentials")
          /\ UNCHANGED sessions
       \/ /\ "sessions" \in req[r].todo
          /\ sessions' = {s \in sessions : s.userId # req[r].user}
          /\ Settle(r, "sessions")
          /\ UNCHANGED credentials
       \/ /\ req[r].todo = {}
          /\ End(r)
          /\ UNCHANGED <<credentials, sessions>>
    /\ UNCHANGED <<users, created, written, retired, torn>>

\* The process dies, or a database call throws where nothing catches it.  (torn:
\* between two writes, the second of which is not going to happen.)
Fail(r) ==
    /\ r \in Faulty /\ req[r].pc # "idle"
    /\ End(r)
    /\ torn' = IF req[r].pc \in {"createPassword", "undo", "cleanUp"}
                 THEN torn \cup {req[r].user} ELSE torn
    /\ UNCHANGED <<users, credentials, sessions, created, written, retired>>

-----------------------------------------------------------------------------
Init ==
    /\ users = {}
    /\ credentials = {}
    /\ sessions = {}
    /\ req = [r \in Requests |-> Idle]
    /\ created = 0
    /\ written = 0
    /\ retired = [i \in 1..MaxUsers |-> 0]
    /\ torn = {}

Call(r) ==
    \/ \E e \in Emails : SignUp(r, e)
    \/ \E u \in users :
         SignIn(r, u) \/ ChangePassword(r, u) \/ ResetPassword(r, u) \/ DeleteAccount(r, u)

Step(r) ==
    \/ InsertUser(r) \/ CreatePassword(r) \/ UndoSignUp(r)
    \/ VerifyPassword(r) \/ ReplacePassword(r) \/ RevokeAll(r) \/ StartSession(r)
    \/ DropUser(r) \/ CleanUp(r)

Next == \E r \in Requests : Call(r) \/ Step(r) \/ Fail(r)

Spec == Init /\ [][Next]_vars

-----------------------------------------------------------------------------
(* What the two collections promise *)

TypeOK ==
    /\ users \subseteq User
    /\ credentials \subseteq Credential
    /\ sessions \subseteq Session
    /\ req \in [Requests ->
                  [op: Handlers \cup {"none"}, email: Emails \cup {NoEmail}, user: 0..MaxUsers,
                   pc: {"idle", "insert", "createPassword", "undo", "verify", "replace", "revoke",
                        "session", "dropUser", "cleanUp"},
                   proof: Nat, todo: SUBSET {"credentials", "sessions"}]]
    /\ \A r \in Requests : req[r].pc \notin {"idle", "insert"} => req[r].user > 0
    /\ created \in Nat /\ written \in Nat
    /\ retired \in [1..MaxUsers -> Nat]
    /\ torn \subseteq 1..MaxUsers

Quiet == \A r \in Requests : req[r].pc = "idle"

\* One account per address, and one password per account, though sign-ups for
\* the same address check before either inserts, and upserts race inserts.
EmailsAreUnique ==
    /\ \A u, v \in users : u.email = v.email => u = v
    /\ \A c, d \in credentials : c.userId = d.userId => c = d

\* Sign-up, replacement and deletion leave no half behind: when no request is
\* in flight an account has a password and a password has an account, whichever
\* insert was refused and whoever changed, reset or deleted an account meanwhile.
\* Three things break it, and are set aside as torn.  The process may die between
\* two writes, though of a sign-up "no account is ever left without a way to
\* sign in"; the answer to an insert that was applied may be lost, and undoing
\* the sign-up leaves the password behind; and a replacement that outlasts the
\* deletion of its account, or comes before the password of its sign-up, adds a
\* credential, though of the cleanup "nothing here outlives its owner".
AccountsAreWhole ==
    Quiet => \A id \in 1..MaxUsers \ torn :
                 (\E u \in users : u.id = id) <=> CredentialsOf(id) # {}

-----------------------------------------------------------------------------
(* What a comment promises and the code does not keep *)

\* PasswordResetService.resetPassword: "whoever held the old password ... is
\* signed out everywhere".  A sign-in or password change that had verified the
\* old password opens its session after the reset revoked them all.
ResetSignsOutOldPassword == \A s \in sessions : s.proof >= retired[s.userId]
=============================================================================
