--------------------------- MODULE Accounts_proofs ---------------------------
(***************************************************************************)
(* Proofs about Accounts for every number of addresses, accounts and       *)
(* requests, every workload and whichever requests die or see an insert    *)
(* fail: the two collections agree.                                        *)
(***************************************************************************)
EXTENDS Accounts, FiniteSetTheorems, TLAPS

-----------------------------------------------------------------------------
(* Types, but for the bound on accounts *)

Labels == {"idle", "insert", "createPassword", "undo", "verify", "replace", "revoke", "session",
           "dropUser", "cleanUp"}

Request == [op: Handlers \cup {"none"}, email: Emails \cup {NoEmail}, user: Nat, pc: Labels,
            proof: Nat, todo: SUBSET Owned]

ShapeOK ==
    /\ users \subseteq User
    /\ credentials \subseteq Credential
    /\ sessions \subseteq Session
    /\ req \in [Requests -> Request]
    /\ \A r \in Requests : req[r].pc = "insert" => req[r].email \in Emails
    /\ created \in Nat /\ written \in Nat
    /\ retired \in [1..MaxUsers -> Nat]

LEMMA IdleType == Idle \in Request
  BY DEF Idle, Request, Labels

LEMMA InitShape == Init => ShapeOK
  <1>1. Idle.pc = "idle"
    BY DEF Idle
  <1> HIDE DEF Idle
  <1> QED BY <1>1, IdleType DEF Init, ShapeOK

\* The other requests are as they were.
Rest(r) == \A q \in Requests : q # r => req'[q] = req[q]

\* What replacing the record of r by v amounts to.
LEMMA SetShape ==
  ASSUME ShapeOK, NEW r \in Requests, NEW v \in Request, req' = [req EXCEPT ![r] = v]
  PROVE  req' \in [Requests -> Request] /\ req'[r] = v /\ Rest(r)
  BY DEF ShapeOK, Rest

LEMMA EndShape ==
  ASSUME ShapeOK, NEW r \in Requests, End(r)
  PROVE  /\ req' \in [Requests -> Request] /\ Rest(r)
         /\ req'[r].pc = "idle" /\ req'[r].user = 0 /\ req'[r].op = "none"
  <1>1. Idle.pc = "idle" /\ Idle.user = 0 /\ Idle.op = "none"
    BY DEF Idle
  <1> HIDE DEF Idle
  <1> QED BY <1>1, IdleType, SetShape DEF End

LEMMA GotoShape ==
  ASSUME ShapeOK, NEW r \in Requests, NEW l \in Labels, Goto(r, l)
  PROVE  /\ req' \in [Requests -> Request] /\ Rest(r)
         /\ req'[r].pc = l /\ req'[r].user = req[r].user /\ req'[r].email = req[r].email
         /\ req'[r].op = req[r].op
  <1> DEFINE v == [req[r] EXCEPT !.pc = l]
  <1>1. /\ v \in Request
        /\ v.pc = l /\ v.user = req[r].user /\ v.email = req[r].email /\ v.op = req[r].op
    BY DEF ShapeOK, Request
  <1>2. req' = [req EXCEPT ![r] = v]
    BY DEF Goto
  <1> HIDE DEF v
  <1> QED BY <1>1, <1>2, SetShape

LEMMA BeginShape ==
  ASSUME ShapeOK, NEW r \in Requests, NEW h \in Handlers, NEW l \in Labels, NEW e \in Emails,
         NEW n \in Nat, Begin(r, h, l, e, n)
  PROVE  /\ req' \in [Requests -> Request] /\ Rest(r)
         /\ req'[r].pc = l /\ req'[r].user = n /\ req'[r].email = e /\ req'[r].op = h
  <1> DEFINE v == [Idle EXCEPT !.op = h, !.pc = l, !.email = e, !.user = n]
  <1>1. v \in Request /\ v.pc = l /\ v.user = n /\ v.email = e /\ v.op = h
    BY IdleType DEF Request
  <1>2. req' = [req EXCEPT ![r] = v]
    BY DEF Begin
  <1> HIDE DEF v
  <1> QED BY <1>1, <1>2, SetShape

-----------------------------------------------------------------------------
(* What each step does to the requests *)

\* A call begins, for an address or for an account that exists.
LEMMA CallIs ==
  ASSUME ShapeOK, NEW r \in Requests, Call(r)
  PROVE  /\ req' \in [Requests -> Request] /\ Rest(r) /\ req[r].pc = "idle"
         /\ \/ /\ req'[r].pc = "insert" /\ req'[r].user = 0 /\ req'[r].email \in Emails
               /\ UserBudget /\ req'[r].op = "signUp"
            \/ /\ req'[r].pc \in {"verify", "replace"}
               /\ \E u \in users : req'[r].user = u.id
         /\ UNCHANGED <<users, credentials, sessions, created, written, retired, torn>>
  <1>1. ASSUME NEW e \in Emails, SignUp(r, e)
        PROVE  /\ req' \in [Requests -> Request] /\ Rest(r) /\ req'[r].pc = "insert"
               /\ req'[r].user = 0 /\ req'[r].email \in Emails /\ req'[r].op = "signUp"
    BY <1>1, BeginShape DEF SignUp, Handlers, Labels
  <1>2. ASSUME NEW u \in users,
               SignIn(r, u) \/ ChangePassword(r, u) \/ ResetPassword(r, u) \/ DeleteAccount(r, u)
        PROVE  /\ req' \in [Requests -> Request] /\ Rest(r)
               /\ req'[r].pc \in {"verify", "replace"} /\ req'[r].user = u.id
    <2>1. u.email \in Emails /\ u.id \in Nat
      BY DEF ShapeOK, User
    <2>2. PICK h \in Handlers, l \in {"verify", "replace"} : Begin(r, h, l, u.email, u.id)
      BY <1>2 DEF SignIn, ChangePassword, ResetPassword, DeleteAccount, Handlers
    <2> QED BY <2>1, <2>2, BeginShape DEF Labels
  <1> QED BY <1>1, <1>2
      DEF Call, SignUp, SignIn, ChangePassword, ResetPassword, DeleteAccount, Accepts

\* The sign-up's insert: a new account, with a number of its own, or nothing.
LEMMA InsertUserIs ==
  ASSUME ShapeOK, NEW r \in Requests, InsertUser(r)
  PROVE  /\ req' \in [Requests -> Request] /\ Rest(r) /\ req[r].pc = "insert"
         /\ \/ /\ req'[r].pc = "createPassword" /\ req'[r].user = created'
               /\ created' = created + 1 /\ EmailFree(req[r].email)
               /\ users' = users \cup {[id |-> created', email |-> req[r].email]}
            \/ req'[r].pc = "idle" /\ req'[r].user = 0 /\ UNCHANGED <<users, created>>
         /\ UNCHANGED <<credentials, sessions, written, retired, torn>>
  <1>1. CASE End(r) /\ UNCHANGED <<users, created>>
    BY <1>1, EndShape DEF InsertUser
  <1>2. CASE /\ EmailFree(req[r].email)
             /\ created' = created + 1
             /\ users' = users \cup {[id |-> created + 1, email |-> req[r].email]}
             /\ req' = [req EXCEPT ![r] = [@ EXCEPT !.pc = "createPassword", !.user = created + 1]]
    <2> DEFINE v == [req[r] EXCEPT !.pc = "createPassword", !.user = created + 1]
    <2>0. req[r] \in Request /\ created + 1 \in Nat
      BY DEF ShapeOK
    <2>1. v \in Request /\ v.pc = "createPassword" /\ v.user = created + 1
      BY <2>0 DEF Request, Labels
    <2>2. req' = [req EXCEPT ![r] = v]
      BY <1>2
    <2> HIDE DEF v
    <2> QED BY <1>2, <2>1, <2>2, SetShape DEF InsertUser
  <1> QED BY <1>1, <1>2 DEF InsertUser

\* A password is written for the account of the request.
LEMMA WriteIs ==
  ASSUME ShapeOK, NEW r \in Requests, NEW l \in Labels, NEW p \in Nat,
         NEW S \in SUBSET Credential, Write(r, l, p, S)
  PROVE  /\ req' \in [Requests -> Request] /\ Rest(r)
         /\ req'[r].pc = l /\ req'[r].user = req[r].user
         /\ credentials' \subseteq Credential /\ written' \in Nat
  <1> DEFINE v == [req[r] EXCEPT !.pc = l, !.proof = p]
  <1>1. v \in Request /\ v.pc = l /\ v.user = req[r].user
    BY DEF ShapeOK, Request
  <1>2. req' = [req EXCEPT ![r] = v]
    BY DEF Write
  <1>3. credentials' \subseteq Credential /\ written' \in Nat
    BY DEF Write, ShapeOK, Request, Credential
  <1> HIDE DEF v
  <1> QED BY <1>1, <1>2, <1>3, SetShape

LEMMA VerifyPasswordIs ==
  ASSUME ShapeOK, NEW r \in Requests, VerifyPassword(r)
  PROVE  /\ req' \in [Requests -> Request] /\ Rest(r) /\ req[r].pc = "verify"
         /\ \/ /\ req'[r].pc \in {"session", "replace", "dropUser"} /\ req'[r].user = req[r].user
               /\ CredentialsOf(req[r].user) # {}
            \/ req'[r].pc = "idle" /\ req'[r].user = 0
         /\ UNCHANGED <<users, credentials, sessions, created, written, retired, torn>>
  <1>1. CASE End(r)
    BY <1>1, EndShape DEF VerifyPassword
  <1>2. ASSUME NEW c \in CredentialsOf(req[r].user),
               req' = [req EXCEPT ![r] = [@ EXCEPT !.pc = Proceed(req[r].op), !.proof = c.secretHash]]
        PROVE  /\ req' \in [Requests -> Request] /\ Rest(r)
               /\ req'[r].pc \in {"session", "replace", "dropUser"} /\ req'[r].user = req[r].user
    <2>1. PICK l \in {"session", "replace", "dropUser"} : l = Proceed(req[r].op)
      BY DEF Proceed
    <2>2. c.secretHash \in Nat
      BY DEF CredentialsOf, ShapeOK, Credential
    <2> DEFINE v == [req[r] EXCEPT !.pc = l, !.proof = c.secretHash]
    <2>3. v \in Request /\ v.pc = l /\ v.user = req[r].user
      BY <2>2 DEF ShapeOK, Request, Labels
    <2>4. req' = [req EXCEPT ![r] = v]
      BY <1>2, <2>1
    <2> HIDE DEF v
    <2> QED BY <2>3, <2>4, SetShape
  <1> QED BY <1>1, <1>2 DEF VerifyPassword

LEMMA DropUserIs ==
  ASSUME ShapeOK, NEW r \in Requests, DropUser(r)
  PROVE  /\ req' \in [Requests -> Request] /\ Rest(r) /\ req[r].pc = "dropUser"
         /\ req'[r].pc = "cleanUp" /\ req'[r].user = req[r].user /\ req'[r].todo = Owned
         /\ users' = {u \in users : u.id # req[r].user}
         /\ UNCHANGED <<credentials, sessions, created, written, retired, torn>>
  <1> DEFINE v == [req[r] EXCEPT !.pc = "cleanUp", !.todo = Owned]
  <1>1. v \in Request /\ v.pc = "cleanUp" /\ v.user = req[r].user /\ v.todo = Owned
    BY DEF ShapeOK, Request, Labels
  <1>2. req' = [req EXCEPT ![r] = v]
    BY DEF DropUser
  <1> HIDE DEF v
  <1> QED BY <1>1, <1>2, SetShape DEF DropUser

LEMMA SettleIs ==
  ASSUME ShapeOK, NEW r \in Requests, NEW b, Settle(r, b)
  PROVE  /\ req' \in [Requests -> Request] /\ Rest(r)
         /\ req'[r].pc = req[r].pc /\ req'[r].user = req[r].user
         /\ req'[r].todo = req[r].todo \ {b}
  <1> DEFINE v == [req[r] EXCEPT !.todo = @ \ {b}]
  <1>1. /\ v \in Request /\ v.pc = req[r].pc /\ v.user = req[r].user
        /\ v.todo = req[r].todo \ {b}
    BY DEF ShapeOK, Request
  <1>2. req' = [req EXCEPT ![r] = v]
    BY DEF Settle
  <1> HIDE DEF v
  <1> QED BY <1>1, <1>2, SetShape

LEMMA CreatePasswordIs ==
  ASSUME ShapeOK, NEW r \in Requests, CreatePassword(r)
  PROVE  /\ req' \in [Requests -> Request] /\ Rest(r) /\ req[r].pc = "createPassword"
         /\ req'[r].user = req[r].user
         /\ \/ /\ CredentialsOf(req[r].user) = {}
               /\ credentials' = credentials \cup {[userId |-> req[r].user, secretHash |-> written + 1]}
               /\ \/ req'[r].pc = "session" /\ UNCHANGED torn
                  \/ req'[r].pc = "undo" /\ torn' = torn \cup {req[r].user}
            \/ req'[r].pc = "undo" /\ UNCHANGED <<credentials, torn>>
         /\ credentials' \subseteq Credential /\ written' \in Nat
         /\ UNCHANGED <<users, sessions, created, retired>>
  <1>1. CASE Goto(r, "undo") /\ UNCHANGED <<credentials, written, torn>>
    BY <1>1, GotoShape DEF CreatePassword, Labels, ShapeOK
  <1>2. ASSUME NEW l \in {"session", "undo"}, Write(r, l, written + 1, credentials)
        PROVE  /\ req' \in [Requests -> Request] /\ Rest(r)
               /\ req'[r].pc = l /\ req'[r].user = req[r].user
               /\ credentials' \subseteq Credential /\ written' \in Nat
               /\ credentials' = credentials \cup {[userId |-> req[r].user, secretHash |-> written + 1]}
    <2>1. written + 1 \in Nat /\ credentials \in SUBSET Credential
      BY DEF ShapeOK
    <2>2. credentials' = credentials \cup {[userId |-> req[r].user, secretHash |-> written + 1]}
      BY <1>2 DEF Write
    <2> QED BY <1>2, <2>1, <2>2, WriteIs DEF Labels
  <1>3. CASE /\ CredentialsOf(req[r].user) = {}
             /\ \/ Write(r, "session", written + 1, credentials) /\ UNCHANGED torn
                \/ /\ Write(r, "undo", written + 1, credentials)
                   /\ torn' = torn \cup {req[r].user}
    BY <1>2, <1>3 DEF CreatePassword
  <1> QED BY <1>1, <1>3 DEF CreatePassword

LEMMA ReplacePasswordIs ==
  ASSUME ShapeOK, NEW r \in Requests, ReplacePassword(r)
  PROVE  /\ req' \in [Requests -> Request] /\ Rest(r) /\ req[r].pc = "replace"
         /\ \/ /\ req'[r].pc = "revoke" /\ req'[r].user = req[r].user
               /\ credentials' = (credentials \ CredentialsOf(req[r].user))
                                    \cup {[userId |-> req[r].user, secretHash |-> written + 1]}
               /\ torn' = IF CredentialsOf(req[r].user) = {} THEN torn \cup {req[r].user} ELSE torn
            \/ req'[r].pc = "idle" /\ req'[r].user = 0 /\ UNCHANGED <<credentials, torn>>
         /\ credentials' \subseteq Credential /\ written' \in Nat
         /\ UNCHANGED <<users, sessions, created, retired>>
  <1> DEFINE p == IF req[r].op = "resetPassword" THEN written + 1 ELSE req[r].proof
             S == credentials \ CredentialsOf(req[r].user)
  <1>1. CASE End(r) /\ UNCHANGED <<credentials, written, torn>>
    BY <1>1, EndShape DEF ReplacePassword, ShapeOK
  <1>2. CASE Write(r, "revoke", p, S)
             /\ torn' = IF CredentialsOf(req[r].user) = {} THEN torn \cup {req[r].user} ELSE torn
    <2>1. p \in Nat /\ S \in SUBSET Credential
      BY DEF ShapeOK, Request
    <2>2. credentials' = S \cup {[userId |-> req[r].user, secretHash |-> written + 1]}
      BY <1>2 DEF Write
    <2>3. /\ req' \in [Requests -> Request] /\ Rest(r)
          /\ req'[r].pc = "revoke" /\ req'[r].user = req[r].user
          /\ credentials' \subseteq Credential /\ written' \in Nat
      <3> HIDE DEF p, S
      <3> QED BY <1>2, <2>1, WriteIs DEF Labels
    <2> QED BY <1>2, <2>2, <2>3 DEF ReplacePassword
  <1> QED BY <1>1, <1>2 DEF ReplacePassword

LEMMA RevokeAllIs ==
  ASSUME ShapeOK, NEW r \in Requests, RevokeAll(r)
  PROVE  /\ req' \in [Requests -> Request] /\ Rest(r) /\ req[r].pc = "revoke"
         /\ \/ req'[r].pc = "session" /\ req'[r].user = req[r].user
            \/ req'[r].pc = "idle" /\ req'[r].user = 0
         /\ sessions' \subseteq Session /\ retired' \in [1..MaxUsers -> Nat]
         /\ UNCHANGED <<users, credentials, created, written, torn>>
  <1>1. sessions' \subseteq Session
    BY DEF RevokeAll, ShapeOK
  <1>2. retired' \in [1..MaxUsers -> Nat]
    <2>1. req[r].proof \in Nat
      BY DEF ShapeOK, Request
    <2>2. retired' = [retired EXCEPT ![req[r].user] = req[r].proof] \/ retired' = retired
      BY DEF RevokeAll
    <2> QED BY <2>1, <2>2 DEF ShapeOK
  <1>3. CASE Goto(r, "session")
    BY <1>1, <1>2, <1>3, GotoShape DEF RevokeAll, Labels
  <1>4. CASE End(r)
    BY <1>1, <1>2, <1>4, EndShape DEF RevokeAll
  <1> QED BY <1>3, <1>4 DEF RevokeAll

LEMMA StartSessionIs ==
  ASSUME ShapeOK, NEW r \in Requests, StartSession(r)
  PROVE  /\ req' \in [Requests -> Request] /\ Rest(r) /\ req[r].pc = "session"
         /\ req'[r].pc = "idle" /\ req'[r].user = 0 /\ sessions' \subseteq Session
         /\ UNCHANGED <<users, credentials, created, written, retired, torn>>
  <1>1. sessions' \subseteq Session
    BY DEF StartSession, ShapeOK, Session, Request
  <1> QED BY <1>1, EndShape DEF StartSession

LEMMA CleanUpIs ==
  ASSUME ShapeOK, NEW r \in Requests, CleanUp(r)
  PROVE  /\ req' \in [Requests -> Request] /\ Rest(r) /\ req[r].pc = "cleanUp"
         /\ \/ /\ req'[r].pc = "cleanUp" /\ req'[r].user = req[r].user
               /\ credentials' = {c \in credentials : c.userId # req[r].user}
            \/ /\ req'[r].pc = "cleanUp" /\ req'[r].user = req[r].user
               /\ "credentials" \in req[r].todo => "credentials" \in req'[r].todo
               /\ UNCHANGED credentials
            \/ /\ req'[r].pc = "idle" /\ req'[r].user = 0 /\ req[r].todo = {}
               /\ UNCHANGED credentials
         /\ sessions' \subseteq Session
         /\ UNCHANGED <<users, created, written, retired, torn>>
  <1>1. sessions' \subseteq Session
    BY DEF CleanUp, ShapeOK
  <1>2. CASE Settle(r, "credentials") /\ credentials' = {c \in credentials : c.userId # req[r].user}
    BY <1>1, <1>2, SettleIs DEF CleanUp
  <1>3. CASE Settle(r, "sessions") /\ UNCHANGED credentials
    BY <1>1, <1>3, SettleIs DEF CleanUp
  <1>4. CASE req[r].todo = {} /\ End(r) /\ UNCHANGED credentials
    BY <1>1, <1>4, EndShape DEF CleanUp
  <1> QED BY <1>2, <1>3, <1>4 DEF CleanUp

LEMMA UndoSignUpIs ==
  ASSUME ShapeOK, NEW r \in Requests, UndoSignUp(r)
  PROVE  /\ req' \in [Requests -> Request] /\ Rest(r) /\ req[r].pc = "undo"
         /\ req'[r].pc = "idle" /\ req'[r].user = 0
         /\ users' = {u \in users : u.id # req[r].user}
         /\ UNCHANGED <<credentials, sessions, created, written, retired, torn>>
  BY EndShape DEF UndoSignUp, Undo

LEMMA FailIs ==
  ASSUME ShapeOK, NEW r \in Requests, Fail(r)
  PROVE  /\ req' \in [Requests -> Request] /\ Rest(r) /\ req[r].pc # "idle"
         /\ req'[r].pc = "idle" /\ req'[r].user = 0
         /\ torn' = IF req[r].pc \in {"createPassword", "undo", "cleanUp"}
                      THEN torn \cup {req[r].user} ELSE torn
         /\ UNCHANGED <<users, credentials, sessions, created, written, retired>>
  BY EndShape DEF Fail

\* Rows and requests keep their shape in every step.
LEMMA NextShape ==
  ASSUME ShapeOK, [Next]_vars
  PROVE  ShapeOK'
  <1> USE DEF ShapeOK, Rest
  <1>1. ASSUME NEW r \in Requests, Call(r) PROVE ShapeOK'
    BY <1>1, CallIs
  <1>2. ASSUME NEW r \in Requests, InsertUser(r) PROVE ShapeOK'
    <2>1. created' \in Nat
      BY <1>2, InsertUserIs
    <2>2. users' \subseteq User
      <3>1. CASE users' = users \cup {[id |-> created', email |-> req[r].email]}
        BY <1>2, <2>1, <3>1, InsertUserIs DEF User
      <3> QED BY <1>2, <3>1, InsertUserIs
    <2> QED BY <1>2, <2>1, <2>2, InsertUserIs
  <1>3. ASSUME NEW r \in Requests, CreatePassword(r) PROVE ShapeOK'
    BY <1>3, CreatePasswordIs
  <1>4. ASSUME NEW r \in Requests, UndoSignUp(r) PROVE ShapeOK'
    BY <1>4, UndoSignUpIs
  <1>5. ASSUME NEW r \in Requests, VerifyPassword(r) PROVE ShapeOK'
    BY <1>5, VerifyPasswordIs
  <1>6. ASSUME NEW r \in Requests, ReplacePassword(r) PROVE ShapeOK'
    BY <1>6, ReplacePasswordIs
  <1>7. ASSUME NEW r \in Requests, RevokeAll(r) PROVE ShapeOK'
    BY <1>7, RevokeAllIs
  <1>8. ASSUME NEW r \in Requests, StartSession(r) PROVE ShapeOK'
    BY <1>8, StartSessionIs
  <1>9. ASSUME NEW r \in Requests, DropUser(r) PROVE ShapeOK'
    BY <1>9, DropUserIs
  <1>10. ASSUME NEW r \in Requests, CleanUp(r) PROVE ShapeOK'
    <2>1. credentials' \subseteq credentials
      BY <1>10, CleanUpIs
    <2> QED BY <1>10, <2>1, CleanUpIs
  <1>11. ASSUME NEW r \in Requests, Fail(r) PROVE ShapeOK'
    BY <1>11, FailIs
  <1>12. CASE UNCHANGED vars
    BY <1>12 DEF vars
  <1> QED BY <1>1, <1>2, <1>3, <1>4, <1>5, <1>6, <1>7, <1>8, <1>9, <1>10, <1>11, <1>12
      DEF Next, Step

-----------------------------------------------------------------------------
(* The inductive invariant *)

\* The sign-ups that may still create an account are within the bound on accounts.
Inserting == {r \in Requests : req[r].pc = "insert"}
WithinBound == created + Cardinality(Inserting) <= MaxUsers

\* A sign-up stays one until it has inserted its user.
OnlySignUpsInsert == \A r \in Requests : req[r].pc = "insert" => req[r].op = "signUp"

\* Rows and requests speak only of accounts that were created.
IdsAreKnown ==
    /\ \A u \in users : u.id \in 1..created
    /\ \A c \in credentials : c.userId \in 1..created
    /\ torn \subseteq 1..created
    /\ \A r \in Requests : IF req[r].pc \in {"idle", "insert"} THEN req[r].user = 0
                                                               ELSE req[r].user \in 1..created

HasUser(id) == \E u \in users : u.id = id
HasPassword(id) == CredentialsOf(id) # {}

\* The sign-up that is to give the account its password, or to undo it.
Creating(r, id) == req[r].user = id /\ req[r].pc \in {"createPassword", "undo"}

\* A deletion that is still to drop the account's password.
Cleaning(r, id) == req[r].user = id /\ req[r].pc = "cleanUp" /\ "credentials" \in req[r].todo

Dropping(r, id) == req[r].user = id /\ req[r].pc = "dropUser"

\* One sign-up per account; and what is deleted is gone.
OneCreator ==
    /\ \A id \in Nat : \A q, r \in Requests : Creating(q, id) /\ Creating(r, id) => q = r
    /\ \A r \in Requests : req[r].pc = "cleanUp" => ~ HasUser(req[r].user)

\* One half of an account is there without the other only while a request is going
\* to add it or take it away: a sign-up between its two inserts, which nobody can
\* have verified a password of, or a deletion between the row and its password.
Whole(id) ==
    /\ \A r \in Requests : Creating(r, id) =>
          HasUser(id) /\ ~ HasPassword(id) /\ \A q \in Requests : ~ Dropping(q, id)
    /\ HasUser(id) /\ ~ HasPassword(id) => \E r \in Requests : Creating(r, id)
    /\ HasPassword(id) /\ ~ HasUser(id) => \E r \in Requests : Cleaning(r, id)

AccountsInv ==
    /\ WithinBound
    /\ OnlySignUpsInsert
    /\ IdsAreKnown
    /\ OneCreator
    /\ \A id \in (1..MaxUsers) \ torn : Whole(id)

LEMMA InsertingIsFinite == IsFiniteSet(Inserting) /\ Cardinality(Inserting) \in Nat
  BY FS_Subset, FS_CardinalityType, AccountsAssumption DEF Inserting

LEMMA InitInv == Init => AccountsInv
  <1> SUFFICES ASSUME Init PROVE AccountsInv
    OBVIOUS
  <1>1. \A r \in Requests : req[r].pc = "idle" /\ req[r].user = 0
    BY DEF Init, Idle
  <1>2. Inserting = {}
    BY <1>1 DEF Inserting
  <1>3. WithinBound
    BY <1>2, FS_EmptySet, AccountsAssumption DEF WithinBound, Init
  <1>4. OnlySignUpsInsert /\ IdsAreKnown /\ OneCreator
    BY <1>1 DEF Init, OnlySignUpsInsert, IdsAreKnown, OneCreator, Creating
  <1>5. \A id : Whole(id)
    BY <1>1 DEF Init, Whole, Creating, HasUser, HasPassword, CredentialsOf
  <1> QED BY <1>3, <1>4, <1>5 DEF AccountsInv

-----------------------------------------------------------------------------
(* Steps that create no account *)

Book == WithinBound /\ OnlySignUpsInsert /\ IdsAreKnown /\ OneCreator

\* A request that is to insert nothing, and speaks of no account or of one that
\* was created, leaves the books in order.
LEMMA Bookkeeping ==
  ASSUME ShapeOK, ShapeOK', Book, NEW r \in Requests, Rest(r), created' = created,
         users' \subseteq users, \A c \in credentials' : c.userId \in 1..created,
         torn' \subseteq 1..created, req'[r].pc # "insert",
         IF req'[r].pc = "idle" THEN req'[r].user = 0 ELSE req'[r].user \in 1..created,
         req'[r].pc \in {"createPassword", "undo"} =>
            req[r].pc \in {"createPassword", "undo"} /\ req'[r].user = req[r].user,
         req'[r].pc = "cleanUp" => \A u \in users' : u.id # req'[r].user
  PROVE  Book'
  <1>1. WithinBound'
    <2>1. Inserting' \subseteq Inserting
      BY DEF Inserting, Rest
    <2>2. Cardinality(Inserting') <= Cardinality(Inserting) /\ Cardinality(Inserting') \in Nat
      BY <2>1, InsertingIsFinite, FS_Subset, FS_CardinalityType
    <2> QED BY <2>2, InsertingIsFinite, AccountsAssumption DEF Book, WithinBound, ShapeOK
  <1>2. OnlySignUpsInsert'
    BY DEF Book, OnlySignUpsInsert, Rest
  <1>3. IdsAreKnown'
    BY DEF Book, IdsAreKnown, Rest
  <1>4. OneCreator'
    BY DEF Book, OneCreator, Creating, HasUser, Rest
  <1> QED BY <1>1, <1>2, <1>3, <1>4 DEF Book

\* Nothing about account id changed that matters.
LEMMA WholeStays ==
  ASSUME NEW id, Whole(id), HasUser(id)' <=> HasUser(id), HasPassword(id)' <=> HasPassword(id),
         \A q \in Requests : /\ Creating(q, id)' <=> Creating(q, id)
                             /\ Cleaning(q, id) => Cleaning(q, id)'
                             /\ Dropping(q, id)' => Dropping(q, id)
  PROVE  Whole(id)'
  BY DEF Whole

\* A step of a request leaves the accounts alone that it does not speak of.
LEMMA WholeElsewhere ==
  ASSUME NEW r \in Requests, Rest(r), NEW id, Whole(id), req[r].user # id, req'[r].user # id,
         \A u : u.id = id => (u \in users' <=> u \in users),
         \A c : c.userId = id => (c \in credentials' <=> c \in credentials)
  PROVE  Whole(id)'
  <1>1. HasUser(id)' <=> HasUser(id)
    BY DEF HasUser
  <1>2. HasPassword(id)' <=> HasPassword(id)
    BY DEF HasPassword, CredentialsOf
  <1>3. \A q \in Requests : /\ Creating(q, id)' <=> Creating(q, id)
                            /\ Cleaning(q, id) => Cleaning(q, id)'
                            /\ Dropping(q, id)' => Dropping(q, id)
    BY DEF Creating, Cleaning, Dropping, Rest
  <1> QED BY <1>1, <1>2, <1>3, WholeStays

\* A step that changes no row, of a request that holds no half of an account.
LEMMA HarmlessStep ==
  ASSUME ShapeOK, ShapeOK', AccountsInv, NEW r \in Requests, Rest(r),
         UNCHANGED <<users, credentials, created, torn>>,
         req[r].pc \notin {"createPassword", "undo", "cleanUp"},
         req'[r].pc \notin {"insert", "createPassword", "undo", "cleanUp", "dropUser"},
         IF req'[r].pc = "idle" THEN req'[r].user = 0 ELSE req'[r].user \in 1..created
  PROVE  AccountsInv'
  <1>1. Book'
    BY Bookkeeping DEF AccountsInv, Book, IdsAreKnown
  <1>2. ASSUME NEW id \in (1..MaxUsers) \ torn PROVE Whole(id)'
    <2>1. Whole(id)
      BY DEF AccountsInv
    <2> QED BY <2>1, WholeStays
        DEF HasUser, HasPassword, CredentialsOf, Creating, Cleaning, Dropping, Rest
  <1> QED BY <1>1, <1>2 DEF AccountsInv, Book

-----------------------------------------------------------------------------
(* One lemma per step *)

LEMMA CallInv ==
  ASSUME ShapeOK, ShapeOK', AccountsInv, NEW r \in Requests, Call(r)
  PROVE  AccountsInv'
  <1>1. CASE req'[r].pc = "insert"
    <2>1. /\ Rest(r) /\ req[r].pc = "idle" /\ req'[r].user = 0 /\ UserBudget /\ req'[r].op = "signUp"
          /\ UNCHANGED <<users, credentials, created, torn>>
      BY <1>1, CallIs
    <2>2. WithinBound'
      <3> DEFINE SignUps == {q \in Requests : req[q].op = "signUp"}
      <3>1. Inserting \subseteq SignUps /\ r \notin Inserting /\ Inserting' = Inserting \cup {r}
        BY <1>1, <2>1 DEF Inserting, AccountsInv, OnlySignUpsInsert, Rest
      <3>2. IsFiniteSet(SignUps) /\ Cardinality(SignUps) \in Nat
        BY FS_Subset, FS_CardinalityType, AccountsAssumption
      <3>3. Cardinality(Inserting) <= Cardinality(SignUps)
        BY <3>1, <3>2, FS_Subset
      <3>4. Cardinality(Inserting') = Cardinality(Inserting) + 1
        BY <3>1, InsertingIsFinite, FS_AddElement
      <3>5. created + Cardinality(SignUps) < MaxUsers
        BY <2>1 DEF UserBudget
      <3> HIDE DEF SignUps
      <3>6. created + Cardinality(Inserting') <= MaxUsers
        BY <3>2, <3>3, <3>4, <3>5, InsertingIsFinite, AccountsAssumption DEF ShapeOK
      <3> QED BY <2>1, <3>6 DEF WithinBound
    <2>3. OnlySignUpsInsert' /\ IdsAreKnown'
      BY <1>1, <2>1 DEF AccountsInv, OnlySignUpsInsert, IdsAreKnown, Rest
    <2>4. OneCreator'
      BY <1>1, <2>1 DEF AccountsInv, OneCreator, Creating, HasUser, Rest
    <2>5. ASSUME NEW id \in (1..MaxUsers) \ torn PROVE Whole(id)'
      <3>1. Whole(id)
        BY DEF AccountsInv
      <3> QED BY <1>1, <2>1, <3>1, WholeStays
          DEF HasUser, HasPassword, CredentialsOf, Creating, Cleaning, Dropping, Rest
    <2> QED BY <2>1, <2>2, <2>3, <2>4, <2>5 DEF AccountsInv
  <1>2. CASE req'[r].pc # "insert"
    <2>1. /\ Rest(r) /\ req[r].pc = "idle" /\ req'[r].pc \in {"verify", "replace"}
          /\ \E u \in users : req'[r].user = u.id
          /\ UNCHANGED <<users, credentials, created, torn>>
      BY <1>2, CallIs
    <2>2. req'[r].user \in 1..created
      BY <2>1 DEF AccountsInv, IdsAreKnown
    <2> QED BY <2>1, <2>2, HarmlessStep
  <1> QED BY <1>1, <1>2

\* The account a sign-up inserts is a new one, and this sign-up the one to finish it.
LEMMA InsertUserInv ==
  ASSUME ShapeOK, ShapeOK', AccountsInv, NEW r \in Requests, InsertUser(r)
  PROVE  AccountsInv'
  <1>1. CASE UNCHANGED <<users, created>> /\ req'[r].pc = "idle"
    BY <1>1, InsertUserIs, HarmlessStep
  <1>2. CASE /\ req'[r].pc = "createPassword" /\ req'[r].user = created' /\ created' = created + 1
             /\ users' = users \cup {[id |-> created', email |-> req[r].email]}
    <2>1. /\ Rest(r) /\ req[r].pc = "insert"
          /\ UNCHANGED <<credentials, torn>> /\ created \in Nat
      BY InsertUserIs DEF ShapeOK
    <2>2. WithinBound'
      <3>1. r \in Inserting /\ Inserting' = Inserting \ {r}
        BY <1>2, <2>1 DEF Inserting, Rest
      <3>2. Cardinality(Inserting') = Cardinality(Inserting) - 1
        BY <3>1, InsertingIsFinite, FS_RemoveElement
      <3>3. created + Cardinality(Inserting) <= MaxUsers
        BY DEF AccountsInv, WithinBound
      <3>4. created + 1 + Cardinality(Inserting') <= MaxUsers
        BY <2>1, <3>2, <3>3, InsertingIsFinite, AccountsAssumption
      <3> QED BY <1>2, <3>4 DEF WithinBound
    <2>3. OnlySignUpsInsert'
      BY <1>2, <2>1 DEF AccountsInv, OnlySignUpsInsert, Rest
    <2>4. IdsAreKnown'
      <3>1. \A n \in 1..created : n \in 1..created'
        BY <1>2, <2>1
      <3>2. created' \in 1..created'
        BY <1>2, <2>1
      <3> QED BY <1>2, <2>1, <3>1, <3>2 DEF AccountsInv, IdsAreKnown, Rest
    <2>5. /\ \A q \in Requests : req[q].user # created'
          /\ \A u \in users : u.id # created'
          /\ \A c \in credentials : c.userId # created'
      BY <1>2, <2>1 DEF AccountsInv, IdsAreKnown
    <2>6. OneCreator'
      <3>1. ASSUME NEW id \in Nat, NEW p \in Requests, NEW q \in Requests,
                   Creating(p, id)', Creating(q, id)'
            PROVE  p = q
        <4>1. CASE id = created'
          BY <1>2, <2>1, <2>5, <3>1, <4>1 DEF Creating, Rest
        <4>2. CASE id # created'
          BY <1>2, <2>1, <3>1, <4>2 DEF Creating, Rest, AccountsInv, OneCreator
        <4> QED BY <4>1, <4>2
      <3>2. ASSUME NEW q \in Requests, req'[q].pc = "cleanUp"
            PROVE  \A u \in users' : u.id # req'[q].user
        <4>1. q # r /\ req'[q] = req[q]
          BY <1>2, <2>1, <3>2 DEF Rest
        <4>2. \A u \in users : u.id # req[q].user
          BY <3>2, <4>1 DEF AccountsInv, OneCreator, HasUser
        <4> QED BY <1>2, <2>5, <4>1, <4>2
      <3> QED BY <3>1, <3>2 DEF OneCreator, HasUser
    <2>7. ASSUME NEW id \in (1..MaxUsers) \ torn PROVE Whole(id)'
      <3>1. CASE id = created'
        <4>1. HasUser(id)' /\ ~ HasPassword(id)' /\ Creating(r, id)'
          <5>1. [id |-> created', email |-> req[r].email] \in users'
            BY <1>2
          <5>2. HasUser(id)' /\ Creating(r, id)'
            BY <1>2, <3>1, <5>1 DEF HasUser, Creating
          <5>3. ~ HasPassword(id)'
            BY <2>1, <2>5, <3>1 DEF HasPassword, CredentialsOf
          <5> QED BY <5>2, <5>3
        <4>2. \A q \in Requests : ~ Dropping(q, id)'
          BY <1>2, <2>1, <2>5, <3>1 DEF Dropping, Rest
        <4> QED BY <4>1, <4>2 DEF Whole
      <3>2. CASE id # created'
        <4>1. Whole(id) /\ req[r].user # id
          BY <2>1 DEF AccountsInv, IdsAreKnown
        <4> QED BY <1>2, <2>1, <3>2, <4>1, WholeElsewhere
      <3> QED BY <3>1, <3>2
    <2> QED BY <2>1, <2>2, <2>3, <2>4, <2>6, <2>7 DEF AccountsInv
  <1> QED BY <1>1, <1>2, InsertUserIs

\* The password of a new account: it is whole now, and nobody else is to finish it.
LEMMA CreatePasswordInv ==
  ASSUME ShapeOK, ShapeOK', AccountsInv, NEW r \in Requests, CreatePassword(r)
  PROVE  AccountsInv'
  <1>1. /\ Rest(r) /\ req[r].pc = "createPassword" /\ req'[r].user = req[r].user
        /\ req'[r].pc \in {"session", "undo"} /\ UNCHANGED <<users, created>>
        /\ torn' = torn \/ torn' = torn \cup {req[r].user}
    BY CreatePasswordIs
  <1>2. PICK n \in 1..created : n = req[r].user
    BY <1>1 DEF AccountsInv, IdsAreKnown
  <1>3. \A c \in credentials' : c \in credentials \/ c.userId = n
    BY <1>2, CreatePasswordIs
  <1>4. Book'
    <2>1. \A c \in credentials' : c.userId \in 1..created
      BY <1>2, <1>3 DEF AccountsInv, IdsAreKnown
    <2>2. torn' \subseteq 1..created
      BY <1>1, <1>2 DEF AccountsInv, IdsAreKnown
    <2> QED BY <1>1, <1>2, <2>1, <2>2, Bookkeeping DEF AccountsInv, Book
  <1>5. ASSUME NEW id \in (1..MaxUsers) \ torn' PROVE Whole(id)'
    <2>1. Whole(id)
      BY <1>1, <1>5 DEF AccountsInv
    <2>2. CASE id # n
      <3>1. \A c : c.userId = id => (c \in credentials' <=> c \in credentials)
        BY <1>2, <2>2, CreatePasswordIs
      <3> QED BY <1>1, <1>2, <2>1, <2>2, <3>1, WholeElsewhere
    <2>3. CASE id = n /\ req'[r].pc = "undo"
      <3>1. UNCHANGED credentials
        BY <1>2, <1>5, <2>3, CreatePasswordIs
      <3> QED BY <1>1, <1>2, <2>1, <2>3, <3>1, WholeStays
          DEF HasUser, HasPassword, CredentialsOf, Creating, Cleaning, Dropping, Rest
    <2>4. CASE id = n /\ req'[r].pc = "session"
      <3>1. HasUser(id) /\ id \in Nat
        BY <1>1, <1>2, <2>1, <2>4 DEF Whole, Creating
      <3>2. HasUser(id)'
        BY <1>1, <3>1 DEF HasUser
      <3>3. HasPassword(id)'
        <4>1. [userId |-> n, secretHash |-> written + 1] \in credentials'
          BY <1>2, <2>4, CreatePasswordIs
        <4> QED BY <2>4, <4>1 DEF HasPassword, CredentialsOf
      <3>4. \A q \in Requests : ~ Creating(q, id)'
        BY <1>1, <1>2, <2>4, <3>1 DEF AccountsInv, OneCreator, Creating, Rest
      <3> QED BY <3>2, <3>3, <3>4 DEF Whole
    <2> QED BY <1>1, <2>2, <2>3, <2>4
  <1> QED BY <1>1, <1>4, <1>5 DEF AccountsInv, Book

\* A sign-up undone: the row goes, and there was no password yet.
LEMMA UndoSignUpInv ==
  ASSUME ShapeOK, ShapeOK', AccountsInv, NEW r \in Requests, UndoSignUp(r)
  PROVE  AccountsInv'
  <1>1. /\ Rest(r) /\ req[r].pc = "undo" /\ req'[r].pc = "idle" /\ req'[r].user = 0
        /\ users' = {u \in users : u.id # req[r].user}
        /\ UNCHANGED <<credentials, created, torn>>
    BY UndoSignUpIs
  <1>2. PICK n \in 1..created : n = req[r].user
    BY <1>1 DEF AccountsInv, IdsAreKnown
  <1>3. Book'
    BY <1>1, Bookkeeping DEF AccountsInv, Book, IdsAreKnown
  <1>4. ASSUME NEW id \in (1..MaxUsers) \ torn PROVE Whole(id)'
    <2>1. Whole(id)
      BY DEF AccountsInv
    <2>2. CASE id # n
      BY <1>1, <1>2, <2>1, <2>2, WholeElsewhere
    <2>3. CASE id = n
      <3>1. Creating(r, id) /\ ~ HasPassword(id)
        BY <1>1, <1>2, <2>1, <2>3 DEF Whole, Creating
      <3>2. ~ HasUser(id)' /\ ~ HasPassword(id)'
        BY <1>1, <1>2, <2>3, <3>1 DEF HasUser, HasPassword, CredentialsOf
      <3>3. \A q \in Requests : ~ Creating(q, id)'
        BY <1>1, <1>2, <2>3, <3>1 DEF AccountsInv, OneCreator, Creating, Rest
      <3> QED BY <3>2, <3>3 DEF Whole
    <2> QED BY <2>2, <2>3
  <1> QED BY <1>1, <1>3, <1>4 DEF AccountsInv, Book

\* Who verified a password knows that the account is not half-made.
LEMMA VerifyPasswordInv ==
  ASSUME ShapeOK, ShapeOK', AccountsInv, NEW r \in Requests, VerifyPassword(r)
  PROVE  AccountsInv'
  <1>1. /\ Rest(r) /\ req[r].pc = "verify"
        /\ UNCHANGED <<users, credentials, created, torn>>
    BY VerifyPasswordIs
  <1>2. req[r].user \in 1..created
    BY <1>1 DEF AccountsInv, IdsAreKnown
  <1>3. CASE req'[r].pc # "dropUser"
    BY <1>1, <1>2, <1>3, VerifyPasswordIs, HarmlessStep
  <1>4. CASE req'[r].pc = "dropUser"
    <2>1. req'[r].user = req[r].user /\ HasPassword(req[r].user)
      BY <1>4, VerifyPasswordIs DEF HasPassword
    <2>2. Book'
      BY <1>1, <1>2, <1>4, <2>1, Bookkeeping DEF AccountsInv, Book, IdsAreKnown
    <2>3. ASSUME NEW id \in (1..MaxUsers) \ torn PROVE Whole(id)'
      <3>1. Whole(id)
        BY DEF AccountsInv
      <3>2. CASE id # req[r].user
        BY <1>1, <2>1, <3>1, <3>2, WholeElsewhere
      <3>3. CASE id = req[r].user
        <4>1. HasPassword(id) /\ HasPassword(id)'
          BY <1>1, <2>1, <3>3 DEF HasPassword, CredentialsOf
        <4>2. \A q \in Requests : ~ Creating(q, id)
          BY <3>1, <4>1 DEF Whole
        <4>3. \A q \in Requests : ~ Creating(q, id)' /\ (Cleaning(q, id) => Cleaning(q, id)')
          BY <1>1, <1>4, <4>2 DEF Creating, Cleaning, Rest
        <4>4. HasUser(id)' <=> HasUser(id)
          BY <1>1 DEF HasUser
        <4> QED BY <3>1, <4>1, <4>3, <4>4 DEF Whole
      <3> QED BY <3>2, <3>3
    <2> QED BY <1>1, <2>2, <2>3 DEF AccountsInv, Book
  <1> QED BY <1>3, <1>4

\* A replacement finds a password to replace, or the account counts as torn.
LEMMA ReplacePasswordInv ==
  ASSUME ShapeOK, ShapeOK', AccountsInv, NEW r \in Requests, ReplacePassword(r)
  PROVE  AccountsInv'
  <1>1. /\ Rest(r) /\ req[r].pc = "replace" /\ UNCHANGED <<users, created>>
    BY ReplacePasswordIs
  <1>2. PICK n \in 1..created : n = req[r].user
    BY <1>1 DEF AccountsInv, IdsAreKnown
  <1>3. CASE UNCHANGED <<credentials, torn>> /\ req'[r].pc = "idle" /\ req'[r].user = 0
    BY <1>1, <1>3, HarmlessStep
  <1>4. CASE /\ req'[r].pc = "revoke" /\ req'[r].user = n
             /\ credentials' = (credentials \ CredentialsOf(n))
                                  \cup {[userId |-> n, secretHash |-> written + 1]}
             /\ torn' = IF CredentialsOf(n) = {} THEN torn \cup {n} ELSE torn
    <2>1. Book'
      <3>1. \A c \in credentials' : c.userId \in 1..created
        BY <1>4 DEF AccountsInv, IdsAreKnown
      <3>2. torn' \subseteq 1..created
        BY <1>4 DEF AccountsInv, IdsAreKnown
      <3> QED BY <1>1, <1>4, <3>1, <3>2, Bookkeeping DEF AccountsInv, Book
    <2>2. ASSUME NEW id \in (1..MaxUsers) \ torn' PROVE Whole(id)'
      <3>1. Whole(id)
        BY <1>4 DEF AccountsInv
      <3>2. CASE id # n
        <4>1. \A c : c.userId = id => (c \in credentials' <=> c \in credentials)
          BY <1>4, <3>2 DEF CredentialsOf
        <4> QED BY <1>1, <1>2, <1>4, <3>1, <3>2, <4>1, WholeElsewhere
      <3>3. CASE id = n
        <4>1. HasPassword(id)
          BY <1>4, <2>2, <3>3 DEF HasPassword
        <4>2. HasPassword(id)'
          <5>1. [userId |-> n, secretHash |-> written + 1] \in credentials'
            BY <1>4
          <5> QED BY <3>3, <5>1 DEF HasPassword, CredentialsOf
        <4>3. \A q \in Requests : /\ Creating(q, id)' <=> Creating(q, id)
                                  /\ Cleaning(q, id) => Cleaning(q, id)'
                                  /\ Dropping(q, id)' => Dropping(q, id)
          BY <1>1, <1>2, <1>4 DEF Creating, Cleaning, Dropping, Rest
        <4>4. HasUser(id)' <=> HasUser(id)
          BY <1>1 DEF HasUser
        <4> QED BY <3>1, <4>1, <4>2, <4>3, <4>4, WholeStays
      <3> QED BY <3>2, <3>3
    <2> QED BY <2>1, <2>2 DEF AccountsInv, Book
  <1> QED BY <1>2, <1>3, <1>4, ReplacePasswordIs

\* The row goes first: from here on the deletion owes the rest.
LEMMA DropUserInv ==
  ASSUME ShapeOK, ShapeOK', AccountsInv, NEW r \in Requests, DropUser(r)
  PROVE  AccountsInv'
  <1>1. /\ Rest(r) /\ req[r].pc = "dropUser" /\ req'[r].pc = "cleanUp"
        /\ req'[r].user = req[r].user /\ req'[r].todo = Owned
        /\ users' = {u \in users : u.id # req[r].user}
        /\ UNCHANGED <<credentials, created, torn>>
    BY DropUserIs
  <1>2. PICK n \in 1..created : n = req[r].user
    BY <1>1 DEF AccountsInv, IdsAreKnown
  <1>3. Book'
    BY <1>1, <1>2, Bookkeeping DEF AccountsInv, Book, IdsAreKnown
  <1>4. ASSUME NEW id \in (1..MaxUsers) \ torn PROVE Whole(id)'
    <2>1. Whole(id)
      BY DEF AccountsInv
    <2>2. CASE id # n
      BY <1>1, <1>2, <2>1, <2>2, WholeElsewhere
    <2>3. CASE id = n
      <3>1. Dropping(r, id)
        BY <1>1, <1>2, <2>3 DEF Dropping
      <3>2. \A q \in Requests : ~ Creating(q, id)
        BY <2>1, <3>1 DEF Whole
      <3>3. \A q \in Requests : ~ Creating(q, id)'
        BY <1>1, <3>2 DEF Creating, Rest
      <3>4. Cleaning(r, id)' /\ ~ HasUser(id)'
        BY <1>1, <1>2, <2>3 DEF Cleaning, Owned, HasUser
      <3> QED BY <3>3, <3>4 DEF Whole
    <2> QED BY <2>2, <2>3
  <1> QED BY <1>1, <1>3, <1>4 DEF AccountsInv, Book

\* What is cleaned up belongs to nobody: the row of its account is gone for good.
LEMMA CleanUpInv ==
  ASSUME ShapeOK, ShapeOK', AccountsInv, NEW r \in Requests, CleanUp(r)
  PROVE  AccountsInv'
  <1>1. Rest(r) /\ req[r].pc = "cleanUp" /\ UNCHANGED <<users, created, torn>>
    BY CleanUpIs
  <1>2. PICK n \in 1..created : n = req[r].user
    BY <1>1 DEF AccountsInv, IdsAreKnown
  <1>3. ~ HasUser(n)
    BY <1>1, <1>2 DEF AccountsInv, OneCreator
  <1>4. credentials' \subseteq credentials
    BY CleanUpIs
  <1>5. \/ req'[r].pc = "cleanUp" /\ req'[r].user = n
        \/ req'[r].pc = "idle" /\ req'[r].user = 0
    BY <1>2, CleanUpIs
  <1>6. Book'
    <2>1. req'[r].pc = "cleanUp" => \A u \in users' : u.id # req'[r].user
      BY <1>1, <1>3, <1>5 DEF HasUser
    <2> QED BY <1>1, <1>2, <1>4, <1>5, <2>1, Bookkeeping DEF AccountsInv, Book, IdsAreKnown
  <1>7. ASSUME NEW id \in (1..MaxUsers) \ torn PROVE Whole(id)'
    <2>1. Whole(id)
      BY DEF AccountsInv
    <2>2. CASE id # n
      <3>1. \A c : c.userId = id => (c \in credentials' <=> c \in credentials)
        BY <1>2, <2>2, CleanUpIs
      <3> QED BY <1>1, <1>2, <1>5, <2>1, <2>2, <3>1, WholeElsewhere
    <2>3. CASE id = n /\ credentials' = {c \in credentials : c.userId # n}
      <3>1. ~ HasUser(id)' /\ ~ HasPassword(id)'
        BY <1>1, <1>3, <2>3 DEF HasUser, HasPassword, CredentialsOf
      <3>2. \A q \in Requests : ~ Creating(q, id)
        BY <1>3, <2>1, <2>3 DEF Whole
      <3>3. \A q \in Requests : ~ Creating(q, id)'
        BY <1>1, <1>5, <3>2 DEF Creating, Rest
      <3> QED BY <3>1, <3>3 DEF Whole
    <2>4. CASE id = n /\ UNCHANGED credentials /\ (Cleaning(r, id) => Cleaning(r, id)')
      <3>1. \A q \in Requests : /\ Creating(q, id)' <=> Creating(q, id)
                                /\ Cleaning(q, id) => Cleaning(q, id)'
                                /\ Dropping(q, id)' => Dropping(q, id)
        BY <1>1, <1>2, <1>5, <2>4 DEF Creating, Cleaning, Dropping, Rest
      <3> QED BY <1>1, <2>1, <2>4, <3>1, WholeStays DEF HasUser, HasPassword, CredentialsOf
    <2>5. \/ credentials' = {c \in credentials : c.userId # n}
          \/ UNCHANGED credentials /\ (Cleaning(r, n) => Cleaning(r, n)')
      BY <1>2, CleanUpIs DEF Cleaning
    <2> QED BY <2>2, <2>3, <2>4, <2>5
  <1> QED BY <1>1, <1>6, <1>7 DEF AccountsInv, Book

\* A request that dies between two halves leaves a torn account, any other no trace.
LEMMA FailInv ==
  ASSUME ShapeOK, ShapeOK', AccountsInv, NEW r \in Requests, Fail(r)
  PROVE  AccountsInv'
  <1>1. /\ Rest(r) /\ req[r].pc # "idle" /\ req'[r].pc = "idle" /\ req'[r].user = 0
        /\ UNCHANGED <<users, credentials, created>>
    BY FailIs
  <1>2. CASE req[r].pc \notin {"createPassword", "undo", "cleanUp"}
    BY <1>1, <1>2, FailIs, HarmlessStep
  <1>3. CASE req[r].pc \in {"createPassword", "undo", "cleanUp"}
    <2>1. torn' = torn \cup {req[r].user} /\ req[r].user \in 1..created
      BY <1>3, FailIs DEF AccountsInv, IdsAreKnown
    <2>2. Book'
      BY <1>1, <2>1, Bookkeeping DEF AccountsInv, Book, IdsAreKnown
    <2>3. ASSUME NEW id \in (1..MaxUsers) \ torn' PROVE Whole(id)'
      <3>1. Whole(id) /\ req[r].user # id
        BY <2>1 DEF AccountsInv
      <3> QED BY <1>1, <3>1, WholeElsewhere
    <2> QED BY <2>2, <2>3 DEF AccountsInv, Book
  <1> QED BY <1>2, <1>3

LEMMA NextInv ==
  ASSUME ShapeOK, ShapeOK', AccountsInv, [Next]_vars
  PROVE  AccountsInv'
  <1>1. ASSUME NEW r \in Requests, RevokeAll(r) \/ StartSession(r) PROVE AccountsInv'
    <2>1. /\ Rest(r) /\ req[r].pc \in {"revoke", "session"}
          /\ \/ req'[r].pc = "session" /\ req'[r].user = req[r].user
             \/ req'[r].pc = "idle" /\ req'[r].user = 0
          /\ UNCHANGED <<users, credentials, created, torn>>
      BY <1>1, RevokeAllIs, StartSessionIs
    <2>2. req[r].user \in 1..created
      BY <2>1 DEF AccountsInv, IdsAreKnown
    <2> QED BY <2>1, <2>2, HarmlessStep
  <1>2. CASE UNCHANGED vars
    BY <1>2 DEF vars, AccountsInv, WithinBound, Inserting, OnlySignUpsInsert, IdsAreKnown,
                OneCreator, Whole, Creating, Cleaning, Dropping, HasUser, HasPassword, CredentialsOf
  <1> QED BY <1>1, <1>2, CallInv, InsertUserInv, CreatePasswordInv, UndoSignUpInv, VerifyPasswordInv,
             ReplacePasswordInv, DropUserInv, CleanUpInv, FailInv
      DEF Next, Step

LEMMA InvHolds == Spec => [](ShapeOK /\ AccountsInv)
  <1>1. Init => ShapeOK /\ AccountsInv
    BY InitShape, InitInv
  <1>2. ShapeOK /\ AccountsInv /\ [Next]_vars => (ShapeOK /\ AccountsInv)'
    BY NextShape, NextInv
  <1> QED BY <1>1, <1>2, PTL DEF Spec

-----------------------------------------------------------------------------
(* The theorems *)

\* Every reachable state is well typed; above all, no handler gets to work on an
\* account without knowing which, and no account is created beyond the bound.
THEOREM TypeCorrect == Spec => []TypeOK
  <1>1. ShapeOK /\ AccountsInv => TypeOK
    <2> SUFFICES ASSUME ShapeOK, AccountsInv PROVE TypeOK
      OBVIOUS
    <2>1. created <= MaxUsers
      BY InsertingIsFinite, AccountsAssumption DEF AccountsInv, WithinBound, ShapeOK
    <2>2. \A n \in 1..created : n \in 1..MaxUsers /\ n > 0
      BY <2>1, AccountsAssumption DEF ShapeOK
    <2>3. \A r \in Requests : /\ req[r].user \in 0..MaxUsers
                              /\ req[r].pc \notin {"idle", "insert"} => req[r].user > 0
      BY <2>2, AccountsAssumption DEF AccountsInv, IdsAreKnown
    <2>4. torn \subseteq 1..MaxUsers
      BY <2>2 DEF AccountsInv, IdsAreKnown
    <2> QED BY <2>3, <2>4 DEF TypeOK, ShapeOK, Request, Labels, Owned
  <1> QED BY <1>1, InvHolds, PTL

\* There is never a second account for an address, nor a second password for an
\* account, however sign-ups for it overlap and upserts race inserts.
THEOREM EmailsUnique == Spec => []EmailsAreUnique
  <1>1. Init => EmailsAreUnique
    BY DEF Init, EmailsAreUnique
  <1>2. ShapeOK /\ EmailsAreUnique /\ [Next]_vars => EmailsAreUnique'
    <2> SUFFICES ASSUME ShapeOK, EmailsAreUnique, [Next]_vars PROVE EmailsAreUnique'
      OBVIOUS
    <2>1. ASSUME NEW r \in Requests, InsertUser(r) PROVE EmailsAreUnique'
      BY <2>1, InsertUserIs DEF EmailsAreUnique, EmailFree
    <2>2. ASSUME NEW r \in Requests, CreatePassword(r) PROVE EmailsAreUnique'
      BY <2>2, CreatePasswordIs DEF EmailsAreUnique, CredentialsOf
    <2>3. ASSUME NEW r \in Requests, ReplacePassword(r) PROVE EmailsAreUnique'
      BY <2>3, ReplacePasswordIs DEF EmailsAreUnique, CredentialsOf
    <2>4. CASE users' \subseteq users /\ credentials' \subseteq credentials
      BY <2>4 DEF EmailsAreUnique
    <2>5. ASSUME NEW r \in Requests, CleanUp(r) PROVE credentials' \subseteq credentials
      BY <2>5, CleanUpIs
    <2>6. ASSUME NEW r \in Requests,
                 \/ UndoSignUp(r) \/ VerifyPassword(r) \/ RevokeAll(r) \/ StartSession(r)
                 \/ DropUser(r) \/ CleanUp(r) \/ Fail(r)
          PROVE  EmailsAreUnique'
      BY <2>4, <2>5, <2>6, UndoSignUpIs, VerifyPasswordIs, RevokeAllIs, StartSessionIs, DropUserIs,
         CleanUpIs, FailIs
    <2>7. ASSUME NEW r \in Requests, Call(r) PROVE EmailsAreUnique'
      BY <2>4, <2>7, CallIs
    <2>8. CASE UNCHANGED vars
      BY <2>4, <2>8 DEF vars
    <2> QED BY <2>1, <2>2, <2>3, <2>6, <2>7, <2>8 DEF Next, Step
  <1> QED BY <1>1, <1>2, InvHolds, PTL DEF Spec

\* Unless it was torn, an account at rest is whole: it has a password, and a password
\* has an account, whatever sign-ups, replacements and deletions overlapped before.
THEOREM WholeAtRest == Spec => []AccountsAreWhole
  <1>1. AccountsInv => AccountsAreWhole
    BY DEF AccountsInv, AccountsAreWhole, Quiet, Whole, Creating, Cleaning, HasUser, HasPassword
  <1> QED BY <1>1, InvHolds, PTL
=============================================================================
