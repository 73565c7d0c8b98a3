------------------------------ MODULE Migrations ------------------------------
(***************************************************************************)
(* The migrations that move data, run by migrate-mongo one after the other *)
(* and undone in reverse: password hashes from users to credentials, token *)
(* families to sessions, two collections of mailed tokens into one.  (The  *)
(* other two only create indexes and set a default.)                       *)
(*                                                                         *)
(* The process that runs a migration may die between any two calls; the    *)
(* command is then repeated, since the changelog is written at the end.    *)
(* The server is not in service meanwhile, but the TTL monitor is at work. *)
(***************************************************************************)
EXTENDS Integers, FiniteSetsExt

CONSTANTS
    Users,          \* accounts
    RefreshRows,    \* the refresh tokens there are at first, in families
    MailedRows,     \* the mailed tokens there are at first
    MaxTime,        \* bound: the clock stops here
    MaxCommands,    \* bound: migrate-mongo commands
    MaxPasswords,   \* bound: passwords ever set
    MaxIds          \* bound: families and sessions ever created

Sources == <<"passwordReset", "emailVerification">>

VARIABLES
    now,            \* the clock of the TTL monitor
    passwordHash,   \* the field of users, 0 if it is not there
    credentials,    \* the credentials collection
    indexed,        \* credentials has its index
    refreshTokens,  \* the refreshtokens collection
    sessions,       \* the sessions collection
    sourceTokens,   \* the two collections of mailed tokens there were
    uniqueIn,       \* those of the two with an index on tokenHash
    actionTokens,   \* the actiontokens collection
    applied,        \* the length of the changelog
    job,            \* the migration that is running
    commands,       \* how many commands have been given
    ids,            \* how many families and sessions have been created
    current,        \* the password of each user (history)
    changes,        \* how many passwords have been set (history)
    half            \* the migrations that stopped in the middle (history)

passwordVars == <<passwordHash, credentials, indexed, current, changes>>
sessionVars == <<refreshTokens, sessions, ids>>
tokenVars == <<sourceTokens, uniqueIn, actionTokens>>
runnerVars == <<applied, commands, half>>
vars == <<now, passwordVars, sessionVars, tokenVars, runnerVars, job>>

-----------------------------------------------------------------------------
\* A refresh token belongs to a family or to a session, 0 if not.  (origin: the
\* family it was born in, history.)
RefreshToken == [hash: Nat, userId: Users, familyId: Nat, sessionId: Nat, expiresAt: Nat,
                 origin: Nat]
Session == [id: Nat, userId: Users, expiresAt: Nat]
Family == [familyId: Nat, userId: Users, expiresAt: Nat]
MailedToken == [hash: Nat, type: {Sources[i] : i \in 1..2}, expiresAt: Nat, copy: Nat]
Credential == [userId: Users, secretHash: Nat]

\* Families are numbered from one and are of one account; the hash of a mailed
\* token is its own.
ASSUME MigrationsAssumption ==
    /\ IsFiniteSet(Users)
    /\ IsFiniteSet(RefreshRows) /\ RefreshRows \subseteq RefreshToken
    /\ IsFiniteSet(MailedRows) /\ MailedRows \subseteq MailedToken
    /\ \A t \in RefreshRows :
          /\ t.familyId \in 1..Cardinality({u.familyId : u \in RefreshRows})
          /\ t.sessionId = 0 /\ t.origin = t.familyId
    /\ \A t, u \in RefreshRows : t.familyId = u.familyId => t.userId = u.userId
    /\ \A t, u \in MailedRows : t.hash = u.hash => t = u
    /\ \A t \in MailedRows : t.copy = 0
    /\ MaxTime \in Nat /\ MaxCommands \in Nat /\ MaxPasswords \in Nat /\ MaxIds \in Nat

\* A job knows what it has yet to do of its array or cursor, and the document it
\* is at.  source is the collection of mailed tokens a job of that migration is at.
Stopped == [pc |-> "stopped", number |-> 0, up |-> TRUE, todo |-> {}, at |-> {}, source |-> 0]

Running == job.pc # "stopped"

Loop(label, todo, at, source) ==
    job' = [job EXCEPT !.pc = label, !.todo = todo, !.at = at, !.source = source]

\* Next document, what is done with it, and what comes after the last one.
Take(label, x) == Loop(label, job.todo \ {x}, {x}, job.source)
Goto(label) == Loop(label, job.todo, {}, job.source)

Going == UNCHANGED runnerVars

\* up or down resolves, and the changelog is written.
Finish ==
    /\ applied' = IF job.up THEN job.number ELSE job.number - 1
    /\ half' = half \ {job.number}
    /\ job' = Stopped
    /\ UNCHANGED commands

\* up or down rejects; nothing is undone.
Reject ==
    /\ half' = half \cup {job.number}
    /\ job' = Stopped
    /\ UNCHANGED <<applied, commands>>

\* migrate:up runs what is not in the changelog, migrate:down undoes its last.
Begin(number, up, label, todo, source) ==
    /\ ~ Running /\ commands < MaxCommands
    /\ commands' = commands + 1
    /\ number = IF up THEN applied + 1 ELSE applied
    /\ job' = [Stopped EXCEPT !.pc = label, !.number = number, !.up = up, !.todo = todo,
                              !.source = source]
    /\ UNCHANGED <<applied, half>>

-----------------------------------------------------------------------------
(* Password hashes *)

Hashed == {u \in Users : passwordHash[u] # 0}

UpCredentials ==
    /\ Begin(1, TRUE, "copyHash", Hashed, 0)
    /\ indexed' = TRUE
    /\ UNCHANGED <<now, passwordHash, credentials, current, changes, sessionVars, tokenVars>>

Credentialed(u) == \E c \in credentials : c.userId = u

\* updateOne with $setOnInsert and upsert
CopyHash ==
    /\ job.pc = "copyHash"
    /\ \/ \E u \in job.todo :
            /\ credentials' = IF Credentialed(u) THEN credentials
                              ELSE credentials \cup
                                     {[userId |-> u, secretHash |-> passwordHash[u]]}
            /\ Take("unsetHash", u) /\ Going
       \/ job.todo = {} /\ Finish /\ UNCHANGED credentials
    /\ UNCHANGED <<now, passwordHash, indexed, current, changes, sessionVars, tokenVars>>

UnsetHash ==
    /\ job.pc = "unsetHash"
    /\ passwordHash' = [u \in Users |-> IF u \in job.at THEN 0 ELSE passwordHash[u]]
    /\ Goto("copyHash")
    /\ Going
    /\ UNCHANGED <<now, credentials, indexed, current, changes, sessionVars, tokenVars>>

\* Mutant: the hashes are dropped from where they were before they are copied.
DownCredentialsEagerly ==
    /\ Begin(1, FALSE, "restoreHash", credentials, 0)
    /\ credentials' = {}
    /\ UNCHANGED <<now, passwordHash, indexed, current, changes, sessionVars, tokenVars>>

DownCredentials ==
    /\ Begin(1, FALSE, "restoreHash", credentials, 0)
    /\ UNCHANGED <<now, passwordVars, sessionVars, tokenVars>>

RestoreHash ==
    /\ job.pc = "restoreHash"
    /\ \/ \E c \in job.todo :
            /\ passwordHash' = [passwordHash EXCEPT ![c.userId] = c.secretHash]
            /\ Take("restoreHash", c)
       \/ job.todo = {} /\ Goto("deleteHashes") /\ UNCHANGED passwordHash
    /\ Going
    /\ UNCHANGED <<now, credentials, indexed, current, changes, sessionVars, tokenVars>>

DeleteHashes ==
    /\ job.pc = "deleteHashes"
    /\ credentials' = {}
    /\ Goto("dropIndex")
    /\ Going
    /\ UNCHANGED <<now, passwordHash, indexed, current, changes, sessionVars, tokenVars>>

\* A second run finds no index to drop, and rejects.
DropIndex ==
    /\ job.pc = "dropIndex"
    /\ IF indexed THEN Goto("done") /\ Going ELSE Reject
    /\ indexed' = FALSE
    /\ UNCHANGED <<now, passwordHash, credentials, current, changes, sessionVars, tokenVars>>

Done == job.pc = "done" /\ Finish /\ UNCHANGED <<now, passwordVars, sessionVars, tokenVars>>

-----------------------------------------------------------------------------
(* Sessions *)

\* Mutant: the first expiry of the family.
GroupEarliest(rows) ==
    [familyId |-> (CHOOSE t \in rows : TRUE).familyId, userId |-> (CHOOSE t \in rows : TRUE).userId,
     expiresAt |-> Min({t.expiresAt : t \in rows})]

Group(rows) ==
    [familyId |-> (CHOOSE t \in rows : TRUE).familyId, userId |-> (CHOOSE t \in rows : TRUE).userId,
     expiresAt |-> Max({t.expiresAt : t \in rows})]

\* aggregate: one group for each family and user
Families ==
    {Group({u \in refreshTokens : u.familyId = t.familyId /\ u.userId = t.userId}) :
        t \in {u \in refreshTokens : u.familyId # 0}}

UpSessions ==
    /\ ids + Cardinality(Families) <= MaxIds
    /\ Begin(2, TRUE, "openSession", Families, 0)
    /\ UNCHANGED <<now, passwordVars, sessionVars, tokenVars>>

\* insertOne; a run that dies before Repoint leaves a session without a token.
OpenSession ==
    /\ job.pc = "openSession"
    /\ \/ \E f \in job.todo :
            /\ ids' = ids + 1
            /\ sessions' = sessions \cup
                 {[id |-> ids + 1, userId |-> f.userId, expiresAt |-> f.expiresAt]}
            /\ Take("repoint", f) /\ Going
       \/ job.todo = {} /\ Finish /\ UNCHANGED <<sessions, ids>>
    /\ UNCHANGED <<now, passwordVars, refreshTokens, tokenVars>>

\* updateMany({familyId})
Repoint ==
    /\ job.pc = "repoint"
    /\ refreshTokens' =
         {IF \E f \in job.at : t.familyId = f.familyId
            THEN [t EXCEPT !.familyId = 0, !.sessionId = ids] ELSE t : t \in refreshTokens}
    /\ Goto("openSession")
    /\ Going
    /\ UNCHANGED <<now, passwordVars, sessions, ids, tokenVars>>

DownSessions ==
    /\ Begin(2, FALSE, "restoreFamily", sessions, 0)
    /\ UNCHANGED <<now, passwordVars, sessionVars, tokenVars>>

RestoreFamily ==
    /\ job.pc = "restoreFamily"
    /\ \/ \E s \in job.todo :
            /\ refreshTokens' =
                 {IF t.sessionId = s.id THEN [t EXCEPT !.familyId = s.id, !.sessionId = 0] ELSE t :
                    t \in refreshTokens}
            /\ Take("restoreFamily", s)
       \/ job.todo = {} /\ Goto("dropSessions") /\ UNCHANGED refreshTokens
    /\ Going
    /\ UNCHANGED <<now, passwordVars, sessions, ids, tokenVars>>

DropSessions ==
    /\ job.pc = "dropSessions"
    /\ sessions' = {}
    /\ Goto("done")
    /\ Going
    /\ UNCHANGED <<now, passwordVars, refreshTokens, ids, tokenVars>>

-----------------------------------------------------------------------------
(* Mailed tokens *)

InSource(i) == {t \in sourceTokens : t.type = Sources[i]}

UpActionTokens ==
    /\ Begin(3, TRUE, "copyToken", InSource(1), 1)
    /\ UNCHANGED <<now, passwordVars, sessionVars, tokenVars>>

\* Mutant: every token authorizes the first action.
CopyOfSame(t) == [t EXCEPT !.copy = 0, !.type = Sources[1]]

CopyOf(t) == [t EXCEPT !.copy = 0]

\* updateOne({tokenHash}, {$setOnInsert}, {upsert: true})
CopyToken ==
    /\ job.pc = "copyToken"
    /\ \/ \E t \in job.todo :
            /\ actionTokens' = actionTokens \cup
                 (IF \E a \in actionTokens : a.hash = t.hash THEN {} ELSE {CopyOf(t)})
            /\ Take("dropCopied", t)
       \/ job.todo = {} /\ Goto("dropSource") /\ UNCHANGED actionTokens
    /\ Going
    /\ UNCHANGED <<now, passwordVars, sessionVars, sourceTokens, uniqueIn>>

\* deleteOne({_id})
DropCopied ==
    /\ job.pc = "dropCopied"
    /\ sourceTokens' = sourceTokens \ job.at
    /\ Goto("copyToken")
    /\ Going
    /\ UNCHANGED <<now, passwordVars, sessionVars, uniqueIn, actionTokens>>

DropSource ==
    /\ job.pc = "dropSource"
    /\ sourceTokens' = sourceTokens \ InSource(job.source)
    /\ uniqueIn' = uniqueIn \ {job.source}
    /\ IF job.source = 1 THEN Loop("copyToken", InSource(2), {}, 2) ELSE Goto("done")
    /\ Going
    /\ UNCHANGED <<now, passwordVars, sessionVars, actionTokens>>

OfType(i) == {t \in actionTokens : t.type = Sources[i]}

DownActionTokens ==
    /\ Begin(3, FALSE, "restoreToken", OfType(1), 1)
    /\ UNCHANGED <<now, passwordVars, sessionVars, tokenVars>>

Copies(t) == {s \in InSource(job.source) : s.hash = t.hash}

\* insertOne: a second run inserts again, unless the first made the index.
RestoreToken ==
    /\ job.pc = "restoreToken"
    /\ \/ \E t \in job.todo :
            IF job.source \in uniqueIn /\ Copies(t) # {}
              THEN Reject /\ UNCHANGED sourceTokens
              ELSE /\ sourceTokens' = sourceTokens \cup {[t EXCEPT !.copy = Cardinality(Copies(t))]}
                   /\ Take("restoreToken", t) /\ Going
       \/ job.todo = {} /\ Goto("indexSource") /\ Going /\ UNCHANGED sourceTokens
    /\ UNCHANGED <<now, passwordVars, sessionVars, uniqueIn, actionTokens>>

\* createIndex({tokenHash: 1}, {unique: true}) rejects if a hash is there twice.
IndexSource ==
    /\ job.pc = "indexSource"
    /\ IF \E s, t \in InSource(job.source) : s # t /\ s.hash = t.hash
         THEN Reject /\ UNCHANGED uniqueIn
         ELSE /\ uniqueIn' = uniqueIn \cup {job.source}
              /\ IF job.source = 1 THEN Loop("restoreToken", OfType(2), {}, 2)
                                   ELSE Goto("dropTokens")
              /\ Going
    /\ UNCHANGED <<now, passwordVars, sessionVars, sourceTokens, actionTokens>>

DropTokens ==
    /\ job.pc = "dropTokens"
    /\ actionTokens' = {}
    /\ Goto("done")
    /\ Going
    /\ UNCHANGED <<now, passwordVars, sessionVars, sourceTokens, uniqueIn>>

-----------------------------------------------------------------------------
(* Around the migrations *)

\* The process dies, or a call to the database fails.
Interrupt == Running /\ Reject /\ UNCHANGED <<now, passwordVars, sessionVars, tokenVars>>

\* The server is in service when everything has been applied.
ChangePassword(u) ==
    /\ ~ Running /\ applied = 3 /\ half = {} /\ changes < MaxPasswords
    /\ changes' = changes + 1
    /\ credentials' = {c \in credentials : c.userId # u}
                        \cup {[userId |-> u, secretHash |-> changes + 1]}
    /\ current' = [current EXCEPT ![u] = changes + 1]
    /\ UNCHANGED <<now, passwordHash, indexed, sessionVars, tokenVars, runnerVars, job>>

Tick ==
    /\ now < MaxTime
    /\ now' = now + 1
    /\ UNCHANGED <<passwordVars, sessionVars, tokenVars, runnerVars, job>>

Purge ==
    /\ \/ /\ \E t \in refreshTokens : t.expiresAt <= now /\ refreshTokens' = refreshTokens \ {t}
          /\ UNCHANGED <<sessions, sourceTokens, actionTokens>>
       \/ /\ \E s \in sessions : s.expiresAt <= now /\ sessions' = sessions \ {s}
          /\ UNCHANGED <<refreshTokens, sourceTokens, actionTokens>>
       \/ /\ \E t \in sourceTokens : t.expiresAt <= now /\ sourceTokens' = sourceTokens \ {t}
          /\ UNCHANGED <<refreshTokens, sessions, actionTokens>>
       \/ /\ \E t \in actionTokens : t.expiresAt <= now /\ actionTokens' = actionTokens \ {t}
          /\ UNCHANGED <<refreshTokens, sessions, sourceTokens>>
    /\ UNCHANGED <<now, passwordVars, ids, uniqueIn, runnerVars, job>>

Init ==
    /\ now = 0
    /\ changes = Cardinality(Users)
    /\ current \in {f \in [Users -> 1..changes] : \A u, v \in Users : f[u] = f[v] => u = v}
    /\ passwordHash = current
    /\ credentials = {} /\ indexed = FALSE
    /\ refreshTokens = RefreshRows /\ sessions = {}
    /\ ids = Cardinality({t.familyId : t \in RefreshRows})
    /\ sourceTokens = MailedRows /\ uniqueIn = {1, 2} /\ actionTokens = {}
    /\ applied = 0 /\ commands = 0 /\ half = {}
    /\ job = Stopped

Next ==
    \/ UpCredentials \/ CopyHash \/ UnsetHash
    \/ DownCredentials \/ RestoreHash \/ DeleteHashes \/ DropIndex
    \/ UpSessions \/ OpenSession \/ Repoint
    \/ DownSessions \/ RestoreFamily \/ DropSessions
    \/ UpActionTokens \/ CopyToken \/ DropCopied \/ DropSource
    \/ DownActionTokens \/ RestoreToken \/ IndexSource \/ DropTokens
    \/ Done \/ Interrupt
    \/ \E u \in Users : ChangePassword(u)
    \/ Tick \/ Purge

Spec == Init /\ [][Next]_vars

-----------------------------------------------------------------------------
(* What the migrations promise *)

TypeOK ==
    /\ now \in 0..MaxTime
    /\ passwordHash \in [Users -> 0..changes] /\ current \in [Users -> 1..changes]
    /\ credentials \subseteq Credential
    /\ \A c, d \in credentials : c.userId = d.userId => c = d
    /\ refreshTokens \subseteq RefreshToken /\ sessions \subseteq Session
    /\ sourceTokens \subseteq MailedToken /\ actionTokens \subseteq MailedToken
    /\ uniqueIn \subseteq {1, 2} /\ indexed \in BOOLEAN
    /\ applied \in 0..3 /\ half \subseteq 1..3
    /\ job.at \subseteq Users \cup Credential \cup Session \cup Family \cup MailedToken
    /\ Running => job.number \in 1..3 /\ applied = IF job.up THEN job.number - 1 ELSE job.number

\* No run of the migration is under way, or was left unfinished.
AtRest(number) == ~ (Running /\ job.number = number) /\ number \notin half

\* No step of a migration, and no death of it, loses the password a user set
\* last, and when it is done it is where the code looks for it, and only there.
PasswordsSurvive ==
    \A u \in Users :
        LET kept == [userId |-> u, secretHash |-> current[u]] \in credentials
        IN  /\ passwordHash[u] = current[u] \/ kept
            /\ AtRest(1) /\ applied >= 1 => kept /\ passwordHash[u] = 0
            /\ AtRest(1) /\ applied = 0 => passwordHash[u] = current[u] /\ ~ Credentialed(u)

\* The tokens of one sign-in stay together and apart from others, however often
\* the migration is repeated or undone, and belong to a session that lasts as
\* long as they do: who could refresh still can, and is listed.  (Not the other
\* way round: "idempotent" as it is about tokens, a run that dies between its two
\* calls leaves a session that is listed and nobody can refresh.)
FamiliesStayTogether ==
    AtRest(2) =>
        \A t \in {t \in refreshTokens : t.expiresAt > now} :
            /\ IF applied >= 2
                 THEN /\ t.familyId = 0
                      /\ \E s \in sessions : /\ s.id = t.sessionId /\ s.userId = t.userId
                                             /\ s.expiresAt >= t.expiresAt
                 ELSE t.familyId # 0 /\ t.sessionId = 0
            /\ \A u \in refreshTokens :
                  u.expiresAt > now =>
                      (u.origin = t.origin <=> <<u.familyId, u.sessionId>> = <<t.familyId, t.sessionId>>)

\* A mailed token is never lost and never changes the action it authorizes;
\* when the migration is done or undone it is there once.  (A down that died may
\* never be: repeated, it inserts what is there already, and is rejected.)
MailedTokensSurvive ==
    \A m \in {m \in MailedRows : m.expiresAt > now} :
        LET Same(rows) == {t \in rows : t.hash = m.hash /\ t.type = m.type}
        IN  /\ Same(actionTokens) \cup Same(sourceTokens) # {}
            /\ AtRest(3) /\ applied = 3 =>
                  Cardinality(Same(actionTokens)) = 1 /\ Same(sourceTokens) = {}
            /\ AtRest(3) /\ applied < 3 =>
                  Cardinality(Same(sourceTokens)) = 1 /\ Same(actionTokens) = {}
=============================================================================
