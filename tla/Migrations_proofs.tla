-------------------------- MODULE Migrations_proofs --------------------------
(***************************************************************************)
(* Proofs about Migrations for every content of the collections, every     *)
(* sequence of commands and wherever each of them dies: no password,       *)
(* family or mailed token is lost, and what is finished is where the code  *)
(* looks for it.                                                           *)
(***************************************************************************)
EXTENDS Migrations, FiniteSetTheorems, WellFoundedInduction, TLAPS

-----------------------------------------------------------------------------
(* The job: its label says which migration it runs, which way and over what *)

Documents == Users \cup Credential \cup Session \cup Family \cup MailedToken

MovesHashes == {"copyHash", "unsetHash"}
ReturnsHashes == {"restoreHash", "deleteHashes", "dropIndex"}
OpensSessions == {"openSession", "repoint"}
ReturnsFamilies == {"restoreFamily", "dropSessions"}
MovesTokens == {"copyToken", "dropCopied", "dropSource"}
ReturnsTokens == {"restoreToken", "indexSource", "dropTokens"}

Labels == MovesHashes \cup ReturnsHashes \cup OpensSessions \cup ReturnsFamilies
            \cup MovesTokens \cup ReturnsTokens \cup {"done", "stopped"}

Job == [pc: Labels, number: 0..3, up: BOOLEAN, todo: SUBSET Documents, at: SUBSET Documents,
        source: 0..2]

Fits(label, number, up, documents, source) ==
    /\ label \in MovesHashes => number = 1 /\ up /\ documents \subseteq Users
    /\ label \in ReturnsHashes => number = 1 /\ ~ up /\ documents \subseteq Credential
    /\ label \in OpensSessions => number = 2 /\ up /\ documents \subseteq Family
    /\ label \in ReturnsFamilies => number = 2 /\ ~ up /\ documents \subseteq Session
    /\ label \in MovesTokens => number = 3 /\ up /\ documents \subseteq MailedToken
    /\ label \in ReturnsTokens => number = 3 /\ ~ up /\ documents \subseteq MailedToken
    /\ label \in MovesTokens \cup ReturnsTokens => source \in {1, 2}
    /\ label = "done" /\ up => number = 3

JobOK ==
    /\ job \in Job
    /\ Running => /\ job.number \in 1..3
                  /\ applied = IF job.up THEN job.number - 1 ELSE job.number
    /\ Fits(job.pc, job.number, job.up, job.todo \cup job.at, job.source)

StoresOK ==
    /\ now \in 0..MaxTime /\ changes \in Nat /\ ids \in Nat
    /\ passwordHash \in [Users -> Nat] /\ current \in [Users -> 1..changes]
    /\ credentials \subseteq Credential /\ indexed \in BOOLEAN
    /\ refreshTokens \subseteq RefreshToken /\ IsFiniteSet(refreshTokens)
    /\ sessions \subseteq Session
    /\ sourceTokens \subseteq MailedToken /\ IsFiniteSet(sourceTokens)
    /\ actionTokens \subseteq MailedToken /\ uniqueIn \subseteq {1, 2}

Typed == StoresOK /\ applied \in 0..3 /\ half \subseteq 1..3 /\ JobOK

-----------------------------------------------------------------------------
(* Passwords *)

Kept(u) == [userId |-> u, secretHash |-> current[u]] \in credentials

\* Either place has the password set last or none; while the hashes move, those
\* yet to be moved are where they were, and those behind are copied.
PasswordInv ==
    /\ \A u \in Users : passwordHash[u] \in {0, current[u]}
    /\ \A c \in credentials : c.secretHash = current[c.userId]
    /\ \A u \in Users : passwordHash[u] = current[u] \/ Kept(u)
    /\ job.pc \in MovesHashes =>
         \A u \in Users :
            IF u \in job.todo THEN passwordHash[u] = current[u] /\ u \notin job.at
                              ELSE Kept(u) /\ (u \in job.at \/ passwordHash[u] = 0)
    /\ job.pc = "copyHash" => job.at = {}
    /\ job.pc = "restoreHash" =>
         /\ \A c \in job.todo : c.secretHash = current[c.userId]
         /\ \A c \in credentials : c \in job.todo \/ passwordHash[c.userId] = current[c.userId]
    /\ job.pc \in {"deleteHashes", "dropIndex"} => passwordHash = current
    /\ job.pc = "done" /\ job.number = 1 => passwordHash = current
    /\ job.pc = "dropIndex" => credentials = {}
    /\ job.pc = "done" /\ job.number = 1 => credentials = {}
    /\ AtRest(1) => IF applied >= 1 THEN \A u \in Users : Kept(u) /\ passwordHash[u] = 0
                                    ELSE passwordHash = current /\ credentials = {}

-----------------------------------------------------------------------------
(* Families and sessions *)

Live(t) == t.expiresAt > now

\* The number of the family or session a token belongs to.
Number(t) == t.familyId + t.sessionId

Hosted(t) ==
    \E s \in sessions : s.id = t.sessionId /\ s.userId = t.userId /\ s.expiresAt >= t.expiresAt

Stands(f, id) == [id |-> id, userId |-> f.userId, expiresAt |-> f.expiresAt] \in sessions

\* f is a group of tokens that are yet to be re-pointed.
Covers(f) ==
    /\ f.familyId # 0
    /\ \A t \in refreshTokens :
          t.familyId = f.familyId => t.userId = f.userId /\ t.expiresAt <= f.expiresAt

\* The tokens of one sign-in are always in one family or in one session, never in
\* between, and no other tokens are.
Together ==
    /\ \A t \in refreshTokens : (t.familyId = 0) # (t.sessionId = 0) /\ Number(t) <= ids
    /\ \A t, u \in refreshTokens :
          /\ t.origin = u.origin <=> Number(t) = Number(u)
          /\ t.origin = u.origin => t.userId = u.userId /\ (t.familyId = 0 <=> u.familyId = 0)

FamilyInv ==
    /\ Together
    /\ \A s \in sessions : s.id \in 1..ids
    /\ \A t \in refreshTokens : t.sessionId # 0 /\ Live(t) => Hosted(t)
    /\ job.pc \in OpensSessions =>
         /\ \A t \in refreshTokens :
               t.familyId = 0 \/ \E f \in job.todo \cup job.at : f.familyId = t.familyId
         /\ \A f \in job.todo \cup job.at : Covers(f)
    /\ job.pc = "openSession" => job.at = {}
    /\ job.pc = "repoint" =>
         /\ \A t \in refreshTokens : Number(t) < ids
         /\ \E f \in job.at : job.at = {f} /\ (f.expiresAt > now => Stands(f, ids))
    /\ job.pc = "restoreFamily" =>
         /\ \A s \in job.todo : s.id # 0
         /\ \A t \in refreshTokens :
               t.sessionId # 0 /\ Live(t) => \E s \in job.todo : s.id = t.sessionId
    /\ job.pc = "dropSessions" \/ (job.pc = "done" /\ job.number = 2) =>
         \A t \in refreshTokens : Live(t) => t.sessionId = 0
    /\ AtRest(2) => IF applied >= 2 THEN \A t \in refreshTokens : t.familyId = 0
                                    ELSE \A t \in refreshTokens : Live(t) => t.sessionId = 0

-----------------------------------------------------------------------------
(* Mailed tokens *)

\* t is what has become of the mailed token m.
IsOf(t, m) == t.hash = m.hash /\ t.type = m.type /\ t.expiresAt = m.expiresAt

Sourced(m) == \E t \in sourceTokens : IsOf(t, m)

AllSourced(i) ==
    \A m \in actionTokens : Live(m) /\ m.type = Sources[i] => Sourced(m)

\* Wherever the job is, nothing that is live is lost, and no index is violated.
TokensAnywhere ==
    /\ \A t \in sourceTokens : \E m \in MailedRows : IsOf(t, m)
    /\ actionTokens \subseteq MailedRows
    /\ \A m \in MailedRows : Live(m) => m \in actionTokens \/ Sourced(m)
    /\ \A i \in uniqueIn : \A s, t \in InSource(i) : s.hash = t.hash => s = t

\* What is yet to be moved is still to be done, and what was returned is there.
TokensAtLabel ==
    /\ job.pc \in MovesTokens =>
         /\ \A t \in job.todo \cup job.at : \E m \in MailedRows : IsOf(t, m)
         /\ InSource(job.source) \subseteq job.todo \cup job.at
         /\ job.source = 2 => InSource(1) = {}
    /\ job.pc \in {"copyToken", "dropSource"} => job.at = {}
    /\ job.pc = "dropSource" => job.todo = {}
    /\ job.pc = "dropCopied" =>
         \A m \in MailedRows : Live(m) /\ (\E t \in job.at : IsOf(t, m)) => m \in actionTokens
    /\ job.pc = "done" /\ job.number = 3 /\ job.up => sourceTokens = {}
    /\ job.pc \in ReturnsTokens =>
         /\ job.todo \subseteq {m \in MailedRows : m.type = Sources[job.source]}
         /\ job.source = 2 => 1 \in uniqueIn /\ AllSourced(1)
    /\ job.pc = "restoreToken" =>
         \A m \in actionTokens :
            Live(m) /\ m.type = Sources[job.source] => m \in job.todo \/ Sourced(m)
    /\ job.pc = "indexSource" => AllSourced(job.source)
    /\ job.pc = "dropTokens" => uniqueIn = {1, 2} /\ AllSourced(1) /\ AllSourced(2)
    /\ job.pc = "done" /\ job.number = 3 /\ ~ job.up => actionTokens = {} /\ uniqueIn = {1, 2}

TokensAtRest ==
    AtRest(3) => IF applied = 3 THEN sourceTokens = {}
                                ELSE actionTokens = {} /\ uniqueIn = {1, 2}

TokenInv == TokensAnywhere /\ TokensAtLabel /\ TokensAtRest

-----------------------------------------------------------------------------
(* Steps of a job *)

LEMMA StoppedJob == Stopped \in Job /\ Stopped.pc = "stopped"
  BY DEF Stopped, Job, Labels

LEMMA LoopJob ==
  ASSUME job \in Job, NEW label \in Labels, NEW todo \in SUBSET Documents,
         NEW at \in SUBSET Documents, NEW source \in 0..2, Loop(label, todo, at, source)
  PROVE  /\ job' \in Job
         /\ job'.pc = label /\ job'.number = job.number /\ job'.up = job.up
         /\ job'.todo = todo /\ job'.at = at /\ job'.source = source
  BY DEF Loop, Job

LEMMA BeginJob ==
  ASSUME NEW number \in 1..3, NEW up \in BOOLEAN, NEW label \in Labels \ {"stopped"},
         NEW todo \in SUBSET Documents, NEW source \in 0..2,
         Begin(number, up, label, todo, source)
  PROVE  /\ job' \in Job
         /\ job'.pc = label /\ job'.number = number /\ job'.up = up
         /\ job'.todo = todo /\ job'.at = {} /\ job'.source = source
         /\ applied' = applied /\ half' = half /\ ~ Running
         /\ number = IF up THEN applied + 1 ELSE applied
  <1>1. /\ job' = [Stopped EXCEPT !.pc = label, !.number = number, !.up = up, !.todo = todo,
                                  !.source = source]
        /\ applied' = applied /\ half' = half /\ ~ Running
        /\ number = IF up THEN applied + 1 ELSE applied
    BY DEF Begin
  <1>2. /\ job' \in Job
        /\ job'.pc = label /\ job'.number = number /\ job'.up = up
        /\ job'.todo = todo /\ job'.at = {} /\ job'.source = source
    <2>1. Stopped.at = {}
      BY DEF Stopped
    <2> HIDE DEF Stopped
    <2>2. Stopped \in Job
      BY StoppedJob
    <2>3. number \in 0..3 /\ label \in Labels
      OBVIOUS
    <2>4. job'.number = number /\ job'.todo = todo /\ job'.source = source
      BY <1>1, <2>2 DEF Job
    <2>5. job'.pc = label /\ job'.at = {}
      BY <1>1, <2>1, <2>2 DEF Job
    <2>6. job'.up = up
      BY <1>1, <2>2, Zenon DEF Job
    <2>7. job' \in Job
      BY <1>1, <2>2, <2>3 DEF Job
    <2> QED BY <2>4, <2>5, <2>6, <2>7
  <1> QED BY <1>1, <1>2

\* The three ways a step of a job ends: it goes on, resolves or rejects.
Onward == Going /\ job' \in Job /\ job'.pc # "stopped" /\ job'.number = job.number /\ job'.up = job.up

\* What a step of another migration, or of none, leaves alone of migration n.
Elsewhere(n) ==
    /\ job' = job \/ ~ (job'.pc # "stopped" /\ job'.number = n)
    /\ AtRest(n)' => AtRest(n)
    /\ applied' >= n <=> applied >= n

Alone(number) == \A n \in 1..3 \ {number} : Elsewhere(n)

LEMMA BeginElsewhere ==
  ASSUME Typed, NEW n \in 1..3, NEW number \in 1..3, number # n, NEW up \in BOOLEAN,
         NEW label \in Labels \ {"stopped"}, NEW todo \in SUBSET Documents, NEW source \in 0..2,
         Begin(number, up, label, todo, source)
  PROVE  Elsewhere(n)
  BY BeginJob DEF Elsewhere, AtRest, Running

LEMMA OnwardElsewhere ==
  ASSUME Typed, NEW n \in 1..3, Running, job.number # n, Onward
  PROVE  Elsewhere(n)
  BY DEF Onward, Going, runnerVars, Elsewhere, AtRest, Running

LEMMA FinishElsewhere ==
  ASSUME Typed, NEW n \in 1..3, Running, job.number # n, Finish
  PROVE  Elsewhere(n)
  <1>1. job'.pc = "stopped"
    BY StoppedJob DEF Finish
  <1>2. job.number \in 1..3 /\ job.up \in BOOLEAN
        /\ applied = IF job.up THEN job.number - 1 ELSE job.number
    BY DEF Typed, JobOK, Job
  <1>3. applied' >= n <=> applied >= n
    BY <1>2 DEF Finish
  <1> QED BY <1>1, <1>3 DEF Finish, Elsewhere, AtRest, Running

LEMMA RejectElsewhere ==
  ASSUME Typed, NEW n \in 1..3, Running, Reject
  PROVE  Elsewhere(n)
  BY StoppedJob DEF Reject, Elsewhere, AtRest, Running

-----------------------------------------------------------------------------
(* Finite collections *)

LEMMA ImageFinite ==
  ASSUME NEW S, IsFiniteSet(S), NEW f, DOMAIN f = S
  PROVE  IsFiniteSet({f[x] : x \in S})
  <1> DEFINE T == {f[x] : x \in S}
             g == [x \in S |-> f[x]]
  <1>1. g \in Surjection(S, T)
    BY DEF Surjection
  <1> QED BY <1>1, FS_Surjection

\* The least of a nonempty set of naturals.
LEMMA Least ==
  ASSUME NEW S \in SUBSET Nat, S # {}
  PROVE  \E n \in S : \A m \in S : n <= m
  <1>1. \E R : R = {p \in Nat \X Nat : p[1] < p[2]} /\ IsWellFoundedOn(R, Nat)
    <2>1. OpToRel(<, Nat) = {p \in Nat \X Nat : p[1] < p[2]}
      BY DEF OpToRel
    <2> QED BY <2>1, NatLessThanWellFounded, Zenon
  <1>2. PICK R : R = {p \in Nat \X Nat : p[1] < p[2]} /\ IsWellFoundedOn(R, Nat)
    BY <1>1
  <1>3. PICK n \in S : \A m \in S : ~ (<<m, n>> \in R)
    BY <1>2, WFMin, Zenon
  <1>4. ASSUME NEW m \in S
        PROVE  n <= m
    <2>1. <<m, n>> \in Nat \X Nat /\ <<m, n>>[1] = m /\ <<m, n>>[2] = n
      OBVIOUS
    <2>2. ~ (m < n)
      BY <1>2, <1>3, <2>1
    <2> QED BY <2>2
  <1> QED BY <1>4

\* $max of a group: that with the fewest above it has none above it.
LEMMA Greatest ==
  ASSUME NEW S \in SUBSET Nat, S # {}, IsFiniteSet(S)
  PROVE  Max(S) \in S /\ \A m \in S : Max(S) >= m
  <1> DEFINE Above(x) == {y \in S : y > x}
             Counts == {Cardinality(Above(x)) : x \in S}
  <1>1. \A x \in S : Cardinality(Above(x)) \in Nat /\ IsFiniteSet(Above(x))
    BY FS_Subset, FS_CardinalityType
  <1>2. PICK n \in Counts : \A m \in Counts : n <= m
    <2>1. Counts \in SUBSET Nat /\ Counts # {}
      BY <1>1
    <2> HIDE DEF Counts
    <2> QED BY <2>1, Least
  <1>3. PICK x \in S : \A y \in S : Cardinality(Above(x)) <= Cardinality(Above(y))
    BY <1>2
  <1>4. ASSUME NEW y \in S, y > x
        PROVE  FALSE
    <2>1. x \in Nat /\ y \in Nat
      OBVIOUS
    <2>2. \A z \in S : z > y => z > x
      BY <1>4, <2>1
    <2>3. Above(y) \in SUBSET Above(x) /\ y \in Above(x) /\ y \notin Above(y)
      <3>1. y \in Above(x)
        BY <1>4
      <3>2. ~ (y > y)
        BY <2>1
      <3> QED BY <2>2, <3>1, <3>2
    <2> HIDE DEF Above
    <2> QED BY <1>1, <1>3, <2>3, FS_Subset
  <1>5. \A y \in S : x >= y
    BY <1>4
  <1> QED BY <1>5 DEF Max

-----------------------------------------------------------------------------
(* Types *)

Moved(label, todo, at, source) ==
    Onward /\ job'.pc = label /\ job'.todo = todo /\ job'.at = at /\ job'.source = source

LEMMA LoopMoves ==
  ASSUME Typed, NEW label \in Labels \ {"stopped"}, NEW todo \in SUBSET Documents,
         NEW at \in SUBSET Documents, NEW source \in 0..2, Loop(label, todo, at, source), Going
  PROVE  Moved(label, todo, at, source)
  BY LoopJob DEF Typed, JobOK, Moved, Onward

LEMMA TakeMoves ==
  ASSUME Typed, NEW label \in Labels \ {"stopped"}, NEW x \in job.todo, Take(label, x), Going
  PROVE  Moved(label, job.todo \ {x}, {x}, job.source)
  BY LoopMoves DEF Take, Typed, JobOK, Job

LEMMA GotoMoves ==
  ASSUME Typed, NEW label \in Labels \ {"stopped"}, Goto(label), Going
  PROVE  Moved(label, job.todo, {}, job.source)
  BY LoopMoves DEF Goto, Typed, JobOK, Job

LEMMA MovedTyped ==
  ASSUME Typed, StoresOK', Running, NEW label, NEW todo, NEW at, NEW source,
         Moved(label, todo, at, source),
         Fits(label, job.number, job.up, todo \cup at, source)
  PROVE  Typed' /\ Alone(job.number)
  <1>1. /\ job' \in Job /\ job'.number = job.number /\ job'.up = job.up
        /\ applied' = applied /\ half' = half /\ Running'
    BY DEF Moved, Onward, Going, runnerVars, Running
  <1>2. Fits(job'.pc, job'.number, job'.up, job'.todo \cup job'.at, job'.source)
    BY <1>1 DEF Moved
  <1>3. Typed'
    BY <1>1, <1>2 DEF Typed, JobOK
  <1> QED BY <1>3, OnwardElsewhere DEF Moved, Alone

LEMMA BeginTyped ==
  ASSUME Typed, StoresOK', NEW number \in 1..3, NEW up \in BOOLEAN,
         NEW label \in Labels \ {"stopped"}, NEW todo \in SUBSET Documents, NEW source \in 0..2,
         Begin(number, up, label, todo, source),
         Fits(label, number, up, todo, source)
  PROVE  Typed' /\ Alone(number)
  <1>1. /\ job' \in Job
        /\ job'.pc = label /\ job'.number = number /\ job'.up = up
        /\ job'.todo = todo /\ job'.at = {} /\ job'.source = source
        /\ applied' = applied /\ half' = half
        /\ number = IF up THEN applied + 1 ELSE applied
    BY BeginJob
  <1>2. Fits(job'.pc, job'.number, job'.up, job'.todo \cup job'.at, job'.source)
    <2>1. todo \cup {} = todo
      OBVIOUS
    <2> QED BY <1>1, <2>1
  <1>3. applied' = IF job'.up THEN job'.number - 1 ELSE job'.number
    BY <1>1 DEF Typed
  <1>4. Typed'
    BY <1>1, <1>2, <1>3 DEF Typed, JobOK
  <1> QED BY <1>4, BeginElsewhere DEF Alone

LEMMA BeginUpTyped ==
  ASSUME Typed, StoresOK', NEW number \in 1..3, NEW label \in Labels \ {"stopped"},
         NEW todo \in SUBSET Documents, NEW source \in 0..2,
         Begin(number, TRUE, label, todo, source), Fits(label, number, TRUE, todo, source)
  PROVE  Typed' /\ Alone(number)
  BY BeginTyped, Zenon

LEMMA BeginDownTyped ==
  ASSUME Typed, StoresOK', NEW number \in 1..3, NEW label \in Labels \ {"stopped"},
         NEW todo \in SUBSET Documents, NEW source \in 0..2,
         Begin(number, FALSE, label, todo, source), Fits(label, number, FALSE, todo, source)
  PROVE  Typed' /\ Alone(number)
  BY BeginTyped, Zenon

LEMMA StoppedTyped ==
  ASSUME Typed, StoresOK', job' = Stopped, applied' \in 0..3, half' \subseteq 1..3
  PROVE  Typed'
  <1>1. job'.pc = "stopped" /\ job' \in Job
    BY StoppedJob
  <1>2. Fits(job'.pc, job'.number, job'.up, job'.todo \cup job'.at, job'.source)
    BY <1>1 DEF Fits, MovesHashes, ReturnsHashes, OpensSessions, ReturnsFamilies, MovesTokens,
       ReturnsTokens
  <1>3. JobOK'
    BY <1>1, <1>2 DEF JobOK, Running
  <1> QED BY <1>3 DEF Typed

LEMMA FinishTyped ==
  ASSUME Typed, StoresOK', Running, Finish
  PROVE  Typed' /\ Alone(job.number)
  <1>1. job.number \in 1..3 /\ job.up \in BOOLEAN
    BY DEF Typed, JobOK, Job
  <1>2. applied' \in 0..3
    BY <1>1 DEF Finish
  <1>3. half' \subseteq 1..3 /\ job' = Stopped
    BY DEF Finish, Typed
  <1> QED BY <1>2, <1>3, StoppedTyped, FinishElsewhere DEF Alone

LEMMA RejectTyped ==
  ASSUME Typed, StoresOK', Running, Reject
  PROVE  Typed' /\ \A n \in 1..3 : Elsewhere(n)
  <1>1. job.number \in 1..3
    BY DEF Typed, JobOK
  <1>2. Typed'
    BY <1>1, StoppedTyped DEF Reject, Typed
  <1> QED BY <1>2, RejectElsewhere

\* Which labels a step is at, and where it may go.
LEMMA InLabels ==
  /\ \A l \in MovesHashes \cup ReturnsHashes \cup OpensSessions \cup ReturnsFamilies
                \cup MovesTokens \cup ReturnsTokens \cup {"done"} :
        l \in Labels \ {"stopped"}
  /\ \A d \in {Users, Credential, Session, Family, MailedToken} : d \subseteq Documents
  BY DEF Labels, Documents, MovesHashes, ReturnsHashes, OpensSessions, ReturnsFamilies,
     MovesTokens, ReturnsTokens

PasswordStep ==
    \/ UpCredentials \/ CopyHash \/ UnsetHash
    \/ DownCredentials \/ RestoreHash \/ DeleteHashes \/ DropIndex

SessionStep ==
    \/ UpSessions \/ OpenSession \/ Repoint
    \/ DownSessions \/ RestoreFamily \/ DropSessions

TokenStep ==
    \/ UpActionTokens \/ CopyToken \/ DropCopied \/ DropSource
    \/ DownActionTokens \/ RestoreToken \/ IndexSource \/ DropTokens


\* What a label says of the job that is there.
LEMMA AtLabels ==
  ASSUME Typed
  PROVE  /\ job.pc \in Labels \ {"stopped"} <=> Running
         /\ job.todo \subseteq Documents /\ job.source \in 0..2
         /\ job.pc \in MovesHashes =>
              Running /\ job.number = 1 /\ job.up = TRUE /\ job.todo \cup job.at \subseteq Users
         /\ job.pc \in ReturnsHashes =>
              Running /\ job.number = 1 /\ job.up = FALSE /\ job.todo \cup job.at \subseteq Credential
         /\ job.pc \in OpensSessions =>
              Running /\ job.number = 2 /\ job.up = TRUE /\ job.todo \cup job.at \subseteq Family
         /\ job.pc \in ReturnsFamilies =>
              Running /\ job.number = 2 /\ job.up = FALSE /\ job.todo \cup job.at \subseteq Session
         /\ job.pc \in MovesTokens =>
              Running /\ job.number = 3 /\ job.up = TRUE /\ job.todo \cup job.at \subseteq MailedToken
         /\ job.pc \in ReturnsTokens =>
              Running /\ job.number = 3 /\ job.up = FALSE /\ job.todo \cup job.at \subseteq MailedToken
         /\ job.pc \in MovesTokens \cup ReturnsTokens => job.source \in {1, 2}
  <1>1. job \in Job /\ job.up \in BOOLEAN
        /\ Fits(job.pc, job.number, job.up, job.todo \cup job.at, job.source)
    BY DEF Typed, JobOK, Job
  <1>2. job.pc \in Labels /\ job.todo \subseteq Documents /\ job.source \in 0..2
    BY <1>1 DEF Job
  <1> QED BY <1>1, <1>2, InLabels DEF Fits, Running

LEMMA PasswordStepTyped ==
  ASSUME Typed, PasswordStep
  PROVE  Typed' /\ \A n \in {2, 3} : Elsewhere(n)
  <1> USE InLabels, AtLabels DEF MovesHashes, ReturnsHashes
  <1>1. CASE UpCredentials
    <2>1. Begin(1, TRUE, "copyHash", Hashed, 0) /\ StoresOK'
      BY <1>1 DEF UpCredentials, Typed, StoresOK, sessionVars, tokenVars
    <2>2. Hashed \subseteq Users /\ Hashed \in SUBSET Documents
      BY DEF Hashed, Documents
    <2>3. Fits("copyHash", 1, TRUE, Hashed, 0)
      BY <2>2 DEF Fits, OpensSessions, ReturnsFamilies, MovesTokens, ReturnsTokens
    <2>4. 1 \in 1..3 /\ 0 \in 0..2 /\ "copyHash" \in Labels \ {"stopped"}
      OBVIOUS
    <2>5. Typed' /\ Alone(1)
      BY <2>1, <2>2, <2>3, <2>4, BeginUpTyped, Zenon
    <2> QED BY <2>5 DEF Alone
  <1>2. CASE CopyHash
    <2>1. job.pc = "copyHash" /\ Running /\ job.number = 1 /\ job.up = TRUE
      BY <1>2 DEF CopyHash
    <2>2. ASSUME NEW u \in job.todo, Take("unsetHash", u), Going,
                 credentials' = IF Credentialed(u) THEN credentials
                                ELSE credentials \cup {[userId |-> u, secretHash |-> passwordHash[u]]}
          PROVE  Typed' /\ Alone(1)
      <3>1. Moved("unsetHash", job.todo \ {u}, {u}, job.source)
        BY <2>2, TakeMoves
      <3>2. u \in Users /\ passwordHash[u] \in Nat
        BY <2>1 DEF Typed, StoresOK
      <3>3. credentials' \subseteq Credential
        BY <2>2, <3>2 DEF Typed, StoresOK, Credential
      <3>4. StoresOK'
        BY <1>2, <3>3 DEF CopyHash, Typed, StoresOK, sessionVars, tokenVars
      <3>5. Fits("unsetHash", job.number, job.up, (job.todo \ {u}) \cup {u}, job.source)
        BY <2>1, <3>2 DEF Fits, OpensSessions, ReturnsFamilies, MovesTokens, ReturnsTokens
      <3> QED BY <2>1, <3>1, <3>4, <3>5, MovedTyped
    <2>3. CASE Finish /\ UNCHANGED credentials
      <3>1. StoresOK'
        BY <1>2, <2>3 DEF CopyHash, Typed, StoresOK, sessionVars, tokenVars
      <3> QED BY <2>1, <2>3, <3>1, FinishTyped DEF Alone
    <2> QED BY <1>2, <2>2, <2>3 DEF CopyHash, Alone
  <1>3. CASE UnsetHash
    <2>1. Goto("copyHash") /\ Going /\ Running /\ job.number = 1 /\ job.up = TRUE
          /\ job.todo \subseteq Users
      BY <1>3 DEF UnsetHash
    <2>2. StoresOK'
      BY <1>3 DEF UnsetHash, Typed, StoresOK, sessionVars, tokenVars
    <2>3. Fits("copyHash", job.number, job.up, job.todo \cup {}, job.source)
      BY <2>1 DEF Fits, OpensSessions, ReturnsFamilies, MovesTokens, ReturnsTokens
    <2>4. Moved("copyHash", job.todo, {}, job.source)
      BY <2>1, GotoMoves
    <2> QED BY <2>1, <2>2, <2>3, <2>4, MovedTyped DEF Alone
  <1>4. CASE DownCredentials
    <2>1. Begin(1, FALSE, "restoreHash", credentials, 0) /\ StoresOK'
      BY <1>4 DEF DownCredentials, Typed, StoresOK, passwordVars, sessionVars, tokenVars
    <2>2. credentials \subseteq Credential /\ credentials \in SUBSET Documents
      BY DEF Typed, StoresOK, Documents
    <2>3. Fits("restoreHash", 1, FALSE, credentials, 0)
      BY <2>2 DEF Fits, OpensSessions, ReturnsFamilies, MovesTokens, ReturnsTokens
    <2>4. 1 \in 1..3 /\ 0 \in 0..2 /\ "restoreHash" \in Labels \ {"stopped"}
      OBVIOUS
    <2>5. Typed' /\ Alone(1)
      BY <2>1, <2>2, <2>3, <2>4, BeginDownTyped, Zenon
    <2> QED BY <2>5 DEF Alone
  <1>5. CASE RestoreHash
    <2>1. job.pc = "restoreHash" /\ Running /\ job.number = 1 /\ job.up = FALSE /\ Going
          /\ job.todo \subseteq Credential
      BY <1>5 DEF RestoreHash
    <2>2. ASSUME NEW c \in job.todo, Take("restoreHash", c)
          PROVE  /\ Moved("restoreHash", job.todo \ {c}, {c}, job.source)
                 /\ Fits("restoreHash", job.number, job.up, (job.todo \ {c}) \cup {c}, job.source)
      BY <2>1, <2>2, TakeMoves DEF Fits, OpensSessions, ReturnsFamilies, MovesTokens, ReturnsTokens
    <2>3. ASSUME Goto("deleteHashes")
          PROVE  /\ Moved("deleteHashes", job.todo, {}, job.source)
                 /\ Fits("deleteHashes", job.number, job.up, job.todo \cup {}, job.source)
      BY <2>1, <2>3, GotoMoves DEF Fits, OpensSessions, ReturnsFamilies, MovesTokens, ReturnsTokens
    <2>4. passwordHash' \in [Users -> Nat]
      BY <1>5, <2>1 DEF RestoreHash, Typed, StoresOK, Credential
    <2>5. StoresOK'
      BY <1>5, <2>4 DEF RestoreHash, Typed, StoresOK, sessionVars, tokenVars
    <2>6. ASSUME NEW c \in job.todo, Take("restoreHash", c)
          PROVE  Typed' /\ Alone(1)
      BY <2>1, <2>2, <2>5, <2>6, MovedTyped
    <2>7. CASE Goto("deleteHashes")
      BY <2>1, <2>3, <2>5, <2>7, MovedTyped DEF Alone
    <2> QED BY <1>5, <2>6, <2>7 DEF RestoreHash, Alone
  <1>6. CASE DeleteHashes
    <2>1. Goto("dropIndex") /\ Going /\ Running /\ job.number = 1 /\ job.up = FALSE
          /\ job.todo \subseteq Credential
      BY <1>6 DEF DeleteHashes
    <2>2. StoresOK'
      BY <1>6 DEF DeleteHashes, Typed, StoresOK, sessionVars, tokenVars
    <2>3. Fits("dropIndex", job.number, job.up, job.todo \cup {}, job.source)
      BY <2>1 DEF Fits, OpensSessions, ReturnsFamilies, MovesTokens, ReturnsTokens
    <2>4. Moved("dropIndex", job.todo, {}, job.source)
      BY <2>1, GotoMoves
    <2> QED BY <2>1, <2>2, <2>3, <2>4, MovedTyped DEF Alone
  <1>7. CASE DropIndex
    <2>1. Running /\ job.number = 1 /\ job.up = FALSE /\ ((Goto("done") /\ Going) \/ Reject)
      BY <1>7 DEF DropIndex
    <2>2. StoresOK'
      BY <1>7 DEF DropIndex, Typed, StoresOK, sessionVars, tokenVars
    <2>3. Fits("done", job.number, job.up, job.todo \cup {}, job.source)
      BY <2>1 DEF Fits, OpensSessions, ReturnsFamilies, MovesTokens, ReturnsTokens
    <2>4. CASE Goto("done") /\ Going
      <3>1. Moved("done", job.todo, {}, job.source)
        BY <2>4, GotoMoves
      <3> QED BY <2>1, <2>2, <2>3, <3>1, MovedTyped DEF Alone
    <2>5. CASE Reject
      BY <2>1, <2>2, <2>5, RejectTyped
    <2> QED BY <2>1, <2>4, <2>5
  <1> QED BY <1>1, <1>2, <1>3, <1>4, <1>5, <1>6, <1>7 DEF PasswordStep

\* The aggregate: a family for each family and user there are tokens of, which
\* outlasts them all.
LEMMA GroupFacts ==
  ASSUME NEW rows \in SUBSET RefreshToken, IsFiniteSet(rows), NEW t \in rows,
         \A u \in rows : u.familyId = t.familyId /\ u.userId = t.userId
  PROVE  /\ Group(rows) \in Family
         /\ Group(rows).familyId = t.familyId /\ Group(rows).userId = t.userId
         /\ \A u \in rows : u.expiresAt <= Group(rows).expiresAt
  <1> DEFINE expiries == {u.expiresAt : u \in rows}
             first == CHOOSE u \in rows : TRUE
  <1>1. expiries \in SUBSET Nat /\ expiries # {}
    BY DEF RefreshToken
  <1>2. IsFiniteSet(expiries)
    <2> DEFINE f == [u \in rows |-> u.expiresAt]
    <2>1. IsFiniteSet({f[u] : u \in rows})
      BY ImageFinite
    <2>2. {f[u] : u \in rows} = expiries
      OBVIOUS
    <2> QED BY <2>1, <2>2
  <1>3. Max(expiries) \in expiries /\ \A n \in expiries : Max(expiries) >= n
    <2> HIDE DEF expiries
    <2> QED BY <1>1, <1>2, Greatest
  <1>4. first \in rows
    OBVIOUS
  <1>5. first.familyId = t.familyId /\ first.userId = t.userId /\ t.familyId \in Nat /\ t.userId \in Users
    BY <1>4 DEF RefreshToken
  <1>6. Group(rows) = [familyId |-> first.familyId, userId |-> first.userId,
                       expiresAt |-> Max(expiries)]
    BY DEF Group
  <1>7. \A u \in rows : u.expiresAt \in expiries /\ u.expiresAt \in Nat
    BY <1>1
  <1>8. \A u \in rows : u.expiresAt <= Max(expiries)
    BY <1>1, <1>3, <1>7
  <1>9. Max(expiries) \in Nat
    BY <1>1, <1>3
  <1> HIDE DEF first, expiries
  <1> QED BY <1>5, <1>6, <1>8, <1>9 DEF Family

Kin(t) == {u \in refreshTokens : u.familyId = t.familyId /\ u.userId = t.userId}

LEMMA FamiliesFacts ==
  ASSUME Typed
  PROVE  /\ Families \in SUBSET Family
         /\ \A f \in Families :
               /\ f.familyId # 0
               /\ \A t \in refreshTokens :
                     t.familyId = f.familyId /\ t.userId = f.userId => t.expiresAt <= f.expiresAt
               /\ \E t \in refreshTokens : t.familyId = f.familyId /\ t.userId = f.userId
         /\ \A t \in refreshTokens : t.familyId # 0 => \E f \in Families : f.familyId = t.familyId
  <1>1. ASSUME NEW t \in refreshTokens
        PROVE  /\ Group(Kin(t)) \in Family
               /\ Group(Kin(t)).familyId = t.familyId /\ Group(Kin(t)).userId = t.userId
               /\ \A u \in Kin(t) : u.expiresAt <= Group(Kin(t)).expiresAt
    <2>1. /\ Kin(t) \in SUBSET RefreshToken /\ Kin(t) \in SUBSET refreshTokens
          /\ IsFiniteSet(refreshTokens) /\ t \in Kin(t)
          /\ \A u \in Kin(t) : u.familyId = t.familyId /\ u.userId = t.userId
      BY DEF Kin, Typed, StoresOK
    <2>2. IsFiniteSet(Kin(t))
      BY <2>1, FS_Subset
    <2> QED BY <2>1, <2>2, GroupFacts
  <1>2. Families = {Group(Kin(t)) : t \in {u \in refreshTokens : u.familyId # 0}}
    BY DEF Families, Kin
  <1>3. ASSUME NEW f \in Families
        PROVE  /\ f \in Family /\ f.familyId # 0
               /\ \A t \in refreshTokens :
                     t.familyId = f.familyId /\ t.userId = f.userId => t.expiresAt <= f.expiresAt
               /\ \E t \in refreshTokens : t.familyId = f.familyId /\ t.userId = f.userId
    <2>1. PICK t \in refreshTokens : t.familyId # 0 /\ f = Group(Kin(t))
      BY <1>2
    <2> QED BY <1>1, <2>1 DEF Kin
  <1> QED BY <1>1, <1>2, <1>3

\* What updateMany makes of a token.
Repointed(t) ==
    IF \E f \in job.at : t.familyId = f.familyId
      THEN [t EXCEPT !.familyId = 0, !.sessionId = ids] ELSE t

Restored(t, s) == IF t.sessionId = s.id THEN [t EXCEPT !.familyId = s.id, !.sessionId = 0] ELSE t

LEMMA RepointedFacts ==
  ASSUME Typed, NEW t \in refreshTokens
  PROVE  /\ Repointed(t) \in RefreshToken
         /\ Repointed(t).userId = t.userId /\ Repointed(t).expiresAt = t.expiresAt
         /\ Repointed(t).origin = t.origin
         /\ IF \E f \in job.at : t.familyId = f.familyId
              THEN Repointed(t).familyId = 0 /\ Repointed(t).sessionId = ids
              ELSE Repointed(t).familyId = t.familyId /\ Repointed(t).sessionId = t.sessionId
  <1>1. t \in RefreshToken /\ ids \in Nat
    BY DEF Typed, StoresOK
  <1>2. CASE \E f \in job.at : t.familyId = f.familyId
    <2>1. PICK v : v = [t EXCEPT !.familyId = 0, !.sessionId = ids]
      OBVIOUS
    <2>2. Repointed(t) = v
      BY <1>2, <2>1 DEF Repointed
    <2>3. /\ v \in RefreshToken /\ v.familyId = 0 /\ v.sessionId = ids
          /\ v.userId = t.userId /\ v.expiresAt = t.expiresAt /\ v.origin = t.origin
      BY <1>1, <2>1 DEF RefreshToken
    <2> QED BY <1>2, <2>2, <2>3
  <1>3. CASE ~ \E f \in job.at : t.familyId = f.familyId
    <2>1. Repointed(t) = t
      BY <1>3 DEF Repointed
    <2> QED BY <1>1, <1>3, <2>1
  <1> QED BY <1>2, <1>3

LEMMA RestoredFacts ==
  ASSUME Typed, NEW t \in refreshTokens, NEW s \in Session
  PROVE  /\ Restored(t, s) \in RefreshToken
         /\ Restored(t, s).userId = t.userId /\ Restored(t, s).expiresAt = t.expiresAt
         /\ Restored(t, s).origin = t.origin
         /\ IF t.sessionId = s.id
              THEN Restored(t, s).familyId = s.id /\ Restored(t, s).sessionId = 0
              ELSE Restored(t, s).familyId = t.familyId /\ Restored(t, s).sessionId = t.sessionId
  <1>1. t \in RefreshToken /\ s.id \in Nat
    BY DEF Typed, StoresOK, Session
  <1>2. CASE t.sessionId = s.id
    <2>1. PICK v : v = [t EXCEPT !.familyId = s.id, !.sessionId = 0]
      OBVIOUS
    <2>2. Restored(t, s) = v
      BY <1>2, <2>1 DEF Restored
    <2>3. /\ v \in RefreshToken /\ v.familyId = s.id /\ v.sessionId = 0
          /\ v.userId = t.userId /\ v.expiresAt = t.expiresAt /\ v.origin = t.origin
      BY <1>1, <2>1 DEF RefreshToken
    <2> QED BY <1>2, <2>2, <2>3
  <1>3. CASE t.sessionId # s.id
    <2>1. Restored(t, s) = t
      BY <1>3 DEF Restored
    <2> QED BY <1>1, <1>3, <2>1
  <1> QED BY <1>2, <1>3

LEMMA SessionStepTyped ==
  ASSUME Typed, SessionStep
  PROVE  Typed' /\ \A n \in {1, 3} : Elsewhere(n)
  <1> USE InLabels, AtLabels DEF OpensSessions, ReturnsFamilies
  <1>1. CASE UpSessions
    <2>1. Begin(2, TRUE, "openSession", Families, 0) /\ StoresOK'
      BY <1>1 DEF UpSessions, Typed, StoresOK, passwordVars, sessionVars, tokenVars
    <2>2. Families \subseteq Family /\ Families \in SUBSET Documents
      BY FamiliesFacts DEF Documents
    <2>3. Fits("openSession", 2, TRUE, Families, 0)
      BY <2>2 DEF Fits, MovesHashes, ReturnsHashes, MovesTokens, ReturnsTokens
    <2>4. 2 \in 1..3 /\ 0 \in 0..2 /\ "openSession" \in Labels \ {"stopped"}
      OBVIOUS
    <2>5. Typed' /\ Alone(2)
      BY <2>1, <2>2, <2>3, <2>4, BeginUpTyped, Zenon
    <2> QED BY <2>5 DEF Alone
  <1>2. CASE OpenSession
    <2>1. job.pc = "openSession" /\ Running /\ job.number = 2 /\ job.up = TRUE
          /\ job.todo \subseteq Family
      BY <1>2 DEF OpenSession
    <2>2. ASSUME NEW f \in job.todo, Take("repoint", f), Going, ids' = ids + 1,
                 sessions' = sessions \cup
                   {[id |-> ids + 1, userId |-> f.userId, expiresAt |-> f.expiresAt]}
          PROVE  Typed' /\ Alone(2)
      <3>1. Moved("repoint", job.todo \ {f}, {f}, job.source)
        BY <2>2, TakeMoves
      <3>2. f \in Family /\ ids' \in Nat
        BY <2>1, <2>2 DEF Typed, StoresOK
      <3>3. sessions' \subseteq Session
        BY <2>2, <3>2 DEF Typed, StoresOK, Session, Family
      <3>4. StoresOK'
        BY <1>2, <3>2, <3>3 DEF OpenSession, Typed, StoresOK, passwordVars, tokenVars
      <3>5. Fits("repoint", job.number, job.up, (job.todo \ {f}) \cup {f}, job.source)
        BY <2>1, <3>2 DEF Fits, MovesHashes, ReturnsHashes, MovesTokens, ReturnsTokens
      <3> QED BY <2>1, <3>1, <3>4, <3>5, MovedTyped
    <2>3. CASE Finish /\ UNCHANGED <<sessions, ids>>
      <3>1. StoresOK'
        BY <1>2, <2>3 DEF OpenSession, Typed, StoresOK, passwordVars, tokenVars
      <3> QED BY <2>1, <2>3, <3>1, FinishTyped DEF Alone
    <2> QED BY <1>2, <2>2, <2>3 DEF OpenSession, Alone
  <1>3. CASE Repoint
    <2>1. Goto("openSession") /\ Going /\ Running /\ job.number = 2 /\ job.up = TRUE
          /\ job.todo \subseteq Family
      BY <1>3 DEF Repoint
    <2>2. refreshTokens' = {Repointed(t) : t \in refreshTokens}
      BY <1>3 DEF Repoint, Repointed
    <2>4. IsFiniteSet(refreshTokens')
      <3> DEFINE new == [t \in refreshTokens |-> Repointed(t)]
      <3>1. {new[t] : t \in refreshTokens} = {Repointed(t) : t \in refreshTokens}
        OBVIOUS
      <3>2. DOMAIN new = refreshTokens /\ IsFiniteSet(refreshTokens)
        BY DEF Typed, StoresOK
      <3> HIDE DEF new
      <3>3. IsFiniteSet({new[t] : t \in refreshTokens})
        BY <3>2, ImageFinite
      <3> QED BY <2>2, <3>1, <3>3
    <2>5. refreshTokens' \subseteq RefreshToken
      BY <2>2, RepointedFacts
    <2>6. StoresOK'
      BY <1>3, <2>4, <2>5 DEF Repoint, Typed, StoresOK, passwordVars, tokenVars
    <2>7. Fits("openSession", job.number, job.up, job.todo \cup {}, job.source)
      BY <2>1 DEF Fits, MovesHashes, ReturnsHashes, MovesTokens, ReturnsTokens
    <2>8. Moved("openSession", job.todo, {}, job.source)
      BY <2>1, GotoMoves
    <2> QED BY <2>1, <2>6, <2>7, <2>8, MovedTyped DEF Alone
  <1>4. CASE DownSessions
    <2>1. Begin(2, FALSE, "restoreFamily", sessions, 0) /\ StoresOK'
      BY <1>4 DEF DownSessions, Typed, StoresOK, passwordVars, sessionVars, tokenVars
    <2>2. sessions \subseteq Session /\ sessions \in SUBSET Documents
      BY DEF Typed, StoresOK, Documents
    <2>3. Fits("restoreFamily", 2, FALSE, sessions, 0)
      BY <2>2 DEF Fits, MovesHashes, ReturnsHashes, MovesTokens, ReturnsTokens
    <2>4. 2 \in 1..3 /\ 0 \in 0..2 /\ "restoreFamily" \in Labels \ {"stopped"}
      OBVIOUS
    <2>5. Typed' /\ Alone(2)
      BY <2>1, <2>2, <2>3, <2>4, BeginDownTyped, Zenon
    <2> QED BY <2>5 DEF Alone
  <1>5. CASE RestoreFamily
    <2>1. Running /\ job.number = 2 /\ job.up = FALSE /\ Going /\ job.todo \subseteq Session
      BY <1>5 DEF RestoreFamily
    <2>2. ASSUME NEW s \in job.todo, Take("restoreFamily", s),
                 refreshTokens' = {Restored(t, s) : t \in refreshTokens}
          PROVE  Typed' /\ Alone(2)
      <3>2. s \in Session
        BY <2>1
      <3>5. IsFiniteSet(refreshTokens')
        <4> DEFINE new == [t \in refreshTokens |-> Restored(t, s)]
        <4>1. {new[t] : t \in refreshTokens} = {Restored(t, s) : t \in refreshTokens}
          OBVIOUS
        <4>2. DOMAIN new = refreshTokens /\ IsFiniteSet(refreshTokens)
          BY DEF Typed, StoresOK
        <4> HIDE DEF new
        <4>3. IsFiniteSet({new[t] : t \in refreshTokens})
          BY <4>2, ImageFinite
        <4> QED BY <2>2, <4>1, <4>3
      <3>6. refreshTokens' \subseteq RefreshToken
        BY <2>2, <3>2, RestoredFacts
      <3>7. StoresOK'
        BY <1>5, <3>5, <3>6 DEF RestoreFamily, Typed, StoresOK, passwordVars, tokenVars
      <3>8. Fits("restoreFamily", job.number, job.up, (job.todo \ {s}) \cup {s}, job.source)
        BY <2>1, <3>2 DEF Fits, MovesHashes, ReturnsHashes, MovesTokens, ReturnsTokens
      <3>9. Moved("restoreFamily", job.todo \ {s}, {s}, job.source)
        BY <2>1, <2>2, TakeMoves
      <3> QED BY <2>1, <3>7, <3>8, <3>9, MovedTyped
    <2>3. ASSUME Goto("dropSessions"), UNCHANGED refreshTokens
          PROVE  Typed' /\ Alone(2)
      <3>1. StoresOK'
        BY <1>5, <2>3 DEF RestoreFamily, Typed, StoresOK, passwordVars, tokenVars
      <3>2. Fits("dropSessions", job.number, job.up, job.todo \cup {}, job.source)
        BY <2>1 DEF Fits, MovesHashes, ReturnsHashes, MovesTokens, ReturnsTokens
      <3>3. Moved("dropSessions", job.todo, {}, job.source)
        BY <2>1, <2>3, GotoMoves
      <3> QED BY <2>1, <3>1, <3>2, <3>3, MovedTyped
    <2>4. \/ \E s \in job.todo : /\ refreshTokens' = {Restored(t, s) : t \in refreshTokens}
                                 /\ Take("restoreFamily", s)
          \/ Goto("dropSessions") /\ UNCHANGED refreshTokens
      BY <1>5 DEF RestoreFamily, Restored
    <2>5. Typed' /\ Alone(2)
      BY <2>2, <2>3, <2>4
    <2> QED BY <2>5 DEF Alone
  <1>6. CASE DropSessions
    <2>1. Goto("done") /\ Going /\ Running /\ job.number = 2 /\ job.up = FALSE
      BY <1>6 DEF DropSessions
    <2>2. StoresOK'
      BY <1>6 DEF DropSessions, Typed, StoresOK, passwordVars, tokenVars
    <2>3. Fits("done", job.number, job.up, job.todo \cup {}, job.source)
      BY <2>1 DEF Fits, MovesHashes, ReturnsHashes, MovesTokens, ReturnsTokens
    <2>4. Moved("done", job.todo, {}, job.source)
      BY <2>1, GotoMoves
    <2> QED BY <2>1, <2>2, <2>3, <2>4, MovedTyped DEF Alone
  <1> QED BY <1>1, <1>2, <1>3, <1>4, <1>5, <1>6 DEF SessionStep

LEMMA TokenStepTyped ==
  ASSUME Typed, TokenStep
  PROVE  Typed' /\ \A n \in {1, 2} : Elsewhere(n)
  <1> USE InLabels, AtLabels DEF MovesTokens, ReturnsTokens
  <1>0. \A i \in {1, 2} : /\ InSource(i) \subseteq MailedToken /\ InSource(i) \in SUBSET Documents
                          /\ OfType(i) \subseteq MailedToken /\ OfType(i) \in SUBSET Documents
    BY DEF InSource, OfType, Typed, StoresOK, Documents
  <1>1. CASE UpActionTokens
    <2>1. Begin(3, TRUE, "copyToken", InSource(1), 1) /\ StoresOK'
      BY <1>1 DEF UpActionTokens, Typed, StoresOK, passwordVars, sessionVars, tokenVars
    <2>2. Fits("copyToken", 3, TRUE, InSource(1), 1)
      BY <1>0 DEF Fits, MovesHashes, ReturnsHashes, OpensSessions, ReturnsFamilies
    <2>3. 3 \in 1..3 /\ 1 \in 0..2 /\ "copyToken" \in Labels \ {"stopped"}
          /\ InSource(1) \in SUBSET Documents
      BY <1>0
    <2>4. Typed' /\ Alone(3)
      BY <2>1, <2>2, <2>3, BeginUpTyped, Zenon
    <2> QED BY <2>4 DEF Alone
  <1>2. CASE CopyToken
    <2>1. Running /\ job.number = 3 /\ job.up = TRUE /\ Going /\ job.todo \subseteq MailedToken
          /\ job.source \in {1, 2}
      BY <1>2 DEF CopyToken
    <2>2. ASSUME NEW t \in job.todo, Take("dropCopied", t),
                 actionTokens' = actionTokens \cup
                   (IF \E a \in actionTokens : a.hash = t.hash THEN {} ELSE {CopyOf(t)})
          PROVE  Typed' /\ Alone(3)
      <3>1. Moved("dropCopied", job.todo \ {t}, {t}, job.source)
        BY <2>1, <2>2, TakeMoves
      <3>2. t \in MailedToken /\ CopyOf(t) \in MailedToken
        BY <2>1 DEF CopyOf, MailedToken
      <3>3. actionTokens' \subseteq MailedToken
        BY <2>2, <3>2 DEF Typed, StoresOK
      <3>4. StoresOK'
        BY <1>2, <3>3 DEF CopyToken, Typed, StoresOK, passwordVars, sessionVars
      <3>5. Fits("dropCopied", job.number, job.up, (job.todo \ {t}) \cup {t}, job.source)
        BY <2>1, <3>2 DEF Fits, MovesHashes, ReturnsHashes, OpensSessions, ReturnsFamilies
      <3> QED BY <2>1, <3>1, <3>4, <3>5, MovedTyped
    <2>3. ASSUME Goto("dropSource"), UNCHANGED actionTokens
          PROVE  Typed' /\ Alone(3)
      <3>1. StoresOK'
        BY <1>2, <2>3 DEF CopyToken, Typed, StoresOK, passwordVars, sessionVars
      <3>2. Moved("dropSource", job.todo, {}, job.source)
        BY <2>1, <2>3, GotoMoves
      <3>3. Fits("dropSource", job.number, job.up, job.todo \cup {}, job.source)
        BY <2>1 DEF Fits, MovesHashes, ReturnsHashes, OpensSessions, ReturnsFamilies
      <3> QED BY <2>1, <3>1, <3>2, <3>3, MovedTyped
    <2>4. Typed' /\ Alone(3)
      BY <1>2, <2>2, <2>3 DEF CopyToken
    <2> QED BY <2>4 DEF Alone
  <1>3. CASE DropCopied
    <2>1. Goto("copyToken") /\ Going /\ Running /\ job.number = 3 /\ job.up = TRUE
          /\ job.todo \subseteq MailedToken /\ job.source \in {1, 2}
      BY <1>3 DEF DropCopied
    <2>2. IsFiniteSet(sourceTokens') /\ sourceTokens' \subseteq sourceTokens
      <3>1. sourceTokens' \in SUBSET sourceTokens /\ IsFiniteSet(sourceTokens)
        BY <1>3 DEF DropCopied, Typed, StoresOK
      <3> QED BY <3>1, FS_Subset
    <2>3. StoresOK'
      BY <1>3, <2>2 DEF DropCopied, Typed, StoresOK, passwordVars, sessionVars
    <2>4. Fits("copyToken", job.number, job.up, job.todo \cup {}, job.source)
      BY <2>1 DEF Fits, MovesHashes, ReturnsHashes, OpensSessions, ReturnsFamilies
    <2>5. Moved("copyToken", job.todo, {}, job.source)
      BY <2>1, GotoMoves
    <2> QED BY <2>1, <2>3, <2>4, <2>5, MovedTyped DEF Alone
  <1>4. CASE DropSource
    <2>1. Going /\ Running /\ job.number = 3 /\ job.up = TRUE /\ job.todo \subseteq MailedToken
          /\ job.source \in {1, 2}
      BY <1>4 DEF DropSource
    <2>2. IsFiniteSet(sourceTokens') /\ sourceTokens' \subseteq sourceTokens
      <3>1. sourceTokens' \in SUBSET sourceTokens /\ IsFiniteSet(sourceTokens)
        BY <1>4 DEF DropSource, Typed, StoresOK
      <3> QED BY <3>1, FS_Subset
    <2>3. StoresOK'
      BY <1>4, <2>2 DEF DropSource, Typed, StoresOK, passwordVars, sessionVars
    <2>4. ASSUME Loop("copyToken", InSource(2), {}, 2)
          PROVE  Typed' /\ Alone(3)
      <3>1. Moved("copyToken", InSource(2), {}, 2)
        BY <1>0, <2>1, <2>4, LoopMoves
      <3>2. Fits("copyToken", job.number, job.up, InSource(2) \cup {}, 2)
        BY <1>0, <2>1 DEF Fits, MovesHashes, ReturnsHashes, OpensSessions, ReturnsFamilies
      <3> QED BY <2>1, <2>3, <3>1, <3>2, MovedTyped
    <2>5. ASSUME Goto("done")
          PROVE  Typed' /\ Alone(3)
      <3>1. Moved("done", job.todo, {}, job.source)
        BY <2>1, <2>5, GotoMoves
      <3>2. Fits("done", job.number, job.up, job.todo \cup {}, job.source)
        BY <2>1 DEF Fits, MovesHashes, ReturnsHashes, OpensSessions, ReturnsFamilies
      <3> QED BY <2>1, <2>3, <3>1, <3>2, MovedTyped
    <2>6. Typed' /\ Alone(3)
      BY <1>4, <2>4, <2>5 DEF DropSource
    <2> QED BY <2>6 DEF Alone
  <1>5. CASE DownActionTokens
    <2>1. Begin(3, FALSE, "restoreToken", OfType(1), 1) /\ StoresOK'
      BY <1>5 DEF DownActionTokens, Typed, StoresOK, passwordVars, sessionVars, tokenVars
    <2>2. Fits("restoreToken", 3, FALSE, OfType(1), 1)
      BY <1>0 DEF Fits, MovesHashes, ReturnsHashes, OpensSessions, ReturnsFamilies
    <2>3. 3 \in 1..3 /\ 1 \in 0..2 /\ "restoreToken" \in Labels \ {"stopped"}
          /\ OfType(1) \in SUBSET Documents
      BY <1>0
    <2>4. Typed' /\ Alone(3)
      BY <2>1, <2>2, <2>3, BeginDownTyped, Zenon
    <2> QED BY <2>4 DEF Alone
  <1>6. CASE RestoreToken
    <2>1. Running /\ job.number = 3 /\ job.up = FALSE /\ job.todo \subseteq MailedToken
          /\ job.source \in {1, 2}
      BY <1>6 DEF RestoreToken
    <2>2. ASSUME NEW t \in job.todo, Take("restoreToken", t), Going,
                 sourceTokens' = sourceTokens \cup {[t EXCEPT !.copy = Cardinality(Copies(t))]}
          PROVE  Typed' /\ Alone(3)
      <3>1. Moved("restoreToken", job.todo \ {t}, {t}, job.source)
        BY <2>1, <2>2, TakeMoves
      <3>2. Cardinality(Copies(t)) \in Nat
        <4>1. Copies(t) \in SUBSET sourceTokens /\ IsFiniteSet(sourceTokens)
          BY DEF Copies, InSource, Typed, StoresOK
        <4> QED BY <4>1, FS_Subset, FS_CardinalityType
      <3>3. t \in MailedToken
        BY <2>1
      <3>4. [t EXCEPT !.copy = Cardinality(Copies(t))] \in MailedToken
        BY <3>2, <3>3 DEF MailedToken
      <3>5. sourceTokens' \subseteq MailedToken /\ IsFiniteSet(sourceTokens')
        BY <2>2, <3>4, FS_AddElement DEF Typed, StoresOK
      <3>6. StoresOK'
        BY <1>6, <3>5 DEF RestoreToken, Typed, StoresOK, passwordVars, sessionVars
      <3>7. Fits("restoreToken", job.number, job.up, (job.todo \ {t}) \cup {t}, job.source)
        BY <2>1, <3>3 DEF Fits, MovesHashes, ReturnsHashes, OpensSessions, ReturnsFamilies
      <3> QED BY <2>1, <3>1, <3>6, <3>7, MovedTyped
    <2>3. ASSUME Reject, UNCHANGED sourceTokens
          PROVE  Typed' /\ \A n \in 1..3 : Elsewhere(n)
      <3>1. StoresOK'
        BY <1>6, <2>3 DEF RestoreToken, Typed, StoresOK, passwordVars, sessionVars
      <3> QED BY <2>1, <2>3, <3>1, RejectTyped
    <2>4. ASSUME Goto("indexSource"), Going, UNCHANGED sourceTokens
          PROVE  Typed' /\ Alone(3)
      <3>1. StoresOK'
        BY <1>6, <2>4 DEF RestoreToken, Typed, StoresOK, passwordVars, sessionVars
      <3>2. Moved("indexSource", job.todo, {}, job.source)
        BY <2>1, <2>4, GotoMoves
      <3>3. Fits("indexSource", job.number, job.up, job.todo \cup {}, job.source)
        BY <2>1 DEF Fits, MovesHashes, ReturnsHashes, OpensSessions, ReturnsFamilies
      <3> QED BY <2>1, <3>1, <3>2, <3>3, MovedTyped
    <2>5. Typed' /\ Alone(3)
      BY <1>6, <2>2, <2>3, <2>4 DEF RestoreToken, Alone
    <2> QED BY <2>5 DEF Alone
  <1>7. CASE IndexSource
    <2>1. Running /\ job.number = 3 /\ job.up = FALSE /\ job.todo \subseteq MailedToken
          /\ job.source \in {1, 2}
      BY <1>7 DEF IndexSource
    <2>2. StoresOK'
      BY <1>7, <2>1 DEF IndexSource, Typed, StoresOK, passwordVars, sessionVars
    <2>3. ASSUME Reject
          PROVE  Typed' /\ Alone(3)
      BY <2>1, <2>2, <2>3, RejectTyped DEF Alone
    <2>4. ASSUME Loop("restoreToken", OfType(2), {}, 2), Going
          PROVE  Typed' /\ Alone(3)
      <3>1. Moved("restoreToken", OfType(2), {}, 2)
        BY <1>0, <2>1, <2>4, LoopMoves
      <3>2. Fits("restoreToken", job.number, job.up, OfType(2) \cup {}, 2)
        BY <1>0, <2>1 DEF Fits, MovesHashes, ReturnsHashes, OpensSessions, ReturnsFamilies
      <3> QED BY <2>1, <2>2, <3>1, <3>2, MovedTyped
    <2>5. ASSUME Goto("dropTokens"), Going
          PROVE  Typed' /\ Alone(3)
      <3>1. Moved("dropTokens", job.todo, {}, job.source)
        BY <2>1, <2>5, GotoMoves
      <3>2. Fits("dropTokens", job.number, job.up, job.todo \cup {}, job.source)
        BY <2>1 DEF Fits, MovesHashes, ReturnsHashes, OpensSessions, ReturnsFamilies
      <3> QED BY <2>1, <2>2, <3>1, <3>2, MovedTyped
    <2>6. Typed' /\ Alone(3)
      BY <1>7, <2>3, <2>4, <2>5 DEF IndexSource
    <2> QED BY <2>6 DEF Alone
  <1>8. CASE DropTokens
    <2>1. Goto("done") /\ Going /\ Running /\ job.number = 3 /\ job.up = FALSE
      BY <1>8 DEF DropTokens
    <2>2. StoresOK'
      BY <1>8 DEF DropTokens, Typed, StoresOK, passwordVars, sessionVars
    <2>3. Fits("done", job.number, job.up, job.todo \cup {}, job.source)
      BY <2>1 DEF Fits, MovesHashes, ReturnsHashes, OpensSessions, ReturnsFamilies
    <2>4. Moved("done", job.todo, {}, job.source)
      BY <2>1, GotoMoves
    <2> QED BY <2>1, <2>2, <2>3, <2>4, MovedTyped DEF Alone
  <1> QED BY <1>1, <1>2, <1>3, <1>4, <1>5, <1>6, <1>7, <1>8 DEF TokenStep

LEMMA DoneTyped ==
  ASSUME Typed, Done
  PROVE  Typed' /\ Alone(job.number)
  <1>1. Running /\ Finish
    BY DEF Done, Running
  <1>2. StoresOK'
    BY DEF Done, Typed, StoresOK, passwordVars, sessionVars, tokenVars
  <1> QED BY <1>1, <1>2, FinishTyped

LEMMA InterruptTyped ==
  ASSUME Typed, Interrupt
  PROVE  Typed' /\ \A n \in 1..3 : Elsewhere(n)
  <1>1. StoresOK'
    BY DEF Interrupt, Typed, StoresOK, passwordVars, sessionVars, tokenVars
  <1> QED BY <1>1, RejectTyped DEF Interrupt

\* Steps of the server, the clock and the TTL monitor.
LEMMA OutsideTyped ==
  ASSUME Typed, StoresOK', UNCHANGED <<runnerVars, job>>
  PROVE  Typed' /\ \A n \in 1..3 : Elsewhere(n)
  BY DEF Typed, JobOK, Running, runnerVars, Elsewhere, AtRest

LEMMA ChangePasswordTyped ==
  ASSUME Typed, NEW u \in Users, ChangePassword(u)
  PROVE  Typed' /\ \A n \in 1..3 : Elsewhere(n)
  <1>1. /\ changes' = changes + 1 /\ changes \in Nat
        /\ current' = [current EXCEPT ![u] = changes + 1] /\ current \in [Users -> 1..changes]
    BY DEF ChangePassword, Typed, StoresOK
  <1>2. current' \in [Users -> 1..changes']
    BY <1>1
  <1>3. credentials' \subseteq Credential
    BY <1>1 DEF ChangePassword, Typed, StoresOK, Credential
  <1>4. StoresOK'
    BY <1>1, <1>2, <1>3 DEF ChangePassword, Typed, StoresOK, sessionVars, tokenVars
  <1> QED BY <1>4, OutsideTyped DEF ChangePassword

LEMMA TickTyped ==
  ASSUME Typed, Tick, MaxTime \in Nat
  PROVE  Typed' /\ \A n \in 1..3 : Elsewhere(n)
  <1>1. StoresOK'
    BY DEF Tick, Typed, StoresOK, passwordVars, sessionVars, tokenVars
  <1> QED BY <1>1, OutsideTyped DEF Tick

LEMMA PurgeFacts ==
  ASSUME Typed, Purge
  PROVE  /\ refreshTokens' \subseteq refreshTokens
         /\ \A s \in sessions : s.expiresAt > now => s \in sessions'
         /\ sessions' \subseteq sessions
         /\ sourceTokens' \subseteq sourceTokens /\ actionTokens' \subseteq actionTokens
         /\ \A t \in sourceTokens : t.expiresAt > now => t \in sourceTokens'
         /\ \A t \in actionTokens : t.expiresAt > now => t \in actionTokens'
         /\ UNCHANGED <<now, passwordVars, ids, uniqueIn, runnerVars, job>>
  <1>1. /\ now \in Nat
        /\ \A t \in sessions \cup sourceTokens \cup actionTokens : t.expiresAt \in Nat
    BY DEF Typed, StoresOK, Session, MailedToken
  <1>2. \A t \in sessions \cup sourceTokens \cup actionTokens :
           ~ (t.expiresAt > now /\ t.expiresAt <= now)
    BY <1>1
  <1> QED BY <1>2 DEF Purge

LEMMA PurgeTyped ==
  ASSUME Typed, Purge
  PROVE  Typed' /\ \A n \in 1..3 : Elsewhere(n)
  <1>1. IsFiniteSet(refreshTokens') /\ IsFiniteSet(sourceTokens')
    <2>1. /\ refreshTokens' \in SUBSET refreshTokens /\ sourceTokens' \in SUBSET sourceTokens
          /\ IsFiniteSet(refreshTokens) /\ IsFiniteSet(sourceTokens)
      BY PurgeFacts DEF Typed, StoresOK
    <2> QED BY <2>1, FS_Subset
  <1>2. StoresOK'
    BY <1>1, PurgeFacts DEF Typed, StoresOK, passwordVars
  <1> QED BY <1>2, PurgeFacts, OutsideTyped

LEMMA NextTyped ==
  ASSUME Typed, [Next]_vars, MaxTime \in Nat
  PROVE  Typed'
  <1>1. CASE UNCHANGED vars
    <2>1. StoresOK'
      BY <1>1 DEF vars, Typed, StoresOK, passwordVars, sessionVars, tokenVars
    <2> QED BY <1>1, <2>1, OutsideTyped DEF vars
  <1>2. CASE PasswordStep
    BY <1>2, PasswordStepTyped
  <1>3. CASE SessionStep
    BY <1>3, SessionStepTyped
  <1>4. CASE TokenStep
    BY <1>4, TokenStepTyped
  <1>5. CASE Done \/ Interrupt \/ (\E u \in Users : ChangePassword(u)) \/ Tick \/ Purge
    BY <1>5, DoneTyped, InterruptTyped, ChangePasswordTyped, TickTyped, PurgeTyped
  <1> QED BY <1>1, <1>2, <1>3, <1>4, <1>5 DEF Next, PasswordStep, SessionStep, TokenStep

LEMMA InitTyped ==
  ASSUME Init, MigrationsAssumption
  PROVE  Typed
  <1>1. changes \in Nat
    BY FS_CardinalityType DEF Init, MigrationsAssumption
  <1>2. ids \in Nat
    <2> DEFINE family == [t \in RefreshRows |-> t.familyId]
    <2>1. {family[t] : t \in RefreshRows} = {t.familyId : t \in RefreshRows}
      OBVIOUS
    <2>2. DOMAIN family = RefreshRows /\ IsFiniteSet(RefreshRows)
      BY DEF MigrationsAssumption
    <2> HIDE DEF family
    <2>3. IsFiniteSet({family[t] : t \in RefreshRows})
      BY <2>2, ImageFinite
    <2> QED BY <2>1, <2>3, FS_CardinalityType DEF Init
  <1>3. /\ current \in [Users -> 1..changes] /\ passwordHash = current
        /\ refreshTokens \subseteq RefreshToken /\ IsFiniteSet(refreshTokens)
        /\ sourceTokens \subseteq MailedToken /\ IsFiniteSet(sourceTokens)
    BY DEF Init, MigrationsAssumption
  <1>5. passwordHash \in [Users -> Nat]
    BY <1>1, <1>3
  <1>6. StoresOK
    <2>1. now \in 0..MaxTime /\ indexed \in BOOLEAN /\ uniqueIn \subseteq {1, 2}
      <3>1. now = 0 /\ indexed = FALSE /\ uniqueIn = {1, 2}
        BY DEF Init
      <3>2. MaxTime \in Nat
        BY DEF MigrationsAssumption
      <3>3. now \in 0..MaxTime
        BY <3>1, <3>2
      <3>4. indexed \in BOOLEAN
        BY <3>1, Zenon
      <3> QED BY <3>1, <3>3, <3>4
    <2>2. credentials = {} /\ sessions = {} /\ actionTokens = {}
      BY DEF Init
    <2> QED BY <1>1, <1>2, <1>3, <1>5, <2>1, <2>2 DEF StoresOK
  <1>4. JobOK
    <2>1. job = Stopped
      BY DEF Init
    <2> QED BY <2>1, StoppedJob DEF JobOK, Running, Fits, MovesHashes, ReturnsHashes,
        OpensSessions, ReturnsFamilies, MovesTokens, ReturnsTokens
  <1> QED BY <1>4, <1>6 DEF Init, Typed

-----------------------------------------------------------------------------
(* Passwords *)

\* Whoever is at a label of these migrations, or done with one, runs it.
LEMMA NumberOfLabel ==
  ASSUME Typed
  PROVE  /\ job.pc \in MovesHashes \cup ReturnsHashes => job.pc # "stopped" /\ job.number = 1
         /\ job.pc \in OpensSessions \cup ReturnsFamilies => job.pc # "stopped" /\ job.number = 2
         /\ job.pc \in MovesTokens \cup ReturnsTokens => job.pc # "stopped" /\ job.number = 3
  BY AtLabels DEF Running

LEMMA PasswordElsewhere ==
  ASSUME Typed, Typed', PasswordInv, Elsewhere(1), UNCHANGED <<passwordHash, credentials, current>>
  PROVE  PasswordInv'
  <1>1. \A u \in Users : Kept(u)' <=> Kept(u)
    BY DEF Kept
  <1>2. CASE job' = job
    BY <1>1, <1>2 DEF PasswordInv, Elsewhere
  <1>3. CASE ~ (job'.pc # "stopped" /\ job'.number = 1)
    <2>1. job'.pc \notin MovesHashes \cup ReturnsHashes /\ ~ (job'.pc = "done" /\ job'.number = 1)
      <3>1. (job.pc \in MovesHashes \cup ReturnsHashes => job.pc # "stopped" /\ job.number = 1)'
        BY NumberOfLabel, PTL
      <3> QED BY <1>3, <3>1
    <2> QED BY <1>1, <2>1 DEF PasswordInv, Elsewhere, MovesHashes, ReturnsHashes
  <1> QED BY <1>2, <1>3 DEF Elsewhere

\* A command and what it starts: no conjunct but that of the label is about it.
LEMMA BeginPassword ==
  ASSUME Typed, Typed', PasswordInv, UNCHANGED <<passwordHash, credentials, current>>,
         NEW up \in BOOLEAN, NEW label \in {"copyHash", "restoreHash"}, NEW todo \in SUBSET Documents,
         Begin(1, up, label, todo, 0),
         label = "copyHash" => todo = Hashed,
         label = "restoreHash" => todo = credentials
  PROVE  PasswordInv'
  <1>1. /\ job'.pc = label /\ job'.number = 1 /\ job'.todo = todo /\ job'.at = {}
    <2>1. label \in Labels \ {"stopped"}
      BY DEF Labels, MovesHashes, ReturnsHashes
    <2> QED BY <2>1, BeginJob
  <1>2. ~ AtRest(1)'
    BY <1>1 DEF AtRest, Running
  <1>3. /\ \A u \in Users : Kept(u)' <=> Kept(u)
        /\ \A u \in Users : current[u] # 0
    BY DEF Kept, Typed, StoresOK
  <1>4. \A u \in Users : u \in Hashed <=> passwordHash[u] # 0
    BY DEF Hashed
  <1>5. CASE label = "copyHash"
    BY <1>1, <1>2, <1>3, <1>4, <1>5 DEF PasswordInv, MovesHashes
  <1>6. CASE label = "restoreHash"
    BY <1>1, <1>2, <1>3, <1>6 DEF PasswordInv, MovesHashes
  <1> QED BY <1>5, <1>6

LEMMA PasswordStepKeeps ==
  ASSUME Typed, Typed', PasswordInv, PasswordStep
  PROVE  PasswordInv'
  <1> USE InLabels, AtLabels DEF MovesHashes, ReturnsHashes
  <1>0. \A u \in Users : current[u] # 0
    BY DEF Typed, StoresOK
  <1>1. CASE UpCredentials
    <2>1. Begin(1, TRUE, "copyHash", Hashed, 0) /\ UNCHANGED <<passwordHash, credentials, current>>
      BY <1>1 DEF UpCredentials
    <2>2. Hashed \in SUBSET Documents
      BY DEF Hashed, Documents
    <2> QED BY <2>1, <2>2, BeginPassword, Zenon
  <1>2. CASE CopyHash
    <2>1. /\ job.pc = "copyHash" /\ Running /\ job.number = 1 /\ job.up = TRUE
          /\ job.at = {} /\ UNCHANGED <<passwordHash, current>> /\ job.todo \subseteq Users
      BY <1>2 DEF CopyHash, PasswordInv
    <2>2. \A u \in Users : IF u \in job.todo THEN passwordHash[u] = current[u]
                                            ELSE Kept(u) /\ passwordHash[u] = 0
      BY <2>1 DEF PasswordInv
    <2>3. ASSUME NEW u \in job.todo, Take("unsetHash", u), Going,
                 credentials' = IF Credentialed(u) THEN credentials
                                ELSE credentials \cup {[userId |-> u, secretHash |-> passwordHash[u]]}
          PROVE  PasswordInv'
      <3>1. Moved("unsetHash", job.todo \ {u}, {u}, job.source)
        BY <2>3, TakeMoves
      <3>2. job'.pc = "unsetHash" /\ job'.todo = job.todo \ {u} /\ job'.at = {u} /\ job'.number = 1
        BY <2>1, <3>1 DEF Moved, Onward
      <3>3. ~ AtRest(1)'
        BY <3>2 DEF AtRest, Running
      <3>4. u \in Users /\ passwordHash[u] = current[u]
        BY <2>1, <2>2
      <3>5. Kept(u)'
        <4>1. CASE Credentialed(u)
          <5>1. PICK c \in credentials : c.userId = u
            BY <4>1 DEF Credentialed
          <5>2. c = [userId |-> u, secretHash |-> current[u]]
            BY <5>1 DEF PasswordInv, Typed, StoresOK, Credential
          <5> QED BY <2>1, <2>3, <4>1, <5>2 DEF Kept
        <4>2. CASE ~ Credentialed(u)
          BY <2>1, <2>3, <3>4, <4>2 DEF Kept
        <4> QED BY <4>1, <4>2
      <3>6. \A v \in Users : Kept(v) => Kept(v)'
        BY <2>1, <2>3 DEF Kept
      <3>7. \A c \in credentials' : c.secretHash = current'[c.userId]
        BY <2>1, <2>3, <3>4 DEF PasswordInv
      <3> QED BY <2>1, <2>2, <3>2, <3>3, <3>4, <3>5, <3>6, <3>7 DEF PasswordInv
    <2>4. ASSUME job.todo = {}, Finish, UNCHANGED credentials
          PROVE  PasswordInv'
      <3>1. job'.pc = "stopped" /\ applied' = 1
        BY <2>1, <2>4, StoppedJob DEF Finish
      <3>2. \A u \in Users : Kept(u)' /\ passwordHash'[u] = 0
        BY <2>1, <2>2, <2>4 DEF Kept
      <3> QED BY <2>1, <2>4, <3>1, <3>2 DEF PasswordInv
    <2> QED BY <1>2, <2>3, <2>4 DEF CopyHash
  <1>3. CASE UnsetHash
    <2>1. /\ Goto("copyHash") /\ Going /\ Running /\ job.number = 1 /\ job.pc = "unsetHash"
          /\ UNCHANGED <<credentials, current>>
          /\ passwordHash' = [u \in Users |-> IF u \in job.at THEN 0 ELSE passwordHash[u]]
      BY <1>3 DEF UnsetHash
    <2>2. Moved("copyHash", job.todo, {}, job.source)
      BY <2>1, GotoMoves
    <2>3. job'.pc = "copyHash" /\ job'.todo = job.todo /\ job'.at = {} /\ job'.number = 1
      BY <2>1, <2>2 DEF Moved, Onward
    <2>4. ~ AtRest(1)'
      BY <2>3 DEF AtRest, Running
    <2>5. \A u \in Users : Kept(u)' <=> Kept(u)
      BY <2>1 DEF Kept
    <2>6. \A u \in Users : u \in job.todo => u \notin job.at
      BY <2>1 DEF PasswordInv
    <2> QED BY <2>1, <2>3, <2>4, <2>5, <2>6 DEF PasswordInv
  <1>4. CASE DownCredentials
    <2>1. Begin(1, FALSE, "restoreHash", credentials, 0)
          /\ UNCHANGED <<passwordHash, credentials, current>>
      BY <1>4 DEF DownCredentials, passwordVars
    <2>2. credentials \in SUBSET Documents
      BY DEF Typed, StoresOK, Documents
    <2> QED BY <2>1, <2>2, BeginPassword, Zenon
  <1>5. CASE RestoreHash
    <2>1. /\ job.pc = "restoreHash" /\ Running /\ job.number = 1 /\ Going
          /\ UNCHANGED <<credentials, current>> /\ job.todo \subseteq Credential
          /\ passwordHash \in [Users -> Nat] /\ credentials \subseteq Credential
      BY <1>5 DEF RestoreHash, Typed, StoresOK
    <2>2. \A u \in Users : Kept(u)' <=> Kept(u)
      BY <2>1 DEF Kept
    <2>3. ASSUME NEW c \in job.todo, Take("restoreHash", c),
                 passwordHash' = [passwordHash EXCEPT ![c.userId] = c.secretHash]
          PROVE  PasswordInv'
      <3>1. Moved("restoreHash", job.todo \ {c}, {c}, job.source)
        BY <2>1, <2>3, TakeMoves
      <3>2. job'.pc = "restoreHash" /\ job'.todo = job.todo \ {c} /\ job'.number = 1
        BY <2>1, <3>1 DEF Moved, Onward
      <3>3. ~ AtRest(1)'
        BY <3>2 DEF AtRest, Running
      <3>4. c.userId \in Users /\ c.secretHash = current[c.userId]
        BY <2>1 DEF PasswordInv, Credential
      <3>5. \A u \in Users : passwordHash'[u] = IF u = c.userId THEN current[u] ELSE passwordHash[u]
        BY <2>1, <2>3, <3>4
      <3>6. \A d \in credentials : d.userId \in Users
        BY <2>1 DEF Credential
      <3> QED BY <2>1, <2>2, <3>2, <3>3, <3>4, <3>5, <3>6 DEF PasswordInv
    <2>4. ASSUME job.todo = {}, Goto("deleteHashes"), UNCHANGED passwordHash
          PROVE  PasswordInv'
      <3>1. Moved("deleteHashes", job.todo, {}, job.source)
        BY <2>1, <2>4, GotoMoves
      <3>2. job'.pc = "deleteHashes" /\ job'.number = 1
        BY <2>1, <3>1 DEF Moved, Onward
      <3>3. ~ AtRest(1)'
        BY <3>2 DEF AtRest, Running
      <3>4. \A u \in Users : passwordHash[u] = current[u]
        BY <2>1, <2>4 DEF PasswordInv, Kept
      <3>5. passwordHash = current
        BY <3>4 DEF Typed, StoresOK
      <3> QED BY <2>1, <2>2, <2>4, <3>2, <3>3, <3>5 DEF PasswordInv
    <2> QED BY <1>5, <2>3, <2>4 DEF RestoreHash
  <1>6. CASE DeleteHashes
    <2>1. /\ Goto("dropIndex") /\ Going /\ Running /\ job.number = 1 /\ credentials' = {}
          /\ UNCHANGED <<passwordHash, current>> /\ passwordHash = current
      BY <1>6 DEF DeleteHashes, PasswordInv
    <2>2. Moved("dropIndex", job.todo, {}, job.source)
      BY <2>1, GotoMoves
    <2>3. job'.pc = "dropIndex" /\ job'.number = 1
      BY <2>1, <2>2 DEF Moved, Onward
    <2>4. ~ AtRest(1)'
      BY <2>3 DEF AtRest, Running
    <2> QED BY <2>1, <2>3, <2>4 DEF PasswordInv
  <1>7. CASE DropIndex
    <2>1. /\ (Goto("done") /\ Going) \/ Reject
          /\ Running /\ job.number = 1 /\ job.up = FALSE
          /\ UNCHANGED <<passwordHash, credentials, current>>
          /\ passwordHash = current /\ credentials = {}
      BY <1>7 DEF DropIndex, PasswordInv
    <2>2. CASE Goto("done") /\ Going
      <3>1. Moved("done", job.todo, {}, job.source)
        BY <2>2, GotoMoves
      <3>2. job'.pc = "done" /\ job'.number = 1
        BY <2>1, <3>1 DEF Moved, Onward
      <3>3. ~ AtRest(1)'
        BY <3>2 DEF AtRest, Running
      <3> QED BY <2>1, <3>2, <3>3 DEF PasswordInv
    <2>3. CASE Reject
      <3>1. Elsewhere(1)
        BY <2>1, <2>3, RejectElsewhere
      <3> QED BY <2>1, <3>1, PasswordElsewhere
    <2> QED BY <2>1, <2>2, <2>3
  <1> QED BY <1>1, <1>2, <1>3, <1>4, <1>5, <1>6, <1>7 DEF PasswordStep

LEMMA PasswordsKept ==
  ASSUME Typed, Typed', PasswordInv, [Next]_vars, MaxTime \in Nat
  PROVE  PasswordInv'
  <1>1. CASE PasswordStep
    BY <1>1, PasswordStepKeeps
  <1>2. CASE SessionStep
    <2>1. UNCHANGED passwordVars
      BY <1>2 DEF SessionStep, UpSessions, OpenSession, Repoint, DownSessions, RestoreFamily,
         DropSessions
    <2> QED BY <1>2, <2>1, SessionStepTyped, PasswordElsewhere DEF passwordVars
  <1>3. CASE TokenStep
    <2>1. UNCHANGED passwordVars
      BY <1>3 DEF TokenStep, UpActionTokens, CopyToken, DropCopied, DropSource, DownActionTokens,
         RestoreToken, IndexSource, DropTokens
    <2> QED BY <1>3, <2>1, TokenStepTyped, PasswordElsewhere DEF passwordVars
  <1>4. CASE Done
    <2>1. UNCHANGED passwordVars /\ Finish /\ job.pc = "done" /\ Running
      BY <1>4 DEF Done, Running
    <2>2. CASE job.number # 1
      BY <1>4, <2>1, <2>2, DoneTyped, PasswordElsewhere DEF Alone, passwordVars
    <2>3. CASE job.number = 1
      <3>1. job.up = FALSE
        BY <2>1, <2>3 DEF Typed, JobOK, Fits, Job
      <3>2. job'.pc = "stopped" /\ applied' = 0
        BY <2>1, <2>3, <3>1, StoppedJob DEF Finish
      <3>3. passwordHash = current /\ credentials = {}
        BY <2>1, <2>3 DEF PasswordInv
      <3> QED BY <2>1, <3>2, <3>3 DEF PasswordInv, passwordVars, MovesHashes
    <2> QED BY <2>2, <2>3
  <1>5. CASE Interrupt \/ Tick \/ Purge \/ UNCHANGED vars
    <2>1. UNCHANGED passwordVars
      BY <1>5 DEF Interrupt, Tick, Purge, vars
    <2>2. Elsewhere(1)
      BY <1>5, InterruptTyped, TickTyped, PurgeTyped
         DEF vars, runnerVars, Elsewhere, AtRest, Running
    <2> QED BY <2>1, <2>2, PasswordElsewhere DEF passwordVars
  <1>6. ASSUME NEW u \in Users, ChangePassword(u)
        PROVE  PasswordInv'
    <2>1. /\ ~ Running /\ applied = 3 /\ half = {}
          /\ credentials' = {c \in credentials : c.userId # u}
                              \cup {[userId |-> u, secretHash |-> changes + 1]}
          /\ current' = [current EXCEPT ![u] = changes + 1]
          /\ UNCHANGED <<passwordHash, applied, half, job>>
      BY <1>6 DEF ChangePassword, runnerVars
    <2>2. AtRest(1) /\ AtRest(1)' /\ job'.pc = "stopped"
      BY <2>1 DEF AtRest, Running
    <2>3. \A v \in Users : Kept(v) /\ passwordHash[v] = 0
      BY <2>1, <2>2 DEF PasswordInv
    <2>4. current \in [Users -> 1..changes] /\ credentials \subseteq Credential
      BY DEF Typed, StoresOK
    <2>5. \A v \in Users : current'[v] = IF v = u THEN changes + 1 ELSE current[v]
      BY <2>1, <2>4
    <2>6. \A v \in Users : Kept(v)'
      BY <2>1, <2>3, <2>5 DEF Kept
    <2>7. \A c \in credentials' : c.secretHash = current'[c.userId]
      BY <1>6, <2>1, <2>4, <2>5 DEF PasswordInv, Credential
    <2> QED BY <2>1, <2>2, <2>3, <2>6, <2>7 DEF PasswordInv, MovesHashes
  <1> QED BY <1>1, <1>2, <1>3, <1>4, <1>5, <1>6 DEF Next, PasswordStep, SessionStep, TokenStep

LEMMA InitPasswords == Init => PasswordInv
  BY StoppedJob DEF Init, PasswordInv, MovesHashes

-----------------------------------------------------------------------------
(* Families and sessions *)

\* Time passes, rows that are expired go, and migrations of the others run.
Ages ==
    /\ now' \in Nat /\ now' >= now /\ UNCHANGED ids
    /\ refreshTokens' \subseteq refreshTokens /\ sessions' \subseteq sessions
    /\ \A s \in sessions : s.expiresAt > now' => s \in sessions'

LEMMA FamilyAges ==
  ASSUME Typed, Typed', FamilyInv, Elsewhere(2), Ages
  PROVE  FamilyInv'
  <1>1. /\ now \in Nat /\ ids \in Nat
        /\ \A t \in refreshTokens : t.expiresAt \in Nat
        /\ \A s \in sessions : s.expiresAt \in Nat
    BY DEF Typed, StoresOK, RefreshToken, Session
  <1>2. \A t \in refreshTokens : Live(t)' => Live(t)
    BY <1>1 DEF Live, Ages
  <1>3. \A t \in refreshTokens : Hosted(t) /\ Live(t)' => Hosted(t)'
    <2> SUFFICES ASSUME NEW t \in refreshTokens, Hosted(t), Live(t)'
                 PROVE  Hosted(t)'
      OBVIOUS
    <2>1. PICK s \in sessions :
             s.id = t.sessionId /\ s.userId = t.userId /\ s.expiresAt >= t.expiresAt
      BY DEF Hosted
    <2>2. s.expiresAt > now'
      BY <1>1, <2>1 DEF Live, Ages
    <2> QED BY <2>1, <2>2 DEF Hosted, Ages
  <1>4. Together' /\ (\A s \in sessions' : s.id \in 1..ids')
    BY DEF FamilyInv, Together, Number, Ages
  <1>5. \A t \in refreshTokens' : t.sessionId # 0 /\ Live(t)' => Hosted(t)'
    BY <1>2, <1>3 DEF FamilyInv, Ages
  <1>6. AtRest(2)' => IF applied' >= 2 THEN \A t \in refreshTokens' : t.familyId = 0
                                      ELSE \A t \in refreshTokens' : Live(t)' => t.sessionId = 0
    BY <1>2 DEF FamilyInv, Ages, Elsewhere
  <1>7. CASE job' = job
    <2>1. \A f : Covers(f) => Covers(f)'
      BY DEF Covers, Ages
    <2>2. job.pc \in OpensSessions =>
            /\ \A t \in refreshTokens' :
                  t.familyId = 0 \/ \E f \in job.todo \cup job.at : f.familyId = t.familyId
            /\ \A f \in job.todo \cup job.at : Covers(f)'
      BY <2>1 DEF FamilyInv, Ages
    <2>3. ASSUME job.pc = "repoint"
          PROVE  \E f \in job.at : job.at = {f} /\ (f.expiresAt > now' => Stands(f, ids)')
      <3>1. PICK f \in job.at : job.at = {f} /\ (f.expiresAt > now => Stands(f, ids))
        BY <2>3 DEF FamilyInv
      <3>2. f \in Family
        BY <2>3, AtLabels DEF OpensSessions
      <3>3. ASSUME f.expiresAt > now'
            PROVE  Stands(f, ids)'
        <4>1. f.expiresAt > now
          BY <1>1, <3>2, <3>3 DEF Ages, Family
        <4> QED BY <3>1, <3>3, <4>1 DEF Stands, Ages
      <3> QED BY <3>1, <3>3
    <2>4. job.pc = "repoint" => \A t \in refreshTokens' : Number(t) < ids
      BY DEF FamilyInv, Ages
    <2> QED BY <1>2, <1>4, <1>5, <1>6, <1>7, <2>2, <2>3, <2>4 DEF FamilyInv, Ages, Number
  <1>8. CASE ~ (job'.pc # "stopped" /\ job'.number = 2)
    <2>1. job'.pc \notin OpensSessions \cup ReturnsFamilies
          /\ ~ (job'.pc = "done" /\ job'.number = 2)
      <3>1. (job.pc \in OpensSessions \cup ReturnsFamilies => job.pc # "stopped" /\ job.number = 2)'
        BY NumberOfLabel, PTL
      <3> QED BY <1>8, <3>1
    <2> QED BY <1>4, <1>5, <1>6, <2>1 DEF FamilyInv, OpensSessions, ReturnsFamilies
  <1> QED BY <1>7, <1>8 DEF Elsewhere

\* The natural numbers in a token.
LEMMA TokenNumbers ==
  ASSUME Typed, NEW t \in refreshTokens
  PROVE  /\ t \in RefreshToken /\ t.familyId \in Nat /\ t.sessionId \in Nat /\ t.expiresAt \in Nat
         /\ Number(t) \in Nat
         /\ t.familyId = 0 => Number(t) = t.sessionId
         /\ t.sessionId = 0 => Number(t) = t.familyId
  BY DEF Typed, StoresOK, RefreshToken, Number

\* Tokens of one family or session have the origin in common, and the account.
LEMMA KinShareOrigin ==
  ASSUME Typed, Together, NEW t \in refreshTokens, NEW u \in refreshTokens
  PROVE  /\ t.familyId # 0 /\ t.familyId = u.familyId => t.origin = u.origin /\ t.userId = u.userId
         /\ t.sessionId # 0 /\ t.sessionId = u.sessionId => t.origin = u.origin /\ t.userId = u.userId
         /\ t.origin = u.origin => t.familyId = u.familyId /\ t.sessionId = u.sessionId
  BY TokenNumbers DEF Together

LEMMA UpSessionsKeeps ==
  ASSUME Typed, Typed', FamilyInv, UpSessions
  PROVE  FamilyInv'
  <1>1. Begin(2, TRUE, "openSession", Families, 0)
        /\ UNCHANGED <<now, refreshTokens, sessions, ids>>
    BY DEF UpSessions, sessionVars
  <1>2. /\ job'.pc = "openSession" /\ job'.number = 2 /\ job'.todo = Families /\ job'.at = {}
    <2>1. "openSession" \in Labels \ {"stopped"} /\ Families \in SUBSET Documents
          /\ 2 \in 1..3 /\ 0 \in 0..2 /\ TRUE \in BOOLEAN
      BY FamiliesFacts DEF Labels, OpensSessions, Documents
    <2> QED BY <1>1, <2>1, BeginJob, Zenon
  <1>3. ~ AtRest(2)'
    BY <1>2 DEF AtRest, Running
  <1>4. Together
    BY DEF FamilyInv
  <1>5. ASSUME NEW f \in Families
        PROVE  Covers(f)
    <2>1. PICK t \in refreshTokens : t.familyId = f.familyId /\ t.userId = f.userId
      BY FamiliesFacts
    <2>2. \A u \in refreshTokens : u.familyId = f.familyId => u.userId = f.userId
      BY <1>4, <2>1, FamiliesFacts, KinShareOrigin
    <2> QED BY <2>2, FamiliesFacts DEF Covers
  <1>6. \A f : Covers(f)' <=> Covers(f)
    BY <1>1 DEF Covers
  <1>7. Together' /\ \A t \in refreshTokens : (Hosted(t)' <=> Hosted(t)) /\ (Live(t)' <=> Live(t))
    BY <1>1, <1>4 DEF Together, Number, Hosted, Live
  <1> QED BY <1>1, <1>2, <1>3, <1>5, <1>6, <1>7, FamiliesFacts DEF FamilyInv

LEMMA OpenSessionKeeps ==
  ASSUME Typed, Typed', FamilyInv, OpenSession
  PROVE  FamilyInv'
  <1> USE InLabels, AtLabels DEF OpensSessions, ReturnsFamilies
  <1>1. /\ job.pc = "openSession" /\ Running /\ job.number = 2 /\ job.up = TRUE /\ job.at = {}
        /\ job.todo \subseteq Family /\ UNCHANGED <<now, refreshTokens>> /\ ids \in Nat
        /\ Together
    BY DEF OpenSession, FamilyInv, Typed, StoresOK
  <1>2. /\ \A t \in refreshTokens : t.familyId = 0 \/ \E f \in job.todo : f.familyId = t.familyId
        /\ \A f \in job.todo : Covers(f)
        /\ \A t \in refreshTokens : t.sessionId # 0 /\ Live(t) => Hosted(t)
        /\ \A s \in sessions : s.id \in 1..ids
    BY <1>1 DEF FamilyInv
  <1>3. (\A f : Covers(f)' <=> Covers(f)) /\ \A t \in refreshTokens : Live(t)' <=> Live(t)
    BY <1>1 DEF Covers, Live
  <1>4. ASSUME NEW f \in job.todo, Take("repoint", f), Going, ids' = ids + 1,
               sessions' = sessions \cup
                 {[id |-> ids + 1, userId |-> f.userId, expiresAt |-> f.expiresAt]}
        PROVE  FamilyInv'
    <2>1. Moved("repoint", job.todo \ {f}, {f}, job.source)
      BY <1>4, TakeMoves
    <2>2. job'.pc = "repoint" /\ job'.todo = job.todo \ {f} /\ job'.at = {f} /\ job'.number = 2
      BY <1>1, <2>1 DEF Moved, Onward
    <2>3. ~ AtRest(2)'
      BY <2>2 DEF AtRest, Running
    <2>4. \A t \in refreshTokens : Number(t) <= ids /\ Number(t) \in Nat
      BY <1>1, TokenNumbers DEF Together
    <2>5. Together' /\ \A t \in refreshTokens' : (Number(t) < ids)'
      BY <1>1, <1>4, <2>4 DEF Together, Number
    <2>6. \A s \in sessions' : s.id \in 1..ids'
      BY <1>1, <1>2, <1>4
    <2>7. \A t \in refreshTokens : Hosted(t) => Hosted(t)'
      BY <1>1, <1>4 DEF Hosted
    <2>8. Stands(f, ids)'
      BY <1>4 DEF Stands
    <2> QED BY <1>1, <1>2, <1>3, <2>2, <2>3, <2>5, <2>6, <2>7, <2>8 DEF FamilyInv
  <1>5. ASSUME job.todo = {}, Finish, UNCHANGED <<sessions, ids>>
        PROVE  FamilyInv'
    <2>1. job'.pc = "stopped" /\ applied' = 2
      BY <1>1, <1>5, StoppedJob DEF Finish
    <2>2. \A t \in refreshTokens : t.familyId = 0
      BY <1>2, <1>5
    <2>3. Together' /\ \A t \in refreshTokens : Hosted(t)' <=> Hosted(t)
      BY <1>1, <1>5 DEF Together, Number, Hosted
    <2> QED BY <1>1, <1>2, <1>3, <1>5, <2>1, <2>2, <2>3 DEF FamilyInv
  <1> QED BY <1>4, <1>5 DEF OpenSession

LEMMA RepointKeeps ==
  ASSUME Typed, Typed', FamilyInv, Repoint
  PROVE  FamilyInv'
  <1> USE InLabels, AtLabels DEF OpensSessions, ReturnsFamilies
  <1>1. /\ job.pc = "repoint" /\ Running /\ job.number = 2 /\ Goto("openSession") /\ Going
        /\ UNCHANGED <<now, sessions, ids>> /\ ids \in Nat /\ now \in Nat /\ Together
        /\ job.todo \cup job.at \subseteq Family
        /\ refreshTokens' = {Repointed(t) : t \in refreshTokens}
    <2>1. refreshTokens' = {Repointed(t) : t \in refreshTokens}
      BY DEF Repoint, Repointed
    <2>2. job.pc = "repoint" /\ Goto("openSession") /\ Going /\ UNCHANGED <<now, sessions, ids>>
      BY DEF Repoint
    <2>3. ids \in Nat /\ now \in Nat /\ Together
      BY DEF FamilyInv, Typed, StoresOK
    <2> QED BY <2>1, <2>2, <2>3
  <1>2. PICK f \in job.at : job.at = {f} /\ (f.expiresAt > now => Stands(f, ids))
    BY <1>1 DEF FamilyInv
  <1>3. /\ \A t \in refreshTokens : Number(t) < ids
        /\ \A t \in refreshTokens :
              t.familyId = 0 \/ \E g \in job.todo \cup {f} : g.familyId = t.familyId
        /\ \A g \in job.todo \cup {f} : Covers(g)
        /\ \A t \in refreshTokens : t.sessionId # 0 /\ Live(t) => Hosted(t)
        /\ \A s \in sessions : s.id \in 1..ids
    BY <1>1, <1>2 DEF FamilyInv
  <1>4. job'.pc = "openSession" /\ job'.todo = job.todo /\ job'.at = {} /\ job'.number = 2
    <2>1. Moved("openSession", job.todo, {}, job.source)
      BY <1>1, GotoMoves
    <2> QED BY <1>1, <2>1 DEF Moved, Onward
  <1>5. ~ AtRest(2)'
    BY <1>4 DEF AtRest, Running
  <1> DEFINE InFamily(t) == t.familyId = f.familyId
  <1>6. ASSUME NEW t \in refreshTokens
        PROVE  /\ Repointed(t).userId = t.userId /\ Repointed(t).expiresAt = t.expiresAt
               /\ Repointed(t).origin = t.origin
               /\ InFamily(t) => /\ Repointed(t).familyId = 0 /\ Repointed(t).sessionId = ids
                                 /\ t.sessionId = 0 /\ Number(Repointed(t)) = ids /\ ids # 0
               /\ ~ InFamily(t) => /\ Repointed(t).familyId = t.familyId
                                   /\ Repointed(t).sessionId = t.sessionId
                                   /\ Number(Repointed(t)) = Number(t)
    <2>1. (\E g \in job.at : t.familyId = g.familyId) <=> InFamily(t)
      BY <1>2
    <2>2. f.familyId # 0 /\ Number(t) < ids
      BY <1>2, <1>3 DEF Covers
    <2>3. InFamily(t) => t.sessionId = 0
      BY <1>1, <2>2 DEF Together
    <2> QED BY <1>1, <2>1, <2>2, <2>3, RepointedFacts, TokenNumbers DEF Number
  <1>7. Together'
    <2>1. ASSUME NEW t \in refreshTokens
          PROVE  /\ (Repointed(t).familyId = 0) # (Repointed(t).sessionId = 0)
                 /\ Number(Repointed(t)) <= ids
      BY <1>1, <1>3, <1>6, TokenNumbers DEF Together
    <2>2. ASSUME NEW t \in refreshTokens, NEW u \in refreshTokens
          PROVE  /\ Repointed(t).origin = Repointed(u).origin
                      <=> Number(Repointed(t)) = Number(Repointed(u))
                 /\ Repointed(t).origin = Repointed(u).origin =>
                      /\ Repointed(t).userId = Repointed(u).userId
                      /\ Repointed(t).familyId = 0 <=> Repointed(u).familyId = 0
      <3>1. t.origin = u.origin => (InFamily(t) <=> InFamily(u))
        BY <1>1, KinShareOrigin
      <3>2. InFamily(t) /\ InFamily(u) => t.origin = u.origin
        <4>1. f.familyId # 0
          BY <1>3 DEF Covers
        <4> QED BY <1>1, <4>1, KinShareOrigin
      <3>3. Number(t) < ids /\ Number(u) < ids /\ Number(t) \in Nat /\ Number(u) \in Nat
        BY <1>3, TokenNumbers
      <3>4. /\ t.origin = u.origin <=> Number(t) = Number(u)
            /\ t.origin = u.origin => t.userId = u.userId /\ (t.familyId = 0 <=> u.familyId = 0)
        BY <1>1 DEF Together
      <3> HIDE DEF InFamily
      <3>5. CASE InFamily(t) /\ InFamily(u)
        BY <1>6, <3>2, <3>4, <3>5
      <3>6. CASE (InFamily(t) /\ ~ InFamily(u)) \/ (~ InFamily(t) /\ InFamily(u))
        BY <1>1, <1>6, <3>1, <3>3, <3>6
      <3>7. CASE ~ InFamily(t) /\ ~ InFamily(u)
        BY <1>6, <3>4, <3>7
      <3> QED BY <3>5, <3>6, <3>7
    <2> QED BY <1>1, <2>1, <2>2 DEF Together, Number
  <1>8. \A t \in refreshTokens' : t.sessionId # 0 /\ Live(t)' => Hosted(t)'
    <2> SUFFICES ASSUME NEW t \in refreshTokens, NEW v, v = Repointed(t), v.sessionId # 0,
                        v.expiresAt > now
                 PROVE  Hosted(v)'
      BY <1>1 DEF Live
    <2>1. CASE InFamily(t)
      <3>1. t.userId = f.userId /\ t.expiresAt <= f.expiresAt /\ f.expiresAt \in Nat
        BY <1>1, <1>3, <2>1 DEF Covers, Family
      <3>2. f.expiresAt > now
        BY <1>1, <1>6, <3>1, TokenNumbers
      <3>3. PICK s \in sessions : s = [id |-> ids, userId |-> f.userId, expiresAt |-> f.expiresAt]
        BY <1>2, <3>2 DEF Stands
      <3> QED BY <1>1, <1>6, <2>1, <3>1, <3>3 DEF Hosted
    <2>2. CASE ~ InFamily(t)
      <3>1. Hosted(t)
        BY <1>3, <1>6, <2>2 DEF Live
      <3> QED BY <1>1, <1>6, <2>2, <3>1 DEF Hosted
    <2> QED BY <2>1, <2>2
  <1>9. \A t \in refreshTokens' : t.familyId = 0 \/ \E g \in job.todo : g.familyId = t.familyId
    <2> SUFFICES ASSUME NEW t \in refreshTokens, Repointed(t).familyId # 0
                 PROVE  \E g \in job.todo : g.familyId = Repointed(t).familyId
      BY <1>1
    <2> QED BY <1>3, <1>6
  <1>10. \A g \in job.todo : Covers(g)'
    <2> SUFFICES ASSUME NEW g \in job.todo, NEW t \in refreshTokens,
                        Repointed(t).familyId = g.familyId
                 PROVE  /\ Repointed(t).userId = g.userId
                        /\ Repointed(t).expiresAt <= g.expiresAt
      BY <1>1, <1>3 DEF Covers
    <2> QED BY <1>3, <1>6 DEF Covers
  <1> QED BY <1>1, <1>3, <1>4, <1>5, <1>7, <1>8, <1>9, <1>10 DEF FamilyInv

LEMMA DownSessionsKeeps ==
  ASSUME Typed, Typed', FamilyInv, DownSessions
  PROVE  FamilyInv'
  <1>1. Begin(2, FALSE, "restoreFamily", sessions, 0)
        /\ UNCHANGED <<now, refreshTokens, sessions, ids>>
    BY DEF DownSessions, sessionVars
  <1>2. job'.pc = "restoreFamily" /\ job'.number = 2 /\ job'.todo = sessions
    <2>1. "restoreFamily" \in Labels \ {"stopped"} /\ sessions \in SUBSET Documents
          /\ 2 \in 1..3 /\ 0 \in 0..2 /\ FALSE \in BOOLEAN
      BY DEF Labels, ReturnsFamilies, Typed, StoresOK, Documents
    <2> QED BY <1>1, <2>1, BeginJob, Zenon
  <1>3. ~ AtRest(2)'
    BY <1>2 DEF AtRest, Running
  <1>4. Together' /\ \A t \in refreshTokens : (Hosted(t)' <=> Hosted(t)) /\ (Live(t)' <=> Live(t))
    BY <1>1 DEF FamilyInv, Together, Number, Hosted, Live
  <1>5. \A t \in refreshTokens :
           t.sessionId # 0 /\ Live(t) => \E s \in sessions : s.id = t.sessionId
    BY DEF FamilyInv, Hosted
  <1>6. \A s \in sessions : s.id # 0 /\ s.id \in 1..ids
    BY DEF FamilyInv
  <1>7. \A t \in refreshTokens : t.sessionId # 0 /\ Live(t) => Hosted(t)
    BY DEF FamilyInv
  <1> QED BY <1>1, <1>2, <1>3, <1>4, <1>5, <1>6, <1>7 DEF FamilyInv, OpensSessions

LEMMA RestoreFamilyKeeps ==
  ASSUME Typed, Typed', FamilyInv, RestoreFamily
  PROVE  FamilyInv'
  <1> USE InLabels, AtLabels DEF OpensSessions, ReturnsFamilies
  <1>1. /\ job.pc = "restoreFamily" /\ Running /\ job.number = 2 /\ Going
        /\ UNCHANGED <<now, sessions, ids>> /\ job.todo \subseteq Session
        /\ \/ \E s \in job.todo : /\ refreshTokens' = {Restored(t, s) : t \in refreshTokens}
                                  /\ Take("restoreFamily", s)
           \/ job.todo = {} /\ Goto("dropSessions") /\ UNCHANGED refreshTokens
    <2>1. job.pc = "restoreFamily" /\ Going /\ UNCHANGED <<now, sessions, ids>>
      BY DEF RestoreFamily
    <2>2. \/ \E s \in job.todo : /\ refreshTokens' = {Restored(t, s) : t \in refreshTokens}
                                 /\ Take("restoreFamily", s)
          \/ job.todo = {} /\ Goto("dropSessions") /\ UNCHANGED refreshTokens
      BY DEF RestoreFamily, Restored
    <2> QED BY <2>1, <2>2
  <1>2. /\ ids \in Nat /\ now \in Nat /\ Together
        /\ \A s \in sessions : s.id \in 1..ids
        /\ \A s \in job.todo : s.id # 0
        /\ \A t \in refreshTokens : t.sessionId # 0 /\ Live(t) => Hosted(t)
        /\ \A t \in refreshTokens :
              t.sessionId # 0 /\ Live(t) => \E s \in job.todo : s.id = t.sessionId
    BY <1>1 DEF FamilyInv, Typed, StoresOK
  <1>3. ASSUME NEW s \in job.todo, Take("restoreFamily", s),
               refreshTokens' = {Restored(t, s) : t \in refreshTokens}
        PROVE  FamilyInv'
    <2>1. job'.pc = "restoreFamily" /\ job'.todo = job.todo \ {s} /\ job'.number = 2
      <3>1. Moved("restoreFamily", job.todo \ {s}, {s}, job.source)
        BY <1>1, <1>3, TakeMoves
      <3> QED BY <1>1, <3>1 DEF Moved, Onward
    <2>2. ~ AtRest(2)'
      BY <2>1 DEF AtRest, Running
    <2> DEFINE InSession(t) == t.sessionId = s.id
    <2>3. ASSUME NEW t \in refreshTokens
          PROVE  /\ Restored(t, s).userId = t.userId /\ Restored(t, s).expiresAt = t.expiresAt
                 /\ Restored(t, s).origin = t.origin
                 /\ Number(Restored(t, s)) = Number(t)
                 /\ InSession(t) => /\ Restored(t, s).familyId = s.id
                                    /\ Restored(t, s).sessionId = 0
                 /\ ~ InSession(t) => /\ Restored(t, s).familyId = t.familyId
                                      /\ Restored(t, s).sessionId = t.sessionId
      <3>1. s \in Session /\ s.id # 0 /\ s.id \in Nat
        BY <1>1, <1>2 DEF Session
      <3>2. InSession(t) => t.familyId = 0
        BY <1>2, <3>1 DEF Together
      <3> QED BY <3>1, <3>2, RestoredFacts, TokenNumbers DEF Number
    <2>4. s.id # 0
      BY <1>2
    <2>5. Together'
      <3>1. ASSUME NEW t \in refreshTokens
            PROVE  /\ (Restored(t, s).familyId = 0) # (Restored(t, s).sessionId = 0)
                   /\ Number(Restored(t, s)) <= ids
        BY <1>2, <2>3, <2>4 DEF Together
      <3>2. ASSUME NEW t \in refreshTokens, NEW u \in refreshTokens
            PROVE  /\ Restored(t, s).origin = Restored(u, s).origin
                        <=> Number(Restored(t, s)) = Number(Restored(u, s))
                   /\ Restored(t, s).origin = Restored(u, s).origin =>
                        /\ Restored(t, s).userId = Restored(u, s).userId
                        /\ Restored(t, s).familyId = 0 <=> Restored(u, s).familyId = 0
        <4>1. t.origin = u.origin => (InSession(t) <=> InSession(u))
          BY <1>2, KinShareOrigin
        <4>2. /\ t.origin = u.origin <=> Number(t) = Number(u)
              /\ t.origin = u.origin => t.userId = u.userId /\ (t.familyId = 0 <=> u.familyId = 0)
          BY <1>2 DEF Together
        <4> HIDE DEF InSession
        <4> QED BY <2>3, <4>1, <4>2
      <3> QED BY <1>1, <1>3, <3>1, <3>2 DEF Together, Number
    <2>6. \A t \in refreshTokens' : t.sessionId # 0 /\ Live(t)' => Hosted(t)'
      <3> SUFFICES ASSUME NEW t \in refreshTokens, NEW v, v = Restored(t, s), v.sessionId # 0,
                          v.expiresAt > now
                   PROVE  Hosted(v)'
        BY <1>1, <1>3 DEF Live
      <3>1. ~ InSession(t) /\ Hosted(t)
        BY <1>2, <2>3 DEF Live
      <3> QED BY <1>1, <2>3, <3>1 DEF Hosted
    <2>7. \A t \in refreshTokens' :
             t.sessionId # 0 /\ Live(t)' => \E r \in job.todo \ {s} : r.id = t.sessionId
      <3> SUFFICES ASSUME NEW t \in refreshTokens, Restored(t, s).sessionId # 0,
                          Restored(t, s).expiresAt > now
                   PROVE  \E r \in job.todo \ {s} : r.id = Restored(t, s).sessionId
        BY <1>1, <1>3 DEF Live
      <3>1. ~ InSession(t) /\ t.sessionId # 0 /\ Live(t)
        BY <2>3 DEF Live
      <3> QED BY <1>2, <2>3, <3>1
    <2> QED BY <1>1, <1>2, <2>1, <2>2, <2>5, <2>6, <2>7 DEF FamilyInv
  <1>4. ASSUME job.todo = {}, Goto("dropSessions"), UNCHANGED refreshTokens
        PROVE  FamilyInv'
    <2>1. job'.pc = "dropSessions" /\ job'.number = 2
      <3>1. Moved("dropSessions", job.todo, {}, job.source)
        BY <1>1, <1>4, GotoMoves
      <3> QED BY <1>1, <3>1 DEF Moved, Onward
    <2>2. ~ AtRest(2)'
      BY <2>1 DEF AtRest, Running
    <2>3. Together' /\ \A t \in refreshTokens : (Hosted(t)' <=> Hosted(t)) /\ (Live(t)' <=> Live(t))
      BY <1>1, <1>2, <1>4 DEF Together, Number, Hosted, Live
    <2>4. \A t \in refreshTokens : Live(t) => t.sessionId = 0
      BY <1>2, <1>4
    <2> QED BY <1>1, <1>2, <1>4, <2>1, <2>2, <2>3, <2>4 DEF FamilyInv
  <1> QED BY <1>1, <1>3, <1>4

LEMMA DropSessionsKeeps ==
  ASSUME Typed, Typed', FamilyInv, DropSessions
  PROVE  FamilyInv'
  <1> USE InLabels, AtLabels DEF OpensSessions, ReturnsFamilies
  <1>1. /\ job.pc = "dropSessions" /\ Running /\ job.number = 2 /\ Goto("done") /\ Going
        /\ UNCHANGED <<now, refreshTokens, ids>> /\ sessions' = {}
    BY DEF DropSessions
  <1>2. job'.pc = "done" /\ job'.number = 2
    <2>1. Moved("done", job.todo, {}, job.source)
      BY <1>1, GotoMoves
    <2> QED BY <1>1, <2>1 DEF Moved, Onward
  <1>3. ~ AtRest(2)'
    BY <1>2 DEF AtRest, Running
  <1>4. Together' /\ \A t \in refreshTokens : (Live(t)' <=> Live(t)) /\ (Live(t) => t.sessionId = 0)
    BY <1>1 DEF FamilyInv, Together, Number, Live
  <1> QED BY <1>1, <1>2, <1>3, <1>4 DEF FamilyInv

LEMMA FamiliesKept ==
  ASSUME Typed, Typed', FamilyInv, [Next]_vars, MaxTime \in Nat
  PROVE  FamilyInv'
  <1>0. now \in Nat
    BY DEF Typed, StoresOK
  <1>1. CASE PasswordStep
    <2>1. UNCHANGED <<now, sessionVars>>
      BY <1>1 DEF PasswordStep, UpCredentials, CopyHash, UnsetHash, DownCredentials,
         RestoreHash, DeleteHashes, DropIndex
    <2>2. Ages
      BY <1>0, <2>1 DEF Ages, sessionVars
    <2> QED BY <1>1, <2>2, PasswordStepTyped, FamilyAges
  <1>2. CASE SessionStep
    BY <1>2, UpSessionsKeeps, OpenSessionKeeps, RepointKeeps, DownSessionsKeeps,
       RestoreFamilyKeeps, DropSessionsKeeps DEF SessionStep
  <1>3. CASE TokenStep
    <2>1. UNCHANGED <<now, sessionVars>>
      BY <1>3 DEF TokenStep, UpActionTokens, CopyToken, DropCopied, DropSource,
         DownActionTokens, RestoreToken, IndexSource, DropTokens
    <2>2. Ages
      BY <1>0, <2>1 DEF Ages, sessionVars
    <2> QED BY <1>3, <2>2, TokenStepTyped, FamilyAges
  <1>4. CASE Done
    <2>1. UNCHANGED <<now, sessionVars>> /\ Finish /\ job.pc = "done" /\ Running
      BY <1>4 DEF Done, Running
    <2>2. CASE job.number # 2
      <3>1. Ages
        BY <1>0, <2>1 DEF Ages, sessionVars
      <3> QED BY <1>4, <2>1, <2>2, <3>1, DoneTyped, FamilyAges DEF Alone
    <2>3. CASE job.number = 2
      <3>1. job.up = FALSE
        BY <2>1, <2>3 DEF Typed, JobOK, Fits, Job
      <3>2. job'.pc = "stopped" /\ applied' = 1
        BY <2>1, <2>3, <3>1, StoppedJob DEF Finish
      <3>3. \A t \in refreshTokens : (Hosted(t)' <=> Hosted(t)) /\ (Live(t)' <=> Live(t))
        BY <2>1 DEF Hosted, Live, sessionVars
      <3>4. Together'
        BY <2>1 DEF FamilyInv, Together, Number, sessionVars
      <3>5. \A t \in refreshTokens : Live(t) => t.sessionId = 0
        BY <2>1, <2>3 DEF FamilyInv
      <3>6. \A s \in sessions : s.id \in 1..ids
        BY DEF FamilyInv
      <3> QED BY <2>1, <3>2, <3>3, <3>4, <3>5, <3>6 DEF FamilyInv, sessionVars, OpensSessions
    <2> QED BY <2>2, <2>3
  <1>5. CASE Interrupt \/ UNCHANGED vars
    <2>1. Ages
      BY <1>0, <1>5 DEF Ages, Interrupt, vars, sessionVars
    <2>2. Elsewhere(2)
      BY <1>5, InterruptTyped DEF vars, runnerVars, Elsewhere, AtRest, Running
    <2> QED BY <2>1, <2>2, FamilyAges
  <1>6. ASSUME NEW u \in Users, ChangePassword(u)
        PROVE  FamilyInv'
    <2>1. Ages
      BY <1>0, <1>6 DEF Ages, ChangePassword, sessionVars
    <2> QED BY <1>6, <2>1, ChangePasswordTyped, FamilyAges
  <1>7. CASE Tick
    <2>1. Ages
      BY <1>0, <1>7 DEF Ages, Tick, sessionVars
    <2> QED BY <1>7, <2>1, TickTyped, FamilyAges
  <1>8. CASE Purge
    <2>1. Ages
      BY <1>0, <1>8, PurgeFacts DEF Ages
    <2> QED BY <1>8, <2>1, PurgeTyped, FamilyAges
  <1> QED BY <1>1, <1>2, <1>3, <1>4, <1>5, <1>6, <1>7, <1>8
      DEF Next, PasswordStep, SessionStep, TokenStep

LEMMA InitFamilies ==
  ASSUME Init, Typed, MigrationsAssumption
  PROVE  FamilyInv
  <1>1. /\ refreshTokens = RefreshRows /\ sessions = {} /\ job.pc = "stopped" /\ applied = 0
        /\ ids = Cardinality({t.familyId : t \in RefreshRows})
    BY StoppedJob DEF Init
  <1>2. ids \in Nat
    BY DEF Typed, StoresOK
  <1>3. \A t \in RefreshRows : t.familyId \in 1..ids /\ t.sessionId = 0 /\ t.origin = t.familyId
    BY <1>1 DEF MigrationsAssumption
  <1>4. \A t \in RefreshRows : t.familyId # 0 /\ Number(t) = t.familyId /\ t.familyId <= ids
    BY <1>2, <1>3 DEF Number
  <1>5. \A t, u \in RefreshRows : t.familyId = u.familyId => t.userId = u.userId
    BY DEF MigrationsAssumption
  <1>6. Together
    BY <1>1, <1>3, <1>4, <1>5 DEF Together
  <1> QED BY <1>1, <1>3, <1>6 DEF FamilyInv, OpensSessions

-----------------------------------------------------------------------------
(* Mailed tokens *)

\* Time passes, rows that are expired go, and migrations of the others run.
MailAges ==
    /\ now' \in Nat /\ now' >= now /\ UNCHANGED uniqueIn
    /\ sourceTokens' \subseteq sourceTokens /\ actionTokens' \subseteq actionTokens
    /\ \A t \in sourceTokens : t.expiresAt > now' => t \in sourceTokens'
    /\ \A t \in actionTokens : t.expiresAt > now' => t \in actionTokens'

\* What was mailed is told apart by its hash; a token is of one of the two types.
LEMMA MailedFacts ==
  ASSUME MigrationsAssumption
  PROVE  /\ MailedRows \subseteq MailedToken
         /\ \A m \in MailedRows : m.copy = 0 /\ m.expiresAt \in Nat
         /\ \A m, n \in MailedRows : m.hash = n.hash => m = n
         /\ \A t \in MailedToken : t.type = Sources[1] \/ t.type = Sources[2]
         /\ Sources[1] # Sources[2]
  BY DEF MigrationsAssumption, MailedToken, Sources

LEMMA MailAgesKeeps ==
  ASSUME Typed, Typed', TokenInv, Elsewhere(3), MailAges, MigrationsAssumption
  PROVE  TokenInv'
  <1>1. /\ now \in Nat /\ now' \in Nat /\ now' >= now
        /\ \A t \in sourceTokens : t.expiresAt \in Nat
        /\ \A m \in MailedRows : m.expiresAt \in Nat
    BY MailedFacts DEF Typed, StoresOK, MailedToken, MailAges
  <1>2. \A m \in MailedRows : Live(m)' => Live(m)
    BY <1>1 DEF Live
  <1>3. \A m \in MailedRows : Sourced(m) /\ Live(m)' => Sourced(m)'
    BY DEF Sourced, IsOf, Live, MailAges
  <1>4. \A m \in MailedRows : m \in actionTokens /\ Live(m)' => m \in actionTokens'
    BY DEF Live, MailAges
  <1>5. \A i : InSource(i)' \subseteq InSource(i)
    BY DEF InSource, MailAges
  <1>6. \A i : AllSourced(i) => AllSourced(i)'
    BY <1>2, <1>3 DEF AllSourced, MailAges, TokenInv, TokensAnywhere
  <1>7. /\ \A t \in sourceTokens' : \E m \in MailedRows : IsOf(t, m)
        /\ actionTokens' \subseteq MailedRows
        /\ \A m \in MailedRows : Live(m)' => m \in actionTokens' \/ Sourced(m)'
        /\ \A i \in uniqueIn' : \A s, t \in InSource(i)' : s.hash = t.hash => s = t
    BY <1>2, <1>3, <1>4, <1>5 DEF TokenInv, TokensAnywhere, TokensAtLabel, TokensAtRest, MailAges
  <1>8. AtRest(3)' => IF applied' = 3 THEN sourceTokens' = {}
                                      ELSE actionTokens' = {} /\ uniqueIn' = {1, 2}
    <2>1. applied' = 3 <=> applied = 3
      BY DEF Elsewhere, Typed
    <2> QED BY <2>1 DEF TokenInv, TokensAnywhere, TokensAtLabel, TokensAtRest, Elsewhere, MailAges
  <1>9. CASE job' = job
    <2>1. job.pc \in MovesTokens =>
            /\ \A t \in job.todo \cup job.at : \E m \in MailedRows : IsOf(t, m)
            /\ InSource(job.source)' \subseteq job.todo \cup job.at
            /\ job.source = 2 => InSource(1)' = {}
      BY <1>5, <1>9 DEF TokenInv, TokensAnywhere, TokensAtLabel, TokensAtRest
    <2>2. job.pc = "dropCopied" =>
            \A m \in MailedRows : Live(m)' /\ (\E t \in job.at : IsOf(t, m)) => m \in actionTokens'
      BY <1>2, <1>4 DEF TokenInv, TokensAnywhere, TokensAtLabel, TokensAtRest
    <2>3. job.pc \in ReturnsTokens =>
            /\ job.todo \subseteq {m \in MailedRows : m.type = Sources[job.source]}
            /\ job.source = 2 => 1 \in uniqueIn' /\ AllSourced(1)'
      BY <1>6 DEF TokenInv, TokensAnywhere, TokensAtLabel, TokensAtRest, MailAges
    <2>4. job.pc = "restoreToken" =>
            \A m \in actionTokens' :
               Live(m)' /\ m.type = Sources[job.source] => m \in job.todo \/ Sourced(m)'
      BY <1>2, <1>3, <1>7 DEF TokenInv, TokensAnywhere, TokensAtLabel, TokensAtRest, MailAges
    <2>5. /\ job.pc = "indexSource" => AllSourced(job.source)'
          /\ job.pc = "dropTokens" => uniqueIn' = {1, 2} /\ AllSourced(1)' /\ AllSourced(2)'
      BY <1>6, <1>9 DEF TokenInv, TokensAnywhere, TokensAtLabel, TokensAtRest, MailAges
    <2>6. /\ job.pc = "done" /\ job.number = 3 /\ job.up => sourceTokens' = {}
          /\ job.pc = "done" /\ job.number = 3 /\ ~ job.up => actionTokens' = {} /\ uniqueIn' = {1, 2}
      BY DEF TokenInv, TokensAnywhere, TokensAtLabel, TokensAtRest, MailAges
    <2>7. /\ job.pc \in {"copyToken", "dropSource"} => job.at = {}
          /\ job.pc = "dropSource" => job.todo = {}
      BY DEF TokenInv, TokensAnywhere, TokensAtLabel, TokensAtRest
    <2> QED BY <1>7, <1>8, <1>9, <2>1, <2>2, <2>3, <2>4, <2>5, <2>6, <2>7
            DEF TokenInv, TokensAnywhere, TokensAtLabel, TokensAtRest
  <1>10. CASE ~ (job'.pc # "stopped" /\ job'.number = 3)
    <2>1. job'.pc \notin MovesTokens \cup ReturnsTokens /\ ~ (job'.pc = "done" /\ job'.number = 3)
      <3>1. (job.pc \in MovesTokens \cup ReturnsTokens => job.pc # "stopped" /\ job.number = 3)'
        BY NumberOfLabel, PTL
      <3> QED BY <1>10, <3>1
    <2> QED BY <1>7, <1>8, <2>1
            DEF TokenInv, TokensAnywhere, TokensAtLabel, TokensAtRest, MovesTokens, ReturnsTokens
  <1> QED BY <1>9, <1>10 DEF Elsewhere


LEMMA TokenStepAnywhere ==
  ASSUME Typed, TokenInv, TokenStep, MigrationsAssumption
  PROVE  TokensAnywhere' /\ now' = now
  <1> USE InLabels, AtLabels, MailedFacts DEF MovesTokens, ReturnsTokens, TokenInv, TokensAnywhere
  <1>1. CASE UpActionTokens \/ DownActionTokens
    <2>1. UNCHANGED <<now, tokenVars>>
      BY <1>1 DEF UpActionTokens, DownActionTokens
    <2> QED BY <2>1 DEF tokenVars, Live, Sourced, InSource
  <1>2. CASE CopyToken
    <2>1. /\ job.pc = "copyToken" /\ UNCHANGED <<now, sourceTokens, uniqueIn>>
          /\ actionTokens \subseteq actionTokens'
      BY <1>2 DEF CopyToken
    <2>2. actionTokens' \subseteq MailedRows
      <3>1. ASSUME NEW t \in job.todo, NEW c, c = CopyOf(t)
            PROVE  c \in MailedRows
        <4>1. PICK m \in MailedRows : IsOf(t, m)
          BY <2>1 DEF TokensAtLabel
        <4>2. c = [t EXCEPT !.copy = 0]
          BY <3>1 DEF CopyOf
        <4>3. t \in MailedToken /\ m \in MailedToken /\ m.copy = 0
          BY <2>1
        <4>4. c \in MailedToken /\ c.hash = m.hash /\ c.type = m.type /\ c.expiresAt = m.expiresAt
              /\ c.copy = m.copy
          BY <4>1, <4>2, <4>3 DEF MailedToken, IsOf
        <4>5. c = m
          BY <4>3, <4>4 DEF MailedToken
        <4> QED BY <4>5
      <3> QED BY <1>2, <3>1 DEF CopyToken
    <2> QED BY <2>1, <2>2 DEF Live, Sourced, InSource
  <1>3. CASE DropCopied
    <2>1. /\ job.pc = "dropCopied" /\ UNCHANGED <<now, uniqueIn, actionTokens>>
          /\ sourceTokens' = sourceTokens \ job.at
      BY <1>3 DEF DropCopied
    <2>2. \A m \in MailedRows : Live(m) => m \in actionTokens \/ Sourced(m)'
      BY <2>1 DEF Sourced, TokensAtLabel
    <2> QED BY <2>1, <2>2 DEF Live, InSource
  <1>4. CASE DropSource
    <2>1. /\ job.pc = "dropSource" /\ UNCHANGED <<now, actionTokens>>
          /\ sourceTokens' = sourceTokens \ InSource(job.source)
          /\ uniqueIn' \subseteq uniqueIn
      BY <1>4 DEF DropSource
    <2>2. InSource(job.source) = {}
      BY <2>1 DEF TokensAtLabel
    <2> QED BY <2>1, <2>2 DEF Live, Sourced, InSource
  <1>5. CASE RestoreToken
    <2>1. /\ job.pc = "restoreToken" /\ UNCHANGED <<now, uniqueIn, actionTokens>>
          /\ job.source \in {1, 2}
          /\ job.todo \subseteq {m \in MailedRows : m.type = Sources[job.source]}
      BY <1>5 DEF RestoreToken, TokensAtLabel
    <2>2. CASE UNCHANGED sourceTokens
      BY <2>1, <2>2 DEF Live, Sourced, InSource
    <2>3. ASSUME NEW t \in job.todo, ~ (job.source \in uniqueIn /\ Copies(t) # {}),
                 NEW v, v = [t EXCEPT !.copy = Cardinality(Copies(t))],
                 sourceTokens' = sourceTokens \cup {v}
          PROVE  TokensAnywhere'
      <3>1. t \in MailedRows /\ t.type = Sources[job.source] /\ IsOf(v, t)
        BY <2>1, <2>3 DEF MailedToken, IsOf
      <3>2. v.hash = t.hash /\ v.type = Sources[job.source]
        BY <3>1 DEF IsOf
      <3>3. ASSUME NEW i \in uniqueIn, NEW r \in InSource(i)', NEW s \in InSource(i)',
                   r.hash = s.hash
            PROVE  r = s
        <4>1. i \in {1, 2} /\ r.type = Sources[i] /\ s.type = Sources[i]
              /\ r \in sourceTokens \cup {v} /\ s \in sourceTokens \cup {v}
          BY <2>3 DEF InSource, Typed, StoresOK
        <4>2. CASE r \in sourceTokens /\ s \in sourceTokens
          BY <3>3, <4>1, <4>2 DEF InSource
        <4>3. CASE r = v \/ s = v
          <5>1. i = job.source
            BY <2>1, <3>2, <4>1, <4>3
          <5>2. Copies(t) = {}
            BY <2>3, <5>1
          <5> QED BY <3>2, <3>3, <4>1, <4>3, <5>1, <5>2 DEF Copies, InSource
        <4> QED BY <4>1, <4>2, <4>3
      <3>4. \A m \in MailedRows : Sourced(m) => Sourced(m)'
        BY <2>3 DEF Sourced
      <3> QED BY <2>1, <2>3, <3>1, <3>3, <3>4 DEF Live
    <2> QED BY <1>5, <2>2, <2>3 DEF RestoreToken
  <1>6. CASE IndexSource
    <2>1. job.pc = "indexSource" /\ UNCHANGED <<now, sourceTokens, actionTokens>>
      BY <1>6 DEF IndexSource
    <2>2. \A i \in uniqueIn' : \A s, t \in InSource(i) : s.hash = t.hash => s = t
      BY <1>6 DEF IndexSource
    <2> QED BY <2>1, <2>2 DEF Live, Sourced, InSource
  <1>7. CASE DropTokens
    <2>1. /\ job.pc = "dropTokens" /\ UNCHANGED <<now, sourceTokens, uniqueIn>>
          /\ actionTokens' = {}
      BY <1>7 DEF DropTokens
    <2>2. \A m \in MailedRows : Live(m) => Sourced(m)
      BY <2>1 DEF TokensAtLabel, AllSourced
    <2> QED BY <2>1, <2>2 DEF Live, Sourced, InSource
  <1> QED BY <1>1, <1>2, <1>3, <1>4, <1>5, <1>6, <1>7 DEF TokenStep

\* A step of the job itself: what it says of the label it goes to.
LEMMA MovesKeepTokens ==
  ASSUME Typed, Typed', TokenInv, MigrationsAssumption,
         UpActionTokens \/ CopyToken \/ DropCopied \/ DropSource
  PROVE  TokensAtLabel' /\ TokensAtRest'
  <1> USE InLabels, AtLabels, MailedFacts DEF MovesTokens, ReturnsTokens
  <1>0. /\ \A t \in sourceTokens : \E m \in MailedRows : IsOf(t, m)
        /\ actionTokens \subseteq MailedRows
        /\ \A i : InSource(i) \subseteq sourceTokens
    BY DEF TokenInv, TokensAnywhere, InSource
  <1>1. CASE UpActionTokens
    <2>1. Begin(3, TRUE, "copyToken", InSource(1), 1) /\ UNCHANGED <<now, tokenVars>>
      BY <1>1 DEF UpActionTokens
    <2>2. /\ job'.pc = "copyToken" /\ job'.number = 3 /\ job'.todo = InSource(1) /\ job'.at = {}
          /\ job'.source = 1
      <3>1. "copyToken" \in Labels \ {"stopped"} /\ InSource(1) \in SUBSET Documents
            /\ 3 \in 1..3 /\ 1 \in 0..2 /\ TRUE \in BOOLEAN
        BY DEF InSource, Typed, StoresOK
      <3> QED BY <2>1, <3>1, BeginJob, Zenon
    <2>3. ~ AtRest(3)'
      BY <2>2 DEF AtRest, Running
    <2>4. InSource(1)' = InSource(1)
      BY <2>1 DEF InSource, tokenVars
    <2>5. InSource(job.source)' = InSource(1)
      BY <2>1, <2>2 DEF InSource, tokenVars
    <2> QED BY <1>0, <2>2, <2>3, <2>4, <2>5 DEF TokensAtLabel, TokensAtRest
  <1>2. CASE CopyToken
    <2>1. /\ job.pc = "copyToken" /\ job.number = 3 /\ Going /\ UNCHANGED <<now, sourceTokens>>
          /\ job.at = {} /\ Running
          /\ \A t \in job.todo : \E m \in MailedRows : IsOf(t, m)
          /\ InSource(job.source) \subseteq job.todo
          /\ job.source = 2 => InSource(1) = {}
      BY <1>2 DEF CopyToken, TokenInv, TokensAtLabel
    <2>2. ASSUME NEW t \in job.todo, Take("dropCopied", t),
                 actionTokens' = actionTokens \cup
                   (IF \E a \in actionTokens : a.hash = t.hash THEN {} ELSE {CopyOf(t)})
          PROVE  TokensAtLabel' /\ TokensAtRest'
      <3>1. Moved("dropCopied", job.todo \ {t}, {t}, job.source)
        BY <2>1, <2>2, TakeMoves
      <3>2. /\ job'.pc = "dropCopied" /\ job'.todo = job.todo \ {t} /\ job'.at = {t}
            /\ job'.source = job.source /\ job'.number = 3
        BY <2>1, <3>1 DEF Moved, Onward
      <3>3. ~ AtRest(3)'
        BY <3>2 DEF AtRest, Running
      <3>4. TokensAnywhere'
        BY <1>2, TokenStepAnywhere DEF TokenStep
      <3>5. ASSUME NEW m \in MailedRows, IsOf(t, m)
            PROVE  m \in actionTokens'
        <4>1. \E a \in actionTokens' : a.hash = m.hash
          <5>1. CASE \E a \in actionTokens : a.hash = t.hash
            BY <2>2, <3>5, <5>1 DEF IsOf
          <5>2. CASE ~ \E a \in actionTokens : a.hash = t.hash
            <6>1. PICK c : c = CopyOf(t)
              OBVIOUS
            <6>2. c.hash = t.hash
              BY <2>1, <6>1 DEF CopyOf, MailedToken
            <6> QED BY <2>2, <3>5, <5>2, <6>1, <6>2 DEF IsOf
          <5> QED BY <5>1, <5>2
        <4> QED BY <3>4, <4>1 DEF TokensAnywhere
      <3>6. InSource(job.source)' = InSource(job.source) /\ InSource(1)' = InSource(1)
        BY <2>1, <3>2 DEF InSource
      <3> QED BY <2>1, <2>2, <3>2, <3>3, <3>5, <3>6 DEF TokensAtLabel, TokensAtRest
    <2>3. ASSUME job.todo = {}, Goto("dropSource"), UNCHANGED actionTokens
          PROVE  TokensAtLabel' /\ TokensAtRest'
      <3>1. Moved("dropSource", job.todo, {}, job.source)
        BY <2>1, <2>3, GotoMoves
      <3>2. /\ job'.pc = "dropSource" /\ job'.todo = {} /\ job'.at = {}
            /\ job'.source = job.source /\ job'.number = 3
        BY <2>1, <2>3, <3>1 DEF Moved, Onward
      <3>3. ~ AtRest(3)'
        BY <3>2 DEF AtRest, Running
      <3>4. InSource(job.source)' = InSource(job.source) /\ InSource(1)' = InSource(1)
        BY <2>1, <3>2 DEF InSource
      <3> QED BY <2>1, <2>3, <3>2, <3>3, <3>4 DEF TokensAtLabel, TokensAtRest
    <2> QED BY <1>2, <2>2, <2>3 DEF CopyToken
  <1>3. CASE DropCopied
    <2>1. /\ job.pc = "dropCopied" /\ job.number = 3 /\ Goto("copyToken") /\ Going /\ Running
          /\ sourceTokens' = sourceTokens \ job.at /\ UNCHANGED <<now, actionTokens>>
          /\ \A t \in job.todo : \E m \in MailedRows : IsOf(t, m)
          /\ InSource(job.source) \subseteq job.todo \cup job.at
          /\ job.source = 2 => InSource(1) = {}
      BY <1>3 DEF DropCopied, TokenInv, TokensAtLabel
    <2>2. /\ job'.pc = "copyToken" /\ job'.todo = job.todo /\ job'.at = {}
          /\ job'.source = job.source /\ job'.number = 3
      <3>1. Moved("copyToken", job.todo, {}, job.source)
        BY <2>1, GotoMoves
      <3> QED BY <2>1, <3>1 DEF Moved, Onward
    <2>3. ~ AtRest(3)'
      BY <2>2 DEF AtRest, Running
    <2>4. InSource(job.source)' = InSource(job.source) \ job.at /\ InSource(1)' \subseteq InSource(1)
      BY <2>1, <2>2 DEF InSource
    <2> QED BY <2>1, <2>2, <2>3, <2>4 DEF TokensAtLabel, TokensAtRest
  <1>4. CASE DropSource
    <2>1. /\ job.pc = "dropSource" /\ job.number = 3 /\ job.up = TRUE /\ Going /\ Running
          /\ InSource(job.source) = {} /\ job.source \in {1, 2}
          /\ job.source = 2 => InSource(1) = {}
          /\ sourceTokens' = sourceTokens \ InSource(job.source) /\ UNCHANGED <<now, actionTokens>>
      BY <1>4 DEF DropSource, TokenInv, TokensAtLabel
    <2>2. sourceTokens' = sourceTokens /\ sourceTokens \subseteq MailedToken
      BY <2>1 DEF Typed, StoresOK
    <2>3. ASSUME job.source = 1, Loop("copyToken", InSource(2), {}, 2)
          PROVE  TokensAtLabel' /\ TokensAtRest'
      <3>1. Moved("copyToken", InSource(2), {}, 2)
        <4>1. InSource(2) \in SUBSET Documents
          BY <2>2 DEF InSource
        <4> QED BY <2>1, <2>3, <4>1, LoopMoves
      <3>2. /\ job'.pc = "copyToken" /\ job'.todo = InSource(2) /\ job'.at = {}
            /\ job'.source = 2 /\ job'.number = 3
        BY <2>1, <3>1 DEF Moved, Onward
      <3>3. ~ AtRest(3)'
        BY <3>2 DEF AtRest, Running
      <3>4. InSource(job.source)' = InSource(2) /\ InSource(1)' = {}
        BY <2>1, <2>2, <2>3, <3>2 DEF InSource
      <3> QED BY <1>0, <3>2, <3>3, <3>4 DEF TokensAtLabel, TokensAtRest
    <2>4. ASSUME job.source = 2, Goto("done")
          PROVE  TokensAtLabel' /\ TokensAtRest'
      <3>1. Moved("done", job.todo, {}, job.source)
        BY <2>1, <2>4, GotoMoves
      <3>2. job'.pc = "done" /\ job'.number = 3 /\ job'.up = TRUE
        BY <2>1, <3>1 DEF Moved, Onward
      <3>3. ~ AtRest(3)'
        BY <3>2 DEF AtRest, Running
      <3>4. sourceTokens' = {}
        BY <2>1, <2>2, <2>4 DEF InSource
      <3> QED BY <3>2, <3>3, <3>4 DEF TokensAtLabel, TokensAtRest
    <2> QED BY <1>4, <2>1, <2>3, <2>4 DEF DropSource
  <1> QED BY <1>1, <1>2, <1>3, <1>4

LEMMA ReturnsKeepTokens ==
  ASSUME Typed, Typed', TokenInv, MigrationsAssumption,
         DownActionTokens \/ RestoreToken \/ IndexSource \/ DropTokens
  PROVE  TokensAtLabel' /\ TokensAtRest'
  <1> USE InLabels, AtLabels, MailedFacts DEF MovesTokens, ReturnsTokens
  <1>0. /\ actionTokens \subseteq MailedRows
        /\ \A i : OfType(i) \subseteq {m \in MailedRows : m.type = Sources[i]}
        /\ \A i : OfType(i) \in SUBSET Documents
    BY DEF TokenInv, TokensAnywhere, OfType
  <1>1. CASE DownActionTokens
    <2>1. Begin(3, FALSE, "restoreToken", OfType(1), 1) /\ UNCHANGED <<now, tokenVars>>
      BY <1>1 DEF DownActionTokens
    <2>2. job'.pc = "restoreToken" /\ job'.number = 3 /\ job'.todo = OfType(1) /\ job'.source = 1
      <3>1. "restoreToken" \in Labels \ {"stopped"} /\ OfType(1) \in SUBSET Documents
            /\ 3 \in 1..3 /\ 1 \in 0..2 /\ FALSE \in BOOLEAN
        BY <1>0
      <3> QED BY <2>1, <3>1, BeginJob, Zenon
    <2>3. ~ AtRest(3)'
      BY <2>2 DEF AtRest, Running
    <2>4. \A m \in actionTokens' : m.type = Sources[1] => m \in OfType(1)
      BY <2>1 DEF OfType, tokenVars
    <2> QED BY <1>0, <2>2, <2>3, <2>4 DEF TokensAtLabel, TokensAtRest
  <1>2. CASE RestoreToken
    <2>1. /\ job.pc = "restoreToken" /\ job.number = 3 /\ job.up = FALSE /\ Running
          /\ UNCHANGED <<now, uniqueIn, actionTokens>> /\ job.source \in {1, 2}
          /\ job.todo \subseteq {m \in MailedRows : m.type = Sources[job.source]}
          /\ job.source = 2 => 1 \in uniqueIn /\ AllSourced(1)
          /\ \A m \in actionTokens :
                Live(m) /\ m.type = Sources[job.source] => m \in job.todo \/ Sourced(m)
      BY <1>2 DEF RestoreToken, TokenInv, TokensAtLabel
    <2>2. CASE Reject
      <3>1. job'.pc = "stopped" /\ 3 \in half'
        BY <2>1, <2>2, StoppedJob DEF Reject
      <3> QED BY <3>1 DEF TokensAtLabel, TokensAtRest, AtRest
    <2>3. ASSUME NEW t \in job.todo, NEW v, v = [t EXCEPT !.copy = Cardinality(Copies(t))],
                 sourceTokens' = sourceTokens \cup {v}, Take("restoreToken", t), Going
          PROVE  TokensAtLabel' /\ TokensAtRest'
      <3>1. /\ job'.pc = "restoreToken" /\ job'.todo = job.todo \ {t}
            /\ job'.source = job.source /\ job'.number = 3
        <4>1. Moved("restoreToken", job.todo \ {t}, {t}, job.source)
          BY <2>3, TakeMoves
        <4> QED BY <2>1, <4>1 DEF Moved, Onward
      <3>2. ~ AtRest(3)'
        BY <3>1 DEF AtRest, Running
      <3>3. IsOf(v, t)
        BY <2>1, <2>3 DEF MailedToken, IsOf
      <3>4. Sourced(t)' /\ \A m : Sourced(m) => Sourced(m)'
        BY <2>3, <3>3 DEF Sourced
      <3>5. \A m : Live(m)' <=> Live(m)
        BY <2>1 DEF Live
      <3>6. AllSourced(1) => AllSourced(1)'
        BY <2>1, <3>4, <3>5 DEF AllSourced
      <3> QED BY <2>1, <3>1, <3>2, <3>4, <3>5, <3>6 DEF TokensAtLabel, TokensAtRest
    <2>4. ASSUME job.todo = {}, Goto("indexSource"), Going, UNCHANGED sourceTokens
          PROVE  TokensAtLabel' /\ TokensAtRest'
      <3>1. /\ job'.pc = "indexSource" /\ job'.todo = {}
            /\ job'.source = job.source /\ job'.number = 3
        <4>1. Moved("indexSource", job.todo, {}, job.source)
          BY <2>4, GotoMoves
        <4> QED BY <2>1, <2>4, <4>1 DEF Moved, Onward
      <3>2. ~ AtRest(3)'
        BY <3>1 DEF AtRest, Running
      <3>3. AllSourced(job.source)
        BY <2>1, <2>4 DEF AllSourced
      <3>4. AllSourced(job.source)' /\ (AllSourced(1) => AllSourced(1)')
        BY <2>1, <2>4, <3>1, <3>3 DEF AllSourced, Live, Sourced
      <3> QED BY <2>1, <3>1, <3>2, <3>4 DEF TokensAtLabel, TokensAtRest
    <2> QED BY <1>2, <2>2, <2>3, <2>4 DEF RestoreToken
  <1>3. CASE IndexSource
    <2>1. /\ job.pc = "indexSource" /\ job.number = 3 /\ job.up = FALSE /\ Running
          /\ UNCHANGED <<now, sourceTokens, actionTokens>> /\ job.source \in {1, 2}
          /\ job.source = 2 => 1 \in uniqueIn /\ AllSourced(1)
          /\ AllSourced(job.source)
      BY <1>3 DEF IndexSource, TokenInv, TokensAtLabel
    <2>2. CASE Reject
      <3>1. job'.pc = "stopped" /\ 3 \in half'
        BY <2>1, <2>2, StoppedJob DEF Reject
      <3> QED BY <3>1 DEF TokensAtLabel, TokensAtRest, AtRest
    <2>3. \A i \in {1, 2} : AllSourced(i) => AllSourced(i)'
      BY <2>1 DEF AllSourced, Live, Sourced
    <2>4. ASSUME job.source = 1, Loop("restoreToken", OfType(2), {}, 2), Going,
                 uniqueIn' = uniqueIn \cup {job.source}
          PROVE  TokensAtLabel' /\ TokensAtRest'
      <3>1. job'.pc = "restoreToken" /\ job'.todo = OfType(2) /\ job'.source = 2 /\ job'.number = 3
        <4>1. Moved("restoreToken", OfType(2), {}, 2)
          BY <1>0, <2>1, <2>4, LoopMoves
        <4> QED BY <2>1, <4>1 DEF Moved, Onward
      <3>2. ~ AtRest(3)'
        BY <3>1 DEF AtRest, Running
      <3>3. \A m \in actionTokens' : m.type = Sources[2] => m \in OfType(2)
        BY <2>1 DEF OfType
      <3>4. 1 \in uniqueIn' /\ AllSourced(1)'
        BY <2>1, <2>3, <2>4
      <3> QED BY <1>0, <3>1, <3>2, <3>3, <3>4 DEF TokensAtLabel, TokensAtRest
    <2>5. ASSUME job.source = 2, Goto("dropTokens"), Going, uniqueIn' = uniqueIn \cup {job.source}
          PROVE  TokensAtLabel' /\ TokensAtRest'
      <3>1. job'.pc = "dropTokens" /\ job'.todo = job.todo /\ job'.source = 2 /\ job'.number = 3
        <4>1. Moved("dropTokens", job.todo, {}, job.source)
          BY <2>5, GotoMoves
        <4> QED BY <2>1, <2>5, <4>1 DEF Moved, Onward
      <3>2. ~ AtRest(3)'
        BY <3>1 DEF AtRest, Running
      <3>3. uniqueIn' = {1, 2} /\ AllSourced(1)' /\ AllSourced(2)'
        <4>1. uniqueIn \subseteq {1, 2} /\ 1 \in uniqueIn /\ uniqueIn' = uniqueIn \cup {2}
          BY <2>1, <2>5 DEF Typed, StoresOK
        <4>2. uniqueIn' = {1, 2}
          BY <4>1
        <4>3. AllSourced(1)' /\ AllSourced(2)'
          BY <2>1, <2>3, <2>5
        <4> QED BY <4>2, <4>3
      <3>4. job'.todo \subseteq {m \in MailedRows : m.type = Sources[job'.source]}
        BY <2>1, <2>5, <3>1 DEF TokenInv, TokensAtLabel
      <3> QED BY <3>1, <3>2, <3>3, <3>4 DEF TokensAtLabel, TokensAtRest
    <2> QED BY <1>3, <2>1, <2>2, <2>4, <2>5 DEF IndexSource
  <1>4. CASE DropTokens
    <2>1. /\ job.pc = "dropTokens" /\ job.number = 3 /\ job.up = FALSE /\ Running /\ Goto("done") /\ Going
          /\ UNCHANGED uniqueIn /\ actionTokens' = {} /\ uniqueIn = {1, 2}
      BY <1>4 DEF DropTokens, TokenInv, TokensAtLabel
    <2>2. job'.pc = "done" /\ job'.number = 3 /\ job'.up = FALSE
      <3>1. Moved("done", job.todo, {}, job.source)
        BY <2>1, GotoMoves
      <3> QED BY <2>1, <3>1 DEF Moved, Onward
    <2>3. ~ AtRest(3)'
      BY <2>2 DEF AtRest, Running
    <2> QED BY <2>1, <2>2, <2>3 DEF TokensAtLabel, TokensAtRest
  <1> QED BY <1>1, <1>2, <1>3, <1>4

LEMMA TokensKept ==
  ASSUME Typed, Typed', TokenInv, [Next]_vars, MigrationsAssumption
  PROVE  TokenInv'
  <1>0. now \in Nat
    BY DEF Typed, StoresOK
  <1>1. CASE PasswordStep
    <2>1. UNCHANGED <<now, tokenVars>>
      BY <1>1 DEF PasswordStep, UpCredentials, CopyHash, UnsetHash, DownCredentials,
         RestoreHash, DeleteHashes, DropIndex
    <2>2. MailAges
      BY <1>0, <2>1 DEF MailAges, tokenVars
    <2> QED BY <1>1, <2>2, PasswordStepTyped, MailAgesKeeps
  <1>2. CASE SessionStep
    <2>1. UNCHANGED <<now, tokenVars>>
      BY <1>2 DEF SessionStep, UpSessions, OpenSession, Repoint, DownSessions, RestoreFamily,
         DropSessions
    <2>2. MailAges
      BY <1>0, <2>1 DEF MailAges, tokenVars
    <2> QED BY <1>2, <2>2, SessionStepTyped, MailAgesKeeps
  <1>3. CASE TokenStep
    BY <1>3, TokenStepAnywhere, MovesKeepTokens, ReturnsKeepTokens DEF TokenInv, TokenStep
  <1>4. CASE Done
    <2>1. UNCHANGED <<now, tokenVars>> /\ Finish /\ job.pc = "done" /\ Running
      BY <1>4 DEF Done, Running
    <2>2. CASE job.number # 3
      <3>1. MailAges
        BY <1>0, <2>1 DEF MailAges, tokenVars
      <3> QED BY <1>4, <2>1, <2>2, <3>1, DoneTyped, MailAgesKeeps DEF Alone
    <2>3. CASE job.number = 3
      <3>1. job'.pc = "stopped" /\ applied' = IF job.up THEN 3 ELSE 2
        BY <2>1, <2>3, StoppedJob DEF Finish
      <3>2. /\ job.up => sourceTokens = {}
            /\ ~ job.up => actionTokens = {} /\ uniqueIn = {1, 2}
        BY <2>1, <2>3 DEF TokenInv, TokensAtLabel
      <3>3. TokensAtRest'
        BY <2>1, <3>1, <3>2 DEF TokensAtRest, tokenVars
      <3>4. TokensAtLabel'
        BY <3>1 DEF TokensAtLabel, MovesTokens, ReturnsTokens
      <3>5. TokensAnywhere'
        BY <2>1 DEF TokenInv, TokensAnywhere, tokenVars, Live, Sourced, InSource
      <3> QED BY <3>3, <3>4, <3>5 DEF TokenInv
    <2> QED BY <2>2, <2>3
  <1>5. CASE Interrupt \/ UNCHANGED vars
    <2>1. MailAges
      BY <1>0, <1>5 DEF MailAges, Interrupt, vars, tokenVars
    <2>2. Elsewhere(3)
      BY <1>5, InterruptTyped DEF vars, runnerVars, Elsewhere, AtRest, Running
    <2> QED BY <2>1, <2>2, MailAgesKeeps
  <1>6. ASSUME NEW u \in Users, ChangePassword(u)
        PROVE  TokenInv'
    <2>1. MailAges
      BY <1>0, <1>6 DEF MailAges, ChangePassword, tokenVars
    <2> QED BY <1>6, <2>1, ChangePasswordTyped, MailAgesKeeps
  <1>7. CASE Tick
    <2>1. MailAges /\ MaxTime \in Nat
      BY <1>0, <1>7 DEF MailAges, Tick, tokenVars, MigrationsAssumption
    <2> QED BY <1>7, <2>1, TickTyped, MailAgesKeeps
  <1>8. CASE Purge
    <2>1. MailAges
      BY <1>0, <1>8, PurgeFacts DEF MailAges
    <2> QED BY <1>8, <2>1, PurgeTyped, MailAgesKeeps
  <1> QED BY <1>1, <1>2, <1>3, <1>4, <1>5, <1>6, <1>7, <1>8
      DEF Next, PasswordStep, SessionStep, TokenStep

LEMMA InitTokens ==
  ASSUME Init, Typed, MigrationsAssumption
  PROVE  TokenInv
  <1>1. /\ sourceTokens = MailedRows /\ actionTokens = {} /\ uniqueIn = {1, 2}
        /\ job.pc = "stopped" /\ applied = 0
    BY StoppedJob DEF Init
  <1>2. TokensAnywhere
    BY <1>1, MailedFacts DEF TokensAnywhere, Sourced, IsOf, InSource
  <1>3. TokensAtLabel /\ TokensAtRest
    BY <1>1 DEF TokensAtLabel, TokensAtRest, MovesTokens, ReturnsTokens
  <1> QED BY <1>2, <1>3 DEF TokenInv

-----------------------------------------------------------------------------
\* TypeOK and the invariants of the three parts.
MigrationsInv == Typed /\ PasswordInv /\ FamilyInv /\ TokenInv

LEMMA MigrationsHold == Spec => []MigrationsInv
  <1>1. Init => MigrationsInv
    BY InitTyped, InitPasswords, InitFamilies, InitTokens, MigrationsAssumption DEF MigrationsInv
  <1>2. MigrationsInv /\ [Next]_vars => MigrationsInv'
    <2>1. MaxTime \in Nat
      BY MigrationsAssumption DEF MigrationsAssumption
    <2> QED BY <2>1, NextTyped, PasswordsKept, FamiliesKept, TokensKept, MigrationsAssumption
        DEF MigrationsInv
  <1> QED BY <1>1, <1>2, PTL DEF Spec

\* The collections hold what they are declared to, whatever died.
THEOREM TypeCorrect == Spec => []TypeOK
  <1>1. MigrationsInv => TypeOK
    <2> SUFFICES ASSUME MigrationsInv
                 PROVE  TypeOK
      OBVIOUS
    <2>1. passwordHash \in [Users -> 0..changes]
      BY DEF MigrationsInv, Typed, StoresOK, PasswordInv
    <2>2. \A c, d \in credentials : c.userId = d.userId => c = d
      BY DEF MigrationsInv, Typed, StoresOK, PasswordInv, Credential
    <2> QED BY <2>1, <2>2 DEF MigrationsInv, Typed, StoresOK, TypeOK, JobOK, Job, Documents, Running
  <1> QED BY <1>1, MigrationsHold, PTL

\* Wherever a migration dies and however often it is repeated or undone, the
\* password a user set last is in one of the two places, and in the one the
\* code looks at when the migration is through.
THEOREM PasswordsLast == Spec => []PasswordsSurvive
  <1>1. MigrationsInv => PasswordsSurvive
    <2> SUFFICES ASSUME MigrationsInv, NEW u \in Users
                 PROVE  /\ passwordHash[u] = current[u] \/ Kept(u)
                        /\ AtRest(1) /\ applied >= 1 => Kept(u) /\ passwordHash[u] = 0
                        /\ AtRest(1) /\ applied = 0 =>
                              passwordHash[u] = current[u] /\ ~ Credentialed(u)
      BY DEF PasswordsSurvive, Kept
    <2> QED BY DEF MigrationsInv, Typed, PasswordInv, Credentialed
  <1> QED BY <1>1, MigrationsHold, PTL

\* However often the migration to sessions is repeated or undone, and wherever
\* it dies, the tokens of one sign-in stay together and apart from others, and
\* who could refresh still can and is listed.
THEOREM FamiliesTogether == Spec => []FamiliesStayTogether
  <1>1. MigrationsInv => FamiliesStayTogether
    <2> SUFFICES ASSUME MigrationsInv, AtRest(2), NEW t \in refreshTokens, t.expiresAt > now
                 PROVE  /\ IF applied >= 2
                             THEN /\ t.familyId = 0
                                  /\ \E s \in sessions :
                                        /\ s.id = t.sessionId /\ s.userId = t.userId
                                        /\ s.expiresAt >= t.expiresAt
                             ELSE t.familyId # 0 /\ t.sessionId = 0
                        /\ \A u \in refreshTokens :
                              u.expiresAt > now =>
                                 (u.origin = t.origin
                                    <=> <<u.familyId, u.sessionId>> = <<t.familyId, t.sessionId>>)
      BY DEF FamiliesStayTogether
    <2>1. Typed /\ Together /\ Live(t)
      BY DEF MigrationsInv, FamilyInv, Live
    <2>2. (t.familyId = 0) # (t.sessionId = 0)
      BY <2>1 DEF Together
    <2>3. IF applied >= 2 THEN t.familyId = 0 /\ Hosted(t) ELSE t.familyId # 0 /\ t.sessionId = 0
      BY <2>1, <2>2 DEF MigrationsInv, FamilyInv
    <2>4. ASSUME NEW u \in refreshTokens
          PROVE  u.origin = t.origin
                   <=> <<u.familyId, u.sessionId>> = <<t.familyId, t.sessionId>>
      BY <2>1, <2>2, KinShareOrigin
    <2> QED BY <2>3, <2>4 DEF Hosted
  <1> QED BY <1>1, MigrationsHold, PTL

\* Wherever the migration of the mailed tokens dies and however often it is
\* repeated or undone, a token that is still good is somewhere and authorizes what
\* it did; and when the migration is done or undone, it is there once.
THEOREM MailedTokensLast == Spec => []MailedTokensSurvive
  <1> DEFINE Same(rows, m) == {t \in rows : t.hash = m.hash /\ t.type = m.type}
  <1>1. MigrationsInv => MailedTokensSurvive
    <2> SUFFICES ASSUME MigrationsInv, NEW m \in MailedRows, m.expiresAt > now
                 PROVE  /\ Same(actionTokens, m) \cup Same(sourceTokens, m) # {}
                        /\ AtRest(3) /\ applied = 3 =>
                              Cardinality(Same(actionTokens, m)) = 1 /\ Same(sourceTokens, m) = {}
                        /\ AtRest(3) /\ applied < 3 =>
                              Cardinality(Same(sourceTokens, m)) = 1 /\ Same(actionTokens, m) = {}
      BY DEF MailedTokensSurvive
    <2>1. /\ actionTokens \subseteq MailedRows
          /\ m \in actionTokens \/ Sourced(m)
          /\ \A i \in uniqueIn : \A s, t \in InSource(i) : s.hash = t.hash => s = t
          /\ AtRest(3) => IF applied = 3 THEN sourceTokens = {}
                                         ELSE actionTokens = {} /\ uniqueIn = {1, 2}
          /\ m \in MailedToken
          /\ \A a, b \in MailedRows : a.hash = b.hash => a = b
      BY MailedFacts, MigrationsAssumption
         DEF MigrationsInv, TokenInv, TokensAnywhere, TokensAtRest, Live
    <2>2. Sourced(m) => Same(sourceTokens, m) # {}
      BY DEF Sourced, IsOf
    <2>3. CASE AtRest(3) /\ applied = 3
      <3>1. Same(sourceTokens, m) = {} /\ Same(actionTokens, m) = {m}
        BY <2>1, <2>3 DEF Sourced
      <3>2. Cardinality({m}) = 1
        BY FS_Singleton
      <3> HIDE DEF Same
      <3> QED BY <2>3, <3>1, <3>2
    <2>4. CASE AtRest(3) /\ applied # 3
      <3>1. uniqueIn = {1, 2} /\ Same(actionTokens, m) = {}
        BY <2>1, <2>4
      <3>2. \E i \in {1, 2} : m.type = Sources[i]
        BY <2>1 DEF MailedToken
      <3>3. \A s, t \in Same(sourceTokens, m) : s = t
        BY <2>1, <3>1, <3>2 DEF InSource
      <3>4. PICK t \in Same(sourceTokens, m) : TRUE
        BY <2>1, <2>2, <2>4
      <3>5. Same(sourceTokens, m) = {t}
        BY <3>3, <3>4
      <3>6. Cardinality(Same(sourceTokens, m)) = 1
        BY <3>5, FS_Singleton
      <3> QED BY <2>4, <3>1, <3>5, <3>6
    <2>5. CASE ~ AtRest(3)
      <3>1. m \in actionTokens => m \in Same(actionTokens, m)
        OBVIOUS
      <3> HIDE DEF Same
      <3> QED BY <2>1, <2>2, <2>5, <3>1
    <2> QED BY <2>3, <2>4, <2>5 DEF MigrationsInv, Typed
  <1> QED BY <1>1, MigrationsHold, PTL

=============================================================================
