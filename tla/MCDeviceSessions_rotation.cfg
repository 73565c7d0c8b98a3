\* Three requests rotate, replay and revoke one session; each of them may be slow, or die.
SPECIFICATION Spec
CONSTANTS
    Users = {u1}
    NoUser = NoUser
    Requests = {r1, r2, r3}
    Workload = {"signIn", "refresh", "logout", "revokeSession"}
    Slow = {r1, r2, r3}
    Faulty = {r1, r2, r3}
    Lifetime = 1
    BootstrapTtl = 1
    MaxTime = 1
    MaxTokens = 3
    MaxSessions = 1
SYMMETRY SlotSymmetry
CHECK_DEADLOCK FALSE
INVARIANTS
    OneLiveTokenPerSession
    ReuseAccusationIsSound
    SessionLivesAsLongAsItsToken
PROPERTIES
    DeadSessionStaysDead
    ImplementsRotation
