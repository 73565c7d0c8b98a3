\* Two accounts, every handler; rows expire and are purged between requests.
SPECIFICATION Spec
CONSTANTS
    Users = {u1, u2}
    NoUser = NoUser
    Requests = {r1, r2}
    Workload = {"signIn", "refresh", "logout", "revokeSession",
                "changePassword", "resetPassword", "deleteAccount"}
    Slow = {}
    Faulty = {}
    Lifetime = 2
    BootstrapTtl = 1
    MaxTime = 3
    MaxTokens = 2
    MaxSessions = 2
SYMMETRY SlotSymmetry
CHECK_DEADLOCK FALSE
INVARIANTS
    TypeOK
    NobodyEndsAnothersSession
    RevokedSessionIsNeverListed
    UsableTokenIsListed
PROPERTY GoneUserGetsNoToken
