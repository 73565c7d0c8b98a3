\* Every request is served: no symmetry, no failures, a clock that stands still.
SPECIFICATION FairSpec
CONSTANTS
    Users = {u1}
    NoUser = NoUser
    Requests = {r1, r2, r3}
    Workload = {"signIn", "refresh", "logout", "revokeSession"}
    Slow = {}
    Faulty = {}
    Lifetime = 1
    BootstrapTtl = 1
    MaxTime = 0
    MaxTokens = 3
    MaxSessions = 1
CHECK_DEADLOCK FALSE
PROPERTY ReplayKillsLiveTokens
