\* A session is revoked while its token is being rotated.
SPECIFICATION Spec
CONSTANTS
    Users = {u1}
    NoUser = NoUser
    Requests = {r1, r2}
    Workload = {"signIn", "refresh", "revokeSession"}
    Slow = {}
    Faulty = {}
    Lifetime = 1
    BootstrapTtl = 1
    MaxTime = 0
    MaxTokens = 2
    MaxSessions = 1
CHECK_DEADLOCK FALSE
INVARIANT RevokedSessionStaysRevoked
