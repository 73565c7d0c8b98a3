\* One account; revocations and other requests that straddle seconds.
SPECIFICATION Spec
CONSTANTS
    Users = {u1}
    NoUser = NoUser
    Requests = {r1, r2}
    Slow = {r1, r2}
    Second = 2
    AccessTtl = 2
    MaxTime = 5
    MaxTokens = 2
    MaxRevocations = 2
SYMMETRY SlotSymmetry
CHECK_DEADLOCK FALSE
INVARIANTS
    FreshTokenWorks
    RetiredTokenStaysRetired
    NoServiceAfterTheFact
