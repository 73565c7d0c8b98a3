\* Every flow of one person at two requests, one of which may be slow or die.
SPECIFICATION Spec
CONSTANTS
    Users = {u1}
    NoUser = NoUser
    Requests = {r1, r2}
    Workload = {"signUp", "requestReset", "requestVerification", "resend",
                "resetPassword", "verify", "deleteAccount"}
    Faulty = {r1}
    Slow = {r1}
    ResetTtl = 1
    VerificationTtl = 2
    Limit = 1
    Window = 2
    MaxTime = 2
    MaxTokens = 3
    MaxCounters = 2
    MaxCount = 2
CHECK_DEADLOCK FALSE
INVARIANTS
    NewestTokenWorks
    RedeemableIsBounded
    MailboxIsProtected
PROPERTIES
    GoneStaysGone
    ImplementsSingleUse
