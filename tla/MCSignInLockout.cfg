\* One email, with or without an account; three requests that check a password for as
\* long as they like, one of which may also take long to record a failure.
SPECIFICATION Spec
CONSTANTS
    Emails = {e1}
    NoEmail = NoEmail
    Requests = {r1, r2, r3}
    Slow = {r1}
    MaxFailed = 2
    Window = 2
    MaxTime = 2
    MaxRecords = 2
    MaxCount = 4
    MaxCrashes = 1
SYMMETRY SlotSymmetry
CHECK_DEADLOCK FALSE
INVARIANTS
    GuessesAreBounded
    OwnerIsWarnedOnce
PROPERTIES
    LockOutlivesGuessing
    LockEngagesWithWarning
