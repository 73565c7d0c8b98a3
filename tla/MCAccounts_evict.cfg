\* Somebody signs in with the old password while it is reset.
SPECIFICATION Spec
CONSTANTS
    Emails = {e1}
    NoEmail = NoEmail
    Requests = {r1, r2}
    Workload = {"signUp", "signIn", "resetPassword"}
    Faulty = {}
    Flaky = {}
    MaxUsers = 1
    MaxPasswords = 2
SYMMETRY SlotSymmetry
CHECK_DEADLOCK FALSE
INVARIANT ResetSignsOutOldPassword
