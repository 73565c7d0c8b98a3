\* Every handler, two requests that may die; credential inserts may fail.
SPECIFICATION Spec
CONSTANTS
    Emails = {e1, e2}
    NoEmail = NoEmail
    Requests = {r1, r2}
    Workload = {"signUp", "signIn", "changePassword", "resetPassword", "deleteAccount"}
    Faulty = {r1, r2}
    Flaky = {r1, r2}
    MaxUsers = 2
    MaxPasswords = 4
SYMMETRY SlotSymmetry
CHECK_DEADLOCK FALSE
INVARIANTS
    EmailsAreUnique
    AccountsAreWhole
