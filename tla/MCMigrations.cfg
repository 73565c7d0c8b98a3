\* All of it up and down, and up again, with runs that die.
SPECIFICATION Spec
CONSTANTS
    u1 = u1
    u2 = u2
    Users <- MCUsers
    RefreshRows <- MCRefreshRows
    MailedRows <- MCMailedRows
    MaxTime = 1
    MaxCommands = 7
    MaxPasswords = 3
    MaxIds = 8
CHECK_DEADLOCK FALSE
INVARIANTS
    PasswordsSurvive
    FamiliesStayTogether
    MailedTokensSurvive
