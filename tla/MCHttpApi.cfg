\* Floods through proxies, paging among sign-ups and deletions, every route.
SPECIFICATION Spec
CONSTANTS
    Requests = {r1, r2}
    Clients = {c1, c2}
    Forged = {f1}
    Scenarios <- AllScenarios
    DefaultLimit = 3
    DefaultTtl = 2
    BurstLimit = 3
    BurstTtl = 1
    AuthLimit = 1
    AuthTtl = 2
    Admins = {1}
    InitialUsers = 2
    MaxUsers = 3
    PageLimit = 1
SYMMETRY SlotSymmetry
CHECK_DEADLOCK FALSE
INVARIANTS
    FloodIsCut
    CutOffForOwnCalls
    ClosedByDefault
    DeadTokenMeansDead
    AnswerFits
    DocumentedAnswers
    NoAccountIsSkipped
