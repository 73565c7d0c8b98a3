\* Two accounts, three overlapping calls of which one may be overtaken by the
\* clock and one cut off, until a window is over and the next one has begun.
SPECIFICATION RateSpec
CONSTANTS
    Keys = {k1, k2}
    NoKey = NoKey
    Requests = {r1, r2, r3}
    Slow = {r1}
    Faulty = {r2}
    Limit = 2
    Window = 2
    MaxTime = 2
    MaxCounters = 4
    MaxCount = 4
SYMMETRY CallSymmetry
CHECK_DEADLOCK FALSE
INVARIANTS
    BurstIsBounded
    OneAlertPerWindow
PROPERTY RefusedOnlyInsideWindow
