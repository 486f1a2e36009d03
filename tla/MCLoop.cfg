CONSTANTS
    idle1 = idle1
    idle2 = idle2
    tim = tim
    io = io
    Handles = {idle1, idle2, tim, io}
    Kind <- MCKind
    PendingRuns = 1
    MaxReqs = 0
SPECIFICATION Spec
INVARIANTS TypeOK ActiveExact WatchersLinked ClosingLinked BlocksOnlyIdle
SYMMETRY Symmetry
CHECK_DEADLOCK FALSE
