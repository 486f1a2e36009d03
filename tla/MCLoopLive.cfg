CONSTANTS
    idle1 = idle1
    idle2 = idle2
    tim = tim
    io = io
    Handles = {tim, io}
    Kind <- MCKind
    PendingRuns = 1
    MaxReqs = 1
SPECIFICATION FairSpec
PROPERTIES CloseCompletes StopStops
CHECK_DEADLOCK FALSE
