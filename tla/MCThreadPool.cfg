SPECIFICATION FairSpec
CONSTANTS
    Workers = {w1, w2}
    Loops = {l1}
    Reqs = {r1, r2}
    RunSlow = RunSlow
    Exit = Exit
    None = None
    MaxSubmits = 3
    MaxCancels = 2
CHECK_DEADLOCK FALSE
INVARIANTS
    TypeOK
    OnePlace
    TruthfulStatus
    SlowBound
    NoLostWakeup
PROPERTIES
    EventuallyDone
    CleanupReturns
    ImplementsWorkRequest
