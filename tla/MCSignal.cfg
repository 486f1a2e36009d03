CONSTANTS
    h1 = h1
    h2 = h2
    l1 = l1
    l2 = l2
    Handles = {h1, h2}
    Loops = {l1, l2}
    loop <- TwoLoops
    Signals = {SIGHUP, SIGTERM}
    None = None
    MaxSignals = 2
    PipeSize = 1
    BufSize = 1
SPECIFICATION FairSpec
INVARIANTS TypeOK CountsExact NothingTrapped 
PROPERTY CloseCompletes
CHECK_DEADLOCK FALSE
