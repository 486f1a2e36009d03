CONSTANTS
    Handles = {a, b, w}
    Internal = {w}
    Threads = {t1, t2}
    None = None
    MaxSends = 3
SPECIFICATION FairSpec
INVARIANTS TypeOK NoLostSend QuietAfterSpin
PROPERTIES  CloseReturns
CHECK_DEADLOCK FALSE
