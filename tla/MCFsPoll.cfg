CONSTANTS
    MaxStarts = 3
    Stats = {s1, s2}
    Errors = {e1, e2}
SPECIFICATION FairSpec
INVARIANTS TypeOK ChainExact
PROPERTIES ReportsChanges 
CHECK_DEADLOCK FALSE
