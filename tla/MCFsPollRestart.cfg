CONSTANTS
    MaxStarts = 3
    Stats = {s1, s2}
    Errors = {e1, e2}
SPECIFICATION Spec
INVARIANT NoAbort
CHECK_DEADLOCK FALSE
