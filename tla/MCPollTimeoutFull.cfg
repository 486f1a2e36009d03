CONSTANTS
    MaxTimeout = 6
    MaxLag = 2
    MaxTime = 14
    Count = 3
SPECIFICATION Spec
PROPERTY FullDuration
CHECK_DEADLOCK FALSE
