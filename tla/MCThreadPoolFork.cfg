SPECIFICATION ForkSpec
CONSTANTS
    Workers = {w1}
    Loops = {l1}
    Reqs = {r1, r2, r3}
    RunSlow = RunSlow
    Exit = Exit
    None = None
    MaxSubmits = 3
    MaxCancels = 0
CHECK_DEADLOCK FALSE
PROPERTIES
    WorksInChild
