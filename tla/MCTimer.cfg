CONSTANTS
    Timers = {a, b, c}
    None = None
    Width = 2
    INT_MAX = 2
    Timeouts = {0, 1, 3}
    Repeats = {0, 1}
    MaxStarts = 3
SPECIFICATION Spec
INVARIANTS  ArmedExactly NeverEarly OncePerRun SleepsUntilDue
SYMMETRY Symmetry
CHECK_DEADLOCK FALSE
