CONSTANTS
    Watchers = {w1, w2}
    Fds = {f1, f2}
    None = None
    Events = {"POLLIN", "POLLOUT"}
    MaxOpens = 3
SPECIFICATION Spec
INVARIANTS TypeOK  NoStaleEvent
PROPERTY StoppedIsQuiet
SYMMETRY Symmetry
CHECK_DEADLOCK FALSE
