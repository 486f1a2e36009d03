CONSTANTS
    Nodes = {1, 2, 3, 4, 5, 6, 7, 8}
    NULL = NULL
SPECIFICATION Spec
INVARIANTS TreeIsArray MinIsLeast
CHECK_DEADLOCK FALSE
