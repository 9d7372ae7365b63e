SPECIFICATION ProcessSpec
CONSTANTS
    init = init
    idle = idle
    NULL = NULL
    p1 = p1
    p2 = p2
    p3 = p3
    Forked = {p1, p2, p3}
    Proc <- MCProc
    init_process = init
    idle_process = idle
    Ticks <- MCTicks
    MAX_PROCESSES = 128
SYMMETRY Symmetry
INVARIANTS
    ExitedChildrenKept
