SPECIFICATION ProcessSpec
CONSTANTS
    init = init
    idle = idle
    NULL = NULL
    p1 = p1
    p2 = p2
    p3 = p3
    p4 = p4
    Forked = {p1, p2, p3, p4}
    Proc <- MCProc
    init_process = init
    idle_process = idle
    Ticks <- MCTicks
    MAX_PROCESSES = 5
SYMMETRY Symmetry
INVARIANTS
    ProcessTypeOK
    LiveBound
    Accounted
    IdleOnce
    ParentAlive
    WaiterHasChild
    ZombiesAllocated
    OnePlaceUnlessStale
    DelayUnlessStale
    NoBadSwitchUnlessStale
