SPECIFICATION SyncSpec
CONSTANTS
    init = init
    idle = idle
    NULL = NULL
    p1 = p1
    Forked = {p1}
    Proc <- MCProc
    init_process = init
    idle_process = idle
    Ticks <- MCTicks
    MAX_PROCESSES = 128
    MAX_LOCKS = 1
    MAX_CVARS = 1
    MaxIpc = 2
    MaxCvarQueue = 2
    Reclaimable = {0, 1}
SYMMETRY Symmetry
INVARIANTS
    Accounted
    AcquirerTracked
