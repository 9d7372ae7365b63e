SPECIFICATION FairSyncSpec
CONSTANTS
    init = init
    idle = idle
    NULL = NULL
    p1 = p1
    p2 = p2
    Forked = {p1, p2}
    Proc <- MCProc
    init_process = init
    idle_process = idle
    Ticks <- MCTicks
    MAX_PROCESSES = 128
    MAX_LOCKS = 2
    MAX_CVARS = 0
    MaxIpc = 2
    MaxCvarQueue = 0
    Reclaimable = {}
INVARIANTS
    HolderOwnsUnlessStale
    WaitersAsleep
    FreeLockHasNoWaiters
PROPERTIES
    NewOwnerReturns
    RunnableRuns
    SleeperWakes
    WokenWaiterReturns
