SPECIFICATION FairPipeSpec
CONSTANTS
    init = init
    idle = idle
    NULL = NULL
    p1 = p1
    p2 = p2
    Forked = {p1, p2}
    Proc <- MCProc
    init_process = init
    idle_process = idle
    Ticks <- MCTicks
    MAX_PROCESSES = 128
    PIPE_BUFFER_LEN = 2
    Lengths = {1, 2, 3}
    MaxReady = 2
INVARIANTS
    PipeBounded
    SleepingWriterHasNoRoom
    Accounted
PROPERTIES
    FittingWriteEnds
