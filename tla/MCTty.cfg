SPECIFICATION FairTtySpec
CONSTANTS
    init = init
    idle = idle
    NULL = NULL
    p1 = p1
    p2 = p2
    Forked = {p1, p2}
    Proc <- MCProc
    init_process = init
    idle_process = idle
    Ticks <- MCTicks
    MAX_PROCESSES = 128
    TERMINAL_MAX_LINE = 2
    Lines = {0, 1, 2}
    ReadLengths = {1, 3}
    Chunks = {0, 2}
INVARIANTS
    TtyTypeOK
    TransmitterWillWake
    QueuedWriterWillWake
    SleepingReaderWillWake
    ReadGetsLine
PROPERTIES
    WriteEnds
