SPECIFICATION MemorySpec
CONSTANTS
    NULL = NULL
    Proc = {init, idle, p1}
    init_process = init
    idle_process = idle
    NUM_PAGES = 8
    NUM_KSTACK_FRAMES = 2
    NumFrames = 59
    FirstKernelTextPage = 0
    FirstKernelDataPage = 1
    OrigKernelBrkPage = 1
    BOOT_OFFSET = 0
    HEAP_LIMIT = 5
    HEAP_STEP = 3
    MaxGrowths = 2
    Programs <- MCPrograms
    Addresses <- MCAddresses
    StackPointers = {7}
    Stale = {9}
INVARIANTS
    MemoryTypeOK
    KernelHeapMapped
    EntriesDistinct
    ExitStackSafe
    UserHeapMapped
PROPERTIES
    FramesExclusive
    FramesLostOnlyByLoading
