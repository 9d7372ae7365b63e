SPECIFICATION BootSpec
CONSTANTS
    NULL = NULL
    NUM_PAGES = 12
    NUM_KSTACK_FRAMES = 2
    NumFrames = 16
    FirstKernelTextPage = 0
    FirstKernelDataPage = 1
    OrigKernelBrkPage = 2
    BOOT_OFFSET = 1
    HEAP_LIMIT = 11
INVARIANT
    KernelFramesNotFree
