----------------------------- MODULE KernelHeap ------------------------------
(***************************************************************************)
(* Physical memory while the kernel boots (kernel.c): the page table of    *)
(* region 0, the list of free frames that KernelStart builds, and the      *)
(* break of the kernel heap, which malloc moves at any time - also while   *)
(* the list is being built, since every entry of it is allocated.          *)
(***************************************************************************)
EXTENDS Integers, Sequences, FiniteSets

CONSTANTS
    NUM_PAGES, NUM_KSTACK_FRAMES,
    NumFrames,                     \* pmem_size / PAGESIZE
    FirstKernelTextPage, FirstKernelDataPage, OrigKernelBrkPage,
    BOOT_OFFSET,      \* pages of the heap in use when KernelStart is called
    HEAP_LIMIT,       \* bound: the last page that malloc asks the break to be in
    NULL              \* an entry of a page table that is not valid

Page == 0 .. NUM_PAGES - 1
Frame == 0 .. NumFrames - 1
StackPages == NUM_PAGES - NUM_KSTACK_FRAMES .. NUM_PAGES - 1

ASSUME KernelHeapAssumption ==
    /\ NUM_PAGES \in Nat /\ NumFrames \in Nat /\ NUM_PAGES <= NumFrames
    /\ NUM_KSTACK_FRAMES \in Nat
    /\ FirstKernelTextPage \in Nat /\ FirstKernelDataPage \in Nat
    /\ OrigKernelBrkPage \in Nat
    /\ FirstKernelTextPage <= FirstKernelDataPage
    /\ FirstKernelDataPage <= OrigKernelBrkPage /\ OrigKernelBrkPage > 0
    /\ BOOT_OFFSET \in Nat /\ HEAP_LIMIT \in Nat
    /\ OrigKernelBrkPage + BOOT_OFFSET <= HEAP_LIMIT
    /\ HEAP_LIMIT < NUM_PAGES
    /\ NULL \notin Frame

VARIABLES
    phase,               \* "boot" until virtual memory is enabled
    frame,               \* the loop index of init_free_frame_queue
    region_0_pages,      \* the frame of each valid page
    kernel_brk_offset,
    free_frame_queue,
    overgrown            \* history: the heap was asked to grow too far

heapVars == <<phase, frame, region_0_pages, kernel_brk_offset, overgrown, free_frame_queue>>

KernelBrkPage == OrigKernelBrkPage + kernel_brk_offset

-----------------------------------------------------------------------------
(* init_page_tables: a valid page is in the frame with its own number.     *)
init_page_tables ==
    [i \in Page |-> IF \/ i \in FirstKernelTextPage .. OrigKernelBrkPage + BOOT_OFFSET - 1
                       \/ i \in StackPages
                    THEN i ELSE NULL]

(* KernelStart, after init_page_tables and queue_new.                      *)
HeapInit ==
    /\ phase = "boot"
    /\ frame = 0
    /\ region_0_pages = init_page_tables
    /\ kernel_brk_offset = BOOT_OFFSET
    /\ free_frame_queue = <<>>
    /\ overgrown = FALSE

UnusedFrame(f) ==
    f >= FirstKernelDataPage /\ f > KernelBrkPage + 1 /\ f \notin StackPages

(* One iteration of init_free_frame_queue.                                 *)
init_free_frame_queue ==
    /\ phase = "boot"
    /\ frame < NumFrames
    /\ frame' = frame + 1
    /\ free_frame_queue' = IF UnusedFrame(frame) THEN Append(free_frame_queue, frame)
                           ELSE free_frame_queue
    /\ UNCHANGED <<phase, region_0_pages, kernel_brk_offset, overgrown>>

-----------------------------------------------------------------------------
(* The invalid pages of table t among S.                                   *)
Missing(t, S) == {i \in S : t[i] = NULL}

Drop(q, n) == SubSeq(q, n + 1, Len(q))

(* The pages of S that are not valid in t get the frames of q, from the    *)
(* lowest page up or from the highest down, as long as there are any.      *)
FillUp(t, S, q) ==
    [i \in DOMAIN t |->
        LET n == 1 + Cardinality({j \in Missing(t, S) : j < i}) IN
        IF i \in Missing(t, S) /\ n <= Len(q) THEN q[n] ELSE t[i]]

FillDown(t, S, q) ==
    [i \in DOMAIN t |->
        LET n == 1 + Cardinality({j \in Missing(t, S) : j > i}) IN
        IF i \in Missing(t, S) /\ n <= Len(q) THEN q[n] ELSE t[i]]

(* What is left of q after the pages of S got their frames.                *)
LeftOver(t, S, q) ==
    LET n == Cardinality(Missing(t, S)) IN IF n <= Len(q) THEN Drop(q, n) ELSE <<>>

Enough(t, S, q) == Cardinality(Missing(t, S)) <= Len(q)

BadHeapPages(n) == KernelBrkPage + 1 .. n - 1   \* starts above the old break

(* The pages that expand_heap_pages looks at.                              *)
HeapPages(n) == KernelBrkPage - 1 .. n - 1

(* expand_heap_pages.  Before virtual memory a page gets the frame with    *)
(* its own number, later one from the list; if there are too few, those    *)
(* pages that got one keep it.  The function has no return statement at    *)
(* its end, so a success may be taken for an ERROR.                        *)
expand_heap_pages(n) ==
    IF phase = "boot"
    THEN /\ region_0_pages' = [i \in Page |-> IF i \in Missing(region_0_pages, HeapPages(n))
                                              THEN i ELSE region_0_pages[i]]
         /\ kernel_brk_offset' \in {n - OrigKernelBrkPage, kernel_brk_offset}
         /\ UNCHANGED free_frame_queue
    ELSE /\ region_0_pages' = FillUp(region_0_pages, HeapPages(n), free_frame_queue)
         /\ free_frame_queue' = LeftOver(region_0_pages, HeapPages(n), free_frame_queue)
         /\ kernel_brk_offset' \in
               IF Enough(region_0_pages, HeapPages(n), free_frame_queue)
               THEN {n - OrigKernelBrkPage, kernel_brk_offset}
               ELSE {kernel_brk_offset}

(* The frames of the valid pages of S, from the last page to the first.    *)
FramesDown(t, S) ==
    LET V == {i \in S : t[i] # NULL}
        nth(k) == CHOOSE i \in V : Cardinality({j \in V : j > i}) = k - 1
    IN [k \in 1 .. Cardinality(V) |-> t[nth(k)]]

BadFramesUp(t, S) ==   \* does not look whether the page is valid
    LET nth(k) == CHOOSE i \in S : Cardinality({j \in S : j < i}) = k - 1
    IN [k \in 1 .. Cardinality(S) |-> t[nth(k)]]

FramesUp(t, S) ==
    LET V == {i \in S : t[i] # NULL}
        nth(k) == CHOOSE i \in V : Cardinality({j \in V : j < i}) = k - 1
    IN [k \in 1 .. Cardinality(V) |-> t[nth(k)]]

BadShrink(n) ==   \* leaves the pages valid
    /\ free_frame_queue' = IF phase = "boot" THEN free_frame_queue
                           ELSE free_frame_queue
                                \o FramesDown(region_0_pages, n + 1 .. KernelBrkPage)
    /\ kernel_brk_offset' = n - OrigKernelBrkPage
    /\ UNCHANGED region_0_pages

shrink_heap_pages(n) ==
    /\ region_0_pages' = [i \in Page |-> IF i \in n + 1 .. KernelBrkPage THEN NULL
                                         ELSE region_0_pages[i]]
    /\ free_frame_queue' = IF phase = "boot" THEN free_frame_queue
                           ELSE free_frame_queue
                                \o FramesDown(region_0_pages, n + 1 .. KernelBrkPage)
    /\ kernel_brk_offset' = n - OrigKernelBrkPage

(* With its break at page n the heap has a page through which Fork and     *)
(* KCCopy fill new frames, or one of the stack above; or, while the list   *)
(* is built, a page whose frame may be on it.                              *)
Overgrows(n) ==
    \/ n > NUM_PAGES - 2 * NUM_KSTACK_FRAMES
    \/ phase = "boot" /\ n > OrigKernelBrkPage + BOOT_OFFSET + 2

(* malloc moves the break to page n.  The code compares n, a page, with    *)
(* the address of the kernel stack, so it never refuses a break that is    *)
(* too high: the heap may reach any page.                                  *)
SetKernelBrk(n) ==
    /\ n >= OrigKernelBrkPage /\ n <= HEAP_LIMIT
    /\ IF n < KernelBrkPage THEN shrink_heap_pages(n) ELSE expand_heap_pages(n)
    /\ overgrown' = (overgrown \/ Overgrows(n))
    /\ UNCHANGED <<phase, frame>>

(* The heap grows while KernelStart builds the list, whose entries it has  *)
(* to hold: by how much depends on the size of the memory.                 *)
BootBrk(n) ==
    /\ phase = "boot"
    /\ n >= KernelBrkPage
    /\ SetKernelBrk(n)

BootNext == init_free_frame_queue \/ (\E n \in Page : BootBrk(n))

BootSpec == HeapInit /\ [][BootNext]_heapVars

-----------------------------------------------------------------------------
HeapTypeOK ==
    /\ phase \in {"boot", "up"}
    /\ frame \in 0 .. NumFrames
    /\ region_0_pages \in [Page -> Frame \cup {NULL}]
    /\ kernel_brk_offset \in 0 .. HEAP_LIMIT - OrigKernelBrkPage
    /\ free_frame_queue \in Seq(Frame)
    /\ overgrown \in BOOLEAN

InQueue(f) == \E i \in DOMAIN free_frame_queue : free_frame_queue[i] = f

(* No frame of the kernel's text, data and heap is on the list of free     *)
(* frames, although the heap may have grown after init_free_frame_queue    *)
(* had passed a frame: what its test of the break is for.                  *)
KernelFramesNotFree ==
    \A i \in Page \ StackPages :
        region_0_pages[i] # NULL => ~InQueue(region_0_pages[i])

(* Every page of the kernel below the break is valid, whatever malloc gave *)
(* back or could not get in between.                                       *)
HeapMapped ==
    \A i \in FirstKernelTextPage .. KernelBrkPage - 1 : region_0_pages[i] # NULL

=============================================================================
