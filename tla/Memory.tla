------------------------------- MODULE Memory --------------------------------
(***************************************************************************)
(* The frames of user processes: what Fork, Exec (LoadProgram), Exit, Brk, *)
(* the growth of the user stack and the switch of kernel stacks do to page *)
(* tables and to the list of free frames, with the kernel heap moving in   *)
(* between.  When the CPU is given to which process is Scheduler's affair: *)
(* here any process may be next.                                           *)
(*                                                                         *)
(* An address is a page of region 1 and whether it is the first of that    *)
(* page; the break of a process is always a whole page.                    *)
(***************************************************************************)
EXTENDS KernelHeap

CONSTANTS
    Proc, init_process, idle_process,
    Programs,        \* the layouts that LoadProgram can find in a file
    Addresses,       \* those that Brk and memory faults are about: pairs of a
                     \* page and whether it is the first address of the page
    StackPointers,   \* the pages that the user stack pointer can be in
    HEAP_STEP,       \* bound: pages by which malloc moves the break at a time
    MaxGrowths,      \* bound on the moves of a break and growths of a stack
                     \* after the boot
    Stale            \* bound: the frame numbers that memory which was never
                     \* written, or no longer belongs to a variable, can show

ASSUME MemoryAssumption ==
    /\ init_process \in Proc /\ idle_process \in Proc /\ init_process # idle_process
    /\ NULL \notin Proc
    /\ Programs \subseteq [text_pg1 : Page, data_pg1 : Page, data_npg : Page, stack_npg : Page]
    /\ Addresses \subseteq Page \X BOOLEAN /\ StackPointers \subseteq Page
    /\ HEAP_STEP \in Nat /\ MaxGrowths \in Nat
    /\ NUM_KSTACK_FRAMES > 0
    /\ OrigKernelBrkPage + BOOT_OFFSET <= NUM_PAGES - 2 * NUM_KSTACK_FRAMES
    /\ Stale \subseteq Frame

VARIABLES
    current_process,
    pcb,                  \* "unused", "live" or "gone"
    page_table,           \* pcb->page_table
    kernel_stack_pages,   \* pcb->kernel_stack_pages
    current_brk,          \* pcb->current_brk, as a page
    exiting,              \* how far ExitHandler has come
    machine,
    growths,              \* counts them, for MaxGrowths
    ahead                 \* history: the frames on the list in front of the
                          \* stack of a process that exits

memVars == <<current_process, pcb, page_table, kernel_stack_pages, current_brk,
             exiting, machine, growths, ahead>>
memoryVars == <<heapVars, memVars>>

KStack == 0 .. NUM_KSTACK_FRAMES - 1
NoPages == [i \in Page |-> NULL]
NoStack == [i \in KStack |-> NULL]
(* The pages of region 0 through which Fork and KCCopy fill new frames.    *)
TempPages == NUM_PAGES - 2 * NUM_KSTACK_FRAMES .. NUM_PAGES - NUM_KSTACK_FRAMES - 1

MemoryTypeOK ==
    /\ HeapTypeOK
    /\ current_process \in Proc \cup {NULL}
    /\ pcb \in [Proc -> {"unused", "live", "gone"}]
    /\ page_table \in [Proc -> [Page -> Frame \cup {NULL}]]
    /\ kernel_stack_pages \in [Proc -> [KStack -> Frame \cup {NULL}]]
    /\ current_brk \in [Proc -> 0 .. NUM_PAGES]
    /\ exiting \in {"no", "pages_freed", "stack_freed"}
    /\ machine \in {"up", "halted", "corrupt"}
    /\ growths \in Nat
    /\ ahead \in Int

MemoryInit ==
    /\ HeapInit
    /\ current_process = NULL
    /\ pcb = [p \in Proc |-> "unused"]
    /\ page_table = [p \in Proc |-> NoPages]
    /\ kernel_stack_pages = [p \in Proc |-> NoStack]
    /\ current_brk = [p \in Proc |-> 0]
    /\ exiting = "no"
    /\ machine = "up"
    /\ growths = 0
    /\ ahead = 0

-----------------------------------------------------------------------------
(* LoadProgram                                                             *)

(* Which of the three frames that are popped for page i the program uses.  *)
FrameUsed(prog, i) ==
    CASE prog.text_pg1 < i /\ i < prog.data_pg1 -> 1
      [] ~(prog.text_pg1 < i /\ i < prog.data_pg1)
            /\ i < prog.data_pg1 + prog.data_npg -> 2
      [] i >= prog.data_pg1 + prog.data_npg /\ i >= NUM_PAGES - prog.stack_npg -> 3
      [] OTHER -> 0

(* A page between heap and stack must be left.                             *)
Loadable(prog) == prog.stack_npg + prog.data_pg1 + prog.data_npg < NUM_PAGES

FramesPopped == 3 * NUM_PAGES

NewPages(prog, q) ==
    [i \in Page |-> IF FrameUsed(prog, i) = 0 THEN NULL
                    ELSE q[3 * i + FrameUsed(prog, i)]]

BrkOf(prog) == prog.data_pg1 + prog.data_npg + 1

(* KernelStart after the list is complete: virtual memory is enabled, idle *)
(* gets a page and a kernel stack, init its program.                       *)
KernelStart(prog) ==
    /\ phase = "boot" /\ frame = NumFrames
    /\ Loadable(prog)
    /\ phase' = "up"
    /\ IF Len(free_frame_queue) >= 1 + NUM_KSTACK_FRAMES + FramesPopped
       THEN LET q == Drop(free_frame_queue, 1 + NUM_KSTACK_FRAMES) IN
            /\ page_table' = [page_table EXCEPT
                   ![idle_process] = [NoPages EXCEPT ![NUM_PAGES - 1] = free_frame_queue[1]],
                   ![init_process] = NewPages(prog, q)]
            /\ kernel_stack_pages' = [kernel_stack_pages EXCEPT
                   ![idle_process] = [i \in KStack |-> free_frame_queue[2 + i]]]
            /\ free_frame_queue' = Drop(q, FramesPopped)
            /\ current_brk' = [current_brk EXCEPT ![init_process] = BrkOf(prog)]
            /\ pcb' = [pcb EXCEPT ![idle_process] = "live", ![init_process] = "live"]
            /\ current_process' = init_process
            /\ region_0_pages' = [i \in Page |-> IF i \in TempPages THEN NULL
                                                 ELSE region_0_pages[i]]
            /\ UNCHANGED machine
       ELSE /\ machine' = "halted"
            /\ UNCHANGED <<page_table, kernel_stack_pages, free_frame_queue, current_brk,
                           pcb, current_process, region_0_pages>>
    /\ UNCHANGED <<frame, kernel_brk_offset, overgrown, exiting, growths, ahead>>

(* The kernel is entered from a user process.                              *)
InKernel(p) ==
    machine = "up" /\ phase = "up" /\ current_process = p /\ exiting = "no"

UserCall(p) == p # idle_process /\ InKernel(p)

(* The frames of the old image, as free_page_frame returns them.  For page *)
(* 0 of region 1 check_memory_validity reads beyond the table of region 0, *)
(* so the frame of that page may or may not be returned.                   *)
OldFrames(p) == {FramesUp(page_table[p], Page), FramesUp(page_table[p], Page \ {0})}

ExecLoads(p, prog) ==
    /\ UserCall(p) /\ Loadable(prog)
    /\ Len(free_frame_queue) >= FramesPopped
    /\ \E old \in OldFrames(p) :
          free_frame_queue' = Drop(free_frame_queue, FramesPopped) \o old
    /\ page_table' = [page_table EXCEPT ![p] = NewPages(prog, free_frame_queue)]
    /\ current_brk' = [current_brk EXCEPT ![p] = BrkOf(prog)]
    /\ UNCHANGED <<phase, frame, region_0_pages, kernel_brk_offset, overgrown, current_process,
                   pcb, kernel_stack_pages, exiting, machine, growths, ahead>>

(* LoadProgram gives up in the middle: all frames that were left are lost, *)
(* and the old image is still in place.                                    *)
ExecNoFrames(p, prog) ==
    /\ UserCall(p) /\ Loadable(prog)
    /\ Len(free_frame_queue) < FramesPopped
    /\ free_frame_queue' = <<>>
    /\ UNCHANGED <<phase, frame, region_0_pages, kernel_brk_offset, overgrown, memVars>>

-----------------------------------------------------------------------------
(* Fork                                                                    *)

Valid(t) == {i \in Page : t[i] # NULL}

BadForkFrames(p, q) ==   \* one frame is mapped twice
    [i \in Page |-> IF i \in Valid(page_table[p])
                    THEN q[IF i = 0 THEN 2 ELSE 1 + Cardinality({j \in Valid(page_table[p]) : j < i})]
                    ELSE NULL]

ForkFrames(p, q) ==
    [i \in Page |-> IF i \in Valid(page_table[p])
                    THEN q[1 + Cardinality({j \in Valid(page_table[p]) : j < i})]
                    ELSE NULL]

Unmapped(t, S) == [i \in Page |-> IF i \in S THEN NULL ELSE t[i]]

ForkHandler(p, c) ==
    LET n == Cardinality(Valid(page_table[p])) IN
    /\ UserCall(p)
    /\ pcb[c] = "unused"
    /\ Len(free_frame_queue) >= n + NUM_KSTACK_FRAMES
    /\ pcb' = [pcb EXCEPT ![c] = "live"]
    /\ page_table' = [page_table EXCEPT ![c] = ForkFrames(p, free_frame_queue)]
    /\ kernel_stack_pages' = [kernel_stack_pages EXCEPT
           ![c] = [i \in KStack |-> free_frame_queue[n + 1 + i]]]
    /\ current_brk' = [current_brk EXCEPT ![c] = current_brk[p]]
    /\ free_frame_queue' = Drop(free_frame_queue, n + NUM_KSTACK_FRAMES)
    /\ region_0_pages' = Unmapped(region_0_pages, TempPages)
    /\ UNCHANGED <<phase, frame, kernel_brk_offset, overgrown, current_process, exiting, machine,
                   growths, ahead>>

(* The list runs empty: Fork returns ERROR, and no frame that it took is   *)
(* ever returned.                                                          *)
ForkNoFrames(p) ==
    /\ UserCall(p)
    /\ Len(free_frame_queue) < Cardinality(Valid(page_table[p])) + NUM_KSTACK_FRAMES
    /\ free_frame_queue' = <<>>
    /\ region_0_pages' = IF free_frame_queue = <<>> THEN region_0_pages
                         ELSE Unmapped(region_0_pages, {NUM_PAGES - 2 * NUM_KSTACK_FRAMES})
    /\ UNCHANGED <<phase, frame, kernel_brk_offset, overgrown, memVars>>

-----------------------------------------------------------------------------
(* Exit, in three steps: malloc may move the kernel break between them,    *)
(* and the kernel runs on the stack of the process until the last one.     *)

(* Process p leaves with page table t when q is the list of free frames.   *)
Leave(p, t, q) ==
    /\ page_table' = [page_table EXCEPT ![p] = IF p = init_process THEN t ELSE NoPages]
    /\ free_frame_queue' = IF p = init_process THEN q ELSE q \o FramesUp(t, Page)
    /\ machine' = IF p = init_process THEN "halted" ELSE machine
    /\ exiting' = IF p = init_process THEN exiting ELSE "pages_freed"
    /\ UNCHANGED <<phase, frame, region_0_pages, kernel_brk_offset, overgrown, current_process,
                   pcb, kernel_stack_pages, growths, ahead>>

(* Exit, and the traps that abort a process.                               *)
ExitHandler(p) ==
    /\ UserCall(p)
    /\ Leave(p, page_table[p], free_frame_queue)
    /\ UNCHANGED current_brk

BadExitStackFront(p) ==   \* returns the stack where it is taken first
    /\ machine = "up" /\ exiting = "pages_freed" /\ current_process = p
    /\ free_frame_queue' = FramesUp(kernel_stack_pages[p], KStack) \o free_frame_queue
    /\ kernel_stack_pages' = [kernel_stack_pages EXCEPT ![p] = NoStack]
    /\ pcb' = [pcb EXCEPT ![p] = "gone"]
    /\ current_process' = NULL
    /\ exiting' = "stack_freed"
    /\ ahead' = Len(free_frame_queue)
    /\ UNCHANGED <<phase, frame, region_0_pages, kernel_brk_offset, overgrown, page_table,
                   current_brk, machine, growths>>

ExitStack(p) ==
    /\ machine = "up" /\ exiting = "pages_freed" /\ current_process = p
    /\ free_frame_queue' = free_frame_queue \o FramesUp(kernel_stack_pages[p], KStack)
    /\ kernel_stack_pages' = [kernel_stack_pages EXCEPT ![p] = NoStack]
    /\ pcb' = [pcb EXCEPT ![p] = "gone"]
    /\ current_process' = NULL
    /\ exiting' = "stack_freed"
    /\ ahead' = Len(free_frame_queue)
    /\ UNCHANGED <<phase, frame, region_0_pages, kernel_brk_offset, overgrown, page_table,
                   current_brk, machine, growths>>

(* The image is replaced, but the file cannot be read: Exec ends the       *)
(* process (KILL).                                                         *)
ExecKilled(p, prog) ==
    /\ UserCall(p) /\ Loadable(prog)
    /\ Len(free_frame_queue) >= FramesPopped
    /\ \E old \in OldFrames(p) :
          Leave(p, NewPages(prog, free_frame_queue),
                Drop(free_frame_queue, FramesPopped) \o old)
    /\ current_brk' = [current_brk EXCEPT ![p] = BrkOf(prog)]

-----------------------------------------------------------------------------
(* KCSwitch                                                                *)

StackEntries == [i \in KStack |-> region_0_pages[NUM_PAGES - NUM_KSTACK_FRAMES + i]]

LoadStack(q) ==
    region_0_pages' = [i \in Page |->
        IF i \in StackPages THEN kernel_stack_pages[q][i - NUM_PAGES + NUM_KSTACK_FRAMES]
        ELSE region_0_pages[i]]

BadKCSwitch(p, q) ==   \* does not save the stack of the old process
    /\ InKernel(p) /\ q # p /\ pcb[q] = "live"
    /\ LoadStack(q)
    /\ current_process' = q
    /\ UNCHANGED <<phase, frame, kernel_brk_offset, overgrown, free_frame_queue, pcb, page_table,
                   kernel_stack_pages, current_brk, exiting, machine, growths, ahead>>

KCSwitch(p, q) ==
    /\ InKernel(p) /\ q # p /\ pcb[q] = "live"
    /\ kernel_stack_pages' = [kernel_stack_pages EXCEPT ![p] = StackEntries]
    /\ LoadStack(q)
    /\ current_process' = q
    /\ UNCHANGED <<phase, frame, kernel_brk_offset, overgrown, free_frame_queue, pcb, page_table,
                   current_brk, exiting, machine, growths, ahead>>

(* After an exit there is no process to save the stack for.                *)
ExitSwitch(q) ==
    /\ machine = "up" /\ exiting = "stack_freed" /\ pcb[q] = "live"
    /\ LoadStack(q)
    /\ current_process' = q
    /\ exiting' = "no"
    /\ ahead' = 0
    /\ UNCHANGED <<phase, frame, kernel_brk_offset, overgrown, free_frame_queue, pcb, page_table,
                   kernel_stack_pages, current_brk, machine, growths>>

-----------------------------------------------------------------------------
(* Brk and the growth of the user stack.  a is the page of the address,    *)
(* exact whether it is the first of its page, sp the page of the user's    *)
(* stack pointer.                                                          *)

RoundedUp(a, exact) == IF exact THEN a ELSE a + 1

Above(a, exact, b) == a > b \/ (a = b /\ ~exact)

(* Process p goes on with page table t.                                    *)
Populate(p, t) ==
    /\ growths < MaxGrowths
    /\ growths' = growths + 1
    /\ page_table' = [page_table EXCEPT ![p] = t]
    /\ UNCHANGED <<phase, frame, region_0_pages, kernel_brk_offset, overgrown, current_process,
                   pcb, kernel_stack_pages, exiting, machine, ahead>>

BadBrkPages(p, a) == current_brk[p] .. a   \* the break is the first page to map

(* LoadProgram sets the break one page too high, so the loop starts below. *)
BrkPagesUpTo(p, a) == current_brk[p] - 1 .. a

(* If the frames do not suffice Brk returns ERROR with those pages mapped  *)
(* that got one, and leaves the break where it is.                         *)
BrkGrow(p, a, exact, sp) ==
    /\ UserCall(p)
    /\ sp > a
    /\ Above(a, exact, current_brk[p])
    /\ Populate(p, FillUp(page_table[p], BrkPagesUpTo(p, a), free_frame_queue))
    /\ free_frame_queue' = LeftOver(page_table[p], BrkPagesUpTo(p, a), free_frame_queue)
    /\ current_brk' = IF Enough(page_table[p], BrkPagesUpTo(p, a), free_frame_queue)
                      THEN [current_brk EXCEPT ![p] = RoundedUp(a, exact)]
                      ELSE current_brk

(* Brk downwards.  The condition of its loop is an assignment, so a page   *)
(* of the process that was not valid becomes valid with whatever frame     *)
(* number its entry holds; the page of the same number of region 0 is      *)
(* cleared; and the address of one local variable is queued, once for each *)
(* page, where it shows whatever is there later.  The next frame that is   *)
(* taken passes that address to free, which is undefined: the model stops. *)
BrkShrink(p, a, exact, sp) ==
    LET S == a .. current_brk[p] - 1 IN
    /\ UserCall(p)
    /\ sp > a
    /\ a < current_brk[p]
    /\ \E stale \in [S -> Stale] :
          page_table' = [page_table EXCEPT ![p] =
              [i \in Page |-> IF i \in S /\ page_table[p][i] = NULL THEN stale[i]
                              ELSE page_table[p][i]]]
    /\ region_0_pages' = Unmapped(region_0_pages, S)
    /\ \E f \in Stale :
          free_frame_queue' = free_frame_queue \o [k \in 1 .. Cardinality(S) |-> f]
    /\ current_brk' = [current_brk EXCEPT ![p] = RoundedUp(a, exact)]
    /\ machine' = "corrupt"
    /\ UNCHANGED <<phase, frame, kernel_brk_offset, overgrown, current_process, pcb,
                   kernel_stack_pages, exiting, growths, ahead>>

InStackArea(p, a, exact, sp) == sp > a /\ Above(a, exact, current_brk[p] + 1)

GrowStack(p, a, exact, sp) ==
    /\ UserCall(p)
    /\ InStackArea(p, a, exact, sp)
    /\ Enough(page_table[p], a .. NUM_PAGES - 1, free_frame_queue)
    /\ Populate(p, FillDown(page_table[p], a .. NUM_PAGES - 1, free_frame_queue))
    /\ free_frame_queue' = LeftOver(page_table[p], a .. NUM_PAGES - 1, free_frame_queue)
    /\ UNCHANGED current_brk

(* The process is aborted, with the pages that got a frame before the list *)
(* ran empty.                                                              *)
GrowStackFails(p, a, exact, sp) ==
    /\ UserCall(p)
    /\ InStackArea(p, a, exact, sp)
    /\ ~Enough(page_table[p], a .. NUM_PAGES - 1, free_frame_queue)
    /\ Leave(p, FillDown(page_table[p], a .. NUM_PAGES - 1, free_frame_queue), <<>>)
    /\ UNCHANGED current_brk

AbortAccess(p, a, exact, sp) ==
    ~InStackArea(p, a, exact, sp) /\ ExitHandler(p)

TrapMemoryHandler(p, a, exact, sp) ==
    \/ GrowStack(p, a, exact, sp)
    \/ GrowStackFails(p, a, exact, sp)
    \/ AbortAccess(p, a, exact, sp)

(* The frames that a step takes off the list.                              *)
Taken == IF Len(free_frame_queue') < Len(free_frame_queue)
         THEN Len(free_frame_queue) - Len(free_frame_queue') ELSE 0

(* malloc, called by the kernel, moves its break.                          *)
HeapMove(n) ==
    /\ machine = "up" /\ phase = "up"
    /\ growths < MaxGrowths
    /\ n \in KernelBrkPage - HEAP_STEP .. KernelBrkPage + HEAP_STEP
    /\ SetKernelBrk(n)
    /\ growths' = growths + 1
    /\ ahead' = IF exiting = "stack_freed" THEN ahead - Taken ELSE ahead
    /\ UNCHANGED <<current_process, pcb, page_table, kernel_stack_pages, current_brk,
                   exiting, machine>>

Stopped == machine # "up" /\ UNCHANGED memoryVars

Booting == BootNext /\ UNCHANGED memVars

MemoryNext ==
    \/ Booting
    \/ \E prog \in Programs : KernelStart(prog)
    \/ \E p \in Proc, prog \in Programs :
          ExecLoads(p, prog) \/ ExecNoFrames(p, prog) \/ ExecKilled(p, prog)
    \/ \E p, q \in Proc : ForkHandler(p, q) \/ KCSwitch(p, q)
    \/ \E p \in Proc : ForkNoFrames(p) \/ ExitHandler(p) \/ ExitStack(p) \/ ExitSwitch(p)
    \/ \E p \in Proc, addr \in Addresses, sp \in StackPointers :
          \/ BrkGrow(p, addr[1], addr[2], sp) \/ BrkShrink(p, addr[1], addr[2], sp)
          \/ TrapMemoryHandler(p, addr[1], addr[2], sp)
    \/ \E n \in Page : HeapMove(n)
    \/ Stopped

MemorySpec == MemoryInit /\ [][MemoryNext]_memoryVars

-----------------------------------------------------------------------------
(* Who uses a frame: every entry of a page table and of the list counts.   *)
(* The entries for the kernel stack belong to the running process, or to   *)
(* nobody after an exit; while the kernel boots, a frame that region 0     *)
(* does not use is free, listed or not.                                    *)
Running ==
    CASE exiting = "stack_freed" -> NULL
      [] exiting # "stack_freed" /\ current_process = NULL -> init_process
      [] OTHER -> current_process

StackOf(p) == IF p = Running THEN StackEntries ELSE kernel_stack_pages[p]

Users == {<<"free", NULL>>, <<"kernel", NULL>>} \cup ({"pages", "stack"} \X Proc)

Entries(u) ==
    CASE u[1] = "free" -> free_frame_queue
      [] u[1] = "kernel" -> [i \in Page \ StackPages |-> region_0_pages[i]]
      [] u[1] = "pages" -> page_table[u[2]]
      [] u[1] = "stack" -> StackOf(u[2])

FramesOf(u) == {Entries(u)[i] : i \in DOMAIN Entries(u)} \ {NULL}

Held == [u \in Users |->
    FramesOf(u) \cup IF u[1] = "free" /\ phase = "boot"
                     THEN Frame \ {region_0_pages[i] : i \in Page} ELSE {}]

(* The heap never grew too far, and no Brk moved downwards: after either,  *)
(* nothing more is promised about frames.                                  *)
Intact == machine # "corrupt" /\ ~overgrown

F == INSTANCE Frames WITH
        held <- Held, intact <- Intact, User <- Users, free <- <<"free", NULL>>

(* As long as memory is intact no frame is in two places, and frames       *)
(* change hands only through the list, whatever Fork, Exec, Exit, Brk      *)
(* upwards, memory faults and malloc do.                                   *)
FramesExclusive == F!Spec

LostFrames == Frame \ UNION {FramesOf(u) : u \in Users}

(* After the boot a frame is lost only by loading a program, when the list *)
(* runs empty (a Fork or Exec that fails), or when memory is not intact.   *)
FramesLostOnlyByLoading ==
    [][ \/ phase = "boot" \/ free_frame_queue' = <<>> \/ ~Intact'
        \/ \E p \in Proc, prog \in Programs : ExecLoads(p, prog) \/ ExecKilled(p, prog)
        \/ LostFrames' \subseteq LostFrames ]_memoryVars

(* No frame is twice in one page table or twice on the list.               *)
EntriesDistinct ==
    Intact => \A u \in Users :
        Cardinality({i \in DOMAIN Entries(u) : Entries(u)[i] # NULL}) = Cardinality(FramesOf(u))

(* The stack of an exiting process is on the list while the kernel still   *)
(* runs on it.  As long as malloc takes no more frames than there were in  *)
(* front of it, no page gets one of its frames before the switch.          *)
ExitStackSafe ==
    Intact /\ exiting = "stack_freed" /\ ahead >= 0 =>
        \A i \in StackPages : InQueue(region_0_pages[i])

(* The pages of a process below its break are valid, except the last one,  *)
(* which LoadProgram does not map: also after a Brk that failed half way,  *)
(* and in a child.                                                         *)
UserHeapMapped ==
    \A p \in Proc \ {idle_process} :
        pcb[p] = "live" /\ ~(current_process = p /\ exiting # "no") =>
            \A i \in 0 .. current_brk[p] - 2 : page_table[p][i] # NULL

(* As long as memory is intact every page of the kernel below its break is *)
(* valid, whatever malloc gave back or could not get in between.           *)
KernelHeapMapped == Intact => HeapMapped
=============================================================================
