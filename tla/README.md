# Yalnix in TLA+

Yalnix is a teaching operating system: a uniprocessor kernel in C on simulated
hardware, with processes, round-robin scheduling, locks, condition variables,
pipes and terminals.  This directory holds a TLA+ model of its kernel, the TLC
configurations that check it on small instances, and TLAPS proofs, for every
instance, of all the safety properties that the passing runs check.  Paths
below are relative to the root of the repository; "holds" means "of the
model".

## 1. Inventory

| component | code | state it keeps | operations | what makes it correct |
|---|---|---|---|---|
| Scheduler | `src/kernel.c` | `current_process`, `process_ready_queue`, `blocked_pcbs`, `delayed_pcbs`, `dead_pcbs`, `pcb->state` | `ScheduleNextProcess`, `enqueue_current_process`, `KCSwitch` | no process is lost or in two places, everyone queued runs, idle only when nothing else can |
| Clock and Delay | `src/traps.c`, `process_coordination.c` | `pcb->delay_ticks` | `TrapClockHandler`, `DelayHandler` | sleeps long enough, wakes eventually |
| Processes | `process_coordination.c`, `pcb.c` | `parent`, `children`, `zombies`, `waiting`, `child_exit_status`, lifetime of PCBs | `ForkHandler`, `ExitHandler`, `WaitHandler`, `ExecHandler`, aborting traps | no dangling pointer, every exit reported, a waiter can be woken, limit respected |
| Locks, condition variables | `synchronization.c`, `ipc_wrapper.c` | `owner`, `blocked` of each, `next_ipc_id` | `LockInit`, `Acquire`, `Release`, `CvarInit`, `CvarWait`, `CvarSignal`, `CvarBroadcast`, `Reclaim` | exclusion, hand-over reaches the new owner, nobody forgotten |
| Pipes | `ipc.c`, `ipc_wrapper.c` | `num_bytes_available`, `readers`, `writers` | `PipeInit`, `PipeRead`, `PipeWrite`, `Reclaim` | no overflow, no lost wake-up |
| Terminals | `input_output.c`, `tty_state.c`, `traps.c` | availability, writers and readers of each terminal, line buffers | `TtyRead`, `TtyWrite`, receive and transmit traps | one writer at a time, no lost wake-up, user context kept |
| Memory | `kernel.c`, `process_coordination.c`, `traps.c` | page tables, `free_frame_queue`, breaks | boot, `SetKernelBrk`, `BrkHandler`, stack growth, `LoadProgram`, frames in Fork and Exit | every frame has one owner, none is lost |
| Queue, Set | `queue.c`, `set.c` | linked lists | push, pop, insert, find, pop, iterate, delete | implement a sequence and a finite map |

How they interact.  Everything but the queue and set is global state of the
kernel.  A trap handler runs with traps off until it returns to user mode or
calls `ScheduleNextProcess`, which switches to another process's kernel stack;
that other process continues after *its* last call of `ScheduleNextProcess`.
So all components interleave exactly at those calls, and they communicate by
moving PCB pointers between the ready queue, three global sets, and queues of
their own.

What is hard.  A handler that was blocked assumes something about why it was
woken; several handlers can wake a process, and each of them looks at a
different set.  The families of processes exit in any order while pointers to
their PCBs are in other structures.  PROJECT.json lists the hazards line by
line, and the properties that cover them.

## 2. Modules

| module | models | lines up with |
|---|---|---|
| `Scheduler` | the shared scheduling state, `ScheduleNextProcess`, the clock trap, Delay | `kernel.c`, `traps.c` |
| `Process` (extends `Scheduler`) | Fork, Exit, Wait, Exec's outcome, the aborting traps | `process_coordination.c`, `pcb.c` |
| `Sync` (extends `Process`) | locks, condition variables, their Reclaim, composed with the processes | `synchronization.c`, `ipc_wrapper.c` |
| `Pipe` (extends `Process`) | a pipe and its Reclaim, composed with the processes | `ipc.c`, `ipc_wrapper.c` |
| `Tty` (extends `Process`) | a terminal, its two traps and the saved user context, composed with the processes | `input_output.c`, `tty_state.c`, `traps.c` |
| `KernelHeap` | the table of region 0, the building of the list of free frames, the kernel break | `kernel.c` |
| `Memory` (extends `KernelHeap`) | the frames of processes in boot, Fork, Exec, Exit, Brk, stack growth and the switch of kernel stacks | `kernel.c`, `process_coordination.c`, `pcb.c`, `traps.c` |
| `Frames` | abstract: every frame has at most one user and changes hands through the list only; implemented by `Memory` | |
| `LinkedLists` | the linked lists of queue and set, and the walk of the clock trap through a set it changes | `queue.c`, `set.c`, `traps.c` |
| `Lists` | abstract: a sequence, a set and a walk that visits everyone once; implemented by `LinkedLists` | |
| `ProcessProofs`, `CallProofs` (shared by the next three), `SyncProofs`, `PipeProofs`, `TtyProofs`, `KernelHeapProofs`, `MemoryProofs` (extends it), `LinkedListsProofs` | lemmas and theorems | |
| `MCProcess`, `MCSync`, `MCPipe`, `MCTty`, `MCKernelHeap`, `MCMemory`, `MCLists` | instances for TLC | |

Variables have the names of the C globals and fields they stand for.  A C
pointer to a PCB is the process itself.

*Steps.*  One action is one stretch of kernel code that cannot be interrupted:
a handler from its entry, or from the return of `ScheduleNextProcess`, to its
end or the next `ScheduleNextProcess`.  `kpc[p]` says where process `p` will
resume.  `ScheduleNextProcess` is an operator that takes the values the
handler has already given to the queue, the sets, the states and the PCBs, and
constrains their primed versions, so the handler and its scheduling are one
step.  `...Return` and `...Resume` actions are the code after the call.

*PCBs.*  `pcb[p]` is `unused`, `live`, `exited` (after `pcbExit`, no kernel
context, still allocated) or `freed`.  A PCB is never reused, so that a stale
pointer can be recognised.  What the C language leaves undefined is a choice:
after a double free or a use after free `machine` may be `corrupt`, or stay
`up` as if nothing had happened.  `bad_switch` records that `KCSwitch` refused
a PCB without a kernel context, `crashed` a write through a null pointer,
`halted` a call of `Halt`, `tty_busy` a `TtyTransmit` for a terminal that was
still sending.  The machine does nothing in any of these states.

*Sets.*  `set_t` is a set.  Where the order of iteration is visible (the
processes that a clock trap or a read makes ready) every order is allowed,
which includes that of the linked list.  The list of zombies is a sequence,
because Wait reports the one at its head.

*Terminal traps.*  They arrive whenever the CPU is in user mode, whoever runs;
the hardware sends one chunk at a time (`transmitting`).  Of the user context
only one thing matters: whether the copy in the PCB is the live one
(`usr_ctx_current`).  Any step of a program makes it stale, the clock trap and
the system calls save it, and the terminal and disk traps put it back.

*Frames.*  A page table is a function from pages to frames or `NULL`.  The
kernel runs on the stack of the process it serves, so the stack entries of
region 0, and not the copy in its PCB, are the stack of the running process;
`Held` says so.  Exit is three steps, because the allocations of `pcbExit` may
move the kernel break between them.  `Memory` lets the CPU go to any live
process: which one is next is a matter of `Scheduler`.  `free_page_frame`
reads one entry behind the table of region 0 for page 0 of region 1, and
`expand_heap_pages` returns no value at its end: both are choices.  So is what
a Brk downwards leaves behind: it makes pages of the process valid with
whatever frame number their entries hold, clears the pages of the same numbers
of region 0, and queues the address of one local variable once for each page,
which later shows whatever is on the stack there (`Stale`).  The next frame
taken passes that address to `free`, so the model stops in `corrupt`.

*Nodes.*  `LinkedLists` has one heap of nodes for both lists.  A freed node
keeps its fields until it is handed out again, so a pointer that is followed
after `free` is seen.

*Refinement.*  `F == INSTANCE Frames WITH held <- Held, intact <- Intact` maps
the page tables, stacks and list to who has which frame, and whether memory is
intact, beyond which `Frames` promises nothing.  `L == INSTANCE Lists` maps chains
of nodes to their items; the abstract specifications are properties of the
runs `MCMemory` and `MCLists`.  `Scheduler`, `Process`, `Sync`, `Pipe` and `Tty`
use what `Lists` promises.

*History variables.*  Seven variables are not in the code, and no guard reads
them.  `delivered[p]` says that a line was copied for the TtyRead `p` is in;
`owed[p]` counts the clock traps a delayed process must still see;
`uncollected[p]` the exited children that Wait never reported; `holds[p]` the
locks that a return value told `p` it has; `staleWake` is set by an exit that
makes a parent ready which is not blocked in Wait; `overgrown` by a move of the
kernel break that takes the heap into the temporary pages or the stack, or more
than two pages above the first break while the list of free frames is built;
`ahead` counts the frames that are on the list in front of the stack of a
process that exits, and is negative once malloc has taken more than those.
Memory is `Intact` while it is neither `overgrown` nor `corrupt`.

*Bad... operators.*  Definitions whose names begin with `Bad` belong to no
specification.  Each is the definition below it with a plausible mistake;
substituting it must violate the property PROJECT.json pairs it with.  This is
how we know that each property can fail.

## 3. What TLC checks

Passing runs:

| run | instance | shows |
|---|---|---|
| `MCProcess` | init, idle, 4 PCBs to fork, `MAX_PROCESSES` 5; Delay of -1, 0, 1, 2 | `LiveBound`, `Accounted`, `IdleOnce`, `ParentAlive`, `WaiterHasChild`, `ZombiesAllocated`, and, as long as no exit met a stale flag, `OnePlace`, `DelayAtLeast` and no refused switch |
| `MCLock` | 2 PCBs to fork, 2 locks, no condition variables, fairness | `HolderOwnsUnlessStale`, `WaitersAsleep`, `FreeLockHasNoWaiters`, `NewOwnerReturns`, and of the process core among these calls `RunnableRuns`, `SleeperWakes`, `WokenWaiterReturns` |
| `MCSync` | 1 PCB to fork, a lock, a condition variable, Reclaim | `Accounted`, `AcquirerTracked` |
| `MCPipe` | 2 PCBs to fork, a pipe of 2 bytes, lengths 1, 2, 3, fairness | `PipeBounded`, `SleepingWriterHasNoRoom`, `Accounted`, `FittingWriteEnds` |
| `MCTty` | 2 PCBs to fork, lines of 0 to 2 bytes, reads of 1 and 3, writes of 0 and 2 chunks, fairness | `TransmitterWillWake`, `QueuedWriterWillWake`, `SleepingReaderWillWake`, `ReadGetsLine`, `WriteEnds` |
| `MCMemory` | init, idle, 1 PCB to fork, 8 pages a region, 59 frames | `UserHeapMapped`, and, as long as memory is intact, `FramesExclusive` (the refinement of `Frames`), `FramesLostOnlyByLoading`, `EntriesDistinct`, `KernelHeapMapped`, `ExitStackSafe` |
| `MCLists` | 3 items, 4 nodes | `ListsImplemented` (the refinement of `Lists`), `NodesAccounted`, `CountsRight` |

Every module has a type invariant.  `ProcessTypeOK`, `TtyTypeOK` and
`MemoryTypeOK` are in the runs; `SyncTypeOK`, `PipeTypeOK` and `LinkedTypeOK`
are in none, since they are proved.

Runs that end in a counterexample, each for something a comment or document of
the repository says and the code does not do (quotes in PROJECT.json):

| run | property | in short |
|---|---|---|
| `MCWaitCollects` | `ExitedChildrenKept` | exits are forgotten: one status field, and Wait drops all zombies after reporting one |
| `MCCvarOwner` | `NewOwnerReturns` | CvarWait leaves the lock's new owner blocked for ever |
| `MCPipeReaders` | `SleepingReadersQueued` | a reader that must block again is no longer queued |
| `MCTtyContext` | `ContextKept` | the terminal and disk traps restore a user context that was saved at an earlier trap |
| `MCBootList` | `KernelFramesNotFree` | the entries of the list of free frames are allocated while it is built; the third page the heap grows by then is in a frame that is already listed |

The stale flag (`waiting` is set by Wait and never cleared) explains most of
what goes wrong in the process core: the
properties named `...UnlessStale` hold until the first exit that meets it, and
fail without that premise.  An exit can end a parent's Delay early, and can put
a second entry of the parent in the ready queue; when the parent has exited,
the switch to that entry is refused and, after an Exit, `ScheduleNextProcess`
returns with no current process.  It also makes Acquire return without the
lock, TtyRead return without a line, and TtyWrite transmit while the terminal
is busy.

Other differences from the comments, visible in the definitions and without a
run of their own: `CvarWaitHandler` does not block the caller, so with
condition variables `HolderOwnsUnlessStale` fails; `CvarSignalHandler` wakes
from Delay; `ReclaimHandler` does not refuse while processes wait
(`synchronization.c` line 195 says it must); each read queues the waiting
writers again, so `OnePlaceUnlessStale` fails with pipes; `kernel.h` says that
the scheduler does nothing when the ready queue is empty (it runs idle); the
pipe calls return 0 rather than the number of bytes; Wait passes the PCB of a
zombie to `pcbFree` twice (`FreeZombies`), once through `dead_pcbs` and once
through the list; Exit leaves the locks of the process taken, although
`process_coordination.h` line 53 says that all resources are freed; the loop of
`cvar_broadcast` compares a growing index with a shrinking count and gives up
in the middle (`BroadcastPops`), where `synchronization.c` line 143 says that
the entire queue is dequeued.

In memory: LoadProgram pops three frames for every page and uses at most one,
so each Exec loses at least two thirds of what it takes; Fork, Exec and Brk
keep or lose the frames they had taken when the list ran empty (`kernel.c`
line 758 says that loading is committed to "either loading succesfully or
killing the process", but Exec returns ERROR then).  A line of input
replaces what was left unread of the one before, which `input_output.h` line 16
says is saved; the test of the terminal number in TtyRead is always false.

What nothing in the kernel prevents, and what then happens to frames.  The heap
may grow by more than two pages while the list is built, or reach the temporary
pages or the stack; and a program may move its break downwards.  `MCBootList`
shows the first.  For the second, the comment at `kernel.c` line 255 says that
`SetKernelBrk` refuses a break in the stack, but line 262 compares a page number
with the address of the stack, so no break is refused.  For the third,
`process_coordination.h` line 90 says that "Locations not less than addr and
below the stack pointer are not in the address space of the process", but Brk
downwards (`process_coordination.c` lines 410 to 427) assigns `valid = 1` where
it means to compare, clears pages of region 0 and pushes the address of one
local variable for each page.  These two have no run of their own: they are
what the actions `SetKernelBrk` and `BrkShrink` do.  After any of the three a
frame may have two users, so
`FramesExclusive`, `EntriesDistinct`, `FramesLostOnlyByLoading` and
`KernelHeapMapped` are about memory that is `Intact`; `MemoryTypeOK` and
`UserHeapMapped` have no such premise.

`ExitStackSafe` has one more premise.  The stack of an exiting process goes to
the end of the list, behind what was there and the pages of its region 1, and
the kernel still runs on it while it allocates.  malloc takes frames from the
front, so the stack is safe as long as it takes no more than there were in
front of it (`ahead >= 0`).  In `MCMemory` malloc can take all of these and
more: an Exec empties the list, its child exits, and malloc asks for three
pages.  Without the premise TLC then finds a page of the heap in a frame of the
stack.

### Bounds

* *Processes.*  Four forked processes allow a grandchild, two siblings and an
  orphan at once, and an exit in every order.  The compositions need at least
  a holder, a waiter and a third process: init and two forked ones.  Only
  forked processes are interchangeable, so the symmetry set is the
  permutations of them; runs with liveness properties use no symmetry.
* `Ticks`: the negative, zero, one-tick and longer cases in `MCProcess`, one tick
  with locks; Delay is left out of
  the pipe runs, which no Delay can interact with except through the ready
  queue.
* `MAX_PROCESSES` is 5 in `MCProcess`, one less than the PCBs, so that Fork
  meets the limit; elsewhere it is the value in the code and out of reach.
* `MaxIpc`: how many locks and condition variables are ever created.  Two are
  enough for a process to hold one lock and wait for another.
* `MaxCvarQueue`: CvarWait does not block, so one process can queue itself any
  number of times.  Two entries make a queue with a first and a last one.
* `Reclaimable`: the ids passed to Reclaim, empty where Reclaim is not the
  question.
* `PIPE_BUFFER_LEN` 2 and lengths to 3: an exact fit, a partial read, a write
  that must wait, and one that can never fit.
* *Terminal*: lines shorter and longer than what is asked for, an empty line, a
  request longer than a line (which `tty_buffer_consume` refuses), an empty
  write and one of two chunks; three processes are a writer, one that queues
  and one that comes in between, or two readers and a writer.  Delay is left
  out as for pipes.
* *Memory*: eight pages are a program of two pages, a break, a gap and a stack,
  and in region 0 a heap, the temporary pages and the kernel stack.  59 frames
  are enough to boot and to Exec once or to fork, and to Exec in the child once
  malloc gave a page back; further calls meet the empty list.  One address
  lies above the first break, in the stack area, and below the break once Brk
  accepted it; the other lies below it from the start; together they reach
  every branch.  `HEAP_LIMIT` is the highest break that malloc asks for: page 5
  lets the heap reach a temporary page, and grow by more than two pages while
  the list is built; in `MCBootList` it is the last page.
  `HEAP_STEP` and `MaxGrowths` bound how often and how far breaks and stacks
  move after the boot, with three pages at a time enough to take everything a
  process gave back.  `Stale` is the one frame number that memory which nobody
  wrote can show; the model stops after it was seen.
* *Lists*: three items and four nodes give each list a first, a middle and a
  last node, and let a node freed by one list be the next one of the other.
* `MaxReady`: a writer that is made ready again by each read gets another
  entry in the ready queue each time, so the queue grows without bound; reads
  are cut off at this length.

### Fairness

`PipeFairness` and `TtyFairness` assume weak fairness of the clock
trap, because the simulated clock keeps interrupting user mode, and these and
`SyncFairness` that of the actions that continue a handler after `ScheduleNextProcess`, because once the
process has the CPU kernel code runs on and cannot be preempted.  `TtyFairness`
also assumes strong fairness of the transmit trap, and `SyncFairness` of the
clock trap: the hardware keeps a trap pending while the kernel runs and delivers
it in user mode, which is left and entered again for ever.  With weak fairness
of the clock, two processes that hand a lock to each other and back, each
entering the kernel again at once, could keep a third one in Delay for ever.  No fairness is assumed of arriving lines.  No fairness is
assumed of system calls: programs may loop for ever, and no liveness property
depends on a program doing something.

## 4. What is proved

Every safety invariant, both refinements and the action property
`FramesLostOnlyByLoading` are proved for all values of the constants that
satisfy the named assumptions.  Each time the property alone is not inductive;
the invariant that is, and why it needs its parts, is given below.  Some
theorems have a hypothesis, which says what the code needs and does not see to
itself: that programs do not wait on condition variables and do not reclaim
locks in use.  The theorems about frames say how long their promise lasts in
the formula itself, with the history variables `overgrown` and `ahead`.

### Processes

`ProcessProofs` proves, for any finite set of PCBs, any arguments of Delay and
any `MAX_PROCESSES`, that `ProcessSpec` implies each of `ProcessTypeOK`,
`Accounted`, `IdleOnce`, `ParentAlive`, `WaiterHasChild`, `ZombiesAllocated`,
`OnePlaceUnlessStale`, `DelayUnlessStale` and `NoBadSwitchUnlessStale`, and
`LiveBound` if `MAX_PROCESSES` is at least 2, because init and idle exist from
the start (it is 128 in the code).  The
assumptions are `SchedulerAssumption` (init and idle are different PCBs, NULL
is none, there are finitely many) and `ProcessAssumption`.

The invariant that is inductive is `Inv`, whose parts and reasons are:

* `ProcessTypeOK`; `Alive`: init and idle always have a kernel context, and
  while the machine is up so has the current process, and no live process is
  DEAD.  A process that exits is not the one that runs next;
* `UnusedFresh`: PCBs not yet created are in no queue or set and have no
  zombies, so Fork introduces no duplicates;
* `Family`: every child points back to its parent, and a live process has a
  live parent, which is init or has it among its children; this is what lets
  `pcbOrphanChildren` reach every pointer that would dangle;
* `ZombiesAllocated`: what Wait frees was still allocated, and not on a list
  that somebody else will free;
* `WaitAnnounced`: a process blocked in Wait has its flag set, so the exit of
  its child does take the branch that wakes it, which `WaiterHasChild` needs;
* `Accounted` and `IdleOnce`, which the scheduler needs for itself: when the
  queue is empty the running idle process is the one that is run again;
* `Places`: unless a stale flag was met, a queued or running process is live,
  READY and nowhere else, a blocked or delayed one has that state, and a
  delayed one has at least as many ticks left as it is owed.

The module begins with the lemmas about pushing to and popping from the ready
queue and about `ScheduleNextProcess`, once for each of types, accounting, idle
and places; then it has one lemma per action and part, and `InvHolds` combines
them.  `LiveBound` follows because Fork counts the ready queue, the sets, idle
and the running process, and by `Accounted` every live process is one of these;
a process that is queued twice only makes the count higher.

### Locks, condition variables, pipes, terminals

`CallProofs` has what the three share.  `Core` is the part of `Inv` that
survives what these components do to PCBs: types, `Accounted`, no DEAD process
is live, and PCBs not yet created are referred to by nothing.  A second group
of lemmas says when such a component may block its caller, wake a process and
return without breaking `Inv`.

`SyncProofs`, for any numbers of processes, locks and condition variables.
`IpcInv` holds whatever programs call: `SyncTypeOK`, `Core`, `IdsFresh` (an id
is never used again, so an id in a sleeping Acquire cannot come to name another
object), `QueuedUsed`, `FreeLockHasNoWaiters` and `AcquirerTracked`.  Exclusion
does not hold for every program: CvarWait returns to its caller without the
lock, and Reclaim frees the PCBs of those that wait.  So `LocksExclude`
(`HolderOwnsUnlessStale`) and `ReleaseFindsWaiter` (`WaitersAsleep`) have the
hypotheses `[]NoCvarWaiters` and `[][ReclaimsUnused]_syncVars`: nobody waits on
a condition variable, and no lock is reclaimed while others wait for it.  The
run `MCLock` checks the programs that satisfy them by having no condition
variables and no Reclaim.  With condition variables TLC finds
`HolderOwnsUnlessStale` violated; with Reclaim of locks in use both properties
still hold in that instance, but the proof needs `Inv`, which says that parents
are alive and does not survive a PCB that is freed while its process sleeps.  The invariant is `LockInv`: all of `Inv`,
`HoldsFresh`, and, unless a stale flag was met, that no null pointer was
written through, that those queued at a lock sleep in Acquire of that lock and
are queued once (`QueuedAsleep`), that those awake in Acquire own the lock
(`WokenOwns`), and `HolderOwns`.

`PipeProofs`, for any number of processes, any buffer and any lengths.  Reads
queue waiting writers again, so `Inv` does not hold with pipes; `Core` does.
`PipeInv` adds to `Core` that the processes at the pipe exist, that whoever is
in the loop of `pipe_write` is in the set of writers (`WritersStored`), and
that whoever sleeps there has no room (`NoRoom`), in a reclaimed pipe too.  It
gives `PipeBounded`, `SleepingWriterHasNoRoom` and `Accounted`.

`TtyProofs`, for any number of processes, any length of lines and any calls.
`TtyInv` is `Inv` and, for readers, that `curr_readers` are in TtyRead and
asleep, and one that is awake has its line; for writers, unless a stale flag
was met, that only one process is in the middle of its output, that it is
`curr_writer` and sleeps exactly while the terminal is sending
(`OneTransmitter`), and that the queue holds those who sleep in it, once each
(`QueueAsleep`).  It gives `TtyTypeOK`, `SleepingReaderWillWake`,
`ReadGetsLine`, `TransmitterWillWake`, `QueuedWriterWillWake` and `Accounted`.

### Memory

`KernelHeapProofs` is about the boot (`BootSpec`), for any number of frames and
pages, any layout of the kernel and any growth of the heap
(`KernelHeapAssumption`).  `BootInvariant` proves the inductive `BootInv`:

* `PagesInPlace`: a valid page of the kernel is in the frame of its own number,
  and not above what the heap can have grown to;
* `ListedAbove`: a frame on the list is more than one above the *first* break
  and not in the stack.  The loop compares with the break of the moment, which
  grows as the list does, so only the first one bounds all entries;
* `HeapMapped`: every page below the break is valid.  It is inductive only
  because `expand_heap_pages` starts a page below the old break and skips valid
  pages, so that pages mapped by a call whose result was lost do no harm.

From it, `BootListRight` proves `~overgrown => KernelFramesNotFree`: the list is
right exactly for the distance that the test of `init_free_frame_queue` keeps
from the first break, and `MCBootList` shows that it is wrong beyond it.
`BootHeapMapped` proves `HeapMapped` without that premise.

`MemoryProofs` is about everything after it, for any numbers of processes,
pages and frames and any moves of the heap (`MemoryAssumption`: the kernel
stack has at least one page, and the layout of the regions).  It has two
invariants.  `TypeInv` holds always, whatever the heap and Brk have damaged:

* `MemoryTypeOK`: in particular every page index that a handler computes is in
  its table;
* `CpuInPlace`: during the boot there is no process, and after it the current
  one is live unless an exit is between its last two steps;
* `BrksSet`: no break is on page 0, below which Brk would look; and
  `UserHeapMapped`, which lets Brk start below the break.

It gives `MemoryTypeOK` and `UserHeapMapped`.  `MemInv` holds while memory is
intact:

* `F!Exclusive(Held)`: no two of the list, the kernel, the page tables and the
  kernel stacks share a frame; `TablesDistinct`: none has a frame twice.
  Neither is inductive without the other, since frames go from one place to
  the next through the list;
* `BootState`: until the boot is over, `BootInv`, and there are no processes;
* `UpState`: the kernel runs on the stack of the current process, whose copy in
  the PCB is right except for init before its first switch (`StackInPlace`),
  the temporary pages that Fork and `KCCopy` map are free between two handlers,
  and unused PCBs have no frames;
* `HeapSound`: the kernel's pages below its break are valid, and the break is
  not above the temporary pages.

What is proved by induction is `MemSafe == TypeInv /\ (Intact => MemInv)`: no
step makes damaged memory intact (`IntactBefore`), and a step that leaves it
intact started from `MemInv` and preserves it (`IntactStep`).  From it follow
`FramesExclusive`, the refinement of `Frames` (every step gives frames to at
most one user, from the list, or returns them), `KernelHeapMapped`,
`EntriesDistinct` and `FramesLostOnlyByLoading`.  `ExitStackKept` proves
`ExitStackSafe` with two more invariants of intact memory: a live process has
its whole stack (`StacksWhole`), and every frame of a released stack is on the
list behind the `ahead` frames that malloc takes first (`StackLast`).

### Queue and Set

`LinkedListsProofs`, for any items and any finite number of nodes.  `Chain` is
a recursive function; `ChainLinked` proves, by looking at the first place where
they would differ, that it is the one sequence of different nodes that the
pointers link up to a null pointer.  Everything else is about such sequences:
one lemma for what each function of `queue.c` and `set.c` does to the pointers,
one for what that means for the sequence and the set.  The invariant `ListInv`
says that each list is such a sequence with the right ends and counter, that
the two have no node in common, that their nodes are what is allocated, that a
set has no key twice, and that the clock is at a node of the set.  It gives
`LinkedTypeOK`, `NodesAccounted`, `CountsRight` and `ListsImplemented`: every
step is one of `Lists` or changes nothing there.

### Only model-checked

Liveness: `RunnableRuns`, `SleeperWakes`, `WokenWaiterReturns`,
`NewOwnerReturns`, `FittingWriteEnds` and `WriteEnds`.  Fairness and ENABLED
are out of the prover's reach.

## 5. What is not modelled

* The contents of memory, page protections and the TLB; reading a program from
  its file and building its arguments.  In `Process`, which has no frames, the
  error action of Fork and Exec is always possible.
* Frames and scheduling together: `Memory` switches to any live process, and
  `Process` has no frames.
* Failure of `malloc` in the kernel, except that `LinkedLists` has finitely
  many nodes.  What the kernel does when an allocation for an entry of the free
  list fails (the frame is lost) is therefore not seen.
* What follows a Brk downwards: the list then holds the address of a local
  variable that no longer exists, and the next frame taken passes it to `free`.
* An unknown system call code, which halts the machine, and GetPid, which
  changes nothing.
* More than one terminal: they share no state.
* The bytes in a pipe or on a line, the value of an exit status beyond who exited, and all
  messages of `TracePrintf`.
* Reuse of the memory of a freed PCB by a later process.

## 6. Plan

1. `Mutex`: what a lock promises, and the locks of `Sync`, without condition
   variables and stale wake-ups, shown to implement it, from `LockInv`.
2. `Kernel`: locks, pipes and terminals over one set of processes.
3. Exclusion for programs that reclaim locks in use, from a process invariant
   that allows PCBs to be freed under sleeping processes.
4. Action properties of the process core: what a step never does to the PCB of
   a process that it is not about.
