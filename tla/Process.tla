------------------------------- MODULE Process -------------------------------
(***************************************************************************)
(* Creation, termination and collection of processes: Fork, Exit and Wait  *)
(* (process_coordination.c), the traps that abort a process (traps.c) and  *)
(* the PCB bookkeeping they rest on (pcb.c).                               *)
(*                                                                         *)
(* A user program is any sequence of the system calls below.  A PCB is not *)
(* used again once it was freed, so a stale pointer to it can be seen; an  *)
(* exit status stands for the process that exited with it.                 *)
(***************************************************************************)
EXTENDS Scheduler

CONSTANT MAX_PROCESSES
ASSUME ProcessAssumption == MAX_PROCESSES \in Nat

VARIABLES
    parent, children, zombies,   \* pcb->parent, pcb->children, pcb->zombies
    waiting,                     \* pcb->waiting
    child_exit_status,           \* pcb->child_exit_status
    uncollected,                 \* history: exited children Wait never reported
    staleWake                    \* history: an exit woke a parent not in Wait

familyVars == <<parent, children, zombies, waiting, child_exit_status>>
procVars == <<schedVars, familyVars, uncollected, staleWake>>

ProcessTypeOK ==
    /\ SchedTypeOK
    /\ parent \in [Proc -> Proc \cup {NULL}]
    /\ children \in [Proc -> SUBSET Proc]
    /\ zombies \in [Proc -> Seq(Proc)]
    /\ waiting \in [Proc -> BOOLEAN]
    /\ child_exit_status \in [Proc -> Proc \cup {NULL}]
    /\ uncollected \in [Proc -> SUBSET Proc]
    /\ staleWake \in BOOLEAN

(* KernelStart: init runs and idle exists but is in no queue.              *)
ProcessInit ==
    /\ current_process = init_process
    /\ process_ready_queue = <<>>
    /\ blocked_pcbs = {} /\ delayed_pcbs = {} /\ dead_pcbs = {}
    /\ state = [p \in Proc |-> "READY"]
    /\ delay_ticks = [p \in Proc |-> 0]
    /\ pcb = [p \in Proc |-> IF p \in {init_process, idle_process}
                             THEN "live" ELSE "unused"]
    /\ kpc = [p \in Proc |-> "user"]
    /\ machine = "up"
    /\ owed = [p \in Proc |-> 0]
    /\ parent = [p \in Proc |-> NULL]
    /\ children = [p \in Proc |-> {}]
    /\ zombies = [p \in Proc |-> <<>>]
    /\ waiting = [p \in Proc |-> FALSE]
    /\ child_exit_status = [p \in Proc |-> NULL]
    /\ uncollected = [p \in Proc |-> {}]
    /\ staleWake = FALSE

-----------------------------------------------------------------------------
(* Fork                                                                    *)

BadProcessCount(p) ==   \* does not count the idle process
    Cardinality(delayed_pcbs) + Cardinality(blocked_pcbs)
        + Len(process_ready_queue)
        + (IF p \in {idle_process, init_process} THEN 1 ELSE 2)

(* The number of processes that ForkHandler assumes to exist.              *)
ProcessCount(p) ==
    Cardinality(delayed_pcbs) + Cardinality(blocked_pcbs)
        + Len(process_ready_queue)
        + (IF p \in {idle_process, init_process} THEN 2 ELSE 3)

(* A PCB that is unused still has the values pcbNew stores.                *)
pcbNew(c, par) ==
    /\ pcb[c] = "unused"
    /\ pcb' = [pcb EXCEPT ![c] = "live"]
    /\ parent' = [parent EXCEPT ![c] = par]

(* A new PCB, in the caller's children and in the ready queue.  KCCopy     *)
(* makes the child resume in ForkHandler, which returns 0 there.           *)
ForkHandler(p, c) ==
    /\ Syscall(p)
    /\ ProcessCount(p) < MAX_PROCESSES
    /\ pcbNew(c, p)
    /\ children' = [children EXCEPT ![p] = @ \cup {c}]
    /\ process_ready_queue' = Append(process_ready_queue, c)
    /\ UNCHANGED <<current_process, blocked_pcbs, delayed_pcbs, dead_pcbs, state,
                   delay_ticks, kpc, machine, owed, zombies, waiting,
                   child_exit_status, uncollected, staleWake>>

(* Fork returns ERROR: too many processes, or no frame for a page or for   *)
(* the kernel stack.  No process exists that did not exist before.         *)
ForkError(p) == Syscall(p) /\ UNCHANGED procVars

-----------------------------------------------------------------------------
(* Exit                                                                    *)

BadOrphanChildren(p) == parent   \* keeps the pointers to p

(* pcbOrphanChildren: init becomes the parent, but init's own sets of      *)
(* children and zombies do not change.                                     *)
pcbOrphanChildren(p) ==
    [c \in Proc |-> IF c \in children[p] \cup Range(zombies[p])
                    THEN init_process ELSE parent[c]]

InWait(p) == kpc[p] = "wait" /\ state[p] = "BLOCKED"

Halt(p) ==
    /\ machine' = "halted"
    /\ state' = [state EXCEPT ![p] = "DEAD"]
    /\ parent' = pcbOrphanChildren(p)
    /\ UNCHANGED <<current_process, process_ready_queue, blocked_pcbs,
                   delayed_pcbs, dead_pcbs, delay_ticks, pcb, kpc, owed, children,
                   zombies, waiting, child_exit_status, uncollected, staleWake>>

(* The exiting process p leaves its family; its own sets are deleted.      *)
LeaveFamily(p, par) ==
    /\ parent' = pcbOrphanChildren(p)
    /\ children' = [children EXCEPT ![par] = @ \ {p}, ![p] = {}]
    /\ child_exit_status' = [child_exit_status EXCEPT ![par] = p]
    /\ uncollected' = [uncollected EXCEPT ![par] = @ \cup {p}]
    /\ UNCHANGED waiting

BadExitKeepsBlocked(p, par) ==   \* par stays in blocked_pcbs
    /\ zombies' = [zombies EXCEPT ![p] = <<>>]
    /\ staleWake' = (staleWake \/ ~InWait(par))
    /\ ScheduleNextProcess(NULL, Append(process_ready_queue, par),
           blocked_pcbs, delayed_pcbs, dead_pcbs,
           [state EXCEPT ![p] = "DEAD", ![par] = "READY"],
           [pcb EXCEPT ![p] = "freed"])

BadExitNotQueued(p, par) ==      \* par is not pushed on the ready queue
    /\ zombies' = [zombies EXCEPT ![p] = <<>>]
    /\ staleWake' = (staleWake \/ ~InWait(par))
    /\ ScheduleNextProcess(NULL, process_ready_queue,
           blocked_pcbs \ {par}, delayed_pcbs, dead_pcbs,
           [state EXCEPT ![p] = "DEAD", ![par] = "READY"],
           [pcb EXCEPT ![p] = "freed"])

(* The parent waits: make it ready and free the PCB of p altogether.       *)
ExitToWaiting(p, par) ==
    /\ zombies' = [zombies EXCEPT ![p] = <<>>]
    /\ staleWake' = (staleWake \/ ~InWait(par))
    /\ ScheduleNextProcess(NULL, Append(process_ready_queue, par),
           blocked_pcbs \ {par}, delayed_pcbs, dead_pcbs,
           [state EXCEPT ![p] = "DEAD", ![par] = "READY"],
           [pcb EXCEPT ![p] = "freed"])

BadExitStaysCurrent(p, par) ==   \* p is still current, and READY
    /\ zombies' = [zombies EXCEPT ![par] = <<p>> \o @, ![p] = <<>>]
    /\ UNCHANGED staleWake
    /\ ScheduleNextProcess(p, process_ready_queue, blocked_pcbs, delayed_pcbs,
           dead_pcbs \cup {p}, state, [pcb EXCEPT ![p] = "exited"])

(* Nobody waits: p becomes a zombie of its parent, at the head of the set. *)
ExitToZombie(p, par) ==
    /\ zombies' = [zombies EXCEPT ![par] = <<p>> \o @, ![p] = <<>>]
    /\ UNCHANGED staleWake
    /\ ScheduleNextProcess(NULL, process_ready_queue, blocked_pcbs, delayed_pcbs,
           dead_pcbs \cup {p}, [state EXCEPT ![p] = "DEAD"],
           [pcb EXCEPT ![p] = "exited"])

(* ExitHandler and the ScheduleNextProcess that every caller makes next.   *)
ExitHandler(p) ==
    /\ Syscall(p)
    /\ IF p = init_process THEN Halt(p)
       ELSE LET par == parent[p] IN
            /\ LeaveFamily(p, par)
            /\ IF waiting[par] THEN ExitToWaiting(p, par) ELSE ExitToZombie(p, par)
            /\ UNCHANGED <<delay_ticks, kpc, owed>>

(* The traps that abort the running process, and an Exec that fails after  *)
(* the old image was destroyed (LoadProgram returns KILL).                 *)
TrapIllegalHandler(p) == ExitHandler(p)
TrapMathHandler(p) == ExitHandler(p)

(* Otherwise the user stack grows, or Exec runs: same process, same place. *)
TrapMemoryHandler(p) == ExitHandler(p) \/ (Syscall(p) /\ UNCHANGED procVars)
ExecHandler(p) == ExitHandler(p) \/ (Syscall(p) /\ UNCHANGED procVars)

-----------------------------------------------------------------------------
(* Wait                                                                    *)

(* Every zombie in dead_pcbs is passed to pcbFree twice.  The allocator    *)
(* may notice nothing or be left in an undefined state.                    *)
FreeZombies(zs) ==
    /\ pcb' = [p \in Proc |-> IF p \in zs THEN "freed" ELSE pcb[p]]
    /\ dead_pcbs' = dead_pcbs \ zs
    /\ machine' \in IF zs \cap dead_pcbs # {} THEN {"up", "corrupt"} ELSE {"up"}

BadWaitCollect(p) ==   \* leaves the freed zombies in the set
    /\ Syscall(p)
    /\ zombies[p] # <<>>
    /\ FreeZombies(Range(zombies[p]))
    /\ uncollected' = [uncollected EXCEPT ![p] = @ \ {Head(zombies[p])}]
    /\ UNCHANGED <<current_process, process_ready_queue, blocked_pcbs,
                   delayed_pcbs, state, delay_ticks, kpc, owed, familyVars, staleWake>>

(* A zombie exists: report the one at the head and free all of them.       *)
WaitCollect(p) ==
    /\ Syscall(p)
    /\ zombies[p] # <<>>
    /\ FreeZombies(Range(zombies[p]))
    /\ zombies' = [zombies EXCEPT ![p] = <<>>]
    /\ uncollected' = [uncollected EXCEPT ![p] = @ \ {Head(zombies[p])}]
    /\ UNCHANGED <<current_process, process_ready_queue, blocked_pcbs,
                   delayed_pcbs, state, delay_ticks, kpc, owed, parent, children,
                   waiting, child_exit_status, staleWake>>

(* No zombie and no child, or a status pointer below region 1.             *)
WaitError(p) == Syscall(p) /\ UNCHANGED procVars

BadWaitBlock(p) ==   \* does not check that there is a child
    /\ Syscall(p)
    /\ zombies[p] = <<>>
    /\ waiting' = [waiting EXCEPT ![p] = TRUE]
    /\ kpc' = [kpc EXCEPT ![p] = "wait"]
    /\ ScheduleNextProcess(p, process_ready_queue, blocked_pcbs, delayed_pcbs,
           dead_pcbs, [state EXCEPT ![p] = "BLOCKED"], pcb)
    /\ UNCHANGED <<delay_ticks, owed, parent, children, zombies,
                   child_exit_status, uncollected, staleWake>>

WaitBlock(p) ==
    /\ Syscall(p)
    /\ zombies[p] = <<>>
    /\ children[p] # {}
    /\ waiting' = [waiting EXCEPT ![p] = TRUE]
    /\ kpc' = [kpc EXCEPT ![p] = "wait"]
    /\ ScheduleNextProcess(p, process_ready_queue, blocked_pcbs, delayed_pcbs,
           dead_pcbs, [state EXCEPT ![p] = "BLOCKED"], pcb)
    /\ UNCHANGED <<delay_ticks, owed, parent, children, zombies,
                   child_exit_status, uncollected, staleWake>>

(* The loop around ScheduleNextProcess in WaitHandler.                     *)
WaitAgain(p) ==
    /\ Resume(p, "wait")
    /\ waiting[p] /\ state[p] = "BLOCKED"
    /\ ScheduleNextProcess(p, process_ready_queue, blocked_pcbs, delayed_pcbs,
           dead_pcbs, state, pcb)
    /\ UNCHANGED <<kpc, delay_ticks, owed, familyVars, uncollected, staleWake>>

(* Wait returns the status that ExitHandler left in the caller's PCB.      *)
(* waiting keeps its value.                                                *)
WaitReturn(p) ==
    /\ Resume(p, "wait")
    /\ ~(waiting[p] /\ state[p] = "BLOCKED")
    /\ kpc' = [kpc EXCEPT ![p] = "user"]
    /\ uncollected' = [uncollected EXCEPT ![p] = @ \ {child_exit_status[p]}]
    /\ UNCHANGED <<current_process, process_ready_queue, blocked_pcbs,
                   delayed_pcbs, dead_pcbs, state, delay_ticks, pcb, machine, owed,
                   familyVars, staleWake>>

WaitResume(p) == WaitAgain(p) \/ WaitReturn(p)

-----------------------------------------------------------------------------
SchedulerStep ==
    /\ \/ TrapClockHandler
       \/ \E p \in Proc, n \in Ticks : DelayHandler(p, n)
       \/ \E p \in Proc : DelayReturn(p)
    /\ UNCHANGED <<familyVars, uncollected, staleWake>>

FamilyStep(p) ==
    \/ \E c \in Proc : ForkHandler(p, c)
    \/ ForkError(p)
    \/ ExitHandler(p)
    \/ TrapIllegalHandler(p)
    \/ TrapMathHandler(p)
    \/ TrapMemoryHandler(p)
    \/ ExecHandler(p)
    \/ WaitCollect(p)
    \/ WaitBlock(p)
    \/ WaitError(p)
    \/ WaitResume(p)

(* The machine has stopped.                                                *)
Stopped == machine # "up" /\ UNCHANGED procVars

ProcessNext ==
    SchedulerStep \/ (\E p \in Proc : FamilyStep(p)) \/ Stopped

ProcessSpec == ProcessInit /\ [][ProcessNext]_procVars

-----------------------------------------------------------------------------
(* Fork never lets more than MAX_PROCESSES processes exist "at any given   *)
(* time" (kernel.h), although ForkHandler counts queue entries rather than *)
(* processes.                                                              *)
LiveBound == Cardinality({p \in Proc : Live(p)}) <= MAX_PROCESSES

(* The parent pointer that ExitHandler follows never points to a PCB that  *)
(* is gone: pcbOrphanChildren hands over every child in time.              *)
ParentAlive ==
    \A p \in Proc \ {init_process, idle_process} :
        Live(p) => parent[p] \in Proc /\ Live(parent[p])

(* A process blocked in Wait still has a running child whose exit will     *)
(* wake it up (WaitHandler blocks only if children is not empty).          *)
WaiterHasChild ==
    \A p \in Proc : Live(p) /\ InWait(p) =>
        \E c \in Proc : Live(c) /\ parent[c] = p

(* The zombies that Wait dereferences are PCBs that were not freed yet,    *)
(* and no PCB is on two lists.                                             *)
ZombiesAllocated ==
    \A p \in Proc : Live(p) =>
        /\ \A z \in Range(zombies[p]) : pcb[z] = "exited" /\ z \in dead_pcbs
        /\ \A q \in Proc \ {p} : Live(q) => Range(zombies[p]) \cap Range(zombies[q]) = {}

(* As long as no exit finds a stale waiting flag, every process is in one  *)
(* place only.                                                             *)
OnePlaceUnlessStale == ~staleWake => OnePlace

(* As long as no exit finds a stale waiting flag, Delay sleeps at least as *)
(* long as it was asked to.                                                *)
DelayUnlessStale == ~staleWake => DelayAtLeast

(* As long as no exit finds a stale waiting flag, ScheduleNextProcess      *)
(* never switches to a process that has exited.                            *)
NoBadSwitchUnlessStale == ~staleWake => machine # "bad_switch"

(* A process that is queued gets the CPU (ScheduleNextProcess is fair).    *)
RunnableRuns ==
    \A p \in Proc : Ready(p) ~> (current_process = p \/ machine # "up")

(* A call of Delay returns.                                                *)
SleeperWakes ==
    \A p \in Proc : (kpc[p] = "delay") ~> (kpc[p] = "user" \/ machine # "up")

(* A call of Wait returns once the caller was woken.                       *)
WokenWaiterReturns ==
    \A p \in Proc : (kpc[p] = "wait" /\ state[p] = "READY")
                        ~> (kpc[p] = "user" \/ machine # "up")

-----------------------------------------------------------------------------
(* What the comments of the code say and the code does not do.             *)

(* process_coordination.h: an exited child "whose information has not yet  *)
(* been collected via Wait" is still there for the next Wait.              *)
ExitedChildrenKept ==
    \A p \in Proc : Live(p) /\ kpc[p] = "user" /\ uncollected[p] # {}
                        => zombies[p] # <<>>
=============================================================================
