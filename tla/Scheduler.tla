------------------------------ MODULE Scheduler ------------------------------
(***************************************************************************)
(* The scheduler of the Yalnix kernel (kernel.c), the clock trap           *)
(* (traps.c) and the Delay system call: the state that every other         *)
(* component of the kernel shares, and the steps that change nothing else. *)
(*                                                                         *)
(* Kernel code is not preemptible: a trap handler runs until it returns to *)
(* user mode or calls ScheduleNextProcess.  A step is therefore a handler  *)
(* from its entry, or from the return of an earlier call of                *)
(* ScheduleNextProcess, up to its end or its next call of                  *)
(* ScheduleNextProcess.  kpc records where in the kernel a process that is *)
(* switched out will resume.                                               *)
(*                                                                         *)
(* Definitions named Bad... are used by no specification.  They are what a *)
(* plausible bug would make of the definition that follows them; putting   *)
(* one in its place must violate a property.                               *)
(***************************************************************************)
EXTENDS Integers, Sequences, FiniteSets, Functions

CONSTANTS
    Proc,           \* the PCBs, a pid identifying its PCB
    init_process,   \* the first user process
    idle_process,   \* runs DoIdle when nothing else is ready
    NULL,           \* the C null pointer
    Ticks           \* the arguments that Delay is called with

ASSUME SchedulerAssumption ==
    /\ init_process \in Proc
    /\ idle_process \in Proc
    /\ init_process # idle_process
    /\ NULL \notin Proc
    /\ IsFiniteSet(Proc)
    /\ Ticks \subseteq Int

VARIABLES
    current_process,      \* the PCB the CPU executes for, or NULL
    process_ready_queue,  \* FIFO queue of PCBs
    blocked_pcbs, delayed_pcbs, dead_pcbs,
    state,                \* pcb->state (RUNNING is never stored)
    delay_ticks,          \* pcb->delay_ticks
    pcb,                  \* what the memory of the PCB holds
    kpc,                  \* where in the kernel the process will resume
    machine,              \* up, stopped by Halt, or no longer defined by C
    owed                  \* history: clock traps a delayed process must still see

schedVars == <<current_process, process_ready_queue, blocked_pcbs, delayed_pcbs,
               dead_pcbs, state, delay_ticks, pcb, kpc, machine, owed>>

States == {"READY", "BLOCKED", "DELAYED", "DEAD"}

(* "live" has a kernel context; pcbExit and pcbFree drop it, and pcbFree   *)
(* returns the memory of the PCB as well.                                  *)
Memory == {"unused", "live", "exited", "freed"}

(* "user": in user mode, or in a handler that returns there at once.       *)
KernelPoints == {"user", "wait", "delay", "acquire", "pipe_read", "pipe_write",
                 "tty_read", "tty_queue", "tty_write", "tty_done"}

(* "bad_switch": KCSwitch refused a PCB without a kernel context after     *)
(* REG_PTBR1 was already overwritten.  "corrupt": memory was freed twice,  *)
(* or while in use.  "crashed": the kernel wrote through a null pointer.   *)
(* "tty_busy": TtyTransmit was called while the terminal was sending.      *)
MachineStates == {"up", "halted", "bad_switch", "corrupt", "crashed", "tty_busy"}

SchedTypeOK ==
    /\ current_process \in Proc \cup {NULL}
    /\ process_ready_queue \in Seq(Proc)
    /\ blocked_pcbs \subseteq Proc
    /\ delayed_pcbs \subseteq Proc
    /\ dead_pcbs \subseteq Proc
    /\ state \in [Proc -> States]
    /\ delay_ticks \in [Proc -> Int]
    /\ pcb \in [Proc -> Memory]
    /\ kpc \in [Proc -> KernelPoints]
    /\ machine \in MachineStates
    /\ owed \in [Proc -> Nat]

Live(p) == pcb[p] = "live"

UserMode(p) ==
    machine = "up" /\ current_process = p /\ kpc[p] = "user"

(* A system call of the running process.  The idle process only pauses.    *)
Syscall(p) == p # idle_process /\ UserMode(p)

(* The running process continues at point k of a system call.              *)
Resume(p, k) ==
    machine = "up" /\ current_process = p /\ kpc[p] = k

-----------------------------------------------------------------------------
(* enqueue_current_process, seen from each place it can put cur in.        *)

BadRequeueFront(cur, rq, st) ==   \* the running process goes first again
    IF cur # NULL /\ st[cur] = "READY" THEN <<cur>> \o rq ELSE rq

Requeue(cur, rq, st) ==
    IF cur # NULL /\ st[cur] = "READY" THEN Append(rq, cur) ELSE rq

BadPark(cur, S, st, s) == S       \* does not store the process

BadParkNull(cur, S, st, s) ==     \* stores a null pointer as well
    IF cur = NULL \/ st[cur] = s THEN S \cup {cur} ELSE S

Park(cur, S, st, s) ==
    IF cur # NULL /\ st[cur] = s THEN S \cup {cur} ELSE S

(* KCSwitch gives the CPU to next; a PCB without a kernel context is       *)
(* refused and the caller keeps running on next's (null) page table.       *)
KCSwitch(cur, next, mem) ==
    IF mem[next] = "live"
    THEN current_process' = next /\ machine' = machine
    ELSE current_process' = cur /\ machine' = "bad_switch"

BadScheduleIdle(cur, rq, bl, dl, dd, st, mem) ==  \* no second queue_pop
    LET q == Requeue(cur, rq, st) IN
    /\ process_ready_queue' = IF rq = <<>> THEN q ELSE Tail(q)
    /\ blocked_pcbs' = Park(cur, bl, st, "BLOCKED")
    /\ delayed_pcbs' = Park(cur, dl, st, "DELAYED")
    /\ dead_pcbs' = Park(cur, dd, st, "DEAD")
    /\ state' = st
    /\ pcb' = mem
    /\ KCSwitch(cur, IF rq = <<>> THEN idle_process ELSE Head(q), mem)

(* The code pops before it enqueues the current process.  That differs     *)
(* from enqueueing first only when the queue is empty, and then the popped *)
(* process is the current one, to which the switch changes nothing.        *)
ScheduleNextProcess(cur, rq, bl, dl, dd, st, mem) ==
    LET q == Requeue(cur, rq, st) IN
    /\ process_ready_queue' = IF q = <<>> THEN <<>> ELSE Tail(q)
    /\ blocked_pcbs' = Park(cur, bl, st, "BLOCKED")
    /\ delayed_pcbs' = Park(cur, dl, st, "DELAYED")
    /\ dead_pcbs' = Park(cur, dd, st, "DEAD")
    /\ state' = st
    /\ pcb' = mem
    /\ KCSwitch(cur, IF q = <<>> THEN idle_process ELSE Head(q), mem)

-----------------------------------------------------------------------------
(* The orders in which iterating over a set_t can visit its members.       *)
Orders(S) == Bijection(1 .. Cardinality(S), S)

BadTickDown(p) == delay_ticks[p]                  \* does not count down

TickDown(p) == delay_ticks[p] - 1

BadExpired == {p \in delayed_pcbs : TickDown(p) <= 1}   \* one tick early

Expired == {p \in delayed_pcbs : TickDown(p) <= 0}

TrapClockHandler ==
    /\ \E p \in Proc : UserMode(p)
    /\ delay_ticks' = [p \in Proc |-> IF p \in delayed_pcbs THEN TickDown(p)
                                      ELSE delay_ticks[p]]
    /\ owed' = [p \in Proc |-> IF owed[p] > 0 THEN owed[p] - 1 ELSE 0]
    /\ \E w \in Orders(Expired) :
          ScheduleNextProcess(current_process, process_ready_queue \o w,
              blocked_pcbs, delayed_pcbs \ Expired, dead_pcbs,
              [p \in Proc |-> IF p \in Expired THEN "READY" ELSE state[p]],
              pcb)
    /\ UNCHANGED kpc

(* Delay(n); n <= 0 returns at once, with ERROR if n is negative.          *)
DelayHandler(p, n) ==
    /\ Syscall(p)
    /\ IF n <= 0 THEN UNCHANGED schedVars
       ELSE /\ delay_ticks' = [delay_ticks EXCEPT ![p] = n]
            /\ owed' = [owed EXCEPT ![p] = n]
            /\ kpc' = [kpc EXCEPT ![p] = "delay"]
            /\ ScheduleNextProcess(p, process_ready_queue, blocked_pcbs,
                   delayed_pcbs, dead_pcbs, [state EXCEPT ![p] = "DELAYED"], pcb)

(* The scheduler returned to DelayHandler: the call returns 0.             *)
DelayReturn(p) ==
    /\ Resume(p, "delay")
    /\ kpc' = [kpc EXCEPT ![p] = "user"]
    /\ UNCHANGED <<current_process, process_ready_queue, blocked_pcbs,
                   delayed_pcbs, dead_pcbs, state, delay_ticks, pcb, machine, owed>>

-----------------------------------------------------------------------------
Ready(p) == p \in Range(process_ready_queue)

(* p has at most one entry in the queue s.                                 *)
OnceIn(s, p) == \A i, j \in DOMAIN s : s[i] = p /\ s[j] = p => i = j

(* No live process is ever lost: it runs, is queued, or is in one of the   *)
(* two sets from which the kernel can wake it.  (enqueue_current_process,  *)
(* the wake-ups of ExitHandler and TrapClockHandler)                       *)
Accounted ==
    \A p \in Proc \ {idle_process} :
        Live(p) => \/ p = current_process
                   \/ Ready(p)
                   \/ p \in blocked_pcbs
                   \/ p \in delayed_pcbs

(* The idle process, which ScheduleNextProcess may run without popping it, *)
(* is never scheduled twice: it is not both running and queued, not queued *)
(* twice, and never blocked or asleep.                                     *)
IdleOnce ==
    machine = "up" =>
    /\ Live(idle_process)
    /\ state[idle_process] = "READY"
    /\ kpc[idle_process] = "user"
    /\ idle_process \notin blocked_pcbs \cup delayed_pcbs
    /\ current_process = idle_process => ~Ready(idle_process)
    /\ OnceIn(process_ready_queue, idle_process)

(* A process is in one place only: queued at most once, and neither the    *)
(* running process nor a queued one is also waiting in a set.              *)
OnePlace ==
    /\ \A p \in Proc : OnceIn(process_ready_queue, p)
    /\ current_process # NULL => ~Ready(current_process)
    /\ \A p \in Proc : p = current_process \/ Ready(p)
                       => p \notin blocked_pcbs \cup delayed_pcbs
    /\ blocked_pcbs \cap delayed_pcbs = {}

(* Delay blocks "until at least clock ticks clock interrupts have occurred *)
(* after the call" (process_coordination.h).                               *)
DelayAtLeast ==
    \A p \in Proc : Resume(p, "delay") => owed[p] = 0
=============================================================================
