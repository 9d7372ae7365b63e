--------------------------------- MODULE Tty ---------------------------------
(***************************************************************************)
(* A terminal (input_output.c, tty_state.c and the terminal traps of       *)
(* traps.c), composed with the processes that use it.  Terminals share no  *)
(* state with one another, so one is enough; of a line only its length is  *)
(* kept.                                                                   *)
(*                                                                         *)
(* Two traps of the hardware are steps of their own: they arrive whenever  *)
(* the CPU is in user mode, whichever process runs.                        *)
(***************************************************************************)
EXTENDS Process

CONSTANTS
    TERMINAL_MAX_LINE,
    Lines,          \* the lengths of the lines that are typed
    ReadLengths,    \* the lengths that TtyRead is called with
    Chunks          \* the numbers of transmissions that a TtyWrite needs

ASSUME TtyAssumption ==
    /\ TERMINAL_MAX_LINE \in Nat
    /\ Lines \subseteq 0 .. TERMINAL_MAX_LINE
    /\ ReadLengths \subseteq Nat
    /\ Chunks \subseteq Nat

VARIABLES
    availability,             \* no process writes
    curr_writer,              \* the process that the next transmit trap wakes
    write_queue,              \* processes waiting for availability
    curr_readers,             \* processes waiting for a line
    bytes_available,          \* unread bytes in the buffer of the terminal
    tty_num_bytes_requested,  \* of a process blocked in TtyRead
    chunks_left,              \* transmissions a writer has not started yet
    transmitting,             \* the hardware is sending a chunk
    delivered,                \* history: a line was copied for a waiting reader
    usr_ctx_current           \* usr_ctx of the running process is its live context

ttyState == <<availability, curr_writer, write_queue, curr_readers, bytes_available,
              tty_num_bytes_requested, chunks_left, transmitting, delivered>>
ttyVars == <<procVars, ttyState, usr_ctx_current>>

TtyTypeOK ==
    /\ ProcessTypeOK
    /\ availability \in BOOLEAN
    /\ curr_writer \in Proc \cup {NULL}
    /\ write_queue \in Seq(Proc)
    /\ curr_readers \subseteq Proc
    /\ bytes_available \in 0 .. TERMINAL_MAX_LINE
    /\ tty_num_bytes_requested \in [Proc -> Nat]
    /\ chunks_left \in [Proc -> Nat]
    /\ transmitting \in BOOLEAN
    /\ delivered \in [Proc -> BOOLEAN]
    /\ usr_ctx_current \in BOOLEAN

(* tty_state_init; KernelStart returns to user mode with a fresh context.  *)
TtyInit ==
    /\ ProcessInit
    /\ availability = TRUE
    /\ curr_writer = NULL
    /\ write_queue = <<>>
    /\ curr_readers = {}
    /\ bytes_available = 0
    /\ tty_num_bytes_requested = [p \in Proc |-> 0]
    /\ chunks_left = [p \in Proc |-> 0]
    /\ transmitting = FALSE
    /\ delivered = [p \in Proc |-> FALSE]
    /\ usr_ctx_current = TRUE

-----------------------------------------------------------------------------
(* The user context                                                        *)

(* The running process executes: its context is no longer the saved one.   *)
UserStep(p) ==
    /\ UserMode(p)
    /\ usr_ctx_current' = FALSE
    /\ UNCHANGED <<procVars, ttyState>>

(* The clock trap and the system calls save the context when they enter    *)
(* the kernel, and put a saved one back before they leave it.              *)
ContextSaved == usr_ctx_current' = TRUE

(* The terminal and disk traps put usr_ctx back without having saved it.   *)
ContextRestored == usr_ctx_current' = TRUE

TrapDiskHandler ==
    /\ \E p \in Proc : UserMode(p)
    /\ ContextRestored
    /\ UNCHANGED <<procVars, ttyState>>

-----------------------------------------------------------------------------
(* TtyRead                                                                 *)

Lesser(m, n) == IF m < n THEN m ELSE n

BadConsume(avail, n) == IF n < 1 THEN avail ELSE avail - n   \* no MIN

(* The bytes that are left when tty_buffer_consume is called for n bytes   *)
(* of the avail ones: it refuses more than a line.                         *)
tty_buffer_consume(avail, n) ==
    IF n < 1 \/ n > TERMINAL_MAX_LINE THEN avail ELSE avail - Lesser(n, avail)

(* A bad argument.                                                         *)
TtyError(p) == Syscall(p) /\ ContextSaved /\ UNCHANGED <<procVars, ttyState>>

TtyReadNow(p, n) ==
    /\ Syscall(p)
    /\ bytes_available > 0
    /\ bytes_available' = tty_buffer_consume(bytes_available, n)
    /\ ContextSaved
    /\ UNCHANGED <<procVars, availability, curr_writer, write_queue, curr_readers,
                   tty_num_bytes_requested, chunks_left, transmitting, delivered>>

(* p blocks at point k of its call.                                        *)
BlockIn(p, k) ==
    /\ kpc' = [kpc EXCEPT ![p] = k]
    /\ ScheduleNextProcess(p, process_ready_queue, blocked_pcbs, delayed_pcbs,
           dead_pcbs, [state EXCEPT ![p] = "BLOCKED"], pcb)
    /\ UNCHANGED <<delay_ticks, owed, familyVars, uncollected, staleWake>>

TtyReadBlock(p, n) ==
    /\ Syscall(p)
    /\ bytes_available = 0
    /\ tty_num_bytes_requested' = [tty_num_bytes_requested EXCEPT ![p] = n]
    /\ curr_readers' = curr_readers \cup {p}
    /\ delivered' = [delivered EXCEPT ![p] = FALSE]
    /\ BlockIn(p, "tty_read")
    /\ ContextSaved
    /\ UNCHANGED <<availability, curr_writer, write_queue, bytes_available,
                   chunks_left, transmitting>>

LeaveKernel(p) ==
    /\ kpc' = [kpc EXCEPT ![p] = "user"]
    /\ UNCHANGED <<current_process, process_ready_queue, blocked_pcbs,
                   delayed_pcbs, dead_pcbs, state, delay_ticks, pcb, machine, owed,
                   familyVars, uncollected, staleWake>>

(* p gets what is in the buffer of its PCB.  What it requested is of no    *)
(* use any more and is forgotten here.                                     *)
TtyReadReturn(p) ==
    /\ Resume(p, "tty_read")
    /\ curr_readers' = curr_readers \ {p}
    /\ tty_num_bytes_requested' = [tty_num_bytes_requested EXCEPT ![p] = 0]
    /\ delivered' = [delivered EXCEPT ![p] = FALSE]
    /\ LeaveKernel(p)
    /\ ContextSaved
    /\ UNCHANGED <<availability, curr_writer, write_queue, bytes_available,
                   chunks_left, transmitting>>

BadTtyReceived(n) ==   \* wakes one reader, the others wait on
    LET read == IF curr_readers = {} THEN {} ELSE {CHOOSE p \in curr_readers : TRUE} IN
    /\ bytes_available' = n
    /\ state' = [p \in Proc |-> IF p \in read THEN "READY" ELSE state[p]]
    /\ blocked_pcbs' = blocked_pcbs \ read
    /\ \E w \in Orders(read) : process_ready_queue' = process_ready_queue \o w
    /\ delivered' = [p \in Proc |-> p \in read \/ delivered[p]]
    /\ curr_readers' = curr_readers \ read

(* A line of n bytes replaces what was in the buffer.  All waiting readers *)
(* get it and become ready, and the longest request is taken out of it.    *)
tty_handle_received(n) ==
    LET got(p) == Lesser(tty_num_bytes_requested[p], n)
        read == {p \in curr_readers : state[p] # "DEAD"}
        most == IF read = {} THEN 0
                ELSE CHOOSE m \in {got(p) : p \in read} : \A p \in read : got(p) <= m
    IN
    /\ bytes_available' = tty_buffer_consume(n, most)
    /\ state' = [p \in Proc |-> IF p \in read THEN "READY" ELSE state[p]]
    /\ blocked_pcbs' = blocked_pcbs \ read
    /\ \E w \in Orders(read) : process_ready_queue' = process_ready_queue \o w
    /\ delivered' = [p \in Proc |-> p \in read \/ delivered[p]]
    /\ curr_readers' = {}

(* An empty line is received and dropped.                                  *)
TrapTTYReceiveHandler(n) ==
    /\ \E p \in Proc : UserMode(p)
    /\ IF n < 1
       THEN UNCHANGED <<bytes_available, state, blocked_pcbs, process_ready_queue,
                        delivered, curr_readers>>
       ELSE tty_handle_received(n)
    /\ ContextRestored
    /\ UNCHANGED <<current_process, delayed_pcbs, dead_pcbs, delay_ticks, pcb, kpc,
                   machine, owed, familyVars, uncollected, staleWake,
                   availability, curr_writer, write_queue, tty_num_bytes_requested,
                   chunks_left, transmitting>>

-----------------------------------------------------------------------------
(* TtyWrite                                                                *)

(* The terminal is taken: queue up for it.                                 *)
WaitForTerminal(p, n) ==
    /\ write_queue' = Append(write_queue, p)
    /\ chunks_left' = [chunks_left EXCEPT ![p] = n]
    /\ BlockIn(p, "tty_queue")
    /\ UNCHANGED <<availability, curr_writer, transmitting>>

(* TtyTransmit must not be called while the terminal is still sending.     *)
Transmit(p, n) ==
    /\ availability' = FALSE
    /\ curr_writer' = p
    /\ transmitting' = TRUE
    /\ chunks_left' = [chunks_left EXCEPT ![p] = n - 1]
    /\ UNCHANGED write_queue
    /\ IF transmitting
       THEN /\ machine' = "tty_busy"
            /\ UNCHANGED <<current_process, process_ready_queue, blocked_pcbs, kpc,
                           delayed_pcbs, dead_pcbs, state, delay_ticks, pcb, owed,
                           familyVars, uncollected, staleWake>>
       ELSE BlockIn(p, "tty_write")

BadFinishNoWake(p) ==     \* pops the next writer and does not wake it
    /\ availability' = TRUE
    /\ curr_writer' = NULL
    /\ chunks_left' = [chunks_left EXCEPT ![p] = 0]
    /\ write_queue' = IF write_queue = <<>> THEN <<>> ELSE Tail(write_queue)
    /\ LeaveKernel(p)
    /\ UNCHANGED transmitting

BadFinishKeeps(p) ==      \* wakes the next writer and leaves it in the queue
    /\ availability' = TRUE
    /\ curr_writer' = NULL
    /\ chunks_left' = [chunks_left EXCEPT ![p] = 0]
    /\ UNCHANGED <<transmitting, write_queue>>
    /\ IF write_queue = <<>> THEN LeaveKernel(p)
       ELSE /\ kpc' = [kpc EXCEPT ![p] = "tty_done"]
            /\ ScheduleNextProcess(p, Append(process_ready_queue, Head(write_queue)),
                   blocked_pcbs \ {Head(write_queue)}, delayed_pcbs, dead_pcbs,
                   [state EXCEPT ![Head(write_queue)] = "READY"], pcb)
            /\ UNCHANGED <<delay_ticks, owed, familyVars, uncollected, staleWake>>

(* Nothing is left to send: give the terminal up, wake the next writer and *)
(* let it run first.                                                       *)
FinishWrite(p) ==
    /\ availability' = TRUE
    /\ curr_writer' = NULL
    /\ chunks_left' = [chunks_left EXCEPT ![p] = 0]
    /\ UNCHANGED transmitting
    /\ IF write_queue = <<>>
       THEN UNCHANGED write_queue /\ LeaveKernel(p)
       ELSE LET next == Head(write_queue) IN
            /\ write_queue' = Tail(write_queue)
            /\ kpc' = [kpc EXCEPT ![p] = "tty_done"]
            /\ ScheduleNextProcess(p, Append(process_ready_queue, next),
                   blocked_pcbs \ {next}, delayed_pcbs, dead_pcbs,
                   [state EXCEPT ![next] = "READY"], pcb)
            /\ UNCHANGED <<delay_ticks, owed, familyVars, uncollected, staleWake>>

(* The terminal was found available; n chunks are to be sent.              *)
WriteChunks(p, n) == IF n = 0 THEN FinishWrite(p) ELSE Transmit(p, n)

readerVars == <<curr_readers, bytes_available, tty_num_bytes_requested, delivered>>

BadTtyWriteHandler(p, n) ==   \* does not look at availability
    /\ Syscall(p)
    /\ WriteChunks(p, n)
    /\ ContextSaved
    /\ UNCHANGED readerVars

TtyWriteHandler(p, n) ==
    /\ Syscall(p)
    /\ IF availability THEN WriteChunks(p, n) ELSE WaitForTerminal(p, n)
    /\ ContextSaved
    /\ UNCHANGED readerVars

(* The loop of TtyWriteHandler: another writer may have come first.        *)
TtyWriteAgain(p) ==
    /\ Resume(p, "tty_queue")
    /\ IF availability THEN WriteChunks(p, chunks_left[p])
       ELSE WaitForTerminal(p, chunks_left[p])
    /\ ContextSaved
    /\ UNCHANGED readerVars

TtyWriteNext(p) ==
    /\ Resume(p, "tty_write")
    /\ WriteChunks(p, chunks_left[p])
    /\ ContextSaved
    /\ UNCHANGED readerVars

TtyWriteReturn(p) ==
    /\ Resume(p, "tty_done")
    /\ LeaveKernel(p)
    /\ ContextSaved
    /\ UNCHANGED ttyState

BadTransmitTrap ==   \* does not push the writer on the ready queue
    /\ \E p \in Proc : UserMode(p)
    /\ transmitting
    /\ transmitting' = FALSE
    /\ state' = [state EXCEPT ![curr_writer] = "READY"]
    /\ blocked_pcbs' = blocked_pcbs \ {curr_writer}
    /\ ContextRestored
    /\ UNCHANGED <<current_process, process_ready_queue, delayed_pcbs, dead_pcbs,
                   delay_ticks, pcb, kpc, machine, owed, familyVars, uncollected,
                   staleWake, availability, curr_writer, write_queue, chunks_left,
                   readerVars>>

(* The chunk was sent: its writer becomes ready.                           *)
TrapTTYTransmitHandler ==
    /\ \E p \in Proc : UserMode(p)
    /\ transmitting
    /\ transmitting' = FALSE
    /\ IF curr_writer = NULL
       THEN /\ availability' = TRUE
            /\ UNCHANGED <<state, blocked_pcbs, process_ready_queue>>
       ELSE /\ state' = [state EXCEPT ![curr_writer] = "READY"]
            /\ blocked_pcbs' = blocked_pcbs \ {curr_writer}
            /\ process_ready_queue' = Append(process_ready_queue, curr_writer)
            /\ UNCHANGED availability
    /\ ContextRestored
    /\ UNCHANGED <<current_process, delayed_pcbs, dead_pcbs, delay_ticks, pcb, kpc,
                   machine, owed, familyVars, uncollected, staleWake,
                   curr_writer, write_queue, chunks_left, readerVars>>

-----------------------------------------------------------------------------
TtyCall(p) ==
    \/ TtyError(p)
    \/ \E n \in ReadLengths : TtyReadNow(p, n) \/ TtyReadBlock(p, n)
    \/ \E n \in Chunks : TtyWriteHandler(p, n)

TtyResume(p) ==
    \/ TtyReadReturn(p)
    \/ TtyWriteAgain(p)
    \/ TtyWriteNext(p)
    \/ TtyWriteReturn(p)

TtyNext ==
    \/ ProcessNext /\ ContextSaved /\ UNCHANGED ttyState
    \/ \E p \in Proc : UserStep(p) \/ TtyCall(p) \/ TtyResume(p)
    \/ \E n \in Lines : TrapTTYReceiveHandler(n)
    \/ TrapTTYTransmitHandler
    \/ TrapDiskHandler

TtySpec == TtyInit /\ [][TtyNext]_ttyVars

(* Clock traps keep coming; a handler that gets the CPU back goes on; and  *)
(* the hardware, which keeps a trap pending while the kernel runs,         *)
(* delivers the end of a transmission.                                     *)
TtyFairness ==
    /\ WF_ttyVars(TrapClockHandler /\ ContextSaved
                  /\ UNCHANGED <<familyVars, uncollected, staleWake, ttyState>>)
    /\ SF_ttyVars(TrapTTYTransmitHandler)
    /\ \A p \in Proc :
          /\ WF_ttyVars(DelayReturn(p) /\ ContextSaved
                        /\ UNCHANGED <<familyVars, uncollected, staleWake, ttyState>>)
          /\ WF_ttyVars(WaitResume(p) /\ ContextSaved /\ UNCHANGED ttyState)
          /\ WF_ttyVars(TtyResume(p))

FairTtySpec == TtySpec /\ TtyFairness

-----------------------------------------------------------------------------
Asleep(p, k) == Live(p) /\ kpc[p] = k /\ p \in blocked_pcbs

(* As long as no exit finds a stale waiting flag: a writer sleeps in the   *)
(* middle of its output only while the terminal is sending its chunk, so   *)
(* the trap that wakes it is still to come, and TtyTransmit is never       *)
(* called for two processes at a time.                                     *)
TransmitterWillWake ==
    ~staleWake =>
        /\ machine # "tty_busy"
        /\ \A p \in Proc : Asleep(p, "tty_write") => transmitting /\ curr_writer = p
        /\ transmitting => curr_writer # NULL /\ ~availability
                           /\ Asleep(curr_writer, "tty_write")

(* As long as no exit finds a stale waiting flag: when processes queue for *)
(* a terminal that is available, one that was woken for it is on its way   *)
(* to look again.  A writer that comes first does not make the wake-up     *)
(* disappear (the loop around availability in TtyWriteHandler).            *)
QueuedWriterWillWake ==
    ~staleWake =>
        /\ \A p \in Proc : Asleep(p, "tty_queue") => p \in Range(write_queue)
        /\ write_queue # <<>> /\ availability =>
              \E p \in Proc : kpc[p] = "tty_queue" /\ state[p] = "READY"

(* No line is missed: nobody sleeps in TtyRead while bytes are unread, and *)
(* the next line finds every sleeping reader (tty_handle_received empties  *)
(* the set of readers although TtyReadHandler leaves it too).              *)
SleepingReaderWillWake ==
    \A p \in Proc : Asleep(p, "tty_read") =>
        p \in curr_readers /\ bytes_available = 0

(* As long as no exit finds a stale waiting flag, a TtyRead that slept     *)
(* comes back with a line, not with what an earlier read left in the PCB.  *)
ReadGetsLine ==
    ~staleWake => \A p \in Proc : Resume(p, "tty_read") => delivered[p]

(* A process that has the terminal gets all of its output sent.            *)
WriteEnds ==
    \A p \in Proc : (kpc[p] = "tty_write") ~> (kpc[p] \in {"user", "tty_done"}
                                               \/ machine # "up")

-----------------------------------------------------------------------------
(* What the documentation says and the code does not do.                   *)

(* README.md: each trap "copies the user context before returning to the   *)
(* user": a program that a trap interrupts goes on where it was, not where *)
(* it last left the kernel.                                                *)
ContextKept ==
    [][TrapTTYTransmitHandler \/ TrapDiskHandler \/ (\E n \in Lines : TrapTTYReceiveHandler(n))
          => usr_ctx_current \/ current_process = idle_process]_ttyVars
=============================================================================
