-------------------------------- MODULE Pipe ---------------------------------
(***************************************************************************)
(* A pipe (ipc.c and the pipe part of ipc_wrapper.c), composed with the    *)
(* processes that use it.  Pipes share no state with one another, so one   *)
(* is enough; of its contents only the number of bytes is kept.            *)
(***************************************************************************)
EXTENDS Process

CONSTANTS
    PIPE_BUFFER_LEN,
    Lengths,            \* the lengths that PipeRead and PipeWrite are called with
    MaxReady            \* bound on the ready queue when PipeRead is called

ASSUME PipeAssumption ==
    /\ PIPE_BUFFER_LEN \in Nat
    /\ Lengths \subseteq Nat
    /\ MaxReady \in Nat

VARIABLES
    pipe,                  \* the memory of the pipe
    num_bytes_available,
    readers,               \* pipe->readers, a FIFO queue of PCBs
    writers,               \* pipe->writers, a set of PCBs
    len                    \* the argument len of the call a process is blocked in

pipeVars == <<pipe, num_bytes_available, readers, writers, len>>
pipeSysVars == <<procVars, pipeVars>>

PipeTypeOK ==
    /\ ProcessTypeOK
    /\ pipe \in {"none", "open", "freed"}
    /\ num_bytes_available \in Nat
    /\ readers \in Seq(Proc)
    /\ writers \subseteq Proc
    /\ len \in [Proc -> Nat]

PipeSysInit ==
    /\ ProcessInit
    /\ pipe = "none"
    /\ num_bytes_available = 0
    /\ readers = <<>>
    /\ writers = {}
    /\ len = [p \in Proc |-> 0]

-----------------------------------------------------------------------------
PipeInitHandler(p) ==
    /\ Syscall(p)
    /\ pipe = "none"
    /\ pipe' = "open"
    /\ UNCHANGED <<procVars, num_bytes_available, readers, writers, len>>

(* ERROR: no such pipe, an invalid address, or more bytes than a pipe can  *)
(* ever hold.                                                              *)
PipeError(p) == Syscall(p) /\ UNCHANGED pipeSysVars

(* pipe_delete: whoever is blocked keeps its pointer to the pipe.          *)
ReclaimPipe(p) ==
    /\ Syscall(p)
    /\ pipe = "open"
    /\ pipe' = "freed"
    /\ UNCHANGED <<procVars, num_bytes_available, readers, writers, len>>

(* A system call of p on the pipe, or one that goes on at point k.         *)
PipeCall(p) == Syscall(p) /\ pipe = "open"
PipeResume(p, k) == Resume(p, k) /\ pipe = "open"

(* A call goes on after the pipe was reclaimed: what it reads from freed   *)
(* memory is anything, so is what the kernel does next.                    *)
ResumeFreed(p) ==
    /\ Resume(p, "pipe_read") \/ Resume(p, "pipe_write")
    /\ pipe = "freed"
    /\ machine' = "corrupt"
    /\ UNCHANGED <<current_process, process_ready_queue, blocked_pcbs, delayed_pcbs,
                   dead_pcbs, state, delay_ticks, pcb, kpc, owed, familyVars,
                   uncollected, staleWake, pipeVars>>

(* One iteration of a waiting loop: p blocks at point k of its call, which *)
(* was made with length n.                                                 *)
BlockAt(p, k, n) ==
    /\ kpc' = [kpc EXCEPT ![p] = k]
    /\ len' = [len EXCEPT ![p] = n]
    /\ ScheduleNextProcess(p, process_ready_queue, blocked_pcbs, delayed_pcbs,
           dead_pcbs, [state EXCEPT ![p] = "BLOCKED"], pcb)
    /\ UNCHANGED <<delay_ticks, owed, familyVars, uncollected, staleWake,
                   pipe, num_bytes_available>>

BadWake(p, w) ==   \* does not push them on the ready queue
    /\ state' = [q \in Proc |-> IF q \in Range(w) THEN "READY" ELSE state[q]]
    /\ blocked_pcbs' = blocked_pcbs \ (Range(w) \cup {p})
    /\ UNCHANGED process_ready_queue

(* The processes in the sequence w become ready, in that order, and p      *)
(* leaves blocked_pcbs with them.                                          *)
Wake(p, w) ==
    /\ state' = [q \in Proc |-> IF q \in Range(w) THEN "READY" ELSE state[q]]
    /\ blocked_pcbs' = blocked_pcbs \ (Range(w) \cup {p})
    /\ process_ready_queue' = process_ready_queue \o w

(* The first reader, if there is one.                                      *)
FirstReader == IF readers = <<>> THEN <<>> ELSE <<Head(readers)>>
OtherReaders == IF readers = <<>> THEN <<>> ELSE Tail(readers)

Finish(p) ==
    /\ kpc' = [kpc EXCEPT ![p] = "user"]
    /\ len' = [len EXCEPT ![p] = 0]
    /\ UNCHANGED <<current_process, delayed_pcbs, dead_pcbs, delay_ticks, pcb,
                   machine, owed, familyVars, uncollected, staleWake, pipe>>

-----------------------------------------------------------------------------
(* PipeWrite                                                               *)

Fits(n) == n + num_bytes_available <= PIPE_BUFFER_LEN

(* The bytes are appended and the first reader is made ready.              *)
WriteBytes(p, n) ==
    /\ writers' = writers \ {p}
    /\ num_bytes_available' = num_bytes_available + n
    /\ readers' = OtherReaders
    /\ Wake(NULL, FirstReader)
    /\ Finish(p)

PipeWriteNow(p, n) ==
    PipeCall(p) /\ n <= PIPE_BUFFER_LEN /\ Fits(n) /\ WriteBytes(p, n)

BadPipeWriteBlock(p, n) ==   \* does not store the caller in the set of writers
    /\ PipeCall(p) /\ n <= PIPE_BUFFER_LEN /\ ~Fits(n)
    /\ UNCHANGED <<readers, writers>>
    /\ BlockAt(p, "pipe_write", n)

PipeWriteBlock(p, n) ==
    /\ PipeCall(p) /\ n <= PIPE_BUFFER_LEN /\ ~Fits(n)
    /\ writers' = writers \cup {p}
    /\ UNCHANGED readers
    /\ BlockAt(p, "pipe_write", n)

BadPipeWriteOnce(p) ==       \* if instead of while: does not check again
    PipeResume(p, "pipe_write") /\ WriteBytes(p, len[p])

BadPipeWriteFull(p) ==       \* blocks although the bytes just fit
    /\ PipeResume(p, "pipe_write")
    /\ IF Fits(len[p] + 1) THEN WriteBytes(p, len[p])
       ELSE BlockAt(p, "pipe_write", len[p]) /\ UNCHANGED <<readers, writers>>

PipeWriteResume(p) ==
    /\ PipeResume(p, "pipe_write")
    /\ IF Fits(len[p]) THEN WriteBytes(p, len[p])
       ELSE BlockAt(p, "pipe_write", len[p]) /\ UNCHANGED <<readers, writers>>

-----------------------------------------------------------------------------
(* PipeRead                                                                *)

(* The bytes are taken; if any are left the next reader is made ready, and *)
(* then all waiting writers are.                                           *)
ReadBytes(p, n) ==
    LET rest == num_bytes_available
                   - (IF n < num_bytes_available THEN n ELSE num_bytes_available)
    IN
    /\ num_bytes_available' = rest
    /\ readers' = IF rest > 0 THEN OtherReaders ELSE readers
    /\ UNCHANGED writers
    /\ \E w \in Orders(writers) :
          Wake(p, (IF rest > 0 THEN FirstReader ELSE <<>>) \o w)
    /\ Finish(p)

(* Every read queues the waiting writers once more, so a program that      *)
(* writes and reads lets the ready queue grow without bound.               *)
ReadCall(p) == PipeCall(p) /\ Len(process_ready_queue) <= MaxReady

PipeReadNow(p, n) ==
    ReadCall(p) /\ num_bytes_available >= 1 /\ ReadBytes(p, n)

PipeReadBlock(p, n) ==
    /\ ReadCall(p) /\ num_bytes_available < 1
    /\ readers' = Append(readers, p)
    /\ UNCHANGED writers
    /\ BlockAt(p, "pipe_read", n)

(* A reader that finds the pipe empty again blocks again, but the queue of *)
(* readers does not get it back.                                           *)
PipeReadResume(p) ==
    /\ PipeResume(p, "pipe_read")
    /\ IF num_bytes_available >= 1 THEN ReadBytes(p, len[p])
       ELSE BlockAt(p, "pipe_read", len[p]) /\ UNCHANGED <<readers, writers>>

-----------------------------------------------------------------------------
PipeStep(p) ==
    \/ PipeInitHandler(p)
    \/ PipeError(p)
    \/ ReclaimPipe(p)
    \/ ResumeFreed(p)
    \/ \E n \in Lengths : \/ PipeWriteNow(p, n) \/ PipeWriteBlock(p, n)
                          \/ PipeReadNow(p, n) \/ PipeReadBlock(p, n)
    \/ PipeWriteResume(p)
    \/ PipeReadResume(p)

PipeNext ==
    \/ ProcessNext /\ UNCHANGED pipeVars
    \/ \E p \in Proc : PipeStep(p)

PipeSpec == PipeSysInit /\ [][PipeNext]_pipeSysVars

(* Clock traps keep coming, and a handler that gets the CPU back goes on.  *)
PipeFairness ==
    /\ WF_pipeSysVars(TrapClockHandler
                      /\ UNCHANGED <<familyVars, uncollected, staleWake, pipeVars>>)
    /\ \A p \in Proc :
          /\ WF_pipeSysVars(DelayReturn(p)
                            /\ UNCHANGED <<familyVars, uncollected, staleWake, pipeVars>>)
          /\ WF_pipeSysVars(WaitResume(p) /\ UNCHANGED pipeVars)
          /\ WF_pipeSysVars(PipeWriteResume(p))
          /\ WF_pipeSysVars(PipeReadResume(p))
          /\ WF_pipeSysVars(ResumeFreed(p))

FairPipeSpec == PipeSpec /\ PipeFairness

-----------------------------------------------------------------------------
(* The buffer never overflows: a writer that slept while others wrote      *)
(* checks the room again before it copies (pipe_write).                    *)
PipeBounded == num_bytes_available <= PIPE_BUFFER_LEN

(* No wake-up of a writer is lost: one that sleeps still has no room, and  *)
(* the next read will find it in the set of writers (pipe_read).           *)
SleepingWriterHasNoRoom ==
    pipe = "open" =>
        \A p \in Proc : Live(p) /\ kpc[p] = "pipe_write" /\ state[p] = "BLOCKED" =>
            ~Fits(len[p]) /\ p \in writers

(* A write whose bytes fit finishes, unless others fill the pipe first.    *)
FittingWriteEnds ==
    \A p \in Proc :
        (pipe = "open" /\ kpc[p] = "pipe_write" /\ Fits(len[p]))
            ~> (kpc[p] = "user" \/ ~Fits(len[p]) \/ pipe = "freed" \/ machine # "up")

-----------------------------------------------------------------------------
(* What the documentation says and the code does not do.                   *)

(* README.md: a pipe "keeps a queue of processes waiting to read".         *)
SleepingReadersQueued ==
    pipe = "open" =>
        \A p \in Proc : Live(p) /\ kpc[p] = "pipe_read" /\ state[p] = "BLOCKED"
                            => p \in Range(readers)
=============================================================================
