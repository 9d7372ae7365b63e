------------------------------ MODULE TtyProofs ------------------------------
(***************************************************************************)
(* Theorems about Tty, for any set of PCBs, any TERMINAL_MAX_LINE, any     *)
(* lines that are typed and any calls of TtyRead and TtyWrite.             *)
(*                                                                         *)
(* Readers and writers of a terminal sleep in calls that three other       *)
(* actors can end: the two traps of the terminal, and an exit that finds a *)
(* stale waiting flag.  Only after the last one may a set or a queue of    *)
(* the terminal hold a process that is not asleep.                         *)
(***************************************************************************)
EXTENDS Tty, CallProofs

(* Whatever happened, a reader is in TtyRead and a writer exists.          *)
ReadersInCall == \A p \in curr_readers : kpc[p] = "tty_read"

WritersExist ==
    \A p \in Proc : p = curr_writer \/ p \in Range(write_queue) =>
        p # idle_process /\ pcb[p] # "unused"

(* The readers are asleep; one that is awake has its line.                 *)
ReadersAsleep ==
    /\ curr_readers \subseteq blocked_pcbs
    /\ \A p \in Proc : kpc[p] = "tty_read" => p \in curr_readers \/ delivered[p]

(* At most one process is in the middle of its output: it is curr_writer,  *)
(* the terminal is not available, and it sleeps exactly while the terminal *)
(* is sending.                                                             *)
OneTransmitter ==
    /\ \A p \in Proc : Live(p) /\ kpc[p] = "tty_write" =>
          /\ curr_writer = p /\ ~availability
          /\ p \in blocked_pcbs => transmitting
    /\ transmitting => curr_writer # NULL /\ ~availability
                       /\ Asleep(curr_writer, "tty_write")

(* The queue holds those who sleep in it, once each.                       *)
QueueAsleep ==
    /\ \A p \in Proc : OnceIn(write_queue, p)
    /\ \A p \in Range(write_queue) : kpc[p] = "tty_queue" /\ p \in blocked_pcbs

ReaderInv ==
    /\ ReadersInCall
    /\ SleepingReaderWillWake
    /\ ~staleWake => ReadersAsleep

WriterInv ==
    /\ WritersExist
    /\ ~staleWake => OneTransmitter /\ QueueAsleep /\ QueuedWriterWillWake

TtyInv ==
    /\ TtyTypeOK
    /\ Inv
    /\ ReaderInv
    /\ WriterInv
    /\ ~staleWake => machine # "tty_busy"

-----------------------------------------------------------------------------
(* A writer that gives the terminal up makes the next one ready and calls  *)
(* the scheduler: Inv is kept.                                             *)
LEMMA InvYield ==
    ASSUME Inv, NEW p \in Proc, machine = "up", current_process = p, p # idle_process,
           NEW n \in Proc, n # idle_process, pcb[n] # "unused",
           ~staleWake => n \in blocked_pcbs /\ kpc[n] # "delay",
           NEW k \in OtherCalls, kpc' = [kpc EXCEPT ![p] = k],
           UNCHANGED <<delay_ticks, owed, familyVars, uncollected, staleWake>>,
           ScheduleNextProcess(p, Append(process_ready_queue, n), blocked_pcbs \ {n},
                               delayed_pcbs, dead_pcbs, [state EXCEPT ![n] = "READY"], pcb)
    PROVE  /\ Inv' /\ pcb' = pcb
           /\ \A q \in Proc : state'[q] = IF q = n THEN "READY" ELSE state[q]
           /\ \A q \in Proc : kpc'[q] = IF q = p THEN k ELSE kpc[q]
           /\ blocked_pcbs' \subseteq blocked_pcbs \cup {p}
           /\ ~staleWake => machine' = "up" /\ blocked_pcbs' = blocked_pcbs \ {n}
  <1> DEFINE st == [state EXCEPT ![n] = "READY"]
             rq == Append(process_ready_queue, n)
             bl == blocked_pcbs \ {n}
  <1>1. /\ k \in KernelPoints /\ k \notin {"user", "wait", "delay"}
        /\ parent' = parent /\ children' = children /\ zombies' = zombies
        /\ waiting' = waiting /\ child_exit_status' = child_exit_status
        /\ uncollected' = uncollected /\ staleWake' = staleWake
        /\ delay_ticks' = delay_ticks /\ owed' = owed
    BY DEF OtherCalls, familyVars
  <1>2. /\ process_ready_queue \in Seq(Proc) /\ state \in [Proc -> States]
        /\ pcb \in [Proc -> Memory] /\ machine \in MachineStates
        /\ blocked_pcbs \in SUBSET Proc /\ delayed_pcbs \in SUBSET Proc
        /\ dead_pcbs \in SUBSET Proc
    BY DEF Inv, ProcessTypeOK, SchedTypeOK
  <1>3. /\ rq \in Seq(Proc) /\ Range(rq) = Range(process_ready_queue) \cup {n}
        /\ \A x : OnceIn(process_ready_queue, x) /\ (x = n => x \notin Range(process_ready_queue))
                      => OnceIn(rq, x)
    BY <1>2, PushLemma
  <1>4. /\ st \in [Proc -> States] /\ bl \in SUBSET Proc
        /\ \A q \in Proc : st[q] = IF q = n THEN "READY" ELSE state[q]
        /\ \A q \in Proc : kpc'[q] = IF q = p THEN k ELSE kpc[q]
        /\ kpc' \in [Proc -> KernelPoints]
    BY <1>1, <1>2 DEF States, Inv, ProcessTypeOK, SchedTypeOK
  <1>5. ScheduleNextProcess(p, rq, bl, delayed_pcbs, dead_pcbs, st, pcb)
    OBVIOUS
  <1> HIDE DEF st, rq, bl
  <1>6. ScheduleFacts(p, rq, bl, delayed_pcbs, dead_pcbs, st, pcb)
    BY <1>2, <1>3, <1>4, <1>5, ScheduleLemma
  <1>7. /\ current_process' \in Proc \cup {NULL} /\ process_ready_queue' \in Seq(Proc)
        /\ blocked_pcbs' \subseteq Proc /\ delayed_pcbs' \subseteq Proc
        /\ dead_pcbs' \subseteq Proc
        /\ state' = st /\ pcb' = pcb /\ machine' \in MachineStates
        /\ machine' = "up" => current_process' \in Proc /\ pcb[current_process'] = "live"
    <2>1. p \in Proc \cup {NULL} /\ bl \in SUBSET Proc
      BY <1>4
    <2> QED
      BY <1>2, <1>6, <2>1, ScheduleTypes
  <1>8. Live(p) /\ state[p] # "DEAD" /\ st[p] # "DEAD" /\ st[p] \in States
    BY <1>4 DEF Inv, Alive
  <1>9. /\ dead_pcbs' = dead_pcbs
        /\ blocked_pcbs' = Park(p, bl, st, "BLOCKED")
        /\ delayed_pcbs' = Park(p, delayed_pcbs, st, "DELAYED")
    BY <1>6, <1>8 DEF ScheduleFacts, Park
  <1>10. ProcessTypeOK'
    <2>1. SchedTypeOK'
      BY <1>1, <1>4, <1>7 DEF Inv, ProcessTypeOK, SchedTypeOK
    <2> QED
      BY <1>1, <2>1 DEF Inv, ProcessTypeOK
  <1>11. Alive'
    BY <1>4, <1>7 DEF Inv, Alive, Live
  <1>12. UnusedFresh'
    <2> SUFFICES ASSUME NEW q \in Proc, pcb[q] = "unused"
                 PROVE  /\ zombies[q] = <<>> /\ st[q] = "READY" /\ kpc'[q] = "user"
                        /\ q # current_process' /\ q \notin Range(process_ready_queue')
                        /\ q \notin blocked_pcbs' \cup delayed_pcbs'
      BY <1>1, <1>7 DEF UnusedFresh, Ready
    <2>1. /\ q # n /\ q # p /\ q # idle_process /\ q \notin Range(process_ready_queue)
          /\ q \notin blocked_pcbs \cup delayed_pcbs
          /\ zombies[q] = <<>> /\ state[q] = "READY" /\ kpc[q] = "user"
      BY <1>8 DEF Inv, UnusedFresh, Alive, Ready, Live
    <2>2. ~Runnable(q, p, rq, st)
      BY <1>3, <2>1 DEF Runnable
    <2>3. q # current_process' /\ q \notin Range(process_ready_queue')
      BY <1>6, <2>1, <2>2 DEF ScheduleFacts
    <2>4. q \notin blocked_pcbs' \cup delayed_pcbs'
      BY <1>9, <2>1 DEF Park, bl
    <2> QED
      BY <1>4, <2>1, <2>3, <2>4
  <1>13. Accounted'
    <2>1. \A q \in Proc \ {idle_process} : pcb[q] = "live" =>
             \/ q = p /\ st[q] \in {"READY", "BLOCKED", "DELAYED"}
             \/ q \in Range(rq) \/ q \in bl \/ q \in delayed_pcbs
      BY <1>3, <1>8 DEF Inv, Accounted, Ready, Live, States, bl
    <2> QED
      BY <1>6, <2>1, ScheduleAccounted
  <1>14. IdleOnce'
    <2>1. /\ pcb[idle_process] = "live" /\ st[idle_process] = "READY"
          /\ kpc'[idle_process] = "user" /\ idle_process \notin bl \cup delayed_pcbs
          /\ OnceIn(rq, idle_process)
      BY <1>3, <1>4, SchedulerAssumption DEF Inv, IdleOnce, Live, bl
    <2> QED
      BY <1>6, <2>1, ScheduleIdle
  <1>15. ZombiesAllocated' /\ Family' /\ WaitAnnounced' /\ WaiterHasChild'
    <2>1. ZombiesAllocated' /\ Family'
      BY <1>1, <1>7, <1>9 DEF Inv, ZombiesAllocated, Family, Live
    <2>2. \A q \in Proc : (kpc'[q] = "wait" => kpc[q] = "wait") /\ (InWait(q)' => InWait(q))
      BY <1>1, <1>4, <1>7 DEF InWait
    <2>3. WaitAnnounced' /\ WaiterHasChild'
      BY <1>1, <1>7, <2>2 DEF Inv, WaitAnnounced, WaiterHasChild, Live
    <2> QED
      BY <2>1, <2>3
  <1>16. ASSUME ~staleWake
         PROVE  Places' /\ machine' = "up" /\ blocked_pcbs' = blocked_pcbs \ {n}
    <2>1. /\ pcb[n] = "live" /\ state[n] = "BLOCKED" /\ ~Ready(n) /\ n # p
          /\ n \notin delayed_pcbs /\ state[p] = "READY" /\ ~Ready(p)
      BY <1>16 DEF Inv, Places, Live
    <2>2. PlacesBefore(p, rq, bl, delayed_pcbs, st, pcb)
      <3>1. \A q \in Proc : OnceIn(rq, q)
        BY <1>3, <1>16, <2>1 DEF Inv, Places, Ready
      <3>2. \A q \in Proc : q \in Range(rq) => pcb[q] = "live" /\ st[q] = "READY"
        BY <1>3, <1>4, <1>16, <2>1 DEF Inv, Places, Ready, Live
      <3>3. /\ \A q \in bl : pcb[q] = "live" /\ st[q] = "BLOCKED"
            /\ \A q \in delayed_pcbs : pcb[q] = "live" /\ st[q] = "DELAYED"
        BY <1>2, <1>4, <1>16, <2>1 DEF Inv, Places, Live, bl
      <3>4. pcb[p] = "live" /\ p \notin Range(rq)
        BY <1>3, <1>8, <2>1 DEF Live, Ready
      <3>5. pcb[idle_process] = "live" /\ st[idle_process] = "READY"
        BY <1>4, SchedulerAssumption DEF Inv, IdleOnce, Live
      <3> QED
        BY <3>1, <3>2, <3>3, <3>4, <3>5 DEF PlacesBefore
    <2>3. st[p] = "READY"
      BY <1>4, <2>1
    <2>4. blocked_pcbs' = bl /\ delayed_pcbs' = delayed_pcbs
      BY <1>9, <2>3 DEF Park
    <2>5. machine' = "up" /\ PlacesAfter
      BY <1>6, <2>2, SchedulePlaces
    <2>6. \A r \in delayed_pcbs' : owed'[r] <= delay_ticks'[r]
      BY <1>1, <1>16, <2>4 DEF Inv, Places
    <2>7. \A r \in Proc : pcb'[r] = "live" /\ kpc'[r] = "delay" /\ r \notin delayed_pcbs'
                              => owed'[r] = 0
      BY <1>1, <1>4, <1>7, <1>16, <2>4 DEF Inv, Places, Live
    <2> QED
      BY <2>4, <2>5, <2>6, <2>7, PlacesStep DEF bl
  <1>17. Places'
    BY <1>1, <1>16 DEF Places
  <1>18. blocked_pcbs' \subseteq blocked_pcbs \cup {p}
    BY <1>9 DEF Park, bl
  <1> QED
    BY <1>4, <1>7, <1>10, <1>11, <1>12, <1>13, <1>14, <1>15, <1>16, <1>17, <1>18 DEF Inv

-----------------------------------------------------------------------------
(* A step that leaves the calls in ks alone: at most it makes processes in *)
(* them ready, and takes them out of blocked_pcbs only after a stale flag. *)
LeavesAlone(ks) ==
    /\ \A p \in Proc : kpc[p] \in ks \/ kpc'[p] \in ks =>
          /\ kpc'[p] = kpc[p]
          /\ state'[p] = state[p] \/ state'[p] = "READY"
          /\ p \in blocked_pcbs' => p \in blocked_pcbs
          /\ p \in blocked_pcbs => p \in blocked_pcbs' \/ staleWake'
    /\ \A p \in Proc : pcb'[p] = "live" => pcb[p] \in {"live", "unused"}
    /\ \A p \in Proc : pcb[p] # "unused" => pcb'[p] # "unused"
    /\ staleWake => staleWake'

LEMMA CallsLeftAlone ==
    ASSUME CallsKept, NEW ks \in SUBSET OtherCalls
    PROVE  LeavesAlone(ks)
  BY DEF CallsKept, LeavesAlone

LEMMA ReadersKept ==
    ASSUME TtyInv, LeavesAlone({"tty_read"}), UNCHANGED readerVars
    PROVE  ReaderInv'
  <1>1. UNCHANGED <<curr_readers, bytes_available, delivered>>
    BY DEF readerVars
  <1>2. \A p \in Proc : kpc'[p] = "tty_read" <=> kpc[p] = "tty_read"
    BY DEF LeavesAlone
  <1>3. curr_readers \subseteq Proc
    BY DEF TtyInv, TtyTypeOK
  <1>4. ReadersInCall'
    BY <1>1, <1>2, <1>3 DEF TtyInv, ReaderInv, ReadersInCall
  <1>5. SleepingReaderWillWake'
    <2> SUFFICES ASSUME NEW p \in Proc, pcb'[p] = "live", kpc'[p] = "tty_read",
                        p \in blocked_pcbs'
                 PROVE  p \in curr_readers /\ bytes_available = 0
      BY <1>1 DEF SleepingReaderWillWake, Asleep, Live
    <2>1. kpc[p] = "tty_read" /\ p \in blocked_pcbs /\ pcb[p] \in {"live", "unused"}
      BY <1>2 DEF LeavesAlone
    <2>2. pcb[p] = "live"
      BY <2>1 DEF TtyInv, Inv, UnusedFresh
    <2> QED
      BY <2>1, <2>2 DEF TtyInv, ReaderInv, SleepingReaderWillWake, Asleep, Live
  <1>6. ASSUME ~staleWake'
        PROVE  ReadersAsleep'
    <2>1. ReadersAsleep
      BY <1>6 DEF LeavesAlone, TtyInv, ReaderInv
    <2>2. \A p \in curr_readers : kpc[p] = "tty_read"
      BY DEF TtyInv, ReaderInv, ReadersInCall
    <2>3. \A p \in curr_readers : p \in blocked_pcbs'
      BY <1>3, <1>6, <2>1, <2>2 DEF ReadersAsleep, LeavesAlone
    <2> QED
      BY <1>1, <1>2, <2>1, <2>3 DEF ReadersAsleep
  <1> QED
    BY <1>4, <1>5, <1>6 DEF ReaderInv

LEMMA WritersKept ==
    ASSUME TtyInv, Inv', LeavesAlone({"tty_queue", "tty_write"}),
           UNCHANGED <<availability, curr_writer, write_queue, transmitting>>
    PROVE  WriterInv'
  <1>1. /\ \A p \in Proc : kpc'[p] = "tty_queue" <=> kpc[p] = "tty_queue"
        /\ \A p \in Proc : kpc'[p] = "tty_write" <=> kpc[p] = "tty_write"
    BY DEF LeavesAlone
  <1>2. /\ Range(write_queue) \subseteq Proc /\ curr_writer \in Proc \cup {NULL}
    BY DEF TtyInv, TtyTypeOK, Range
  <1>3. WritersExist'
    BY DEF TtyInv, WriterInv, WritersExist, LeavesAlone
  <1>4. ASSUME ~staleWake'
        PROVE  OneTransmitter' /\ QueueAsleep' /\ QueuedWriterWillWake'
    <2>1. OneTransmitter /\ QueueAsleep /\ QueuedWriterWillWake /\ ~staleWake
      BY <1>4 DEF LeavesAlone, TtyInv, WriterInv
    <2>2. \A p \in Proc : kpc[p] \in {"tty_queue", "tty_write"} =>
             /\ p \in blocked_pcbs' <=> p \in blocked_pcbs
             /\ pcb'[p] = "live" => pcb[p] = "live"
      <3>1. \A p \in Proc : kpc[p] \in {"tty_queue", "tty_write"} => pcb[p] # "unused"
        BY DEF TtyInv, Inv, UnusedFresh
      <3>2. \A p \in Proc : pcb'[p] = "live" => pcb[p] \in {"live", "unused"}
        BY DEF LeavesAlone
      <3>3. \A p \in Proc : kpc[p] \in {"tty_queue", "tty_write"} =>
               (p \in blocked_pcbs' <=> p \in blocked_pcbs)
        BY <1>4 DEF LeavesAlone
      <3> QED
        BY <3>1, <3>2, <3>3
    <2>3. QueueAsleep'
      BY <1>1, <1>2, <2>1, <2>2 DEF QueueAsleep
    <2>4. OneTransmitter'
      <3>1. \A p \in Proc : pcb'[p] = "live" /\ kpc'[p] = "tty_write" =>
               /\ curr_writer = p /\ ~availability
               /\ p \in blocked_pcbs' => transmitting
        BY <1>1, <2>1, <2>2 DEF OneTransmitter, Live
      <3>2. ASSUME transmitting
            PROVE  /\ curr_writer # NULL /\ ~availability
                   /\ pcb'[curr_writer] = "live" /\ kpc'[curr_writer] = "tty_write"
                   /\ curr_writer \in blocked_pcbs'
        <4>1. /\ curr_writer # NULL /\ ~availability /\ curr_writer \in Proc
              /\ kpc[curr_writer] = "tty_write" /\ curr_writer \in blocked_pcbs
          BY <1>2, <2>1, <3>2 DEF OneTransmitter, Asleep, Live
        <4>2. pcb'[curr_writer] = "live"
          BY <1>4, <2>2, <4>1 DEF Inv, Places, Live
        <4> QED
          BY <1>1, <2>2, <4>1, <4>2
      <3> QED
        BY <3>1, <3>2 DEF OneTransmitter, Asleep, Live
    <2>5. QueuedWriterWillWake'
      <3>1. \A p \in Proc : pcb'[p] = "live" /\ kpc'[p] = "tty_queue" /\ p \in blocked_pcbs'
                                => p \in Range(write_queue)
        BY <1>1, <2>1, <2>2 DEF QueuedWriterWillWake, Asleep, Live
      <3>2. ASSUME write_queue # <<>>, availability
            PROVE  \E p \in Proc : kpc'[p] = "tty_queue" /\ state'[p] = "READY"
        <4>1. PICK p \in Proc : kpc[p] = "tty_queue" /\ state[p] = "READY"
          BY <2>1, <3>2 DEF QueuedWriterWillWake
        <4>2. kpc'[p] = "tty_queue" /\ state'[p] = "READY"
          BY <4>1 DEF LeavesAlone
        <4> QED
          BY <4>2
      <3> QED
        BY <3>1, <3>2 DEF QueuedWriterWillWake, Asleep, Live
    <2> QED
      BY <2>3, <2>4, <2>5
  <1> QED
    BY <1>3, <1>4 DEF WriterInv

-----------------------------------------------------------------------------
LEMMA TtyInvInit == TtyInit => TtyInv
  <1> SUFFICES ASSUME TtyInit
               PROVE  TtyInv
    OBVIOUS
  <1>1. Inv
    BY InitInv DEF TtyInit
  <1>2. TtyTypeOK
    <2>1. 0 \in 0 .. TERMINAL_MAX_LINE /\ <<>> \in Seq(Proc)
      BY TtyAssumption, EmptySeq
    <2>2. ProcessTypeOK
      BY <1>1 DEF Inv
    <2> QED
      BY <2>1, <2>2 DEF TtyInit, TtyTypeOK
  <1>3. ReaderInv /\ machine # "tty_busy"
    BY DEF TtyInit, ProcessInit, ReaderInv, ReadersInCall, SleepingReaderWillWake, Asleep,
       ReadersAsleep
  <1>4. WriterInv
    <2>1. WritersExist /\ OneTransmitter
      BY RangeEmpty, SchedulerAssumption DEF TtyInit, ProcessInit, WritersExist, OneTransmitter
    <2>2. QueueAsleep /\ QueuedWriterWillWake
      BY RangeEmpty, EmptySeq DEF TtyInit, ProcessInit, QueueAsleep, QueuedWriterWillWake,
         OnceIn, Asleep
    <2> QED
      BY <2>1, <2>2 DEF WriterInv
  <1> QED
    BY <1>1, <1>2, <1>3, <1>4 DEF TtyInv

(* The steps of Process, and those that change no more than the context.   *)
LEMMA TtyProcess ==
    ASSUME TtyInv, ProcessNext \/ UNCHANGED procVars, UNCHANGED ttyState,
           usr_ctx_current' \in BOOLEAN
    PROVE  TtyInv'
  <1>1. Inv' /\ CallsKept
    BY NextInv, NextCalls, StutterCalls DEF TtyInv, Inv
  <1>2. /\ UNCHANGED readerVars
        /\ UNCHANGED <<availability, curr_writer, write_queue, curr_readers, bytes_available,
                       tty_num_bytes_requested, chunks_left, transmitting, delivered>>
    BY DEF ttyState, readerVars
  <1>3. TtyTypeOK'
    BY <1>1, <1>2 DEF TtyInv, TtyTypeOK, Inv
  <1>4. {"tty_read"} \subseteq OtherCalls /\ {"tty_queue", "tty_write"} \subseteq OtherCalls
    BY DEF OtherCalls, KernelPoints
  <1>5. LeavesAlone({"tty_read"}) /\ LeavesAlone({"tty_queue", "tty_write"})
    BY <1>1, <1>4, CallsLeftAlone
  <1>6. ReaderInv' /\ WriterInv'
    BY <1>1, <1>2, <1>5, ReadersKept, WritersKept
  <1>7. ~staleWake' => machine' # "tty_busy"
    BY <1>1 DEF TtyInv, CallsKept
  <1> QED
    BY <1>1, <1>3, <1>6, <1>7 DEF TtyInv

(* What a call knows of its caller p.                                      *)
LEMMA CallerAwake ==
    ASSUME TtyInv, NEW p \in Proc, machine = "up", current_process = p
    PROVE  /\ kpc[p] # "user" => p # idle_process
           /\ Live(p)
           /\ ~staleWake => /\ p \notin blocked_pcbs /\ state[p] = "READY"
                            /\ p \notin curr_readers /\ p \notin Range(write_queue)
  <1>1. (kpc[p] # "user" => p # idle_process) /\ Live(p)
    BY DEF TtyInv, Inv, IdleOnce, Alive
  <1>2. ASSUME ~staleWake
        PROVE  p \notin blocked_pcbs /\ state[p] = "READY"
    BY <1>2 DEF TtyInv, Inv, Places
  <1>3. ASSUME ~staleWake
        PROVE  p \notin curr_readers /\ p \notin Range(write_queue)
    BY <1>2, <1>3 DEF TtyInv, ReaderInv, WriterInv, ReadersAsleep, QueueAsleep
  <1> QED
    BY <1>1, <1>2, <1>3

-----------------------------------------------------------------------------
(* TtyRead                                                                 *)

(* The bytes that tty_buffer_consume leaves are part of a line.            *)
LEMMA ConsumeBounds ==
    ASSUME NEW a \in 0 .. TERMINAL_MAX_LINE, NEW n \in Nat
    PROVE  tty_buffer_consume(a, n) \in 0 .. TERMINAL_MAX_LINE
  BY TtyAssumption DEF tty_buffer_consume, Lesser

LEMMA TtyReadNowStep ==
    ASSUME TtyInv, NEW p \in Proc, NEW n \in Nat, TtyReadNow(p, n)
    PROVE  TtyInv'
  <1>1. /\ bytes_available > 0
        /\ bytes_available' = tty_buffer_consume(bytes_available, n)
        /\ usr_ctx_current' = TRUE
        /\ UNCHANGED procVars
        /\ UNCHANGED <<state, blocked_pcbs, pcb, kpc, staleWake, machine>>
        /\ UNCHANGED <<availability, curr_writer, write_queue, curr_readers,
                       tty_num_bytes_requested, chunks_left, transmitting, delivered>>
    BY DEF TtyReadNow, ContextSaved, procVars, schedVars
  <1>2. Inv'
    BY <1>1, StutterStep DEF TtyInv
  <1>3. bytes_available' \in 0 .. TERMINAL_MAX_LINE
    BY <1>1, ConsumeBounds DEF TtyInv, TtyTypeOK
  <1>4. TtyTypeOK'
    BY <1>1, <1>2, <1>3 DEF TtyInv, TtyTypeOK, Inv
  <1>5. ReaderInv'
    <2>1. \A q \in Proc : ~Asleep(q, "tty_read")
      BY <1>1 DEF TtyInv, TtyTypeOK, ReaderInv, SleepingReaderWillWake
    <2> QED
      BY <1>1, <2>1 DEF TtyInv, ReaderInv, ReadersInCall, SleepingReaderWillWake, ReadersAsleep,
         Asleep, Live
  <1>6. WriterInv'
    BY <1>1, <1>2, WritersKept DEF LeavesAlone
  <1> QED
    BY <1>1, <1>2, <1>4, <1>5, <1>6 DEF TtyInv

LEMMA TtyReadBlockStep ==
    ASSUME TtyInv, NEW p \in Proc, NEW n \in Nat, TtyReadBlock(p, n)
    PROVE  TtyInv'
  <1>1. /\ machine = "up" /\ current_process = p /\ p # idle_process /\ kpc[p] = "user"
        /\ bytes_available = 0
        /\ tty_num_bytes_requested' = [tty_num_bytes_requested EXCEPT ![p] = n]
        /\ curr_readers' = curr_readers \cup {p}
        /\ delivered' = [delivered EXCEPT ![p] = FALSE]
        /\ usr_ctx_current' = TRUE
        /\ kpc' = [kpc EXCEPT ![p] = "tty_read"]
        /\ ScheduleNextProcess(p, process_ready_queue, blocked_pcbs, delayed_pcbs,
                               dead_pcbs, [state EXCEPT ![p] = "BLOCKED"], pcb)
        /\ UNCHANGED <<delay_ticks, owed, familyVars, uncollected, staleWake>>
        /\ UNCHANGED <<availability, curr_writer, write_queue, bytes_available,
                       chunks_left, transmitting>>
    BY DEF TtyReadBlock, BlockIn, ContextSaved, Syscall, UserMode
  <1>2. "tty_read" \in OtherCalls
    BY DEF OtherCalls, KernelPoints
  <1>3. /\ Inv'
        /\ blocked_pcbs' = blocked_pcbs \cup {p} /\ pcb' = pcb
        /\ \A q \in Proc : state'[q] = IF q = p THEN "BLOCKED" ELSE state[q]
        /\ \A q \in Proc : kpc'[q] = IF q = p THEN "tty_read" ELSE kpc[q]
        /\ machine' \in {"up", "bad_switch"}
    BY <1>1, <1>2, InvBlock DEF TtyInv
  <1>4. TtyTypeOK' /\ \A q \in Proc \ {p} : delivered'[q] = delivered[q]
    BY <1>1, <1>3 DEF TtyInv, TtyTypeOK, Inv
  <1>5. ReaderInv'
    <2>1. curr_readers \subseteq Proc
      BY DEF TtyInv, TtyTypeOK
    <2>2. ReadersInCall' /\ SleepingReaderWillWake'
      BY <1>1, <1>3, <2>1 DEF TtyInv, ReaderInv, ReadersInCall, SleepingReaderWillWake, Asleep,
         Live
    <2>3. ~staleWake => ReadersAsleep'
      BY <1>1, <1>3, <1>4 DEF TtyInv, ReaderInv, ReadersAsleep
    <2> QED
      BY <1>1, <2>2, <2>3 DEF ReaderInv
  <1>6. LeavesAlone({"tty_queue", "tty_write"})
    BY <1>1, <1>3 DEF LeavesAlone
  <1>7. WriterInv'
    BY <1>1, <1>3, <1>6, WritersKept
  <1> QED
    BY <1>3, <1>4, <1>5, <1>7 DEF TtyInv

LEMMA TtyReadReturnStep ==
    ASSUME TtyInv, NEW p \in Proc, TtyReadReturn(p)
    PROVE  TtyInv'
  <1>1. /\ machine = "up" /\ current_process = p /\ kpc[p] = "tty_read"
        /\ curr_readers' = curr_readers \ {p}
        /\ tty_num_bytes_requested' = [tty_num_bytes_requested EXCEPT ![p] = 0]
        /\ delivered' = [delivered EXCEPT ![p] = FALSE]
        /\ usr_ctx_current' = TRUE
        /\ kpc' = [kpc EXCEPT ![p] = "user"]
        /\ UNCHANGED <<current_process, process_ready_queue, blocked_pcbs, delayed_pcbs,
                       dead_pcbs, state, delay_ticks, pcb, machine, owed, familyVars,
                       uncollected, staleWake>>
        /\ UNCHANGED <<availability, curr_writer, write_queue, bytes_available,
                       chunks_left, transmitting>>
    BY DEF TtyReadReturn, LeaveKernel, ContextSaved, Resume
  <1>2. p # idle_process
    BY <1>1, CallerAwake
  <1>3. Inv'
    BY <1>1, <1>2, InvMove DEF TtyInv
  <1>4. /\ TtyTypeOK' /\ \A q \in Proc \ {p} : delivered'[q] = delivered[q]
        /\ \A q \in Proc : kpc'[q] = IF q = p THEN "user" ELSE kpc[q]
    BY <1>1, <1>3 DEF TtyInv, TtyTypeOK, Inv, ProcessTypeOK, SchedTypeOK
  <1>5. ReaderInv'
    <2>1. curr_readers \subseteq Proc
      BY DEF TtyInv, TtyTypeOK
    <2> QED
      BY <1>1, <1>4, <2>1 DEF TtyInv, ReaderInv, ReadersInCall, SleepingReaderWillWake,
         ReadersAsleep, Asleep, Live
  <1>6. LeavesAlone({"tty_queue", "tty_write"})
    BY <1>1, <1>4 DEF LeavesAlone
  <1>7. WriterInv'
    BY <1>1, <1>3, <1>6, WritersKept
  <1> QED
    BY <1>1, <1>3, <1>4, <1>5, <1>7 DEF TtyInv

(* A nonempty set of natural numbers has a least element.                  *)
LEMMA LeastNumber ==
    ASSUME NEW T \in SUBSET Nat, T # {}
    PROVE  \E x \in T : \A y \in T : x <= y
  <1> DEFINE R == OpToRel(<, Nat)
  <1>1. IsWellFoundedOn(R, Nat)
    BY NatLessThanWellFounded
  <1>2. \A x, y \in Nat : <<y, x>> \in R <=> y < x
    BY DEF OpToRel
  <1> HIDE DEF R
  <1>3. \E x \in T : \A y \in T : ~(<<y, x>> \in R)
    BY <1>1, WFMin
  <1>4. PICK x \in T : \A y \in T : ~(<<y, x>> \in R)
    BY <1>3
  <1>5. \A y \in T : x \in Nat /\ y \in Nat /\ ~(y < x)
    BY <1>2, <1>4
  <1>6. \A y \in T : x <= y
    BY <1>5
  <1> QED
    BY <1>4, <1>6

(* So the longest request that tty_handle_received takes out of the line   *)
(* is well defined.                                                        *)
LEMMA LongestRequest ==
    ASSUME NEW n \in Nat, NEW G \in SUBSET (0 .. n), G # {}
    PROVE  \E m \in G : \A x \in G : x <= m
  <1> DEFINE T == {n - x : x \in G}
  <1>1. T \in SUBSET Nat /\ T # {}
    <2>1. \A x \in G : n - x \in Nat
      OBVIOUS
    <2>2. PICK g \in G : TRUE
      OBVIOUS
    <2>3. n - g \in T
      BY <2>2
    <2>4. T \in SUBSET Nat
      BY <2>1
    <2> HIDE DEF T
    <2> QED
      BY <2>3, <2>4
  <1>2. PICK t \in T : \A y \in T : t <= y
    BY <1>1, LeastNumber
  <1>3. PICK m \in G : t = n - m
    OBVIOUS
  <1>4. \A x \in G : x <= m
    <2> TAKE x \in G
    <2>1. n - x \in T
      OBVIOUS
    <2>2. n - m <= n - x
      BY <1>2, <1>3, <2>1
    <2>3. x \in Int /\ m \in Int
      OBVIOUS
    <2> QED
      BY <2>2, <2>3
  <1> QED
    BY <1>4

(* A line wakes all readers, who get it, and nobody else.                  *)
LEMMA TtyReceiveStep ==
    ASSUME TtyInv, NEW n \in Lines, TrapTTYReceiveHandler(n)
    PROVE  TtyInv'
  <1>1. /\ machine = "up"
        /\ usr_ctx_current' = TRUE
        /\ UNCHANGED <<current_process, delayed_pcbs, dead_pcbs, delay_ticks, pcb, kpc,
                       machine, owed, familyVars, uncollected, staleWake>>
        /\ UNCHANGED <<availability, curr_writer, write_queue, tty_num_bytes_requested,
                       chunks_left, transmitting>>
    BY DEF TrapTTYReceiveHandler, ContextRestored, UserMode
  <1>2. CASE n < 1
    <2>1. UNCHANGED <<bytes_available, state, blocked_pcbs, process_ready_queue,
                      delivered, curr_readers>>
      BY <1>2 DEF TrapTTYReceiveHandler
    <2>2. UNCHANGED procVars /\ UNCHANGED ttyState
      BY <1>1, <2>1 DEF procVars, schedVars, ttyState
    <2> QED
      BY <1>1, <2>2, TtyProcess
  <1>3. CASE ~(n < 1)
    <2> DEFINE got(p) == Lesser(tty_num_bytes_requested[p], n)
               read == {p \in curr_readers : state[p] # "DEAD"}
               most == IF read = {} THEN 0
                       ELSE CHOOSE m \in {got(p) : p \in read} : \A p \in read : got(p) <= m
    <2>1. /\ bytes_available' = tty_buffer_consume(n, most)
          /\ state' = [p \in Proc |-> IF p \in read THEN "READY" ELSE state[p]]
          /\ blocked_pcbs' = blocked_pcbs \ read
          /\ \E w \in Orders(read) : process_ready_queue' = process_ready_queue \o w
          /\ delivered' = [p \in Proc |-> p \in read \/ delivered[p]]
          /\ curr_readers' = {}
      BY <1>3 DEF TrapTTYReceiveHandler, tty_handle_received
    <2>2. read \in SUBSET Proc /\ \A p \in read : kpc[p] = "tty_read"
      BY DEF TtyInv, TtyTypeOK, ReaderInv, ReadersInCall
    <2>3. most \in Nat
      <3>1. n \in Nat /\ \A p \in read : got(p) \in 0 .. n
        BY <2>2, TtyAssumption DEF TtyInv, TtyTypeOK, Lesser
      <3> HIDE DEF got, read
      <3> DEFINE G == {got(p) : p \in read}
      <3>2. CASE read = {}
        BY <3>2
      <3>3. CASE read # {}
        <4>1. G \in SUBSET (0 .. n) /\ G # {}
          BY <3>1, <3>3
        <4>2. \E m \in G : \A x \in G : x <= m
          BY <3>1, <4>1, LongestRequest
        <4>3. \E m \in G : \A p \in read : got(p) <= m
          BY <4>2
        <4>4. most \in G
          BY <3>3, <4>3
        <4> HIDE DEF G, most
        <4> QED
          BY <3>1, <4>1, <4>4
      <3> QED
        BY <3>2, <3>3
    <2>4. bytes_available' \in 0 .. TERMINAL_MAX_LINE
      <3> HIDE DEF most
      <3>1. n \in 0 .. TERMINAL_MAX_LINE
        BY TtyAssumption
      <3> QED
        BY <2>1, <2>3, <3>1, ConsumeBounds
    <2>5. PICK w \in Orders(read) : process_ready_queue' = process_ready_queue \o w
      BY <2>1
    <2>6. process_ready_queue \in Seq(Proc) /\ IsFiniteSet(read)
      BY <2>2, FS_Subset, SchedulerAssumption DEF TtyInv, Inv, ProcessTypeOK, SchedTypeOK
    <2> DEFINE T == read
    <2>7. /\ T \in SUBSET Proc /\ IsFiniteSet(T) /\ w \in Orders(T)
          /\ state' = [q \in Proc |-> IF q \in T THEN "READY" ELSE state[q]]
          /\ blocked_pcbs' = blocked_pcbs \ T
          /\ T \subseteq curr_readers
          /\ \A p \in curr_readers : p \in T \/ state[p] = "DEAD"
          /\ delivered' = [p \in Proc |-> p \in T \/ delivered[p]]
          /\ \A p \in T : kpc[p] = "tty_read"
      BY <2>1, <2>2, <2>5, <2>6
    <2> HIDE DEF T
    <2>8. /\ process_ready_queue' \in Seq(Proc)
          /\ Range(process_ready_queue') = Range(process_ready_queue) \cup T
          /\ \A x : OnceIn(process_ready_queue, x) /\ (x \in T => ~Ready(x))
                        => OnceIn(process_ready_queue', x)
      BY <2>5, <2>6, <2>7, PushAllLemma DEF Ready
    <2>9. idle_process \notin T /\ \A q \in T : pcb[q] # "unused"
      BY <1>1, <2>7 DEF TtyInv, Inv, IdleOnce, UnusedFresh
    <2>10. ~staleWake => \A q \in T : q \in blocked_pcbs /\ kpc[q] # "delay"
      BY <2>7 DEF TtyInv, ReaderInv, ReadersAsleep
    <2>11. Inv'
      BY <1>1, <2>7, <2>8, <2>9, <2>10, InvWake DEF TtyInv
    <2>12. TtyTypeOK'
      BY <1>1, <2>1, <2>4, <2>7, <2>11 DEF TtyInv, TtyTypeOK, Inv
    <2>13. ReaderInv'
      <3>1. ReadersInCall'
        BY <2>1 DEF ReadersInCall
      <3>2. \A q \in Proc : pcb[q] = "live" /\ kpc[q] = "tty_read" => q \notin blocked_pcbs'
        <4> SUFFICES ASSUME NEW q \in Proc, pcb[q] = "live", kpc[q] = "tty_read",
                            q \in blocked_pcbs, q \notin T
                     PROVE  FALSE
          BY <2>7
        <4>1. q \in curr_readers
          BY DEF TtyInv, ReaderInv, SleepingReaderWillWake, Asleep, Live
        <4>2. state[q] # "DEAD"
          BY <1>1 DEF TtyInv, Inv, Alive, Live
        <4> QED
          BY <2>7, <4>1, <4>2
      <3>3. SleepingReaderWillWake'
        BY <1>1, <3>2 DEF SleepingReaderWillWake, Asleep, Live
      <3>4. ASSUME ~staleWake
            PROVE  ReadersAsleep'
        <4>1. \A q \in curr_readers : q \in T
          BY <2>7, <3>4 DEF TtyInv, Inv, Places, ReaderInv, ReadersAsleep
        <4>2. \A q \in Proc : kpc[q] = "tty_read" => q \in T \/ delivered[q]
          BY <3>4, <4>1 DEF TtyInv, ReaderInv, ReadersAsleep
        <4> QED
          BY <1>1, <2>1, <2>7, <4>2 DEF ReadersAsleep
      <3> QED
        BY <1>1, <3>1, <3>3, <3>4 DEF ReaderInv
    <2>14. LeavesAlone({"tty_queue", "tty_write"})
      BY <1>1, <2>7 DEF LeavesAlone
    <2>15. WriterInv'
      BY <1>1, <2>11, <2>14, WritersKept
    <2> QED
      BY <1>1, <2>11, <2>12, <2>13, <2>15 DEF TtyInv
  <1> QED
    BY <1>2, <1>3

-----------------------------------------------------------------------------
(* TtyWrite                                                                *)

(* Whoever may send a chunk finds the terminal idle and is alone.          *)
LEMMA MayTransmit ==
    ASSUME TtyInv, NEW p \in Proc, machine = "up", current_process = p, ~staleWake,
           availability \/ kpc[p] = "tty_write"
    PROVE  /\ ~transmitting
           /\ \A q \in Proc \ {p} : pcb[q] = "live" => kpc[q] # "tty_write"
  <1>1. OneTransmitter /\ p \notin blocked_pcbs /\ Live(p)
    BY CallerAwake DEF TtyInv, WriterInv
  <1> QED
    BY <1>1 DEF OneTransmitter, Asleep, Live

(* The readers do not notice a step of a writer.                           *)
LEMMA WriterLeavesReaders ==
    ASSUME TtyInv, NEW p \in Proc, kpc[p] # "tty_read", kpc'[p] # "tty_read",
           pcb' = pcb, staleWake' = staleWake, UNCHANGED readerVars,
           \A q \in Proc \ {p} : /\ kpc'[q] = kpc[q]
                                 /\ state'[q] = state[q] \/ state'[q] = "READY",
           blocked_pcbs' \subseteq blocked_pcbs \cup {p},
           ~staleWake => \A q \in blocked_pcbs \ blocked_pcbs' : kpc[q] # "tty_read"
    PROVE  ReaderInv'
  <1>1. LeavesAlone({"tty_read"})
    BY DEF LeavesAlone
  <1> QED
    BY <1>1, ReadersKept

LEMMA FinishWriteStep ==
    ASSUME TtyInv, NEW p \in Proc, machine = "up", current_process = p, p # idle_process,
           kpc[p] \in {"user", "tty_queue", "tty_write"},
           availability \/ kpc[p] = "tty_write",
           FinishWrite(p), UNCHANGED readerVars, usr_ctx_current' = TRUE
    PROVE  TtyInv'
  <1>1. /\ availability' = TRUE /\ curr_writer' = NULL /\ transmitting' = transmitting
        /\ chunks_left' = [chunks_left EXCEPT ![p] = 0]
        /\ UNCHANGED <<curr_readers, bytes_available, tty_num_bytes_requested, delivered>>
    BY DEF FinishWrite, readerVars
  <1>2. ~staleWake => /\ ~transmitting /\ QueueAsleep /\ QueuedWriterWillWake
                      /\ \A q \in Proc \ {p} : pcb[q] = "live" => kpc[q] # "tty_write"
    BY MayTransmit DEF TtyInv, WriterInv
  <1>3. write_queue \in Seq(Proc)
    BY DEF TtyInv, TtyTypeOK
  <1>4. CASE write_queue = <<>>
    <2>1. /\ write_queue' = write_queue /\ kpc' = [kpc EXCEPT ![p] = "user"]
          /\ UNCHANGED <<current_process, process_ready_queue, blocked_pcbs, delayed_pcbs,
                         dead_pcbs, state, delay_ticks, pcb, machine, owed, familyVars,
                         uncollected, staleWake>>
      BY <1>4 DEF FinishWrite, LeaveKernel
    <2>2. Inv'
      BY <2>1, InvMove DEF TtyInv
    <2>3. \A q \in Proc : kpc'[q] = IF q = p THEN "user" ELSE kpc[q]
      BY <2>1 DEF TtyInv, Inv, ProcessTypeOK, SchedTypeOK
    <2>4. TtyTypeOK'
      BY <1>1, <2>1, <2>2 DEF TtyInv, TtyTypeOK, Inv
    <2>5. ReaderInv'
      BY <2>1, <2>3, WriterLeavesReaders
    <2>6. Range(write_queue) = {}
      BY <1>4, RangeEmpty
    <2>7. WritersExist'
      BY <1>1, <2>1, <2>6, SchedulerAssumption DEF WritersExist
    <2>8. ~staleWake => OneTransmitter' /\ QueueAsleep' /\ QueuedWriterWillWake'
      BY <1>1, <1>2, <1>4, <2>1, <2>3, <2>6 DEF OneTransmitter, QueueAsleep,
         QueuedWriterWillWake, Asleep, Live
    <2> QED
      BY <2>1, <2>2, <2>4, <2>5, <2>7, <2>8 DEF TtyInv, WriterInv
  <1>5. CASE write_queue # <<>>
    <2> DEFINE n == Head(write_queue)
    <2>1. /\ write_queue' = Tail(write_queue)
          /\ kpc' = [kpc EXCEPT ![p] = "tty_done"]
          /\ ScheduleNextProcess(p, Append(process_ready_queue, n), blocked_pcbs \ {n},
                 delayed_pcbs, dead_pcbs, [state EXCEPT ![n] = "READY"], pcb)
          /\ UNCHANGED <<delay_ticks, owed, familyVars, uncollected, staleWake>>
      BY <1>5 DEF FinishWrite
    <2>2. /\ n \in Proc /\ Tail(write_queue) \in Seq(Proc)
          /\ Range(write_queue) = {n} \cup Range(Tail(write_queue))
          /\ \A x : OnceIn(write_queue, x) =>
                /\ OnceIn(Tail(write_queue), x)
                /\ x = n => x \notin Range(Tail(write_queue))
      BY <1>3, <1>5, PopLemma
    <2> HIDE DEF n
    <2>3. n # idle_process /\ pcb[n] # "unused" /\ "tty_done" \in OtherCalls
      BY <2>2 DEF TtyInv, WriterInv, WritersExist, OtherCalls, KernelPoints
    <2>4. ~staleWake => n \in blocked_pcbs /\ kpc[n] = "tty_queue" /\ kpc[n] # "delay"
      BY <1>2, <2>2 DEF QueueAsleep
    <2>5. /\ Inv' /\ pcb' = pcb
          /\ \A q \in Proc : state'[q] = IF q = n THEN "READY" ELSE state[q]
          /\ \A q \in Proc : kpc'[q] = IF q = p THEN "tty_done" ELSE kpc[q]
          /\ blocked_pcbs' \subseteq blocked_pcbs \cup {p}
          /\ ~staleWake => machine' = "up" /\ blocked_pcbs' = blocked_pcbs \ {n}
      BY <2>1, <2>2, <2>3, <2>4, InvYield DEF TtyInv
    <2>6. TtyTypeOK'
      BY <1>1, <2>1, <2>2, <2>5 DEF TtyInv, TtyTypeOK, Inv
    <2>7. ReaderInv'
      BY <2>1, <2>4, <2>5, WriterLeavesReaders
    <2>8. WritersExist'
      BY <1>1, <2>1, <2>2, <2>5, SchedulerAssumption DEF TtyInv, WriterInv, WritersExist
    <2>9. ASSUME ~staleWake
          PROVE  OneTransmitter' /\ QueueAsleep' /\ QueuedWriterWillWake'
      <3>1. p \notin Range(write_queue) /\ n # p
        BY <2>2, <2>9, CallerAwake
      <3>2. Range(write_queue) \subseteq Proc
        BY <1>3 DEF Range
      <3>3. OneTransmitter'
        BY <1>1, <1>2, <2>5, <2>9 DEF OneTransmitter, Live
      <3>4. QueueAsleep'
        BY <1>2, <2>1, <2>2, <2>5, <2>9, <3>1, <3>2 DEF QueueAsleep
      <3>5. QueuedWriterWillWake'
        BY <1>2, <2>1, <2>2, <2>4, <2>5, <2>9, <3>1 DEF QueuedWriterWillWake, Asleep, Live
      <3> QED
        BY <3>3, <3>4, <3>5
    <2> QED
      BY <2>1, <2>5, <2>6, <2>7, <2>8, <2>9 DEF TtyInv, WriterInv
  <1> QED
    BY <1>4, <1>5

LEMMA TransmitStep ==
    ASSUME TtyInv, NEW p \in Proc, machine = "up", current_process = p, p # idle_process,
           kpc[p] \in {"user", "tty_queue", "tty_write"},
           availability \/ kpc[p] = "tty_write",
           NEW n \in Nat \ {0},
           Transmit(p, n), UNCHANGED readerVars, usr_ctx_current' = TRUE
    PROVE  TtyInv'
  <1>1. /\ availability' = FALSE /\ curr_writer' = p /\ transmitting' = TRUE
        /\ chunks_left' = [chunks_left EXCEPT ![p] = n - 1]
        /\ write_queue' = write_queue
        /\ UNCHANGED <<curr_readers, bytes_available, tty_num_bytes_requested, delivered>>
    BY DEF Transmit, readerVars
  <1>2. ~staleWake => /\ ~transmitting /\ QueueAsleep /\ QueuedWriterWillWake
                      /\ \A q \in Proc \ {p} : pcb[q] = "live" => kpc[q] # "tty_write"
    BY MayTransmit DEF TtyInv, WriterInv
  <1>3. n - 1 \in Nat /\ pcb[p] # "unused"
    BY CallerAwake DEF Live
  <1>4. CASE transmitting
    <2>1. /\ machine' = "tty_busy" /\ staleWake
          /\ UNCHANGED <<current_process, process_ready_queue, blocked_pcbs, kpc, delayed_pcbs,
                         dead_pcbs, state, delay_ticks, pcb, owed, familyVars, uncollected,
                         staleWake>>
      BY <1>2, <1>4 DEF Transmit
    <2>2. machine' \in MachineStates \ {"up", "bad_switch"}
      BY <2>1 DEF MachineStates
    <2>3. Inv'
      BY <2>1, <2>2, InvCrash DEF TtyInv
    <2>4. TtyTypeOK'
      BY <1>1, <1>3, <2>3 DEF TtyInv, TtyTypeOK, Inv
    <2>5. ReaderInv'
      BY <2>1, WriterLeavesReaders
    <2>6. WritersExist'
      BY <1>1, <1>3, <2>1 DEF TtyInv, WriterInv, WritersExist
    <2> QED
      BY <2>1, <2>3, <2>4, <2>5, <2>6 DEF TtyInv, WriterInv
  <1>5. CASE ~transmitting
    <2>1. /\ kpc' = [kpc EXCEPT ![p] = "tty_write"]
          /\ ScheduleNextProcess(p, process_ready_queue, blocked_pcbs, delayed_pcbs,
                                 dead_pcbs, [state EXCEPT ![p] = "BLOCKED"], pcb)
          /\ UNCHANGED <<delay_ticks, owed, familyVars, uncollected, staleWake>>
      BY <1>5 DEF Transmit, BlockIn
    <2>2. "tty_write" \in OtherCalls
      BY DEF OtherCalls, KernelPoints
    <2>3. /\ Inv'
          /\ blocked_pcbs' = blocked_pcbs \cup {p} /\ pcb' = pcb
          /\ \A q \in Proc : state'[q] = IF q = p THEN "BLOCKED" ELSE state[q]
          /\ \A q \in Proc : kpc'[q] = IF q = p THEN "tty_write" ELSE kpc[q]
          /\ machine' \in {"up", "bad_switch"}
      BY <2>1, <2>2, InvBlock DEF TtyInv
    <2>4. TtyTypeOK'
      BY <1>1, <1>3, <2>3 DEF TtyInv, TtyTypeOK, Inv
    <2>5. ReaderInv'
      BY <2>1, <2>3, WriterLeavesReaders
    <2>6. WritersExist'
      BY <1>1, <1>3, <2>3 DEF TtyInv, WriterInv, WritersExist
    <2>7. ASSUME ~staleWake
          PROVE  OneTransmitter' /\ QueueAsleep' /\ QueuedWriterWillWake'
      <3>1. p \notin Range(write_queue) /\ pcb[p] = "live"
        BY <2>7, CallerAwake DEF Live
      <3>2. Range(write_queue) \subseteq Proc /\ p # NULL
        BY SchedulerAssumption DEF TtyInv, TtyTypeOK, Range
      <3>3. OneTransmitter'
        BY <1>1, <1>2, <2>3, <2>7, <3>1, <3>2 DEF OneTransmitter, Asleep, Live
      <3>4. QueueAsleep'
        BY <1>1, <1>2, <2>3, <2>7, <3>1, <3>2 DEF QueueAsleep
      <3>5. QueuedWriterWillWake'
        BY <1>1, <1>2, <2>3, <2>7 DEF QueuedWriterWillWake, Asleep, Live
      <3> QED
        BY <3>3, <3>4, <3>5
    <2> QED
      BY <2>1, <2>3, <2>4, <2>5, <2>6, <2>7 DEF TtyInv, WriterInv
  <1> QED
    BY <1>4, <1>5

LEMMA WaitForTerminalStep ==
    ASSUME TtyInv, NEW p \in Proc, machine = "up", current_process = p, p # idle_process,
           kpc[p] \in {"user", "tty_queue"}, ~availability,
           NEW n \in Nat,
           WaitForTerminal(p, n), UNCHANGED readerVars, usr_ctx_current' = TRUE
    PROVE  TtyInv'
  <1>1. /\ write_queue' = Append(write_queue, p)
        /\ chunks_left' = [chunks_left EXCEPT ![p] = n]
        /\ kpc' = [kpc EXCEPT ![p] = "tty_queue"]
        /\ ScheduleNextProcess(p, process_ready_queue, blocked_pcbs, delayed_pcbs,
                               dead_pcbs, [state EXCEPT ![p] = "BLOCKED"], pcb)
        /\ UNCHANGED <<delay_ticks, owed, familyVars, uncollected, staleWake>>
        /\ UNCHANGED <<availability, curr_writer, transmitting>>
        /\ UNCHANGED <<curr_readers, bytes_available, tty_num_bytes_requested, delivered>>
    BY DEF WaitForTerminal, BlockIn, readerVars
  <1>2. "tty_queue" \in OtherCalls
    BY DEF OtherCalls, KernelPoints
  <1>3. /\ Inv'
        /\ blocked_pcbs' = blocked_pcbs \cup {p} /\ pcb' = pcb
        /\ \A q \in Proc : state'[q] = IF q = p THEN "BLOCKED" ELSE state[q]
        /\ \A q \in Proc : kpc'[q] = IF q = p THEN "tty_queue" ELSE kpc[q]
        /\ machine' \in {"up", "bad_switch"}
    BY <1>1, <1>2, InvBlock DEF TtyInv
  <1>4. write_queue \in Seq(Proc)
    BY DEF TtyInv, TtyTypeOK
  <1>5. /\ write_queue' \in Seq(Proc)
        /\ Range(write_queue') = Range(write_queue) \cup {p}
        /\ \A x : OnceIn(write_queue, x) /\ (x = p => x \notin Range(write_queue))
                      => OnceIn(write_queue', x)
    BY <1>1, <1>4, PushLemma
  <1>6. TtyTypeOK'
    BY <1>1, <1>3, <1>5 DEF TtyInv, TtyTypeOK, Inv
  <1>7. ReaderInv'
    BY <1>1, <1>3, WriterLeavesReaders
  <1>8. WritersExist'
    BY <1>1, <1>3, <1>5, CallerAwake DEF TtyInv, WriterInv, WritersExist, Live
  <1>9. ASSUME ~staleWake
        PROVE  OneTransmitter' /\ QueueAsleep' /\ QueuedWriterWillWake'
    <2>1. /\ OneTransmitter /\ QueueAsleep /\ QueuedWriterWillWake
          /\ p \notin Range(write_queue)
      BY <1>9, CallerAwake DEF TtyInv, WriterInv
    <2>2. Range(write_queue) \subseteq Proc /\ curr_writer \in Proc \cup {NULL}
      BY DEF TtyInv, TtyTypeOK, Range
    <2>3. OneTransmitter'
      BY <1>1, <1>3, <2>1, <2>2 DEF OneTransmitter, Asleep, Live
    <2>4. QueueAsleep'
      BY <1>3, <1>5, <2>1, <2>2 DEF QueueAsleep
    <2>5. QueuedWriterWillWake'
      BY <1>1, <1>3, <1>5, <1>9, <2>1 DEF QueuedWriterWillWake, Asleep, Live
    <2> QED
      BY <2>3, <2>4, <2>5
  <1> QED
    BY <1>1, <1>3, <1>6, <1>7, <1>8, <1>9 DEF TtyInv, WriterInv

(* The end of a transmission wakes the writer whose chunk it was.          *)
LEMMA TransmitTrapStep ==
    ASSUME TtyInv, TrapTTYTransmitHandler
    PROVE  TtyInv'
  <1> DEFINE n == curr_writer
  <1>1. /\ machine = "up" /\ transmitting /\ transmitting' = FALSE
        /\ usr_ctx_current' = TRUE
        /\ UNCHANGED <<current_process, delayed_pcbs, dead_pcbs, delay_ticks, pcb, kpc,
                       machine, owed, familyVars, uncollected, staleWake>>
        /\ UNCHANGED <<curr_writer, write_queue, chunks_left>>
        /\ UNCHANGED <<curr_readers, bytes_available, tty_num_bytes_requested, delivered>>
        /\ UNCHANGED readerVars
    BY DEF TrapTTYTransmitHandler, ContextRestored, UserMode, readerVars
  <1>2. WritersExist'
    BY <1>1 DEF TtyInv, WriterInv, WritersExist
  <1>3. ~staleWake => OneTransmitter /\ QueueAsleep /\ QueuedWriterWillWake
    BY DEF TtyInv, WriterInv
  <1>4. CASE curr_writer = NULL
    <2>1. /\ availability' = TRUE /\ staleWake
          /\ UNCHANGED <<state, blocked_pcbs, process_ready_queue>>
      BY <1>1, <1>3, <1>4 DEF TrapTTYTransmitHandler, OneTransmitter
    <2>2. UNCHANGED procVars
      BY <1>1, <2>1 DEF procVars, schedVars
    <2>3. Inv'
      BY <2>2, StutterStep DEF TtyInv
    <2>4. TtyTypeOK'
      BY <1>1, <2>1, <2>3 DEF TtyInv, TtyTypeOK, Inv
    <2>5. ReaderInv'
      BY <1>1, <2>1, ReadersKept DEF LeavesAlone
    <2> QED
      BY <1>1, <1>2, <2>1, <2>3, <2>4, <2>5 DEF TtyInv, WriterInv
  <1>5. CASE curr_writer # NULL
    <2>1. /\ state' = [state EXCEPT ![n] = "READY"]
          /\ blocked_pcbs' = blocked_pcbs \ {n}
          /\ process_ready_queue' = Append(process_ready_queue, n)
          /\ availability' = availability
      BY <1>5 DEF TrapTTYTransmitHandler
    <2>2. /\ n \in Proc /\ n # idle_process /\ pcb[n] # "unused"
          /\ process_ready_queue \in Seq(Proc) /\ state \in [Proc -> States]
      BY <1>5 DEF TtyInv, TtyTypeOK, ProcessTypeOK, SchedTypeOK, WriterInv, WritersExist
    <2>3. ~staleWake => n \in blocked_pcbs /\ kpc[n] = "tty_write" /\ kpc[n] # "delay"
      BY <1>1, <1>3 DEF OneTransmitter, Asleep
    <2>4. n' = n
      BY <1>1
    <2> HIDE DEF n
    <2>5. state' = [q \in Proc |-> IF q \in {n} THEN "READY" ELSE state[q]]
      BY <2>1, <2>2
    <2>6. /\ process_ready_queue' \in Seq(Proc)
          /\ Range(process_ready_queue') = Range(process_ready_queue) \cup {n}
          /\ \A x : OnceIn(process_ready_queue, x) /\ (x \in {n} => ~Ready(x))
                        => OnceIn(process_ready_queue', x)
      BY <2>1, <2>2, PushLemma DEF Ready
    <2>7. Inv'
      BY <1>1, <2>1, <2>2, <2>3, <2>5, <2>6, InvWake DEF TtyInv
    <2>8. TtyTypeOK'
      BY <1>1, <2>1, <2>7 DEF TtyInv, TtyTypeOK, Inv
    <2>9. LeavesAlone({"tty_read"})
      BY <1>1, <2>1, <2>3, <2>5 DEF LeavesAlone
    <2>10. ReaderInv'
      BY <1>1, <2>9, ReadersKept
    <2>11. ASSUME ~staleWake
           PROVE  OneTransmitter' /\ QueueAsleep' /\ QueuedWriterWillWake'
      <3>1. OneTransmitter /\ QueueAsleep /\ QueuedWriterWillWake /\ ~availability
        BY <1>1, <1>3, <2>11 DEF OneTransmitter
      <3>2. OneTransmitter'
        BY <1>1, <2>1, <3>1 DEF OneTransmitter, Live, n
      <3>3. QueueAsleep'
        BY <1>1, <2>1, <2>3, <2>11, <3>1 DEF QueueAsleep
      <3>4. QueuedWriterWillWake'
        BY <1>1, <2>1, <2>11, <3>1 DEF QueuedWriterWillWake, Asleep, Live
      <3> QED
        BY <3>2, <3>3, <3>4
    <2> QED
      BY <1>1, <1>2, <2>7, <2>8, <2>10, <2>11 DEF TtyInv, WriterInv
  <1> QED
    BY <1>4, <1>5

(* The three places from which a chunk is sent or the terminal given up.   *)
LEMMA WriteChunksStep ==
    ASSUME TtyInv, NEW p \in Proc, machine = "up", current_process = p, p # idle_process,
           kpc[p] \in {"user", "tty_queue", "tty_write"},
           availability \/ kpc[p] = "tty_write",
           NEW n \in Nat,
           WriteChunks(p, n), UNCHANGED readerVars, usr_ctx_current' = TRUE
    PROVE  TtyInv'
  <1>1. CASE n = 0
    BY <1>1, FinishWriteStep DEF WriteChunks
  <1>2. CASE n # 0
    BY <1>2, TransmitStep DEF WriteChunks
  <1> QED
    BY <1>1, <1>2

LEMMA TtyWriteStep ==
    ASSUME TtyInv, NEW p \in Proc,
           \/ \E n \in Nat : TtyWriteHandler(p, n)
           \/ TtyWriteAgain(p) \/ TtyWriteNext(p)
    PROVE  TtyInv'
  <1>1. /\ machine = "up" /\ current_process = p
        /\ UNCHANGED readerVars /\ usr_ctx_current' = TRUE
    BY DEF TtyWriteHandler, TtyWriteAgain, TtyWriteNext, ContextSaved, Syscall, UserMode, Resume
  <1>2. chunks_left[p] \in Nat /\ availability \in BOOLEAN
    BY DEF TtyInv, TtyTypeOK
  <1>3. ASSUME NEW n \in Nat, TtyWriteHandler(p, n)
        PROVE  TtyInv'
    <2>1. p # idle_process /\ kpc[p] = "user"
      BY <1>3 DEF TtyWriteHandler, Syscall, UserMode
    <2>2. CASE availability
      BY <1>1, <1>3, <2>1, <2>2, WriteChunksStep DEF TtyWriteHandler
    <2>3. CASE ~availability
      BY <1>1, <1>3, <2>1, <2>3, WaitForTerminalStep DEF TtyWriteHandler
    <2> QED
      BY <2>2, <2>3
  <1>4. CASE TtyWriteAgain(p)
    <2>1. p # idle_process /\ kpc[p] = "tty_queue"
      BY <1>1, <1>4, CallerAwake DEF TtyWriteAgain, Resume
    <2>2. CASE availability
      BY <1>1, <1>2, <1>4, <2>1, <2>2, WriteChunksStep DEF TtyWriteAgain
    <2>3. CASE ~availability
      BY <1>1, <1>2, <1>4, <2>1, <2>3, WaitForTerminalStep DEF TtyWriteAgain
    <2> QED
      BY <2>2, <2>3
  <1>5. CASE TtyWriteNext(p)
    <2>1. p # idle_process /\ kpc[p] = "tty_write" /\ WriteChunks(p, chunks_left[p])
      BY <1>1, <1>5, CallerAwake DEF TtyWriteNext, Resume
    <2> QED
      BY <1>1, <1>2, <2>1, WriteChunksStep
  <1> QED
    BY <1>3, <1>4, <1>5

LEMMA TtyWriteReturnStep ==
    ASSUME TtyInv, NEW p \in Proc, TtyWriteReturn(p)
    PROVE  TtyInv'
  <1>1. /\ machine = "up" /\ current_process = p /\ kpc[p] = "tty_done"
        /\ usr_ctx_current' = TRUE
        /\ kpc' = [kpc EXCEPT ![p] = "user"]
        /\ UNCHANGED <<current_process, process_ready_queue, blocked_pcbs, delayed_pcbs,
                       dead_pcbs, state, delay_ticks, pcb, machine, owed, familyVars,
                       uncollected, staleWake>>
        /\ UNCHANGED <<availability, curr_writer, write_queue, curr_readers, bytes_available,
                       tty_num_bytes_requested, chunks_left, transmitting, delivered>>
        /\ UNCHANGED readerVars
    BY DEF TtyWriteReturn, LeaveKernel, ContextSaved, Resume, ttyState, readerVars
  <1>2. p # idle_process
    BY <1>1, CallerAwake
  <1>3. Inv'
    BY <1>1, <1>2, InvMove DEF TtyInv
  <1>4. \A q \in Proc : kpc'[q] = IF q = p THEN "user" ELSE kpc[q]
    BY <1>1 DEF TtyInv, Inv, ProcessTypeOK, SchedTypeOK
  <1>5. TtyTypeOK'
    BY <1>1, <1>3 DEF TtyInv, TtyTypeOK, Inv
  <1>6. LeavesAlone({"tty_read"}) /\ LeavesAlone({"tty_queue", "tty_write"})
    BY <1>1, <1>4 DEF LeavesAlone
  <1>7. ReaderInv' /\ WriterInv'
    BY <1>1, <1>3, <1>6, ReadersKept, WritersKept
  <1> QED
    BY <1>1, <1>3, <1>5, <1>7 DEF TtyInv

-----------------------------------------------------------------------------
(* Every step keeps TtyInv.                                                *)
LEMMA TtyInvNext == TtyInv /\ [TtyNext]_ttyVars => TtyInv'
  <1> SUFFICES ASSUME TtyInv, [TtyNext]_ttyVars
               PROVE  TtyInv'
    OBVIOUS
  <1>1. CASE ProcessNext /\ ContextSaved /\ UNCHANGED ttyState
    BY <1>1, TtyProcess DEF ContextSaved
  <1>2. ASSUME NEW p \in Proc, UserStep(p) \/ TtyError(p)
        PROVE  TtyInv'
    BY <1>2, TtyProcess DEF UserStep, TtyError, ContextSaved
  <1>3. CASE TrapDiskHandler
    BY <1>3, TtyProcess DEF TrapDiskHandler, ContextRestored
  <1>4. ASSUME NEW p \in Proc, NEW n \in ReadLengths, TtyReadNow(p, n) \/ TtyReadBlock(p, n)
        PROVE  TtyInv'
    <2>1. n \in Nat
      BY TtyAssumption
    <2> QED
      BY <1>4, <2>1, TtyReadNowStep, TtyReadBlockStep
  <1>5. ASSUME NEW p \in Proc, NEW n \in Chunks, TtyWriteHandler(p, n)
        PROVE  TtyInv'
    <2>1. n \in Nat
      BY TtyAssumption
    <2> QED
      BY <1>5, <2>1, TtyWriteStep
  <1>6. ASSUME NEW p \in Proc, TtyResume(p)
        PROVE  TtyInv'
    BY <1>6, TtyReadReturnStep, TtyWriteStep, TtyWriteReturnStep DEF TtyResume
  <1>7. ASSUME NEW n \in Lines, TrapTTYReceiveHandler(n)
        PROVE  TtyInv'
    BY <1>7, TtyReceiveStep
  <1>8. CASE TrapTTYTransmitHandler
    BY <1>8, TransmitTrapStep
  <1>9. CASE UNCHANGED ttyVars
    <2>1. UNCHANGED procVars /\ UNCHANGED ttyState /\ usr_ctx_current' \in BOOLEAN
      BY <1>9 DEF ttyVars, TtyInv, TtyTypeOK
    <2> QED
      BY <2>1, TtyProcess
  <1> QED
    BY <1>1, <1>2, <1>3, <1>4, <1>5, <1>6, <1>7, <1>8, <1>9 DEF TtyNext, TtyCall

(* TtyInv holds whatever the programs call and whenever the traps arrive.  *)
THEOREM TtyInvHolds == TtySpec => []TtyInv
  BY TtyInvInit, TtyInvNext, PTL DEF TtySpec

(* The types of the state of a terminal (tty_state.h): in particular the   *)
(* unread bytes are never negative and never more than a line.             *)
THEOREM TtyTypeCorrect == TtySpec => []TtyTypeOK
  <1>1. TtyInv => TtyTypeOK
    BY DEF TtyInv
  <1> QED
    BY TtyInvHolds, <1>1, PTL

(* No line is missed: whoever sleeps in TtyReadHandler is found by the     *)
(* next line, and sleeps only while nothing is unread.                     *)
THEOREM NoLineMissed == TtySpec => []SleepingReaderWillWake
  <1>1. TtyInv => SleepingReaderWillWake
    BY DEF TtyInv, ReaderInv
  <1> QED
    BY TtyInvHolds, <1>1, PTL

(* A TtyRead that slept comes back with a line, unless an exit found a     *)
(* stale waiting flag.                                                     *)
THEOREM SleepingReadGetsLine == TtySpec => []ReadGetsLine
  <1>1. TtyInv => ReadGetsLine
    <2> SUFFICES ASSUME TtyInv, ~staleWake, NEW p \in Proc, Resume(p, "tty_read")
                 PROVE  delivered[p]
      BY DEF ReadGetsLine
    <2>1. p \notin curr_readers /\ kpc[p] = "tty_read"
      BY CallerAwake DEF Resume
    <2> QED
      BY <2>1 DEF TtyInv, ReaderInv, ReadersAsleep
  <1> QED
    BY TtyInvHolds, <1>1, PTL

(* A writer sleeps in the middle of its output only while the terminal is  *)
(* sending, and TtyTransmit is never called while it is, unless an exit    *)
(* found a stale waiting flag.                                             *)
THEOREM OneTransmission == TtySpec => []TransmitterWillWake
  <1>1. TtyInv => TransmitterWillWake
    BY DEF TtyInv, WriterInv, OneTransmitter, TransmitterWillWake, Asleep
  <1> QED
    BY TtyInvHolds, <1>1, PTL

(* Whoever sleeps in the queue of the terminal is in it, and if it is free *)
(* somebody was woken for it, unless an exit found a stale waiting flag.   *)
THEOREM QueuedWritersWake == TtySpec => []QueuedWriterWillWake
  <1>1. TtyInv => QueuedWriterWillWake
    BY DEF TtyInv, WriterInv, QueuedWriterWillWake
  <1> QED
    BY TtyInvHolds, <1>1, PTL

(* Terminals lose no process.                                              *)
THEOREM TtyLosesNoProcess == TtySpec => []Accounted
  <1>1. TtyInv => Accounted
    BY DEF TtyInv, Inv
  <1> QED
    BY TtyInvHolds, <1>1, PTL
=============================================================================
