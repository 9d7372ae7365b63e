----------------------------- MODULE PipeProofs ------------------------------
(***************************************************************************)
(* Theorems about Pipe, for any set of PCBs, any PIPE_BUFFER_LEN and any   *)
(* lengths of reads and writes.                                            *)
(*                                                                         *)
(* pipe_read queues waiting writers again and again, so that processes are *)
(* in several places at a time; Core, the part of the processes' invariant *)
(* that survives it, is all that the theorems need.                        *)
(***************************************************************************)
EXTENDS Pipe, CallProofs

(* Only processes that exist wait at the pipe.                             *)
WaitersUsed == \A p \in Range(readers) \cup writers : pcb[p] # "unused"

(* Whoever is in the loop of pipe_write is in the set of writers: nothing  *)
(* but the end of its own write removes it.                                *)
WritersStored == \A p \in Proc : kpc[p] = "pipe_write" => p \in writers

(* A writer that sleeps, in an open pipe or not, has no room.              *)
NoRoom ==
    \A p \in Proc : kpc[p] = "pipe_write" /\ state[p] = "BLOCKED" => ~Fits(len[p])

PipeInv ==
    /\ PipeTypeOK
    /\ Core
    /\ PipeBounded
    /\ WaitersUsed
    /\ WritersStored
    /\ NoRoom

-----------------------------------------------------------------------------
LEMMA ConcatRange ==
    ASSUME NEW S, NEW s \in Seq(S), NEW t \in Seq(S)
    PROVE  s \o t \in Seq(S) /\ Range(s \o t) = Range(s) \cup Range(t)
  <1>1. /\ s \o t \in Seq(S) /\ Len(s \o t) = Len(s) + Len(t)
        /\ \A i \in 1 .. Len(s) + Len(t) :
              (s \o t)[i] = IF i <= Len(s) THEN s[i] ELSE t[i - Len(s)]
    BY ConcatProperties
  <1>2. /\ Len(s) \in Nat /\ Len(t) \in Nat
        /\ DOMAIN s = 1 .. Len(s) /\ DOMAIN t = 1 .. Len(t)
        /\ DOMAIN (s \o t) = 1 .. Len(s) + Len(t)
    BY <1>1, LenProperties
  <1> DEFINE c == s \o t
  <1>3. ASSUME NEW x \in Range(c)
        PROVE  x \in Range(s) \cup Range(t)
    <2>1. PICK i \in 1 .. Len(s) + Len(t) : x = c[i]
      BY <1>2, <1>3 DEF Range
    <2>2. CASE i <= Len(s)
      <3>1. i \in 1 .. Len(s) /\ x = s[i]
        BY <1>1, <1>2, <2>1, <2>2
      <3> QED
        BY <1>2, <3>1 DEF Range
    <2>3. CASE ~(i <= Len(s))
      <3>1. i - Len(s) \in 1 .. Len(t) /\ x = t[i - Len(s)]
        BY <1>1, <1>2, <2>1, <2>3
      <3> QED
        BY <1>2, <3>1 DEF Range
    <2> QED
      BY <2>2, <2>3
  <1>4. ASSUME NEW x \in Range(s)
        PROVE  x \in Range(c)
    <2>1. PICK i \in 1 .. Len(s) : x = s[i]
      BY <1>2, <1>4 DEF Range
    <2>2. i \in 1 .. Len(s) + Len(t) /\ c[i] = x
      BY <1>1, <1>2, <2>1
    <2> QED
      BY <1>2, <2>2 DEF Range
  <1>5. ASSUME NEW x \in Range(t)
        PROVE  x \in Range(c)
    <2>1. PICK i \in 1 .. Len(t) : x = t[i]
      BY <1>2, <1>5 DEF Range
    <2>2. i + Len(s) \in 1 .. Len(s) + Len(t) /\ c[i + Len(s)] = x
      BY <1>1, <1>2, <2>1
    <2> QED
      BY <1>2, <2>2 DEF Range
  <1> QED
    BY <1>1, <1>3, <1>4, <1>5

LEMMA OrdersRange ==
    ASSUME NEW S, NEW T \in SUBSET S, IsFiniteSet(T), NEW w \in Orders(T)
    PROVE  w \in Seq(S) /\ Range(w) = T
  <1>1. Cardinality(T) \in Nat
    BY FS_CardinalityType
  <1>2. /\ w \in [1 .. Cardinality(T) -> T]
        /\ \A t \in T : \E i \in 1 .. Cardinality(T) : w[i] = t
    BY DEF Orders, Bijection, Injection, Surjection, Range
  <1>3. w \in Seq(S)
    BY <1>1, <1>2, SeqDef, SeqMonotonic
  <1> QED
    BY <1>2, <1>3 DEF Range

(* The first reader and the rest of the queue.                             *)
LEMMA ReadersSplit ==
    ASSUME readers \in Seq(Proc)
    PROVE  /\ FirstReader \in Seq(Proc) /\ OtherReaders \in Seq(Proc)
           /\ Range(FirstReader) \subseteq Range(readers)
           /\ Range(OtherReaders) \subseteq Range(readers)
  <1>1. CASE readers = <<>>
    BY <1>1 DEF FirstReader, OtherReaders
  <1>2. CASE readers # <<>>
    <2>1. FirstReader = <<Head(readers)>> /\ OtherReaders = Tail(readers)
      BY <1>2 DEF FirstReader, OtherReaders
    <2>2. /\ Head(readers) \in Proc /\ Tail(readers) \in Seq(Proc)
          /\ Range(readers) = {Head(readers)} \cup Range(Tail(readers))
      BY <1>2, PopLemma
    <2>3. <<Head(readers)>> \in Seq(Proc) /\ Range(<<Head(readers)>>) = {Head(readers)}
      BY <2>2, RangeSingle
    <2> QED
      BY <2>1, <2>2, <2>3
  <1> QED
    BY <1>1, <1>2

-----------------------------------------------------------------------------
LEMMA PipeInvInit == PipeSysInit => PipeInv
  <1> SUFFICES ASSUME PipeSysInit
               PROVE  PipeInv
    OBVIOUS
  <1>1. Core
    BY CoreInit DEF PipeSysInit
  <1>2. PipeTypeOK
    BY <1>1, EmptySeq DEF PipeSysInit, PipeTypeOK, Core
  <1>3. PipeBounded /\ WaitersUsed /\ WritersStored /\ NoRoom
    BY RangeEmpty, PipeAssumption DEF PipeSysInit, ProcessInit, PipeBounded, WaitersUsed,
       WritersStored, NoRoom
  <1> QED
    BY <1>1, <1>2, <1>3 DEF PipeInv

LEMMA PipeProcess ==
    ASSUME PipeInv, ProcessNext, UNCHANGED pipeVars
    PROVE  PipeInv'
  <1>1. Core' /\ CallsKept
    BY CoreNext, NextCalls DEF PipeInv, PipeTypeOK
  <1>2. UNCHANGED <<pipe, num_bytes_available, readers, writers, len>>
    BY DEF pipeVars
  <1>3. PipeTypeOK' /\ PipeBounded'
    BY <1>1, <1>2 DEF PipeInv, PipeTypeOK, Core, PipeBounded
  <1>4. \A p \in Proc : kpc'[p] = "pipe_write" =>
           /\ kpc[p] = "pipe_write"
           /\ state'[p] = "BLOCKED" => state[p] = "BLOCKED"
    BY <1>1 DEF CallsKept, OtherCalls, KernelPoints
  <1>5. WritersStored' /\ NoRoom'
    BY <1>2, <1>4 DEF PipeInv, WritersStored, NoRoom, Fits
  <1>6. WaitersUsed'
    <2>1. Range(readers) \cup writers \subseteq Proc
      BY LenProperties DEF PipeInv, PipeTypeOK, Range
    <2> QED
      BY <1>1, <1>2, <2>1 DEF PipeInv, WaitersUsed, CallsKept
  <1> QED
    BY <1>1, <1>3, <1>5, <1>6 DEF PipeInv

(* PipeInit, Reclaim, a call that fails, and a call that goes on in memory *)
(* that was freed.                                                         *)
LEMMA PipeQuiet ==
    ASSUME PipeInv, NEW p \in Proc,
           \/ PipeInitHandler(p) \/ ReclaimPipe(p) \/ ResumeFreed(p)
           \/ UNCHANGED pipeSysVars
    PROVE  PipeInv'
  <1>1. /\ pipe' \in {"open", "freed", pipe}
        /\ UNCHANGED <<num_bytes_available, readers, writers, len>>
        /\ UNCHANGED <<current_process, process_ready_queue, blocked_pcbs, delayed_pcbs,
                       dead_pcbs, state, delay_ticks, pcb, kpc, owed, parent, children,
                       zombies, waiting, child_exit_status, uncollected, staleWake>>
        /\ machine' \in {machine, "corrupt"}
    BY DEF PipeInitHandler, ReclaimPipe, ResumeFreed, pipeSysVars, pipeVars, procVars,
       schedVars, familyVars
  <1>2. Core'
    <2>1. ProcessTypeOK' /\ UnusedApart'
      BY <1>1 DEF PipeInv, Core, ProcessTypeOK, SchedTypeOK, MachineStates, UnusedApart, Ready
    <2>2. LiveNotDead' /\ Accounted'
      BY <1>1 DEF PipeInv, Core, LiveNotDead, Accounted, Live, Ready
    <2> QED
      BY <2>1, <2>2 DEF Core
  <1>3. PipeTypeOK'
    BY <1>1, <1>2 DEF PipeInv, PipeTypeOK, Core
  <1> QED
    BY <1>1, <1>2, <1>3 DEF PipeInv, PipeBounded, WaitersUsed, WritersStored, NoRoom, Fits

(* One iteration of a waiting loop.  Only a writer without room takes one. *)
LEMMA PipeBlock ==
    ASSUME PipeInv, NEW p \in Proc, machine = "up", current_process = p,
           NEW k \in {"pipe_read", "pipe_write"}, NEW n \in Nat, BlockAt(p, k, n),
           k = "pipe_write" => ~Fits(n) /\ p \in writers',
           readers' \in {readers, Append(readers, p)},
           writers' \in {writers, writers \cup {p}}
    PROVE  PipeInv'
  <1>1. /\ kpc' = [kpc EXCEPT ![p] = k]
        /\ len' = [len EXCEPT ![p] = n]
        /\ ScheduleNextProcess(p, process_ready_queue, blocked_pcbs, delayed_pcbs,
                               dead_pcbs, [state EXCEPT ![p] = "BLOCKED"], pcb)
        /\ UNCHANGED <<delay_ticks, owed, parent, children, zombies, waiting,
                       child_exit_status, uncollected, staleWake, pipe, num_bytes_available>>
    BY DEF BlockAt, familyVars
  <1>2. /\ OtherTypes' /\ len' \in [Proc -> Nat]
        /\ \A q \in Proc : kpc'[q] = IF q = p THEN k ELSE kpc[q]
        /\ \A q \in Proc : len'[q] = IF q = p THEN n ELSE len[q]
    BY <1>1 DEF PipeInv, Core, PipeTypeOK, ProcessTypeOK, SchedTypeOK, OtherTypes, KernelPoints
  <1>3. Core'
    BY <1>1, <1>2, CorePark DEF PipeInv
  <1>4. /\ pcb' = pcb /\ pcb[p] # "unused"
        /\ \A q \in Proc : state'[q] = IF q = p THEN "BLOCKED" ELSE state[q]
    BY <1>1 DEF ScheduleNextProcess, PipeInv, Core, UnusedApart, ProcessTypeOK, SchedTypeOK
  <1>5. /\ readers' \in Seq(Proc) /\ Range(readers') \subseteq Range(readers) \cup {p}
        /\ writers' \subseteq Proc /\ writers \subseteq writers'
        /\ writers' \subseteq writers \cup {p}
    <2>1. readers \in Seq(Proc)
      BY DEF PipeInv, PipeTypeOK
    <2>2. /\ Append(readers, p) \in Seq(Proc)
          /\ Range(Append(readers, p)) = Range(readers) \cup {p}
      BY <2>1, PushLemma
    <2> QED
      BY <2>1, <2>2 DEF PipeInv, PipeTypeOK
  <1>6. PipeTypeOK' /\ PipeBounded'
    BY <1>1, <1>2, <1>3, <1>5 DEF PipeInv, PipeTypeOK, Core, PipeBounded
  <1>7. WaitersUsed'
    BY <1>4, <1>5 DEF PipeInv, WaitersUsed
  <1>8. WritersStored'
    BY <1>2, <1>5 DEF PipeInv, WritersStored
  <1>9. NoRoom'
    BY <1>1, <1>2, <1>4 DEF PipeInv, NoRoom, Fits
  <1> QED
    BY <1>3, <1>6, <1>7, <1>8, <1>9 DEF PipeInv

(* What the end of a call leaves alone.                                    *)
LEMMA PipeFinish ==
    ASSUME PipeInv, NEW p \in Proc, Finish(p)
    PROVE  /\ UNCHANGED <<current_process, delayed_pcbs, dead_pcbs, pcb, machine, parent,
                          zombies, pipe>>
           /\ OtherTypes' /\ len' \in [Proc -> Nat]
           /\ \A q \in Proc : kpc'[q] = IF q = p THEN "user" ELSE kpc[q]
           /\ \A q \in Proc : len'[q] = IF q = p THEN 0 ELSE len[q]
           /\ \A q \in Proc : pcb[q] = "unused" => kpc'[q] = "user"
  BY DEF Finish, familyVars, PipeInv, PipeTypeOK, Core, UnusedApart, ProcessTypeOK,
     SchedTypeOK, OtherTypes, KernelPoints

(* The end of a write leaves the sleeping writers even less room.          *)
LEMMA PipeWrite ==
    ASSUME PipeInv, NEW p \in Proc, machine = "up", current_process = p,
           NEW n \in Nat, Fits(n), WriteBytes(p, n)
    PROVE  PipeInv'
  <1>1. /\ writers' = writers \ {p}
        /\ num_bytes_available' = num_bytes_available + n
        /\ readers' = OtherReaders
        /\ Wake(NULL, FirstReader) /\ Finish(p)
    BY DEF WriteBytes
  <1>2. /\ UNCHANGED <<current_process, delayed_pcbs, dead_pcbs, pcb, machine, parent,
                       zombies, pipe>>
        /\ OtherTypes' /\ len' \in [Proc -> Nat]
        /\ \A q \in Proc : kpc'[q] = IF q = p THEN "user" ELSE kpc[q]
        /\ \A q \in Proc : len'[q] = IF q = p THEN 0 ELSE len[q]
        /\ \A q \in Proc : pcb[q] = "unused" => kpc'[q] = "user"
    BY <1>1, PipeFinish
  <1>3. /\ FirstReader \in Seq(Proc) /\ OtherReaders \in Seq(Proc)
        /\ Range(FirstReader) \subseteq Range(readers)
        /\ Range(OtherReaders) \subseteq Range(readers)
    BY ReadersSplit DEF PipeInv, PipeTypeOK
  <1> DEFINE T == Range(FirstReader)
  <1>4. /\ state' = [q \in Proc |-> IF q \in T THEN "READY" ELSE state[q]]
        /\ blocked_pcbs' = blocked_pcbs \ (T \cup {NULL})
        /\ process_ready_queue' = process_ready_queue \o FirstReader
    BY <1>1 DEF Wake
  <1>5. blocked_pcbs' = blocked_pcbs \ T
    BY <1>4, SchedulerAssumption DEF PipeInv, Core, ProcessTypeOK, SchedTypeOK
  <1>6. T \in SUBSET Proc /\ \A q \in T : pcb[q] # "unused"
    BY <1>3 DEF PipeInv, WaitersUsed, Range
  <1>7. /\ process_ready_queue' \in Seq(Proc)
        /\ Range(process_ready_queue') = Range(process_ready_queue) \cup T
    <2>1. process_ready_queue \in Seq(Proc)
      BY DEF PipeInv, PipeTypeOK, ProcessTypeOK, SchedTypeOK
    <2> QED
      BY <1>3, <1>4, <2>1, ConcatRange
  <1>8. \A q \in Proc : state'[q] = "BLOCKED" => state[q] = "BLOCKED"
    BY <1>4
  <1> HIDE DEF T
  <1>9. Core'
    BY <1>2, <1>4, <1>5, <1>6, <1>7, CoreWake DEF PipeInv
  <1>10. /\ num_bytes_available \in Nat /\ num_bytes_available' \in Nat
         /\ num_bytes_available <= num_bytes_available'
         /\ num_bytes_available' <= PIPE_BUFFER_LEN
    BY <1>1, PipeAssumption DEF PipeInv, PipeTypeOK, Fits
  <1>11. PipeTypeOK' /\ PipeBounded'
    BY <1>1, <1>2, <1>3, <1>9, <1>10 DEF PipeInv, PipeTypeOK, Core, PipeBounded
  <1>12. WaitersUsed' /\ WritersStored'
    BY <1>1, <1>2, <1>3 DEF PipeInv, WaitersUsed, WritersStored
  <1>13. NoRoom'
    <2> SUFFICES ASSUME NEW q \in Proc, kpc'[q] = "pipe_write", state'[q] = "BLOCKED"
                 PROVE  ~(len'[q] + num_bytes_available' <= PIPE_BUFFER_LEN)
      BY DEF NoRoom, Fits
    <2>1. q # p /\ kpc[q] = "pipe_write" /\ state[q] = "BLOCKED" /\ len'[q] = len[q]
      BY <1>2, <1>8
    <2>2. ~(len[q] + num_bytes_available <= PIPE_BUFFER_LEN) /\ len[q] \in Nat
      BY <2>1 DEF PipeInv, NoRoom, Fits, PipeTypeOK
    <2> QED
      BY <1>10, <2>1, <2>2, PipeAssumption
  <1> QED
    BY <1>9, <1>11, <1>12, <1>13 DEF PipeInv

(* The end of a read wakes all writers, so that none of them sleeps.       *)
LEMMA PipeRead ==
    ASSUME PipeInv, NEW p \in Proc, machine = "up", current_process = p,
           NEW n \in Nat, ReadBytes(p, n)
    PROVE  PipeInv'
  <1> DEFINE rest == num_bytes_available
                        - (IF n < num_bytes_available THEN n ELSE num_bytes_available)
             first == IF rest > 0 THEN FirstReader ELSE <<>>
  <1>1. /\ num_bytes_available' = rest
        /\ readers' = IF rest > 0 THEN OtherReaders ELSE readers
        /\ writers' = writers
        /\ \E w \in Orders(writers) : Wake(p, first \o w)
        /\ Finish(p)
    BY DEF ReadBytes
  <1>2. /\ UNCHANGED <<current_process, delayed_pcbs, dead_pcbs, pcb, machine, parent,
                       zombies, pipe>>
        /\ OtherTypes' /\ len' \in [Proc -> Nat]
        /\ \A q \in Proc : kpc'[q] = IF q = p THEN "user" ELSE kpc[q]
        /\ \A q \in Proc : len'[q] = IF q = p THEN 0 ELSE len[q]
        /\ \A q \in Proc : pcb[q] = "unused" => kpc'[q] = "user"
    BY <1>1, PipeFinish
  <1>3. /\ num_bytes_available \in Nat
        /\ rest \in Nat /\ rest <= num_bytes_available
    BY DEF PipeInv, PipeTypeOK
  <1> HIDE DEF rest
  <1>4. /\ first \in Seq(Proc) /\ Range(first) \subseteq Range(readers)
        /\ readers' \in Seq(Proc) /\ Range(readers') \subseteq Range(readers)
    BY <1>1, ReadersSplit, RangeEmpty, EmptySeq DEF PipeInv, PipeTypeOK
  <1> HIDE DEF first
  <1>5. PICK w \in Orders(writers) : Wake(p, first \o w)
    BY <1>1
  <1> DEFINE T == Range(first \o w)
             B == T \cup {p}
  <1>6. w \in Seq(Proc) /\ Range(w) = writers
    <2>1. writers \in SUBSET Proc /\ IsFiniteSet(writers)
      BY FS_Subset, SchedulerAssumption DEF PipeInv, PipeTypeOK
    <2> QED
      BY <2>1, OrdersRange
  <1>7. first \o w \in Seq(Proc) /\ T = Range(first) \cup writers
    BY <1>4, <1>6, ConcatRange
  <1>8. /\ state' = [q \in Proc |-> IF q \in T THEN "READY" ELSE state[q]]
        /\ blocked_pcbs' = blocked_pcbs \ B
        /\ process_ready_queue' = process_ready_queue \o (first \o w)
    BY <1>5 DEF Wake
  <1>9. /\ T \in SUBSET Proc /\ B \in SUBSET Proc
        /\ \A q \in T : pcb[q] # "unused"
        /\ \A q \in B \ T : q = current_process
    <2>1. T \subseteq Range(readers) \cup writers
      BY <1>4, <1>7
    <2>2. Range(readers) \cup writers \subseteq Proc
      BY LenProperties DEF PipeInv, PipeTypeOK, Range
    <2> QED
      BY <2>1, <2>2 DEF PipeInv, WaitersUsed
  <1>10. /\ process_ready_queue' \in Seq(Proc)
         /\ Range(process_ready_queue') = Range(process_ready_queue) \cup T
    <2>1. process_ready_queue \in Seq(Proc)
      BY DEF PipeInv, PipeTypeOK, ProcessTypeOK, SchedTypeOK
    <2> DEFINE all == first \o w
    <2>2. all \in Seq(Proc)
      BY <1>7
    <2> HIDE DEF all
    <2>3. /\ process_ready_queue \o all \in Seq(Proc)
          /\ Range(process_ready_queue \o all) = Range(process_ready_queue) \cup Range(all)
      BY <2>1, <2>2, ConcatRange
    <2> QED
      BY <1>8, <2>3 DEF all
  <1> HIDE DEF T, B
  <1>11. Core'
    BY <1>2, <1>8, <1>9, <1>10, CoreWake DEF PipeInv
  <1>12. PipeTypeOK' /\ PipeBounded'
    BY <1>1, <1>2, <1>3, <1>4, <1>11, PipeAssumption DEF PipeInv, PipeTypeOK, Core, PipeBounded
  <1>13. WaitersUsed' /\ WritersStored'
    BY <1>1, <1>2, <1>4 DEF PipeInv, WaitersUsed, WritersStored
  <1>14. NoRoom'
    BY <1>2, <1>7, <1>8 DEF PipeInv, NoRoom, WritersStored
  <1> QED
    BY <1>11, <1>12, <1>13, <1>14 DEF PipeInv

-----------------------------------------------------------------------------
(* Every step keeps PipeInv.                                               *)
LEMMA PipeInvNext == PipeInv /\ [PipeNext]_pipeSysVars => PipeInv'
  <1> SUFFICES ASSUME PipeInv, [PipeNext]_pipeSysVars
               PROVE  PipeInv'
    OBVIOUS
  <1>1. CASE ProcessNext /\ UNCHANGED pipeVars
    BY <1>1, PipeProcess
  <1>2. ASSUME NEW p \in Proc, PipeStep(p)
        PROVE  PipeInv'
    <2>1. CASE PipeInitHandler(p) \/ ReclaimPipe(p) \/ ResumeFreed(p) \/ PipeError(p)
      BY <2>1, PipeQuiet DEF PipeError
    <2>2. ASSUME NEW n \in Nat, PipeWriteNow(p, n) \/ PipeReadNow(p, n)
          PROVE  PipeInv'
      <3>1. machine = "up" /\ current_process = p
        BY <2>2 DEF PipeWriteNow, PipeReadNow, ReadCall, PipeCall, Syscall, UserMode
      <3> QED
        BY <2>2, <3>1, PipeWrite, PipeRead DEF PipeWriteNow, PipeReadNow
    <2>3. ASSUME NEW n \in Nat, PipeWriteBlock(p, n)
          PROVE  PipeInv'
      <3>1. /\ machine = "up" /\ current_process = p /\ ~Fits(n)
            /\ writers' = writers \cup {p} /\ readers' = readers
            /\ BlockAt(p, "pipe_write", n)
        BY <2>3 DEF PipeWriteBlock, PipeCall, Syscall, UserMode
      <3>2. p \in writers'
        BY <3>1
      <3> QED
        BY <3>1, <3>2, PipeBlock
    <2>4. ASSUME NEW n \in Nat, PipeReadBlock(p, n)
          PROVE  PipeInv'
      <3>1. /\ machine = "up" /\ current_process = p
            /\ writers' = writers /\ readers' = Append(readers, p)
            /\ BlockAt(p, "pipe_read", n)
        BY <2>4 DEF PipeReadBlock, ReadCall, PipeCall, Syscall, UserMode
      <3> QED
        BY <3>1, PipeBlock
    <2>5. len[p] \in Nat
      BY DEF PipeInv, PipeTypeOK
    <2>6. CASE PipeWriteResume(p)
      <3>1. machine = "up" /\ current_process = p /\ kpc[p] = "pipe_write"
        BY <2>6 DEF PipeWriteResume, PipeResume, Resume
      <3>2. CASE Fits(len[p])
        BY <2>5, <2>6, <3>1, <3>2, PipeWrite DEF PipeWriteResume
      <3>3. CASE ~Fits(len[p])
        <4>1. BlockAt(p, "pipe_write", len[p]) /\ readers' = readers /\ writers' = writers
          BY <2>6, <3>3 DEF PipeWriteResume
        <4>2. p \in writers'
          BY <3>1, <4>1 DEF PipeInv, WritersStored
        <4> QED
          BY <2>5, <3>1, <3>3, <4>1, <4>2, PipeBlock
      <3> QED
        BY <3>2, <3>3
    <2>7. CASE PipeReadResume(p)
      <3>1. machine = "up" /\ current_process = p
        BY <2>7 DEF PipeReadResume, PipeResume, Resume
      <3>2. CASE num_bytes_available >= 1
        BY <2>5, <2>7, <3>1, <3>2, PipeRead DEF PipeReadResume
      <3>3. CASE ~(num_bytes_available >= 1)
        <4>1. BlockAt(p, "pipe_read", len[p]) /\ readers' = readers /\ writers' = writers
          BY <2>7, <3>3 DEF PipeReadResume
        <4> QED
          BY <2>5, <3>1, <4>1, PipeBlock
      <3> QED
        BY <3>2, <3>3
    <2>8. Lengths \subseteq Nat
      BY PipeAssumption
    <2> QED
      BY <1>2, <2>1, <2>2, <2>3, <2>4, <2>6, <2>7, <2>8 DEF PipeStep
  <1>3. CASE UNCHANGED pipeSysVars
    BY <1>3, PipeQuiet, SchedulerAssumption
  <1> QED
    BY <1>1, <1>2, <1>3 DEF PipeNext

(* PipeInv holds whatever the programs call, in any order.                 *)
THEOREM PipeInvHolds == PipeSpec => []PipeInv
  BY PipeInvInit, PipeInvNext, PTL DEF PipeSpec

(* The types of the state of a pipe and of the processes that use it.      *)
THEOREM PipeTypeCorrect == PipeSpec => []PipeTypeOK
  <1>1. PipeInv => PipeTypeOK
    BY DEF PipeInv
  <1> QED
    BY PipeInvHolds, <1>1, PTL

(* The buffer of a pipe never overflows, for any number of writers that    *)
(* sleep and wake in pipe_write in any order.                              *)
THEOREM PipeNeverOverflows == PipeSpec => []PipeBounded
  <1>1. PipeInv => PipeBounded
    BY DEF PipeInv
  <1> QED
    BY PipeInvHolds, <1>1, PTL

(* A writer that sleeps in pipe_write still has no room and is still in    *)
(* the set of writers that pipe_read wakes.                                *)
THEOREM WriterWakeupsKept == PipeSpec => []SleepingWriterHasNoRoom
  <1>1. PipeInv => SleepingWriterHasNoRoom
    BY DEF PipeInv, NoRoom, WritersStored, SleepingWriterHasNoRoom
  <1> QED
    BY PipeInvHolds, <1>1, PTL

(* Pipes lose no process, although pipe_read queues writers several times. *)
THEOREM PipeLosesNoProcess == PipeSpec => []Accounted
  <1>1. PipeInv => Accounted
    BY DEF PipeInv, Core
  <1> QED
    BY PipeInvHolds, <1>1, PTL
=============================================================================
