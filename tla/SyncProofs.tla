----------------------------- MODULE SyncProofs ------------------------------
(***************************************************************************)
(* Theorems about Sync, for any set of PCBs and any numbers of locks and   *)
(* condition variables.                                                    *)
(*                                                                         *)
(* IpcInv holds whatever the programs do.  LockInv, which makes locks      *)
(* exclude, needs programs that keep off two parts of the kernel: nobody   *)
(* waits on a condition variable (CvarWait returns without the lock), and  *)
(* a lock is reclaimed only when nobody waits for it (ipc_reclaim frees    *)
(* the PCBs of those who do).                                              *)
(***************************************************************************)
EXTENDS Sync, CallProofs

(* Ids are used once.                                                      *)
IdsFresh ==
    /\ locks \cap cvars = {}
    /\ \A i \in locks \cup cvars : i < next_ipc_id
    /\ \A p \in Proc : kpc[p] = "acquire" =>
          acquiring[p] \in Id /\ acquiring[p] < next_ipc_id

(* Only processes that exist are queued.                                   *)
QueuedUsed == \A i \in Id : \A p \in Range(blocked[i]) : pcb[p] # "unused"

IpcInv ==
    /\ SyncTypeOK
    /\ Core
    /\ IdsFresh
    /\ QueuedUsed
    /\ FreeLockHasNoWaiters
    /\ AcquirerTracked

(* What a process was told it holds are locks that it asked for.           *)
HoldsFresh ==
    /\ \A p \in Proc : \A l \in holds[p] : l < next_ipc_id
    /\ \A p \in Proc : pcb[p] = "unused" => holds[p] = {}

(* Those who are queued for a lock sleep in Acquire.                       *)
QueuedAsleep ==
    \A l \in locks :
        /\ \A p \in Proc : OnceIn(blocked[l], p)
        /\ \A p \in Range(blocked[l]) :
              p \in blocked_pcbs /\ kpc[p] = "acquire" /\ acquiring[p] = l

(* Those who were woken in Acquire are the owners of the lock.             *)
WokenOwns ==
    \A p \in Proc : Live(p) /\ kpc[p] = "acquire" /\ p \notin blocked_pcbs
                       /\ acquiring[p] \in locks => owner[acquiring[p]] = p

LockInv ==
    /\ Inv
    /\ HoldsFresh
    /\ ~staleWake => machine # "crashed" /\ QueuedAsleep /\ WokenOwns /\ HolderOwns

(* The programs' part: nobody waits on a condition variable, and nobody    *)
(* reclaims a lock that others wait for.                                   *)
NoCvarWaiters == \A c \in cvars : blocked[c] = <<>>
ReclaimsUnused == \A l \in locks \ locks' : blocked[l] = <<>>

-----------------------------------------------------------------------------
(* The kernel starts without locks and condition variables.                *)
LEMMA IpcInit == SyncInit => IpcInv
  <1> SUFFICES ASSUME SyncInit
               PROVE  IpcInv
    OBVIOUS
  <1>1. Core
    BY CoreInit DEF SyncInit
  <1>2. SyncTypeOK
    BY <1>1, SyncAssumption DEF SyncInit, SyncTypeOK, Core, UNLOCKED
  <1>3. IdsFresh /\ QueuedUsed /\ FreeLockHasNoWaiters /\ AcquirerTracked
    BY RangeEmpty DEF SyncInit, ProcessInit, IdsFresh, QueuedUsed, FreeLockHasNoWaiters,
       AcquirerTracked
  <1> QED
    BY <1>1, <1>2, <1>3 DEF IpcInv

(* The steps of Process keep IpcInv.                                       *)
LEMMA IpcProcess ==
    ASSUME IpcInv, ProcessNext, UNCHANGED ipcVars
    PROVE  IpcInv'
  <1>1. Core' /\ CallsKept
    BY CoreNext, NextCalls DEF IpcInv, SyncTypeOK
  <1>2. UNCHANGED <<next_ipc_id, locks, cvars, owner, blocked, acquiring, holds>>
    BY DEF ipcVars
  <1>3. SyncTypeOK'
    BY <1>1, <1>2 DEF IpcInv, SyncTypeOK, Core
  <1>4. \A p \in Proc : kpc'[p] = "acquire" => kpc[p] = "acquire"
    BY <1>1 DEF CallsKept, OtherCalls, KernelPoints
  <1>5. IdsFresh'
    BY <1>2, <1>4 DEF IpcInv, IdsFresh
  <1>6. QueuedUsed'
    <2>1. \A i \in Id : Range(blocked[i]) \subseteq Proc
      BY LenProperties DEF IpcInv, SyncTypeOK, Range
    <2> QED
      BY <1>1, <1>2, <2>1 DEF IpcInv, QueuedUsed, CallsKept
  <1>7. FreeLockHasNoWaiters'
    BY <1>2 DEF IpcInv, FreeLockHasNoWaiters
  <1>8. AcquirerTracked'
    <2> SUFFICES ASSUME NEW p \in Proc, pcb'[p] = "live", kpc'[p] = "acquire",
                        state'[p] = "BLOCKED", acquiring[p] \in locks
                 PROVE  p \in Range(blocked[acquiring[p]]) \/ owner[acquiring[p]] = p
      BY <1>2 DEF AcquirerTracked, Live
    <2>1. kpc[p] = "acquire" /\ kpc[p] \in OtherCalls
      BY <1>4 DEF OtherCalls, KernelPoints
    <2>2. state[p] = "BLOCKED"
      BY <1>1, <2>1 DEF CallsKept
    <2>3. pcb[p] = "live"
      <3>1. pcb[p] \in {"live", "unused"}
        BY <1>1 DEF CallsKept
      <3> QED
        BY <2>1, <3>1 DEF IpcInv, Core, UnusedApart
    <2> QED
      BY <2>1, <2>2, <2>3 DEF IpcInv, AcquirerTracked, Live
  <1> QED
    BY <1>1, <1>3, <1>5, <1>6, <1>7, <1>8 DEF IpcInv

(* A new lock or condition variable keeps IpcInv.                          *)
LEMMA IpcNew ==
    ASSUME IpcInv, NEW p \in Proc, lock_new(p) \/ cvar_new(p)
    PROVE  IpcInv'
  <1> DEFINE n == next_ipc_id
  <1>1. /\ n < MaxIpc /\ next_ipc_id' = n + 1 /\ UNCHANGED procVars
        /\ \/ locks' = locks \cup {n} /\ cvars' = cvars
              /\ owner' = [owner EXCEPT ![n] = UNLOCKED]
           \/ locks' = locks /\ cvars' = cvars \cup {n} /\ owner' = owner
        /\ blocked' = [blocked EXCEPT ![n] = <<>>]
        /\ acquiring' = acquiring /\ holds' = holds
    BY DEF lock_new, cvar_new
  <1>2. Core' /\ kpc' = kpc /\ state' = state /\ pcb' = pcb
    BY <1>1, CoreStutter DEF IpcInv, procVars, schedVars
  <1>3. n \in Id /\ n \in Nat /\ MaxIpc \in Nat /\ n + 1 \in 0 .. MaxIpc
        /\ \A i \in Id : i \in Nat
    BY <1>1, SyncAssumption DEF IpcInv, SyncTypeOK, Id
  <1>4. <<>> \in Seq(Proc) /\ Range(<<>>) = {}
    BY EmptySeq, RangeEmpty
  <1>5. SyncTypeOK'
    BY <1>1, <1>2, <1>3, <1>4 DEF IpcInv, SyncTypeOK, Core, UNLOCKED
  <1>6. IdsFresh'
    <2>1. \A i \in locks \cup cvars : i \in Nat /\ i < n /\ i # n /\ i < n + 1
      BY <1>3 DEF IpcInv, SyncTypeOK, IdsFresh
    <2>2. \A q \in Proc : kpc[q] = "acquire" =>
             acquiring[q] \in Id /\ acquiring[q] < n /\ acquiring[q] < n + 1
      <3>1. \A i \in Id : i < n => i < n + 1
        BY <1>3
      <3>2. \A q \in Proc : kpc[q] = "acquire" => acquiring[q] \in Id /\ acquiring[q] < n
        BY DEF IpcInv, IdsFresh
      <3> QED
        BY <3>1, <3>2
    <2>3. n < n + 1
      BY <1>3
    <2> QED
      BY <1>1, <1>2, <2>1, <2>2, <2>3 DEF IpcInv, IdsFresh
  <1>7. /\ \A i \in Id : blocked'[i] = IF i = n THEN <<>> ELSE blocked[i]
        /\ \A i \in Id \ {n} : owner'[i] = owner[i]
    BY <1>1, <1>3 DEF IpcInv, SyncTypeOK
  <1>8. QueuedUsed' /\ FreeLockHasNoWaiters'
    <2>1. \A l \in locks : l \in Id
      BY DEF IpcInv, SyncTypeOK
    <2> QED
      BY <1>1, <1>2, <1>3, <1>4, <1>7, <2>1 DEF IpcInv, QueuedUsed, FreeLockHasNoWaiters
  <1>9. AcquirerTracked'
    <2> SUFFICES ASSUME NEW q \in Proc, pcb[q] = "live", kpc[q] = "acquire",
                        state[q] = "BLOCKED", acquiring[q] \in locks'
                 PROVE  q \in Range(blocked'[acquiring[q]]) \/ owner'[acquiring[q]] = q
      BY <1>1, <1>2 DEF AcquirerTracked, Live
    <2>1. acquiring[q] \in Id /\ acquiring[q] # n
      BY <1>3 DEF IpcInv, IdsFresh
    <2>2. acquiring[q] \in locks
      BY <1>1, <2>1
    <2> QED
      BY <1>7, <2>1, <2>2 DEF IpcInv, AcquirerTracked, Live
  <1> QED
    BY <1>2, <1>5, <1>6, <1>8, <1>9 DEF IpcInv

(* Taking a free lock keeps IpcInv.                                        *)
LEMMA IpcAcquireFree ==
    ASSUME IpcInv, NEW p \in Proc, NEW l \in Id, AcquireFree(p, l)
    PROVE  IpcInv'
  <1>1. /\ l \in locks /\ owner[l] = UNLOCKED
        /\ owner' = [owner EXCEPT ![l] = p]
        /\ holds' = [holds EXCEPT ![p] = @ \cup {l}]
        /\ UNCHANGED procVars
        /\ UNCHANGED <<next_ipc_id, locks, cvars, blocked, acquiring>>
    BY DEF AcquireFree
  <1>2. Core' /\ kpc' = kpc /\ state' = state /\ pcb' = pcb
    BY <1>1, CoreStutter DEF IpcInv, procVars, schedVars
  <1>3. \A i \in Id : owner'[i] = IF i = l THEN p ELSE owner[i]
    BY <1>1 DEF IpcInv, SyncTypeOK
  <1>4. SyncTypeOK'
    BY <1>1, <1>2 DEF IpcInv, SyncTypeOK, Core
  <1>5. IdsFresh' /\ QueuedUsed'
    BY <1>1, <1>2 DEF IpcInv, IdsFresh, QueuedUsed
  <1>6. \A i \in locks : i \in Id
    BY DEF IpcInv, SyncTypeOK
  <1>7. FreeLockHasNoWaiters'
    BY <1>1, <1>3, <1>6, SchedulerAssumption DEF IpcInv, FreeLockHasNoWaiters, UNLOCKED
  <1>8. AcquirerTracked'
    <2>1. Range(blocked[l]) = {}
      BY <1>1, RangeEmpty DEF IpcInv, FreeLockHasNoWaiters
    <2> QED
      BY <1>1, <1>2, <1>3, <1>6, <2>1, SchedulerAssumption DEF IpcInv, AcquirerTracked, Live,
         UNLOCKED
  <1> QED
    BY <1>2, <1>4, <1>5, <1>7, <1>8 DEF IpcInv

(* Blocking in Acquire keeps IpcInv.                                       *)
LEMMA IpcAcquireBlock ==
    ASSUME IpcInv, NEW p \in Proc, NEW l \in Id, AcquireBlock(p, l)
    PROVE  IpcInv'
  <1>1. /\ machine = "up" /\ current_process = p /\ kpc[p] = "user"
        /\ l \in locks /\ owner[l] # UNLOCKED
        /\ blocked' = [blocked EXCEPT ![l] = Append(@, p)]
        /\ acquiring' = [acquiring EXCEPT ![p] = l]
        /\ kpc' = [kpc EXCEPT ![p] = "acquire"]
        /\ ScheduleNextProcess(p, process_ready_queue, blocked_pcbs, delayed_pcbs,
                               dead_pcbs, [state EXCEPT ![p] = "BLOCKED"], pcb)
        /\ UNCHANGED <<delay_ticks, owed, parent, children, zombies, waiting,
                       child_exit_status, uncollected, staleWake,
                       next_ipc_id, locks, cvars, owner, holds>>
    BY DEF AcquireBlock, Syscall, UserMode, familyVars
  <1>2. /\ OtherTypes'
        /\ \A q \in Proc : kpc'[q] = IF q = p THEN "acquire" ELSE kpc[q]
        /\ \A q \in Proc : acquiring'[q] = IF q = p THEN l ELSE acquiring[q]
    BY <1>1 DEF IpcInv, Core, SyncTypeOK, ProcessTypeOK, SchedTypeOK, OtherTypes, KernelPoints
  <1>3. Core'
    BY <1>1, <1>2, CorePark DEF IpcInv
  <1>4. /\ pcb' = pcb
        /\ \A q \in Proc : state'[q] = IF q = p THEN "BLOCKED" ELSE state[q]
    BY <1>1 DEF ScheduleNextProcess, IpcInv, Core, ProcessTypeOK, SchedTypeOK
  <1>5. /\ Append(blocked[l], p) \in Seq(Proc) /\ Append(blocked[l], p) # <<>>
        /\ Range(Append(blocked[l], p)) = Range(blocked[l]) \cup {p}
        /\ \A i \in Id : blocked'[i] = IF i = l THEN Append(blocked[l], p) ELSE blocked[i]
    BY <1>1, PushLemma DEF IpcInv, SyncTypeOK
  <1>6. SyncTypeOK'
    BY <1>1, <1>3, <1>5 DEF IpcInv, SyncTypeOK, Core
  <1>7. IdsFresh'
    BY <1>1, <1>2 DEF IpcInv, IdsFresh
  <1>8. QueuedUsed'
    BY <1>1, <1>4, <1>5 DEF IpcInv, Core, UnusedApart, QueuedUsed
  <1>9. \A i \in locks : i \in Id
    BY DEF IpcInv, SyncTypeOK
  <1>10. FreeLockHasNoWaiters'
    BY <1>1, <1>5, <1>9 DEF IpcInv, FreeLockHasNoWaiters
  <1>11. AcquirerTracked'
    BY <1>1, <1>2, <1>4, <1>5, <1>9 DEF IpcInv, AcquirerTracked, Live
  <1> QED
    BY <1>3, <1>6, <1>7, <1>8, <1>10, <1>11 DEF IpcInv

(* Returning from Acquire keeps IpcInv.                                    *)
LEMMA IpcAcquireReturn ==
    ASSUME IpcInv, NEW p \in Proc, AcquireReturn(p)
    PROVE  IpcInv'
  <1>1. /\ machine = "up" /\ current_process = p /\ kpc[p] = "acquire"
        /\ kpc' = [kpc EXCEPT ![p] = "user"]
        /\ acquiring' = [acquiring EXCEPT ![p] = NULL]
        /\ holds' = [holds EXCEPT ![p] = @ \cup {acquiring[p]}]
        /\ UNCHANGED <<current_process, process_ready_queue, blocked_pcbs,
                   delayed_pcbs, dead_pcbs, state, delay_ticks, pcb, machine, owed,
                   parent, children, zombies, waiting, child_exit_status,
                   uncollected, staleWake, next_ipc_id, locks, cvars, owner, blocked>>
    BY DEF AcquireReturn, Resume, familyVars
  <1>2. /\ OtherTypes'
        /\ \A q \in Proc : kpc'[q] = IF q = p THEN "user" ELSE kpc[q]
        /\ \A q \in Proc \ {p} : acquiring'[q] = acquiring[q]
        /\ acquiring[p] \in Id
    BY <1>1 DEF IpcInv, Core, SyncTypeOK, ProcessTypeOK, SchedTypeOK, OtherTypes, KernelPoints,
       IdsFresh
  <1>3. Core'
    BY <1>1, <1>2, CoreMove DEF IpcInv
  <1>4. SyncTypeOK'
    BY <1>1, <1>2, <1>3 DEF IpcInv, SyncTypeOK, Core
  <1>5. IdsFresh' /\ QueuedUsed' /\ FreeLockHasNoWaiters'
    BY <1>1, <1>2 DEF IpcInv, IdsFresh, QueuedUsed, FreeLockHasNoWaiters
  <1>6. AcquirerTracked'
    BY <1>1, <1>2 DEF IpcInv, AcquirerTracked, Live
  <1> QED
    BY <1>3, <1>4, <1>5, <1>6 DEF IpcInv

-----------------------------------------------------------------------------
(* What lock_release does to the queue of the lock.                        *)
LEMMA HandOver ==
    ASSUME blocked \in [Id -> Seq(Proc)], NEW l \in Id
    PROVE  /\ NewOwner(l) \in Proc \cup {UNLOCKED}
           /\ OtherWaiters(l) \in Seq(Proc)
           /\ NewOwner(l) = UNLOCKED =>
                 blocked[l] = <<>> /\ OtherWaiters(l) = <<>> /\ Range(blocked[l]) = {}
           /\ NewOwner(l) # UNLOCKED =>
                 /\ NewOwner(l) \in Proc
                 /\ Range(blocked[l]) = {NewOwner(l)} \cup Range(OtherWaiters(l))
           /\ Range(OtherWaiters(l)) \subseteq Range(blocked[l])
           /\ \A x : OnceIn(blocked[l], x) =>
                 /\ OnceIn(OtherWaiters(l), x)
                 /\ x = NewOwner(l) => x \notin Range(OtherWaiters(l))
  <1>1. CASE blocked[l] = <<>>
    BY <1>1, EmptySeq, RangeEmpty DEF NewOwner, OtherWaiters, OnceIn
  <1>2. CASE blocked[l] # <<>>
    <2>1. NewOwner(l) = Head(blocked[l]) /\ OtherWaiters(l) = Tail(blocked[l])
      BY <1>2 DEF NewOwner, OtherWaiters
    <2>2. blocked[l] \in Seq(Proc)
      OBVIOUS
    <2>3. /\ Head(blocked[l]) \in Proc /\ Tail(blocked[l]) \in Seq(Proc)
          /\ Range(blocked[l]) = {Head(blocked[l])} \cup Range(Tail(blocked[l]))
          /\ \A x : OnceIn(blocked[l], x) =>
                       /\ OnceIn(Tail(blocked[l]), x)
                       /\ x = Head(blocked[l]) => x \notin Range(Tail(blocked[l]))
      BY <1>2, <2>2, PopLemma
    <2> QED
      BY <2>1, <2>3, SchedulerAssumption DEF UNLOCKED
  <1> QED
    BY <1>1, <1>2

(* The part of IpcInv that is about locks, when p hands over lock l and    *)
(* no other queue of a lock changes.                                       *)
LEMMA HandOverTracked ==
    ASSUME IpcInv, NEW p \in Proc, NEW l \in Id, l \in locks, owner[l] = p,
           kpc[p] = "user", kpc' = kpc, pcb' = pcb, locks' = locks, acquiring' = acquiring,
           \A q \in Proc : state'[q] = "BLOCKED" => state[q] = "BLOCKED",
           owner' = [owner EXCEPT ![l] = NewOwner(l)],
           blocked'[l] = OtherWaiters(l),
           \A i \in locks \ {l} : blocked'[i] = blocked[i]
    PROVE  FreeLockHasNoWaiters' /\ AcquirerTracked'
  <1>1. /\ \A i \in locks : i \in Id
        /\ \A i \in Id : owner'[i] = IF i = l THEN NewOwner(l) ELSE owner[i]
        /\ blocked \in [Id -> Seq(Proc)]
    BY DEF IpcInv, SyncTypeOK
  <1>2. /\ NewOwner(l) = UNLOCKED => OtherWaiters(l) = <<>> /\ Range(blocked[l]) = {}
        /\ NewOwner(l) # UNLOCKED =>
              Range(blocked[l]) = {NewOwner(l)} \cup Range(OtherWaiters(l))
    BY <1>1, HandOver
  <1>3. FreeLockHasNoWaiters'
    BY <1>1, <1>2 DEF IpcInv, FreeLockHasNoWaiters
  <1>4. AcquirerTracked'
    <2> SUFFICES ASSUME NEW q \in Proc, pcb[q] = "live", kpc[q] = "acquire",
                        state[q] = "BLOCKED", acquiring[q] \in locks
                 PROVE  q \in Range(blocked'[acquiring[q]]) \/ owner'[acquiring[q]] = q
      BY DEF AcquirerTracked, Live
    <2>1. q # p /\ (q \in Range(blocked[acquiring[q]]) \/ owner[acquiring[q]] = q)
      BY DEF IpcInv, AcquirerTracked, Live
    <2>2. CASE acquiring[q] = l
      BY <1>1, <1>2, <2>1, <2>2
    <2>3. CASE acquiring[q] # l
      BY <1>1, <2>1, <2>3
    <2> QED
      BY <2>2, <2>3
  <1> QED
    BY <1>3, <1>4

(* Releasing a lock keeps IpcInv.                                          *)
LEMMA IpcRelease ==
    ASSUME IpcInv, NEW p \in Proc, NEW l \in Id, ReleaseLockHandler(p, l)
    PROVE  IpcInv'
  <1> DEFINE n == NewOwner(l)
  <1>1. /\ machine = "up" /\ current_process = p /\ kpc[p] = "user"
        /\ l \in locks /\ owner[l] = p
        /\ owner' = [owner EXCEPT ![l] = n]
        /\ blocked' = [blocked EXCEPT ![l] = OtherWaiters(l)]
        /\ holds' = [holds EXCEPT ![p] = @ \ {l}]
        /\ IF n = UNLOCKED
           THEN UNCHANGED <<blocked_pcbs, state, process_ready_queue, machine>>
           ELSE Unblock(n)
        /\ UNCHANGED <<current_process, delayed_pcbs, dead_pcbs, delay_ticks, pcb, kpc,
                       owed, parent, children, zombies, waiting, child_exit_status,
                       uncollected, staleWake, next_ipc_id, locks, cvars, acquiring>>
    BY DEF ReleaseLockHandler, Syscall, UserMode, familyVars
  <1>2. /\ n \in Proc \cup {UNLOCKED} /\ OtherWaiters(l) \in Seq(Proc)
        /\ Range(OtherWaiters(l)) \subseteq Range(blocked[l])
        /\ n # UNLOCKED => n \in Proc
    BY HandOver DEF IpcInv, SyncTypeOK
  <1>3. OtherTypes'
    BY <1>1 DEF IpcInv, Core, ProcessTypeOK, SchedTypeOK, OtherTypes
  <1> HIDE DEF n
  <1>4. Core' /\ \A q \in Proc : state'[q] = "BLOCKED" => state[q] = "BLOCKED"
    <2>1. CASE n = UNLOCKED
      BY <1>1, <1>3, <2>1, CoreMove DEF IpcInv
    <2>2. CASE n # UNLOCKED /\ n \in blocked_pcbs
      <3>1. /\ blocked_pcbs' = blocked_pcbs \ {n}
            /\ state' = [state EXCEPT ![n] = "READY"]
            /\ process_ready_queue' = Append(process_ready_queue, n)
            /\ machine' = machine
        BY <1>1, <2>2 DEF Unblock
      <3>2. /\ n \in Proc /\ {n} \in SUBSET Proc /\ pcb[n] # "unused"
            /\ state' = [q \in Proc |-> IF q \in {n} THEN "READY" ELSE state[q]]
        BY <1>2, <2>2, <3>1 DEF IpcInv, Core, UnusedApart, ProcessTypeOK, SchedTypeOK
      <3>3. /\ process_ready_queue' \in Seq(Proc)
            /\ Range(process_ready_queue') = Range(process_ready_queue) \cup {n}
        BY <3>1, <3>2, PushLemma DEF IpcInv, Core, ProcessTypeOK, SchedTypeOK
      <3>4. \A q \in Proc : pcb[q] = "unused" => kpc'[q] = "user"
        BY <1>1 DEF IpcInv, Core, UnusedApart
      <3>5. Core'
        BY <1>1, <1>3, <3>1, <3>2, <3>3, <3>4, CoreWake DEF IpcInv
      <3> QED
        BY <3>2, <3>5
    <2>3. CASE n # UNLOCKED /\ n \notin blocked_pcbs
      <3>1. /\ machine' = "crashed"
            /\ UNCHANGED <<blocked_pcbs, state, process_ready_queue>>
        BY <1>1, <2>3 DEF Unblock
      <3>2. ProcessTypeOK' /\ UnusedApart'
        BY <1>1, <3>1 DEF IpcInv, Core, ProcessTypeOK, SchedTypeOK, MachineStates,
           UnusedApart, Ready
      <3>3. LiveNotDead' /\ Accounted'
        BY <1>1, <3>1 DEF IpcInv, Core, LiveNotDead, Accounted, Live, Ready
      <3> QED
        BY <3>1, <3>2, <3>3 DEF Core
    <2> QED
      BY <2>1, <2>2, <2>3
  <1>5. SyncTypeOK'
    BY <1>1, <1>2, <1>4 DEF IpcInv, SyncTypeOK, Core
  <1>6. IdsFresh'
    BY <1>1 DEF IpcInv, IdsFresh
  <1>7. \A i \in Id : blocked'[i] = IF i = l THEN OtherWaiters(l) ELSE blocked[i]
    BY <1>1 DEF IpcInv, SyncTypeOK
  <1>8. QueuedUsed'
    BY <1>1, <1>2, <1>7 DEF IpcInv, QueuedUsed
  <1>9. FreeLockHasNoWaiters' /\ AcquirerTracked'
    <2>1. /\ \A i \in locks \ {l} : blocked'[i] = blocked[i]
          /\ blocked'[l] = OtherWaiters(l)
          /\ owner' = [owner EXCEPT ![l] = NewOwner(l)]
      BY <1>1, <1>7 DEF IpcInv, SyncTypeOK, n
    <2> QED
      BY <1>1, <1>4, <2>1, HandOverTracked
  <1> QED
    BY <1>4, <1>5, <1>6, <1>8, <1>9 DEF IpcInv

-----------------------------------------------------------------------------
(* CvarWait keeps IpcInv: it hands the lock over as a release does.        *)
LEMMA IpcCvarWait ==
    ASSUME IpcInv, NEW p \in Proc, NEW c \in Id, NEW l \in Id, CvarWaitHandler(p, c, l)
    PROVE  IpcInv'
  <1>1. /\ current_process = p /\ kpc[p] = "user" /\ c \in cvars
        /\ l \in locks /\ owner[l] = p
        /\ owner' = [owner EXCEPT ![l] = NewOwner(l)]
        /\ blocked' = [blocked EXCEPT ![l] = OtherWaiters(l), ![c] = Append(@, p)]
        /\ UNCHANGED procVars
        /\ UNCHANGED <<next_ipc_id, locks, cvars, acquiring, holds>>
    BY DEF CvarWaitHandler, Syscall, UserMode
  <1>2. Core' /\ kpc' = kpc /\ state' = state /\ pcb' = pcb
    BY <1>1, CoreStutter DEF IpcInv, procVars, schedVars
  <1>3. c # l /\ c \notin locks
    BY <1>1 DEF IpcInv, IdsFresh
  <1>4. /\ NewOwner(l) \in Proc \cup {UNLOCKED} /\ OtherWaiters(l) \in Seq(Proc)
        /\ Range(OtherWaiters(l)) \subseteq Range(blocked[l])
    BY HandOver DEF IpcInv, SyncTypeOK
  <1>5. /\ Append(blocked[c], p) \in Seq(Proc)
        /\ Range(Append(blocked[c], p)) = Range(blocked[c]) \cup {p}
    BY PushLemma DEF IpcInv, SyncTypeOK
  <1>6. \A i \in Id : blocked'[i] = IF i = l THEN OtherWaiters(l)
                                    ELSE IF i = c THEN Append(blocked[c], p) ELSE blocked[i]
    BY <1>1, <1>3 DEF IpcInv, SyncTypeOK
  <1>7. SyncTypeOK'
    <2>1. blocked' \in [Id -> Seq(Proc)]
      BY <1>1, <1>3, <1>4, <1>5 DEF IpcInv, SyncTypeOK
    <2> QED
      BY <1>1, <1>2, <1>4, <2>1 DEF IpcInv, SyncTypeOK, Core
  <1>8. IdsFresh'
    BY <1>1, <1>2 DEF IpcInv, IdsFresh
  <1>9. QueuedUsed'
    <2>1. pcb[p] # "unused"
      BY <1>1 DEF IpcInv, Core, UnusedApart
    <2> QED
      BY <1>1, <1>2, <1>4, <1>5, <1>6, <2>1 DEF IpcInv, QueuedUsed
  <1>10. FreeLockHasNoWaiters' /\ AcquirerTracked'
    <2>1. /\ \A i \in locks \ {l} : blocked'[i] = blocked[i]
          /\ blocked'[l] = OtherWaiters(l)
      BY <1>1, <1>3, <1>6 DEF IpcInv, SyncTypeOK
    <2> QED
      BY <1>1, <1>2, <2>1, HandOverTracked
  <1> QED
    BY <1>2, <1>7, <1>8, <1>9, <1>10 DEF IpcInv

(* A step that only shortens the queue of a condition variable, and maybe  *)
(* moves sleeping processes to the ready queue, keeps IpcInv.              *)
LEMMA IpcCvarStep ==
    ASSUME IpcInv, NEW c \in Id, c \in cvars, Core',
           NEW s \in Seq(Proc), Range(s) \subseteq Range(blocked[c]),
           blocked' = [blocked EXCEPT ![c] = s],
           UNCHANGED <<kpc, state, pcb, next_ipc_id, locks, cvars, owner, acquiring, holds>>
    PROVE  IpcInv'
  <1>1. /\ c \notin locks /\ \A i \in locks : i \in Id
        /\ \A i \in Id : blocked'[i] = IF i = c THEN s ELSE blocked[i]
    BY DEF IpcInv, SyncTypeOK, IdsFresh
  <1>2. \A i \in locks : blocked'[i] = blocked[i]
    BY <1>1
  <1>3. SyncTypeOK'
    BY DEF IpcInv, SyncTypeOK, Core
  <1>4. IdsFresh' /\ QueuedUsed'
    BY <1>1 DEF IpcInv, IdsFresh, QueuedUsed
  <1>5. FreeLockHasNoWaiters' /\ AcquirerTracked'
    BY <1>2 DEF IpcInv, FreeLockHasNoWaiters, AcquirerTracked, Live
  <1> QED
    BY <1>3, <1>4, <1>5 DEF IpcInv

LEMMA IpcCvarSignal ==
    ASSUME IpcInv, NEW p \in Proc, NEW c \in Id, CvarSignalHandler(p, c)
    PROVE  IpcInv'
  <1> DEFINE n == Head(blocked[c])
  <1>1. /\ c \in cvars /\ blocked[c] # <<>>
        /\ blocked' = [blocked EXCEPT ![c] = Tail(blocked[c])]
        /\ delayed_pcbs' = delayed_pcbs \ {n}
        /\ process_ready_queue' = IF n \in delayed_pcbs THEN Append(process_ready_queue, n)
                                  ELSE process_ready_queue
        /\ UNCHANGED <<current_process, blocked_pcbs, dead_pcbs, state, delay_ticks, pcb,
                       kpc, machine, owed, parent, children, zombies, waiting,
                       child_exit_status, uncollected, staleWake,
                       next_ipc_id, locks, cvars, owner, acquiring, holds>>
    BY DEF CvarSignalHandler, familyVars
  <1>2. /\ n \in Proc /\ Tail(blocked[c]) \in Seq(Proc)
        /\ Range(Tail(blocked[c])) \subseteq Range(blocked[c])
    <2>1. blocked[c] \in Seq(Proc)
      BY DEF IpcInv, SyncTypeOK
    <2>2. Head(blocked[c]) \in Proc /\ Tail(blocked[c]) \in Seq(Proc)
          /\ Range(blocked[c]) = {Head(blocked[c])} \cup Range(Tail(blocked[c]))
      BY <1>1, <2>1, PopLemma
    <2> QED
      BY <2>2
  <1> HIDE DEF n
  <1>3. Core'
    <2>1. /\ process_ready_queue' \in Seq(Proc)
          /\ Range(process_ready_queue') = Range(process_ready_queue) \cup ({n} \cap delayed_pcbs)
      <3>1. process_ready_queue \in Seq(Proc)
        BY DEF IpcInv, Core, ProcessTypeOK, SchedTypeOK
      <3>2. /\ Append(process_ready_queue, n) \in Seq(Proc)
            /\ Range(Append(process_ready_queue, n)) = Range(process_ready_queue) \cup {n}
        BY <1>2, <3>1, PushLemma
      <3> QED
        BY <1>1, <3>1, <3>2
    <2>2. ProcessTypeOK'
      BY <1>1, <2>1 DEF IpcInv, Core, ProcessTypeOK, SchedTypeOK
    <2>3. UnusedApart'
      BY <1>1, <2>1 DEF IpcInv, Core, UnusedApart, Ready
    <2>4. LiveNotDead' /\ Accounted'
      BY <1>1, <2>1 DEF IpcInv, Core, LiveNotDead, Accounted, Live, Ready
    <2> QED
      BY <2>2, <2>3, <2>4 DEF Core
  <1> QED
    BY <1>1, <1>2, <1>3, IpcCvarStep

(* cvar_broadcast pops half of the queue, rounded up.                      *)
LEMMA BroadcastPopsNat ==
    ASSUME NEW n \in Nat, n > 0
    PROVE  BroadcastPops(n) \in 1 .. n + 1
  <1> DEFINE P(i) == i >= n - 1 - i /\ \A j \in 0 .. i - 1 : j < n - 1 - j
  <1>1. \E i \in 0 .. n : P(i)
    <2>1. PICK h \in Nat : n = 2 * h \/ n = 2 * h + 1
      <3>1. n \div 2 \in Nat /\ (n = 2 * (n \div 2) \/ n = 2 * (n \div 2) + 1)
        OBVIOUS
      <3> QED
        BY <3>1
    <2>2. h \in 0 .. n /\ P(h)
      BY <2>1
    <2> QED
      BY <2>2
  <1>2. (CHOOSE i \in 0 .. n : P(i)) \in 0 .. n
    BY <1>1
  <1>3. BroadcastPops(n) = 1 + (CHOOSE i \in 0 .. n : P(i))
    BY DEF BroadcastPops
  <1> HIDE DEF P
  <1> QED
    BY <1>2, <1>3

LEMMA IpcCvarBroadcast ==
    ASSUME IpcInv, NEW p \in Proc, NEW c \in Id, CvarBroadcastHandler(p, c)
    PROVE  IpcInv'
  <1> DEFINE q == blocked[c]
             m == BroadcastPops(Len(q)) + 1
             s == SubSeq(q, m, Len(q))
  <1>1. /\ c \in cvars /\ q # <<>>
        /\ blocked' = [blocked EXCEPT ![c] = s]
        /\ UNCHANGED procVars
        /\ UNCHANGED <<next_ipc_id, locks, cvars, owner, acquiring, holds>>
    BY DEF CvarBroadcastHandler
  <1>2. Core' /\ kpc' = kpc /\ state' = state /\ pcb' = pcb
    BY <1>1, CoreStutter DEF IpcInv, procVars, schedVars
  <1>3. q \in Seq(Proc) /\ Len(q) \in Nat /\ Len(q) > 0 /\ DOMAIN q = 1 .. Len(q)
    BY <1>1, EmptySeq, LenProperties DEF IpcInv, SyncTypeOK
  <1>4. m \in Int /\ m >= 2
    <2>1. \A n \in Nat : n > 0 => BroadcastPops(n) \in 1 .. n + 1
      BY BroadcastPopsNat
    <2>2. BroadcastPops(Len(q)) \in 1 .. Len(q) + 1
      BY <1>3, <2>1
    <2> QED
      BY <1>3, <2>2
  <1> HIDE DEF q, m
  <1>5. s \in Seq(Proc) /\ Range(s) \subseteq Range(q)
    <2>1. \A i \in m .. Len(q) : i \in 1 .. Len(q) /\ q[i] \in Range(q)
      BY <1>3, <1>4 DEF Range
    <2>2. s \in Seq(Range(q))
      BY <1>3, <1>4, <2>1, SubSeqProperties
    <2>3. Range(q) \subseteq Proc
      BY <1>3 DEF Range
    <2>0. \A S : \A t \in Seq(S) : Range(t) \subseteq S
      BY DEF Range
    <2> HIDE DEF s
    <2>4. Range(s) \subseteq Range(q)
      BY <2>2, <2>0
    <2>5. s \in Seq(Proc)
      BY <2>2, <2>3, SeqMonotonic
    <2> QED
      BY <2>4, <2>5
  <1> HIDE DEF s
  <1> QED
    BY <1>1, <1>2, <1>5, IpcCvarStep DEF q

(* Reclaim keeps IpcInv, even if it frees PCBs that are in use.            *)
LEMMA IpcReclaim ==
    ASSUME IpcInv, NEW p \in Proc, NEW i, ReclaimHandler(p, i)
    PROVE  IpcInv'
  <1>1. /\ machine = "up" /\ i \in locks \cup cvars
        /\ locks' = locks \ {i} /\ cvars' = cvars \ {i}
        /\ pcb' = [q \in Proc |-> IF q \in Range(blocked[i]) THEN "freed" ELSE pcb[q]]
        /\ blocked' = [blocked EXCEPT ![i] = <<>>]
        /\ machine' \in {"up", "corrupt", "crashed"}
        /\ UNCHANGED <<current_process, process_ready_queue, blocked_pcbs, delayed_pcbs,
                       dead_pcbs, state, delay_ticks, kpc, owed, parent, children, zombies,
                       waiting, child_exit_status, uncollected,
                       staleWake, next_ipc_id, owner, acquiring, holds>>
    BY DEF ReclaimHandler, familyVars, Syscall, UserMode
  <1>2. /\ i \in Id /\ \A j \in locks : j \in Id
        /\ \A j \in Id : blocked'[j] = IF j = i THEN <<>> ELSE blocked[j]
    BY <1>1 DEF IpcInv, SyncTypeOK
  <1>3. /\ \A q \in Proc : pcb'[q] = "live" => pcb[q] = "live"
        /\ \A q \in Proc : pcb'[q] = "unused" <=> pcb[q] = "unused"
    BY <1>1, <1>2 DEF IpcInv, QueuedUsed
  <1>4. Core'
    <2>1. ProcessTypeOK'
      BY <1>1 DEF IpcInv, Core, ProcessTypeOK, SchedTypeOK, Memory, MachineStates
    <2>2. UnusedApart'
      BY <1>1, <1>3, SchedulerAssumption DEF IpcInv, Core, UnusedApart, Ready
    <2>3. LiveNotDead' /\ Accounted'
      BY <1>1, <1>3 DEF IpcInv, Core, LiveNotDead, Accounted, Live, Ready
    <2> QED
      BY <2>1, <2>2, <2>3 DEF Core
  <1>5. SyncTypeOK'
    BY <1>1, <1>4, EmptySeq DEF IpcInv, SyncTypeOK, Core
  <1>6. IdsFresh'
    BY <1>1 DEF IpcInv, IdsFresh
  <1>7. QueuedUsed'
    <2>1. \A j \in Id : Range(blocked[j]) \subseteq Proc
      BY LenProperties DEF IpcInv, SyncTypeOK, Range
    <2> QED
      BY <1>2, <1>3, <2>1, RangeEmpty DEF IpcInv, QueuedUsed
  <1>8. FreeLockHasNoWaiters' /\ AcquirerTracked'
    BY <1>1, <1>2, <1>3 DEF IpcInv, FreeLockHasNoWaiters, AcquirerTracked, Live
  <1> QED
    BY <1>4, <1>5, <1>6, <1>7, <1>8 DEF IpcInv

LEMMA IpcStutter ==
    ASSUME IpcInv, UNCHANGED syncVars
    PROVE  IpcInv'
  <1>1. UNCHANGED procVars /\ UNCHANGED <<kpc, state, pcb>>
        /\ UNCHANGED <<next_ipc_id, locks, cvars, owner, blocked, acquiring, holds>>
    BY DEF syncVars, procVars, schedVars, ipcVars
  <1>2. Core'
    BY <1>1, CoreStutter DEF IpcInv
  <1> QED
    BY <1>1, <1>2 DEF IpcInv, Core, SyncTypeOK, IdsFresh, QueuedUsed, FreeLockHasNoWaiters,
       AcquirerTracked, Live

(* Every step keeps IpcInv.                                                *)
LEMMA IpcNext == IpcInv /\ [SyncNext]_syncVars => IpcInv'
  <1> SUFFICES ASSUME IpcInv, [SyncNext]_syncVars
               PROVE  IpcInv'
    OBVIOUS
  <1>1. CASE ProcessNext /\ UNCHANGED ipcVars
    BY <1>1, IpcProcess
  <1>2. ASSUME NEW p \in Proc, IpcStep(p)
        PROVE  IpcInv'
    <2>1. CASE SyncError(p)
      BY <2>1, IpcStutter DEF SyncError
    <2>2. CASE lock_new(p) \/ cvar_new(p)
      BY <2>2, IpcNew
    <2>3. CASE AcquireReturn(p)
      BY <2>3, IpcAcquireReturn
    <2>4. ASSUME NEW l \in Id,
                 AcquireFree(p, l) \/ AcquireBlock(p, l) \/ ReleaseLockHandler(p, l)
          PROVE  IpcInv'
      BY <2>4, IpcAcquireFree, IpcAcquireBlock, IpcRelease
    <2>5. ASSUME NEW c \in Id, NEW l \in Id, CvarWaitHandler(p, c, l)
          PROVE  IpcInv'
      BY <2>5, IpcCvarWait
    <2>6. ASSUME NEW c \in Id, CvarSignalHandler(p, c) \/ CvarBroadcastHandler(p, c)
          PROVE  IpcInv'
      BY <2>6, IpcCvarSignal, IpcCvarBroadcast
    <2>7. ASSUME NEW i \in Reclaimable, ReclaimHandler(p, i)
          PROVE  IpcInv'
      BY <2>7, IpcReclaim
    <2> QED
      BY <1>2, <2>1, <2>2, <2>3, <2>4, <2>5, <2>6, <2>7 DEF IpcStep
  <1>3. CASE UNCHANGED syncVars
    BY <1>3, IpcStutter
  <1> QED
    BY <1>1, <1>2, <1>3 DEF SyncNext

(* IpcInv holds whatever the programs call, in any order.                  *)
THEOREM IpcInvHolds == SyncSpec => []IpcInv
  BY IpcInit, IpcNext, PTL DEF SyncSpec

(* The types of the state of locks and condition variables (ipc_wrapper.c) *)
(* and of the processes that use them.                                     *)
THEOREM SyncTypeCorrect == SyncSpec => []SyncTypeOK
  <1>1. IpcInv => SyncTypeOK
    BY DEF IpcInv
  <1> QED
    BY IpcInvHolds, <1>1, PTL

(* Nobody waits for a lock that is free: lock_release hands it over.       *)
THEOREM FreeLocksHaveNoWaiters == SyncSpec => []FreeLockHasNoWaiters
  <1>1. IpcInv => FreeLockHasNoWaiters
    BY DEF IpcInv
  <1> QED
    BY IpcInvHolds, <1>1, PTL

(* A process blocked in AcquireLockHandler is queued at the lock or owns   *)
(* it, even after misuse of condition variables and of Reclaim.            *)
THEOREM AcquirersTracked == SyncSpec => []AcquirerTracked
  <1>1. IpcInv => AcquirerTracked
    BY DEF IpcInv
  <1> QED
    BY IpcInvHolds, <1>1, PTL

(* Locks, condition variables and Reclaim lose no process: whoever has a   *)
(* PCB runs, is queued or is in a set the kernel can wake it from.         *)
THEOREM SyncLosesNoProcess == SyncSpec => []Accounted
  <1>1. IpcInv => Accounted
    BY DEF IpcInv, Core
  <1> QED
    BY IpcInvHolds, <1>1, PTL

-----------------------------------------------------------------------------
LEMMA LockInit == SyncInit => LockInv
  <1> SUFFICES ASSUME SyncInit
               PROVE  LockInv
    OBVIOUS
  <1>1. Inv
    BY InitInv DEF SyncInit
  <1>2. HoldsFresh /\ machine # "crashed" /\ QueuedAsleep /\ WokenOwns /\ HolderOwns
    BY DEF SyncInit, ProcessInit, HoldsFresh, QueuedAsleep, WokenOwns, HolderOwns
  <1> QED
    BY <1>1, <1>2 DEF LockInv

(* The steps of Process keep LockInv.                                      *)
LEMMA LockProcess ==
    ASSUME IpcInv, LockInv, ProcessNext, UNCHANGED ipcVars
    PROVE  LockInv'
  <1>1. Inv' /\ CallsKept
    BY NextInv, NextCalls DEF LockInv, Inv
  <1>2. UNCHANGED <<next_ipc_id, locks, cvars, owner, blocked, acquiring, holds>>
    BY DEF ipcVars
  <1>3. /\ \A p \in Proc : kpc'[p] = "acquire" <=> kpc[p] = "acquire"
        /\ \A p \in Proc : kpc[p] = "acquire" => kpc[p] \in OtherCalls
    BY <1>1 DEF CallsKept, OtherCalls, KernelPoints
  <1>4. HoldsFresh'
    BY <1>1, <1>2 DEF LockInv, HoldsFresh, CallsKept
  <1>5. ASSUME ~staleWake'
        PROVE  machine' # "crashed" /\ QueuedAsleep' /\ WokenOwns' /\ HolderOwns'
    <2>1. ~staleWake
      BY <1>1, <1>5 DEF CallsKept
    <2>2. machine # "crashed" /\ QueuedAsleep /\ WokenOwns /\ HolderOwns
      BY <2>1 DEF LockInv
    <2>3. \A p \in Proc : kpc[p] = "acquire" => (p \in blocked_pcbs' <=> p \in blocked_pcbs)
      BY <1>1, <1>3, <1>5 DEF CallsKept
    <2>4. machine' # "crashed"
      BY <1>1, <2>2 DEF CallsKept
    <2>5. QueuedAsleep'
      <3>1. \A l \in locks : Range(blocked[l]) \subseteq Proc
        BY LenProperties DEF IpcInv, SyncTypeOK, Range
      <3> QED
        BY <1>2, <1>3, <2>2, <2>3, <3>1 DEF QueuedAsleep
    <2>6. \A p \in Proc : pcb'[p] = "live" => pcb[p] \in {"live", "unused"}
      BY <1>1 DEF CallsKept
    <2>7. WokenOwns'
      <3>1. \A p \in Proc : pcb'[p] = "live" /\ kpc[p] = "acquire" => pcb[p] = "live"
        BY <2>6 DEF IpcInv, Core, UnusedApart
      <3> QED
        BY <1>2, <1>3, <2>2, <2>3, <3>1 DEF WokenOwns, Live
    <2>8. HolderOwns'
      <3>1. \A p \in Proc : pcb[p] = "unused" => holds[p] = {}
        BY DEF LockInv, HoldsFresh
      <3> QED
        BY <1>2, <2>2, <2>6, <3>1 DEF HolderOwns, Live
    <2> QED
      BY <2>4, <2>5, <2>7, <2>8
  <1> QED
    BY <1>1, <1>4, <1>5 DEF LockInv

(* A new lock or condition variable has an id that nobody knows.           *)
LEMMA LockNew ==
    ASSUME IpcInv, LockInv, NEW p \in Proc, lock_new(p) \/ cvar_new(p)
    PROVE  LockInv'
  <1> DEFINE n == next_ipc_id
  <1>1. /\ n < MaxIpc /\ next_ipc_id' = n + 1 /\ UNCHANGED procVars
        /\ UNCHANGED <<kpc, pcb, blocked_pcbs, machine, staleWake>>
        /\ \/ locks' = locks \cup {n} /\ owner' = [owner EXCEPT ![n] = UNLOCKED]
           \/ locks' = locks /\ owner' = owner
        /\ blocked' = [blocked EXCEPT ![n] = <<>>]
        /\ acquiring' = acquiring /\ holds' = holds
    BY DEF lock_new, cvar_new, procVars, schedVars
  <1>2. Inv'
    BY <1>1, StutterStep DEF LockInv
  <1>3. n \in Id /\ n \in Nat /\ \A i \in Id : i \in Nat
    BY <1>1, SyncAssumption DEF IpcInv, SyncTypeOK, Id
  <1>4. \A q \in Proc : holds[q] \subseteq Id
    BY DEF IpcInv, SyncTypeOK
  <1>5. \A q \in Proc : \A l \in holds[q] : l < n /\ l # n /\ l < n + 1
    <2>1. \A q \in Proc : \A l \in holds[q] : l \in Nat /\ l < n
      BY <1>3, <1>4 DEF LockInv, HoldsFresh
    <2>2. \A l \in Nat : l < n => l # n /\ l < n + 1
      BY <1>3
    <2> QED
      BY <2>1, <2>2
  <1>6. HoldsFresh'
    BY <1>1, <1>5 DEF LockInv, HoldsFresh
  <1>7. /\ \A i \in Id : blocked'[i] = IF i = n THEN <<>> ELSE blocked[i]
        /\ \A i \in Id \ {n} : owner'[i] = owner[i]
        /\ \A l \in locks : l \in Id
    BY <1>1, <1>3 DEF IpcInv, SyncTypeOK
  <1>8. \A q \in Proc : kpc[q] = "acquire" => acquiring[q] \in Id /\ acquiring[q] # n
    BY <1>3 DEF IpcInv, IdsFresh
  <1>9. ASSUME ~staleWake
        PROVE  QueuedAsleep' /\ WokenOwns' /\ HolderOwns'
    <2>1. QueuedAsleep /\ WokenOwns /\ HolderOwns
      BY <1>9 DEF LockInv
    <2>2. Range(<<>>) = {} /\ \A x : OnceIn(<<>>, x)
      BY RangeEmpty, EmptySeq DEF OnceIn
    <2>3. QueuedAsleep'
      BY <1>1, <1>3, <1>7, <2>1, <2>2 DEF QueuedAsleep
    <2>4. WokenOwns'
      BY <1>1, <1>7, <1>8, <2>1 DEF WokenOwns, Live
    <2>5. HolderOwns'
      BY <1>1, <1>4, <1>5, <1>7, <2>1 DEF HolderOwns, Live
    <2> QED
      BY <2>3, <2>4, <2>5
  <1> QED
    BY <1>1, <1>2, <1>6, <1>9 DEF LockInv

(* Whoever takes a free lock is the only one who holds it.                 *)
LEMMA LockAcquireFree ==
    ASSUME IpcInv, LockInv, NEW p \in Proc, NEW l \in Id, AcquireFree(p, l)
    PROVE  LockInv'
  <1>1. /\ machine = "up" /\ current_process = p
        /\ l \in locks /\ owner[l] = UNLOCKED
        /\ owner' = [owner EXCEPT ![l] = p]
        /\ holds' = [holds EXCEPT ![p] = @ \cup {l}]
        /\ UNCHANGED procVars
        /\ UNCHANGED <<kpc, pcb, blocked_pcbs, machine, staleWake>>
        /\ UNCHANGED <<next_ipc_id, locks, cvars, blocked, acquiring>>
    BY DEF AcquireFree, Syscall, UserMode, procVars, schedVars
  <1>2. Inv'
    BY <1>1, StutterStep DEF LockInv
  <1>3. /\ \A i \in Id : owner'[i] = IF i = l THEN p ELSE owner[i]
        /\ \A q \in Proc : holds'[q] = IF q = p THEN holds[p] \cup {l} ELSE holds[q]
        /\ \A i \in locks : i \in Id
        /\ owner[l] \notin Proc
    BY <1>1, SchedulerAssumption DEF IpcInv, SyncTypeOK, UNLOCKED
  <1>4. HoldsFresh'
    BY <1>1, <1>3 DEF IpcInv, Core, UnusedApart, IdsFresh, LockInv, HoldsFresh
  <1>5. ASSUME ~staleWake
        PROVE  QueuedAsleep' /\ WokenOwns' /\ HolderOwns'
    <2>1. QueuedAsleep /\ WokenOwns /\ HolderOwns
      BY <1>5 DEF LockInv
    <2>2. QueuedAsleep'
      BY <1>1, <2>1 DEF QueuedAsleep
    <2>3. WokenOwns'
      BY <1>1, <1>3, <2>1 DEF WokenOwns, Live
    <2>4. HolderOwns'
      BY <1>1, <1>3, <2>1 DEF HolderOwns, Live
    <2> QED
      BY <2>2, <2>3, <2>4
  <1> QED
    BY <1>1, <1>2, <1>4, <1>5 DEF LockInv

(* Blocking in Acquire puts the caller in the queue once.                  *)
LEMMA LockAcquireBlock ==
    ASSUME IpcInv, LockInv, NEW p \in Proc, NEW l \in Id, AcquireBlock(p, l)
    PROVE  LockInv'
  <1>1. /\ machine = "up" /\ current_process = p /\ p # idle_process
        /\ l \in locks
        /\ blocked' = [blocked EXCEPT ![l] = Append(@, p)]
        /\ acquiring' = [acquiring EXCEPT ![p] = l]
        /\ kpc' = [kpc EXCEPT ![p] = "acquire"]
        /\ ScheduleNextProcess(p, process_ready_queue, blocked_pcbs, delayed_pcbs,
                               dead_pcbs, [state EXCEPT ![p] = "BLOCKED"], pcb)
        /\ UNCHANGED <<delay_ticks, owed, familyVars, uncollected, staleWake>>
        /\ UNCHANGED <<next_ipc_id, locks, cvars, owner, holds>>
    BY DEF AcquireBlock, Syscall, UserMode
  <1>2. "acquire" \in OtherCalls
    BY DEF OtherCalls, KernelPoints
  <1>3. /\ Inv'
        /\ blocked_pcbs' = blocked_pcbs \cup {p} /\ pcb' = pcb
        /\ \A q \in Proc : kpc'[q] = IF q = p THEN "acquire" ELSE kpc[q]
        /\ ~staleWake => machine' = "up"
    BY <1>1, <1>2, InvBlock DEF LockInv
  <1>4. HoldsFresh'
    BY <1>1, <1>3 DEF LockInv, HoldsFresh
  <1>5. /\ Range(Append(blocked[l], p)) = Range(blocked[l]) \cup {p}
        /\ \A x : OnceIn(blocked[l], x) /\ (x = p => x \notin Range(blocked[l]))
                      => OnceIn(Append(blocked[l], p), x)
        /\ \A i \in Id : blocked'[i] = IF i = l THEN Append(blocked[l], p) ELSE blocked[i]
    BY <1>1, PushLemma DEF IpcInv, SyncTypeOK
  <1>6. /\ \A q \in Proc : acquiring'[q] = IF q = p THEN l ELSE acquiring[q]
        /\ \A i \in locks : i \in Id /\ Range(blocked[i]) \subseteq Proc
    BY <1>1, LenProperties DEF IpcInv, SyncTypeOK, Range
  <1>7. ASSUME ~staleWake
        PROVE  QueuedAsleep' /\ WokenOwns' /\ HolderOwns'
    <2>1. QueuedAsleep /\ WokenOwns /\ HolderOwns /\ p \notin blocked_pcbs
      BY <1>1, <1>7 DEF LockInv, Inv, Places
    <2>2. \A i \in locks : p \notin Range(blocked[i])
      BY <2>1 DEF QueuedAsleep
    <2>3. QueuedAsleep'
      BY <1>1, <1>3, <1>5, <1>6, <2>1, <2>2 DEF QueuedAsleep
    <2>4. WokenOwns'
      BY <1>1, <1>3, <1>6, <2>1 DEF WokenOwns, Live
    <2>5. HolderOwns'
      BY <1>1, <1>3, <2>1 DEF HolderOwns, Live
    <2> QED
      BY <2>3, <2>4, <2>5
  <1> QED
    BY <1>1, <1>3, <1>4, <1>7 DEF LockInv

(* AcquireLockHandler does not look at the lock again: WokenOwns is why it *)
(* may tell its caller that it holds the lock.                             *)
LEMMA LockAcquireReturn ==
    ASSUME IpcInv, LockInv, NEW p \in Proc, AcquireReturn(p)
    PROVE  LockInv'
  <1>1. /\ machine = "up" /\ current_process = p /\ kpc[p] = "acquire"
        /\ kpc' = [kpc EXCEPT ![p] = "user"]
        /\ acquiring' = [acquiring EXCEPT ![p] = NULL]
        /\ holds' = [holds EXCEPT ![p] = @ \cup {acquiring[p]}]
        /\ UNCHANGED <<current_process, process_ready_queue, blocked_pcbs,
                   delayed_pcbs, dead_pcbs, state, delay_ticks, pcb, machine, owed,
                   familyVars, uncollected, staleWake>>
        /\ UNCHANGED <<next_ipc_id, locks, cvars, owner, blocked>>
    BY DEF AcquireReturn, Resume
  <1>2. p # idle_process
    BY <1>1 DEF LockInv, Inv, IdleOnce
  <1>3. Inv'
    BY <1>1, <1>2, InvMove DEF LockInv
  <1>4. /\ \A q \in Proc : kpc'[q] = IF q = p THEN "user" ELSE kpc[q]
        /\ \A q \in Proc \ {p} : acquiring'[q] = acquiring[q]
        /\ \A q \in Proc : holds'[q] = IF q = p THEN holds[p] \cup {acquiring[p]} ELSE holds[q]
        /\ acquiring[p] \in Id /\ acquiring[p] < next_ipc_id
        /\ \A i \in locks : i \in Id /\ Range(blocked[i]) \subseteq Proc
    BY <1>1, LenProperties DEF IpcInv, SyncTypeOK, Core, ProcessTypeOK, SchedTypeOK, IdsFresh,
       Range
  <1>5. HoldsFresh'
    BY <1>1, <1>4 DEF IpcInv, Core, UnusedApart, LockInv, HoldsFresh
  <1>6. ASSUME ~staleWake
        PROVE  QueuedAsleep' /\ WokenOwns' /\ HolderOwns'
    <2>1. QueuedAsleep /\ WokenOwns /\ HolderOwns /\ p \notin blocked_pcbs /\ Live(p)
      BY <1>1, <1>6 DEF LockInv, Inv, Places, Alive
    <2>2. \A i \in locks : p \notin Range(blocked[i])
      BY <2>1 DEF QueuedAsleep
    <2>3. QueuedAsleep'
      BY <1>1, <1>4, <2>1, <2>2 DEF QueuedAsleep
    <2>4. WokenOwns'
      BY <1>1, <1>4, <2>1 DEF WokenOwns, Live
    <2>5. acquiring[p] \in locks => owner[acquiring[p]] = p
      BY <1>1, <2>1 DEF WokenOwns
    <2>6. HolderOwns'
      BY <1>1, <1>4, <2>1, <2>5 DEF HolderOwns, Live
    <2> QED
      BY <2>3, <2>4, <2>6
  <1> QED
    BY <1>1, <1>3, <1>5, <1>6 DEF LockInv

(* Release finds the new owner asleep and wakes it.                        *)
LEMMA LockRelease ==
    ASSUME IpcInv, LockInv, NEW p \in Proc, NEW l \in Id, ReleaseLockHandler(p, l)
    PROVE  LockInv'
  <1> DEFINE n == NewOwner(l)
  <1>1. /\ machine = "up" /\ current_process = p /\ kpc[p] = "user"
        /\ l \in locks /\ owner[l] = p
        /\ owner' = [owner EXCEPT ![l] = n]
        /\ blocked' = [blocked EXCEPT ![l] = OtherWaiters(l)]
        /\ holds' = [holds EXCEPT ![p] = @ \ {l}]
        /\ IF n = UNLOCKED
           THEN UNCHANGED <<blocked_pcbs, state, process_ready_queue, machine>>
           ELSE Unblock(n)
        /\ UNCHANGED <<current_process, delayed_pcbs, dead_pcbs, delay_ticks, pcb, kpc,
                       owed, familyVars, uncollected, staleWake>>
        /\ UNCHANGED <<next_ipc_id, locks, cvars, acquiring>>
    BY DEF ReleaseLockHandler, Syscall, UserMode
  <1>2. /\ n = UNLOCKED => Range(OtherWaiters(l)) = {} /\ OtherWaiters(l) = <<>>
        /\ n # UNLOCKED => /\ n \in Proc
                           /\ Range(blocked[l]) = {n} \cup Range(OtherWaiters(l))
        /\ Range(OtherWaiters(l)) \subseteq Range(blocked[l])
        /\ \A x : OnceIn(blocked[l], x) =>
              /\ OnceIn(OtherWaiters(l), x)
              /\ x = n => x \notin Range(OtherWaiters(l))
    BY HandOver, RangeEmpty DEF IpcInv, SyncTypeOK
  <1> HIDE DEF n
  <1>3. /\ Inv'
        /\ ~staleWake => /\ machine' = "up"
                         /\ blocked_pcbs' = blocked_pcbs \ {n}
    <2>1. CASE n = UNLOCKED
      <3>1. UNCHANGED procVars /\ machine' = "up"
        BY <1>1, <2>1 DEF procVars, schedVars
      <3>2. Inv'
        BY <3>1, StutterStep DEF LockInv
      <3>3. blocked_pcbs \subseteq Proc
        BY DEF IpcInv, Core, ProcessTypeOK, SchedTypeOK
      <3> QED
        BY <1>1, <2>1, <3>1, <3>2, <3>3, SchedulerAssumption DEF UNLOCKED
    <2>2. CASE n # UNLOCKED /\ n \in blocked_pcbs
      <3>1. /\ blocked_pcbs' = blocked_pcbs \ {n}
            /\ state' = [state EXCEPT ![n] = "READY"]
            /\ process_ready_queue' = Append(process_ready_queue, n)
            /\ machine' = machine
        BY <1>1, <2>2 DEF Unblock
      <3>2. n \in Proc /\ n # idle_process /\ pcb[n] # "unused"
        BY <1>1, <1>2, <2>2 DEF LockInv, Inv, IdleOnce, IpcInv, QueuedUsed
      <3>3. ~staleWake => kpc[n] # "delay"
        BY <1>1, <1>2, <2>2 DEF LockInv, QueuedAsleep
      <3>4. process_ready_queue \in Seq(Proc) /\ state \in [Proc -> States]
        BY DEF LockInv, Inv, ProcessTypeOK, SchedTypeOK
      <3>5. /\ process_ready_queue' \in Seq(Proc)
            /\ Range(process_ready_queue') = Range(process_ready_queue) \cup {n}
            /\ \A x : OnceIn(process_ready_queue, x) /\ (x \in {n} => ~Ready(x))
                          => OnceIn(process_ready_queue', x)
        BY <3>1, <3>2, <3>4, PushLemma DEF Ready
      <3>6. state' = [q \in Proc |-> IF q \in {n} THEN "READY" ELSE state[q]]
        BY <3>1, <3>2, <3>4
      <3>7. Inv'
        BY <1>1, <2>2, <3>1, <3>2, <3>3, <3>5, <3>6, InvWake DEF LockInv
      <3> QED
        BY <1>1, <3>1, <3>7
    <2>3. CASE n # UNLOCKED /\ n \notin blocked_pcbs
      <3>1. /\ machine' = "crashed"
            /\ UNCHANGED <<blocked_pcbs, state, process_ready_queue>>
        BY <1>1, <2>3 DEF Unblock
      <3>2. machine' \in MachineStates \ {"up", "bad_switch"}
        BY <3>1 DEF MachineStates
      <3>3. Inv'
        BY <1>1, <3>1, <3>2, InvCrash DEF LockInv
      <3>4. staleWake
        BY <1>1, <1>2, <2>3 DEF LockInv, QueuedAsleep
      <3> QED
        BY <3>3, <3>4
    <2> QED
      BY <2>1, <2>2, <2>3
  <1>4. /\ \A i \in Id : owner'[i] = IF i = l THEN n ELSE owner[i]
        /\ \A i \in Id : blocked'[i] = IF i = l THEN OtherWaiters(l) ELSE blocked[i]
        /\ \A q \in Proc : holds'[q] = IF q = p THEN holds[p] \ {l} ELSE holds[q]
        /\ \A i \in locks : i \in Id
    BY <1>1 DEF IpcInv, SyncTypeOK
  <1>5. HoldsFresh'
    BY <1>1, <1>4 DEF LockInv, HoldsFresh
  <1>6. ASSUME ~staleWake
        PROVE  QueuedAsleep' /\ WokenOwns' /\ HolderOwns'
    <2>1. /\ QueuedAsleep /\ WokenOwns /\ HolderOwns
          /\ blocked_pcbs' = blocked_pcbs \ {n}
      BY <1>3, <1>6 DEF LockInv
    <2>2. /\ \A x \in Proc : OnceIn(OtherWaiters(l), x)
          /\ n \notin Range(OtherWaiters(l))
          /\ \A i \in locks \ {l} : n \notin Range(blocked[i])
      <3>1. \A x \in Proc : OnceIn(blocked[l], x)
        BY <1>1, <2>1 DEF QueuedAsleep
      <3>2. \A x \in Proc : OnceIn(OtherWaiters(l), x)
        BY <1>2, <3>1
      <3>3. n \notin Range(OtherWaiters(l))
        BY <1>2, <3>1
      <3>4. \A i \in locks \ {l} : n \notin Range(blocked[i])
        <4>1. n # UNLOCKED => acquiring[n] = l /\ n \in Proc
          BY <1>1, <1>2, <2>1 DEF QueuedAsleep
        <4>2. \A i \in locks : Range(blocked[i]) \subseteq Proc
          BY LenProperties DEF IpcInv, SyncTypeOK, Range
        <4> QED
          BY <2>1, <4>1, <4>2, SchedulerAssumption DEF QueuedAsleep, UNLOCKED
      <3> QED
        BY <3>2, <3>3, <3>4
    <2>3. QueuedAsleep'
      <3> SUFFICES ASSUME NEW i \in locks
                   PROVE  /\ \A q \in Proc : OnceIn(blocked'[i], q)
                          /\ \A q \in Range(blocked'[i]) :
                                q \in blocked_pcbs' /\ kpc[q] = "acquire" /\ acquiring[q] = i
        BY <1>1 DEF QueuedAsleep
      <3>1. CASE i = l
        BY <1>1, <1>2, <1>4, <2>1, <2>2, <3>1 DEF QueuedAsleep
      <3>2. CASE i # l
        BY <1>1, <1>4, <2>1, <2>2, <3>2 DEF QueuedAsleep
      <3> QED
        BY <3>1, <3>2
    <2>4. WokenOwns'
      <3> SUFFICES ASSUME NEW q \in Proc, pcb[q] = "live", kpc[q] = "acquire",
                          q \notin blocked_pcbs', acquiring[q] \in locks
                   PROVE  owner'[acquiring[q]] = q
        BY <1>1 DEF WokenOwns, Live
      <3>1. CASE q = n
        <4>1. acquiring[q] = l
          BY <1>1, <1>2, <2>1, <3>1, SchedulerAssumption DEF QueuedAsleep, UNLOCKED
        <4> QED
          BY <1>4, <3>1, <4>1
      <3>2. CASE q # n
        <4>1. owner[acquiring[q]] = q
          BY <2>1, <3>2 DEF WokenOwns, Live
        <4>2. acquiring[q] # l
          BY <1>1, <4>1
        <4> QED
          BY <1>4, <4>1, <4>2
      <3> QED
        BY <3>1, <3>2
    <2>5. HolderOwns'
      BY <1>1, <1>4, <2>1 DEF HolderOwns, Live
    <2> QED
      BY <2>3, <2>4, <2>5
  <1> QED
    BY <1>1, <1>3, <1>5, <1>6 DEF LockInv

(* A lock or condition variable that nobody waits for can be reclaimed.    *)
LEMMA LockReclaim ==
    ASSUME IpcInv, LockInv, NEW p \in Proc, NEW i, ReclaimHandler(p, i),
           blocked[i] = <<>>
    PROVE  LockInv'
  <1>1. /\ machine = "up" /\ i \in locks \cup cvars
        /\ locks' = locks \ {i}
        /\ pcb' = [q \in Proc |-> IF q \in Range(blocked[i]) THEN "freed" ELSE pcb[q]]
        /\ blocked' = [blocked EXCEPT ![i] = <<>>]
        /\ machine' \in CASE blocked[i] = <<>> -> {"up"}
                          [] p \in Range(blocked[i]) -> {"corrupt", "crashed"}
                          [] OTHER -> {"up", "corrupt"}
        /\ UNCHANGED <<current_process, process_ready_queue, blocked_pcbs, delayed_pcbs,
                       dead_pcbs, state, delay_ticks, kpc, owed, familyVars, uncollected,
                       staleWake>>
        /\ UNCHANGED <<next_ipc_id, owner, acquiring, holds>>
    BY DEF ReclaimHandler, Syscall, UserMode
  <1>2. pcb \in [Proc -> Memory] /\ Range(blocked[i]) = {}
    BY RangeEmpty DEF LockInv, Inv, ProcessTypeOK, SchedTypeOK
  <1>3. pcb' = pcb /\ blocked' = blocked
    BY <1>1, <1>2 DEF IpcInv, SyncTypeOK
  <1>4. machine' = "up"
    <2>1. p \notin Range(blocked[i])
      BY <1>2
    <2> QED
      BY <1>1, <2>1
  <1>5. Inv'
    BY <1>1, <1>3, <1>4, StutterStep DEF LockInv, procVars, schedVars
  <1> QED
    BY <1>1, <1>3, <1>4, <1>5 DEF LockInv, HoldsFresh, QueuedAsleep, WokenOwns, HolderOwns, Live

LEMMA LockStutter ==
    ASSUME LockInv, UNCHANGED syncVars
    PROVE  LockInv'
  <1>1. UNCHANGED procVars /\ UNCHANGED <<kpc, pcb, blocked_pcbs, machine, staleWake>>
        /\ UNCHANGED <<next_ipc_id, locks, owner, blocked, acquiring, holds>>
    BY DEF syncVars, procVars, schedVars, ipcVars
  <1>2. Inv'
    BY <1>1, StutterStep DEF LockInv
  <1> QED
    BY <1>1, <1>2 DEF LockInv, HoldsFresh, QueuedAsleep, WokenOwns, HolderOwns, Live

(* Every step of such programs keeps LockInv.                              *)
LEMMA LockNext ==
    IpcInv /\ LockInv /\ NoCvarWaiters /\ NoCvarWaiters' /\ [SyncNext]_syncVars
        /\ [ReclaimsUnused]_syncVars => LockInv'
  <1> SUFFICES ASSUME IpcInv, LockInv, NoCvarWaiters, NoCvarWaiters', [SyncNext]_syncVars,
                      [ReclaimsUnused]_syncVars
               PROVE  LockInv'
    OBVIOUS
  <1>1. CASE ProcessNext /\ UNCHANGED ipcVars
    BY <1>1, LockProcess
  <1>2. ASSUME NEW p \in Proc, IpcStep(p), ReclaimsUnused
        PROVE  LockInv'
    <2>1. CASE SyncError(p)
      BY <2>1, LockStutter DEF SyncError
    <2>2. CASE lock_new(p) \/ cvar_new(p)
      BY <2>2, LockNew
    <2>3. CASE AcquireReturn(p)
      BY <2>3, LockAcquireReturn
    <2>4. ASSUME NEW l \in Id,
                 AcquireFree(p, l) \/ AcquireBlock(p, l) \/ ReleaseLockHandler(p, l)
          PROVE  LockInv'
      BY <2>4, LockAcquireFree, LockAcquireBlock, LockRelease
    <2>5. ASSUME NEW c \in Id, NEW l \in Id, CvarWaitHandler(p, c, l)
          PROVE  FALSE
      <3>1. /\ c \in cvars /\ l \in locks /\ cvars' = cvars
            /\ blocked' = [blocked EXCEPT ![l] = OtherWaiters(l), ![c] = Append(@, p)]
        BY <2>5 DEF CvarWaitHandler
      <3>2. c # l
        BY <3>1 DEF IpcInv, IdsFresh
      <3>3. blocked'[c] = Append(blocked[c], p)
        BY <3>1, <3>2 DEF IpcInv, SyncTypeOK
      <3>4. blocked'[c] # <<>>
        BY <3>3, PushLemma DEF IpcInv, SyncTypeOK
      <3> QED
        BY <3>1, <3>4 DEF NoCvarWaiters
    <2>6. ASSUME NEW c \in Id, CvarSignalHandler(p, c) \/ CvarBroadcastHandler(p, c)
          PROVE  FALSE
      BY <2>6 DEF CvarSignalHandler, CvarBroadcastHandler, NoCvarWaiters
    <2>7. ASSUME NEW i \in Reclaimable, ReclaimHandler(p, i)
          PROVE  LockInv'
      <3>1. i \in locks \cup cvars /\ locks' = locks \ {i}
        BY <2>7 DEF ReclaimHandler
      <3>2. blocked[i] = <<>>
        BY <1>2, <3>1 DEF ReclaimsUnused, NoCvarWaiters
      <3> QED
        BY <2>7, <3>2, LockReclaim
    <2> QED
      BY <1>2, <2>1, <2>2, <2>3, <2>4, <2>5, <2>6, <2>7 DEF IpcStep
  <1>3. CASE UNCHANGED syncVars
    BY <1>3, LockStutter
  <1> QED
    BY <1>1, <1>2, <1>3 DEF SyncNext

(* LockInv holds for programs that never wait on a condition variable and  *)
(* never reclaim a lock that others wait for.                              *)
THEOREM LockInvHolds ==
    SyncSpec /\ []NoCvarWaiters /\ [][ReclaimsUnused]_syncVars => []LockInv
  BY IpcInvHolds, LockInit, LockNext, PTL DEF SyncSpec

(* For such programs locks exclude: two processes are never both told that *)
(* they hold a lock, as long as no exit finds a stale waiting flag.        *)
THEOREM LocksExclude ==
    SyncSpec /\ []NoCvarWaiters /\ [][ReclaimsUnused]_syncVars => []HolderOwnsUnlessStale
  <1>1. LockInv => HolderOwnsUnlessStale
    BY DEF LockInv, HolderOwnsUnlessStale
  <1> QED
    BY LockInvHolds, <1>1, PTL

(* For such programs ReleaseLockHandler finds the new owner in             *)
(* blocked_pcbs, asleep in Acquire of this lock and queued once, as long   *)
(* as no exit finds a stale waiting flag.                                  *)
THEOREM ReleaseFindsWaiter ==
    SyncSpec /\ []NoCvarWaiters /\ [][ReclaimsUnused]_syncVars => []WaitersAsleep
  <1>1. IpcInv /\ LockInv => WaitersAsleep
    <2> SUFFICES ASSUME IpcInv, LockInv, ~staleWake
                 PROVE  /\ machine # "crashed"
                        /\ \A l \in locks :
                              /\ \A i, j \in DOMAIN blocked[l] :
                                    blocked[l][i] = blocked[l][j] => i = j
                              /\ \A p \in Range(blocked[l]) :
                                    /\ p \in blocked_pcbs /\ state[p] = "BLOCKED"
                                    /\ kpc[p] = "acquire" /\ acquiring[p] = l
      BY DEF WaitersAsleep
    <2>1. machine # "crashed" /\ QueuedAsleep
      BY DEF LockInv
    <2>2. \A l \in locks : \A i \in DOMAIN blocked[l] : blocked[l][i] \in Proc
      BY LenProperties DEF IpcInv, SyncTypeOK
    <2>3. \A l \in locks : \A i, j \in DOMAIN blocked[l] :
             blocked[l][i] = blocked[l][j] => i = j
      BY <2>1, <2>2 DEF QueuedAsleep, OnceIn
    <2>4. \A p \in blocked_pcbs : state[p] = "BLOCKED"
      BY DEF LockInv, Inv, Places
    <2> QED
      BY <2>1, <2>3, <2>4 DEF QueuedAsleep
  <1> QED
    BY IpcInvHolds, LockInvHolds, <1>1, PTL
=============================================================================
