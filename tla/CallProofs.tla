----------------------------- MODULE CallProofs ------------------------------
(***************************************************************************)
(* What the proofs of locks, pipes and terminals share.                    *)
(*                                                                         *)
(* Core is the part of the processes' invariant that survives any misuse   *)
(* of the objects built on them: a PCB that is queued twice, or freed      *)
(* while it is still in use.  Calls says what a step of Process leaves     *)
(* alone in a process that is inside a call of another component.  The     *)
(* remaining lemmas say that such a call may block its caller, wake        *)
(* processes and return without breaking Inv.                              *)
(***************************************************************************)
EXTENDS ProcessProofs

(* Nothing refers to a PCB that was not created yet, and its child, if it  *)
(* gets one, will find the PCB of its parent.                              *)
UnusedApart ==
    /\ pcb[init_process] # "unused" /\ pcb[idle_process] # "unused"
    /\ \A p \in Proc : pcb[p] = "unused" =>
          /\ state[p] = "READY" /\ kpc[p] = "user"
          /\ p # current_process /\ ~Ready(p)
          /\ p \notin blocked_pcbs \cup delayed_pcbs
          /\ \A q \in Proc : p \notin Range(zombies[q])
    /\ \A p \in Proc \ {init_process, idle_process} : pcb[p] # "unused" =>
          parent[p] \in Proc /\ pcb[parent[p]] # "unused"

(* Only an exit makes a process DEAD.                                      *)
LiveNotDead ==
    machine = "up" => /\ current_process \in Proc
                      /\ \A p \in Proc : Live(p) => state[p] # "DEAD"

Core == ProcessTypeOK /\ UnusedApart /\ LiveNotDead /\ Accounted

(* The types of the variables that the scheduler does not change.          *)
OtherTypes ==
    /\ delay_ticks \in [Proc -> Int]
    /\ kpc \in [Proc -> KernelPoints]
    /\ owed \in [Proc -> Nat]
    /\ parent \in [Proc -> Proc \cup {NULL}]
    /\ children \in [Proc -> SUBSET Proc]
    /\ zombies \in [Proc -> Seq(Proc)]
    /\ waiting \in [Proc -> BOOLEAN]
    /\ child_exit_status \in [Proc -> Proc \cup {NULL}]
    /\ uncollected \in [Proc -> SUBSET Proc]
    /\ staleWake \in BOOLEAN

LEMMA RangeEmpty == Range(<<>>) = {}
  BY EmptySeq DEF Range

LEMMA RangeSingle == ASSUME NEW e PROVE Range(<<e>>) = {e}
  BY DEF Range

(* What a step hands to the scheduler: the queues, states and memory it    *)
(* left, in which a slot that is not in use is nowhere and a process that  *)
(* lives is the caller or in a queue.                                      *)
HandsOver(cur, rq, bl, dl, dd, st, mem) ==
    /\ cur \in Proc \cup {NULL} /\ rq \in Seq(Proc)
    /\ bl \in SUBSET Proc /\ dl \in SUBSET Proc /\ dd \in SUBSET Proc
    /\ st \in [Proc -> States] /\ mem \in [Proc -> Memory]
    /\ mem[init_process] # "unused" /\ mem[idle_process] # "unused"
    /\ \A p \in Proc : mem[p] = "unused" =>
          /\ st[p] = "READY" /\ kpc'[p] = "user"
          /\ p # cur /\ p \notin Range(rq) /\ p \notin bl \cup dl
          /\ \A q \in Proc : p \notin Range(zombies'[q])
    /\ \A p \in Proc \ {init_process, idle_process} : mem[p] # "unused" =>
          parent'[p] \in Proc /\ mem[parent'[p]] # "unused"
    /\ \A p \in Proc : mem[p] = "live" => st[p] # "DEAD"
    /\ \A p \in Proc \ {idle_process} : mem[p] = "live" =>
          p = cur \/ p \in Range(rq) \/ p \in bl \/ p \in dl

(* A step that ends in the scheduler keeps Core.                           *)
LEMMA CoreSchedule ==
    ASSUME Core, machine = "up", OtherTypes',
           NEW cur, NEW rq, NEW bl, NEW dl, NEW dd, NEW st, NEW mem,
           HandsOver(cur, rq, bl, dl, dd, st, mem),
           ScheduleNextProcess(cur, rq, bl, dl, dd, st, mem)
    PROVE  Core'
  <1> USE DEF HandsOver
  <1>1. ScheduleFacts(cur, rq, bl, dl, dd, st, mem)
    BY ScheduleLemma
  <1>2. /\ current_process' \in Proc \cup {NULL} /\ process_ready_queue' \in Seq(Proc)
        /\ blocked_pcbs' \subseteq Proc /\ delayed_pcbs' \subseteq Proc
        /\ dead_pcbs' \subseteq Proc /\ state' = st /\ pcb' = mem
        /\ machine' \in MachineStates
        /\ machine' = "up" => current_process' \in Proc /\ mem[current_process'] = "live"
    BY <1>1 DEF ScheduleFacts, Park, MachineStates
  <1>3. ProcessTypeOK'
    BY <1>2 DEF OtherTypes, ProcessTypeOK, SchedTypeOK
  <1>4. UnusedApart'
    <2>1. ASSUME NEW p \in Proc, mem[p] = "unused"
          PROVE  /\ p # current_process' /\ p \notin Range(process_ready_queue')
                 /\ p \notin blocked_pcbs' \cup delayed_pcbs'
      BY <1>1, <2>1 DEF ScheduleFacts, Park, Runnable
    <2> QED
      BY <1>2, <2>1 DEF UnusedApart, Ready
  <1>5. LiveNotDead'
    BY <1>2 DEF LiveNotDead, Live
  <1>6. Accounted'
    <2>1. ASSUME NEW p \in Proc \ {idle_process}, mem[p] = "live"
          PROVE  \/ p = cur /\ st[p] \in {"READY", "BLOCKED", "DELAYED"}
                 \/ p \in Range(rq) \/ p \in bl \/ p \in dl
      BY <2>1 DEF States
    <2> QED
      BY <1>1, <2>1, ScheduleAccounted
  <1> QED
    BY <1>3, <1>4, <1>5, <1>6 DEF Core

(* The running process p takes state s and calls the scheduler.            *)
LEMMA CorePark ==
    ASSUME Core, OtherTypes', NEW p \in Proc, NEW s \in {"BLOCKED", "DELAYED"},
           machine = "up", current_process = p,
           \A q \in Proc \ {p} : kpc'[q] = kpc[q], parent' = parent, zombies' = zombies,
           ScheduleNextProcess(p, process_ready_queue, blocked_pcbs, delayed_pcbs,
                               dead_pcbs, [state EXCEPT ![p] = s], pcb)
    PROVE  Core'
  <1> DEFINE st == [state EXCEPT ![p] = s]
  <1>1. /\ st \in [Proc -> States] /\ st[p] = s /\ \A r \in Proc \ {p} : st[r] = state[r]
        /\ process_ready_queue \in Seq(Proc) /\ pcb \in [Proc -> Memory]
        /\ blocked_pcbs \in SUBSET Proc /\ delayed_pcbs \in SUBSET Proc
        /\ dead_pcbs \in SUBSET Proc
    BY DEF Core, ProcessTypeOK, SchedTypeOK, States
  <1> HIDE DEF st
  <1>2. \A r \in Proc : pcb[r] = "unused" =>
              /\ st[r] = "READY" /\ kpc'[r] = "user"
              /\ r # p /\ r \notin Range(process_ready_queue)
              /\ r \notin blocked_pcbs \cup delayed_pcbs
              /\ \A q \in Proc : r \notin Range(zombies'[q])
    BY <1>1 DEF Core, UnusedApart, Ready
  <1>3. /\ pcb[init_process] # "unused" /\ pcb[idle_process] # "unused"
        /\ \A r \in Proc \ {init_process, idle_process} : pcb[r] # "unused" =>
              parent'[r] \in Proc /\ pcb[parent'[r]] # "unused"
    BY DEF Core, UnusedApart
  <1>4. \A r \in Proc : pcb[r] = "live" => st[r] # "DEAD"
    BY <1>1 DEF Core, LiveNotDead, Live
  <1>5. \A r \in Proc \ {idle_process} : pcb[r] = "live" =>
           \/ r = p \/ r \in Range(process_ready_queue)
           \/ r \in blocked_pcbs \/ r \in delayed_pcbs
    BY DEF Core, Accounted, Live, Ready
  <1>6. ScheduleNextProcess(p, process_ready_queue, blocked_pcbs, delayed_pcbs,
                            dead_pcbs, st, pcb)
    BY DEF st
  <1>7. HandsOver(p, process_ready_queue, blocked_pcbs, delayed_pcbs, dead_pcbs, st, pcb)
    BY <1>1, <1>2, <1>3, <1>4, <1>5 DEF HandsOver
  <1> QED
    BY <1>6, <1>7, CoreSchedule

(* Processes that are made ready, in blocked_pcbs or not, keep Core.       *)
LEMMA CoreWake ==
    ASSUME Core, OtherTypes', NEW T \in SUBSET Proc, NEW B \in SUBSET Proc,
           \A q \in T : pcb[q] # "unused",
           \A q \in B \ T : q = current_process,
           process_ready_queue' \in Seq(Proc),
           Range(process_ready_queue') = Range(process_ready_queue) \cup T,
           state' = [q \in Proc |-> IF q \in T THEN "READY" ELSE state[q]],
           blocked_pcbs' = blocked_pcbs \ B,
           \A q \in Proc : pcb[q] = "unused" => kpc'[q] = "user",
           UNCHANGED <<current_process, delayed_pcbs, dead_pcbs, pcb, machine, parent, zombies>>
    PROVE  Core'
  <1>1. ProcessTypeOK'
    BY DEF Core, OtherTypes, ProcessTypeOK, SchedTypeOK, States
  <1>2. UnusedApart'
    BY DEF Core, UnusedApart, Ready
  <1>3. LiveNotDead'
    BY DEF Core, LiveNotDead, Live
  <1>4. Accounted'
    BY DEF Core, Accounted, Live, Ready
  <1> QED
    BY <1>1, <1>2, <1>3, <1>4 DEF Core

-----------------------------------------------------------------------------
(* The clock trap keeps Core.                                              *)
LEMMA CoreClock ==
    ASSUME Core, TrapClockHandler, UNCHANGED <<familyVars, uncollected, staleWake>>
    PROVE  Core'
  <1> DEFINE st == [p \in Proc |-> IF p \in Expired THEN "READY" ELSE state[p]]
  <1>1. /\ machine = "up" /\ current_process \in Proc
        /\ delay_ticks' = [p \in Proc |-> IF p \in delayed_pcbs THEN TickDown(p)
                                          ELSE delay_ticks[p]]
        /\ owed' = [p \in Proc |-> IF owed[p] > 0 THEN owed[p] - 1 ELSE 0]
        /\ kpc' = kpc /\ parent' = parent /\ children' = children
        /\ zombies' = zombies /\ waiting' = waiting
        /\ child_exit_status' = child_exit_status
        /\ uncollected' = uncollected /\ staleWake' = staleWake
    BY DEF Core, LiveNotDead, TrapClockHandler, UserMode, familyVars
  <1>2. /\ Expired \in SUBSET Proc /\ IsFiniteSet(Expired) /\ Expired \subseteq delayed_pcbs
        /\ st \in [Proc -> States] /\ pcb \in [Proc -> Memory]
        /\ blocked_pcbs \in SUBSET Proc /\ delayed_pcbs \ Expired \in SUBSET Proc
        /\ dead_pcbs \in SUBSET Proc
    BY FS_Subset, SchedulerAssumption DEF Core, ProcessTypeOK, SchedTypeOK, Expired, States
  <1>3. PICK w \in Orders(Expired) :
           ScheduleNextProcess(current_process, process_ready_queue \o w, blocked_pcbs,
                               delayed_pcbs \ Expired, dead_pcbs, st, pcb)
    BY DEF TrapClockHandler
  <1> DEFINE rq == process_ready_queue \o w
  <1>4. /\ rq \in Seq(Proc)
        /\ Range(rq) = Range(process_ready_queue) \cup Expired
    <2>1. process_ready_queue \in Seq(Proc)
      BY DEF Core, ProcessTypeOK, SchedTypeOK
    <2> QED
      BY <1>2, <2>1, PushAllLemma
  <1>5. ScheduleNextProcess(current_process, rq, blocked_pcbs, delayed_pcbs \ Expired,
                            dead_pcbs, st, pcb)
    BY <1>3
  <1> HIDE DEF rq
  <1>6. OtherTypes'
    BY <1>1 DEF Core, ProcessTypeOK, SchedTypeOK, OtherTypes, TickDown
  <1>7. \A p \in Proc : pcb[p] = "unused" =>
              /\ st[p] = "READY" /\ kpc'[p] = "user"
              /\ p # current_process /\ p \notin Range(rq)
              /\ p \notin blocked_pcbs \cup (delayed_pcbs \ Expired)
              /\ \A q \in Proc : p \notin Range(zombies'[q])
    BY <1>1, <1>2, <1>4 DEF Core, UnusedApart, Ready
  <1>8. /\ pcb[init_process] # "unused" /\ pcb[idle_process] # "unused"
        /\ \A p \in Proc \ {init_process, idle_process} : pcb[p] # "unused" =>
              parent'[p] \in Proc /\ pcb[parent'[p]] # "unused"
    BY <1>1 DEF Core, UnusedApart
  <1>9. \A p \in Proc : pcb[p] = "live" => st[p] # "DEAD"
    BY <1>1 DEF Core, LiveNotDead, Live
  <1>10. \A p \in Proc \ {idle_process} : pcb[p] = "live" =>
            \/ p = current_process \/ p \in Range(rq)
            \/ p \in blocked_pcbs \/ p \in delayed_pcbs \ Expired
    BY <1>4 DEF Core, Accounted, Live, Ready
  <1> HIDE DEF st
  <1>11. HandsOver(current_process, rq, blocked_pcbs, delayed_pcbs \ Expired, dead_pcbs,
                   st, pcb)
    BY <1>1, <1>2, <1>4, <1>7, <1>8, <1>9, <1>10 DEF HandsOver
  <1> QED
    BY <1>1, <1>5, <1>6, <1>11, CoreSchedule

(* Fork keeps Core.                                                        *)
LEMMA CoreFork ==
    ASSUME Core, NEW p \in Proc, NEW c \in Proc, ForkHandler(p, c)
    PROVE  Core'
  <1>1. /\ machine = "up" /\ current_process = p /\ pcb[c] = "unused"
        /\ pcb' = [pcb EXCEPT ![c] = "live"]
        /\ parent' = [parent EXCEPT ![c] = p]
        /\ children' = [children EXCEPT ![p] = @ \cup {c}]
        /\ process_ready_queue' = Append(process_ready_queue, c)
        /\ UNCHANGED <<current_process, blocked_pcbs, delayed_pcbs, dead_pcbs, state,
                       delay_ticks, kpc, machine, owed, zombies, waiting,
                       child_exit_status, uncollected, staleWake>>
    BY DEF ForkHandler, pcbNew, Syscall, UserMode
  <1>2. /\ process_ready_queue' \in Seq(Proc)
        /\ Range(process_ready_queue') = Range(process_ready_queue) \cup {c}
    BY <1>1, PushLemma DEF Core, ProcessTypeOK, SchedTypeOK
  <1>3. /\ \A r \in Proc : pcb'[r] = IF r = c THEN "live" ELSE pcb[r]
        /\ \A r \in Proc : parent'[r] = IF r = c THEN p ELSE parent[r]
    BY <1>1 DEF Core, ProcessTypeOK, SchedTypeOK
  <1>4. ProcessTypeOK'
    BY <1>1, <1>2 DEF Core, ProcessTypeOK, SchedTypeOK, Memory
  <1>5. UnusedApart'
    <2>1. p # c /\ pcb[p] # "unused"
      BY <1>1 DEF Core, UnusedApart
    <2> QED
      BY <1>1, <1>2, <1>3, <2>1, SchedulerAssumption DEF Core, UnusedApart, Ready
  <1>6. LiveNotDead'
    BY <1>1, <1>3 DEF Core, LiveNotDead, UnusedApart, Live
  <1>7. Accounted'
    BY <1>1, <1>2, <1>3 DEF Core, Accounted, Live, Ready
  <1> QED
    BY <1>4, <1>5, <1>6, <1>7 DEF Core

(* An exit keeps Core, even that of a process whose PCB was freed.         *)
LEMMA CoreExit ==
    ASSUME Core, NEW p \in Proc, ExitHandler(p)
    PROVE  Core'
  <1>1. /\ machine = "up" /\ current_process = p /\ p # idle_process
        /\ pcb[p] # "unused" /\ pcb[init_process] # "unused"
        /\ pcb[idle_process] # "unused"
    BY DEF ExitHandler, Syscall, UserMode, Core, UnusedApart
  <1>2. CASE p = init_process
    <2>1. /\ machine' = "halted"
          /\ state' = [state EXCEPT ![p] = "DEAD"]
          /\ parent' = pcbOrphanChildren(p)
          /\ UNCHANGED <<current_process, process_ready_queue, blocked_pcbs,
                         delayed_pcbs, dead_pcbs, delay_ticks, pcb, kpc, owed, children,
                         zombies, waiting, child_exit_status, uncollected, staleWake>>
      BY <1>2 DEF ExitHandler, Halt
    <2>2. /\ parent' \in [Proc -> Proc \cup {NULL}]
          /\ \A r \in Proc : parent'[r] \in {init_process, parent[r]}
          /\ \A r \in Proc \ {p} : state'[r] = state[r]
          /\ state' \in [Proc -> States]
      BY <2>1, SchedulerAssumption DEF Core, ProcessTypeOK, SchedTypeOK,
         pcbOrphanChildren, States
    <2>3. ProcessTypeOK'
      BY <2>1, <2>2 DEF Core, ProcessTypeOK, SchedTypeOK, MachineStates
    <2>4. UnusedApart'
      BY <1>1, <2>1, <2>2, SchedulerAssumption DEF Core, UnusedApart, Ready
    <2>5. LiveNotDead' /\ Accounted'
      BY <2>1 DEF Core, LiveNotDead, Accounted, Live, Ready
    <2> QED
      BY <2>3, <2>4, <2>5 DEF Core
  <1>3. CASE p # init_process
    <2> DEFINE par == parent[p]
    <2>1. /\ LeaveFamily(p, par)
          /\ IF waiting[par] THEN ExitToWaiting(p, par) ELSE ExitToZombie(p, par)
          /\ delay_ticks' = delay_ticks /\ kpc' = kpc /\ owed' = owed
      BY <1>3 DEF ExitHandler
    <2>2. par \in Proc /\ pcb[par] # "unused"
      BY <1>1, <1>3 DEF Core, UnusedApart
    <2> HIDE DEF par
    <2>3. /\ parent' \in [Proc -> Proc \cup {NULL}]
          /\ \A r \in Proc : parent'[r] \in {init_process, parent[r]}
          /\ children' \in [Proc -> SUBSET Proc]
          /\ child_exit_status' \in [Proc -> Proc \cup {NULL}]
          /\ uncollected' \in [Proc -> SUBSET Proc]
          /\ waiting' = waiting
      BY <2>1, <2>2, SchedulerAssumption DEF LeaveFamily, pcbOrphanChildren,
         Core, ProcessTypeOK
    <2>4. /\ process_ready_queue \in Seq(Proc) /\ blocked_pcbs \in SUBSET Proc
          /\ delayed_pcbs \in SUBSET Proc /\ dead_pcbs \in SUBSET Proc
          /\ blocked_pcbs \ {par} \in SUBSET Proc /\ dead_pcbs \cup {p} \in SUBSET Proc
          /\ NULL \in Proc \cup {NULL} /\ NULL \notin Proc
      BY SchedulerAssumption DEF Core, ProcessTypeOK, SchedTypeOK
    <2>5. CASE waiting[par]
      <3> DEFINE rq == Append(process_ready_queue, par)
                 st == [state EXCEPT ![p] = "DEAD", ![par] = "READY"]
                 mem == [pcb EXCEPT ![p] = "freed"]
                 bl == blocked_pcbs \ {par}
      <3>1. /\ zombies' = [zombies EXCEPT ![p] = <<>>]
            /\ staleWake' = (staleWake \/ ~InWait(par))
            /\ ScheduleNextProcess(NULL, rq, bl, delayed_pcbs, dead_pcbs, st, mem)
        BY <2>1, <2>5 DEF ExitToWaiting
      <3>2. /\ st \in [Proc -> States] /\ mem \in [Proc -> Memory]
            /\ \A r \in Proc : st[r] = IF r = par THEN "READY" ELSE IF r = p THEN "DEAD"
                                         ELSE state[r]
            /\ \A r \in Proc : mem[r] = IF r = p THEN "freed" ELSE pcb[r]
            /\ zombies' \in [Proc -> Seq(Proc)]
            /\ \A q \in Proc : zombies'[q] = IF q = p THEN <<>> ELSE zombies[q]
        BY <2>2, <3>1, EmptySeq DEF Core, ProcessTypeOK, SchedTypeOK, States, Memory
      <3>3. rq \in Seq(Proc) /\ Range(rq) = Range(process_ready_queue) \cup {par}
        BY <2>2, <2>4, PushLemma
      <3>9. bl \in SUBSET Proc
        BY <2>4
      <3> HIDE DEF rq, st, mem
      <3>4. OtherTypes'
        BY <2>1, <2>3, <3>1, <3>2 DEF Core, ProcessTypeOK, SchedTypeOK, OtherTypes
      <3>5. \A r \in Proc : mem[r] = "unused" =>
                /\ st[r] = "READY" /\ kpc'[r] = "user"
                /\ r # NULL /\ r \notin Range(rq)
                /\ r \notin bl \cup delayed_pcbs
                /\ \A q \in Proc : r \notin Range(zombies'[q])
        BY <1>1, RangeEmpty, <2>1, <2>2, <2>4, <3>2, <3>3 DEF Core, UnusedApart, Ready
      <3>6. /\ mem[init_process] # "unused" /\ mem[idle_process] # "unused"
            /\ \A r \in Proc \ {init_process, idle_process} : mem[r] # "unused" =>
                  parent'[r] \in Proc /\ mem[parent'[r]] # "unused"
        <4>1. /\ init_process \in Proc /\ idle_process \in Proc
              /\ \A r \in Proc : mem[r] = "unused" <=> pcb[r] = "unused"
          BY <1>1, <3>2, SchedulerAssumption
        <4> QED
          BY <1>1, <2>3, <4>1 DEF Core, UnusedApart
      <3>7. \A r \in Proc : mem[r] = "live" => st[r] # "DEAD"
        BY <1>1, <3>2 DEF Core, LiveNotDead, Live
      <3>8. \A r \in Proc \ {idle_process} : mem[r] = "live" =>
                \/ r = NULL \/ r \in Range(rq)
                \/ r \in bl \/ r \in delayed_pcbs
        BY <1>1, <3>2, <3>3 DEF Core, Accounted, Live, Ready
      <3>10. HandsOver(NULL, rq, bl, delayed_pcbs, dead_pcbs, st, mem)
        BY <2>4, <3>2, <3>3, <3>5, <3>6, <3>7, <3>8, <3>9 DEF HandsOver
      <3> HIDE DEF bl
      <3> QED
        BY <1>1, <3>1, <3>4, <3>10, CoreSchedule
    <2>6. CASE ~waiting[par]
      <3> DEFINE st == [state EXCEPT ![p] = "DEAD"]
                 mem == [pcb EXCEPT ![p] = "exited"]
      <3>1. /\ zombies' = [zombies EXCEPT ![par] = <<p>> \o @, ![p] = <<>>]
            /\ staleWake' = staleWake
            /\ ScheduleNextProcess(NULL, process_ready_queue, blocked_pcbs, delayed_pcbs,
                                   dead_pcbs \cup {p}, st, mem)
        BY <2>1, <2>6 DEF ExitToZombie
      <3>2. /\ st \in [Proc -> States] /\ mem \in [Proc -> Memory]
            /\ \A r \in Proc : st[r] = IF r = p THEN "DEAD" ELSE state[r]
            /\ \A r \in Proc : mem[r] = IF r = p THEN "exited" ELSE pcb[r]
        BY DEF Core, ProcessTypeOK, SchedTypeOK, States, Memory
      <3>3. /\ zombies' \in [Proc -> Seq(Proc)]
            /\ \A q \in Proc : Range(zombies'[q]) \subseteq {p} \cup Range(zombies[q])
        <4>1. zombies[par] \in Seq(Proc) /\ <<p>> \in Seq(Proc) /\ <<>> \in Seq(Proc)
          BY <2>2, EmptySeq DEF Core, ProcessTypeOK
        <4>2. <<p>> \o zombies[par] \in Seq(Proc)
          BY <4>1, ConcatProperties
        <4>3. Range(<<p>> \o zombies[par]) = {p} \cup Range(zombies[par])
          <5>1. Range(<<p>> \o zombies[par]) = Range(<<p>>) \cup Range(zombies[par])
            <6> DEFINE u == <<p>>
                       v == zombies[par]
            <6>1. u \in Seq(Proc) /\ v \in Seq(Proc)
              BY <4>1
            <6> HIDE DEF u, v
            <6>2. Range(u \o v) = Range(u) \cup Range(v)
              BY <6>1, RangeConcatenation
            <6> QED
              BY <6>2 DEF u, v
          <5> QED
            BY <5>1, RangeSingle, Zenon
        <4> QED
          BY <2>2, <3>1, <4>1, <4>2, <4>3, RangeEmpty DEF Core, ProcessTypeOK
      <3> HIDE DEF st, mem
      <3>4. OtherTypes'
        BY <2>1, <2>3, <3>1, <3>3 DEF Core, ProcessTypeOK, SchedTypeOK, OtherTypes
      <3>5. \A r \in Proc : mem[r] = "unused" =>
                /\ st[r] = "READY" /\ kpc'[r] = "user"
                /\ r # NULL /\ r \notin Range(process_ready_queue)
                /\ r \notin blocked_pcbs \cup delayed_pcbs
                /\ \A q \in Proc : r \notin Range(zombies'[q])
        BY <1>1, <2>1, <2>4, <3>2, <3>3 DEF Core, UnusedApart, Ready
      <3>6. /\ mem[init_process] # "unused" /\ mem[idle_process] # "unused"
            /\ \A r \in Proc \ {init_process, idle_process} : mem[r] # "unused" =>
                  parent'[r] \in Proc /\ mem[parent'[r]] # "unused"
        <4>1. /\ init_process \in Proc /\ idle_process \in Proc
              /\ \A r \in Proc : mem[r] = "unused" <=> pcb[r] = "unused"
          BY <1>1, <3>2, SchedulerAssumption
        <4> QED
          BY <1>1, <2>3, <4>1 DEF Core, UnusedApart
      <3>7. \A r \in Proc : mem[r] = "live" => st[r] # "DEAD"
        BY <1>1, <3>2 DEF Core, LiveNotDead, Live
      <3>8. \A r \in Proc \ {idle_process} : mem[r] = "live" =>
                \/ r = NULL \/ r \in Range(process_ready_queue)
                \/ r \in blocked_pcbs \/ r \in delayed_pcbs
        BY <1>1, <3>2 DEF Core, Accounted, Live, Ready
      <3> DEFINE dd == dead_pcbs \cup {p}
      <3>9. /\ dd \in SUBSET Proc
            /\ ScheduleNextProcess(NULL, process_ready_queue, blocked_pcbs, delayed_pcbs,
                                   dd, st, mem)
        BY <2>4, <3>1
      <3> HIDE DEF dd
      <3>10. HandsOver(NULL, process_ready_queue, blocked_pcbs, delayed_pcbs, dd, st, mem)
        BY <2>4, <3>2, <3>5, <3>6, <3>7, <3>8, <3>9 DEF HandsOver
      <3> QED
        BY <1>1, <3>4, <3>9, <3>10, CoreSchedule
    <2> QED
      BY <2>5, <2>6
  <1> QED
    BY <1>2, <1>3

(* WaitCollect keeps Core, whatever the set of zombies holds.              *)
LEMMA CoreCollect ==
    ASSUME Core, NEW p \in Proc, WaitCollect(p)
    PROVE  Core'
  <1> DEFINE zs == Range(zombies[p])
  <1>1. /\ machine = "up" /\ current_process = p
        /\ pcb' = [q \in Proc |-> IF q \in zs THEN "freed" ELSE pcb[q]]
        /\ dead_pcbs' = dead_pcbs \ zs
        /\ machine' \in {"up", "corrupt"}
        /\ zombies' = [zombies EXCEPT ![p] = <<>>]
        /\ uncollected' = [uncollected EXCEPT ![p] = @ \ {Head(zombies[p])}]
        /\ UNCHANGED <<current_process, process_ready_queue, blocked_pcbs,
                       delayed_pcbs, state, delay_ticks, kpc, owed, parent, children,
                       waiting, child_exit_status, staleWake>>
    BY DEF WaitCollect, FreeZombies, Syscall, UserMode
  <1>2. \A r \in Proc : pcb'[r] = IF r \in zs THEN "freed" ELSE pcb[r]
    BY <1>1
  <1>3. pcb' \in [Proc -> Memory] /\ zombies' \in [Proc -> Seq(Proc)]
    BY <1>1, EmptySeq DEF Core, ProcessTypeOK, SchedTypeOK, Memory
  <1> HIDE DEF zs
  <1>7. \A q \in Proc : Range(zombies'[q]) \subseteq Range(zombies[q])
    BY <1>1, RangeEmpty DEF Core, ProcessTypeOK
  <1>4. ProcessTypeOK'
    BY <1>1, <1>3 DEF Core, ProcessTypeOK, SchedTypeOK, MachineStates
  <1>5. UnusedApart'
    <2>1. \A r \in Proc : pcb[r] # "unused" => pcb'[r] # "unused"
      BY <1>2
    <2>2. \A r \in Proc : pcb'[r] = "unused" => pcb[r] = "unused"
      BY <1>2
    <2>3. \A r \in Proc \ {init_process, idle_process} : pcb'[r] # "unused" =>
             parent[r] \in Proc /\ pcb'[parent[r]] # "unused"
      <3> TAKE r \in Proc \ {init_process, idle_process}
      <3>0. r \in zs => pcb[r] # "unused"
        BY DEF zs, Core, UnusedApart
      <3> QED
        BY <1>2, <2>1, <3>0 DEF Core, UnusedApart
    <2> QED
      BY <1>1, <1>7, <2>1, <2>2, <2>3, SchedulerAssumption DEF Core, UnusedApart, Ready
  <1>6. LiveNotDead' /\ Accounted'
    BY <1>1, <1>2 DEF Core, LiveNotDead, Accounted, Live, Ready
  <1> QED
    BY <1>4, <1>5, <1>6 DEF Core

(* A process that only changes its place in the kernel keeps Core.         *)
LEMMA CoreMove ==
    ASSUME Core, NEW p \in Proc, current_process = p, machine = "up", OtherTypes',
           \A q \in Proc \ {p} : kpc'[q] = kpc[q],
           UNCHANGED <<current_process, process_ready_queue, blocked_pcbs, delayed_pcbs,
                       dead_pcbs, state, pcb, machine, parent, zombies>>
    PROVE  Core'
  <1>1. ProcessTypeOK'
    BY DEF Core, OtherTypes, ProcessTypeOK, SchedTypeOK
  <1>2. UnusedApart'
    BY DEF Core, UnusedApart, Ready
  <1>3. LiveNotDead' /\ Accounted'
    BY DEF Core, LiveNotDead, Accounted, Live, Ready
  <1> QED
    BY <1>1, <1>2, <1>3 DEF Core

LEMMA CoreStutter ==
    ASSUME Core, UNCHANGED procVars
    PROVE  Core'
  <1> USE DEF procVars, schedVars, familyVars
  <1>1. ProcessTypeOK' /\ UnusedApart'
    BY DEF Core, ProcessTypeOK, SchedTypeOK, UnusedApart, Ready
  <1>2. LiveNotDead' /\ Accounted'
    BY DEF Core, LiveNotDead, Accounted, Live, Ready
  <1> QED
    BY <1>1, <1>2 DEF Core

LEMMA CoreScheduler ==
    ASSUME Core, SchedulerStep
    PROVE  Core'
  <1>1. /\ UNCHANGED <<familyVars, uncollected, staleWake>>
        /\ UNCHANGED <<parent, children, zombies, waiting, child_exit_status>>
    BY DEF SchedulerStep, familyVars
  <1>2. CASE TrapClockHandler
    BY <1>1, <1>2, CoreClock
  <1>3. ASSUME NEW p \in Proc, NEW n \in Ticks, DelayHandler(p, n)
        PROVE  Core'
    <2>1. n \in Int
      BY SchedulerAssumption
    <2>2. CASE n <= 0
      <3>1. UNCHANGED schedVars
        BY <1>3, <2>2 DEF DelayHandler
      <3> QED
        BY <1>1, <3>1, CoreStutter DEF procVars
    <2>3. CASE n > 0
      <3>1. /\ machine = "up" /\ current_process = p /\ n \in Nat
            /\ delay_ticks' = [delay_ticks EXCEPT ![p] = n]
            /\ owed' = [owed EXCEPT ![p] = n]
            /\ kpc' = [kpc EXCEPT ![p] = "delay"]
            /\ ScheduleNextProcess(p, process_ready_queue, blocked_pcbs, delayed_pcbs,
                                   dead_pcbs, [state EXCEPT ![p] = "DELAYED"], pcb)
        BY <1>3, <2>1, <2>3 DEF DelayHandler, Syscall, UserMode
      <3>2. OtherTypes' /\ \A q \in Proc \ {p} : kpc'[q] = kpc[q]
        BY <1>1, <2>1, <3>1 DEF Core, ProcessTypeOK, SchedTypeOK, OtherTypes, KernelPoints
      <3> QED
        BY <1>1, <3>1, <3>2, CorePark
    <2> QED
      BY <2>1, <2>2, <2>3
  <1>4. ASSUME NEW p \in Proc, DelayReturn(p)
        PROVE  Core'
    <2>1. /\ machine = "up" /\ current_process = p
          /\ kpc' = [kpc EXCEPT ![p] = "user"]
          /\ UNCHANGED <<current_process, process_ready_queue, blocked_pcbs, delayed_pcbs,
                         dead_pcbs, state, delay_ticks, pcb, machine, owed>>
      BY <1>4 DEF DelayReturn, Resume
    <2>2. OtherTypes' /\ \A q \in Proc \ {p} : kpc'[q] = kpc[q]
      BY <1>1, <2>1 DEF Core, ProcessTypeOK, SchedTypeOK, OtherTypes, KernelPoints
    <2> QED
      BY <1>1, <2>1, <2>2, CoreMove
  <1> QED
    BY <1>2, <1>3, <1>4 DEF SchedulerStep

LEMMA CoreWait ==
    ASSUME Core, NEW p \in Proc, WaitBlock(p) \/ WaitAgain(p) \/ WaitReturn(p)
    PROVE  Core'
  <1>1. /\ machine = "up" /\ current_process = p
        /\ UNCHANGED <<delay_ticks, owed, parent, children, zombies, child_exit_status,
                       staleWake>>
    BY DEF WaitBlock, WaitAgain, WaitReturn, Syscall, Resume, UserMode, familyVars
  <1>2. CASE WaitBlock(p) \/ WaitAgain(p)
    <2>1. /\ ScheduleNextProcess(p, process_ready_queue, blocked_pcbs, delayed_pcbs,
                                 dead_pcbs, [state EXCEPT ![p] = "BLOCKED"], pcb)
          /\ \E s \in {"user", "wait"} : kpc' = [kpc EXCEPT ![p] = s]
          /\ \E b \in BOOLEAN : waiting' = [waiting EXCEPT ![p] = b]
          /\ uncollected' = uncollected
      <3>1. CASE WaitBlock(p)
        BY <3>1 DEF WaitBlock
      <3>2. CASE WaitAgain(p)
        <4>1. /\ state = [state EXCEPT ![p] = "BLOCKED"]
              /\ kpc = [kpc EXCEPT ![p] = "wait"]
              /\ waiting = [waiting EXCEPT ![p] = TRUE]
          BY <3>2 DEF WaitAgain, Resume, Core, ProcessTypeOK, SchedTypeOK
        <4>2. /\ ScheduleNextProcess(p, process_ready_queue, blocked_pcbs, delayed_pcbs,
                                     dead_pcbs, state, pcb)
              /\ kpc' = kpc /\ waiting' = waiting /\ uncollected' = uncollected
          BY <3>2 DEF WaitAgain, familyVars
        <4> QED
          BY <4>1, <4>2, Zenon
      <3> QED
        BY <1>2, <3>1, <3>2
    <2>2. OtherTypes' /\ \A q \in Proc \ {p} : kpc'[q] = kpc[q]
      BY <1>1, <2>1 DEF Core, ProcessTypeOK, SchedTypeOK, OtherTypes, KernelPoints
    <2> QED
      BY <1>1, <2>1, <2>2, CorePark
  <1>3. CASE WaitReturn(p)
    <2>1. /\ kpc' = [kpc EXCEPT ![p] = "user"]
          /\ uncollected' = [uncollected EXCEPT ![p] = @ \ {child_exit_status[p]}]
          /\ waiting' = waiting
          /\ UNCHANGED <<current_process, process_ready_queue, blocked_pcbs, delayed_pcbs,
                         dead_pcbs, state, pcb, machine>>
      BY <1>3 DEF WaitReturn, familyVars
    <2>2. OtherTypes' /\ \A q \in Proc \ {p} : kpc'[q] = kpc[q]
      BY <1>1, <2>1 DEF Core, ProcessTypeOK, SchedTypeOK, OtherTypes, KernelPoints
    <2> QED
      BY <1>1, <2>1, <2>2, CoreMove
  <1> QED
    BY <1>2, <1>3

(* Every step of Process keeps Core.                                       *)
LEMMA CoreNext ==
    ASSUME Core, ProcessNext
    PROVE  Core'
  <1>1. CASE SchedulerStep
    BY <1>1, CoreScheduler
  <1>2. ASSUME NEW p \in Proc, FamilyStep(p)
        PROVE  Core'
    <2>1. ASSUME NEW c \in Proc, ForkHandler(p, c)
          PROVE  Core'
      BY <2>1, CoreFork
    <2>2. CASE ExitHandler(p) \/ TrapIllegalHandler(p) \/ TrapMathHandler(p)
      BY <2>2, CoreExit DEF TrapIllegalHandler, TrapMathHandler
    <2>3. CASE ForkError(p) \/ WaitError(p)
      BY <2>3, CoreStutter DEF ForkError, WaitError
    <2>4. CASE TrapMemoryHandler(p) \/ ExecHandler(p)
      BY <2>4, CoreExit, CoreStutter DEF TrapMemoryHandler, ExecHandler
    <2>5. CASE WaitCollect(p)
      BY <2>5, CoreCollect
    <2>6. CASE WaitBlock(p) \/ WaitResume(p)
      BY <2>6, CoreWait DEF WaitResume
    <2> QED
      BY <1>2, <2>1, <2>2, <2>3, <2>4, <2>5, <2>6 DEF FamilyStep
  <1>3. CASE Stopped
    BY <1>3, CoreStutter DEF Stopped
  <1> QED
    BY <1>1, <1>2, <1>3 DEF ProcessNext

(* Core holds when the kernel has started.                                 *)
LEMMA CoreInit == ProcessInit => Core
  <1> SUFFICES ASSUME ProcessInit
               PROVE  Core
    OBVIOUS
  <1>1. ProcessTypeOK /\ Accounted
    BY InitInv DEF Inv
  <1>2. UnusedApart
    BY RangeEmpty, SchedulerAssumption DEF ProcessInit, UnusedApart, Ready
  <1>3. LiveNotDead
    BY SchedulerAssumption DEF ProcessInit, LiveNotDead
  <1> QED
    BY <1>1, <1>2, <1>3 DEF Core

-----------------------------------------------------------------------------
(* The points of the kernel that belong to locks, pipes and terminals.     *)
OtherCalls == KernelPoints \ {"user", "wait", "delay"}

(* What a step of Process does to a process that is in one of those calls: *)
(* at most it is made ready, and it leaves blocked_pcbs only if an exit    *)
(* found a stale waiting flag.                                             *)
CallsKept ==
    /\ \A p \in Proc : kpc[p] \in OtherCalls \/ kpc'[p] \in OtherCalls => kpc'[p] = kpc[p]
    /\ \A p \in Proc : kpc[p] \in OtherCalls =>
          /\ state'[p] = state[p] \/ state'[p] = "READY"
          /\ p \in blocked_pcbs' => p \in blocked_pcbs
          /\ p \in blocked_pcbs => p \in blocked_pcbs' \/ staleWake'
    /\ \A p \in Proc : pcb'[p] = "live" => pcb[p] \in {"live", "unused"}
    /\ \A p \in Proc : pcb[p] # "unused" => pcb'[p] # "unused"
    /\ staleWake => staleWake'
    /\ machine' \in {machine, "halted", "bad_switch", "corrupt"}

LEMMA StutterCalls ==
    ASSUME UNCHANGED procVars
    PROVE  CallsKept
  BY DEF procVars, schedVars, CallsKept

LEMMA ExitCalls ==
    ASSUME ProcessTypeOK, NEW p \in Proc, ExitHandler(p)
    PROVE  CallsKept
  <1>1. machine = "up" /\ current_process = p /\ kpc[p] = "user"
    BY DEF ExitHandler, Syscall, UserMode
  <1>2. CASE p = init_process
    <2>1. /\ machine' = "halted" /\ state' = [state EXCEPT ![p] = "DEAD"]
          /\ UNCHANGED <<blocked_pcbs, pcb, kpc, staleWake>>
      BY <1>2 DEF ExitHandler, Halt
    <2>2. \A r \in Proc \ {p} : state'[r] = state[r]
      BY <2>1 DEF ProcessTypeOK, SchedTypeOK
    <2> QED
      BY <1>1, <2>1, <2>2 DEF CallsKept, OtherCalls
  <1>3. CASE p # init_process /\ waiting[parent[p]]
    <2> DEFINE par == parent[p]
    <2>1. /\ staleWake' = (staleWake \/ ~InWait(par)) /\ kpc' = kpc
          /\ ScheduleNextProcess(NULL, Append(process_ready_queue, par),
                 blocked_pcbs \ {par}, delayed_pcbs, dead_pcbs,
                 [state EXCEPT ![p] = "DEAD", ![par] = "READY"],
                 [pcb EXCEPT ![p] = "freed"])
      BY <1>3 DEF ExitHandler, ExitToWaiting
    <2>2. /\ state' = [state EXCEPT ![p] = "DEAD", ![par] = "READY"]
          /\ pcb' = [pcb EXCEPT ![p] = "freed"]
          /\ blocked_pcbs' = blocked_pcbs \ {par}
          /\ machine' \in {machine, "bad_switch"}
      BY <2>1 DEF ScheduleNextProcess, Park, KCSwitch
    <2> HIDE DEF par
    <2>3. /\ \A r \in Proc \ {p} : state'[r] \in {state[r], "READY"}
          /\ \A r \in Proc : pcb'[r] = IF r = p THEN "freed" ELSE pcb[r]
      BY <2>2 DEF ProcessTypeOK, SchedTypeOK
    <2>4. /\ \A r \in Proc : kpc[r] \in OtherCalls /\ r = par => staleWake'
          /\ staleWake => staleWake'
          /\ kpc' = kpc
      BY <2>1 DEF InWait, OtherCalls
    <2>5. \A r \in Proc : kpc[r] \in OtherCalls =>
             /\ state'[r] = state[r] \/ state'[r] = "READY"
             /\ r \in blocked_pcbs' => r \in blocked_pcbs
             /\ r \in blocked_pcbs => r \in blocked_pcbs' \/ staleWake'
      BY <1>1, <2>2, <2>3, <2>4 DEF OtherCalls
    <2>6. /\ \A r \in Proc : pcb'[r] = "live" => pcb[r] \in {"live", "unused"}
          /\ \A r \in Proc : pcb[r] # "unused" => pcb'[r] # "unused"
          /\ machine' \in {machine, "halted", "bad_switch", "corrupt"}
      BY <2>2, <2>3
    <2> QED
      BY <2>4, <2>5, <2>6, Zenon DEF CallsKept
  <1>4. CASE p # init_process /\ ~waiting[parent[p]]
    <2> DEFINE par == parent[p]
    <2>1. /\ staleWake' = staleWake /\ kpc' = kpc
          /\ ScheduleNextProcess(NULL, process_ready_queue, blocked_pcbs, delayed_pcbs,
                 dead_pcbs \cup {p}, [state EXCEPT ![p] = "DEAD"],
                 [pcb EXCEPT ![p] = "exited"])
      BY <1>4 DEF ExitHandler, ExitToZombie
    <2>2. /\ state' = [state EXCEPT ![p] = "DEAD"]
          /\ pcb' = [pcb EXCEPT ![p] = "exited"]
          /\ blocked_pcbs' = blocked_pcbs
          /\ machine' \in {machine, "bad_switch"}
      BY <2>1 DEF ScheduleNextProcess, Park, KCSwitch
    <2>3. /\ \A r \in Proc \ {p} : state'[r] = state[r]
          /\ \A r \in Proc : pcb'[r] = IF r = p THEN "exited" ELSE pcb[r]
      BY <2>2 DEF ProcessTypeOK, SchedTypeOK
    <2> QED
      BY <1>1, <2>1, <2>2, <2>3 DEF CallsKept, OtherCalls
  <1> QED
    BY <1>2, <1>3, <1>4

(* The running process blocks in Delay or Wait, or goes on there.          *)
LEMMA ParkCalls ==
    ASSUME ProcessTypeOK, NEW p \in Proc, kpc[p] \in {"user", "wait", "delay"},
           NEW k \in {"user", "wait", "delay"}, kpc' = [kpc EXCEPT ![p] = k],
           staleWake' = staleWake, NEW s \in States,
           ScheduleNextProcess(p, process_ready_queue, blocked_pcbs, delayed_pcbs,
                               dead_pcbs, [state EXCEPT ![p] = s], pcb)
    PROVE  CallsKept
  <1>1. /\ state' = [state EXCEPT ![p] = s] /\ pcb' = pcb
        /\ blocked_pcbs' \in {blocked_pcbs, blocked_pcbs \cup {p}}
        /\ machine' \in {machine, "bad_switch"}
    BY DEF ScheduleNextProcess, Park, KCSwitch
  <1>2. /\ \A r \in Proc \ {p} : state'[r] = state[r] /\ kpc'[r] = kpc[r]
        /\ kpc'[p] = k
    BY <1>1 DEF ProcessTypeOK, SchedTypeOK
  <1> QED
    BY <1>1, <1>2 DEF CallsKept, OtherCalls

(* The running process returns from Delay or Wait.                         *)
LEMMA ReturnCalls ==
    ASSUME ProcessTypeOK, NEW p \in Proc, kpc[p] \in {"user", "wait", "delay"},
           kpc' = [kpc EXCEPT ![p] = "user"],
           UNCHANGED <<state, blocked_pcbs, pcb, staleWake, machine>>
    PROVE  CallsKept
  BY DEF ProcessTypeOK, SchedTypeOK, CallsKept, OtherCalls

LEMMA NextCalls ==
    ASSUME ProcessTypeOK, ProcessNext
    PROVE  CallsKept
  <1>1. CASE SchedulerStep
    <2>0. staleWake' = staleWake
      BY <1>1 DEF SchedulerStep
    <2>1. CASE TrapClockHandler
      <3> DEFINE st == [p \in Proc |-> IF p \in Expired THEN "READY" ELSE state[p]]
      <3>1. PICK w : ScheduleNextProcess(current_process, process_ready_queue \o w,
                        blocked_pcbs, delayed_pcbs \ Expired, dead_pcbs, st, pcb)
        BY <2>1 DEF TrapClockHandler
      <3>2. /\ state' = st /\ pcb' = pcb /\ kpc' = kpc
            /\ blocked_pcbs' \in {blocked_pcbs, blocked_pcbs \cup {current_process}}
            /\ machine' \in {machine, "bad_switch"}
        BY <2>1, <3>1 DEF TrapClockHandler, ScheduleNextProcess, Park, KCSwitch
      <3>3. kpc[current_process] = "user"
        BY <2>1 DEF TrapClockHandler, UserMode
      <3> QED
        BY <2>0, <3>2, <3>3 DEF CallsKept, OtherCalls
    <2>2. ASSUME NEW p \in Proc, NEW n \in Ticks, DelayHandler(p, n)
          PROVE  CallsKept
      <3>1. CASE n <= 0
        <4>1. UNCHANGED schedVars /\ UNCHANGED <<familyVars, uncollected, staleWake>>
          BY <1>1, <2>2, <3>1 DEF DelayHandler, SchedulerStep
        <4> QED
          BY <4>1, StutterCalls DEF procVars
      <3>2. CASE ~(n <= 0)
        <4>1. /\ kpc[p] = "user" /\ kpc' = [kpc EXCEPT ![p] = "delay"]
              /\ ScheduleNextProcess(p, process_ready_queue, blocked_pcbs, delayed_pcbs,
                                     dead_pcbs, [state EXCEPT ![p] = "DELAYED"], pcb)
          BY <2>2, <3>2 DEF DelayHandler, Syscall, UserMode
        <4> QED
          BY <2>0, <4>1, ParkCalls DEF States
      <3> QED
        BY <3>1, <3>2
    <2>3. ASSUME NEW p \in Proc, DelayReturn(p)
          PROVE  CallsKept
      BY <2>0, <2>3, ReturnCalls DEF DelayReturn, Resume
    <2> QED
      BY <1>1, <2>1, <2>2, <2>3 DEF SchedulerStep
  <1>2. ASSUME NEW p \in Proc, FamilyStep(p)
        PROVE  CallsKept
    <2>1. ASSUME NEW c \in Proc, ForkHandler(p, c)
          PROVE  CallsKept
      <3>1. /\ pcb[c] = "unused" /\ pcb' = [pcb EXCEPT ![c] = "live"]
            /\ UNCHANGED <<kpc, state, blocked_pcbs, staleWake, machine>>
        BY <2>1 DEF ForkHandler, pcbNew
      <3>2. \A r \in Proc : pcb'[r] = IF r = c THEN "live" ELSE pcb[r]
        BY <3>1 DEF ProcessTypeOK, SchedTypeOK
      <3> QED
        BY <3>1, <3>2 DEF CallsKept
    <2>2. CASE ExitHandler(p) \/ TrapIllegalHandler(p) \/ TrapMathHandler(p)
      BY <2>2, ExitCalls DEF TrapIllegalHandler, TrapMathHandler
    <2>3. CASE ForkError(p) \/ WaitError(p)
      BY <2>3, StutterCalls DEF ForkError, WaitError
    <2>4. CASE TrapMemoryHandler(p) \/ ExecHandler(p)
      BY <2>4, ExitCalls, StutterCalls DEF TrapMemoryHandler, ExecHandler
    <2>5. CASE WaitCollect(p)
      <3>1. /\ pcb' = [r \in Proc |-> IF r \in Range(zombies[p]) THEN "freed" ELSE pcb[r]]
            /\ machine = "up" /\ machine' \in {"up", "corrupt"}
            /\ UNCHANGED <<kpc, state, blocked_pcbs, staleWake>>
        BY <2>5 DEF WaitCollect, FreeZombies, Syscall, UserMode
      <3> QED
        BY <3>1 DEF CallsKept
    <2>6. CASE WaitBlock(p)
      <3>1. /\ kpc[p] = "user" /\ kpc' = [kpc EXCEPT ![p] = "wait"] /\ staleWake' = staleWake
            /\ ScheduleNextProcess(p, process_ready_queue, blocked_pcbs, delayed_pcbs,
                                   dead_pcbs, [state EXCEPT ![p] = "BLOCKED"], pcb)
        BY <2>6 DEF WaitBlock, Syscall, UserMode
      <3> QED
        BY <3>1, ParkCalls DEF States
    <2>7. CASE WaitAgain(p)
      <3>1. /\ kpc[p] = "wait" /\ kpc' = kpc /\ staleWake' = staleWake
            /\ state = [state EXCEPT ![p] = "BLOCKED"] /\ kpc = [kpc EXCEPT ![p] = "wait"]
            /\ ScheduleNextProcess(p, process_ready_queue, blocked_pcbs, delayed_pcbs,
                                   dead_pcbs, state, pcb)
        BY <2>7 DEF WaitAgain, Resume, ProcessTypeOK, SchedTypeOK
      <3>2. /\ kpc' = [kpc EXCEPT ![p] = "wait"]
            /\ ScheduleNextProcess(p, process_ready_queue, blocked_pcbs, delayed_pcbs,
                                   dead_pcbs, [state EXCEPT ![p] = "BLOCKED"], pcb)
        BY <3>1, Zenon
      <3> QED
        BY <3>1, <3>2, ParkCalls DEF States
    <2>8. CASE WaitReturn(p)
      BY <2>8, ReturnCalls DEF WaitReturn, Resume
    <2> QED
      BY <1>2, <2>1, <2>2, <2>3, <2>4, <2>5, <2>6, <2>7, <2>8 DEF FamilyStep, WaitResume
  <1>3. CASE Stopped
    BY <1>3, StutterCalls DEF Stopped
  <1> QED
    BY <1>1, <1>2, <1>3 DEF ProcessNext

-----------------------------------------------------------------------------
(* A call of another component blocks its caller and keeps Inv.            *)
LEMMA InvBlock ==
    ASSUME Inv, NEW p \in Proc, machine = "up", current_process = p, p # idle_process,
           NEW k \in OtherCalls, kpc' = [kpc EXCEPT ![p] = k],
           UNCHANGED <<delay_ticks, owed, familyVars, uncollected, staleWake>>,
           ScheduleNextProcess(p, process_ready_queue, blocked_pcbs, delayed_pcbs,
                               dead_pcbs, [state EXCEPT ![p] = "BLOCKED"], pcb)
    PROVE  /\ Inv'
           /\ blocked_pcbs' = blocked_pcbs \cup {p} /\ pcb' = pcb
           /\ \A q \in Proc : state'[q] = IF q = p THEN "BLOCKED" ELSE state[q]
           /\ \A q \in Proc : kpc'[q] = IF q = p THEN k ELSE kpc[q]
           /\ ~staleWake => machine' = "up"
           /\ machine' \in {"up", "bad_switch"}
  <1> DEFINE st == [state EXCEPT ![p] = "BLOCKED"]
  <1>1. /\ k \in KernelPoints /\ k \notin {"user", "wait", "delay"}
        /\ parent' = parent /\ children' = children /\ zombies' = zombies
        /\ waiting' = waiting /\ child_exit_status' = child_exit_status
        /\ uncollected' = uncollected /\ staleWake' = staleWake
        /\ delay_ticks' = delay_ticks /\ owed' = owed
    BY DEF OtherCalls, familyVars
  <1>2. /\ current_process' \in Proc \cup {NULL} /\ process_ready_queue' \in Seq(Proc)
        /\ blocked_pcbs' = Park(p, blocked_pcbs, st, "BLOCKED")
        /\ delayed_pcbs' = Park(p, delayed_pcbs, st, "DELAYED")
        /\ dead_pcbs' = dead_pcbs
        /\ state' = st /\ state' \in [Proc -> States]
        /\ pcb' = pcb /\ machine' \in MachineStates
        /\ Alive' /\ UnusedFresh' /\ Accounted' /\ IdleOnce'
        /\ ~staleWake => machine' = "up" /\ PlacesAfter
    BY <1>1, ParkStep
  <1>3. /\ blocked_pcbs' = blocked_pcbs \cup {p} /\ delayed_pcbs' = delayed_pcbs
        /\ \A q \in Proc : state'[q] = IF q = p THEN "BLOCKED" ELSE state[q]
        /\ \A q \in Proc : kpc'[q] = IF q = p THEN k ELSE kpc[q]
        /\ kpc' \in [Proc -> KernelPoints]
    BY <1>1, <1>2, SchedulerAssumption DEF Park, Inv, ProcessTypeOK, SchedTypeOK
  <1>4. ProcessTypeOK'
    <2>1. SchedTypeOK'
      BY <1>1, <1>2, <1>3, ZenonT(60) DEF Inv, ProcessTypeOK, SchedTypeOK
    <2> QED
      BY <1>1, <2>1 DEF Inv, ProcessTypeOK
  <1>5. ZombiesAllocated' /\ Family' /\ WaitAnnounced' /\ WaiterHasChild'
    <2>1. ZombiesAllocated' /\ Family'
      BY <1>1, <1>2 DEF Inv, ZombiesAllocated, Family, Live
    <2>2. \A q \in Proc : (kpc'[q] = "wait" => kpc[q] = "wait") /\ (InWait(q)' => InWait(q))
      BY <1>1, <1>3 DEF InWait
    <2>3. WaitAnnounced' /\ WaiterHasChild'
      BY <1>1, <1>2, <2>2 DEF Inv, WaitAnnounced, WaiterHasChild, Live
    <2> QED
      BY <2>1, <2>3
  <1>6. Places'
    <2> SUFFICES ASSUME ~staleWake
                 PROVE  Places'
      BY <1>1 DEF Places
    <2>1. \A r \in delayed_pcbs' : owed'[r] <= delay_ticks'[r]
      BY <1>1, <1>3 DEF Inv, Places
    <2>2. \A r \in Proc : pcb'[r] = "live" /\ kpc'[r] = "delay" /\ r \notin delayed_pcbs'
                              => owed'[r] = 0
      BY <1>1, <1>2, <1>3 DEF Inv, Places, Live
    <2> QED
      BY <1>2, <2>1, <2>2, PlacesStep
  <1>7. machine' \in {"up", "bad_switch"}
    BY DEF ScheduleNextProcess, KCSwitch
  <1> QED
    BY <1>2, <1>3, <1>4, <1>5, <1>6, <1>7 DEF Inv

(* Making the processes in T ready, who sleep unless a stale flag was      *)
(* found, keeps Inv.                                                       *)
LEMMA InvWake ==
    ASSUME Inv, NEW T \in SUBSET Proc,
           idle_process \notin T, \A q \in T : pcb[q] # "unused",
           ~staleWake => \A q \in T : q \in blocked_pcbs /\ kpc[q] # "delay",
           process_ready_queue' \in Seq(Proc),
           Range(process_ready_queue') = Range(process_ready_queue) \cup T,
           \A x : OnceIn(process_ready_queue, x) /\ (x \in T => ~Ready(x))
                      => OnceIn(process_ready_queue', x),
           state' = [q \in Proc |-> IF q \in T THEN "READY" ELSE state[q]],
           blocked_pcbs' = blocked_pcbs \ T,
           UNCHANGED <<current_process, delayed_pcbs, dead_pcbs, delay_ticks, pcb, kpc,
                       machine, owed, familyVars, uncollected, staleWake>>
    PROVE  Inv'
  <1>0. /\ parent' = parent /\ children' = children /\ zombies' = zombies
        /\ waiting' = waiting /\ child_exit_status' = child_exit_status
    BY DEF familyVars
  <1>1. \A q \in Proc : state'[q] = IF q \in T THEN "READY" ELSE state[q]
    OBVIOUS
  <1>2. ProcessTypeOK'
    BY <1>0 DEF Inv, ProcessTypeOK, SchedTypeOK, States
  <1>3. Alive' /\ UnusedFresh'
    BY <1>0, <1>1 DEF Inv, Alive, UnusedFresh, Live, Ready
  <1>4. ZombiesAllocated' /\ Family' /\ WaitAnnounced' /\ WaiterHasChild'
    <2>1. ZombiesAllocated' /\ Family'
      BY <1>0 DEF Inv, ZombiesAllocated, Family, Live
    <2>2. \A q \in Proc : InWait(q)' => InWait(q)
      BY <1>1 DEF InWait
    <2>3. WaitAnnounced' /\ WaiterHasChild'
      BY <1>0, <2>2 DEF Inv, WaitAnnounced, WaiterHasChild, Live
    <2> QED
      BY <2>1, <2>3
  <1>5. Accounted'
    BY DEF Inv, Accounted, Live, Ready
  <1>6. IdleOnce'
    BY <1>1, SchedulerAssumption DEF Inv, IdleOnce, Live, Ready
  <1>7. Places'
    <2> SUFFICES ASSUME ~staleWake
                 PROVE  Places'
      BY DEF Places
    <2>1. \A q \in T : Live(q) /\ state[q] = "BLOCKED" /\ ~Ready(q) /\ q # current_process
                        /\ q \notin delayed_pcbs
      BY DEF Inv, Places
    <2>2. \A q \in Proc : OnceIn(process_ready_queue', q)
      BY <2>1 DEF Inv, Places
    <2>3. machine' = "up" => state'[current_process'] = "READY"
      BY <1>1, <2>1 DEF Inv, Places, Alive
    <2> QED
      BY <1>1, <2>1, <2>2, <2>3 DEF Inv, Places, Live, Ready, ProcessTypeOK, SchedTypeOK
  <1> QED
    BY <1>2, <1>3, <1>4, <1>5, <1>6, <1>7 DEF Inv

(* Going on in such a call, or returning from it, keeps Inv.               *)
LEMMA InvMove ==
    ASSUME Inv, NEW p \in Proc, machine = "up", current_process = p, p # idle_process,
           NEW k \in OtherCalls \cup {"user"}, kpc' = [kpc EXCEPT ![p] = k],
           UNCHANGED <<current_process, process_ready_queue, blocked_pcbs, delayed_pcbs,
                       dead_pcbs, state, delay_ticks, pcb, machine, owed, familyVars,
                       uncollected, staleWake>>
    PROVE  Inv'
  <1>1. /\ k \in KernelPoints /\ k \notin {"wait", "delay"}
        /\ parent' = parent /\ children' = children /\ zombies' = zombies
        /\ waiting' = waiting /\ child_exit_status' = child_exit_status
        /\ \A q \in Proc : kpc'[q] = IF q = p THEN k ELSE kpc[q]
    BY DEF OtherCalls, KernelPoints, familyVars, Inv, ProcessTypeOK, SchedTypeOK
  <1>2. ProcessTypeOK'
    BY <1>1 DEF Inv, ProcessTypeOK, SchedTypeOK
  <1>3. Alive' /\ UnusedFresh' /\ ZombiesAllocated' /\ Family' /\ Accounted'
    BY <1>1, SMTT(60) DEF Inv, Alive, UnusedFresh, ZombiesAllocated, Family, Accounted, Live, Ready
  <1>4. IdleOnce' /\ WaitAnnounced' /\ WaiterHasChild'
    BY <1>1 DEF Inv, IdleOnce, WaitAnnounced, WaiterHasChild, InWait, Live, Ready
  <1>5. Places'
    BY <1>1 DEF Inv, Places, Live, Ready
  <1> QED
    BY <1>2, <1>3, <1>4, <1>5 DEF Inv

(* The kernel stops in the middle of such a call.                          *)
LEMMA InvCrash ==
    ASSUME Inv, machine' \in MachineStates \ {"up", "bad_switch"},
           UNCHANGED <<current_process, process_ready_queue, blocked_pcbs, delayed_pcbs,
                       dead_pcbs, state, delay_ticks, pcb, kpc, owed, familyVars,
                       uncollected, staleWake>>
    PROVE  Inv'
  <1>1. /\ parent' = parent /\ children' = children /\ zombies' = zombies
        /\ waiting' = waiting /\ child_exit_status' = child_exit_status
    BY DEF familyVars
  <1>2. ProcessTypeOK' /\ Alive' /\ UnusedFresh'
    BY <1>1 DEF Inv, ProcessTypeOK, SchedTypeOK, Alive, UnusedFresh, Live, Ready
  <1>3. ZombiesAllocated' /\ Family' /\ Accounted' /\ IdleOnce'
    BY <1>1 DEF Inv, ZombiesAllocated, Family, Accounted, IdleOnce, Live, Ready
  <1>4. WaitAnnounced' /\ WaiterHasChild'
    BY <1>1 DEF Inv, WaitAnnounced, WaiterHasChild, InWait, Live
  <1>5. Places'
    BY DEF Inv, Places, Live, Ready
  <1> QED
    BY <1>2, <1>3, <1>4, <1>5 DEF Inv
=============================================================================
