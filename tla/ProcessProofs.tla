---------------------------- MODULE ProcessProofs ----------------------------
(***************************************************************************)
(* Theorems about Process, for any set of PCBs, any MAX_PROCESSES and any  *)
(* arguments of Delay.                                                     *)
(*                                                                         *)
(* None of the invariants that TLC checks is inductive alone.  Inv joins   *)
(* them with what they need from one another: the family relations that    *)
(* make ExitHandler's parent pointer and Wait's zombies safe to follow,    *)
(* and, for as long as no stale waiting flag was found, the state that     *)
(* each place stands for.                                                  *)
(***************************************************************************)
EXTENDS Process, SequenceTheorems, FiniteSetTheorems, TLAPS

-----------------------------------------------------------------------------
(* Lemmas about the ready queue and about ScheduleNextProcess              *)

(* queue_push adds its argument, and gives no element a second entry but   *)
(* an argument that had one.                                               *)
LEMMA PushLemma ==
    ASSUME NEW S, NEW s \in Seq(S), NEW e \in S
    PROVE  /\ Append(s, e) \in Seq(S)
           /\ Append(s, e) # <<>>
           /\ Range(Append(s, e)) = Range(s) \cup {e}
           /\ \A x : OnceIn(s, x) /\ (x = e => x \notin Range(s))
                        => OnceIn(Append(s, e), x)
  <1>1. /\ Append(s, e) \in Seq(S)
        /\ Len(Append(s, e)) = Len(s) + 1
        /\ \A i \in 1 .. Len(s) : Append(s, e)[i] = s[i]
        /\ Append(s, e)[Len(s) + 1] = e
    BY AppendProperties
  <1>2. /\ Len(s) \in Nat
        /\ DOMAIN s = 1 .. Len(s)
        /\ DOMAIN Append(s, e) = 1 .. (Len(s) + 1)
    BY <1>1, LenProperties
  <1>3. Range(Append(s, e)) = Range(s) \cup {e}
    <2>1. \A i \in 1 .. (Len(s) + 1) : i \in 1 .. Len(s) \/ i = Len(s) + 1
      BY <1>2
    <2>2. 1 .. Len(s) \subseteq 1 .. (Len(s) + 1) /\ Len(s) + 1 \in 1 .. (Len(s) + 1)
      BY <1>2
    <2> QED
      BY <1>1, <1>2, <2>1, <2>2, Zenon DEF Range
  <1>4. ASSUME NEW x, OnceIn(s, x), x = e => x \notin Range(s)
        PROVE  OnceIn(Append(s, e), x)
    BY <1>1, <1>2, <1>4 DEF OnceIn, Range
  <1>5. Append(s, e) # <<>>
    BY <1>1, <1>2, EmptySeq
  <1> QED
    BY <1>1, <1>3, <1>4, <1>5

(* queue_pop removes the front and nothing else.                           *)
LEMMA PopLemma ==
    ASSUME NEW S, NEW s \in Seq(S), s # <<>>
    PROVE  /\ Head(s) \in S
           /\ Tail(s) \in Seq(S)
           /\ Range(s) = {Head(s)} \cup Range(Tail(s))
           /\ \A x : OnceIn(s, x) => /\ OnceIn(Tail(s), x)
                                     /\ x = Head(s) => x \notin Range(Tail(s))
  <1>1. /\ Len(s) \in Nat \ {0}
        /\ DOMAIN s = 1 .. Len(s)
        /\ Head(s) = s[1] /\ Head(s) \in S
        /\ Tail(s) \in Seq(S)
        /\ Len(Tail(s)) = Len(s) - 1
        /\ \A i \in 1 .. Len(Tail(s)) : Tail(s)[i] = s[i + 1]
    BY EmptySeq, LenProperties, HeadTailProperties
  <1>2. DOMAIN Tail(s) = 1 .. (Len(s) - 1)
    BY <1>1, LenProperties
  <1>3. Range(s) = {Head(s)} \cup Range(Tail(s))
    <2>1. ASSUME NEW x \in Range(s)
          PROVE  x \in {Head(s)} \cup Range(Tail(s))
      <3>1. PICK i \in 1 .. Len(s) : x = s[i]
        BY <1>1 DEF Range
      <3>2. CASE i = 1
        BY <1>1, <3>1, <3>2
      <3>3. CASE i # 1
        <4>1. i - 1 \in 1 .. (Len(s) - 1) /\ (i - 1) + 1 = i
          BY <1>1, <3>3
        <4>2. Tail(s)[i - 1] = x
          BY <1>1, <3>1, <4>1
        <4> QED
          BY <1>2, <4>1, <4>2 DEF Range
      <3> QED
        BY <3>2, <3>3
    <2>2. ASSUME NEW x \in Range(Tail(s))
          PROVE  x \in Range(s)
      <3>1. PICK i \in 1 .. (Len(s) - 1) : x = Tail(s)[i]
        BY <1>2 DEF Range
      <3>2. x = s[i + 1] /\ i + 1 \in 1 .. Len(s)
        BY <1>1, <3>1
      <3> QED
        BY <1>1, <3>2 DEF Range
    <2>3. Head(s) \in Range(s)
      BY <1>1 DEF Range
    <2> QED
      BY <2>1, <2>2, <2>3
  <1>4. ASSUME NEW x, OnceIn(s, x)
        PROVE  OnceIn(Tail(s), x) /\ (x = Head(s) => x \notin Range(Tail(s)))
    <2>1. \A i \in 1 .. (Len(s) - 1) :
             /\ Tail(s)[i] = s[i + 1]
             /\ i + 1 \in 1 .. Len(s) /\ 1 \in 1 .. Len(s) /\ i + 1 # 1
      BY <1>1
    <2>2. \A i, j \in 1 .. (Len(s) - 1) : Tail(s)[i] = x /\ Tail(s)[j] = x => i = j
      <3> TAKE i, j \in 1 .. (Len(s) - 1)
      <3> QED
        BY <1>1, <1>4, <2>1 DEF OnceIn
    <2>3. x = Head(s) => \A i \in 1 .. (Len(s) - 1) : Tail(s)[i] # x
      BY <1>1, <1>4, <2>1 DEF OnceIn
    <2> QED
      BY <1>2, <2>2, <2>3 DEF OnceIn, Range
  <1> QED
    BY <1>1, <1>3, <1>4

(* Pushing the members of a set one after the other, in any order.         *)
LEMMA PushAllLemma ==
    ASSUME NEW S, NEW s \in Seq(S), NEW T \in SUBSET S, IsFiniteSet(T),
           NEW w \in Orders(T)
    PROVE  /\ s \o w \in Seq(S)
           /\ Range(s \o w) = Range(s) \cup T
           /\ \A x : OnceIn(s, x) /\ (x \in T => x \notin Range(s)) => OnceIn(s \o w, x)
  <1>1. Cardinality(T) \in Nat
    BY FS_CardinalityType
  <1>2. /\ w \in [1 .. Cardinality(T) -> T]
        /\ \A i, j \in 1 .. Cardinality(T) : w[i] = w[j] => i = j
        /\ \A t \in T : \E i \in 1 .. Cardinality(T) : w[i] = t
    BY DEF Orders, Bijection, Injection, Surjection, IsInjective, Range
  <1>3. w \in Seq(T) /\ w \in Seq(S)
    BY <1>1, <1>2, SeqDef, SeqMonotonic
  <1>4. DOMAIN w = 1 .. Cardinality(T) /\ Len(w) = Cardinality(T)
    BY <1>1, <1>2, <1>3, LenProperties
  <1>5. Range(w) = T
    BY <1>2, <1>4 DEF Range
  <1>6. s \o w \in Seq(S) /\ Range(s \o w) = Range(s) \cup T
    BY <1>3, <1>5, ConcatProperties, RangeConcatenation
  <1>7. ASSUME NEW x, OnceIn(s, x), x \in T => x \notin Range(s)
        PROVE  OnceIn(s \o w, x)
    <2>1. /\ Len(s) \in Nat /\ DOMAIN s = 1 .. Len(s)
          /\ Len(w) \in Nat
          /\ Len(s \o w) = Len(s) + Len(w)
          /\ DOMAIN (s \o w) = 1 .. (Len(s) + Len(w))
          /\ \A i \in 1 .. (Len(s) + Len(w)) :
                (s \o w)[i] = IF i <= Len(s) THEN s[i] ELSE w[i - Len(s)]
      BY <1>3, <1>6, LenProperties, ConcatProperties
    <2>2. \A i \in 1 .. Len(s), j \in 1 .. Len(w) : ~(s[i] = x /\ w[j] = x)
      BY <1>4, <1>5, <1>7, <2>1 DEF Range
    <2>3. ASSUME NEW i \in 1 .. (Len(s) + Len(w)), NEW j \in 1 .. (Len(s) + Len(w)),
                 (s \o w)[i] = x, (s \o w)[j] = x
          PROVE  i = j
      <3>1. CASE i <= Len(s) /\ j <= Len(s)
        BY <1>7, <2>1, <2>3, <3>1 DEF OnceIn
      <3>2. CASE i <= Len(s) /\ ~(j <= Len(s))
        <4>1. j - Len(s) \in 1 .. Len(w) /\ i \in 1 .. Len(s)
          BY <2>1, <3>2
        <4> QED
          BY <2>1, <2>2, <2>3, <3>2, <4>1
      <3>3. CASE ~(i <= Len(s)) /\ j <= Len(s)
        <4>1. i - Len(s) \in 1 .. Len(w) /\ j \in 1 .. Len(s)
          BY <2>1, <3>3
        <4> QED
          BY <2>1, <2>2, <2>3, <3>3, <4>1
      <3>4. CASE ~(i <= Len(s)) /\ ~(j <= Len(s))
        <4>1. i - Len(s) \in 1 .. Len(w) /\ j - Len(s) \in 1 .. Len(w)
          BY <2>1, <3>4
        <4>2. w[i - Len(s)] = w[j - Len(s)]
          BY <2>1, <2>3, <3>4
        <4>3. i - Len(s) = j - Len(s)
          BY <1>2, <1>4, <4>1, <4>2
        <4> QED
          BY <2>1, <4>3
      <3> QED
        BY <3>1, <3>2, <3>3, <3>4
    <2> QED
      BY <2>1, <2>3 DEF OnceIn
  <1> QED
    BY <1>6, <1>7

-----------------------------------------------------------------------------
(* What the callers of ScheduleNextProcess rely on: who may be running     *)
(* and queued afterwards, and that nobody who could run is forgotten.      *)
Runnable(p, cur, rq, st) == p \in Range(rq) \/ (p = cur /\ st[p] = "READY")

ScheduleFacts(cur, rq, bl, dl, dd, st, mem) ==
    /\ process_ready_queue' \in Seq(Proc)
    /\ state' = st
    /\ pcb' = mem
    /\ blocked_pcbs' = Park(cur, bl, st, "BLOCKED")
    /\ delayed_pcbs' = Park(cur, dl, st, "DELAYED")
    /\ dead_pcbs' = Park(cur, dd, st, "DEAD")
    /\ \/ /\ machine' = machine
          /\ current_process' \in Proc
          /\ mem[current_process'] = "live"
          /\ \/ Runnable(current_process', cur, rq, st)
             \/ /\ current_process' = idle_process
                /\ process_ready_queue' = <<>>
                /\ \A p \in Proc : ~Runnable(p, cur, rq, st)
       \/ /\ machine' = "bad_switch"
          /\ current_process' = cur
          /\ \/ mem[idle_process] # "live"
             \/ \E p \in Proc : Runnable(p, cur, rq, st) /\ mem[p] # "live"
    /\ \A p \in Range(process_ready_queue') : Runnable(p, cur, rq, st)
    /\ \A p \in Proc : Runnable(p, cur, rq, st) =>
          \/ mem[p] # "live"
          \/ p = current_process'
          \/ p \in Range(process_ready_queue')
    /\ \A x \in Proc :
          OnceIn(rq, x) /\ (x = cur /\ st[x] = "READY" => x \notin Range(rq)) =>
             /\ OnceIn(process_ready_queue', x)
             /\ x = current_process' /\ machine' # "bad_switch"
                   => x \notin Range(process_ready_queue')

LEMMA ScheduleLemma ==
    ASSUME NEW cur \in Proc \cup {NULL}, NEW rq \in Seq(Proc),
           NEW bl, NEW dl, NEW dd,
           NEW st \in [Proc -> States], NEW mem \in [Proc -> Memory],
           ScheduleNextProcess(cur, rq, bl, dl, dd, st, mem)
    PROVE  ScheduleFacts(cur, rq, bl, dl, dd, st, mem)
  <1> DEFINE q == Requeue(cur, rq, st)
             next == IF q = <<>> THEN idle_process ELSE Head(q)
  <1>1. /\ process_ready_queue' = IF q = <<>> THEN <<>> ELSE Tail(q)
        /\ blocked_pcbs' = Park(cur, bl, st, "BLOCKED")
        /\ delayed_pcbs' = Park(cur, dl, st, "DELAYED")
        /\ dead_pcbs' = Park(cur, dd, st, "DEAD")
        /\ state' = st
        /\ pcb' = mem
        /\ KCSwitch(cur, next, mem)
    BY DEF ScheduleNextProcess
  <1>2. /\ q \in Seq(Proc)
        /\ \A p \in Proc : p \in Range(q) <=> Runnable(p, cur, rq, st)
        /\ Range(q) \subseteq Proc
        /\ \A x \in Proc :
              OnceIn(rq, x) /\ (x = cur /\ st[x] = "READY" => x \notin Range(rq))
                 => OnceIn(q, x)
    <2>0. \A s \in Seq(Proc) : Range(s) \subseteq Proc
      BY LenProperties DEF Range
    <2>1. CASE cur # NULL /\ st[cur] = "READY"
      <3>1. q = Append(rq, cur) /\ cur \in Proc
        BY <2>1 DEF Requeue
      <3>2. /\ q \in Seq(Proc) /\ Range(q) = Range(rq) \cup {cur}
            /\ \A x : OnceIn(rq, x) /\ (x = cur => x \notin Range(rq)) => OnceIn(q, x)
        BY <3>1, PushLemma
      <3> QED
        BY <2>0, <2>1, <3>1, <3>2 DEF Runnable
    <2>2. CASE ~(cur # NULL /\ st[cur] = "READY")
      <3>1. q = rq
        BY <2>2 DEF Requeue
      <3>2. ASSUME NEW p \in Proc
            PROVE  p \in Range(q) <=> Runnable(p, cur, rq, st)
        BY <2>2, <3>1, SchedulerAssumption DEF Runnable
      <3> QED
        BY <2>0, <3>1, <3>2
    <2> QED
      BY <2>1, <2>2
  <1> HIDE DEF q
  <1>3. CASE q = <<>>
    <2>1. Range(q) = {} /\ process_ready_queue' = <<>> /\ next = idle_process
      BY <1>1, <1>3, EmptySeq, LenProperties DEF Range
    <2>2. Range(<<>>) = {} /\ <<>> \in Seq(Proc) /\ \A x : OnceIn(<<>>, x)
      BY EmptySeq DEF OnceIn, Range
    <2>3. CASE mem[idle_process] = "live"
      <3>1. current_process' = idle_process /\ machine' = machine
        BY <1>1, <2>1, <2>3 DEF KCSwitch
      <3>2. \A p \in Proc : ~Runnable(p, cur, rq, st)
        BY <1>2, <2>1
      <3> QED
        BY <1>1, <2>1, <2>2, <2>3, <3>1, <3>2, SchedulerAssumption DEF ScheduleFacts
    <2>4. CASE mem[idle_process] # "live"
      <3>1. current_process' = cur /\ machine' = "bad_switch"
        BY <1>1, <2>1, <2>4 DEF KCSwitch
      <3>2. \A p \in Proc : ~Runnable(p, cur, rq, st)
        BY <1>2, <2>1
      <3> QED
        BY <1>1, <2>1, <2>2, <2>4, <3>1, <3>2 DEF ScheduleFacts
    <2> QED
      BY <2>3, <2>4
  <1>4. CASE q # <<>>
    <2>1. /\ Head(q) \in Proc /\ Tail(q) \in Seq(Proc)
          /\ Range(q) = {Head(q)} \cup Range(Tail(q))
          /\ \A x : OnceIn(q, x) => /\ OnceIn(Tail(q), x)
                                    /\ x = Head(q) => x \notin Range(Tail(q))
          /\ process_ready_queue' = Tail(q) /\ next = Head(q)
      BY <1>1, <1>2, <1>4, PopLemma
    <2>3. CASE mem[next] = "live"
      BY <1>1, <1>2, <2>1, <2>3 DEF KCSwitch, ScheduleFacts
    <2>4. CASE mem[next] # "live"
      <3>1. current_process' = cur /\ machine' = "bad_switch"
        BY <1>1, <2>4 DEF KCSwitch
      <3>2. Head(q) \in Proc /\ Runnable(Head(q), cur, rq, st) /\ mem[Head(q)] # "live"
        BY <1>2, <2>1, <2>4
      <3>3. \A p \in Proc : Runnable(p, cur, rq, st) => mem[p] # "live" \/ p \in Range(Tail(q))
        BY <1>2, <2>1, <2>4
      <3> QED
        BY <1>1, <1>2, <2>1, <3>1, <3>2, <3>3 DEF ScheduleFacts
    <2> QED
      BY <2>3, <2>4
  <1> QED
    BY <1>3, <1>4

-----------------------------------------------------------------------------
(* Four consequences, each for the values that a handler hands to the      *)
(* scheduler: types are kept, no live process is lost, the idle process    *)
(* has one place, and places keep telling the states of their members.     *)

LEMMA ScheduleTypes ==
    ASSUME NEW cur \in Proc \cup {NULL}, NEW rq, NEW bl \in SUBSET Proc,
           NEW dl \in SUBSET Proc, NEW dd \in SUBSET Proc, NEW st, NEW mem,
           machine \in MachineStates,
           ScheduleFacts(cur, rq, bl, dl, dd, st, mem)
    PROVE  /\ current_process' \in Proc \cup {NULL}
           /\ process_ready_queue' \in Seq(Proc)
           /\ blocked_pcbs' \subseteq Proc /\ delayed_pcbs' \subseteq Proc
           /\ dead_pcbs' \subseteq Proc /\ dd \subseteq dead_pcbs'
           /\ state' = st /\ pcb' = mem
           /\ machine' \in MachineStates
           /\ machine' = "up" => current_process' \in Proc /\ mem[current_process'] = "live"
  BY DEF ScheduleFacts, Park, MachineStates

LEMMA ScheduleAccounted ==
    ASSUME NEW cur \in Proc \cup {NULL}, NEW rq, NEW bl, NEW dl, NEW dd,
           NEW st, NEW mem,
           ScheduleFacts(cur, rq, bl, dl, dd, st, mem),
           \A p \in Proc \ {idle_process} : mem[p] = "live" =>
              \/ p = cur /\ st[p] \in {"READY", "BLOCKED", "DELAYED"}
              \/ p \in Range(rq) \/ p \in bl \/ p \in dl
    PROVE  Accounted'
  <1> SUFFICES ASSUME NEW p \in Proc \ {idle_process}, mem[p] = "live"
               PROVE  \/ p = current_process' \/ p \in Range(process_ready_queue')
                      \/ p \in blocked_pcbs' \/ p \in delayed_pcbs'
    BY DEF Accounted, Ready, Live, ScheduleFacts
  <1> QED
    BY SchedulerAssumption DEF ScheduleFacts, Park, Runnable

LEMMA ScheduleIdle ==
    ASSUME NEW cur \in Proc \cup {NULL}, NEW rq, NEW bl, NEW dl, NEW dd,
           NEW st, NEW mem,
           ScheduleFacts(cur, rq, bl, dl, dd, st, mem),
           mem[idle_process] = "live", st[idle_process] = "READY",
           kpc'[idle_process] = "user",
           idle_process \notin bl \cup dl,
           OnceIn(rq, idle_process),
           cur = idle_process => idle_process \notin Range(rq)
    PROVE  IdleOnce'
  <1>1. /\ state'[idle_process] = "READY" /\ pcb'[idle_process] = "live"
        /\ idle_process \notin blocked_pcbs' \cup delayed_pcbs'
    BY DEF ScheduleFacts, Park
  <1>2. ASSUME machine' = "up"
        PROVE  /\ OnceIn(process_ready_queue', idle_process)
               /\ current_process' = idle_process
                     => idle_process \notin Range(process_ready_queue')
    BY <1>2, SchedulerAssumption DEF ScheduleFacts
  <1> QED
    BY <1>1, <1>2 DEF IdleOnce, Live, Ready

(* cur and the members of rq, bl and dl are live and in the states that    *)
(* their places stand for.                                                 *)
PlacesBefore(cur, rq, bl, dl, st, mem) ==
    /\ \A p \in Proc : OnceIn(rq, p)
    /\ \A p \in Proc : p \in Range(rq) => mem[p] = "live" /\ st[p] = "READY"
    /\ \A p \in bl : mem[p] = "live" /\ st[p] = "BLOCKED"
    /\ \A p \in dl : mem[p] = "live" /\ st[p] = "DELAYED"
    /\ cur # NULL => mem[cur] = "live" /\ cur \notin Range(rq)
    /\ mem[idle_process] = "live" /\ st[idle_process] = "READY"

PlacesAfter ==
    /\ current_process' \in Proc
    /\ \A p \in Proc : OnceIn(process_ready_queue', p)
    /\ \A p \in Proc : Ready(p)' => Live(p)' /\ state'[p] = "READY"
    /\ \A p \in blocked_pcbs' : Live(p)' /\ state'[p] = "BLOCKED"
    /\ \A p \in delayed_pcbs' : Live(p)' /\ state'[p] = "DELAYED"
    /\ \A p \in Proc : p = current_process' => ~Ready(p)'
    /\ state'[current_process'] = "READY"

LEMMA SchedulePlaces ==
    ASSUME NEW cur \in Proc \cup {NULL}, NEW rq, NEW bl, NEW dl, NEW dd,
           NEW st, NEW mem, machine = "up",
           ScheduleFacts(cur, rq, bl, dl, dd, st, mem),
           PlacesBefore(cur, rq, bl, dl, st, mem)
    PROVE  machine' = "up" /\ PlacesAfter
  <1>1. \A p \in Proc : Runnable(p, cur, rq, st) => mem[p] = "live" /\ st[p] = "READY"
    BY SchedulerAssumption DEF Runnable, PlacesBefore
  <1>2. machine' = "up"
    BY <1>1 DEF ScheduleFacts, PlacesBefore
  <1>3. current_process' \in Proc /\ st[current_process'] = "READY"
    BY <1>1, <1>2 DEF ScheduleFacts, PlacesBefore
  <1>4. \A p \in Proc : /\ OnceIn(process_ready_queue', p)
                        /\ p = current_process' => p \notin Range(process_ready_queue')
    BY <1>2, SchedulerAssumption DEF ScheduleFacts, PlacesBefore
  <1>5. \A p \in Proc : p \in Range(process_ready_queue')
                            => mem[p] = "live" /\ st[p] = "READY"
    BY <1>1 DEF ScheduleFacts
  <1>6. /\ \A p \in blocked_pcbs' : mem[p] = "live" /\ st[p] = "BLOCKED"
        /\ \A p \in delayed_pcbs' : mem[p] = "live" /\ st[p] = "DELAYED"
    BY DEF ScheduleFacts, PlacesBefore, Park
  <1>7. state' = st /\ pcb' = mem
    BY DEF ScheduleFacts
  <1> QED
    BY <1>2, <1>3, <1>4, <1>5, <1>6, <1>7 DEF PlacesAfter, Live, Ready

-----------------------------------------------------------------------------
(* The inductive invariant                                                 *)

(* The running process has a PCB; only an exit makes a process DEAD.       *)
Alive ==
    /\ Live(init_process) /\ Live(idle_process)
    /\ machine = "up" =>
          /\ current_process \in Proc
          /\ Live(current_process)
          /\ \A p \in Proc : Live(p) => state[p] # "DEAD"

(* Nothing refers to a PCB that was not created yet.                       *)
UnusedFresh ==
    \A p \in Proc : pcb[p] = "unused" =>
        /\ zombies[p] = <<>> /\ state[p] = "READY" /\ kpc[p] = "user"
        /\ p # current_process /\ ~Ready(p)
        /\ p \notin blocked_pcbs \cup delayed_pcbs

(* children and parent agree, except that init does not learn of orphans.  *)
Family ==
    /\ \A p \in Proc \ {init_process, idle_process} : Live(p) =>
          /\ parent[p] \in Proc \ {idle_process} /\ parent[p] # p
          /\ Live(parent[p])
          /\ parent[p] # init_process => p \in children[parent[p]]
    /\ \A p \in Proc : \A c \in children[p] :
          /\ Live(c) /\ parent[c] = p
          /\ c \notin {init_process, idle_process}

(* A process in Wait has announced it.                                     *)
WaitAnnounced == \A p \in Proc : kpc[p] = "wait" => waiting[p]

(* Without a stale wake-up the place of a process tells its state, and the *)
(* ticks it still has to sleep are at least those it is still owed.        *)
Places ==
    ~staleWake =>
        /\ machine # "bad_switch"
        /\ \A p \in Proc : OnceIn(process_ready_queue, p)
        /\ \A p \in Proc : Ready(p) => Live(p) /\ state[p] = "READY"
        /\ \A p \in blocked_pcbs : Live(p) /\ state[p] = "BLOCKED"
        /\ \A p \in delayed_pcbs :
              Live(p) /\ state[p] = "DELAYED" /\ owed[p] <= delay_ticks[p]
        /\ \A p \in Proc : Live(p) /\ kpc[p] = "delay" /\ p \notin delayed_pcbs
                               => owed[p] = 0
        /\ \A p \in Proc : p = current_process =>
              ~Ready(p) /\ p \notin blocked_pcbs \cup delayed_pcbs
        /\ machine = "up" => state[current_process] = "READY"

Inv ==
    /\ ProcessTypeOK
    /\ Alive
    /\ UnusedFresh
    /\ ZombiesAllocated
    /\ Family
    /\ Accounted
    /\ IdleOnce
    /\ WaitAnnounced
    /\ WaiterHasChild
    /\ Places

-----------------------------------------------------------------------------
(* Places', for a step that ends in the scheduler.                         *)
LEMMA PlacesStep ==
    ASSUME machine' = "up", PlacesAfter,
           \A p \in delayed_pcbs' : owed'[p] <= delay_ticks'[p],
           \A p \in Proc : pcb'[p] = "live" /\ kpc'[p] = "delay" /\ p \notin delayed_pcbs'
                               => owed'[p] = 0
    PROVE  Places'
  <1>1. current_process' \notin blocked_pcbs' \cup delayed_pcbs'
    BY DEF PlacesAfter
  <1> QED
    BY <1>1 DEF PlacesAfter, Places, Live

(* The clock trap preserves Inv.                                           *)
LEMMA ClockStep ==
    ASSUME Inv, TrapClockHandler, UNCHANGED <<familyVars, uncollected, staleWake>>
    PROVE  Inv'
  <1> DEFINE st == [p \in Proc |-> IF p \in Expired THEN "READY" ELSE state[p]]
  <1>1. /\ machine = "up" /\ current_process \in Proc /\ Live(current_process)
        /\ delay_ticks' = [p \in Proc |-> IF p \in delayed_pcbs THEN TickDown(p)
                                          ELSE delay_ticks[p]]
        /\ owed' = [p \in Proc |-> IF owed[p] > 0 THEN owed[p] - 1 ELSE 0]
        /\ kpc' = kpc /\ parent' = parent /\ children' = children
        /\ zombies' = zombies /\ waiting' = waiting
        /\ child_exit_status' = child_exit_status
        /\ uncollected' = uncollected /\ staleWake' = staleWake
    BY DEF Inv, Alive, TrapClockHandler, UserMode, familyVars
  <1>2. /\ Expired \in SUBSET Proc /\ IsFiniteSet(Expired) /\ Expired \subseteq delayed_pcbs
        /\ st \in [Proc -> States]
    BY FS_Subset, SchedulerAssumption DEF Inv, ProcessTypeOK, SchedTypeOK, Expired, States
  <1>3. PICK w \in Orders(Expired) :
           ScheduleNextProcess(current_process, process_ready_queue \o w, blocked_pcbs,
                               delayed_pcbs \ Expired, dead_pcbs, st, pcb)
    BY DEF TrapClockHandler
  <1> DEFINE rq == process_ready_queue \o w
  <1>4. /\ rq \in Seq(Proc)
        /\ Range(rq) = Range(process_ready_queue) \cup Expired
        /\ \A x : OnceIn(process_ready_queue, x) /\ (x \in Expired => ~Ready(x)) => OnceIn(rq, x)
    BY <1>2, PushAllLemma DEF Inv, ProcessTypeOK, SchedTypeOK, Ready
  <1>5. ScheduleFacts(current_process, rq, blocked_pcbs, delayed_pcbs \ Expired, dead_pcbs, st, pcb)
    BY <1>1, <1>2, <1>3, <1>4, ScheduleLemma DEF Inv, ProcessTypeOK, SchedTypeOK
  <1> HIDE DEF rq
  <1>6. ProcessTypeOK'
    <2>1. owed' \in [Proc -> Nat] /\ delay_ticks' \in [Proc -> Int]
      BY <1>1 DEF Inv, ProcessTypeOK, SchedTypeOK, TickDown
    <2>2. /\ current_process' \in Proc \cup {NULL}
          /\ process_ready_queue' \in Seq(Proc)
          /\ blocked_pcbs' \subseteq Proc /\ delayed_pcbs' \subseteq Proc
          /\ dead_pcbs' \subseteq Proc
          /\ state' = st /\ pcb' = pcb /\ machine' \in MachineStates
      BY <1>1, <1>2, <1>5, ScheduleTypes DEF Inv, ProcessTypeOK, SchedTypeOK
    <2> QED
      BY <1>1, <1>2, <2>1, <2>2 DEF Inv, ProcessTypeOK, SchedTypeOK
  <1>7. Alive' /\ UnusedFresh'
    BY <1>1, <1>2, <1>4, <1>5, SchedulerAssumption DEF ScheduleFacts, Inv, ProcessTypeOK,
       SchedTypeOK, Alive, UnusedFresh, Live, Ready, Park, Runnable, MachineStates
  <1>8. ZombiesAllocated' /\ Family' /\ WaitAnnounced' /\ WaiterHasChild'
    BY <1>1, <1>2, <1>5, SMTT(60) DEF ScheduleFacts, Inv, ProcessTypeOK, SchedTypeOK,
       ZombiesAllocated, Family, WaitAnnounced, WaiterHasChild, InWait, Live, Park
  <1>9. Accounted'
    <2>1. ASSUME NEW p \in Proc \ {idle_process}, pcb[p] = "live"
          PROVE  \/ p = current_process /\ st[p] \in {"READY", "BLOCKED", "DELAYED"}
                 \/ p \in Range(rq) \/ p \in blocked_pcbs \/ p \in delayed_pcbs \ Expired
      BY <1>1, <1>2, <1>4, <2>1 DEF Inv, Accounted, Alive, Live, Ready, States
    <2> QED
      BY <1>1, <1>5, <2>1, ScheduleAccounted
  <1>10. IdleOnce'
    <2>1. /\ pcb[idle_process] = "live" /\ st[idle_process] = "READY" /\ kpc'[idle_process] = "user"
          /\ idle_process \notin blocked_pcbs \cup (delayed_pcbs \ Expired)
          /\ OnceIn(rq, idle_process)
          /\ current_process = idle_process => idle_process \notin Range(rq)
      BY <1>1, <1>2, <1>4, SchedulerAssumption DEF Inv, IdleOnce, Live, Ready
    <2> QED
      BY <1>1, <1>5, <2>1, ScheduleIdle
  <1>11. Places'
    <2> SUFFICES ASSUME ~staleWake
                 PROVE  Places'
      BY <1>1 DEF Places
    <2>1. PlacesBefore(current_process, rq, blocked_pcbs, delayed_pcbs \ Expired, st, pcb)
      BY <1>1, <1>2, <1>4, SchedulerAssumption DEF PlacesBefore, Inv, ProcessTypeOK, SchedTypeOK,
         Places, IdleOnce, Live, Ready
    <2>2. machine' = "up" /\ PlacesAfter
      BY <1>1, <1>5, <2>1, SchedulePlaces
    <2>3. st[current_process] = "READY" /\ delayed_pcbs' = delayed_pcbs \ Expired
      BY <1>1, <1>2, <1>5 DEF ScheduleFacts, Park, Inv, Places
    <2>4. \A p \in delayed_pcbs' : owed'[p] <= delay_ticks'[p]
      BY <1>1, <2>3 DEF Expired, TickDown, Inv, Places, ProcessTypeOK, SchedTypeOK
    <2>5. \A p \in Proc : pcb'[p] = "live" /\ kpc'[p] = "delay" /\ p \notin delayed_pcbs'
                              => owed'[p] = 0
      <3>1. /\ \A p \in Proc : Live(p) /\ kpc[p] = "delay" /\ p \notin delayed_pcbs => owed[p] = 0
            /\ \A p \in delayed_pcbs : owed[p] <= delay_ticks[p]
            /\ pcb' = pcb
        BY <1>5 DEF ScheduleFacts, Inv, Places
      <3> QED
        BY <1>1, <2>3, <3>1 DEF Expired, TickDown, Inv, Live, ProcessTypeOK, SchedTypeOK
    <2> QED
      BY <2>2, <2>4, <2>5, PlacesStep
  <1> QED
    BY <1>6, <1>7, <1>8, <1>9, <1>10, <1>11 DEF Inv

-----------------------------------------------------------------------------
(* What Delay and Wait have in common: the running process p takes state s *)
(* and calls the scheduler.                                                *)
LEMMA ParkStep ==
    ASSUME Inv, NEW p \in Proc, NEW s \in {"BLOCKED", "DELAYED"},
           machine = "up", current_process = p, p # idle_process,
           NEW k \in KernelPoints, kpc' = [kpc EXCEPT ![p] = k],
           zombies' = zombies,
           ScheduleNextProcess(p, process_ready_queue, blocked_pcbs, delayed_pcbs,
                               dead_pcbs, [state EXCEPT ![p] = s], pcb)
    PROVE  /\ current_process' \in Proc \cup {NULL} /\ process_ready_queue' \in Seq(Proc)
           /\ blocked_pcbs' = Park(p, blocked_pcbs, [state EXCEPT ![p] = s], "BLOCKED")
           /\ delayed_pcbs' = Park(p, delayed_pcbs, [state EXCEPT ![p] = s], "DELAYED")
           /\ dead_pcbs' = dead_pcbs
           /\ state' = [state EXCEPT ![p] = s] /\ state' \in [Proc -> States]
           /\ pcb' = pcb /\ machine' \in MachineStates
           /\ Alive' /\ UnusedFresh' /\ Accounted' /\ IdleOnce'
           /\ ~staleWake => machine' = "up" /\ PlacesAfter
  <1> DEFINE st == [state EXCEPT ![p] = s]
  <1>1. st \in [Proc -> States] /\ st[p] = s /\ \A r \in Proc \ {p} : st[r] = state[r]
    BY DEF Inv, ProcessTypeOK, SchedTypeOK, States
  <1>2. ScheduleFacts(p, process_ready_queue, blocked_pcbs, delayed_pcbs, dead_pcbs, st, pcb)
    BY <1>1, ScheduleLemma DEF Inv, ProcessTypeOK, SchedTypeOK
  <1>3. \A r \in Proc : kpc'[r] = IF r = p THEN k ELSE kpc[r]
    BY DEF Inv, ProcessTypeOK, SchedTypeOK
  <1> HIDE DEF st
  <1>4. /\ current_process' \in Proc \cup {NULL} /\ process_ready_queue' \in Seq(Proc)
        /\ state' = st /\ pcb' = pcb /\ machine' \in MachineStates
        /\ machine' = "up" => current_process' \in Proc /\ pcb[current_process'] = "live"
    <2>1. /\ p \in Proc \cup {NULL} /\ blocked_pcbs \in SUBSET Proc
          /\ delayed_pcbs \in SUBSET Proc /\ dead_pcbs \in SUBSET Proc
          /\ machine \in MachineStates
      BY DEF Inv, ProcessTypeOK, SchedTypeOK
    <2> QED
      BY <1>2, <2>1, ScheduleTypes
  <1>5. dead_pcbs' = dead_pcbs
        /\ blocked_pcbs' = Park(p, blocked_pcbs, st, "BLOCKED")
        /\ delayed_pcbs' = Park(p, delayed_pcbs, st, "DELAYED")
    BY <1>1, <1>2 DEF ScheduleFacts, Park
  <1>6. Alive'
    BY <1>1, <1>4, SchedulerAssumption DEF Inv, Alive, Live
  <1>7. UnusedFresh'
    BY <1>1, <1>2, <1>3, <1>4, <1>5, SchedulerAssumption DEF ScheduleFacts, Inv, Alive,
       UnusedFresh, Live, Ready, Park, Runnable
  <1>8. Accounted'
    <2>1. ASSUME NEW r \in Proc \ {idle_process}, pcb[r] = "live"
          PROVE  \/ r = p /\ st[r] \in {"READY", "BLOCKED", "DELAYED"}
                 \/ r \in Range(process_ready_queue) \/ r \in blocked_pcbs \/ r \in delayed_pcbs
      BY <1>1, <2>1 DEF Inv, Accounted, Live, Ready
    <2> QED
      BY <1>2, <2>1, ScheduleAccounted
  <1>9. IdleOnce'
    <2>1. /\ pcb[idle_process] = "live" /\ st[idle_process] = "READY" /\ kpc'[idle_process] = "user"
          /\ idle_process \notin blocked_pcbs \cup delayed_pcbs
          /\ OnceIn(process_ready_queue, idle_process)
      BY <1>1, <1>3, SchedulerAssumption DEF Inv, IdleOnce, Live
    <2> QED
      BY <1>2, <2>1, ScheduleIdle
  <1>10. ASSUME ~staleWake
         PROVE  machine' = "up" /\ PlacesAfter
    <2>1. PlacesBefore(p, process_ready_queue, blocked_pcbs, delayed_pcbs, st, pcb)
      BY <1>1, <1>10, SchedulerAssumption DEF PlacesBefore, Inv, ProcessTypeOK, SchedTypeOK,
         Places, IdleOnce, Alive, Live, Ready
    <2> QED
      BY <1>2, <2>1, SchedulePlaces
  <1> QED
    BY <1>1, <1>4, <1>5, <1>6, <1>7, <1>8, <1>9, <1>10 DEF st

(* Delay preserves Inv.                                                    *)
LEMMA DelayStep ==
    ASSUME Inv, NEW p \in Proc, NEW n \in Ticks, n > 0, DelayHandler(p, n),
           UNCHANGED <<familyVars, uncollected, staleWake>>
    PROVE  Inv'
  <1>1. /\ machine = "up" /\ current_process = p /\ p # idle_process /\ n \in Nat
        /\ delay_ticks' = [delay_ticks EXCEPT ![p] = n]
        /\ owed' = [owed EXCEPT ![p] = n]
        /\ kpc' = [kpc EXCEPT ![p] = "delay"]
        /\ parent' = parent /\ children' = children /\ zombies' = zombies
        /\ waiting' = waiting /\ child_exit_status' = child_exit_status
        /\ uncollected' = uncollected /\ staleWake' = staleWake
        /\ ScheduleNextProcess(p, process_ready_queue, blocked_pcbs, delayed_pcbs,
                               dead_pcbs, [state EXCEPT ![p] = "DELAYED"], pcb)
    BY SchedulerAssumption DEF DelayHandler, Syscall, UserMode, familyVars
  <1> DEFINE st == [state EXCEPT ![p] = "DELAYED"]
  <1>2. /\ current_process' \in Proc \cup {NULL} /\ process_ready_queue' \in Seq(Proc)
        /\ blocked_pcbs' = Park(p, blocked_pcbs, st, "BLOCKED")
        /\ delayed_pcbs' = Park(p, delayed_pcbs, st, "DELAYED")
        /\ dead_pcbs' = dead_pcbs
        /\ state' = st /\ state' \in [Proc -> States]
        /\ pcb' = pcb /\ machine' \in MachineStates
        /\ Alive' /\ UnusedFresh' /\ Accounted' /\ IdleOnce'
        /\ ~staleWake => machine' = "up" /\ PlacesAfter
    BY <1>1, ParkStep DEF KernelPoints
  <1>3. blocked_pcbs' = blocked_pcbs /\ delayed_pcbs' = delayed_pcbs \cup {p}
    BY <1>2, SchedulerAssumption DEF Park, Inv, ProcessTypeOK, SchedTypeOK
  <1>4. ProcessTypeOK'
    <2>1. /\ delay_ticks' \in [Proc -> Int] /\ owed' \in [Proc -> Nat]
          /\ kpc' \in [Proc -> KernelPoints]
      BY <1>1 DEF Inv, ProcessTypeOK, SchedTypeOK, KernelPoints
    <2>2. SchedTypeOK'
      BY <1>2, <1>3, <2>1 DEF Inv, ProcessTypeOK, SchedTypeOK
    <2> QED
      BY <1>1, <2>2 DEF Inv, ProcessTypeOK
  <1>5. ZombiesAllocated' /\ Family' /\ WaitAnnounced' /\ WaiterHasChild'
    BY <1>1, <1>2 DEF Inv, ProcessTypeOK, SchedTypeOK,
       ZombiesAllocated, Family, WaitAnnounced, WaiterHasChild, InWait, Live
  <1>6. Places'
    <2> SUFFICES ASSUME ~staleWake
                 PROVE  Places'
      BY <1>1 DEF Places
    <2>1. \A r \in delayed_pcbs' : owed'[r] <= delay_ticks'[r]
      BY <1>1, <1>3 DEF Inv, Places, ProcessTypeOK, SchedTypeOK
    <2>2. \A r \in Proc : pcb'[r] = "live" /\ kpc'[r] = "delay" /\ r \notin delayed_pcbs'
                              => owed'[r] = 0
      BY <1>1, <1>2, <1>3 DEF Inv, Places, Live, ProcessTypeOK, SchedTypeOK
    <2> QED
      BY <1>2, <2>1, <2>2, PlacesStep
  <1> QED
    BY <1>2, <1>4, <1>5, <1>6 DEF Inv

(* Returning from Delay preserves Inv.                                     *)
LEMMA DelayReturnStep ==
    ASSUME Inv, NEW p \in Proc, DelayReturn(p),
           UNCHANGED <<familyVars, uncollected, staleWake>>
    PROVE  Inv'
  <1>1. /\ machine = "up" /\ current_process = p /\ kpc[p] = "delay"
        /\ kpc' = [kpc EXCEPT ![p] = "user"]
        /\ UNCHANGED <<current_process, process_ready_queue, blocked_pcbs, delayed_pcbs,
                       dead_pcbs, state, delay_ticks, pcb, machine, owed, parent, children,
                       zombies, waiting, child_exit_status, uncollected, staleWake>>
    BY DEF DelayReturn, Resume, familyVars
  <1>2. ProcessTypeOK'
    BY <1>1 DEF Inv, ProcessTypeOK, SchedTypeOK, KernelPoints
  <1>3. Alive' /\ UnusedFresh' /\ ZombiesAllocated' /\ Family' /\ Accounted'
    BY <1>1 DEF Inv, ProcessTypeOK, SchedTypeOK, Alive, UnusedFresh, ZombiesAllocated,
       Family, Accounted, Live, Ready
  <1>4. IdleOnce' /\ WaitAnnounced' /\ WaiterHasChild'
    BY <1>1 DEF Inv, ProcessTypeOK, SchedTypeOK, IdleOnce, WaitAnnounced, WaiterHasChild,
       InWait, Live, Ready
  <1>5. Places'
    BY <1>1 DEF Inv, ProcessTypeOK, SchedTypeOK, Places, Live, Ready
  <1> QED
    BY <1>2, <1>3, <1>4, <1>5 DEF Inv

-----------------------------------------------------------------------------
(* Fork preserves Inv.                                                     *)
LEMMA ForkStep ==
    ASSUME Inv, NEW p \in Proc, NEW c \in Proc, ForkHandler(p, c)
    PROVE  Inv'
  <1>1. /\ machine = "up" /\ current_process = p /\ p # idle_process /\ kpc[p] = "user"
        /\ pcb[c] = "unused"
        /\ pcb' = [pcb EXCEPT ![c] = "live"]
        /\ parent' = [parent EXCEPT ![c] = p]
        /\ children' = [children EXCEPT ![p] = @ \cup {c}]
        /\ process_ready_queue' = Append(process_ready_queue, c)
        /\ UNCHANGED <<current_process, blocked_pcbs, delayed_pcbs, dead_pcbs, state,
                       delay_ticks, kpc, machine, owed, zombies, waiting,
                       child_exit_status, uncollected, staleWake>>
    BY DEF ForkHandler, pcbNew, Syscall, UserMode
  <1>2. /\ Live(p) /\ Live(init_process) /\ Live(idle_process)
        /\ c \notin {p, init_process, idle_process}
        /\ zombies[c] = <<>> /\ state[c] = "READY" /\ kpc[c] = "user"
        /\ ~Ready(c) /\ c \notin blocked_pcbs \cup delayed_pcbs
        /\ Range(zombies[c]) = {}
    BY <1>1 DEF Inv, Alive, Live, UnusedFresh, Range
  <1>3. /\ process_ready_queue' \in Seq(Proc)
        /\ Range(process_ready_queue') = Range(process_ready_queue) \cup {c}
        /\ \A x : OnceIn(process_ready_queue, x) /\ (x = c => ~Ready(x))
                     => OnceIn(process_ready_queue', x)
    BY <1>1, PushLemma DEF Inv, ProcessTypeOK, SchedTypeOK, Ready
  <1>4. /\ \A r \in Proc : pcb'[r] = IF r = c THEN "live" ELSE pcb[r]
        /\ \A r \in Proc : parent'[r] = IF r = c THEN p ELSE parent[r]
        /\ \A r \in Proc : children'[r] = IF r = p THEN children[p] \cup {c} ELSE children[r]
    BY <1>1 DEF Inv, ProcessTypeOK, SchedTypeOK
  <1>5. ProcessTypeOK'
    BY <1>1, <1>3 DEF Inv, ProcessTypeOK, SchedTypeOK, Memory
  <1>6. Alive' /\ UnusedFresh'
    BY <1>1, <1>2, <1>3, <1>4, SchedulerAssumption DEF Inv, Alive, UnusedFresh, Live, Ready
  <1>7. ZombiesAllocated'
    BY <1>1, <1>2, <1>4, SMTT(60) DEF Inv, ZombiesAllocated, Live, ProcessTypeOK, SchedTypeOK
  <1>8. Family'
    <2>1. ASSUME NEW r \in Proc \ {init_process, idle_process}, pcb'[r] = "live"
          PROVE  /\ parent'[r] \in Proc \ {idle_process} /\ parent'[r] # r
                 /\ pcb'[parent'[r]] = "live"
                 /\ parent'[r] # init_process => r \in children'[parent'[r]]
      <3>1. CASE r = c
        BY <1>1, <1>2, <1>4, <3>1 DEF Live
      <3>2. CASE r # c
        <4>1. pcb[r] = "live" /\ parent'[r] = parent[r]
          BY <1>4, <2>1, <3>2
        <4>2. /\ parent[r] \in Proc \ {idle_process} /\ parent[r] # r
              /\ pcb[parent[r]] = "live"
              /\ parent[r] # init_process => r \in children[parent[r]]
          BY <4>1 DEF Inv, Family, Live
        <4> QED
          BY <1>1, <1>4, <4>1, <4>2
      <3> QED
        BY <3>1, <3>2
    <2>2. ASSUME NEW r \in Proc, NEW d \in children'[r]
          PROVE  /\ pcb'[d] = "live" /\ parent'[d] = r
                 /\ d \notin {init_process, idle_process}
      <3>0. d \in Proc
        BY <1>5 DEF ProcessTypeOK
      <3>1. CASE r = p /\ d = c
        BY <1>2, <1>4, <3>1
      <3>2. CASE d \in children[r]
        BY <1>1, <1>4, <3>0, <3>2 DEF Inv, Family, Live
      <3> QED
        BY <1>4, <2>2, <3>1, <3>2
    <2> QED
      BY <2>1, <2>2 DEF Family, Live
  <1>9. Accounted' /\ IdleOnce'
    BY <1>1, <1>2, <1>3, <1>4, SchedulerAssumption DEF Inv, Accounted, IdleOnce, Live, Ready
  <1>10. WaitAnnounced' /\ WaiterHasChild'
    BY <1>1, <1>2, <1>4 DEF Inv, WaitAnnounced, WaiterHasChild, InWait, Live
  <1>11. Places'
    BY <1>1, <1>2, <1>3, <1>4, SMTT(30) DEF Inv, Places, Live, Ready, ProcessTypeOK, SchedTypeOK
  <1> QED
    BY <1>5, <1>6, <1>7, <1>8, <1>9, <1>10, <1>11 DEF Inv

(* The exit of init, which stops the machine, preserves Inv.               *)
LEMMA HaltStep ==
    ASSUME Inv, Syscall(init_process), Halt(init_process)
    PROVE  Inv'
  <1>1. /\ machine' = "halted" /\ machine = "up" /\ current_process = init_process
        /\ kpc[init_process] = "user"
        /\ state' = [state EXCEPT ![init_process] = "DEAD"]
        /\ parent' = pcbOrphanChildren(init_process)
        /\ UNCHANGED <<current_process, process_ready_queue, blocked_pcbs,
                       delayed_pcbs, dead_pcbs, delay_ticks, pcb, kpc, owed, children,
                       zombies, waiting, child_exit_status, uncollected, staleWake>>
    BY DEF Halt, Syscall, UserMode
  <1>2. /\ Live(init_process) /\ init_process \in Proc
        /\ \A r \in Proc : Live(r) => parent'[r] = parent[r]
        /\ \A r \in Proc \ {init_process} : state'[r] = state[r]
        /\ parent' \in [Proc -> Proc \cup {NULL}]
        /\ state' \in [Proc -> States]
    BY <1>1, SchedulerAssumption DEF Inv, Alive, Family, ZombiesAllocated, Live,
       pcbOrphanChildren, ProcessTypeOK, SchedTypeOK, States
  <1>3. ProcessTypeOK' /\ Alive'
    BY <1>1, <1>2 DEF Inv, ProcessTypeOK, SchedTypeOK, Alive, Live, MachineStates
  <1>4. UnusedFresh' /\ ZombiesAllocated'
    BY <1>1, <1>2 DEF Inv, UnusedFresh, ZombiesAllocated, Live, Ready
  <1>8. Family'
    <2>1. \A r \in Proc : \A c \in children[r] : c \in Proc
      BY DEF Inv, ProcessTypeOK
    <2> QED
      BY <1>1, <1>2, <2>1 DEF Inv, Family, Live
  <1>5. Accounted' /\ IdleOnce' /\ WaitAnnounced'
    BY <1>1 DEF Inv, Accounted, IdleOnce, WaitAnnounced, Live, Ready
  <1>6. WaiterHasChild'
    BY <1>1, <1>2 DEF Inv, WaiterHasChild, InWait, Live
  <1>7. Places'
    BY <1>1, <1>2 DEF Inv, Places, Live, Ready, ProcessTypeOK, SchedTypeOK
  <1> QED
    BY <1>3, <1>4, <1>5, <1>6, <1>7, <1>8 DEF Inv

-----------------------------------------------------------------------------
(* Both ways to exit leave a consistent family behind: every child that    *)
(* still runs is handed to init, and nobody who waits loses its last child *)
(* without being woken.                                                    *)
LEMMA ExitFamily ==
    ASSUME Inv, NEW p \in Proc, Syscall(p), p # init_process,
           LeaveFamily(p, parent[p]),
           NEW m \in {"exited", "freed"}, pcb' = [pcb EXCEPT ![p] = m],
           \A w \in Proc : InWait(w)' => InWait(w) /\ w # parent[p]
    PROVE  /\ parent[p] \in Proc \ {p, idle_process} /\ Live(parent[p]) /\ Live(p)
           /\ Family' /\ WaiterHasChild'
           /\ parent' \in [Proc -> Proc \cup {NULL}]
           /\ children' \in [Proc -> SUBSET Proc]
           /\ child_exit_status' \in [Proc -> Proc \cup {NULL}]
           /\ uncollected' \in [Proc -> SUBSET Proc]
           /\ waiting' = waiting
  <1> DEFINE par == parent[p]
  <1>1. /\ machine = "up" /\ current_process = p /\ p # idle_process /\ kpc[p] = "user"
        /\ Live(p)
    BY DEF Syscall, UserMode, Inv, Alive
  <1>2. par \in Proc \ {p, idle_process} /\ Live(par)
    BY <1>1 DEF Inv, Family
  <1>3. /\ parent' = pcbOrphanChildren(p)
        /\ children' = [children EXCEPT ![par] = @ \ {p}, ![p] = {}]
        /\ child_exit_status' = [child_exit_status EXCEPT ![par] = p]
        /\ uncollected' = [uncollected EXCEPT ![par] = @ \cup {p}]
        /\ waiting' = waiting
    BY DEF LeaveFamily
  <1>4. /\ parent' \in [Proc -> Proc \cup {NULL}]
        /\ children' \in [Proc -> SUBSET Proc]
        /\ child_exit_status' \in [Proc -> Proc \cup {NULL}]
        /\ uncollected' \in [Proc -> SUBSET Proc]
    BY <1>2, <1>3, SchedulerAssumption DEF pcbOrphanChildren, Inv, ProcessTypeOK
  <1>5. /\ \A r \in Proc : pcb'[r] = IF r = p THEN m ELSE pcb[r]
        /\ \A r \in Proc : children'[r] = IF r = p THEN {} ELSE
                              IF r = par THEN children[r] \ {p} ELSE children[r]
        /\ \A r \in Proc : pcb[r] = "live" =>
              parent'[r] = IF r \in children[p] THEN init_process ELSE parent[r]
    <2>1. \A z \in Range(zombies[p]) : pcb[z] = "exited"
      BY <1>1 DEF Inv, ZombiesAllocated
    <2> QED
      BY <1>2, <1>3, <2>1 DEF pcbOrphanChildren, Inv, ProcessTypeOK, SchedTypeOK
  <1>6. /\ \A r \in Proc \ {init_process, idle_process} : pcb[r] = "live" =>
              /\ parent[r] \in Proc \ {idle_process} /\ parent[r] # r
              /\ pcb[parent[r]] = "live"
              /\ parent[r] # init_process => r \in children[parent[r]]
        /\ \A r \in Proc : \A c \in children[r] :
              /\ c \in Proc /\ pcb[c] = "live" /\ parent[c] = r
              /\ c \notin {init_process, idle_process}
        /\ pcb[init_process] = "live"
    BY DEF Inv, Family, Alive, Live, ProcessTypeOK
  <1>7. Family'
    <2>1. ASSUME NEW r \in Proc \ {init_process, idle_process}, pcb'[r] = "live"
          PROVE  /\ parent'[r] \in Proc \ {idle_process} /\ parent'[r] # r
                 /\ pcb'[parent'[r]] = "live"
                 /\ parent'[r] # init_process => r \in children'[parent'[r]]
      <3>1. r # p /\ pcb[r] = "live"
        BY <1>5, <2>1
      <3>2. CASE r \in children[p]
        BY <1>5, <1>6, <3>1, <3>2, SchedulerAssumption
      <3>3. CASE r \notin children[p]
        <4>1. /\ parent'[r] = parent[r]
              /\ parent[r] \in Proc \ {idle_process} /\ parent[r] # r
              /\ pcb[parent[r]] = "live"
              /\ parent[r] # init_process => r \in children[parent[r]]
          BY <1>5, <1>6, <3>1, <3>3
        <4>2. parent[r] # p
          BY <3>3, <4>1
        <4>3. pcb'[parent[r]] = "live"
          BY <1>5, <4>1, <4>2
        <4>4. r \in children[parent[r]] => r \in children'[parent[r]]
          BY <1>5, <3>1, <4>1, <4>2
        <4> QED
          BY <4>1, <4>3, <4>4
      <3> QED
        BY <3>2, <3>3
    <2>2. ASSUME NEW r \in Proc, NEW c \in children'[r]
          PROVE  /\ pcb'[c] = "live" /\ parent'[c] = r
                 /\ c \notin {init_process, idle_process}
      <3>1. r # p /\ c \in children[r] /\ (r = par => c # p)
        BY <1>2, <1>5, <2>2
      <3>2. /\ c \in Proc /\ pcb[c] = "live" /\ parent[c] = r
            /\ c \notin {init_process, idle_process}
        BY <1>6, <3>1
      <3>3. c # p /\ c \notin children[p]
        BY <1>6, <3>1, <3>2
      <3> QED
        BY <1>5, <3>2, <3>3
    <2> QED
      BY <2>1, <2>2 DEF Family, Live
  <1>8. WaiterHasChild'
    <2> SUFFICES ASSUME NEW w \in Proc, pcb'[w] = "live", InWait(w)'
                 PROVE  \E c \in Proc : pcb'[c] = "live" /\ parent'[c] = w
      BY DEF WaiterHasChild, Live
    <2>1. InWait(w) /\ w # par /\ w # p /\ pcb[w] = "live"
      BY <1>1, <1>5 DEF InWait
    <2>2. PICK c \in Proc : pcb[c] = "live" /\ parent[c] = w
      BY <2>1 DEF Inv, WaiterHasChild, Live
    <2>3. c # p /\ c \notin children[p]
      BY <1>6, <2>1, <2>2
    <2> QED
      BY <1>5, <2>2, <2>3
  <1> QED
    BY <1>1, <1>2, <1>3, <1>4, <1>7, <1>8

(* An exit that frees the PCB and wakes the parent preserves Inv.          *)
LEMMA ExitToWaitingStep ==
    ASSUME Inv, NEW p \in Proc, Syscall(p), p # init_process,
           LeaveFamily(p, parent[p]), ExitToWaiting(p, parent[p]),
           delay_ticks' = delay_ticks, kpc' = kpc, owed' = owed
    PROVE  Inv'
  <1> DEFINE par == parent[p]
             rq == Append(process_ready_queue, par)
             st == [state EXCEPT ![p] = "DEAD", ![par] = "READY"]
             mem == [pcb EXCEPT ![p] = "freed"]
  <1>1. /\ machine = "up" /\ current_process = p /\ p # idle_process /\ kpc[p] = "user"
        /\ zombies' = [zombies EXCEPT ![p] = <<>>]
        /\ staleWake' = (staleWake \/ ~InWait(par))
        /\ ScheduleNextProcess(NULL, rq, blocked_pcbs \ {par}, delayed_pcbs, dead_pcbs, st, mem)
    BY DEF Syscall, UserMode, ExitToWaiting
  <1>2. par \in Proc \ {p, idle_process} /\ Live(par) /\ Live(p)
    BY <1>1 DEF Inv, Family, Alive
  <1>3. /\ st \in [Proc -> States] /\ mem \in [Proc -> Memory]
        /\ \A r \in Proc : st[r] = IF r = p THEN "DEAD" ELSE IF r = par THEN "READY" ELSE state[r]
        /\ \A r \in Proc : mem[r] = IF r = p THEN "freed" ELSE pcb[r]
        /\ zombies' \in [Proc -> Seq(Proc)]
        /\ \A r \in Proc : zombies'[r] = IF r = p THEN <<>> ELSE zombies[r]
    BY <1>1, <1>2, EmptySeq DEF Inv, ProcessTypeOK, SchedTypeOK, States, Memory
  <1>4. /\ rq \in Seq(Proc)
        /\ Range(rq) = Range(process_ready_queue) \cup {par}
        /\ \A x : OnceIn(process_ready_queue, x) /\ (x = par => ~Ready(x)) => OnceIn(rq, x)
    BY <1>2, PushLemma DEF Inv, ProcessTypeOK, SchedTypeOK, Ready
  <1> HIDE DEF rq, st, mem
  <1>5. ScheduleFacts(NULL, rq, blocked_pcbs \ {par}, delayed_pcbs, dead_pcbs, st, mem)
    BY <1>1, <1>3, <1>4, ScheduleLemma
  <1>6. /\ current_process' \in Proc \cup {NULL} /\ process_ready_queue' \in Seq(Proc)
        /\ state' = st /\ pcb' = mem /\ machine' \in MachineStates
        /\ machine' = "up" => current_process' \in Proc /\ mem[current_process'] = "live"
    <2>1. /\ NULL \in Proc \cup {NULL} /\ blocked_pcbs \ {par} \in SUBSET Proc
          /\ delayed_pcbs \in SUBSET Proc /\ dead_pcbs \in SUBSET Proc
          /\ machine \in MachineStates
      BY DEF Inv, ProcessTypeOK, SchedTypeOK
    <2> QED
      BY <1>5, <2>1 DEF ScheduleFacts, MachineStates
  <1>7. /\ blocked_pcbs' = blocked_pcbs \ {par} /\ delayed_pcbs' = delayed_pcbs
        /\ dead_pcbs' = dead_pcbs
    BY <1>5 DEF ScheduleFacts, Park
  <1>8. /\ Family' /\ WaiterHasChild'
        /\ parent' \in [Proc -> Proc \cup {NULL}]
        /\ children' \in [Proc -> SUBSET Proc]
        /\ child_exit_status' \in [Proc -> Proc \cup {NULL}]
        /\ uncollected' \in [Proc -> SUBSET Proc]
        /\ waiting' = waiting
    <2>1. \A w \in Proc : InWait(w)' => InWait(w) /\ w # par
      BY <1>3, <1>6 DEF InWait
    <2>2. pcb' = [pcb EXCEPT ![p] = "freed"]
      BY <1>6 DEF mem
    <2> QED
      BY <2>1, <2>2, ExitFamily
  <1>9. ProcessTypeOK'
    <2>1. SchedTypeOK'
      BY <1>3, <1>6, <1>7 DEF Inv, ProcessTypeOK, SchedTypeOK
    <2>2. staleWake' \in BOOLEAN
      BY <1>1
    <2> QED
      BY <1>3, <1>8, <2>1, <2>2 DEF Inv, ProcessTypeOK
  <1>10. Alive'
    <2>1. mem[init_process] = "live" /\ mem[idle_process] = "live"
      BY <1>1, <1>3, SchedulerAssumption DEF Inv, Alive, Live
    <2>2. \A r \in Proc : mem[r] = "live" => st[r] # "DEAD"
      BY <1>1, <1>2, <1>3 DEF Inv, Alive, Live
    <2> QED
      BY <1>6, <2>1, <2>2 DEF Alive, Live
  <1>11. UnusedFresh'
    <2> SUFFICES ASSUME NEW r \in Proc, mem[r] = "unused"
                 PROVE  /\ zombies'[r] = <<>> /\ st[r] = "READY" /\ kpc[r] = "user"
                        /\ r # current_process' /\ r \notin Range(process_ready_queue')
                        /\ r \notin blocked_pcbs' \cup delayed_pcbs'
      BY <1>6 DEF UnusedFresh, Ready
    <2>1. r # p /\ r # par /\ pcb[r] = "unused"
      BY <1>2, <1>3 DEF Live
    <2>2. /\ zombies[r] = <<>> /\ state[r] = "READY" /\ kpc[r] = "user"
          /\ r \notin Range(process_ready_queue)
          /\ r \notin blocked_pcbs \cup delayed_pcbs
      BY <2>1 DEF Inv, UnusedFresh, Ready
    <2> QED
      BY <1>3, <1>4, <1>5, <1>7, <2>1, <2>2, SchedulerAssumption, ZenonT(60)
         DEF ScheduleFacts, Runnable
  <1>12. ZombiesAllocated' /\ WaitAnnounced'
    <2>1. ASSUME NEW r \in Proc, mem[r] = "live"
          PROVE  /\ r # p /\ pcb[r] = "live" /\ zombies'[r] = zombies[r]
                 /\ \A z \in Range(zombies[r]) : mem[z] = "exited" /\ z \in dead_pcbs'
      <3>1. r # p /\ pcb[r] = "live" /\ zombies'[r] = zombies[r]
        BY <1>3, <2>1
      <3>2. \A z \in Range(zombies[r]) : z \in Proc /\ pcb[z] = "exited" /\ z \in dead_pcbs
        BY <3>1 DEF Inv, ZombiesAllocated, Live, ProcessTypeOK, SchedTypeOK
      <3> QED
        BY <1>2, <1>3, <1>7, <3>1, <3>2 DEF Live
    <2>2. ASSUME NEW r \in Proc, mem[r] = "live", NEW q \in Proc \ {r}, mem[q] = "live"
          PROVE  Range(zombies'[r]) \cap Range(zombies'[q]) = {}
      BY <2>1, <2>2 DEF Inv, ZombiesAllocated, Live
    <2> QED
      BY <1>6, <1>8, <2>1, <2>2 DEF Inv, ZombiesAllocated, WaitAnnounced, Live
  <1>13. Accounted'
    <2>1. \A r \in Proc \ {idle_process} : mem[r] = "live" =>
             \/ r = NULL /\ st[r] \in {"READY", "BLOCKED", "DELAYED"}
             \/ r \in Range(rq) \/ r \in blocked_pcbs \ {par} \/ r \in delayed_pcbs
      BY <1>1, <1>3, <1>4 DEF Inv, Accounted, Live, Ready
    <2> QED
      BY <1>5, <2>1, ScheduleAccounted
  <1>14. IdleOnce'
    <2>1. /\ mem[idle_process] = "live" /\ st[idle_process] = "READY"
          /\ kpc'[idle_process] = "user"
          /\ idle_process \notin (blocked_pcbs \ {par}) \cup delayed_pcbs
          /\ OnceIn(rq, idle_process) /\ NULL # idle_process
      BY <1>1, <1>2, <1>3, <1>4, SchedulerAssumption DEF Inv, IdleOnce, Live, Ready
    <2> QED
      BY <1>5, <2>1, ScheduleIdle
  <1>15. Places'
    <2> SUFFICES ASSUME ~staleWake, InWait(par)
                 PROVE  Places'
      BY <1>1 DEF Places
    <2>1. PlacesBefore(NULL, rq, blocked_pcbs \ {par}, delayed_pcbs, st, mem)
      <3>1. ~Ready(par) /\ par \notin delayed_pcbs
        BY <1>2 DEF Inv, Places, InWait
      <3>2. ~Ready(p) /\ p \notin blocked_pcbs \cup delayed_pcbs
        BY <1>1 DEF Inv, Places
      <3>3. \A r \in Proc : OnceIn(rq, r)
        BY <1>4, <3>1 DEF Inv, Places
      <3>4. \A r \in Proc : r \in Range(rq) => mem[r] = "live" /\ st[r] = "READY"
        <4>1. \A r \in Proc : r \in Range(process_ready_queue)
                                  => r # p /\ pcb[r] = "live" /\ state[r] = "READY"
          BY <3>2 DEF Inv, Places, Live, Ready
        <4> QED
          BY <1>2, <1>3, <1>4, <4>1 DEF Live
      <3>5. \A r \in blocked_pcbs \ {par} : mem[r] = "live" /\ st[r] = "BLOCKED"
        BY <1>3, <3>2 DEF Inv, Places, Live, ProcessTypeOK, SchedTypeOK
      <3>6. \A r \in delayed_pcbs : mem[r] = "live" /\ st[r] = "DELAYED"
        BY <1>3, <3>1, <3>2 DEF Inv, Places, Live, ProcessTypeOK, SchedTypeOK
      <3>7. mem[idle_process] = "live" /\ st[idle_process] = "READY"
        BY <1>1, <1>2, <1>3, SchedulerAssumption DEF Inv, IdleOnce, Live
      <3> QED
        BY <3>3, <3>4, <3>5, <3>6, <3>7 DEF PlacesBefore
    <2>2. machine' = "up" /\ PlacesAfter
      BY <1>1, <1>5, <2>1, SchedulePlaces
    <2>3. \A r \in delayed_pcbs' : owed'[r] <= delay_ticks'[r]
      BY <1>7 DEF Inv, Places
    <2>4. \A r \in Proc : pcb'[r] = "live" /\ kpc'[r] = "delay" /\ r \notin delayed_pcbs'
                              => owed'[r] = 0
      BY <1>3, <1>6, <1>7 DEF Inv, Places, Live
    <2> QED
      BY <2>2, <2>3, <2>4, PlacesStep
  <1> QED
    BY <1>8, <1>9, <1>10, <1>11, <1>12, <1>13, <1>14, <1>15 DEF Inv

(* An exit that leaves a zombie preserves Inv.                             *)
LEMMA ExitToZombieStep ==
    ASSUME Inv, NEW p \in Proc, Syscall(p), p # init_process,
           ~waiting[parent[p]],
           LeaveFamily(p, parent[p]), ExitToZombie(p, parent[p]),
           delay_ticks' = delay_ticks, kpc' = kpc, owed' = owed
    PROVE  Inv'
  <1> DEFINE par == parent[p]
             st == [state EXCEPT ![p] = "DEAD"]
             mem == [pcb EXCEPT ![p] = "exited"]
  <1>1. /\ machine = "up" /\ current_process = p /\ p # idle_process /\ kpc[p] = "user"
        /\ zombies' = [zombies EXCEPT ![par] = <<p>> \o @, ![p] = <<>>]
        /\ staleWake' = staleWake
        /\ ScheduleNextProcess(NULL, process_ready_queue, blocked_pcbs, delayed_pcbs,
                               dead_pcbs \cup {p}, st, mem)
    BY DEF Syscall, UserMode, ExitToZombie
  <1>2. par \in Proc \ {p, idle_process} /\ Live(par) /\ Live(p)
    BY <1>1 DEF Inv, Family, Alive
  <1>3. /\ st \in [Proc -> States] /\ mem \in [Proc -> Memory]
        /\ \A r \in Proc : st[r] = IF r = p THEN "DEAD" ELSE state[r]
        /\ \A r \in Proc : mem[r] = IF r = p THEN "exited" ELSE pcb[r]
    BY DEF Inv, ProcessTypeOK, SchedTypeOK, States, Memory
  <1>4. /\ zombies' \in [Proc -> Seq(Proc)]
        /\ \A r \in Proc \ {p, par} : zombies'[r] = zombies[r]
        /\ Range(zombies'[p]) = {}
        /\ Range(zombies'[par]) = {p} \cup Range(zombies[par])
    <2>1. /\ <<p>> \in Seq(Proc) /\ zombies[par] \in Seq(Proc)
          /\ <<p>> \o zombies[par] \in Seq(Proc)
          /\ Range(<<p>> \o zombies[par]) = Range(<<p>>) \cup Range(zombies[par])
      <3>1. zombies[par] \in Seq(Proc)
        BY <1>2 DEF Inv, ProcessTypeOK
      <3>2. <<p>> \in Seq(Proc)
        OBVIOUS
      <3>3. ASSUME NEW a \in Seq(Proc), NEW b \in Seq(Proc)
            PROVE  a \o b \in Seq(Proc) /\ Range(a \o b) = Range(a) \cup Range(b)
        BY ConcatProperties, RangeConcatenation
      <3> QED
        BY <3>1, <3>2, <3>3, Zenon
    <2>2. Range(<<p>>) = {p} /\ Range(<<>>) = {}
      BY DEF Range
    <2>3. \A r \in Proc : zombies'[r] = IF r = p THEN <<>> ELSE
                             IF r = par THEN <<p>> \o zombies[par] ELSE zombies[r]
      BY <1>1, <1>2 DEF Inv, ProcessTypeOK
    <2>4. zombies' \in [Proc -> Seq(Proc)]
      BY <1>1, <2>1, EmptySeq DEF Inv, ProcessTypeOK
    <2> QED
      BY <1>2, <2>1, <2>2, <2>3, <2>4
  <1> HIDE DEF st, mem
  <1>5. ScheduleFacts(NULL, process_ready_queue, blocked_pcbs, delayed_pcbs,
                      dead_pcbs \cup {p}, st, mem)
    BY <1>1, <1>3, ScheduleLemma DEF Inv, ProcessTypeOK, SchedTypeOK
  <1>6. /\ current_process' \in Proc \cup {NULL} /\ process_ready_queue' \in Seq(Proc)
        /\ state' = st /\ pcb' = mem /\ machine' \in MachineStates
        /\ machine' = "up" => current_process' \in Proc /\ mem[current_process'] = "live"
    <2>1. /\ NULL \in Proc \cup {NULL} /\ blocked_pcbs \in SUBSET Proc
          /\ delayed_pcbs \in SUBSET Proc /\ dead_pcbs \cup {p} \in SUBSET Proc
          /\ machine \in MachineStates
      BY DEF Inv, ProcessTypeOK, SchedTypeOK
    <2> QED
      BY <1>5, <2>1 DEF ScheduleFacts, MachineStates
  <1>7. /\ blocked_pcbs' = blocked_pcbs /\ delayed_pcbs' = delayed_pcbs
        /\ dead_pcbs' = dead_pcbs \cup {p}
    BY <1>5 DEF ScheduleFacts, Park
  <1>8. /\ Family' /\ WaiterHasChild'
        /\ parent' \in [Proc -> Proc \cup {NULL}]
        /\ children' \in [Proc -> SUBSET Proc]
        /\ child_exit_status' \in [Proc -> Proc \cup {NULL}]
        /\ uncollected' \in [Proc -> SUBSET Proc]
        /\ waiting' = waiting
    <2>1. \A w \in Proc : InWait(w)' => InWait(w) /\ w # par
      BY <1>3, <1>6 DEF InWait, Inv, WaitAnnounced
    <2>2. pcb' = [pcb EXCEPT ![p] = "exited"]
      BY <1>6 DEF mem
    <2> QED
      BY <2>1, <2>2, ExitFamily
  <1>9. ProcessTypeOK'
    <2>1. SchedTypeOK'
      BY <1>3, <1>6, <1>7 DEF Inv, ProcessTypeOK, SchedTypeOK
    <2> QED
      BY <1>1, <1>4, <1>8, <2>1 DEF Inv, ProcessTypeOK
  <1>10. Alive'
    BY <1>1, <1>2, <1>3, <1>6, SchedulerAssumption DEF Inv, Alive, Live
  <1>11. UnusedFresh'
    <2> SUFFICES ASSUME NEW r \in Proc, mem[r] = "unused"
                 PROVE  /\ zombies'[r] = <<>> /\ st[r] = "READY" /\ kpc[r] = "user"
                        /\ r # current_process' /\ r \notin Range(process_ready_queue')
                        /\ r \notin blocked_pcbs' \cup delayed_pcbs'
      BY <1>6 DEF UnusedFresh, Ready
    <2>1. r # p /\ r # par /\ pcb[r] = "unused"
      BY <1>2, <1>3 DEF Live
    <2>2. /\ zombies[r] = <<>> /\ state[r] = "READY" /\ kpc[r] = "user"
          /\ r \notin Range(process_ready_queue)
          /\ r \notin blocked_pcbs \cup delayed_pcbs
      BY <2>1 DEF Inv, UnusedFresh, Ready
    <2> QED
      BY <1>3, <1>4, <1>5, <1>7, <2>1, <2>2, SchedulerAssumption DEF ScheduleFacts, Runnable
  <1>12. ZombiesAllocated' /\ WaitAnnounced'
    <2>1. ASSUME NEW r \in Proc, mem[r] = "live"
          PROVE  /\ r # p /\ pcb[r] = "live"
                 /\ \A z \in Range(zombies'[r]) : z \in Proc /\ mem[z] = "exited" /\ z \in dead_pcbs'
                 /\ \A z \in Range(zombies'[r]) : z \in Range(zombies[r]) \/ (r = par /\ z = p)
      <3>1. r # p /\ pcb[r] = "live"
        BY <1>3, <2>1
      <3>2. \A z \in Range(zombies[r]) : z \in Proc /\ pcb[z] = "exited" /\ z \in dead_pcbs
        BY <3>1 DEF Inv, ZombiesAllocated, Live, ProcessTypeOK, SchedTypeOK
      <3>3. \A z \in Range(zombies'[r]) : z \in Range(zombies[r]) \/ (r = par /\ z = p)
        BY <1>4, <3>1
      <3> QED
        BY <1>3, <1>7, <3>1, <3>2, <3>3
    <2>2. ASSUME NEW r \in Proc, mem[r] = "live", NEW q \in Proc \ {r}, mem[q] = "live"
          PROVE  Range(zombies'[r]) \cap Range(zombies'[q]) = {}
      <3>1. /\ Range(zombies[r]) \cap Range(zombies[q]) = {}
            /\ p \notin Range(zombies[r]) /\ p \notin Range(zombies[q])
        BY <1>2, <2>1, <2>2 DEF Inv, ZombiesAllocated, Live
      <3> QED
        BY <2>1, <2>2, <3>1
    <2> QED
      BY <1>6, <1>8, <2>1, <2>2 DEF Inv, ZombiesAllocated, WaitAnnounced, Live
  <1>13. Accounted'
    <2>1. \A r \in Proc \ {idle_process} : mem[r] = "live" =>
             \/ r = NULL /\ st[r] \in {"READY", "BLOCKED", "DELAYED"}
             \/ r \in Range(process_ready_queue) \/ r \in blocked_pcbs \/ r \in delayed_pcbs
      BY <1>1, <1>3 DEF Inv, Accounted, Live, Ready
    <2> QED
      BY <1>5, <2>1, ScheduleAccounted
  <1>14. IdleOnce'
    <2>1. /\ mem[idle_process] = "live" /\ st[idle_process] = "READY"
          /\ kpc'[idle_process] = "user"
          /\ idle_process \notin blocked_pcbs \cup delayed_pcbs
          /\ OnceIn(process_ready_queue, idle_process) /\ NULL # idle_process
      BY <1>1, <1>2, <1>3, SchedulerAssumption DEF Inv, IdleOnce, Live, Ready
    <2> QED
      BY <1>5, <2>1, ScheduleIdle
  <1>15. Places'
    <2> SUFFICES ASSUME ~staleWake
                 PROVE  Places'
      BY <1>1 DEF Places
    <2>1. PlacesBefore(NULL, process_ready_queue, blocked_pcbs, delayed_pcbs, st, mem)
      <3>1. ~Ready(p) /\ p \notin blocked_pcbs \cup delayed_pcbs
        BY <1>1 DEF Inv, Places
      <3>2. \A r \in Proc : OnceIn(process_ready_queue, r)
        BY DEF Inv, Places
      <3>3. \A r \in Proc : r \in Range(process_ready_queue)
                                => mem[r] = "live" /\ st[r] = "READY"
        BY <1>3, <3>1 DEF Inv, Places, Live, Ready
      <3>4. \A r \in blocked_pcbs : mem[r] = "live" /\ st[r] = "BLOCKED"
        BY <1>3, <3>1 DEF Inv, Places, Live, ProcessTypeOK, SchedTypeOK
      <3>5. \A r \in delayed_pcbs : mem[r] = "live" /\ st[r] = "DELAYED"
        BY <1>3, <3>1 DEF Inv, Places, Live, ProcessTypeOK, SchedTypeOK
      <3>6. mem[idle_process] = "live" /\ st[idle_process] = "READY"
        BY <1>1, <1>2, <1>3, SchedulerAssumption DEF Inv, IdleOnce, Live
      <3> QED
        BY <3>2, <3>3, <3>4, <3>5, <3>6 DEF PlacesBefore
    <2>2. machine' = "up" /\ PlacesAfter
      BY <1>1, <1>5, <2>1, SchedulePlaces
    <2>3. \A r \in delayed_pcbs' : owed'[r] <= delay_ticks'[r]
      BY <1>7 DEF Inv, Places
    <2>4. \A r \in Proc : pcb'[r] = "live" /\ kpc'[r] = "delay" /\ r \notin delayed_pcbs'
                              => owed'[r] = 0
      BY <1>3, <1>6, <1>7 DEF Inv, Places, Live
    <2> QED
      BY <2>2, <2>3, <2>4, PlacesStep
  <1> QED
    BY <1>8, <1>9, <1>10, <1>11, <1>12, <1>13, <1>14, <1>15 DEF Inv
-----------------------------------------------------------------------------
(* A Wait that collects zombies preserves Inv: it frees only zombies.      *)
LEMMA WaitCollectStep ==
    ASSUME Inv, NEW p \in Proc, WaitCollect(p)
    PROVE  Inv'
  <1> DEFINE zs == Range(zombies[p])
  <1>1. /\ machine = "up" /\ current_process = p /\ p # idle_process /\ kpc[p] = "user"
        /\ pcb' = [r \in Proc |-> IF r \in zs THEN "freed" ELSE pcb[r]]
        /\ dead_pcbs' = dead_pcbs \ zs
        /\ machine' \in {"up", "corrupt"}
        /\ zombies' = [zombies EXCEPT ![p] = <<>>]
        /\ uncollected' = [uncollected EXCEPT ![p] = @ \ {Head(zombies[p])}]
        /\ UNCHANGED <<current_process, process_ready_queue, blocked_pcbs, delayed_pcbs,
                       state, delay_ticks, kpc, owed, parent, children, waiting,
                       child_exit_status, staleWake>>
    BY DEF WaitCollect, FreeZombies, Syscall, UserMode
  <1>2. Live(p)
    BY <1>1 DEF Inv, Alive
  <1>3. \A z \in zs : pcb[z] = "exited"
    BY <1>2 DEF Inv, ZombiesAllocated
  <1>4. /\ \A r \in Proc : pcb[r] \in {"live", "unused"} => pcb'[r] = pcb[r]
        /\ \A r \in Proc : pcb'[r] \in {"live", "unused"} => pcb[r] = pcb'[r]
    BY <1>1, <1>3 DEF Inv, ProcessTypeOK, SchedTypeOK
  <1>5. /\ zombies' \in [Proc -> Seq(Proc)]
        /\ \A r \in Proc : zombies'[r] = IF r = p THEN <<>> ELSE zombies[r]
    BY <1>1, EmptySeq DEF Inv, ProcessTypeOK
  <1>6. ProcessTypeOK'
    <2>1. SchedTypeOK'
      BY <1>1 DEF Inv, ProcessTypeOK, SchedTypeOK, Memory, MachineStates
    <2>2. uncollected' \in [Proc -> SUBSET Proc]
      BY <1>1 DEF Inv, ProcessTypeOK
    <2> QED
      BY <1>1, <1>5, <2>1, <2>2 DEF Inv, ProcessTypeOK
  <1>7. Alive' /\ Accounted' /\ IdleOnce' /\ WaitAnnounced'
    BY <1>1, <1>4, SchedulerAssumption DEF Inv, Alive, Accounted, IdleOnce, WaitAnnounced,
       Live, Ready
  <1>8. UnusedFresh'
    BY <1>1, <1>4, <1>5 DEF Inv, UnusedFresh, Ready
  <1>9. Family'
    BY <1>1, <1>4 DEF Inv, Family, Live, ProcessTypeOK
  <1>10. WaiterHasChild'
    BY <1>1, <1>4 DEF Inv, WaiterHasChild, InWait, Live
  <1>11. ZombiesAllocated'
    <2>1. ASSUME NEW r \in Proc, pcb'[r] = "live", r # p
          PROVE  /\ zombies'[r] = zombies[r] /\ pcb[r] = "live" /\ zs \cap Range(zombies[r]) = {}
                 /\ \A z \in Range(zombies[r]) : z \in Proc /\ pcb'[z] = "exited" /\ z \in dead_pcbs'
      <3>1. zombies'[r] = zombies[r] /\ pcb[r] = "live"
        BY <1>4, <1>5, <2>1
      <3>2. zs \cap Range(zombies[r]) = {}
        BY <1>2, <2>1, <3>1 DEF Inv, ZombiesAllocated, Live
      <3>3. \A z \in Range(zombies[r]) : z \in Proc /\ pcb[z] = "exited" /\ z \in dead_pcbs
        BY <3>1 DEF Inv, ZombiesAllocated, Live, ProcessTypeOK, SchedTypeOK
      <3> QED
        BY <1>1, <3>1, <3>2, <3>3
    <2>2. Range(zombies'[p]) = {}
      BY <1>5 DEF Range
    <2>3. ASSUME NEW r \in Proc, pcb'[r] = "live", NEW q \in Proc \ {r}, pcb'[q] = "live"
          PROVE  Range(zombies'[r]) \cap Range(zombies'[q]) = {}
      BY <2>1, <2>2, <2>3 DEF Inv, ZombiesAllocated, Live
    <2> QED
      BY <2>1, <2>2, <2>3 DEF ZombiesAllocated, Live
  <1>12. Places'
    BY <1>1, <1>4 DEF Inv, Places, Live, Ready, ProcessTypeOK, SchedTypeOK
  <1> QED
    BY <1>6, <1>7, <1>8, <1>9, <1>10, <1>11, <1>12 DEF Inv

(* What blocking in Wait and blocking again have in common.                *)
LEMMA WaitParkStep ==
    ASSUME Inv, NEW p \in Proc, machine = "up", current_process = p, p # idle_process,
           kpc' = [kpc EXCEPT ![p] = "wait"],
           waiting' = [waiting EXCEPT ![p] = TRUE],
           \E c \in Proc : Live(c) /\ parent[c] = p,
           ScheduleNextProcess(p, process_ready_queue, blocked_pcbs, delayed_pcbs,
                               dead_pcbs, [state EXCEPT ![p] = "BLOCKED"], pcb),
           UNCHANGED <<delay_ticks, owed, parent, children, zombies,
                       child_exit_status, uncollected, staleWake>>
    PROVE  Inv'
  <1> DEFINE st == [state EXCEPT ![p] = "BLOCKED"]
  <1>1. /\ delay_ticks' = delay_ticks /\ owed' = owed /\ parent' = parent
        /\ children' = children /\ zombies' = zombies
        /\ child_exit_status' = child_exit_status
        /\ uncollected' = uncollected /\ staleWake' = staleWake
    OBVIOUS
  <1>2. /\ current_process' \in Proc \cup {NULL} /\ process_ready_queue' \in Seq(Proc)
        /\ blocked_pcbs' = Park(p, blocked_pcbs, st, "BLOCKED")
        /\ delayed_pcbs' = Park(p, delayed_pcbs, st, "DELAYED")
        /\ dead_pcbs' = dead_pcbs
        /\ state' = st /\ state' \in [Proc -> States]
        /\ pcb' = pcb /\ machine' \in MachineStates
        /\ Alive' /\ UnusedFresh' /\ Accounted' /\ IdleOnce'
        /\ ~staleWake => machine' = "up" /\ PlacesAfter
    BY <1>1, ParkStep DEF KernelPoints
  <1>3. blocked_pcbs' = blocked_pcbs \cup {p} /\ delayed_pcbs' = delayed_pcbs
    BY <1>2, SchedulerAssumption DEF Park, Inv, ProcessTypeOK, SchedTypeOK
  <1>4. /\ kpc' \in [Proc -> KernelPoints] /\ waiting' \in [Proc -> BOOLEAN]
        /\ \A r \in Proc : kpc'[r] = IF r = p THEN "wait" ELSE kpc[r]
        /\ \A r \in Proc : waiting'[r] = IF r = p THEN TRUE ELSE waiting[r]
        /\ \A r \in Proc : state'[r] = IF r = p THEN "BLOCKED" ELSE state[r]
    BY <1>2 DEF Inv, ProcessTypeOK, SchedTypeOK, KernelPoints
  <1>5. ProcessTypeOK'
    <2>1. SchedTypeOK'
      BY <1>1, <1>2, <1>3, <1>4, ZenonT(60) DEF Inv, ProcessTypeOK, SchedTypeOK
    <2> QED
      BY <1>1, <1>4, <2>1 DEF Inv, ProcessTypeOK
  <1>6. ZombiesAllocated' /\ Family'
    BY <1>1, <1>2 DEF Inv, ZombiesAllocated, Family, Live
  <1>7. WaitAnnounced'
    BY <1>4 DEF Inv, WaitAnnounced
  <1>8. WaiterHasChild'
    <2>1. \A r \in Proc \ {p} : InWait(r)' => InWait(r)
      BY <1>4 DEF InWait
    <2> QED
      BY <1>1, <1>2, <2>1 DEF Inv, WaiterHasChild, Live
  <1>9. Places'
    <2> SUFFICES ASSUME ~staleWake
                 PROVE  Places'
      BY <1>1 DEF Places
    <2>1. \A r \in delayed_pcbs' : owed'[r] <= delay_ticks'[r]
      BY <1>1, <1>3 DEF Inv, Places
    <2>2. \A r \in Proc : pcb'[r] = "live" /\ kpc'[r] = "delay" /\ r \notin delayed_pcbs'
                              => owed'[r] = 0
      BY <1>1, <1>2, <1>3, <1>4 DEF Inv, Places, Live
    <2> QED
      BY <1>2, <2>1, <2>2, PlacesStep
  <1> QED
    BY <1>2, <1>5, <1>6, <1>7, <1>8, <1>9 DEF Inv

LEMMA WaitBlockStep ==
    ASSUME Inv, NEW p \in Proc, WaitBlock(p)
    PROVE  Inv'
  <1>1. \E c \in Proc : Live(c) /\ parent[c] = p
    BY DEF WaitBlock, Inv, Family, ProcessTypeOK
  <1> QED
    BY <1>1, WaitParkStep DEF WaitBlock, Syscall, UserMode

LEMMA WaitAgainStep ==
    ASSUME Inv, NEW p \in Proc, WaitAgain(p)
    PROVE  Inv'
  <1>1. /\ machine = "up" /\ current_process = p /\ kpc[p] = "wait"
        /\ waiting[p] /\ state[p] = "BLOCKED" /\ kpc' = kpc /\ waiting' = waiting
        /\ ScheduleNextProcess(p, process_ready_queue, blocked_pcbs, delayed_pcbs,
                               dead_pcbs, state, pcb)
        /\ UNCHANGED <<delay_ticks, owed, parent, children, zombies,
                       child_exit_status, uncollected, staleWake>>
    BY DEF WaitAgain, Resume, familyVars
  <1>2. p # idle_process /\ Live(p)
    BY <1>1 DEF Inv, IdleOnce, Alive
  <1>3. \E c \in Proc : Live(c) /\ parent[c] = p
    BY <1>1, <1>2 DEF Inv, WaiterHasChild, InWait
  <1>4. kpc' = [kpc EXCEPT ![p] = "wait"] /\ [state EXCEPT ![p] = "BLOCKED"] = state
    BY <1>1 DEF Inv, ProcessTypeOK, SchedTypeOK
  <1>5. waiting' = [waiting EXCEPT ![p] = TRUE]
    BY <1>1 DEF Inv, ProcessTypeOK
  <1> QED
    BY <1>1, <1>2, <1>3, <1>4, <1>5, WaitParkStep

(* Returning from Wait preserves Inv.                                      *)
LEMMA WaitReturnStep ==
    ASSUME Inv, NEW p \in Proc, WaitReturn(p)
    PROVE  Inv'
  <1>1. /\ machine = "up" /\ current_process = p /\ kpc[p] = "wait"
        /\ kpc' = [kpc EXCEPT ![p] = "user"]
        /\ uncollected' = [uncollected EXCEPT ![p] = @ \ {child_exit_status[p]}]
        /\ UNCHANGED <<current_process, process_ready_queue, blocked_pcbs, delayed_pcbs,
                       dead_pcbs, state, delay_ticks, pcb, machine, owed, parent, children,
                       zombies, waiting, child_exit_status, staleWake>>
    BY DEF WaitReturn, Resume, familyVars
  <1>2. /\ kpc' \in [Proc -> KernelPoints] /\ uncollected' \in [Proc -> SUBSET Proc]
        /\ \A r \in Proc : kpc'[r] = IF r = p THEN "user" ELSE kpc[r]
    BY <1>1 DEF Inv, ProcessTypeOK, SchedTypeOK, KernelPoints
  <1>3. ProcessTypeOK'
    BY <1>1, <1>2 DEF Inv, ProcessTypeOK, SchedTypeOK
  <1>4. Alive' /\ UnusedFresh' /\ ZombiesAllocated' /\ Family' /\ Accounted' /\ IdleOnce'
    <2>1. Alive' /\ ZombiesAllocated' /\ Family' /\ Accounted'
      BY <1>1 DEF Inv, Alive, ZombiesAllocated, Family, Accounted, Live, Ready
    <2>2. UnusedFresh'
      BY <1>1, <1>2 DEF Inv, UnusedFresh, Ready
    <2>3. IdleOnce'
      BY <1>1, <1>2, SchedulerAssumption DEF Inv, IdleOnce, Live, Ready
    <2> QED
      BY <2>1, <2>2, <2>3
  <1>5. WaitAnnounced' /\ WaiterHasChild'
    BY <1>1, <1>2 DEF Inv, WaitAnnounced, WaiterHasChild, InWait, Live
  <1>6. Places'
    BY <1>1, <1>2 DEF Inv, Places, Live, Ready
  <1> QED
    BY <1>3, <1>4, <1>5, <1>6 DEF Inv
-----------------------------------------------------------------------------
(* KernelStart establishes Inv.                                            *)
LEMMA InitInv == ProcessInit => Inv
  <1> SUFFICES ASSUME ProcessInit
               PROVE  Inv
    OBVIOUS
  <1>1. Range(<<>>) = {} /\ <<>> \in Seq(Proc) /\ \A x : OnceIn(<<>>, x)
    BY EmptySeq DEF OnceIn, Range
  <1>2. ProcessTypeOK
    <2>1. SchedTypeOK
      BY <1>1, SchedulerAssumption DEF ProcessInit, SchedTypeOK, States, Memory, KernelPoints,
         MachineStates
    <2> QED
      BY <1>1, <2>1 DEF ProcessInit, ProcessTypeOK
  <1>3. \A p \in Proc : ~Ready(p)
    BY <1>1 DEF ProcessInit, Ready
  <1>4. Alive /\ UnusedFresh
    BY <1>3, SchedulerAssumption DEF ProcessInit, Alive, UnusedFresh, Live
  <1>5. ZombiesAllocated /\ Family
    BY <1>1 DEF ProcessInit, ZombiesAllocated, Family, Live
  <1>6. Accounted /\ IdleOnce
    BY <1>1, <1>3, SchedulerAssumption DEF ProcessInit, Accounted, IdleOnce, Live
  <1>7. WaitAnnounced /\ WaiterHasChild
    BY DEF ProcessInit, WaitAnnounced, WaiterHasChild, InWait
  <1>8. Places
    BY <1>1, <1>3, SchedulerAssumption DEF ProcessInit, Places
  <1> QED
    BY <1>2, <1>4, <1>5, <1>6, <1>7, <1>8 DEF Inv

(* A step that changes nothing preserves Inv.                              *)
LEMMA StutterStep ==
    ASSUME Inv, UNCHANGED procVars
    PROVE  Inv'
  <1> USE DEF procVars, schedVars, familyVars
  <1>1. ProcessTypeOK' /\ Alive' /\ UnusedFresh' /\ ZombiesAllocated' /\ Family'
    BY DEF Inv, ProcessTypeOK, SchedTypeOK, Alive, UnusedFresh, ZombiesAllocated, Family,
       Live, Ready
  <1>2. Accounted' /\ IdleOnce' /\ WaitAnnounced' /\ WaiterHasChild' /\ Places'
    BY DEF Inv, Accounted, IdleOnce, WaitAnnounced, WaiterHasChild, Places, InWait, Live, Ready
  <1> QED
    BY <1>1, <1>2 DEF Inv

(* Every exit preserves Inv.                                               *)
LEMMA ExitStep ==
    ASSUME Inv, NEW p \in Proc, ExitHandler(p)
    PROVE  Inv'
  <1>1. CASE p = init_process
    BY <1>1, HaltStep DEF ExitHandler
  <1>2. CASE p # init_process /\ waiting[parent[p]]
    BY <1>2, ExitToWaitingStep DEF ExitHandler
  <1>3. CASE p # init_process /\ ~waiting[parent[p]]
    BY <1>3, ExitToZombieStep DEF ExitHandler
  <1> QED
    BY <1>1, <1>2, <1>3

LEMMA SchedulerStepInv ==
    ASSUME Inv, SchedulerStep
    PROVE  Inv'
  <1>1. UNCHANGED <<familyVars, uncollected, staleWake>>
    BY DEF SchedulerStep
  <1>2. CASE TrapClockHandler
    BY <1>1, <1>2, ClockStep
  <1>3. ASSUME NEW p \in Proc, NEW n \in Ticks, DelayHandler(p, n)
        PROVE  Inv'
    <2>1. n \in Int
      BY SchedulerAssumption
    <2>2. CASE n <= 0
      <3>1. UNCHANGED schedVars
        BY <1>3, <2>2 DEF DelayHandler
      <3> QED
        BY <1>1, <3>1, StutterStep DEF procVars
    <2>3. CASE n > 0
      BY <1>1, <1>3, <2>3, DelayStep
    <2> QED
      BY <2>1, <2>2, <2>3
  <1>4. ASSUME NEW p \in Proc, DelayReturn(p)
        PROVE  Inv'
    BY <1>1, <1>4, DelayReturnStep
  <1> QED
    BY <1>2, <1>3, <1>4 DEF SchedulerStep

LEMMA FamilyStepInv ==
    ASSUME Inv, NEW p \in Proc, FamilyStep(p)
    PROVE  Inv'
  <1>1. ASSUME NEW c \in Proc, ForkHandler(p, c)
        PROVE  Inv'
    BY <1>1, ForkStep
  <1>2. CASE ExitHandler(p) \/ TrapIllegalHandler(p) \/ TrapMathHandler(p)
    BY <1>2, ExitStep DEF TrapIllegalHandler, TrapMathHandler
  <1>3. CASE ForkError(p) \/ WaitError(p)
    BY <1>3, StutterStep DEF ForkError, WaitError
  <1>4. CASE TrapMemoryHandler(p) \/ ExecHandler(p)
    BY <1>4, ExitStep, StutterStep DEF TrapMemoryHandler, ExecHandler
  <1>5. CASE WaitCollect(p)
    BY <1>5, WaitCollectStep
  <1>6. CASE WaitBlock(p)
    BY <1>6, WaitBlockStep
  <1>7. CASE WaitResume(p)
    BY <1>7, WaitAgainStep, WaitReturnStep DEF WaitResume
  <1> QED
    BY <1>1, <1>2, <1>3, <1>4, <1>5, <1>6, <1>7 DEF FamilyStep

LEMMA NextInv == Inv /\ [ProcessNext]_procVars => Inv'
  <1> SUFFICES ASSUME Inv, [ProcessNext]_procVars
               PROVE  Inv'
    OBVIOUS
  <1>1. CASE SchedulerStep
    BY <1>1, SchedulerStepInv
  <1>2. ASSUME NEW p \in Proc, FamilyStep(p)
        PROVE  Inv'
    BY <1>2, FamilyStepInv
  <1>3. CASE UNCHANGED procVars \/ Stopped
    BY <1>3, StutterStep DEF Stopped
  <1> QED
    BY <1>1, <1>2, <1>3 DEF ProcessNext

-----------------------------------------------------------------------------
(* Inv holds in every state that the kernel reaches, whatever the user     *)
(* programs call.                                                          *)
THEOREM InvHolds == ProcessSpec => []Inv
  BY InitInv, NextInv, PTL DEF ProcessSpec

(* The state of the kernel is well-typed in every reachable state: in      *)
(* particular the queue and the sets hold PCBs only, never a null pointer. *)
THEOREM TypeCorrect == ProcessSpec => []ProcessTypeOK
  <1>1. Inv => ProcessTypeOK
    BY DEF Inv
  <1> QED
    BY <1>1, InvHolds, PTL

(* No sequence of system calls and traps makes the kernel lose a process.  *)
THEOREM NoProcessLost == ProcessSpec => []Accounted
  <1>1. Inv => Accounted
    BY DEF Inv
  <1> QED
    BY <1>1, InvHolds, PTL

(* The idle process is never scheduled twice, although ScheduleNextProcess *)
(* runs it without popping it from the ready queue.                        *)
THEOREM IdleScheduledOnce == ProcessSpec => []IdleOnce
  <1>1. Inv => IdleOnce
    BY DEF Inv
  <1> QED
    BY <1>1, InvHolds, PTL

(* ExitHandler never follows the parent pointer to a PCB that is gone.     *)
THEOREM ParentsAlive == ProcessSpec => []ParentAlive
  <1>1. Inv => ParentAlive
    BY DEF Inv, Family, ParentAlive
  <1> QED
    BY <1>1, InvHolds, PTL

(* Nobody blocks in Wait without a child whose exit will wake it up.       *)
THEOREM WaitersHaveChildren == ProcessSpec => []WaiterHasChild
  <1>1. Inv => WaiterHasChild
    BY DEF Inv
  <1> QED
    BY <1>1, InvHolds, PTL

(* WaitHandler never reads a zombie that was freed before.                 *)
THEOREM ZombiesAreAllocated == ProcessSpec => []ZombiesAllocated
  <1>1. Inv => ZombiesAllocated
    BY DEF Inv
  <1> QED
    BY <1>1, InvHolds, PTL

(* Until an exit finds a stale waiting flag, every process is in one place *)
(* only: the three guarantees that the flag breaks hold without it.        *)
THEOREM PlacesUnlessStale == ProcessSpec => []OnePlaceUnlessStale
  <1>1. Inv => OnePlaceUnlessStale
    BY SchedulerAssumption DEF Inv, Places, OnePlaceUnlessStale, OnePlace, ProcessTypeOK,
       SchedTypeOK
  <1> QED
    BY <1>1, InvHolds, PTL

(* Until an exit finds a stale waiting flag, Delay sleeps long enough.     *)
THEOREM SleepsUnlessStale == ProcessSpec => []DelayUnlessStale
  <1>1. Inv => DelayUnlessStale
    BY DEF Inv, Places, Alive, DelayUnlessStale, DelayAtLeast, Resume
  <1> QED
    BY <1>1, InvHolds, PTL

(* Until an exit finds a stale waiting flag, ScheduleNextProcess never     *)
(* switches to a PCB that lost its kernel context.                         *)
THEOREM SwitchesUnlessStale == ProcessSpec => []NoBadSwitchUnlessStale
  <1>1. Inv => NoBadSwitchUnlessStale
    BY DEF Inv, Places, NoBadSwitchUnlessStale
  <1> QED
    BY <1>1, InvHolds, PTL

-----------------------------------------------------------------------------
(* How many processes there are                                            *)

LiveSet == {p \in Proc : Live(p)}

LEMMA UnionBound ==
    ASSUME NEW S, IsFiniteSet(S), NEW T, IsFiniteSet(T)
    PROVE  /\ IsFiniteSet(S \cup T) /\ Cardinality(S \cup T) \in Nat
           /\ Cardinality(S \cup T) <= Cardinality(S) + Cardinality(T)
  <1>1. IsFiniteSet(S \cap T)
    BY FS_Subset
  <1>2. Cardinality(S) \in Nat /\ Cardinality(T) \in Nat /\ Cardinality(S \cap T) \in Nat
    BY <1>1, FS_CardinalityType
  <1>3. /\ IsFiniteSet(S \cup T)
        /\ Cardinality(S \cup T) = Cardinality(S) + Cardinality(T) - Cardinality(S \cap T)
    BY FS_Union
  <1>4. Cardinality(S \cup T) \in Nat
    BY <1>3, FS_CardinalityType
  <1> QED
    BY <1>2, <1>3, <1>4

(* ForkHandler never assumes fewer processes than there are: every process *)
(* but idle is current, queued or in one of the two sets, and a process    *)
(* that is queued twice only makes the count larger.                       *)
LEMMA CountEnough ==
    ASSUME Inv, NEW p \in Proc, p = current_process
    PROVE  Cardinality(LiveSet) <= ProcessCount(p)
  <1> DEFINE rq == process_ready_queue
             R == Range(rq)
             B == blocked_pcbs
             D == delayed_pcbs
             E == {p, idle_process}
  <1>1. rq \in Seq(Proc) /\ B \in SUBSET Proc /\ D \in SUBSET Proc
    BY DEF Inv, ProcessTypeOK, SchedTypeOK
  <1>2. LiveSet \subseteq ((D \cup B) \cup R) \cup E
    BY DEF LiveSet, Inv, Accounted, Ready
  <1>3. IsFiniteSet(B) /\ IsFiniteSet(D) /\ Cardinality(B) \in Nat /\ Cardinality(D) \in Nat
    BY <1>1, SchedulerAssumption, FS_Subset, FS_CardinalityType
  <1>4. IsFiniteSet(R) /\ Cardinality(R) \in Nat /\ Cardinality(R) <= Len(rq) /\ Len(rq) \in Nat
    <2>1. DOMAIN rq = 1 .. Len(rq) /\ Len(rq) \in Nat
      BY <1>1
    <2>2. rq \in Surjection(1 .. Len(rq), R)
      BY <1>1, <2>1 DEF Surjection, Range
    <2> DEFINE n == Len(rq)
    <2>3. n \in Nat /\ rq \in Surjection(1 .. n, R)
      BY <2>1, <2>2
    <2> HIDE DEF n
    <2>4. IsFiniteSet(1 .. n) /\ Cardinality(1 .. n) = n
      <3>1. Cardinality(1 .. n) = IF 1 > n THEN 0 ELSE n - 1 + 1
        BY <2>3, FS_Interval
      <3> QED
        BY <2>3, <3>1, FS_Interval
    <2>5. IsFiniteSet(R) /\ Cardinality(R) <= n
      BY <2>3, <2>4, FS_Surjection
    <2> QED
      BY <2>1, <2>5, FS_CardinalityType DEF n
  <1>5. IsFiniteSet(E) /\ Cardinality(E) <= 2 /\ Cardinality(E) \in Nat
    <2>1. IsFiniteSet({p}) /\ Cardinality({p}) = 1
      BY FS_Singleton
    <2>2. E = {p} \cup {idle_process}
      OBVIOUS
    <2> QED
      BY <2>1, <2>2, FS_AddElement
  <1> HIDE DEF R, B, D, E, rq
  <1>6. /\ IsFiniteSet(D \cup B) /\ Cardinality(D \cup B) \in Nat
        /\ Cardinality(D \cup B) <= Cardinality(D) + Cardinality(B)
    BY <1>3, UnionBound
  <1> DEFINE X == D \cup B
             Y == X \cup R
  <1>7. /\ IsFiniteSet(X) /\ Cardinality(X) \in Nat
        /\ Cardinality(X) <= Cardinality(D) + Cardinality(B)
    BY <1>6
  <1> HIDE DEF X
  <1>8. /\ IsFiniteSet(Y) /\ Cardinality(Y) \in Nat
        /\ Cardinality(Y) <= Cardinality(X) + Cardinality(R)
    BY <1>4, <1>7, UnionBound
  <1>9. LiveSet \subseteq Y \cup E
    BY <1>2 DEF X
  <1> HIDE DEF Y
  <1>10. /\ IsFiniteSet(Y \cup E) /\ Cardinality(Y \cup E) \in Nat
         /\ Cardinality(Y \cup E) <= Cardinality(Y) + Cardinality(E)
    BY <1>5, <1>8, UnionBound
  <1>11. IsFiniteSet(LiveSet) /\ Cardinality(LiveSet) <= Cardinality(Y \cup E)
    BY <1>9, <1>10, FS_Subset
  <1>12. Cardinality(LiveSet) \in Nat
    BY <1>11, FS_CardinalityType
  <1>13. Cardinality(LiveSet) <= Cardinality(D) + Cardinality(B) + Len(rq) + 2
    BY <1>3, <1>4, <1>5, <1>7, <1>8, <1>10, <1>11, <1>12
  <1> QED
    BY <1>3, <1>4, <1>12, <1>13 DEF ProcessCount, B, D, rq

(* Only Fork makes a process.                                              *)
LEMMA OnlyForkAdds ==
    ASSUME Inv, [ProcessNext]_procVars, ~(\E p, c \in Proc : ForkHandler(p, c))
    PROVE  LiveSet' \subseteq LiveSet
  <1>0. pcb \in [Proc -> Memory]
    BY DEF Inv, ProcessTypeOK, SchedTypeOK
  <1>1. CASE UNCHANGED procVars \/ Stopped
    BY <1>1 DEF Stopped, procVars, schedVars, LiveSet, Live
  <1>2. CASE SchedulerStep
    <2>1. pcb' = pcb
      BY <1>2 DEF SchedulerStep, TrapClockHandler, DelayHandler, DelayReturn,
         ScheduleNextProcess, schedVars
    <2> QED
      BY <2>1 DEF LiveSet, Live
  <1>3. ASSUME NEW p \in Proc, FamilyStep(p)
        PROVE  LiveSet' \subseteq LiveSet
    <2>1. CASE ExitHandler(p)
      <3>1. \/ pcb' = pcb \/ pcb' = [pcb EXCEPT ![p] = "freed"]
            \/ pcb' = [pcb EXCEPT ![p] = "exited"]
        BY <2>1 DEF ExitHandler, Halt, ExitToWaiting, ExitToZombie, ScheduleNextProcess
      <3> QED
        BY <1>0, <3>1 DEF LiveSet, Live
    <2>2. CASE WaitCollect(p)
      <3>1. pcb' = [q \in Proc |-> IF q \in Range(zombies[p]) THEN "freed" ELSE pcb[q]]
        BY <2>2 DEF WaitCollect, FreeZombies
      <3> QED
        BY <3>1 DEF LiveSet, Live
    <2>3. CASE WaitBlock(p) \/ WaitResume(p)
      <3>1. pcb' = pcb
        BY <2>3 DEF WaitBlock, WaitResume, WaitAgain, WaitReturn, ScheduleNextProcess
      <3> QED
        BY <3>1 DEF LiveSet, Live
    <2>4. CASE UNCHANGED procVars
      BY <2>4 DEF procVars, schedVars, LiveSet, Live
    <2> QED
      BY <1>3, <2>1, <2>2, <2>3, <2>4 DEF FamilyStep, ForkError, WaitError, TrapIllegalHandler,
         TrapMathHandler, TrapMemoryHandler, ExecHandler
  <1> QED
    BY <1>1, <1>2, <1>3 DEF ProcessNext

(* There are never more than MAX_PROCESSES processes, although ForkHandler *)
(* counts entries of queues.  init and idle exist from the start.          *)
THEOREM ProcessesBounded ==
    ASSUME MAX_PROCESSES >= 2
    PROVE  ProcessSpec => []LiveBound
  <1> USE SchedulerAssumption, ProcessAssumption
  <1>1. IsFiniteSet(LiveSet) /\ Cardinality(LiveSet) \in Nat
    BY FS_Subset, FS_CardinalityType DEF LiveSet
  <1>2. LiveBound <=> Cardinality(LiveSet) <= MAX_PROCESSES
    BY DEF LiveBound, LiveSet
  <1>3. (LiveBound <=> Cardinality(LiveSet) <= MAX_PROCESSES)'
    BY DEF LiveBound, LiveSet
  <1>4. ProcessInit => LiveBound
    <2> SUFFICES ASSUME ProcessInit PROVE Cardinality(LiveSet) <= MAX_PROCESSES
      BY <1>2
    <2>1. LiveSet = {init_process} \cup {idle_process}
      BY DEF ProcessInit, LiveSet, Live
    <2>2. Cardinality(LiveSet) = 2
      <3>1. IsFiniteSet({init_process}) /\ Cardinality({init_process}) = 1
        BY FS_Singleton
      <3>2. Cardinality({init_process} \cup {idle_process})
              = IF idle_process \in {init_process} THEN 1 ELSE 1 + 1
        BY <3>1, FS_AddElement
      <3> QED
        BY <2>1, <3>2
    <2> QED
      BY <2>2
  <1>5. Inv /\ LiveBound /\ [ProcessNext]_procVars => LiveBound'
    <2> SUFFICES ASSUME Inv, LiveBound, [ProcessNext]_procVars
                 PROVE  Cardinality(LiveSet') <= MAX_PROCESSES
      BY <1>3
    <2>1. CASE \E p, c \in Proc : ForkHandler(p, c)
      <3>1. PICK p \in Proc, c \in Proc : ForkHandler(p, c)
        BY <2>1
      <3>2. /\ p = current_process /\ ProcessCount(p) < MAX_PROCESSES
            /\ pcb[c] = "unused" /\ pcb' = [pcb EXCEPT ![c] = "live"]
        BY <3>1 DEF ForkHandler, Syscall, UserMode, pcbNew
      <3>3. pcb \in [Proc -> Memory]
        BY DEF Inv, ProcessTypeOK, SchedTypeOK
      <3>4. LiveSet' = LiveSet \cup {c} /\ c \notin LiveSet
        BY <3>2, <3>3 DEF LiveSet, Live
      <3>5. Cardinality(LiveSet) <= ProcessCount(p)
        BY <3>2, CountEnough
      <3>6. ProcessCount(p) \in Nat
        <4>1. /\ process_ready_queue \in Seq(Proc)
              /\ blocked_pcbs \in SUBSET Proc /\ delayed_pcbs \in SUBSET Proc
          BY DEF Inv, ProcessTypeOK, SchedTypeOK
        <4>2. Cardinality(blocked_pcbs) \in Nat /\ Cardinality(delayed_pcbs) \in Nat
          BY <4>1, FS_Subset, FS_CardinalityType
        <4> QED
          BY <4>1, <4>2 DEF ProcessCount
      <3>7. Cardinality(LiveSet') = Cardinality(LiveSet) + 1
        BY <1>1, <3>4, FS_AddElement
      <3> QED
        BY <1>1, <3>2, <3>5, <3>6, <3>7
    <2>2. CASE ~(\E p, c \in Proc : ForkHandler(p, c))
      <3>1. LiveSet' \in SUBSET LiveSet
        BY <2>2, OnlyForkAdds
      <3>2. IsFiniteSet(LiveSet') /\ Cardinality(LiveSet') <= Cardinality(LiveSet)
        BY <1>1, <3>1, FS_Subset
      <3>3. Cardinality(LiveSet') \in Nat
        BY <3>2, FS_CardinalityType
      <3> QED
        BY <1>1, <1>2, <3>2, <3>3
    <2> QED
      BY <2>1, <2>2
  <1> QED
    BY <1>4, <1>5, InvHolds, PTL DEF ProcessSpec
=============================================================================
