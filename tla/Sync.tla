-------------------------------- MODULE Sync ---------------------------------
(***************************************************************************)
(* Locks and condition variables (synchronization.c and the lock and cvar  *)
(* parts of ipc_wrapper.c), composed with the processes that use them: a   *)
(* step is one of Process, which leaves locks alone, or a system call      *)
(* below, which moves PCBs between the same queue and sets.                *)
(***************************************************************************)
EXTENDS Process

CONSTANTS
    MAX_LOCKS, MAX_CVARS,
    MaxIpc,         \* bound on the calls of LockInit and CvarInit
    MaxCvarQueue,   \* bound on the length of a condition variable's queue
    Reclaimable     \* the ids that Reclaim is called with

ASSUME SyncAssumption ==
    /\ MAX_LOCKS \in Nat /\ MAX_CVARS \in Nat
    /\ MaxIpc \in Nat /\ MaxCvarQueue \in Nat
    /\ Reclaimable \subseteq Nat

VARIABLES
    next_ipc_id,
    locks, cvars,   \* the ids of the existing locks and condition variables
    owner,          \* lock->owner
    blocked,        \* lock->blocked and cvar->blocked
    acquiring,      \* the lock_id of the Acquire that a process is blocked in
    holds           \* history: the locks a process was told that it holds

ipcVars == <<next_ipc_id, locks, cvars, owner, blocked, acquiring, holds>>
syncVars == <<procVars, ipcVars>>

Id == 0 .. MaxIpc - 1
UNLOCKED == NULL

SyncTypeOK ==
    /\ ProcessTypeOK
    /\ next_ipc_id \in 0 .. MaxIpc
    /\ locks \subseteq Id /\ cvars \subseteq Id
    /\ owner \in [Id -> Proc \cup {UNLOCKED}]
    /\ blocked \in [Id -> Seq(Proc)]
    /\ acquiring \in [Proc -> Id \cup {NULL}]
    /\ holds \in [Proc -> SUBSET Id]

(* ipc_wrapper_init                                                        *)
SyncInit ==
    /\ ProcessInit
    /\ next_ipc_id = 0
    /\ locks = {} /\ cvars = {}
    /\ owner = [l \in Id |-> UNLOCKED]
    /\ blocked = [i \in Id |-> <<>>]
    /\ acquiring = [p \in Proc |-> NULL]
    /\ holds = [p \in Proc |-> {}]

(* A call that returns ERROR and changes nothing: no such lock or          *)
(* condition variable, a lock that is held already or not held, no waiter  *)
(* to signal, too many locks or condition variables.                       *)
SyncError(p) == Syscall(p) /\ UNCHANGED syncVars

-----------------------------------------------------------------------------
(* Locks                                                                   *)

lock_new(p) ==
    /\ Syscall(p)
    /\ Cardinality(locks) < MAX_LOCKS
    /\ next_ipc_id < MaxIpc
    /\ next_ipc_id' = next_ipc_id + 1
    /\ locks' = locks \cup {next_ipc_id}
    /\ owner' = [owner EXCEPT ![next_ipc_id] = UNLOCKED]
    /\ blocked' = [blocked EXCEPT ![next_ipc_id] = <<>>]
    /\ UNCHANGED <<procVars, cvars, acquiring, holds>>

BadAcquireFree(p, l) ==   \* does not check that the lock is free
    /\ Syscall(p)
    /\ l \in locks
    /\ owner' = [owner EXCEPT ![l] = p]
    /\ holds' = [holds EXCEPT ![p] = @ \cup {l}]
    /\ UNCHANGED <<procVars, next_ipc_id, locks, cvars, blocked, acquiring>>

AcquireFree(p, l) ==
    /\ Syscall(p)
    /\ l \in locks /\ owner[l] = UNLOCKED
    /\ owner' = [owner EXCEPT ![l] = p]
    /\ holds' = [holds EXCEPT ![p] = @ \cup {l}]
    /\ UNCHANGED <<procVars, next_ipc_id, locks, cvars, blocked, acquiring>>

BadAcquireBlock(p, l) ==  \* does not push the caller on the lock's queue
    /\ Syscall(p)
    /\ l \in locks /\ owner[l] \notin {UNLOCKED, p}
    /\ acquiring' = [acquiring EXCEPT ![p] = l]
    /\ kpc' = [kpc EXCEPT ![p] = "acquire"]
    /\ ScheduleNextProcess(p, process_ready_queue, blocked_pcbs, delayed_pcbs,
           dead_pcbs, [state EXCEPT ![p] = "BLOCKED"], pcb)
    /\ UNCHANGED <<delay_ticks, owed, familyVars, uncollected, staleWake,
                   next_ipc_id, locks, cvars, owner, holds, blocked>>

AcquireBlock(p, l) ==
    /\ Syscall(p)
    /\ l \in locks /\ owner[l] \notin {UNLOCKED, p}
    /\ blocked' = [blocked EXCEPT ![l] = Append(@, p)]
    /\ acquiring' = [acquiring EXCEPT ![p] = l]
    /\ kpc' = [kpc EXCEPT ![p] = "acquire"]
    /\ ScheduleNextProcess(p, process_ready_queue, blocked_pcbs, delayed_pcbs,
           dead_pcbs, [state EXCEPT ![p] = "BLOCKED"], pcb)
    /\ UNCHANGED <<delay_ticks, owed, familyVars, uncollected, staleWake,
                   next_ipc_id, locks, cvars, owner, holds>>

(* The scheduler returned to AcquireLockHandler, which returns 0: it does  *)
(* not look at the lock again.                                             *)
AcquireReturn(p) ==
    /\ Resume(p, "acquire")
    /\ kpc' = [kpc EXCEPT ![p] = "user"]
    /\ acquiring' = [acquiring EXCEPT ![p] = NULL]
    /\ holds' = [holds EXCEPT ![p] = @ \cup {acquiring[p]}]
    /\ UNCHANGED <<current_process, process_ready_queue, blocked_pcbs,
                   delayed_pcbs, dead_pcbs, state, delay_ticks, pcb, machine, owed,
                   familyVars, uncollected, staleWake,
                   next_ipc_id, locks, cvars, owner, blocked>>

BadNewOwner(l) == UNLOCKED           \* frees the lock instead of handing it over
BadOtherWaiters(l) == blocked[l]     \* does not pop the new owner

(* lock_release for the owner: the head of the queue takes the lock over.  *)
NewOwner(l) == IF blocked[l] = <<>> THEN UNLOCKED ELSE Head(blocked[l])
OtherWaiters(l) == IF blocked[l] = <<>> THEN <<>> ELSE Tail(blocked[l])

BadUnblockNotQueued(p) ==      \* does not push p on the ready queue
    IF p \in blocked_pcbs
    THEN /\ blocked_pcbs' = blocked_pcbs \ {p}
         /\ state' = [state EXCEPT ![p] = "READY"]
         /\ UNCHANGED <<process_ready_queue, machine>>
    ELSE /\ machine' = "crashed"
         /\ UNCHANGED <<blocked_pcbs, state, process_ready_queue>>

(* ReleaseLockHandler makes a PCB found in blocked_pcbs ready, and writes  *)
(* to its state even if there is none.                                     *)
Unblock(p) ==
    IF p \in blocked_pcbs
    THEN /\ blocked_pcbs' = blocked_pcbs \ {p}
         /\ state' = [state EXCEPT ![p] = "READY"]
         /\ process_ready_queue' = Append(process_ready_queue, p)
         /\ UNCHANGED machine
    ELSE /\ machine' = "crashed"
         /\ UNCHANGED <<blocked_pcbs, state, process_ready_queue>>

ReleaseLockHandler(p, l) ==
    /\ Syscall(p)
    /\ l \in locks /\ owner[l] = p
    /\ owner' = [owner EXCEPT ![l] = NewOwner(l)]
    /\ blocked' = [blocked EXCEPT ![l] = OtherWaiters(l)]
    /\ holds' = [holds EXCEPT ![p] = @ \ {l}]
    /\ IF NewOwner(l) = UNLOCKED
       THEN UNCHANGED <<blocked_pcbs, state, process_ready_queue, machine>>
       ELSE Unblock(NewOwner(l))
    /\ UNCHANGED <<current_process, delayed_pcbs, dead_pcbs, delay_ticks, pcb, kpc,
                   owed, familyVars, uncollected, staleWake,
                   next_ipc_id, locks, cvars, acquiring>>

-----------------------------------------------------------------------------
(* Condition variables                                                     *)

cvar_new(p) ==
    /\ Syscall(p)
    /\ Cardinality(cvars) < MAX_CVARS
    /\ next_ipc_id < MaxIpc
    /\ next_ipc_id' = next_ipc_id + 1
    /\ cvars' = cvars \cup {next_ipc_id}
    /\ blocked' = [blocked EXCEPT ![next_ipc_id] = <<>>]
    /\ UNCHANGED <<procVars, locks, owner, acquiring, holds>>

(* CvarWait releases the lock and queues the caller, but neither blocks it *)
(* nor makes the new owner of the lock ready.  The documented meaning of   *)
(* its return is that the caller holds the lock again.                     *)
CvarWaitHandler(p, c, l) ==
    /\ Syscall(p)
    /\ c \in cvars /\ Len(blocked[c]) < MaxCvarQueue
    /\ l \in locks /\ owner[l] = p
    /\ owner' = [owner EXCEPT ![l] = NewOwner(l)]
    /\ blocked' = [blocked EXCEPT ![l] = OtherWaiters(l), ![c] = Append(@, p)]
    /\ UNCHANGED <<procVars, next_ipc_id, locks, cvars, acquiring, holds>>

BadCvarSignalHandler(p, c) ==   \* does not push the process that it found
    /\ Syscall(p)
    /\ c \in cvars /\ blocked[c] # <<>>
    /\ blocked' = [blocked EXCEPT ![c] = Tail(@)]
    /\ delayed_pcbs' = delayed_pcbs \ {Head(blocked[c])}
    /\ UNCHANGED <<current_process, process_ready_queue, blocked_pcbs, dead_pcbs,
                   state, delay_ticks, pcb, kpc, machine, owed, familyVars, uncollected,
                   staleWake, next_ipc_id, locks, cvars, owner, acquiring, holds>>

(* The popped process is looked for among the delayed ones.  Its state is  *)
(* not changed when it is made ready.                                      *)
CvarSignalHandler(p, c) ==
    /\ Syscall(p)
    /\ c \in cvars /\ blocked[c] # <<>>
    /\ blocked' = [blocked EXCEPT ![c] = Tail(@)]
    /\ LET n == Head(blocked[c]) IN
          /\ delayed_pcbs' = delayed_pcbs \ {n}
          /\ process_ready_queue' = IF n \in delayed_pcbs
                                    THEN Append(process_ready_queue, n)
                                    ELSE process_ready_queue
    /\ UNCHANGED <<current_process, blocked_pcbs, dead_pcbs, state, delay_ticks, pcb,
                   kpc, machine, owed, familyVars, uncollected, staleWake,
                   next_ipc_id, locks, cvars, owner, acquiring, holds>>

(* cvar_broadcast pops while the index i is below the number of entries    *)
(* that are left, which the pops make smaller: with n entries at first,    *)
(* n - 1 - i are left at index i.  It gives up at the first i that fails.  *)
BroadcastPops(n) ==
    1 + (CHOOSE i \in 0 .. n : i >= n - 1 - i /\ \A j \in 0 .. i - 1 : j < n - 1 - j)

(* The entries that were popped are gone, and nobody becomes ready.        *)
CvarBroadcastHandler(p, c) ==
    /\ Syscall(p)
    /\ c \in cvars /\ blocked[c] # <<>>
    /\ blocked' = [blocked EXCEPT
                      ![c] = SubSeq(@, BroadcastPops(Len(@)) + 1, Len(@))]
    /\ UNCHANGED <<procVars, next_ipc_id, locks, cvars, owner, acquiring, holds>>

-----------------------------------------------------------------------------
(* ipc_reclaim removes the lock or condition variable and frees the PCBs   *)
(* in its queue, whether the kernel still uses them or not.  If it freed   *)
(* the caller, the trap handler then writes through the null usr_ctx.      *)
(* Otherwise a freed PCB may keep its contents or be overwritten.          *)
ReclaimHandler(p, i) ==
    /\ Syscall(p)
    /\ i \in locks \cup cvars
    /\ locks' = locks \ {i}
    /\ cvars' = cvars \ {i}
    /\ pcb' = [q \in Proc |-> IF q \in Range(blocked[i]) THEN "freed" ELSE pcb[q]]
    /\ blocked' = [blocked EXCEPT ![i] = <<>>]
    /\ machine' \in CASE blocked[i] = <<>> -> {"up"}
                      [] p \in Range(blocked[i]) -> {"corrupt", "crashed"}
                      [] OTHER -> {"up", "corrupt"}
    /\ UNCHANGED <<current_process, process_ready_queue, blocked_pcbs, delayed_pcbs,
                   dead_pcbs, state, delay_ticks, kpc, owed, familyVars, uncollected,
                   staleWake, next_ipc_id, owner, acquiring, holds>>

-----------------------------------------------------------------------------
IpcStep(p) ==
    \/ SyncError(p)
    \/ lock_new(p)
    \/ \E l \in Id : AcquireFree(p, l)
    \/ \E l \in Id : AcquireBlock(p, l)
    \/ AcquireReturn(p)
    \/ \E l \in Id : ReleaseLockHandler(p, l)
    \/ cvar_new(p)
    \/ \E c, l \in Id : CvarWaitHandler(p, c, l)
    \/ \E c \in Id : CvarSignalHandler(p, c)
    \/ \E c \in Id : CvarBroadcastHandler(p, c)
    \/ \E i \in Reclaimable : ReclaimHandler(p, i)

SyncNext ==
    \/ ProcessNext /\ UNCHANGED ipcVars
    \/ \E p \in Proc : IpcStep(p)

SyncSpec == SyncInit /\ [][SyncNext]_syncVars

(* Clock traps keep coming, and a handler that gets the CPU back goes on.  *)
(* Strong fairness of the clock: calls that block can follow each other so *)
(* closely that user mode is left again each time before the clock trap.   *)
(* The hardware keeps the trap pending meanwhile and delivers it.          *)
SyncFairness ==
    /\ SF_syncVars(TrapClockHandler /\ UNCHANGED <<familyVars, uncollected, staleWake, ipcVars>>)
    /\ \A p \in Proc :
          /\ WF_syncVars(DelayReturn(p)
                         /\ UNCHANGED <<familyVars, uncollected, staleWake, ipcVars>>)
          /\ WF_syncVars(WaitResume(p) /\ UNCHANGED ipcVars)
          /\ WF_syncVars(AcquireReturn(p))

FairSyncSpec == SyncSpec /\ SyncFairness

-----------------------------------------------------------------------------
(* A process that was told it holds a lock owns it, so two processes never *)
(* hold the same lock.  (AcquireLockHandler does not look at the lock      *)
(* again after it was blocked.)                                            *)
HolderOwns ==
    \A p \in Proc : Live(p) => \A l \in holds[p] \cap locks : owner[l] = p

(* As long as no exit finds a stale waiting flag, locks exclude.           *)
HolderOwnsUnlessStale == ~staleWake => HolderOwns

(* As long as no exit finds a stale waiting flag, whoever a release can    *)
(* hand the lock to is asleep in Acquire of that lock, and queued once: so *)
(* ReleaseLockHandler always finds it in blocked_pcbs.                     *)
WaitersAsleep ==
    ~staleWake =>
        /\ machine # "crashed"
        /\ \A l \in locks :
              /\ \A i, j \in DOMAIN blocked[l] : blocked[l][i] = blocked[l][j] => i = j
              /\ \A p \in Range(blocked[l]) :
                    /\ p \in blocked_pcbs /\ state[p] = "BLOCKED"
                    /\ kpc[p] = "acquire" /\ acquiring[p] = l

(* Nobody waits for a lock that is free (lock_release hands it over).      *)
FreeLockHasNoWaiters ==
    \A l \in locks : owner[l] = UNLOCKED => blocked[l] = <<>>

(* A process blocked in Acquire is not forgotten by the lock: it is queued *)
(* or the lock is its own by now.                                          *)
AcquirerTracked ==
    \A p \in Proc : Live(p) /\ kpc[p] = "acquire" /\ state[p] = "BLOCKED"
                       /\ acquiring[p] \in locks =>
        p \in Range(blocked[acquiring[p]]) \/ owner[acquiring[p]] = p

(* Acquire returns to the process that a release made the owner.           *)
NewOwnerReturns ==
    \A p \in Proc, l \in Id :
        (kpc[p] = "acquire" /\ acquiring[p] = l /\ owner[l] = p)
            ~> (kpc[p] = "user" \/ machine # "up")
=============================================================================
