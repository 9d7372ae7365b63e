----------------------------- MODULE LinkedLists -----------------------------
(***************************************************************************)
(* The linked lists behind queue_t (queue.c) and set_t (set.c), with the   *)
(* nodes that malloc and free hand out: a freed node keeps its contents    *)
(* until it is used again, possibly by the other list.  The two lists are  *)
(* process_ready_queue and delayed_pcbs, which the clock trap walks        *)
(* through while it moves processes from one to the other.                 *)
(***************************************************************************)
EXTENDS Integers, Sequences, FiniteSets, FiniteSetsExt, SequencesExt

CONSTANTS
    Item,   \* the PCBs; the key of a PCB is its pid
    Node,   \* the nodes that fit in the kernel heap
    NULL

ASSUME LinkedListsAssumption == NULL \notin Item /\ NULL \notin Node /\ IsFiniteSet(Node)

VARIABLES
    heap,     \* the fields of the nodes, of the queue and of the set
    exists,   \* which of the two was created and not deleted
    clock,    \* "walks" in the loop of TrapClockHandler
    node      \* the pointer of that loop

vars == <<heap, exists, clock, node>>

Pointer == Node \cup {NULL}

LinkedTypeOK ==
    /\ heap \in [item : [Node -> Item \cup {NULL}], next : [Node -> Pointer],
                 used : SUBSET Node,
                 front : Pointer, rear : Pointer, count : 0 .. Cardinality(Node),
                 head : Pointer, node_count : 0 .. Cardinality(Node)]
    /\ exists \subseteq {"queue", "set"}
    /\ clock \in {"off", "walks"}
    /\ node \in Pointer

(* The nodes from n on.  A list that goes round in a circle has more than  *)
(* there are.                                                              *)
Chain(h, n) ==
    LET N == Cardinality(Node)
        at[k \in 0 .. N + 1] ==
            IF k = 0 THEN n ELSE IF at[k - 1] = NULL THEN NULL ELSE h.next[at[k - 1]]
    IN [k \in 1 .. Cardinality({j \in 0 .. N + 1 : at[j] # NULL}) |-> at[k - 1]]

Items(h, n) == [k \in DOMAIN Chain(h, n) |-> h.item[Chain(h, n)[k]]]

-----------------------------------------------------------------------------
(* queue.c.  A call for which malloc finds no node changes nothing.        *)

queue_new(h) == [h EXCEPT !.front = NULL, !.rear = NULL, !.count = 0]

queue_push(h, x, n) ==
    LET fresh == [h.next EXCEPT ![n] = NULL] IN
    [h EXCEPT !.used = @ \cup {n}, !.item[n] = x,
              !.next = IF h.rear = NULL THEN fresh ELSE [fresh EXCEPT ![h.rear] = n],
              !.front = IF h.rear = NULL THEN n ELSE @,
              !.rear = n,
              !.count = @ + 1]

BadQueuePop(h) ==   \* leaves the pointer to the last node behind
    IF h.front = NULL THEN h
    ELSE [h EXCEPT !.front = h.next[h.front], !.used = @ \ {h.front}, !.count = @ - 1]

queue_pop(h) ==
    IF h.front = NULL THEN h
    ELSE [h EXCEPT !.front = h.next[h.front],
                   !.rear = IF h.next[h.front] = NULL THEN NULL ELSE @,
                   !.used = @ \ {h.front},
                   !.count = @ - 1]

queue_delete(h) == [h EXCEPT !.used = @ \ Range(Chain(h, h.front))]

-----------------------------------------------------------------------------
(* set.c                                                                   *)

set_new(h) == [h EXCEPT !.head = NULL, !.node_count = 0]

(* The first node with key x, or none; set_find returns its item.          *)
set_find(h, x) ==
    LET c == Chain(h, h.head)
        found == {k \in DOMAIN c : h.item[c[k]] = x}
    IN IF found = {} THEN NULL ELSE c[Min(found)]

BadSetInsert(h, x, n) ==   \* does not look for the key
    [h EXCEPT !.used = @ \cup {n}, !.item[n] = x, !.next[n] = h.head,
              !.head = n, !.node_count = @ + 1]

set_insert(h, x, n) ==
    IF set_find(h, x) # NULL THEN h
    ELSE [h EXCEPT !.used = @ \cup {n}, !.item[n] = x, !.next[n] = h.head,
                   !.head = n, !.node_count = @ + 1]

set_pop(h, x) ==
    LET n == set_find(h, x) IN
    IF n = NULL THEN h
    ELSE [h EXCEPT !.head = IF @ = n THEN h.next[n] ELSE @,
                   !.next = [m \in Node |-> IF m \in Range(Chain(h, h.head)) /\ h.next[m] = n
                                            THEN h.next[n] ELSE h.next[m]],
                   !.used = @ \ {n},
                   !.node_count = @ - 1]

set_delete(h) == [h EXCEPT !.used = @ \ Range(Chain(h, h.head))]

-----------------------------------------------------------------------------
(* The lists are used by kernel code, which is not interrupted.            *)

LinkedInit ==
    /\ heap = [item |-> [n \in Node |-> NULL], next |-> [n \in Node |-> NULL], used |-> {},
               front |-> NULL, rear |-> NULL, count |-> 0, head |-> NULL, node_count |-> 0]
    /\ exists = {}
    /\ clock = "off"
    /\ node = NULL

Use(list) == clock = "off" /\ list \in exists /\ UNCHANGED <<exists, clock, node>>

UseQueue ==
    /\ Use("queue")
    /\ \/ heap' = queue_pop(heap)
       \/ \E x \in Item, n \in Node \ heap.used : heap' = queue_push(heap, x, n)

UseSet ==
    /\ Use("set")
    /\ \/ \E x \in Item : heap' = set_pop(heap, x)
       \/ \E x \in Item, n \in Node \ heap.used : heap' = set_insert(heap, x, n)

Create(list) ==
    /\ clock = "off" /\ list \notin exists
    /\ exists' = exists \cup {list}
    /\ heap' = IF list = "queue" THEN queue_new(heap) ELSE set_new(heap)
    /\ UNCHANGED <<clock, node>>

Delete(list) ==
    /\ clock = "off" /\ list \in exists
    /\ exists' = exists \ {list}
    /\ heap' = IF list = "queue" THEN queue_delete(heap) ELSE set_delete(heap)
    /\ UNCHANGED <<clock, node>>

(* TrapClockHandler                                                        *)
ClockBegins ==
    /\ clock = "off" /\ exists = {"queue", "set"}
    /\ clock' = "walks"
    /\ node' = heap.head
    /\ UNCHANGED <<heap, exists>>

BadNextNode(h, after) == after.next[node]   \* advances at the end of the loop

(* The loop advances before it pops the process and so frees the node.     *)
NextNode(h, after) == h.next[node]

ClockVisits ==
    /\ clock = "walks" /\ node # NULL
    /\ LET x == heap.item[node]
           popped == set_pop(heap, x)
       IN heap' \in {heap} \cup {queue_push(popped, x, n) : n \in Node \ popped.used}
    /\ node' = NextNode(heap, heap')
    /\ UNCHANGED <<exists, clock>>

ClockEnds ==
    /\ clock = "walks" /\ node = NULL
    /\ clock' = "off"
    /\ UNCHANGED <<heap, exists, node>>

LinkedNext ==
    \/ UseQueue \/ UseSet
    \/ \E list \in {"queue", "set"} : Create(list) \/ Delete(list)
    \/ ClockBegins \/ ClockVisits \/ ClockEnds

LinkedSpec == LinkedInit /\ [][LinkedNext]_vars

-----------------------------------------------------------------------------
QueueNodes == IF "queue" \in exists THEN Chain(heap, heap.front) ELSE <<>>
SetNodes == IF "set" \in exists THEN Chain(heap, heap.head) ELSE <<>>

(* Every node in use is in exactly one place of one list, and nothing that *)
(* is on a list, at its end or next in the walk of the clock was freed:    *)
(* whatever nodes malloc hands out again, none leaks or dangles.           *)
NodesAccounted ==
    /\ heap.used = Range(QueueNodes) \cup Range(SetNodes)
    /\ Cardinality(heap.used) = Len(QueueNodes) + Len(SetNodes)
    /\ "queue" \in exists =>
          heap.rear = IF QueueNodes = <<>> THEN NULL ELSE Last(QueueNodes)
    /\ node # NULL => node \in Range(SetNodes)

(* The counters, by which Fork and the limits on locks, condition          *)
(* variables and pipes go, are the lengths of the lists; no key is twice   *)
(* in a set.                                                               *)
CountsRight ==
    /\ "queue" \in exists => heap.count = Len(QueueNodes)
    /\ "set" \in exists => heap.node_count = Cardinality({heap.item[n] : n \in Range(SetNodes)})

L == INSTANCE Lists WITH
        ready <- IF "queue" \in exists THEN Items(heap, heap.front) ELSE <<>>,
        delayed <- IF "set" \in exists THEN Range(Items(heap, heap.head)) ELSE {},
        todo <- Range(Items(heap, node))

(* The lists implement a sequence and a set, and the clock trap comes to   *)
(* every delayed process once although it unlinks and frees nodes on its   *)
(* way.                                                                    *)
ListsImplemented == L!Spec
=============================================================================
