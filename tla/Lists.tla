-------------------------------- MODULE Lists --------------------------------
(***************************************************************************)
(* What the other modules take for granted about queue_t and set_t: one is *)
(* a sequence, the other a set, and the clock trap, which walks through a  *)
(* set while it moves members of it to a queue, comes to every member that *)
(* was there when it began, once.                                          *)
(***************************************************************************)
EXTENDS Sequences

CONSTANT Item

VARIABLES
    ready,     \* the contents of the queue
    delayed,   \* the members of the set
    clock,     \* "walks" while the clock trap walks through the set
    todo       \* the members that it has not come to

vars == <<ready, delayed, clock, todo>>

Init == ready = <<>> /\ delayed = {} /\ clock = "off" /\ todo = {}

Push(x) == ready' = Append(ready, x) /\ UNCHANGED <<delayed, clock, todo>>

Pop == ready # <<>> /\ ready' = Tail(ready) /\ UNCHANGED <<delayed, clock, todo>>

Insert(x) == delayed' = delayed \cup {x} /\ UNCHANGED <<ready, clock, todo>>

Remove(x) == delayed' = delayed \ {x} /\ UNCHANGED <<ready, clock, todo>>

Forget == ready' = <<>> /\ UNCHANGED <<delayed, clock, todo>>

Clear == delayed' = {} /\ UNCHANGED <<ready, clock, todo>>

Begin == clock = "off" /\ clock' = "walks" /\ todo' = delayed /\ UNCHANGED <<ready, delayed>>

(* A tick for x, which may be the last one it has to sleep.                *)
Tick(x) ==
    /\ clock = "walks" /\ x \in todo
    /\ todo' = todo \ {x}
    /\ \/ UNCHANGED <<ready, delayed>>
       \/ ready' = Append(ready, x) /\ delayed' = delayed \ {x}
    /\ UNCHANGED clock

End == clock = "walks" /\ todo = {} /\ clock' = "off" /\ UNCHANGED <<ready, delayed, todo>>

Next ==
    \/ \E x \in Item : Tick(x)
    \/ Begin \/ End
    \/ clock = "off" /\ (Pop \/ Forget \/ Clear
                         \/ \E x \in Item : Push(x) \/ Insert(x) \/ Remove(x))

Spec == Init /\ [][Next]_vars
=============================================================================
