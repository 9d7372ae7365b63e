------------------------------- MODULE Frames --------------------------------
(***************************************************************************)
(* What the kernel promises about physical memory as long as it is intact: *)
(* a frame has at most one user, and it changes hands only through the     *)
(* list of free frames.  Frames may be lost (the kernel does not promise   *)
(* to avoid that), but a lost frame never comes back.                      *)
(***************************************************************************)
CONSTANTS
    Frame,      \* the frames
    User,       \* who can have some: the kernel, page tables, stacks
    free        \* the list of free frames, one of the users

VARIABLES
    held,       \* the frames that each of them has
    intact      \* nothing has damaged memory yet

Exclusive(h) == \A u, v \in User : u # v => h[u] \cap h[v] = {}

Init == intact = TRUE /\ held \in [User -> SUBSET Frame] /\ Exclusive(held)

(* A user gets frames from the list, and the list gets them from users: h  *)
(* becomes g.                                                              *)
Moves(h, g) ==
    /\ Exclusive(g)
    /\ \A u \in User \ {free} : g[u] \ h[u] \subseteq h[free]
    /\ g[free] \ h[free] \subseteq UNION {h[u] : u \in User}

(* Damage is never repaired.                                               *)
Next ==
    /\ held' \in [User -> SUBSET Frame]
    /\ intact' => intact /\ Moves(held, held')

Spec == Init /\ [][Next]_<<held, intact>>
=============================================================================
