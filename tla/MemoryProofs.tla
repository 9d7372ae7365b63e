---------------------------- MODULE MemoryProofs -----------------------------
(***************************************************************************)
(* Frames are never in two places, whatever Fork, Exec, Exit, Brk upwards, *)
(* memory faults and malloc do and in whatever order, for any number of    *)
(* processes, pages and frames and any programs: the refinement of Frames, *)
(* and what else the runs check of Memory.                                 *)
(*                                                                         *)
(* Types, breaks and who has the CPU hold always (TypeInv).  What is said  *)
(* about frames (MemInv) holds as long as memory is intact: Brk downwards  *)
(* and a heap that grows too far do break it.                              *)
(***************************************************************************)
EXTENDS Memory, KernelHeapProofs

-----------------------------------------------------------------------------
(* Types, breaks and who has the CPU: this holds whatever happened to      *)
(* memory before.                                                          *)

(* Nobody has the CPU until KernelStart is done, and between the release   *)
(* of the stack of an exiting process and the switch.                      *)
CpuInPlace ==
    /\ phase = "boot" => /\ machine = "up" /\ exiting = "no" /\ current_process = NULL
                         /\ \A p \in Proc : pcb[p] = "unused"
    /\ phase = "up" /\ machine = "up" =>
          /\ exiting = "stack_freed" => current_process = NULL
          /\ exiting # "stack_freed" => /\ current_process \in Proc
                                        /\ pcb[current_process] = "live"

(* No break is on page 0: Brk looks at the page below it.                  *)
BrksSet ==
    machine = "up" =>
        \A p \in Proc \ {idle_process} : pcb[p] = "live" => current_brk[p] >= 1

TypeInv == MemoryTypeOK /\ CpuInPlace /\ BrksSet /\ UserHeapMapped

LEMMA Layout ==
    /\ Page \in SUBSET Int /\ IsFiniteSet(Page) /\ KStack \in SUBSET Int /\ IsFiniteSet(KStack)
    /\ StackPages \subseteq Page /\ TempPages \subseteq Page \ StackPages
    /\ \A i \in KStack : NUM_PAGES - NUM_KSTACK_FRAMES + i \in StackPages
    /\ \A i \in StackPages : i - NUM_PAGES + NUM_KSTACK_FRAMES \in KStack
<1> USE KernelHeapAssumption, MemoryAssumption
<1>1. IsFiniteSet(Page) /\ IsFiniteSet(KStack)
    BY FS_Interval DEF Page, KStack
<1> QED BY <1>1 DEF Page, KStack, StackPages, TempPages

LEMMA StackEntriesType ==
    ASSUME region_0_pages \in [Page -> Frame \cup {NULL}]
    PROVE  StackEntries \in [KStack -> Frame \cup {NULL}]
    BY Layout DEF StackEntries

LEMMA CallState ==
    ASSUME TypeInv, NEW p \in Proc, UserCall(p)
    PROVE  /\ phase = "up" /\ machine = "up" /\ exiting = "no" /\ current_process = p
           /\ p # idle_process /\ pcb[p] = "live" /\ current_brk[p] \in 1 .. NUM_PAGES
           /\ page_table[p] \in [Page -> Frame \cup {NULL}]
           /\ free_frame_queue \in Seq(Frame) /\ growths \in Nat
           /\ \A i \in 0 .. current_brk[p] - 2 : page_table[p][i] # NULL
<1> USE KernelHeapAssumption
<1>1. /\ phase = "up" /\ machine = "up" /\ exiting = "no" /\ current_process = p
      /\ p # idle_process
    BY DEF UserCall, InKernel
<1>2. MemoryTypeOK /\ UserHeapMapped
    BY DEF TypeInv
<1>3. pcb[p] = "live" /\ current_brk[p] >= 1
    BY <1>1 DEF TypeInv, CpuInPlace, BrksSet
<1>4. /\ current_brk[p] \in 0 .. NUM_PAGES /\ page_table[p] \in [Page -> Frame \cup {NULL}]
      /\ free_frame_queue \in Seq(Frame) /\ growths \in Nat
    BY <1>2 DEF MemoryTypeOK, HeapTypeOK
<1>5. \A i \in 0 .. current_brk[p] - 2 : page_table[p][i] # NULL
    BY <1>1, <1>2, <1>3 DEF UserHeapMapped
<1> QED BY <1>1, <1>3, <1>4, <1>5

LEMMA SameTables ==
    ASSUME TypeInv, NEW p \in Proc
    PROVE  /\ page_table = [page_table EXCEPT ![p] = page_table[p]]
           /\ current_brk = [current_brk EXCEPT ![p] = current_brk[p]]
    BY DEF TypeInv, MemoryTypeOK

(* Process p gets table t and break b, and leaves list q; it goes on,      *)
(* exits or stops the machine.                                             *)
LEMMA UserTyped ==
    ASSUME TypeInv, NEW p \in Proc, UserCall(p),
           NEW t \in [Page -> Frame \cup {NULL}], NEW q \in Seq(Frame), NEW b \in 0 .. NUM_PAGES,
           page_table' = [page_table EXCEPT ![p] = t],
           free_frame_queue' = q,
           region_0_pages' \in [Page -> Frame \cup {NULL}],
           current_brk' = [current_brk EXCEPT ![p] = b],
           machine' = "up" => b >= 1,
           exiting' = "no" => \A i \in 0 .. b - 2 : t[i] # NULL,
           exiting' \in {"no", "pages_freed"}, machine' \in {"up", "halted", "corrupt"},
           growths' \in Nat,
           UNCHANGED <<phase, frame, kernel_brk_offset, overgrown, current_process, pcb,
                       kernel_stack_pages, ahead>>
    PROVE  TypeInv'
<1> USE KernelHeapAssumption, MemoryAssumption
<1>1. /\ phase = "up" /\ machine = "up" /\ exiting = "no" /\ current_process = p
      /\ pcb[p] = "live"
    BY CallState
<1>2. MemoryTypeOK /\ BrksSet /\ UserHeapMapped
    BY DEF TypeInv
<1>3. \A r \in Proc : /\ page_table'[r] = IF r = p THEN t ELSE page_table[r]
                      /\ current_brk'[r] = IF r = p THEN b ELSE current_brk[r]
    BY <1>2 DEF MemoryTypeOK
<1>4. HeapTypeOK'
    BY <1>2 DEF MemoryTypeOK, HeapTypeOK
<1>5. MemoryTypeOK'
    <2>1. /\ page_table' \in [Proc -> [Page -> Frame \cup {NULL}]]
          /\ current_brk' \in [Proc -> 0 .. NUM_PAGES]
        BY <1>2 DEF MemoryTypeOK
    <2> QED BY <1>2, <1>4, <2>1 DEF MemoryTypeOK
<1>6. CpuInPlace'
    BY <1>1 DEF CpuInPlace
<1>7. BrksSet'
    BY <1>1, <1>2, <1>3 DEF BrksSet
<1>8. UserHeapMapped'
    <2> SUFFICES ASSUME NEW r \in Proc \ {idle_process}, pcb[r] = "live",
                        ~(p = r /\ exiting' # "no"),
                        NEW i \in 0 .. current_brk'[r] - 2
                 PROVE  page_table'[r][i] # NULL
        BY <1>1 DEF UserHeapMapped
    <2>1. CASE r = p
        BY <1>3, <2>1
    <2>2. CASE r # p
        BY <1>1, <1>2, <1>3, <2>2 DEF UserHeapMapped
    <2> QED BY <2>1, <2>2
<1> QED BY <1>5, <1>6, <1>7, <1>8 DEF TypeInv

LEMMA NoTables ==
    /\ NoPages \in [Page -> Frame \cup {NULL}] /\ NoStack \in [KStack -> Frame \cup {NULL}]
    /\ Distinct(NoPages) /\ Distinct(NoStack) /\ Values(NoPages) = {} /\ Values(NoStack) = {}
    BY DEF NoPages, NoStack, Distinct, Values

LEMMA LeaveTyped ==
    ASSUME TypeInv, NEW p \in Proc, UserCall(p),
           NEW t \in [Page -> Frame \cup {NULL}], NEW q \in Seq(Frame), Leave(p, t, q),
           NEW b \in 1 .. NUM_PAGES, current_brk' = [current_brk EXCEPT ![p] = b],
           \A i \in 0 .. b - 2 : t[i] # NULL
    PROVE  TypeInv'
<1> USE KernelHeapAssumption
<1>1. /\ machine = "up" /\ exiting = "no" /\ growths \in Nat
      /\ region_0_pages \in [Page -> Frame \cup {NULL}]
    BY CallState DEF TypeInv, MemoryTypeOK, HeapTypeOK
<1>2. /\ UNCHANGED <<phase, frame, region_0_pages, kernel_brk_offset, overgrown, current_process,
                     pcb, kernel_stack_pages, growths, ahead>>
    BY DEF Leave
<1>3. b \in 0 .. NUM_PAGES /\ b >= 1
    OBVIOUS
<1>4. CASE p = init_process
    <2>1. /\ page_table' = [page_table EXCEPT ![p] = t] /\ free_frame_queue' = q
          /\ machine' = "halted" /\ exiting' = "no"
        BY <1>1, <1>4 DEF Leave
    <2> QED BY <1>1, <1>2, <1>3, <2>1, UserTyped
<1>5. CASE p # init_process
    <2> DEFINE z == q \o FramesUp(t, Page)
               n == NoPages
    <2>1. /\ page_table' = [page_table EXCEPT ![p] = n] /\ free_frame_queue' = z
          /\ machine' = "up" /\ exiting' = "pages_freed"
        BY <1>1, <1>5 DEF Leave
    <2>2. FramesUp(t, Page) \in Seq(Frame)
        BY Layout, FramesUpLemma DEF Lists
    <2>3. z \in Seq(Frame) /\ n \in [Page -> Frame \cup {NULL}]
        BY <2>2, NoTables
    <2> HIDE DEF z, n
    <2> QED BY <1>1, <1>2, <1>3, <2>1, <2>3, UserTyped
<1> QED BY <1>4, <1>5

(* Where the frames of a program come from, and up to where it is mapped.  *)
LEMMA NewPagesTyped ==
    ASSUME NEW prog \in Programs, Loadable(prog), NEW q \in Seq(Frame), Len(q) >= FramesPopped
    PROVE  /\ \A i \in Page : FrameUsed(prog, i) \in 0 .. 3
           /\ \A i \in Page : FrameUsed(prog, i) # 0 =>
                 /\ 3 * i + FrameUsed(prog, i) \in 1 .. FramesPopped
                 /\ 3 * i + FrameUsed(prog, i) \in 1 .. Len(q)
           /\ NewPages(prog, q) \in [Page -> Frame \cup {NULL}]
           /\ Drop(q, FramesPopped) \in Seq(Frame)
           /\ BrkOf(prog) \in 1 .. NUM_PAGES
           /\ \A i \in 0 .. BrkOf(prog) - 2 : NewPages(prog, q)[i] # NULL
<1> USE KernelHeapAssumption, MemoryAssumption
<1> DEFINE t == NewPages(prog, q)
           k(i) == 3 * i + FrameUsed(prog, i)
<1>1. /\ prog.text_pg1 \in Page /\ prog.data_pg1 \in Page /\ prog.data_npg \in Page
      /\ prog.stack_npg \in Page
    OBVIOUS
<1>2. \A i \in Page : FrameUsed(prog, i) \in 0 .. 3
    BY <1>1 DEF FrameUsed
<1>3. FramesPopped \in Nat /\ FramesPopped <= Len(q) /\ FramesPopped = 3 * NUM_PAGES
    BY DEF FramesPopped
<1>4. \A i \in Page : FrameUsed(prog, i) # 0 => k(i) \in 1 .. FramesPopped /\ k(i) \in 1 .. Len(q)
    BY <1>2, <1>3 DEF Page
<1>5. /\ t = [i \in Page |-> t[i]]
      /\ \A i \in Page : t[i] = IF FrameUsed(prog, i) = 0 THEN NULL ELSE q[k(i)]
    BY DEF NewPages
<1>6. \A n \in 1 .. Len(q) : q[n] \in Frame /\ q[n] # NULL
    OBVIOUS
<1>7. Drop(q, FramesPopped) \in Seq(Frame)
    BY <1>3, DropLemma
<1>8. BrkOf(prog) \in 1 .. NUM_PAGES
    BY <1>1 DEF BrkOf, Loadable, Page
<1>9. ASSUME NEW i \in 0 .. BrkOf(prog) - 2 PROVE i \in Page /\ FrameUsed(prog, i) # 0
    <2>1. i \in Page /\ i < prog.data_pg1 + prog.data_npg
        BY <1>1, <1>8 DEF BrkOf, Page
    <2> QED BY <1>1, <2>1 DEF FrameUsed
<1> HIDE DEF t
<1>10. t \in [Page -> Frame \cup {NULL}]
    BY <1>4, <1>5, <1>6
<1>11. \A i \in 0 .. BrkOf(prog) - 2 : t[i] # NULL
    BY <1>4, <1>5, <1>6, <1>9
<1> QED BY <1>2, <1>4, <1>7, <1>8, <1>10, <1>11 DEF t

LEMMA OldFramesTyped ==
    ASSUME NEW t \in [Page -> Frame \cup {NULL}],
           NEW old \in {FramesUp(t, Page), FramesUp(t, Page \ {0})}
    PROVE  old \in Seq(Frame)
<1> DEFINE P == Page \ {0}
<1>1. P \in SUBSET Page /\ IsFiniteSet(P)
    BY Layout, FS_Subset
<1> HIDE DEF P
<1>2. Lists(FramesUp(t, Page), t, Page) /\ Lists(FramesUp(t, P), t, P)
    BY <1>1, Layout, FramesUpLemma
<1> QED BY <1>2 DEF P, Lists

LEMMA ExecTyped ==
    ASSUME TypeInv, NEW p \in Proc, NEW prog \in Programs,
           ExecLoads(p, prog) \/ ExecKilled(p, prog)
    PROVE  TypeInv'
<1> USE KernelHeapAssumption
<1> DEFINE qu == free_frame_queue
           o == page_table[p]
           t == NewPages(prog, qu)
           d == Drop(qu, FramesPopped)
           b == BrkOf(prog)
<1>1. UserCall(p) /\ Loadable(prog) /\ Len(qu) >= FramesPopped
    BY DEF ExecLoads, ExecKilled
<1>2. /\ machine = "up" /\ exiting = "no" /\ o \in [Page -> Frame \cup {NULL}]
      /\ qu \in Seq(Frame) /\ growths \in Nat
      /\ region_0_pages \in [Page -> Frame \cup {NULL}]
    BY <1>1, CallState DEF TypeInv, MemoryTypeOK, HeapTypeOK
<1>3. PICK old \in OldFrames(p) :
         \/ /\ free_frame_queue' = d \o old
            /\ page_table' = [page_table EXCEPT ![p] = t]
            /\ UNCHANGED <<phase, frame, region_0_pages, kernel_brk_offset, overgrown,
                           current_process, pcb, kernel_stack_pages, exiting, machine, growths,
                           ahead>>
         \/ Leave(p, t, d \o old)
    BY Zenon DEF ExecLoads, ExecKilled
<1>4. current_brk' = [current_brk EXCEPT ![p] = b]
    BY DEF ExecLoads, ExecKilled
<1>5. old \in Seq(Frame)
    BY <1>2, OldFramesTyped DEF OldFrames
<1>6. /\ t \in [Page -> Frame \cup {NULL}] /\ d \in Seq(Frame)
      /\ b \in 1 .. NUM_PAGES /\ \A i \in 0 .. b - 2 : t[i] # NULL
    BY <1>1, <1>2, NewPagesTyped
<1> DEFINE z == d \o old
<1>7. z \in Seq(Frame) /\ b \in 0 .. NUM_PAGES /\ b >= 1
    BY <1>5, <1>6
<1> HIDE DEF z, t, b, d, qu, o
<1>8. CASE /\ free_frame_queue' = z
           /\ page_table' = [page_table EXCEPT ![p] = t]
           /\ UNCHANGED <<phase, frame, region_0_pages, kernel_brk_offset, overgrown,
                          current_process, pcb, kernel_stack_pages, exiting, machine, growths,
                          ahead>>
    BY <1>1, <1>2, <1>4, <1>6, <1>7, <1>8, UserTyped
<1>9. CASE Leave(p, t, z)
    BY <1>1, <1>4, <1>6, <1>7, <1>9, LeaveTyped
<1> QED BY <1>3, <1>8, <1>9 DEF z

(* Exec or Fork finds too few frames.                                      *)
LEMMA NoFramesTyped ==
    ASSUME TypeInv, NEW p \in Proc, UserCall(p), free_frame_queue' = <<>>,
           region_0_pages' \in [Page -> Frame \cup {NULL}],
           UNCHANGED <<phase, frame, kernel_brk_offset, overgrown, memVars>>
    PROVE  TypeInv'
<1> USE KernelHeapAssumption
<1> DEFINE t == page_table[p]
           b == current_brk[p]
           q == <<>>
<1>1. /\ machine = "up" /\ exiting = "no" /\ t \in [Page -> Frame \cup {NULL}]
      /\ b \in 1 .. NUM_PAGES /\ growths \in Nat /\ \A i \in 0 .. b - 2 : t[i] # NULL
    BY CallState
<1>2. page_table' = [page_table EXCEPT ![p] = t] /\ current_brk' = [current_brk EXCEPT ![p] = b]
    BY SameTables DEF memVars
<1>3. q \in Seq(Frame) /\ free_frame_queue' = q /\ b \in 0 .. NUM_PAGES /\ b >= 1
    BY <1>1
<1>4. /\ UNCHANGED <<phase, frame, kernel_brk_offset, overgrown, current_process, pcb,
                     kernel_stack_pages, ahead>>
      /\ exiting' = "no" /\ machine' = "up" /\ growths' \in Nat
    BY <1>1 DEF memVars
<1> HIDE DEF t, b, q
<1> QED BY <1>1, <1>2, <1>3, <1>4, UserTyped

LEMMA ExitTyped ==
    ASSUME TypeInv, NEW p \in Proc, ExitHandler(p)
    PROVE  TypeInv'
<1> DEFINE t == page_table[p]
           b == current_brk[p]
           q == free_frame_queue
<1>1. UserCall(p) /\ Leave(p, t, q) /\ current_brk' = current_brk
    BY DEF ExitHandler
<1>2. /\ t \in [Page -> Frame \cup {NULL}] /\ q \in Seq(Frame)
      /\ b \in 1 .. NUM_PAGES /\ \A i \in 0 .. b - 2 : t[i] # NULL
    BY <1>1, CallState
<1>3. current_brk' = [current_brk EXCEPT ![p] = b]
    BY <1>1, SameTables
<1> HIDE DEF t, b, q
<1> QED BY <1>1, <1>2, <1>3, LeaveTyped

LEMMA PopulateTyped ==
    ASSUME TypeInv, NEW p \in Proc, UserCall(p), NEW S, NEW t,
           FilledTyped(page_table[p], S, free_frame_queue, t), Populate(p, t),
           free_frame_queue' = LeftOver(page_table[p], S, free_frame_queue),
           NEW b \in 1 .. NUM_PAGES, current_brk' = [current_brk EXCEPT ![p] = b],
           \A i \in 0 .. b - 2 : t[i] # NULL
    PROVE  TypeInv'
<1> USE KernelHeapAssumption
<1> DEFINE q == LeftOver(page_table[p], S, free_frame_queue)
<1>1. /\ machine = "up" /\ exiting = "no" /\ growths \in Nat /\ DOMAIN page_table[p] = Page
      /\ region_0_pages \in [Page -> Frame \cup {NULL}]
    BY CallState DEF TypeInv, MemoryTypeOK, HeapTypeOK
<1>2. t \in [Page -> Frame \cup {NULL}] /\ q \in Seq(Frame) /\ b \in 0 .. NUM_PAGES /\ b >= 1
    BY <1>1 DEF FilledTyped
<1>3. /\ page_table' = [page_table EXCEPT ![p] = t]
      /\ UNCHANGED <<phase, frame, region_0_pages, kernel_brk_offset, overgrown, current_process,
                     pcb, kernel_stack_pages, ahead>>
      /\ exiting' = "no" /\ machine' = "up" /\ growths' \in Nat
    BY <1>1 DEF Populate
<1>4. free_frame_queue' = q
    OBVIOUS
<1> HIDE DEF q
<1> QED BY <1>1, <1>2, <1>3, <1>4, UserTyped

LEMMA BrkGrowTyped ==
    ASSUME TypeInv, NEW p \in Proc, NEW a \in Page, NEW exact \in BOOLEAN, NEW sp \in Page,
           BrkGrow(p, a, exact, sp)
    PROVE  TypeInv'
<1> USE KernelHeapAssumption
<1> DEFINE o == page_table[p]
           qu == free_frame_queue
           S == BrkPagesUpTo(p, a)
           t == FillUp(o, S, qu)
           b == IF Enough(o, S, qu) THEN RoundedUp(a, exact) ELSE current_brk[p]
<1>1. /\ UserCall(p) /\ sp > a /\ Above(a, exact, current_brk[p])
      /\ Populate(p, t) /\ free_frame_queue' = LeftOver(o, S, qu)
      /\ current_brk' = IF Enough(o, S, qu) THEN [current_brk EXCEPT ![p] = RoundedUp(a, exact)]
                        ELSE current_brk
    BY DEF BrkGrow
<1>2. /\ o \in [Page -> Frame \cup {NULL}] /\ qu \in Seq(Frame)
      /\ current_brk[p] \in 1 .. NUM_PAGES
      /\ \A i \in 0 .. current_brk[p] - 2 : o[i] # NULL
    BY <1>1, CallState
<1>3. S = current_brk[p] - 1 .. a
    BY DEF BrkPagesUpTo
<1>4. current_brk' = [current_brk EXCEPT ![p] = b]
    BY <1>1, SameTables
<1>5. /\ b \in 1 .. NUM_PAGES
      /\ Enough(o, S, qu) => b <= a + 1
      /\ ~Enough(o, S, qu) => b = current_brk[p]
    BY <1>1, <1>2, SMTT(60) DEF RoundedUp, Above, Page
<1> HIDE DEF o, qu, S, t, b
<1>6. S \in SUBSET Page /\ IsFiniteSet(S)
    <2>1. S \in SUBSET Page
        BY <1>2, <1>3 DEF Page
    <2> QED BY <2>1, Layout, FS_Subset
<1>7. FilledTyped(o, S, qu, t)
    BY <1>2, <1>6, Layout, FillUpTyped DEF t
<1>8. /\ \A i \in Page : o[i] # NULL => t[i] = o[i]
      /\ Enough(o, S, qu) => \A i \in S : t[i] # NULL
    BY <1>2, <1>7 DEF FilledTyped
<1>9. ASSUME NEW i \in 0 .. b - 2 PROVE t[i] # NULL
    <2>1. i \in Page
        BY <1>5 DEF Page
    <2>2. CASE i <= current_brk[p] - 2
        BY <1>2, <1>8, <2>1, <2>2 DEF Page
    <2>3. CASE ~(i <= current_brk[p] - 2)
        <3>1. Enough(o, S, qu) /\ i \in S
            BY <1>2, <1>3, <1>5, <2>1, <2>3 DEF Page
        <3> QED BY <1>8, <3>1
    <2> QED BY <2>2, <2>3
<1>10. /\ FilledTyped(page_table[p], S, free_frame_queue, t)
       /\ free_frame_queue' = LeftOver(page_table[p], S, free_frame_queue)
    BY <1>1, <1>7 DEF o, qu
<1> QED BY <1>1, <1>4, <1>5, <1>9, <1>10, PopulateTyped

LEMMA TrapTyped ==
    ASSUME TypeInv, NEW p \in Proc, NEW a \in Page, NEW exact \in BOOLEAN, NEW sp \in Page,
           TrapMemoryHandler(p, a, exact, sp)
    PROVE  TypeInv'
<1> USE KernelHeapAssumption
<1> DEFINE o == page_table[p]
           qu == free_frame_queue
           S == a .. NUM_PAGES - 1
           t == FillDown(o, S, qu)
           b == current_brk[p]
<1>1. CASE AbortAccess(p, a, exact, sp)
    BY <1>1, ExitTyped DEF AbortAccess
<1>2. CASE GrowStack(p, a, exact, sp) \/ GrowStackFails(p, a, exact, sp)
    <2>1. UserCall(p) /\ current_brk' = current_brk
        BY <1>2 DEF GrowStack, GrowStackFails
    <2>2. \/ Populate(p, t) /\ free_frame_queue' = LeftOver(o, S, qu)
          \/ Leave(p, t, <<>>)
        BY <1>2 DEF GrowStack, GrowStackFails
    <2>3. /\ o \in [Page -> Frame \cup {NULL}] /\ qu \in Seq(Frame)
          /\ b \in 1 .. NUM_PAGES /\ \A i \in 0 .. b - 2 : o[i] # NULL
        BY <2>1, CallState
    <2>4. current_brk' = [current_brk EXCEPT ![p] = b]
        BY <2>1, SameTables
    <2>5. S \in SUBSET Page /\ IsFiniteSet(S)
        <3>1. S \in SUBSET Page
            BY DEF Page
        <3> QED BY <3>1, Layout, FS_Subset
    <2> HIDE DEF o, qu, S, t, b
    <2>6. FilledTyped(o, S, qu, t)
        BY <2>3, <2>5, Layout, FillDownTyped DEF t
    <2>7. \A i \in 0 .. b - 2 : t[i] # NULL
        <3>1. \A i \in 0 .. b - 2 : i \in Page
            BY <2>3 DEF Page
        <3> QED BY <2>3, <2>6, <3>1 DEF FilledTyped
    <2>8. CASE Populate(p, t) /\ free_frame_queue' = LeftOver(o, S, qu)
        BY <2>1, <2>3, <2>4, <2>6, <2>7, <2>8, PopulateTyped DEF o, qu
    <2>9. CASE Leave(p, t, <<>>)
        <3> DEFINE q == <<>>
        <3>1. q \in Seq(Frame) /\ Leave(p, t, q) /\ t \in [Page -> Frame \cup {NULL}]
            BY <2>3, <2>6, <2>9 DEF FilledTyped
        <3> HIDE DEF q
        <3> QED BY <2>1, <2>3, <2>4, <2>7, <3>1, LeaveTyped
    <2> QED BY <2>2, <2>8, <2>9
<1> QED BY <1>1, <1>2 DEF TrapMemoryHandler

(* Brk downwards makes pages valid and moves the break down.               *)
LEMMA BrkShrinkTyped ==
    ASSUME TypeInv, NEW p \in Proc, NEW a \in Page, NEW exact \in BOOLEAN, NEW sp \in Page,
           BrkShrink(p, a, exact, sp)
    PROVE  TypeInv'
<1> USE KernelHeapAssumption, MemoryAssumption
<1> DEFINE S == a .. current_brk[p] - 1
           b == RoundedUp(a, exact)
           T(stale) == [i \in Page |-> IF i \in S /\ page_table[p][i] = NULL THEN stale[i]
                                       ELSE page_table[p][i]]
           Q(f) == [k \in 1 .. Cardinality(S) |-> f]
<1>1. /\ UserCall(p) /\ sp > a /\ a < current_brk[p]
      /\ region_0_pages' = Unmapped(region_0_pages, S)
      /\ current_brk' = [current_brk EXCEPT ![p] = b]
      /\ machine' = "corrupt"
      /\ UNCHANGED <<phase, frame, kernel_brk_offset, overgrown, current_process, pcb,
                     kernel_stack_pages, exiting, growths, ahead>>
    BY DEF BrkShrink
<1>2. PICK stale \in [S -> Stale] : page_table' = [page_table EXCEPT ![p] = T(stale)]
    BY DEF BrkShrink
<1>3. PICK f \in Stale : free_frame_queue' = free_frame_queue \o Q(f)
    BY DEF BrkShrink
<1>4. /\ exiting = "no" /\ current_brk[p] \in 1 .. NUM_PAGES /\ growths \in Nat
      /\ page_table[p] \in [Page -> Frame \cup {NULL}] /\ free_frame_queue \in Seq(Frame)
      /\ \A i \in 0 .. current_brk[p] - 2 : page_table[p][i] # NULL
      /\ region_0_pages \in [Page -> Frame \cup {NULL}]
    BY <1>1, CallState DEF TypeInv, MemoryTypeOK, HeapTypeOK
<1>5. b \in 0 .. NUM_PAGES /\ b <= current_brk[p]
    <2>1. a \in Nat /\ a + 1 <= current_brk[p] /\ current_brk[p] \in Nat /\ current_brk[p] <= NUM_PAGES
        BY <1>1, <1>4, SMTT(60) DEF Page
    <2>2. b = a \/ b = a + 1
        BY DEF RoundedUp
    <2> HIDE DEF b
    <2> QED BY <2>1, <2>2
<1>6. Q(f) \in Seq(Frame)
    <2>1. IsFiniteSet(S)
        <3>1. a \in Int /\ current_brk[p] - 1 \in Int
            BY <1>4 DEF Page
        <3> QED BY <3>1, FS_Interval
    <2>2. Cardinality(S) \in Nat
        BY <2>1, FS_CardinalityType
    <2>3. Q(f) \in [1 .. Cardinality(S) -> Frame]
        OBVIOUS
    <2> QED BY <2>2, <2>3, SeqDef
<1> DEFINE t == T(stale)
           q == free_frame_queue \o Q(f)
<1>7. /\ t \in [Page -> Frame \cup {NULL}]
      /\ \A i \in Page : page_table[p][i] # NULL => t[i] # NULL
    BY <1>4
<1> HIDE DEF Q
<1>8. q \in Seq(Frame)
    BY <1>4, <1>6
<1>9. \A i \in 0 .. b - 2 : t[i] # NULL
    <2>1. \A i \in 0 .. b - 2 : i \in Page /\ i \in 0 .. current_brk[p] - 2
        BY <1>4, <1>5 DEF Page
    <2> QED BY <1>4, <1>7, <2>1
<1>10. region_0_pages' \in [Page -> Frame \cup {NULL}]
    BY <1>1, <1>4 DEF Unmapped
<1> HIDE DEF T, S, t, q, b
<1>11. page_table' = [page_table EXCEPT ![p] = t] /\ free_frame_queue' = q
    BY <1>2, <1>3 DEF t, q
<1>12. exiting' = "no" /\ machine' = "corrupt" /\ growths' \in Nat
    BY <1>1, <1>4
<1> QED BY <1>1, <1>5, <1>7, <1>8, <1>9, <1>10, <1>11, <1>12, UserTyped

(* The entries of region 0 for the stack become those of process q.        *)
LEMMA StackLoaded ==
    ASSUME TypeInv, NEW q \in Proc, LoadStack(q)
    PROVE  /\ StackEntries' = kernel_stack_pages[q]
           /\ region_0_pages' \in [Page -> Frame \cup {NULL}]
           /\ \A i \in Page \ StackPages : region_0_pages'[i] = region_0_pages[i]
<1> USE KernelHeapAssumption
<1>1. /\ region_0_pages \in [Page -> Frame \cup {NULL}]
      /\ kernel_stack_pages[q] \in [KStack -> Frame \cup {NULL}]
    BY DEF TypeInv, MemoryTypeOK, HeapTypeOK
<1>2. /\ \A i \in StackPages : region_0_pages'[i]
                               = kernel_stack_pages[q][i - NUM_PAGES + NUM_KSTACK_FRAMES]
      /\ \A i \in Page \ StackPages : region_0_pages'[i] = region_0_pages[i]
      /\ region_0_pages' = [i \in Page |-> region_0_pages'[i]]
    BY Layout DEF LoadStack
<1>3. \A i \in KStack : region_0_pages'[NUM_PAGES - NUM_KSTACK_FRAMES + i] = kernel_stack_pages[q][i]
    <2> SUFFICES ASSUME NEW i \in KStack
                 PROVE  region_0_pages'[NUM_PAGES - NUM_KSTACK_FRAMES + i] = kernel_stack_pages[q][i]
        OBVIOUS
    <2>1. NUM_PAGES - NUM_KSTACK_FRAMES + i \in StackPages
        BY Layout
    <2>2. (NUM_PAGES - NUM_KSTACK_FRAMES + i) - NUM_PAGES + NUM_KSTACK_FRAMES = i
        BY DEF KStack
    <2> QED BY <1>2, <2>1, <2>2
<1>4. StackEntries' = kernel_stack_pages[q]
    BY <1>1, <1>3 DEF StackEntries
<1>5. \A i \in Page : region_0_pages'[i] \in Frame \cup {NULL}
    BY <1>1, <1>2, Layout
<1>6. region_0_pages' \in [Page -> Frame \cup {NULL}]
    BY <1>2, <1>5
<1> QED BY <1>2, <1>4, <1>6

LEMMA SwitchTyped ==
    ASSUME TypeInv, NEW q \in Proc, (\E p \in Proc : KCSwitch(p, q)) \/ ExitSwitch(q)
    PROVE  TypeInv'
<1> USE KernelHeapAssumption, MemoryAssumption
<1>1. MemoryTypeOK /\ CpuInPlace /\ BrksSet /\ UserHeapMapped
    BY DEF TypeInv
<1>2. /\ machine = "up" /\ pcb[q] = "live" /\ LoadStack(q) /\ current_process' = q
      /\ exiting' = "no" /\ ahead' \in {ahead, 0}
      /\ UNCHANGED <<phase, frame, kernel_brk_offset, overgrown, free_frame_queue, pcb, page_table,
                     current_brk, machine, growths>>
    BY DEF KCSwitch, ExitSwitch, InKernel
<1>3. kernel_stack_pages' \in [Proc -> [KStack -> Frame \cup {NULL}]]
    <2>1. StackEntries \in [KStack -> Frame \cup {NULL}]
        BY <1>1, StackEntriesType DEF MemoryTypeOK, HeapTypeOK
    <2>2. CASE \E p \in Proc : KCSwitch(p, q)
        BY <1>1, <2>1, <2>2 DEF KCSwitch, MemoryTypeOK
    <2>3. CASE ExitSwitch(q)
        BY <1>1, <2>3 DEF ExitSwitch, MemoryTypeOK
    <2> QED BY <2>2, <2>3
<1>4. region_0_pages' \in [Page -> Frame \cup {NULL}]
    BY <1>2, StackLoaded
<1>5. HeapTypeOK'
    BY <1>1, <1>2, <1>4 DEF MemoryTypeOK, HeapTypeOK
<1>6. MemoryTypeOK'
    <2>1. ahead' \in Int
        BY <1>1, <1>2 DEF MemoryTypeOK
    <2> QED BY <1>1, <1>2, <1>3, <1>5, <2>1 DEF MemoryTypeOK
<1>7. CpuInPlace'
    BY <1>1, <1>2 DEF CpuInPlace
<1>8. BrksSet'
    BY <1>1, <1>2 DEF BrksSet
<1>9. UserHeapMapped'
    <2>1. phase = "up"
        BY <1>1, <1>2 DEF CpuInPlace, MemoryTypeOK, HeapTypeOK
    <2>2. CASE exiting = "no"
        BY <1>1, <1>2, <2>2 DEF UserHeapMapped
    <2>3. CASE exiting # "no"
        <3>1. current_process = NULL
            BY <1>1, <1>2, <2>1, <2>3 DEF CpuInPlace, KCSwitch, InKernel, ExitSwitch
        <3> QED BY <1>1, <1>2, <3>1 DEF UserHeapMapped
    <2> QED BY <2>2, <2>3
<1> QED BY <1>6, <1>7, <1>8, <1>9 DEF TypeInv

LEMMA ExitStackTyped ==
    ASSUME TypeInv, NEW p \in Proc, ExitStack(p)
    PROVE  TypeInv'
<1> USE KernelHeapAssumption, MemoryAssumption
<1> DEFINE st == kernel_stack_pages[p]
           z == free_frame_queue \o FramesUp(st, KStack)
<1>1. MemoryTypeOK /\ CpuInPlace /\ BrksSet /\ UserHeapMapped
    BY DEF TypeInv
<1>2. /\ machine = "up" /\ exiting = "pages_freed" /\ current_process = p
      /\ free_frame_queue' = z
      /\ kernel_stack_pages' = [kernel_stack_pages EXCEPT ![p] = NoStack]
      /\ pcb' = [pcb EXCEPT ![p] = "gone"]
      /\ current_process' = NULL /\ exiting' = "stack_freed"
      /\ ahead' = Len(free_frame_queue)
      /\ UNCHANGED <<phase, frame, region_0_pages, kernel_brk_offset, overgrown, page_table,
                     current_brk, machine, growths>>
    BY DEF ExitStack
<1>3. st \in [KStack -> Frame \cup {NULL}] /\ free_frame_queue \in Seq(Frame)
    BY <1>1 DEF MemoryTypeOK, HeapTypeOK
<1>4. z \in Seq(Frame) /\ Len(free_frame_queue) \in Int
    <2> HIDE DEF st
    <2>1. FramesUp(st, KStack) \in Seq(Frame)
        BY <1>3, Layout, FramesUpLemma DEF Lists
    <2> QED BY <1>3, <2>1
<1> HIDE DEF z
<1>5. /\ \A r \in Proc : pcb'[r] = IF r = p THEN "gone" ELSE pcb[r]
      /\ pcb' \in [Proc -> {"unused", "live", "gone"}]
      /\ kernel_stack_pages' \in [Proc -> [KStack -> Frame \cup {NULL}]]
    BY <1>1, <1>2, NoTables DEF MemoryTypeOK
<1>6. HeapTypeOK'
    BY <1>1, <1>2, <1>4 DEF MemoryTypeOK, HeapTypeOK
<1>7. MemoryTypeOK'
    BY <1>1, <1>2, <1>4, <1>5, <1>6 DEF MemoryTypeOK
<1>8. CpuInPlace'
    BY <1>1, <1>2 DEF CpuInPlace
<1>9. BrksSet'
    BY <1>1, <1>2, <1>5 DEF BrksSet
<1>10. UserHeapMapped'
    BY <1>1, <1>2, <1>5 DEF UserHeapMapped
<1> QED BY <1>7, <1>8, <1>9, <1>10 DEF TypeInv

(* What Fork takes from list q: table T and stack s of the child, and what *)
(* is left.                                                                *)
LEMMA ForkFramesTyped ==
    ASSUME NEW p \in Proc, page_table[p] \in [Page -> Frame \cup {NULL}],
           NEW n, n = Cardinality(Valid(page_table[p])),
           NEW q \in Seq(Frame), Len(q) >= n + NUM_KSTACK_FRAMES,
           NEW T, T = ForkFrames(p, q), NEW s, s = [i \in KStack |-> q[n + 1 + i]],
           NEW d, d = Drop(q, n + NUM_KSTACK_FRAMES)
    PROVE  /\ n \in Nat /\ n <= Len(q) /\ LeftOver(NoPages, Valid(page_table[p]), q) = Drop(q, n)
           /\ Valid(page_table[p]) \in SUBSET Page /\ IsFiniteSet(Valid(page_table[p]))
           /\ T = FillUp(NoPages, Valid(page_table[p]), q)
           /\ T \in [Page -> Frame \cup {NULL}] /\ s \in [KStack -> Frame \cup {NULL}]
           /\ d \in Seq(Frame)
           /\ \A i \in KStack : n + 1 + i \in n + 1 .. n + NUM_KSTACK_FRAMES /\ n + 1 + i \in 1 .. Len(q)
           /\ \A i \in Page : page_table[p][i] # NULL => T[i] # NULL
<1> USE KernelHeapAssumption
<1> DEFINE V == Valid(page_table[p])
           N == NoPages
<1>1. V \in SUBSET Page /\ IsFiniteSet(V) /\ \A i \in Page : i \in V <=> page_table[p][i] # NULL
    <2>1. V \in SUBSET Page
        BY DEF Valid
    <2> QED BY <2>1, Layout, FS_Subset DEF Valid
<1>2. n \in Nat /\ n + NUM_KSTACK_FRAMES \in Nat /\ n <= Len(q) /\ n + NUM_KSTACK_FRAMES <= Len(q)
    <2>1. n \in Nat
        BY <1>1, FS_CardinalityType
    <2> QED BY <2>1
<1>3. N \in [Page -> Frame \cup {NULL}] /\ DOMAIN N = Page /\ Missing(N, V) = V
    BY <1>1 DEF NoPages, Missing
<1>4. T = [i \in Page |-> IF i \in V THEN q[1 + Cardinality({j \in V : j < i})] ELSE NULL]
    BY DEF ForkFrames
<1>5. n = Cardinality(V)
    OBVIOUS
<1>6. LeftOver(N, V, q) = Drop(q, n) /\ Enough(N, V, q)
    BY <1>2, <1>3 DEF LeftOver, Enough
<1> HIDE DEF V, N
<1>7. T = FillUp(N, V, q)
    <2>1. \A i \in V : 1 + Cardinality({j \in V : j < i}) <= Len(q)
        <3>1. Numbers([i \in V |-> UpRank(V, i)], V)
            BY <1>1, Layout, UpRankNumbers
        <3>2. \A i \in V : UpRank(V, i) \in 0 .. n - 1
            BY <1>5, <3>1 DEF Numbers
        <3>3. Len(q) \in Nat
            OBVIOUS
        <3>4. \A k \in 0 .. n - 1 : 1 + k <= Len(q)
            BY <1>2, <3>3
        <3> QED BY <3>2, <3>4 DEF UpRank
    <2>2. \A i \in Page \ V : N[i] = NULL
        BY DEF N, NoPages
    <2>3. FillUp(N, V, q) = [i \in Page |->
              IF i \in V /\ 1 + Cardinality({j \in V : j < i}) <= Len(q)
              THEN q[1 + Cardinality({j \in V : j < i})] ELSE N[i]]
        BY <1>3 DEF FillUp
    <2> QED BY <1>4, <2>1, <2>2, <2>3
<1>8. FilledTyped(N, V, q, T)
    <2>1. FilledTyped(N, V, q, FillUp(N, V, q))
        BY <1>1, <1>3, Layout, FillUpTyped
    <2> QED BY <1>7, <2>1
<1>9. T \in [Page -> Frame \cup {NULL}] /\ \A i \in V : T[i] # NULL
    BY <1>3, <1>6, <1>8 DEF FilledTyped
<1>10. \A k \in 1 .. Len(q) : q[k] \in Frame
    OBVIOUS
<1>11. \A i \in KStack : n + 1 + i \in n + 1 .. n + NUM_KSTACK_FRAMES /\ n + 1 + i \in 1 .. Len(q)
    BY <1>2, SMTT(60) DEF KStack
<1>12. s \in [KStack -> Frame \cup {NULL}]
    BY <1>10, <1>11
<1>13. d \in Seq(Frame)
    BY <1>2, DropLemma
<1> QED BY <1>1, <1>2, <1>6, <1>7, <1>9, <1>11, <1>12, <1>13 DEF V, N

LEMMA ForkTyped ==
    ASSUME TypeInv, NEW p \in Proc, NEW c \in Proc, ForkHandler(p, c)
    PROVE  TypeInv'
<1> USE MemoryAssumption
<1> DEFINE n == Cardinality(Valid(page_table[p]))
           q == free_frame_queue
           T == ForkFrames(p, q)
           s == [i \in KStack |-> q[n + 1 + i]]
           d == Drop(q, n + NUM_KSTACK_FRAMES)
           b == current_brk[p]
<1>1. /\ UserCall(p) /\ pcb[c] = "unused" /\ Len(q) >= n + NUM_KSTACK_FRAMES
      /\ pcb' = [pcb EXCEPT ![c] = "live"]
      /\ page_table' = [page_table EXCEPT ![c] = T]
      /\ kernel_stack_pages' = [kernel_stack_pages EXCEPT ![c] = s]
      /\ current_brk' = [current_brk EXCEPT ![c] = b]
      /\ free_frame_queue' = d
      /\ region_0_pages' = Unmapped(region_0_pages, TempPages)
      /\ UNCHANGED <<phase, frame, kernel_brk_offset, overgrown, current_process, exiting, machine,
                     growths, ahead>>
    BY DEF ForkHandler
<1>2. MemoryTypeOK /\ CpuInPlace /\ BrksSet /\ UserHeapMapped
    BY DEF TypeInv
<1>3. /\ phase = "up" /\ machine = "up" /\ exiting = "no" /\ current_process = p
      /\ pcb[p] = "live" /\ b \in 1 .. NUM_PAGES /\ q \in Seq(Frame)
      /\ page_table[p] \in [Page -> Frame \cup {NULL}]
      /\ \A i \in 0 .. b - 2 : page_table[p][i] # NULL
    BY <1>1, CallState
<1>4. region_0_pages' \in [Page -> Frame \cup {NULL}]
    BY <1>1, <1>2 DEF Unmapped, MemoryTypeOK, HeapTypeOK
<1>5. /\ T \in [Page -> Frame \cup {NULL}] /\ s \in [KStack -> Frame \cup {NULL}]
      /\ d \in Seq(Frame)
      /\ \A i \in Page : page_table[p][i] # NULL => T[i] # NULL
    <2>1. /\ n = Cardinality(Valid(page_table[p])) /\ Len(q) >= n + NUM_KSTACK_FRAMES
          /\ T = ForkFrames(p, q) /\ s = [i \in KStack |-> q[n + 1 + i]]
          /\ d = Drop(q, n + NUM_KSTACK_FRAMES)
        BY <1>1
    <2> HIDE DEF n, q, T, s, d
    <2> QED BY <1>3, <2>1, ForkFramesTyped
<1> HIDE DEF n, T, s, d, b
<1>6. \A r \in Proc : /\ pcb'[r] = IF r = c THEN "live" ELSE pcb[r]
                      /\ page_table'[r] = IF r = c THEN T ELSE page_table[r]
                      /\ current_brk'[r] = IF r = c THEN b ELSE current_brk[r]
    BY <1>1, <1>2 DEF MemoryTypeOK
<1>7. HeapTypeOK'
    BY <1>1, <1>2, <1>4, <1>5 DEF MemoryTypeOK, HeapTypeOK
<1>8. MemoryTypeOK'
    <2>1. /\ pcb' \in [Proc -> {"unused", "live", "gone"}]
          /\ page_table' \in [Proc -> [Page -> Frame \cup {NULL}]]
          /\ kernel_stack_pages' \in [Proc -> [KStack -> Frame \cup {NULL}]]
          /\ current_brk' \in [Proc -> 0 .. NUM_PAGES]
        BY <1>1, <1>2, <1>3, <1>5 DEF MemoryTypeOK
    <2> QED BY <1>1, <1>2, <1>7, <2>1 DEF MemoryTypeOK
<1>9. CpuInPlace'
    BY <1>1, <1>3, <1>6 DEF CpuInPlace
<1>10. BrksSet'
    BY <1>2, <1>3, <1>6 DEF BrksSet
<1>11. UserHeapMapped'
    <2> SUFFICES ASSUME NEW r \in Proc \ {idle_process}, pcb'[r] = "live",
                        NEW i \in 0 .. current_brk'[r] - 2
                 PROVE  page_table'[r][i] # NULL
        BY DEF UserHeapMapped
    <2>1. CASE r = c
        <3>1. i \in 0 .. b - 2 /\ i \in Page
            BY <1>3, <1>6, <2>1, KernelHeapAssumption DEF Page
        <3> QED BY <1>3, <1>5, <1>6, <2>1, <3>1
    <2>2. CASE r # c
        BY <1>2, <1>3, <1>6, <2>2 DEF UserHeapMapped
    <2> QED BY <2>1, <2>2
<1> QED BY <1>8, <1>9, <1>10, <1>11 DEF TypeInv

LEMMA CallFailsTyped ==
    ASSUME TypeInv, NEW p \in Proc, ForkNoFrames(p) \/ \E prog \in Programs : ExecNoFrames(p, prog)
    PROVE  TypeInv'
<1>1. /\ UserCall(p) /\ free_frame_queue' = <<>>
      /\ UNCHANGED <<phase, frame, kernel_brk_offset, overgrown, memVars>>
    BY DEF ForkNoFrames, ExecNoFrames
<1>2. region_0_pages' \in [Page -> Frame \cup {NULL}]
    <2>1. region_0_pages \in [Page -> Frame \cup {NULL}]
        BY DEF TypeInv, MemoryTypeOK, HeapTypeOK
    <2> QED BY <2>1 DEF ForkNoFrames, ExecNoFrames, Unmapped
<1> QED BY <1>1, <1>2, NoFramesTyped

(* malloc moves the kernel break to page n.                                *)
LEMMA SetKernelBrkTyped ==
    ASSUME HeapTypeOK, NEW n \in Page, SetKernelBrk(n)
    PROVE  HeapTypeOK'
<1> USE KernelHeapAssumption
<1> DEFINE R == region_0_pages
           H == HeapPages(n)
           q == free_frame_queue
<1>1. /\ phase \in {"boot", "up"} /\ frame \in 0 .. NumFrames /\ R \in [Page -> Frame \cup {NULL}]
      /\ kernel_brk_offset \in 0 .. HEAP_LIMIT - OrigKernelBrkPage /\ q \in Seq(Frame)
    BY Zenon DEF HeapTypeOK
<1>2. /\ n >= OrigKernelBrkPage /\ n <= HEAP_LIMIT
      /\ IF n < KernelBrkPage THEN shrink_heap_pages(n) ELSE expand_heap_pages(n)
      /\ UNCHANGED <<phase, frame>>
    BY Zenon DEF SetKernelBrk
<1>3. overgrown' \in BOOLEAN
    <2>1. overgrown' = (overgrown \/ Overgrows(n))
        BY Zenon DEF SetKernelBrk
    <2> QED BY <2>1, Zenon
<1> HIDE DEF SetKernelBrk, HeapTypeOK
<1>4. KernelBrkPage \in Nat /\ KernelBrkPage >= OrigKernelBrkPage /\ KernelBrkPage <= HEAP_LIMIT
    BY <1>1 DEF KernelBrkPage
<1>5. n - OrigKernelBrkPage \in 0 .. HEAP_LIMIT - OrigKernelBrkPage
    BY <1>2 DEF Page
<1>6. \A i \in Page : i \in Frame
    BY DEF Page, Frame
<1>7. H \in SUBSET Page /\ IsFiniteSet(H)
    <2>1. H \in SUBSET Page
        BY <1>4 DEF HeapPages, Page
    <2> QED BY <2>1, Layout, FS_Subset
<1>8. CASE n < KernelBrkPage
    <2> DEFINE S == n + 1 .. KernelBrkPage
               z == q \o FramesDown(R, S)
    <2>1. /\ region_0_pages' = [i \in Page |-> IF i \in S THEN NULL ELSE R[i]]
          /\ free_frame_queue' \in {q, z}
          /\ kernel_brk_offset' = n - OrigKernelBrkPage
        BY <1>2, <1>8 DEF shrink_heap_pages
    <2>2. S \in SUBSET Page /\ IsFiniteSet(S)
        <3>1. S \in SUBSET Page
            BY <1>4 DEF Page
        <3> QED BY <3>1, Layout, FS_Subset
    <2> HIDE DEF S
    <2>3. z \in Seq(Frame)
        <3>1. FramesDown(R, S) \in Seq(Frame)
            BY <1>1, <2>2, Layout, FramesDownLemma DEF Lists
        <3> QED BY <1>1, <3>1
    <2> HIDE DEF z
    <2>4. region_0_pages' \in [Page -> Frame \cup {NULL}]
        BY <1>1, <2>1
    <2> QED BY <1>1, <1>2, <1>3, <1>5, <2>1, <2>3, <2>4, Zenon DEF HeapTypeOK
<1>9. CASE ~(n < KernelBrkPage) /\ phase = "boot"
    <2>1. /\ region_0_pages' = [i \in Page |-> IF i \in Missing(R, H) THEN i ELSE R[i]]
          /\ kernel_brk_offset' \in {n - OrigKernelBrkPage, kernel_brk_offset}
          /\ free_frame_queue' = q
        BY <1>2, <1>9 DEF expand_heap_pages
    <2>2. region_0_pages' \in [Page -> Frame \cup {NULL}]
        BY <1>1, <1>6, <2>1
    <2> QED BY <1>1, <1>2, <1>3, <1>5, <2>1, <2>2, Zenon DEF HeapTypeOK
<1>10. CASE ~(n < KernelBrkPage) /\ phase # "boot"
    <2>1. /\ region_0_pages' = FillUp(R, H, q)
          /\ kernel_brk_offset' \in {n - OrigKernelBrkPage, kernel_brk_offset}
          /\ free_frame_queue' = LeftOver(R, H, q)
        BY <1>2, <1>10 DEF expand_heap_pages
    <2> HIDE DEF H
    <2>2. FilledTyped(R, H, q, FillUp(R, H, q))
        BY <1>1, <1>7, Layout, FillUpTyped
    <2>3. region_0_pages' \in [Page -> Frame \cup {NULL}] /\ free_frame_queue' \in Seq(Frame)
        BY <1>1, <2>1, <2>2 DEF FilledTyped
    <2> QED BY <1>1, <1>2, <1>3, <1>5, <2>1, <2>3, Zenon DEF HeapTypeOK
<1> QED BY <1>8, <1>9, <1>10

(* A step that leaves the processes alone.                                 *)
LEMMA SystemTyped ==
    ASSUME TypeInv, HeapTypeOK', phase' = phase, growths' \in Nat, ahead' \in Int,
           UNCHANGED <<current_process, pcb, page_table, kernel_stack_pages, current_brk,
                       exiting, machine>>
    PROVE  TypeInv'
<1>1. MemoryTypeOK /\ CpuInPlace /\ BrksSet /\ UserHeapMapped
    BY DEF TypeInv
<1>2. MemoryTypeOK'
    BY <1>1 DEF MemoryTypeOK
<1>3. CpuInPlace' /\ BrksSet' /\ UserHeapMapped'
    BY <1>1 DEF CpuInPlace, BrksSet, UserHeapMapped
<1> QED BY <1>2, <1>3 DEF TypeInv

LEMMA HeapMoveTyped ==
    ASSUME TypeInv, NEW n \in Page, HeapMove(n)
    PROVE  TypeInv'
<1>1. HeapTypeOK /\ growths \in Nat /\ ahead \in Int
    BY DEF TypeInv, MemoryTypeOK
<1>2. /\ SetKernelBrk(n) /\ growths' = growths + 1
      /\ ahead' = IF exiting = "stack_freed" THEN ahead - Taken ELSE ahead
      /\ UNCHANGED <<current_process, pcb, page_table, kernel_stack_pages, current_brk,
                     exiting, machine>>
    BY Zenon DEF HeapMove
<1>3. HeapTypeOK' /\ phase' = phase
    <2>1. phase' = phase
        BY <1>2, Zenon DEF SetKernelBrk
    <2> QED BY <1>1, <1>2, <2>1, SetKernelBrkTyped
<1>4. Taken \in Int
    <2>1. free_frame_queue \in Seq(Frame) /\ free_frame_queue' \in Seq(Frame)
        BY <1>1, <1>3, Zenon DEF HeapTypeOK
    <2> QED BY <2>1 DEF Taken
<1>5. ahead' \in Int /\ growths' \in Nat
    BY <1>1, <1>2, <1>4
<1> QED BY <1>2, <1>3, <1>5, SystemTyped

LEMMA BootingTyped ==
    ASSUME TypeInv, Booting
    PROVE  TypeInv'
<1>1. HeapTypeOK /\ growths \in Nat /\ ahead \in Int
    BY DEF TypeInv, MemoryTypeOK
<1>2. UNCHANGED memVars
    BY DEF Booting
<1>3. HeapTypeOK' /\ phase' = phase
    <2>1. CASE init_free_frame_queue
        <3>1. frame \in Frame /\ frame' \in 0 .. NumFrames
            BY <1>1, <2>1, KernelHeapAssumption DEF init_free_frame_queue, HeapTypeOK, Frame
        <3> QED BY <1>1, <2>1, <3>1 DEF init_free_frame_queue, HeapTypeOK
    <2>2. CASE \E n \in Page : BootBrk(n)
        <3>1. PICK n \in Page : SetKernelBrk(n)
            BY <2>2 DEF BootBrk
        <3>2. phase' = phase
            BY <3>1, Zenon DEF SetKernelBrk
        <3> QED BY <1>1, <3>1, <3>2, SetKernelBrkTyped
    <2> QED BY <2>1, <2>2 DEF Booting, BootNext
<1>4. growths' \in Nat /\ ahead' \in Int
    BY <1>1, <1>2 DEF memVars
<1>5. UNCHANGED <<current_process, pcb, page_table, kernel_stack_pages, current_brk,
                  exiting, machine>>
    BY <1>2 DEF memVars
<1> QED BY <1>3, <1>4, <1>5, SystemTyped

LEMMA KernelStartTyped ==
    ASSUME TypeInv, NEW prog \in Programs, KernelStart(prog)
    PROVE  TypeInv'
<1> USE KernelHeapAssumption, MemoryAssumption
<1> DEFINE f == free_frame_queue
           k == 1 + NUM_KSTACK_FRAMES
           q == Drop(f, k)
           t == [NoPages EXCEPT ![NUM_PAGES - 1] = f[1]]
           s == [i \in KStack |-> f[2 + i]]
           T == NewPages(prog, q)
           d == Drop(q, FramesPopped)
           b == BrkOf(prog)
           enough == Len(f) >= k + FramesPopped
<1>1. /\ phase = "boot" /\ Loadable(prog) /\ phase' = "up"
      /\ UNCHANGED <<frame, kernel_brk_offset, overgrown, exiting, growths, ahead>>
    BY DEF KernelStart
<1>2. MemoryTypeOK /\ CpuInPlace /\ HeapTypeOK /\ f \in Seq(Frame)
    BY DEF TypeInv, MemoryTypeOK, HeapTypeOK
<1>3. /\ machine = "up" /\ exiting = "no" /\ current_process = NULL
      /\ \A r \in Proc : pcb[r] = "unused"
    BY <1>1, <1>2 DEF CpuInPlace
<1>4. CASE ~enough
    <2>1. /\ machine' = "halted"
          /\ UNCHANGED <<page_table, kernel_stack_pages, free_frame_queue, current_brk, pcb,
                         current_process, region_0_pages>>
        BY <1>4 DEF KernelStart
    <2>2. MemoryTypeOK'
        BY <1>1, <1>2, <2>1 DEF MemoryTypeOK, HeapTypeOK
    <2>3. CpuInPlace' /\ BrksSet' /\ UserHeapMapped'
        BY <1>1, <1>3, <2>1 DEF CpuInPlace, BrksSet, UserHeapMapped
    <2> QED BY <2>2, <2>3 DEF TypeInv
<1>5. CASE enough
    <2>1. /\ page_table' = [page_table EXCEPT ![idle_process] = t, ![init_process] = T]
          /\ kernel_stack_pages' = [kernel_stack_pages EXCEPT ![idle_process] = s]
          /\ free_frame_queue' = d
          /\ current_brk' = [current_brk EXCEPT ![init_process] = b]
          /\ pcb' = [pcb EXCEPT ![idle_process] = "live", ![init_process] = "live"]
          /\ current_process' = init_process
          /\ region_0_pages' = [i \in Page |-> IF i \in TempPages THEN NULL ELSE region_0_pages[i]]
          /\ machine' = "up"
        BY <1>3, <1>5 DEF KernelStart
    <2>2. k \in Nat /\ FramesPopped \in Nat /\ k <= Len(f) /\ Len(f) \in Nat
        BY <1>2, <1>5 DEF FramesPopped
    <2>3. q \in Seq(Frame) /\ Len(q) = Len(f) - k
        BY <1>2, <2>2, DropLemma
    <2>4. Len(q) >= FramesPopped
        BY <1>5, <2>2, <2>3
    <2>5. \A j \in 1 .. Len(f) : f[j] \in Frame
        BY <1>2
    <2>6. t \in [Page -> Frame \cup {NULL}]
        <3>1. 1 \in 1 .. Len(f)
            BY <2>2
        <3> QED BY <2>5, <3>1, NoTables
    <2>7. s \in [KStack -> Frame \cup {NULL}]
        <3>1. \A i \in KStack : 2 + i \in 1 .. Len(f)
            BY <2>2 DEF KStack
        <3> QED BY <2>5, <3>1
    <2> HIDE DEF q, t, s, enough
    <2>8. /\ T \in [Page -> Frame \cup {NULL}] /\ d \in Seq(Frame)
          /\ b \in 1 .. NUM_PAGES /\ \A i \in 0 .. b - 2 : T[i] # NULL
        BY <1>1, <2>3, <2>4, NewPagesTyped
    <2> HIDE DEF f, T, d, b
    <2>9. /\ pcb' \in [Proc -> {"unused", "live", "gone"}]
          /\ page_table' \in [Proc -> [Page -> Frame \cup {NULL}]]
          /\ kernel_stack_pages' \in [Proc -> [KStack -> Frame \cup {NULL}]]
          /\ current_brk' \in [Proc -> 0 .. NUM_PAGES]
          /\ region_0_pages' \in [Page -> Frame \cup {NULL}]
        <3>1. pcb' \in [Proc -> {"unused", "live", "gone"}]
            BY <1>2, <2>1 DEF MemoryTypeOK
        <3>2. page_table' \in [Proc -> [Page -> Frame \cup {NULL}]]
            BY <1>2, <2>1, <2>6, <2>8 DEF MemoryTypeOK
        <3>3. kernel_stack_pages' \in [Proc -> [KStack -> Frame \cup {NULL}]]
            BY <1>2, <2>1, <2>7 DEF MemoryTypeOK
        <3>4. current_brk' \in [Proc -> 0 .. NUM_PAGES]
            BY <1>2, <2>1, <2>8 DEF MemoryTypeOK
        <3>5. region_0_pages' \in [Page -> Frame \cup {NULL}]
            BY <1>2, <2>1 DEF HeapTypeOK
        <3> QED BY <3>1, <3>2, <3>3, <3>4, <3>5
    <2>10. \A r \in Proc : pcb'[r] = IF r \in {idle_process, init_process} THEN "live" ELSE "unused"
        BY <1>2, <1>3, <2>1 DEF MemoryTypeOK
    <2>11. page_table'[init_process] = T /\ current_brk'[init_process] = b
        BY <1>2, <2>1 DEF MemoryTypeOK
    <2>12. HeapTypeOK'
        BY <1>1, <1>2, <2>1, <2>8, <2>9 DEF HeapTypeOK
    <2>13. MemoryTypeOK'
        BY <1>1, <1>2, <2>1, <2>9, <2>12 DEF MemoryTypeOK
    <2>14. CpuInPlace'
        BY <1>1, <1>3, <2>1, <2>10 DEF CpuInPlace
    <2>15. BrksSet' /\ UserHeapMapped'
        BY <2>8, <2>10, <2>11 DEF BrksSet, UserHeapMapped
    <2> QED BY <2>13, <2>14, <2>15 DEF TypeInv
<1> QED BY <1>4, <1>5

LEMMA TypeInvInit == MemoryInit => TypeInv
<1> USE KernelHeapAssumption, MemoryAssumption
<1> SUFFICES ASSUME MemoryInit PROVE TypeInv
    OBVIOUS
<1>1. HeapTypeOK
    <2>1. BootTypeOK
        BY BootInvInit DEF MemoryInit, BootInv
    <2>2. overgrown \in BOOLEAN
        BY Zenon DEF MemoryInit, HeapInit
    <2>3. kernel_brk_offset \in 0 .. HEAP_LIMIT - OrigKernelBrkPage
        BY <2>1 DEF BootTypeOK
    <2> QED BY <2>1, <2>2, <2>3 DEF BootTypeOK, HeapTypeOK
<1>2. MemoryTypeOK
    BY <1>1, NoTables DEF MemoryTypeOK, MemoryInit
<1>3. CpuInPlace /\ BrksSet /\ UserHeapMapped
    BY DEF MemoryInit, HeapInit, CpuInPlace, BrksSet, UserHeapMapped
<1> QED BY <1>2, <1>3 DEF TypeInv

LEMMA TypeInvNext == TypeInv /\ [MemoryNext]_memoryVars => TypeInv'
<1> USE MemoryAssumption
<1> SUFFICES ASSUME TypeInv, [MemoryNext]_memoryVars PROVE TypeInv'
    OBVIOUS
<1>1. CASE Booting
    BY <1>1, BootingTyped
<1>2. CASE \E prog \in Programs : KernelStart(prog)
    BY <1>2, KernelStartTyped
<1>3. CASE \E p \in Proc, prog \in Programs :
              ExecLoads(p, prog) \/ ExecNoFrames(p, prog) \/ ExecKilled(p, prog)
    BY <1>3, ExecTyped, CallFailsTyped
<1>4. CASE \E p, q \in Proc : ForkHandler(p, q) \/ KCSwitch(p, q)
    BY <1>4, ForkTyped, SwitchTyped
<1>5. CASE \E p \in Proc : ForkNoFrames(p) \/ ExitHandler(p) \/ ExitStack(p) \/ ExitSwitch(p)
    BY <1>5, CallFailsTyped, ExitTyped, ExitStackTyped, SwitchTyped
<1>6. CASE \E p \in Proc, addr \in Addresses, sp \in StackPointers :
              \/ BrkGrow(p, addr[1], addr[2], sp) \/ BrkShrink(p, addr[1], addr[2], sp)
              \/ TrapMemoryHandler(p, addr[1], addr[2], sp)
    <2>1. \A addr \in Addresses : addr[1] \in Page /\ addr[2] \in BOOLEAN
        OBVIOUS
    <2>2. \A sp \in StackPointers : sp \in Page
        OBVIOUS
    <2> QED BY <1>6, <2>1, <2>2, BrkGrowTyped, BrkShrinkTyped, TrapTyped
<1>7. CASE \E n \in Page : HeapMove(n)
    BY <1>7, HeapMoveTyped
<1>8. CASE UNCHANGED memoryVars
    <2>1. MemoryTypeOK /\ CpuInPlace /\ BrksSet /\ UserHeapMapped
        BY DEF TypeInv
    <2>2. MemoryTypeOK'
        BY <1>8, <2>1 DEF MemoryTypeOK, HeapTypeOK, memoryVars, heapVars, memVars
    <2>3. CpuInPlace' /\ BrksSet' /\ UserHeapMapped'
        BY <1>8, <2>1 DEF CpuInPlace, BrksSet, UserHeapMapped, memoryVars, heapVars, memVars
    <2> QED BY <2>2, <2>3 DEF TypeInv
<1> QED BY <1>1, <1>2, <1>3, <1>4, <1>5, <1>6, <1>7, <1>8 DEF MemoryNext, Stopped

(* Types, the place of the CPU and the breaks of processes are right       *)
(* always, also after a Brk downwards and when the heap grew too far.      *)
THEOREM TypeInvHolds == MemorySpec => []TypeInv
    BY TypeInvInit, TypeInvNext, PTL DEF MemorySpec

(* Damage is never repaired.                                               *)
LEMMA IntactBefore ==
    ASSUME TypeInv, [MemoryNext]_memoryVars, Intact'
    PROVE  Intact
<1>1. machine' # "corrupt" /\ ~overgrown'
    BY DEF Intact
<1>2. overgrown => overgrown'
    <2>1. CASE Booting
        BY <2>1, Zenon DEF Booting, BootNext, init_free_frame_queue, BootBrk, SetKernelBrk
    <2>2. CASE \E n \in Page : HeapMove(n)
        BY <2>2, Zenon DEF HeapMove, SetKernelBrk
    <2>3. CASE ~Booting /\ ~\E n \in Page : HeapMove(n)
        <3>1. CASE \E prog \in Programs : KernelStart(prog)
            <4>1. UNCHANGED <<frame, kernel_brk_offset, overgrown, exiting, growths, ahead>>
                BY <3>1, SMT DEF KernelStart
            <4> QED BY <4>1, Zenon
        <3>2. CASE \E p \in Proc, prog \in Programs :
                      ExecLoads(p, prog) \/ ExecNoFrames(p, prog) \/ ExecKilled(p, prog)
            BY <3>2, Zenon DEF ExecNoFrames, ExecLoads, ExecKilled, Leave
        <3>3. CASE \E p, q \in Proc : ForkHandler(p, q) \/ KCSwitch(p, q)
            BY <3>3, Zenon DEF ForkHandler, KCSwitch
        <3>4. CASE \E p \in Proc :
                      ForkNoFrames(p) \/ ExitHandler(p) \/ ExitStack(p) \/ ExitSwitch(p)
            BY <3>4, Zenon DEF ForkNoFrames, ExitHandler, Leave, ExitStack, ExitSwitch
        <3>5. CASE \E p \in Proc, addr \in Addresses, sp \in StackPointers :
                      \/ BrkGrow(p, addr[1], addr[2], sp) \/ BrkShrink(p, addr[1], addr[2], sp)
                      \/ TrapMemoryHandler(p, addr[1], addr[2], sp)
            <4>1. PICK p \in Proc, addr \in Addresses, sp \in StackPointers :
                     \/ BrkGrow(p, addr[1], addr[2], sp) \/ BrkShrink(p, addr[1], addr[2], sp)
                     \/ TrapMemoryHandler(p, addr[1], addr[2], sp)
                BY <3>5, Zenon
            <4>2. CASE BrkGrow(p, addr[1], addr[2], sp)
                BY <4>2, Zenon DEF BrkGrow, Populate
            <4>3. CASE BrkShrink(p, addr[1], addr[2], sp)
                BY <4>3, Zenon DEF BrkShrink
            <4>4. CASE TrapMemoryHandler(p, addr[1], addr[2], sp)
                BY <4>4, Zenon DEF TrapMemoryHandler, GrowStack, Populate, GrowStackFails,
                              AbortAccess, ExitHandler, Leave
            <4> QED BY <4>1, <4>2, <4>3, <4>4, Zenon
        <3>6. CASE UNCHANGED memoryVars
            BY <3>6, Zenon DEF memoryVars, heapVars
        <3> QED BY <2>3, <3>1, <3>2, <3>3, <3>4, <3>5, <3>6, Zenon DEF MemoryNext, Stopped
    <2> QED BY <2>1, <2>2, <2>3
<1>3. machine = "corrupt" => machine' = "corrupt"
    <2> SUFFICES ASSUME machine = "corrupt" PROVE machine' = machine
        OBVIOUS
    <2>1. phase # "boot"
        BY DEF TypeInv, CpuInPlace
    <2>2. UNCHANGED memoryVars
        BY <2>1 DEF MemoryNext, Booting, BootNext, init_free_frame_queue, BootBrk, KernelStart,
               ExecLoads, ExecNoFrames, ExecKilled, ForkHandler, KCSwitch, ForkNoFrames,
               ExitHandler, ExitStack, ExitSwitch, BrkGrow, BrkShrink, TrapMemoryHandler,
               GrowStack, GrowStackFails, AbortAccess, UserCall, InKernel, HeapMove, Stopped
    <2> QED BY <2>2 DEF memoryVars, memVars
<1> QED BY <1>1, <1>2, <1>3 DEF Intact

-----------------------------------------------------------------------------
(* Frames, as long as memory is intact                                     *)

(* What the kernel has of region 0 apart from its stack.                   *)
KernelTable == [i \in Page \ StackPages |-> region_0_pages[i]]

(* The frames of the list, and those that are not listed yet.              *)
FreeFrames ==
    Values(free_frame_queue) \cup
    (IF phase = "boot" THEN Frame \ {region_0_pages[i] : i \in Page} ELSE {})

TablesDistinct ==
    /\ Distinct(free_frame_queue) /\ Distinct(KernelTable)
    /\ \A p \in Proc : Distinct(page_table[p]) /\ Distinct(StackOf(p))

(* Until KernelStart is done there are no processes, and every page is in  *)
(* the frame with its own number.                                          *)
BootState ==
    /\ BootInv
    /\ \A k \in DOMAIN free_frame_queue : free_frame_queue[k] < frame
    /\ \A i \in StackPages : region_0_pages[i] = i
    /\ machine = "up" /\ exiting = "no" /\ current_process = NULL
    /\ pcb = [p \in Proc |-> "unused"]
    /\ page_table = [p \in Proc |-> NoPages]
    /\ kernel_stack_pages = [p \in Proc |-> NoStack]

(* The kernel runs on the stack of current_process, whose entries in       *)
(* region 0 are those that pcb->kernel_stack_pages holds - except for      *)
(* init, which runs on the boot stack until it is first switched away.     *)
StackInPlace ==
    /\ exiting = "pages_freed" => current_process # init_process
    /\ current_process \in Proc \ {init_process} =>
          kernel_stack_pages[current_process] = StackEntries

UpState ==
    /\ StackInPlace
    /\ \A p \in Proc : pcb[p] = "unused" =>
          page_table[p] = NoPages /\ kernel_stack_pages[p] = NoStack
    /\ \A i \in TempPages : region_0_pages[i] = NULL

(* The heap ends below the pages through which Fork and KCCopy fill frames. *)
HeapSound == HeapMapped /\ KernelBrkPage <= NUM_PAGES - 2 * NUM_KSTACK_FRAMES

MemInv ==
    /\ TypeInv
    /\ Intact
    /\ F!Exclusive(Held)
    /\ TablesDistinct
    /\ phase = "boot" => BootState
    /\ phase = "up" /\ machine = "up" => UpState
    /\ HeapSound

-----------------------------------------------------------------------------
(* Who holds what, and how frames change hands                             *)

FreeUser == <<"free", NULL>>
KernelUser == <<"kernel", NULL>>
PagesUser(p) == <<"pages", p>>
StackUser(p) == <<"stack", p>>

LEMMA UsersAre ==
    /\ FreeUser \in Users /\ KernelUser \in Users /\ FreeUser # KernelUser
    /\ \A p \in Proc : /\ PagesUser(p) \in Users /\ StackUser(p) \in Users
                       /\ PagesUser(p) # FreeUser /\ PagesUser(p) # KernelUser
                       /\ StackUser(p) # FreeUser /\ StackUser(p) # KernelUser
    /\ \A p, q \in Proc : /\ PagesUser(p) # StackUser(q)
                          /\ PagesUser(p) = PagesUser(q) => p = q
                          /\ StackUser(p) = StackUser(q) => p = q
    /\ \A u \in Users : \/ u = FreeUser \/ u = KernelUser
                        \/ \E p \in Proc : u = PagesUser(p) \/ u = StackUser(p)
    BY DEF Users, FreeUser, KernelUser, PagesUser, StackUser

HeldFacts ==
    /\ Held[FreeUser] = FreeFrames
    /\ Held[KernelUser] = Values(KernelTable)
    /\ \A p \in Proc : /\ Held[PagesUser(p)] = Values(page_table[p])
                       /\ Held[StackUser(p)] = Values(StackOf(p))

LEMMA EntriesAre ==
    /\ Entries(FreeUser) = free_frame_queue
    /\ Entries(KernelUser) = KernelTable
    /\ \A p \in Proc : /\ Entries(PagesUser(p)) = page_table[p]
                       /\ Entries(StackUser(p)) = StackOf(p)
<1>1. FreeUser[1] = "free" /\ KernelUser[1] = "kernel"
    BY DEF FreeUser, KernelUser
<1>2. \A p \in Proc : /\ PagesUser(p)[1] = "pages" /\ PagesUser(p)[2] = p
                      /\ StackUser(p)[1] = "stack" /\ StackUser(p)[2] = p
    BY DEF PagesUser, StackUser
<1> QED BY <1>1, <1>2 DEF Entries, KernelTable

LEMMA HeldFactsHold == HeldFacts
<1>1. \A u \in Users : Held[u] = FramesOf(u) \cup
          IF u[1] = "free" /\ phase = "boot"
          THEN Frame \ {region_0_pages[i] : i \in Page} ELSE {}
    BY DEF Held
<1>2. FreeUser[1] = "free" /\ KernelUser[1] # "free"
    BY DEF FreeUser, KernelUser
<1>3. \A p \in Proc : PagesUser(p)[1] # "free" /\ StackUser(p)[1] # "free"
    BY DEF PagesUser, StackUser
<1>4. /\ FramesOf(FreeUser) = Values(free_frame_queue)
      /\ FramesOf(KernelUser) = Values(KernelTable)
      /\ \A p \in Proc : /\ FramesOf(PagesUser(p)) = Values(page_table[p])
                         /\ FramesOf(StackUser(p)) = Values(StackOf(p))
    BY EntriesAre DEF FramesOf, Values
<1>5. Held[FreeUser] = FreeFrames
    BY <1>1, <1>2, <1>4, UsersAre DEF FreeFrames
<1>6. Held[KernelUser] = Values(KernelTable)
    BY <1>1, <1>2, <1>4, UsersAre, ZenonT(60)
<1>7. ASSUME NEW p \in Proc
      PROVE  Held[PagesUser(p)] = Values(page_table[p]) /\ Held[StackUser(p)] = Values(StackOf(p))
    <2>1. PagesUser(p) \in Users /\ StackUser(p) \in Users
        BY UsersAre
    <2>2. Held[PagesUser(p)] = FramesOf(PagesUser(p)) /\ Held[StackUser(p)] = FramesOf(StackUser(p))
        BY <1>1, <1>3, <2>1
    <2> QED BY <1>4, <2>2
<1> QED BY <1>5, <1>6, <1>7 DEF HeldFacts

LEMMA HeldFactsNext == HeldFacts'
    BY HeldFactsHold, PTL

(* The frames of h change hands through the list, and g is the result.     *)
Given(h, g) ==
    /\ F!Exclusive(g)
    /\ \A u \in Users \ {FreeUser} : g[u] \ h[u] \subseteq h[FreeUser]
    /\ g[FreeUser] \ h[FreeUser] \subseteq UNION {h[u] : u \in Users}

Kept(h, g) == \A u \in Users : \A x \in h[u] : \E v \in Users : x \in g[v]

(* The list and one of the users exchange frames; others may lose some.    *)
LEMMA Transfer ==
    ASSUME NEW h, NEW g, F!Exclusive(h), NEW w \in Users \ {FreeUser},
           g[w] \subseteq h[w] \cup h[FreeUser],
           g[FreeUser] \subseteq h[w] \cup h[FreeUser],
           g[w] \cap g[FreeUser] = {},
           \A u \in Users \ {w, FreeUser} : g[u] \subseteq h[u]
    PROVE  Given(h, g)
<1>1. FreeUser \in Users
    BY UsersAre
<1>2. \A u, v \in Users : \A x : u # v /\ x \in h[u] => x \notin h[v]
    BY DEF F!Exclusive
<1>3. F!Exclusive(g)
    <2> SUFFICES ASSUME NEW u \in Users, NEW v \in Users, u # v, NEW x, x \in g[u], x \in g[v]
                 PROVE  FALSE
        BY DEF F!Exclusive
    <2>1. \A y \in Users : x \in g[y] => x \in h[y] \/ (y \in {w, FreeUser} /\ x \in h[w] \cup h[FreeUser])
        OBVIOUS
    <2>2. ~(u \in {w, FreeUser} /\ v \in {w, FreeUser})
        OBVIOUS
    <2> QED BY <1>1, <1>2, <2>1, <2>2
<1>4. \A u \in Users \ {FreeUser} : g[u] \ h[u] \subseteq h[FreeUser]
    OBVIOUS
<1>5. g[FreeUser] \ h[FreeUser] \subseteq UNION {h[u] : u \in Users}
    OBVIOUS
<1> QED BY <1>3, <1>4, <1>5 DEF Given

(* Users take frames off the list, none of them the same.                  *)
LEMMA TakeFrames ==
    ASSUME NEW h, NEW g, F!Exclusive(h),
           g[FreeUser] \subseteq h[FreeUser],
           \A u \in Users \ {FreeUser} :
               g[u] \subseteq h[u] \cup (h[FreeUser] \ g[FreeUser]),
           \A u, v \in Users \ {FreeUser} :
               u # v => (g[u] \cap h[FreeUser]) \cap (g[v] \cap h[FreeUser]) = {}
    PROVE  Given(h, g)
<1>1. FreeUser \in Users
    BY UsersAre
<1>2. \A u, v \in Users : \A x : u # v /\ x \in h[u] => x \notin h[v]
    BY DEF F!Exclusive
<1>3. F!Exclusive(g)
    <2> SUFFICES ASSUME NEW u \in Users, NEW v \in Users, u # v, NEW x, x \in g[u], x \in g[v]
                 PROVE  FALSE
        BY DEF F!Exclusive
    <2>1. \A y \in Users \ {FreeUser} : x \in g[y] => x \in h[y] \/ (x \in h[FreeUser] /\ x \notin g[FreeUser])
        OBVIOUS
    <2>2. CASE u # FreeUser /\ v # FreeUser
        BY <1>1, <1>2, <2>1, <2>2
    <2>3. CASE u = FreeUser \/ v = FreeUser
        BY <1>1, <1>2, <2>1, <2>3
    <2> QED BY <2>2, <2>3
<1>4. \A u \in Users \ {FreeUser} : g[u] \ h[u] \subseteq h[FreeUser]
    OBVIOUS
<1>5. g[FreeUser] \ h[FreeUser] \subseteq UNION {h[u] : u \in Users}
    BY <1>1
<1> QED BY <1>3, <1>4, <1>5 DEF Given

(* A process gets page table t and leaves list q, which together have only *)
(* frames that its old table and the list had.                             *)
LEMMA PagesMoved ==
    ASSUME F!Exclusive(Held), TablesDistinct, phase = "up", phase' = "up",
           page_table \in [Proc -> [Page -> Frame \cup {NULL}]], NEW p \in Proc,
           NEW t, NEW q,
           page_table' = [page_table EXCEPT ![p] = t],
           free_frame_queue' = q,
           Distinct(t), Distinct(q), Values(t) \cap Values(q) = {},
           Values(t) \cup Values(q) \subseteq Values(page_table[p]) \cup Values(free_frame_queue),
           Distinct(KernelTable'), Values(KernelTable') \subseteq Values(KernelTable),
           \A r \in Proc : StackOf(r)' = StackOf(r)
    PROVE  /\ TablesDistinct' /\ Given(Held, Held')
           /\ /\ KernelTable' = KernelTable
              /\ Values(page_table[p]) \cup Values(free_frame_queue) \subseteq Values(t) \cup Values(q)
              => Kept(Held, Held')
<1>1. \A r \in Proc : page_table'[r] = IF r = p THEN t ELSE page_table[r]
    OBVIOUS
<1>2. TablesDistinct'
    BY <1>1 DEF TablesDistinct
<1> DEFINE h == Held
           g == Held'
           w == PagesUser(p)
<1>3. /\ h[FreeUser] = Values(free_frame_queue) /\ g[FreeUser] = Values(q)
      /\ h[KernelUser] = Values(KernelTable) /\ g[KernelUser] = Values(KernelTable')
    BY HeldFactsHold, HeldFactsNext DEF HeldFacts, FreeFrames
<1>4. \A r \in Proc : /\ h[PagesUser(r)] = Values(page_table[r])
                      /\ h[StackUser(r)] = Values(StackOf(r))
                      /\ g[StackUser(r)] = Values(StackOf(r))
                      /\ g[PagesUser(r)] = IF r = p THEN Values(t) ELSE Values(page_table[r])
    BY <1>1, HeldFactsHold, HeldFactsNext DEF HeldFacts
<1>5. F!Exclusive(h)
    OBVIOUS
<1> HIDE DEF h, g, w
<1>6. w \in Users \ {FreeUser} /\ h[w] = Values(page_table[p]) /\ g[w] = Values(t)
    BY <1>4, UsersAre DEF w
<1>7. ASSUME NEW u \in Users \ {w, FreeUser}
      PROVE  g[u] \subseteq h[u] /\ (KernelTable' = KernelTable => g[u] = h[u])
    <2>1. CASE u = KernelUser
        BY <1>3, <2>1
    <2>2. CASE u # KernelUser
        <3>1. PICK r \in Proc : u = PagesUser(r) \/ u = StackUser(r)
            BY <1>7, <2>2, UsersAre
        <3> QED BY <1>4, <3>1 DEF w
    <2> QED BY <2>1, <2>2
<1>8. Given(h, g)
    BY <1>3, <1>5, <1>6, <1>7, Transfer
<1>9. ASSUME KernelTable' = KernelTable,
             Values(page_table[p]) \cup Values(free_frame_queue) \subseteq Values(t) \cup Values(q)
      PROVE  Kept(h, g)
    <2>1. h[w] \cup h[FreeUser] \subseteq g[w] \cup g[FreeUser]
        BY <1>3, <1>6, <1>9
    <2> QED BY <1>6, <1>7, <1>9, <2>1, UsersAre DEF Kept
<1> QED BY <1>2, <1>8, <1>9 DEF h, g

(* The kernel heap and the list exchange frames.                           *)
LEMMA KernelMoved ==
    ASSUME F!Exclusive(Held), TablesDistinct, phase = "up", phase' = "up",
           Distinct(KernelTable'), Distinct(free_frame_queue'),
           Values(KernelTable') \cap Values(free_frame_queue') = {},
           Values(KernelTable') \cup Values(free_frame_queue')
               = Values(KernelTable) \cup Values(free_frame_queue),
           page_table' = page_table,
           \A r \in Proc : StackOf(r)' = StackOf(r)
    PROVE  TablesDistinct' /\ Given(Held, Held') /\ Kept(Held, Held')
<1>1. TablesDistinct'
    BY DEF TablesDistinct
<1> DEFINE h == Held
           g == Held'
           w == KernelUser
<1>2. /\ h[FreeUser] = Values(free_frame_queue) /\ g[FreeUser] = Values(free_frame_queue')
      /\ h[w] = Values(KernelTable) /\ g[w] = Values(KernelTable')
    BY HeldFactsHold, HeldFactsNext DEF HeldFacts, FreeFrames
<1>3. \A r \in Proc : g[PagesUser(r)] = h[PagesUser(r)] /\ g[StackUser(r)] = h[StackUser(r)]
    BY HeldFactsHold, HeldFactsNext DEF HeldFacts
<1>4. F!Exclusive(h)
    OBVIOUS
<1> HIDE DEF h, g
<1>5. w \in Users \ {FreeUser}
    BY UsersAre
<1>6. \A u \in Users \ {w, FreeUser} : g[u] = h[u]
    BY <1>3, UsersAre
<1> HIDE DEF w
<1>7. Given(h, g)
    BY <1>2, <1>4, <1>5, <1>6, Transfer
<1>8. Kept(h, g)
    <2>1. h[w] \cup h[FreeUser] \subseteq g[w] \cup g[FreeUser]
        BY <1>2
    <2> QED BY <1>5, <1>6, <2>1, UsersAre DEF Kept
<1> QED BY <1>1, <1>7, <1>8 DEF h, g

(* Nobody gets a frame.                                                    *)
LEMMA NothingGiven ==
    ASSUME F!Exclusive(Held), \A u \in Users : Held'[u] \subseteq Held[u]
    PROVE  Given(Held, Held')
<1> DEFINE h == Held
           g == Held'
<1>1. F!Exclusive(h) /\ \A u \in Users : g[u] \subseteq h[u]
    OBVIOUS
<1> HIDE DEF h, g
<1>2. KernelUser \in Users \ {FreeUser} /\ FreeUser \in Users
    BY UsersAre
<1>3. g[KernelUser] \cap g[FreeUser] = {}
    BY <1>1, <1>2 DEF F!Exclusive
<1>4. Given(h, g)
    BY <1>1, <1>2, <1>3, Transfer
<1> QED BY <1>4 DEF h, g

-----------------------------------------------------------------------------
-----------------------------------------------------------------------------
(* Steps of a user process that leave the tables of the kernel alone       *)

(* After the boot no page has a frame of the list.                         *)
LEMMA ListApart ==
    ASSUME F!Exclusive(Held), phase = "up"
    PROVE  /\ Values(KernelTable) \cap Values(free_frame_queue) = {}
           /\ \A p \in Proc : /\ Values(page_table[p]) \cap Values(free_frame_queue) = {}
                              /\ Values(StackOf(p)) \cap Values(free_frame_queue) = {}
<1>1. FreeFrames = Values(free_frame_queue)
    BY DEF FreeFrames
<1>2. \A u, v \in Users : u # v => Held[u] \cap Held[v] = {}
    BY DEF F!Exclusive
<1>3. Held[KernelUser] \cap Held[FreeUser] = {}
    BY <1>2, UsersAre
<1>4. \A p \in Proc : /\ Held[PagesUser(p)] \cap Held[FreeUser] = {}
                      /\ Held[StackUser(p)] \cap Held[FreeUser] = {}
    BY <1>2, UsersAre
<1> QED BY <1>1, <1>3, <1>4, HeldFactsHold DEF HeldFacts

LEMMA UpCall ==
    ASSUME MemInv, NEW p \in Proc, UserCall(p)
    PROVE  /\ UpState /\ HeapSound /\ TypeInv /\ Intact
           /\ phase = "up" /\ machine = "up" /\ exiting = "no" /\ current_process = p
           /\ F!Exclusive(Held) /\ TablesDistinct
           /\ page_table[p] \in [Page -> Frame \cup {NULL}] /\ Distinct(page_table[p])
           /\ free_frame_queue \in Seq(Frame) /\ Distinct(free_frame_queue)
           /\ Values(page_table[p]) \cap Values(free_frame_queue) = {}
<1>1. TypeInv /\ Intact /\ F!Exclusive(Held) /\ TablesDistinct /\ HeapSound
    BY DEF MemInv
<1>2. /\ phase = "up" /\ machine = "up" /\ exiting = "no" /\ current_process = p
      /\ page_table[p] \in [Page -> Frame \cup {NULL}] /\ free_frame_queue \in Seq(Frame)
    BY <1>1, CallState
<1>3. UpState
    BY <1>2 DEF MemInv
<1>4. Distinct(page_table[p]) /\ Distinct(free_frame_queue)
    BY <1>1 DEF TablesDistinct
<1>5. Values(page_table[p]) \cap Values(free_frame_queue) = {}
    BY <1>1, <1>2, ListApart
<1> QED BY <1>1, <1>2, <1>3, <1>4, <1>5

(* Process p gets table t and leaves list q; it goes on, halts the machine *)
(* or exits.                                                               *)
LEMMA UserStep ==
    ASSUME MemInv, TypeInv', Intact', NEW p \in Proc, UserCall(p),
           NEW t \in [Page -> Frame \cup {NULL}], NEW q \in Seq(Frame),
           Distinct(t), Distinct(q), Values(t) \cap Values(q) = {},
           Values(t) \cup Values(q) \subseteq Values(page_table[p]) \cup Values(free_frame_queue),
           page_table' = [page_table EXCEPT ![p] = t],
           free_frame_queue' = q,
           exiting' \in {"no", "pages_freed"},
           exiting' = "pages_freed" => p # init_process,
           UNCHANGED <<phase, frame, region_0_pages, kernel_brk_offset, current_process, pcb,
                       kernel_stack_pages>>
    PROVE  /\ MemInv' /\ Given(Held, Held')
           /\ Values(page_table[p]) \cup Values(free_frame_queue) \subseteq Values(t) \cup Values(q)
              => Kept(Held, Held')
<1> USE KernelHeapAssumption, MemoryAssumption
<1>1. /\ phase = "up" /\ machine = "up" /\ exiting = "no" /\ current_process = p
      /\ UpState /\ HeapSound /\ pcb[p] = "live"
    BY UpCall, CallState
<1>2. MemoryTypeOK /\ F!Exclusive(Held) /\ TablesDistinct
    BY DEF MemInv, TypeInv
<1>3. KernelTable' = KernelTable /\ StackEntries' = StackEntries
    BY DEF KernelTable, StackEntries
<1>4. Running = p /\ Running' = p
    BY <1>1 DEF Running
<1>5. \A r \in Proc : StackOf(r)' = StackOf(r)
    BY <1>3, <1>4 DEF StackOf
<1>6. /\ TablesDistinct' /\ Given(Held, Held')
      /\ Values(page_table[p]) \cup Values(free_frame_queue) \subseteq Values(t) \cup Values(q)
         => Kept(Held, Held')
    <2>1. /\ page_table \in [Proc -> [Page -> Frame \cup {NULL}]] /\ phase' = "up"
          /\ Distinct(KernelTable') /\ Values(KernelTable') \subseteq Values(KernelTable)
        BY <1>1, <1>2, <1>3 DEF MemoryTypeOK, TablesDistinct
    <2> QED BY <1>1, <1>2, <1>3, <1>5, <2>1, PagesMoved
<1>7. F!Exclusive(Held')
    BY <1>6 DEF Given
<1>8. HeapSound'
    BY <1>1 DEF HeapSound, HeapMapped, KernelBrkPage
<1>9. \A r \in Proc : page_table'[r] = IF r = p THEN t ELSE page_table[r]
    BY <1>2 DEF MemoryTypeOK
<1>10. UpState'
    <2>1. StackInPlace'
        BY <1>1, <1>3 DEF UpState, StackInPlace
    <2>2. \A r \in Proc : pcb'[r] = "unused" =>
              page_table'[r] = NoPages /\ kernel_stack_pages'[r] = NoStack
        BY <1>1, <1>9 DEF UpState
    <2>3. \A i \in TempPages : region_0_pages'[i] = NULL
        BY <1>1 DEF UpState
    <2> QED BY <2>1, <2>2, <2>3 DEF UpState, TempPages, NoPages, NoStack
<1>11. phase' = "up"
    BY <1>1
<1>12. MemInv'
    BY <1>6, <1>7, <1>8, <1>10, <1>11 DEF MemInv
<1> QED BY <1>6, <1>12

LEMMA LeaveStep ==
    ASSUME MemInv, TypeInv', Intact', NEW p \in Proc, UserCall(p),
           NEW t \in [Page -> Frame \cup {NULL}], NEW q \in Seq(Frame),
           Distinct(t), Distinct(q), Values(t) \cap Values(q) = {},
           Values(t) \cup Values(q) \subseteq Values(page_table[p]) \cup Values(free_frame_queue),
           Leave(p, t, q)
    PROVE  /\ MemInv' /\ Given(Held, Held')
           /\ Values(page_table[p]) \cup Values(free_frame_queue) \subseteq Values(t) \cup Values(q)
              => Kept(Held, Held')
<1>1. /\ exiting = "no"
      /\ UNCHANGED <<phase, frame, region_0_pages, kernel_brk_offset, current_process, pcb,
                     kernel_stack_pages>>
    BY UpCall DEF Leave
<1>2. CASE p = init_process
    <2>1. /\ page_table' = [page_table EXCEPT ![p] = t] /\ free_frame_queue' = q
          /\ exiting' = "no"
        BY <1>1, <1>2 DEF Leave
    <2> QED BY <1>1, <2>1, UserStep
<1>3. CASE p # init_process
    <2> DEFINE s == FramesUp(t, Page)
               z == q \o s
               n == NoPages
    <2>1. /\ page_table' = [page_table EXCEPT ![p] = n] /\ free_frame_queue' = z
          /\ exiting' = "pages_freed"
        BY <1>1, <1>3 DEF Leave
    <2>2. Lists(s, t, Page)
        BY Layout, FramesUpLemma
    <2> HIDE DEF s
    <2>3. s \in Seq(Frame) /\ Values(s) = Values(t) /\ Distinct(s)
        BY <2>2 DEF Lists, Values, Distinct
    <2>4. z \in Seq(Frame) /\ Values(z) = Values(t) \cup Values(q) /\ Distinct(z)
        BY <2>3, ConcatLemma
    <2>5. n \in [Page -> Frame \cup {NULL}] /\ Distinct(n) /\ Values(n) = {}
        BY NoTables
    <2> HIDE DEF z, n
    <2>6. /\ Values(n) \cap Values(z) = {}
          /\ Values(n) \cup Values(z) = Values(t) \cup Values(q)
        BY <2>4, <2>5
    <2> QED BY <1>1, <1>3, <2>1, <2>4, <2>5, <2>6, UserStep
<1> QED BY <1>2, <1>3

(* What LoadProgram does with the frames that it pops.                     *)
LEMMA NewPagesLemma ==
    ASSUME NEW prog \in Programs, Loadable(prog), NEW q \in Seq(Frame), Distinct(q),
           Len(q) >= FramesPopped
    PROVE  /\ NewPages(prog, q) \in [Page -> Frame \cup {NULL}] /\ Distinct(NewPages(prog, q))
           /\ Values(NewPages(prog, q)) \subseteq Values(q)
           /\ Drop(q, FramesPopped) \in Seq(Frame) /\ Distinct(Drop(q, FramesPopped))
           /\ Values(Drop(q, FramesPopped)) \subseteq Values(q)
           /\ Values(NewPages(prog, q)) \cap Values(Drop(q, FramesPopped)) = {}
<1> USE KernelHeapAssumption
<1> DEFINE t == NewPages(prog, q)
           d == Drop(q, FramesPopped)
           k(i) == 3 * i + FrameUsed(prog, i)
<1>1. FramesPopped \in Nat /\ FramesPopped <= Len(q)
    BY DEF FramesPopped
<1>2. /\ t \in [Page -> Frame \cup {NULL}]
      /\ \A i \in Page : FrameUsed(prog, i) \in 0 .. 3
      /\ \A i \in Page : FrameUsed(prog, i) # 0 => k(i) \in 1 .. FramesPopped /\ k(i) \in 1 .. Len(q)
    BY NewPagesTyped
<1>3. \A i, j \in Page : /\ FrameUsed(prog, i) # 0 /\ FrameUsed(prog, j) # 0 /\ k(i) = k(j)
                         => i = j
    BY <1>2, SMTT(60) DEF Page
<1>4. \A i \in Page : t[i] = IF FrameUsed(prog, i) = 0 THEN NULL ELSE q[k(i)]
    BY DEF NewPages
<1>5. \A n \in 1 .. Len(q) : q[n] \in Frame /\ q[n] # NULL /\ q[n] \in Values(q)
    BY DEF Values
<1>6. /\ d \in Seq(Frame) /\ Distinct(d)
      /\ Values(d) = {q[n] : n \in FramesPopped + 1 .. Len(q)}
      /\ \A n \in 1 .. FramesPopped : q[n] \notin Values(d)
    BY <1>1, DropLemma
<1> HIDE DEF t, d, k
<1>7. Distinct(t)
    <2> SUFFICES ASSUME NEW i \in Page, NEW j \in Page, t[i] = t[j], t[i] # NULL PROVE i = j
        BY <1>2 DEF Distinct
    <2>1. /\ FrameUsed(prog, i) # 0 /\ FrameUsed(prog, j) # 0 /\ q[k(i)] = q[k(j)]
          /\ k(i) \in 1 .. Len(q) /\ k(j) \in 1 .. Len(q) /\ q[k(i)] # NULL
        BY <1>2, <1>4
    <2>2. k(i) = k(j)
        BY <2>1 DEF Distinct
    <2> QED BY <1>3, <2>1, <2>2
<1>8. Values(t) \subseteq {q[n] : n \in 1 .. FramesPopped}
    BY <1>2, <1>4 DEF Values
<1>9. Values(t) \cap Values(d) = {}
    BY <1>6, <1>8
<1>10. Values(t) \subseteq Values(q)
    BY <1>1, <1>5, <1>8
<1>11. Values(d) \subseteq Values(q)
    BY <1>1, <1>5, <1>6
<1> QED BY <1>2, <1>6, <1>7, <1>9, <1>10, <1>11 DEF t, d

(* The list after LoadProgram, with the frames of the old image.           *)
LEMMA OldFramesLemma ==
    ASSUME NEW t \in [Page -> Frame \cup {NULL}], Distinct(t),
           NEW old \in {FramesUp(t, Page), FramesUp(t, Page \ {0})}
    PROVE  old \in Seq(Frame) /\ Distinct(old) /\ Values(old) \subseteq Values(t)
<1> DEFINE P == Page \ {0}
<1>1. P \in SUBSET Page /\ IsFiniteSet(P)
    BY Layout, FS_Subset
<1> HIDE DEF P
<1>2. Lists(FramesUp(t, Page), t, Page) /\ Lists(FramesUp(t, P), t, P)
    BY <1>1, Layout, FramesUpLemma
<1>3. {t[i] : i \in P} \subseteq {t[i] : i \in Page}
    BY <1>1
<1>4. old = FramesUp(t, Page) \/ old = FramesUp(t, P)
    BY DEF P
<1>5. \A i, j \in Page : t[i] = t[j] /\ t[i] # NULL => i = j
    BY DEF Distinct
<1>6. Distinct(old)
    BY <1>1, <1>2, <1>4, <1>5 DEF Lists
<1> QED BY <1>2, <1>3, <1>4, <1>6 DEF Lists, Values

(* The steps that may lose frames, and what every step has to show.        *)
MayLose ==
    \/ phase = "boot" \/ free_frame_queue' = <<>> \/ ~Intact'
    \/ \E p \in Proc, prog \in Programs : ExecLoads(p, prog) \/ ExecKilled(p, prog)

StepRight == MemInv' /\ Given(Held, Held') /\ (MayLose \/ Kept(Held, Held'))

LEMMA ExecRight ==
    ASSUME MemInv, TypeInv', Intact', NEW p \in Proc, NEW prog \in Programs,
           ExecLoads(p, prog) \/ ExecKilled(p, prog)
    PROVE  StepRight
<1> DEFINE qu == free_frame_queue
           o == page_table[p]
           t == NewPages(prog, qu)
           d == Drop(qu, FramesPopped)
<1>1. UserCall(p) /\ Loadable(prog) /\ Len(qu) >= FramesPopped
    BY DEF ExecLoads, ExecKilled
<1>2. /\ exiting = "no" /\ o \in [Page -> Frame \cup {NULL}] /\ qu \in Seq(Frame)
      /\ Distinct(qu) /\ Distinct(o) /\ Values(o) \cap Values(qu) = {}
    BY <1>1, UpCall
<1>3. PICK old \in OldFrames(p) :
         \/ /\ free_frame_queue' = d \o old
            /\ page_table' = [page_table EXCEPT ![p] = t]
            /\ UNCHANGED <<phase, frame, region_0_pages, kernel_brk_offset, current_process, pcb,
                           kernel_stack_pages, exiting>>
         \/ Leave(p, t, d \o old)
    BY Zenon DEF ExecLoads, ExecKilled
<1>4. old \in Seq(Frame) /\ Distinct(old) /\ Values(old) \subseteq Values(o)
    <2>1. old \in {FramesUp(o, Page), FramesUp(o, Page \ {0})}
        BY DEF OldFrames
    <2> HIDE DEF o
    <2> QED BY <1>2, <2>1, OldFramesLemma
<1> HIDE DEF qu, o, t, d
<1>5. /\ t \in [Page -> Frame \cup {NULL}] /\ Distinct(t) /\ Values(t) \subseteq Values(qu)
      /\ d \in Seq(Frame) /\ Distinct(d) /\ Values(d) \subseteq Values(qu)
      /\ Values(t) \cap Values(d) = {}
    BY <1>1, <1>2, NewPagesLemma DEF t, d
<1> DEFINE z == d \o old
<1>6. /\ z \in Seq(Frame) /\ Distinct(z) /\ Values(z) = Values(d) \cup Values(old)
    BY <1>2, <1>4, <1>5, ConcatLemma
<1> HIDE DEF z
<1>7. Values(t) \cap Values(z) = {} /\ Values(t) \cup Values(z) \subseteq Values(o) \cup Values(qu)
    BY <1>2, <1>4, <1>5, <1>6
<1>8. Values(t) \cup Values(z) \subseteq Values(page_table[p]) \cup Values(free_frame_queue)
    BY <1>7 DEF o, qu
<1>9. MemInv' /\ Given(Held, Held')
    <2>1. CASE /\ free_frame_queue' = z
               /\ page_table' = [page_table EXCEPT ![p] = t]
               /\ UNCHANGED <<phase, frame, region_0_pages, kernel_brk_offset, current_process,
                              pcb, kernel_stack_pages, exiting>>
        <3>1. exiting' = "no"
            BY <1>2, <2>1
        <3> QED BY <1>1, <1>5, <1>6, <1>7, <1>8, <2>1, <3>1, UserStep
    <2>2. CASE Leave(p, t, z)
        BY <1>1, <1>5, <1>6, <1>7, <1>8, <2>2, LeaveStep
    <2> QED BY <1>3, <2>1, <2>2 DEF z
<1> QED BY <1>9 DEF StepRight, MayLose

LEMMA ExecNoFramesRight ==
    ASSUME MemInv, TypeInv', Intact', NEW p \in Proc, NEW prog \in Programs,
           ExecNoFrames(p, prog)
    PROVE  StepRight
<1> DEFINE t == page_table[p]
           q == <<>>
<1>1. UserCall(p) /\ free_frame_queue' = q
    BY DEF ExecNoFrames
<1>2. exiting = "no" /\ t \in [Page -> Frame \cup {NULL}] /\ Distinct(t) /\ TypeInv
    BY <1>1, UpCall
<1>3. q \in Seq(Frame) /\ Distinct(q) /\ Values(q) = {}
    BY DEF Distinct, Values
<1>4. page_table' = [page_table EXCEPT ![p] = t]
    BY <1>2, SameTables DEF ExecNoFrames, memVars
<1>5. /\ UNCHANGED <<phase, frame, region_0_pages, kernel_brk_offset, current_process, pcb,
                     kernel_stack_pages>>
      /\ exiting' = "no"
    BY <1>2 DEF ExecNoFrames, memVars
<1>6. Values(t) \cap Values(q) = {} /\ Values(t) \cup Values(q)
          \subseteq Values(page_table[p]) \cup Values(free_frame_queue)
    BY <1>3
<1> HIDE DEF t, q
<1>7. MemInv' /\ Given(Held, Held')
    BY <1>1, <1>2, <1>3, <1>4, <1>5, <1>6, UserStep
<1> QED BY <1>1, <1>7 DEF StepRight, MayLose, q

LEMMA ExitRight ==
    ASSUME MemInv, TypeInv', Intact', NEW p \in Proc, ExitHandler(p)
    PROVE  StepRight
<1> DEFINE t == page_table[p]
           q == free_frame_queue
<1>1. UserCall(p) /\ Leave(p, t, q)
    BY DEF ExitHandler
<1>2. /\ t \in [Page -> Frame \cup {NULL}] /\ Distinct(t) /\ q \in Seq(Frame)
      /\ Distinct(q) /\ Values(t) \cap Values(q) = {}
    BY <1>1, UpCall
<1>3. Values(t) \cup Values(q) = Values(page_table[p]) \cup Values(free_frame_queue)
    OBVIOUS
<1> HIDE DEF t, q
<1>4. MemInv' /\ Given(Held, Held') /\ Kept(Held, Held')
    BY <1>1, <1>2, <1>3, LeaveStep
<1> QED BY <1>4 DEF StepRight

(* A page table in which the invalid pages of S got frames from the list.  *)
LEMMA PopulateRight ==
    ASSUME MemInv, TypeInv', Intact', NEW p \in Proc, UserCall(p), NEW S, NEW t,
           Filled(page_table[p], S, free_frame_queue, t),
           Populate(p, t), free_frame_queue' = LeftOver(page_table[p], S, free_frame_queue)
    PROVE  StepRight
<1> DEFINE q == LeftOver(page_table[p], S, free_frame_queue)
<1>1. exiting = "no" /\ DOMAIN page_table[p] = Page
    BY UpCall
<1>2. /\ t \in [Page -> Frame \cup {NULL}] /\ q \in Seq(Frame) /\ Distinct(t) /\ Distinct(q)
      /\ Values(t) \cap Values(q) = {}
      /\ Values(t) \cup Values(q) = Values(page_table[p]) \cup Values(free_frame_queue)
    BY <1>1 DEF Filled
<1>3. /\ page_table' = [page_table EXCEPT ![p] = t]
      /\ UNCHANGED <<phase, frame, region_0_pages, kernel_brk_offset, current_process, pcb,
                     kernel_stack_pages>>
      /\ exiting' = "no"
    BY <1>1 DEF Populate
<1>4. free_frame_queue' = q
    OBVIOUS
<1> HIDE DEF q
<1>5. MemInv' /\ Given(Held, Held') /\ Kept(Held, Held')
    BY <1>2, <1>3, <1>4, UserStep
<1> QED BY <1>5 DEF StepRight

LEMMA BrkGrowRight ==
    ASSUME MemInv, TypeInv', Intact', NEW p \in Proc, NEW a \in Page, NEW exact \in BOOLEAN,
           NEW sp \in Page, BrkGrow(p, a, exact, sp)
    PROVE  StepRight
<1> USE KernelHeapAssumption
<1> DEFINE o == page_table[p]
           qu == free_frame_queue
           S == BrkPagesUpTo(p, a)
           t == FillUp(o, S, qu)
<1>1. UserCall(p) /\ Populate(p, t) /\ free_frame_queue' = LeftOver(o, S, qu)
    BY DEF BrkGrow
<1>2. /\ o \in [Page -> Frame \cup {NULL}] /\ Distinct(o)
      /\ qu \in Seq(Frame) /\ Distinct(qu) /\ Values(o) \cap Values(qu) = {}
    BY <1>1, UpCall
<1>3. S = current_brk[p] - 1 .. a /\ current_brk[p] \in 1 .. NUM_PAGES
    BY <1>1, CallState, UpCall DEF BrkPagesUpTo
<1> HIDE DEF o, qu, S, t
<1>4. S \in SUBSET Page /\ IsFiniteSet(S)
    <2>1. S \in SUBSET Page
        BY <1>3 DEF Page
    <2> QED BY <2>1, Layout, FS_Subset
<1>5. Filled(o, S, qu, t)
    BY <1>2, <1>4, Layout, FillUpLemma DEF t
<1>6. /\ Filled(page_table[p], S, free_frame_queue, t)
      /\ free_frame_queue' = LeftOver(page_table[p], S, free_frame_queue)
    BY <1>1, <1>5 DEF o, qu
<1> QED BY <1>1, <1>6, PopulateRight

LEMMA GrowStackRight ==
    ASSUME MemInv, TypeInv', Intact', NEW p \in Proc, NEW a \in Page, NEW exact \in BOOLEAN,
           NEW sp \in Page, TrapMemoryHandler(p, a, exact, sp)
    PROVE  StepRight
<1> USE KernelHeapAssumption
<1> DEFINE o == page_table[p]
           qu == free_frame_queue
           S == a .. NUM_PAGES - 1
           t == FillDown(o, S, qu)
<1>1. CASE AbortAccess(p, a, exact, sp)
    BY <1>1, ExitRight DEF AbortAccess
<1>2. CASE GrowStack(p, a, exact, sp) \/ GrowStackFails(p, a, exact, sp)
    <2>1. UserCall(p)
        BY <1>2 DEF GrowStack, GrowStackFails
    <2>2. \/ Populate(p, t) /\ free_frame_queue' = LeftOver(o, S, qu)
          \/ Leave(p, t, <<>>) /\ LeftOver(o, S, qu) = <<>>
        BY <1>2 DEF GrowStack, GrowStackFails, Enough, LeftOver
    <2>3. /\ o \in [Page -> Frame \cup {NULL}] /\ Distinct(o)
          /\ qu \in Seq(Frame) /\ Distinct(qu) /\ Values(o) \cap Values(qu) = {}
        BY <2>1, UpCall
    <2>4. S \in SUBSET Page /\ IsFiniteSet(S)
        <3>1. S \in SUBSET Page
            BY DEF Page
        <3> QED BY <3>1, Layout, FS_Subset
    <2> HIDE DEF o, qu, S, t
    <2>5. Filled(o, S, qu, t)
        BY <2>3, <2>4, Layout, FillDownLemma DEF t
    <2>6. CASE Populate(p, t) /\ free_frame_queue' = LeftOver(o, S, qu)
        BY <2>1, <2>5, <2>6, PopulateRight DEF o, qu
    <2>7. CASE Leave(p, t, <<>>) /\ LeftOver(o, S, qu) = <<>>
        <3> DEFINE q == LeftOver(o, S, qu)
        <3>1. /\ t \in [Page -> Frame \cup {NULL}] /\ q \in Seq(Frame) /\ Distinct(t)
              /\ Distinct(q) /\ Values(t) \cap Values(q) = {}
              /\ Values(t) \cup Values(q) = Values(o) \cup Values(qu)
            BY <2>3, <2>5 DEF Filled
        <3>2. Leave(p, t, q)
            BY <2>7
        <3>3. Values(t) \cup Values(q) = Values(page_table[p]) \cup Values(free_frame_queue)
            BY <3>1 DEF o, qu
        <3> HIDE DEF q
        <3>4. MemInv' /\ Given(Held, Held') /\ Kept(Held, Held')
            BY <2>1, <3>1, <3>2, <3>3, LeaveStep, ZenonT(60)
        <3> QED BY <3>4 DEF StepRight
    <2> QED BY <2>2, <2>6, <2>7
<1> QED BY <1>1, <1>2 DEF TrapMemoryHandler

-----------------------------------------------------------------------------
(* malloc moves the break of the kernel                                    *)

LEMMA KernelStep ==
    ASSUME MemInv, TypeInv', Intact', phase = "up", machine = "up",
           \A i \in StackPages : region_0_pages'[i] = region_0_pages[i],
           \A i \in TempPages : region_0_pages'[i] = NULL,
           HeapSound',
           Distinct(KernelTable'), Distinct(free_frame_queue'),
           Values(KernelTable') \cap Values(free_frame_queue') = {},
           Values(KernelTable') \cup Values(free_frame_queue')
               = Values(KernelTable) \cup Values(free_frame_queue),
           UNCHANGED <<phase, frame, current_process, pcb, page_table, kernel_stack_pages,
                       current_brk, exiting, machine>>
    PROVE  StepRight
<1>1. F!Exclusive(Held) /\ TablesDistinct /\ UpState
    BY DEF MemInv
<1>2. StackEntries' = StackEntries /\ Running' = Running
    BY Layout DEF StackEntries, Running
<1>3. \A r \in Proc : StackOf(r)' = StackOf(r)
    BY <1>2 DEF StackOf
<1>4. TablesDistinct' /\ Given(Held, Held') /\ Kept(Held, Held')
    BY <1>1, <1>3, KernelMoved
<1>5. UpState'
    BY <1>1, <1>2 DEF UpState, StackInPlace
<1>6. MemInv'
    BY <1>4, <1>5 DEF MemInv, Given
<1> QED BY <1>4, <1>6 DEF StepRight

LEMMA HeapExpands ==
    ASSUME MemInv, TypeInv', Intact', phase = "up", machine = "up", NEW n \in Page,
           n >= KernelBrkPage, n <= NUM_PAGES - 2 * NUM_KSTACK_FRAMES,
           expand_heap_pages(n),
           UNCHANGED <<phase, frame, current_process, pcb, page_table, kernel_stack_pages,
                       current_brk, exiting, machine>>
    PROVE  StepRight
<1> USE KernelHeapAssumption, MemoryAssumption
<1> DEFINE S == HeapPages(n)
           R == region_0_pages
           q == free_frame_queue
           K == KernelTable
           T == FillUp(K, S, q)
<1>1. /\ MemoryTypeOK /\ TablesDistinct /\ UpState /\ F!Exclusive(Held)
      /\ HeapMapped /\ KernelBrkPage <= NUM_PAGES - 2 * NUM_KSTACK_FRAMES
    BY DEF MemInv, TypeInv, HeapSound
<1>2. /\ R \in [Page -> Frame \cup {NULL}] /\ q \in Seq(Frame)
      /\ kernel_brk_offset \in 0 .. HEAP_LIMIT - OrigKernelBrkPage
    BY <1>1 DEF MemoryTypeOK, HeapTypeOK
<1>3. KernelBrkPage \in Nat \ {0} /\ KernelBrkPage = OrigKernelBrkPage + kernel_brk_offset
    BY <1>2 DEF KernelBrkPage
<1>4. /\ R' = FillUp(R, S, q) /\ free_frame_queue' = LeftOver(R, S, q)
      /\ kernel_brk_offset' \in IF Enough(R, S, q) THEN {n - OrigKernelBrkPage, kernel_brk_offset}
                                ELSE {kernel_brk_offset}
    BY DEF expand_heap_pages
<1>5. S = KernelBrkPage - 1 .. n - 1
    BY DEF HeapPages
<1>6. S \subseteq Page \ StackPages /\ S \cap TempPages = {}
    BY <1>1, <1>3, <1>5 DEF Page, StackPages, TempPages
<1>7. IsFiniteSet(S) /\ S \in SUBSET (Page \ StackPages) /\ Page \ StackPages \in SUBSET Int
    BY <1>6, Layout, FS_Subset
<1>8. K \in [Page \ StackPages -> Frame \cup {NULL}] /\ \A i \in Page \ StackPages : K[i] = R[i]
    BY <1>2 DEF KernelTable
<1>9. Distinct(K) /\ Distinct(q) /\ Values(K) \cap Values(q) = {}
    BY <1>1, ListApart DEF TablesDistinct
<1> HIDE DEF S, R, q, K
<1>10. Missing(K, S) = Missing(R, S)
    BY <1>6, <1>8 DEF Missing
<1>11. LeftOver(K, S, q) = LeftOver(R, S, q) /\ (Enough(K, S, q) <=> Enough(R, S, q))
    BY <1>10 DEF LeftOver, Enough
<1>12. Filled(K, S, q, T)
    BY <1>2, <1>7, <1>8, <1>9, FillUpLemma
<1>13. \A i \in Page : R'[i] = IF i \in Page \ StackPages THEN T[i] ELSE R[i]
    <2> SUFFICES ASSUME NEW i \in Page
                 PROVE  R'[i] = IF i \in Page \ StackPages THEN T[i] ELSE R[i]
        OBVIOUS
    <2>1. CASE i \in Page \ StackPages
        BY <1>2, <1>4, <1>8, <1>10, <2>1 DEF FillUp
    <2>2. CASE i \in StackPages
        <3>1. i \notin Missing(R, S)
            BY <1>6, <2>2 DEF Missing
        <3> QED BY <1>2, <1>4, <2>2, <3>1 DEF FillUp
    <2> QED BY <2>1, <2>2
<1> HIDE DEF T
<1>14. /\ T \in [Page \ StackPages -> Frame \cup {NULL}]
       /\ LeftOver(R, S, q) \in Seq(Frame)
       /\ Distinct(T) /\ Distinct(LeftOver(R, S, q)) /\ Values(T) \cap Values(LeftOver(R, S, q)) = {}
       /\ Values(T) \cup Values(LeftOver(R, S, q)) = Values(K) \cup Values(q)
    BY <1>8, <1>11, <1>12 DEF Filled
<1>15. /\ \A i \in Page \ StackPages : R[i] # NULL \/ i \notin S => T[i] = R[i]
       /\ Enough(R, S, q) => \A i \in S : T[i] # NULL
    BY <1>8, <1>11, <1>12 DEF Filled
<1>16. KernelTable' = T
    <2>1. KernelTable' = [i \in Page \ StackPages |-> R'[i]]
        BY DEF KernelTable, R
    <2> QED BY <1>13, <1>14, <2>1
<1>17. \A i \in StackPages : region_0_pages'[i] = region_0_pages[i]
    BY <1>13, Layout DEF R
<1>18. \A i \in TempPages : region_0_pages'[i] = NULL
    BY <1>1, <1>6, <1>13, <1>15, Layout DEF R, UpState
<1>19. /\ KernelBrkPage' \in {n, KernelBrkPage}
       /\ ~Enough(R, S, q) => KernelBrkPage' = KernelBrkPage
    <2>1. KernelBrkPage' = OrigKernelBrkPage + kernel_brk_offset'
        BY DEF KernelBrkPage
    <2>2. n \in Nat
        BY DEF Page
    <2>3. CASE kernel_brk_offset' = kernel_brk_offset
        BY <1>2, <1>3, <2>1, <2>3
    <2>4. CASE kernel_brk_offset' = n - OrigKernelBrkPage /\ Enough(R, S, q)
        BY <2>1, <2>2, <2>4
    <2> QED BY <1>4, <2>3, <2>4
<1>20. HeapMapped'
    <2> SUFFICES ASSUME NEW i \in FirstKernelTextPage .. KernelBrkPage' - 1
                 PROVE  region_0_pages'[i] # NULL
        BY DEF HeapMapped
    <2>1. KernelBrkPage' \in Nat /\ KernelBrkPage' <= n
        BY <1>3, <1>19 DEF Page
    <2> DEFINE k == KernelBrkPage'
    <2> HIDE DEF k
    <2>5. i \in Nat /\ i < k /\ i < n /\ k \in Nat /\ n \in Nat /\ FirstKernelTextPage <= i
        <3>1. i \in FirstKernelTextPage .. k - 1 /\ k \in Nat /\ k <= n
            BY <2>1 DEF k
        <3>2. FirstKernelTextPage \in Nat /\ n \in Nat
            BY DEF Page
        <3> QED BY <3>1, <3>2
    <2>2. i \in Page \ StackPages
        BY <2>5 DEF Page, StackPages
    <2>3. CASE i < KernelBrkPage
        <3>1. R[i] # NULL
            BY <1>1, <1>3, <2>5, <2>3 DEF HeapMapped, R
        <3> QED BY <1>13, <1>15, <2>2, <3>1 DEF R
    <2>4. CASE ~(i < KernelBrkPage)
        <3>1. k # KernelBrkPage /\ i \in S
            BY <1>3, <1>5, <2>5, <2>4, SMTT(30)
        <3>2. Enough(R, S, q)
            BY <1>19, <3>1 DEF k
        <3> QED BY <1>13, <1>15, <2>2, <3>1, <3>2 DEF R
    <2> QED BY <2>3, <2>4
<1>21. /\ Values(KernelTable') \cup Values(free_frame_queue')
              = Values(KernelTable) \cup Values(free_frame_queue)
       /\ Values(KernelTable') \cap Values(free_frame_queue') = {}
       /\ Distinct(KernelTable') /\ Distinct(free_frame_queue')
    BY <1>4, <1>14, <1>16 DEF K, q
<1>22. HeapSound'
    BY <1>1, <1>19, <1>20 DEF HeapSound
<1> QED BY <1>17, <1>18, <1>21, <1>22, KernelStep

LEMMA HeapShrinks ==
    ASSUME MemInv, TypeInv', Intact', phase = "up", machine = "up", NEW n \in Page,
           n >= OrigKernelBrkPage, n < KernelBrkPage, shrink_heap_pages(n),
           UNCHANGED <<phase, frame, current_process, pcb, page_table, kernel_stack_pages,
                       current_brk, exiting, machine>>
    PROVE  StepRight
<1> USE KernelHeapAssumption, MemoryAssumption
<1> DEFINE S == n + 1 .. KernelBrkPage
           R == region_0_pages
           q == free_frame_queue
           K == KernelTable
           s == FramesDown(R, S)
<1>1. /\ MemoryTypeOK /\ TablesDistinct /\ UpState /\ F!Exclusive(Held)
      /\ HeapMapped /\ KernelBrkPage <= NUM_PAGES - 2 * NUM_KSTACK_FRAMES
    BY DEF MemInv, TypeInv, HeapSound
<1>2. /\ R \in [Page -> Frame \cup {NULL}] /\ q \in Seq(Frame)
      /\ kernel_brk_offset \in 0 .. HEAP_LIMIT - OrigKernelBrkPage
    BY <1>1 DEF MemoryTypeOK, HeapTypeOK
<1>3. KernelBrkPage \in Nat
    BY <1>2 DEF KernelBrkPage
<1>4. /\ R' = [i \in Page |-> IF i \in S THEN NULL ELSE R[i]]
      /\ free_frame_queue' = q \o s /\ kernel_brk_offset' = n - OrigKernelBrkPage
    BY DEF shrink_heap_pages
<1>5. S \subseteq Page \ StackPages
    BY <1>1, <1>3 DEF Page, StackPages
<1>6. IsFiniteSet(S) /\ S \in SUBSET Page
    BY <1>5, Layout, FS_Subset
<1>7. Distinct(K) /\ Distinct(q) /\ Values(K) \cap Values(q) = {}
    BY <1>1, ListApart DEF TablesDistinct
<1>8. DOMAIN K = Page \ StackPages /\ \A i \in Page \ StackPages : K[i] = R[i]
    BY DEF KernelTable
<1>9. /\ DOMAIN KernelTable' = Page \ StackPages
      /\ \A i \in Page \ StackPages : KernelTable'[i] = IF i \in S THEN NULL ELSE R[i]
    BY <1>4 DEF KernelTable
<1>10. HeapSound'
    <2>1. KernelBrkPage' = n
        BY <1>4 DEF KernelBrkPage, Page
    <2> SUFFICES ASSUME NEW i \in FirstKernelTextPage .. n - 1 PROVE R'[i] # NULL
        BY <1>1, <1>3, <2>1 DEF HeapMapped, HeapSound, Page
    <2>2. i \in Page /\ i \notin S /\ i \in FirstKernelTextPage .. KernelBrkPage - 1
        BY <1>3 DEF Page
    <2> QED BY <1>1, <1>4, <2>2 DEF HeapMapped
<1> HIDE DEF S, R, q, K, s
<1>12. Lists(s, R, S)
    BY <1>2, <1>6, Layout, FramesDownLemma DEF s
<1>13. \A i, j \in S : R[i] = R[j] /\ R[i] # NULL => i = j
    BY <1>5, <1>7, <1>8 DEF Distinct
<1>14. s \in Seq(Frame) /\ Distinct(s) /\ Values(s) = {R[i] : i \in S} \ {NULL}
    BY <1>12, <1>13 DEF Lists
<1>15. Values(s) \subseteq Values(K)
    BY <1>5, <1>8, <1>14 DEF Values
<1>16. q \o s \in Seq(Frame) /\ Distinct(q \o s) /\ Values(q \o s) = Values(q) \cup Values(s)
    BY <1>2, <1>7, <1>14, <1>15, ConcatLemma
<1>17. /\ Values(KernelTable') \subseteq Values(K)
       /\ Values(K) \subseteq Values(KernelTable') \cup Values(s)
       /\ Values(KernelTable') \cap Values(s) = {}
    <2>1. ASSUME NEW x \in Values(KernelTable') PROVE x \in Values(K) /\ x \notin Values(s)
        <3>1. PICK i \in Page \ StackPages : i \notin S /\ x = R[i] /\ x # NULL
            BY <1>9 DEF Values
        <3>2. x \in Values(K)
            BY <1>8, <3>1 DEF Values
        <3>3. \A j \in S : R[j] # x
            BY <1>5, <1>7, <1>8, <3>1 DEF Distinct
        <3> QED BY <1>14, <3>2, <3>3
    <2>2. ASSUME NEW x \in Values(K) PROVE x \in Values(KernelTable') \cup Values(s)
        <3>1. PICK i \in Page \ StackPages : x = R[i] /\ x # NULL
            BY <1>8 DEF Values
        <3>2. CASE i \in S
            BY <1>14, <3>1, <3>2
        <3>3. CASE i \notin S
            BY <1>9, <3>1, <3>3 DEF Values
        <3> QED BY <3>2, <3>3
    <2> QED BY <2>1, <2>2
<1>18. Distinct(KernelTable')
    BY <1>7, <1>8, <1>9 DEF Distinct
<1>19. /\ Values(KernelTable') \cup Values(free_frame_queue')
              = Values(KernelTable) \cup Values(free_frame_queue)
       /\ Values(KernelTable') \cap Values(free_frame_queue') = {}
       /\ Distinct(free_frame_queue')
    BY <1>4, <1>7, <1>15, <1>16, <1>17 DEF K, q
<1>20. \A i \in StackPages : region_0_pages'[i] = region_0_pages[i]
    BY <1>4, <1>5, Layout DEF R
<1>21. \A i \in TempPages : region_0_pages'[i] = NULL
    BY <1>1, <1>4, Layout DEF R, UpState
<1> QED BY <1>10, <1>18, <1>19, <1>20, <1>21, KernelStep

LEMMA HeapMoveRight ==
    ASSUME MemInv, TypeInv', Intact', NEW n \in Page, HeapMove(n)
    PROVE  StepRight
<1> USE KernelHeapAssumption
<1>1. /\ phase = "up" /\ machine = "up" /\ SetKernelBrk(n)
      /\ UNCHANGED <<current_process, pcb, page_table, kernel_stack_pages, current_brk,
                     exiting, machine>>
    BY DEF HeapMove
<1>2. KernelBrkPage \in Nat
    BY DEF MemInv, TypeInv, MemoryTypeOK, HeapTypeOK, KernelBrkPage
<1>3. ~Overgrows(n)
    BY <1>1, Zenon DEF Intact, SetKernelBrk
<1>4. n <= NUM_PAGES - 2 * NUM_KSTACK_FRAMES
    BY <1>3 DEF Overgrows, Page
<1>5. /\ n >= OrigKernelBrkPage /\ UNCHANGED <<phase, frame>>
      /\ IF n < KernelBrkPage THEN shrink_heap_pages(n) ELSE expand_heap_pages(n)
    BY <1>1, Zenon DEF SetKernelBrk
<1> DEFINE Same == UNCHANGED <<phase, frame, current_process, pcb, page_table,
                               kernel_stack_pages, current_brk, exiting, machine>>
<1>6. Same
    BY <1>1, <1>5
<1>7. CASE n < KernelBrkPage
    BY <1>1, <1>5, <1>6, <1>7, HeapShrinks
<1>8. CASE ~(n < KernelBrkPage)
    <2>1. n >= KernelBrkPage
        BY <1>2, <1>8 DEF Page
    <2> QED BY <1>1, <1>4, <1>5, <1>6, <1>8, <2>1, HeapExpands
<1> QED BY <1>7, <1>8

-----------------------------------------------------------------------------
(* Kernel stacks                                                           *)

LEMMA SwitchStep ==
    ASSUME MemInv, TypeInv', Intact', phase = "up", NEW q \in Proc, LoadStack(q),
           current_process' = q, exiting' = "no",
           kernel_stack_pages'[q] = kernel_stack_pages[q],
           \A r \in Proc : pcb[r] = "unused" => kernel_stack_pages'[r] = kernel_stack_pages[r],
           \A r \in Proc : StackOf(r)' = StackOf(r),
           machine = "up",
           UNCHANGED <<phase, frame, kernel_brk_offset, free_frame_queue, pcb, page_table>>
    PROVE  StepRight
<1> USE KernelHeapAssumption, MemoryAssumption
<1>1. /\ MemoryTypeOK /\ F!Exclusive(Held) /\ TablesDistinct /\ UpState
      /\ HeapMapped /\ KernelBrkPage <= NUM_PAGES - 2 * NUM_KSTACK_FRAMES
    BY DEF MemInv, TypeInv, HeapSound
<1>2. /\ StackEntries' = kernel_stack_pages[q]
      /\ \A i \in Page \ StackPages : region_0_pages'[i] = region_0_pages[i]
    BY StackLoaded DEF MemInv
<1>3. KernelTable' = KernelTable
    BY <1>2 DEF KernelTable
<1>4. TablesDistinct' /\ Given(Held, Held') /\ Kept(Held, Held')
    BY <1>1, <1>3, KernelMoved, ListApart DEF TablesDistinct
<1>5. StackInPlace'
    BY <1>2 DEF StackInPlace
<1>6. UpState'
    <2>1. \A i \in TempPages : region_0_pages'[i] = NULL
        BY <1>1, <1>2, Layout DEF UpState
    <2>2. \A r \in Proc : pcb'[r] = "unused" =>
              page_table'[r] = NoPages /\ kernel_stack_pages'[r] = NoStack
        BY <1>1 DEF UpState
    <2> QED BY <1>5, <2>1, <2>2 DEF UpState, TempPages, NoPages, NoStack
<1>7. HeapSound'
    <2>1. KernelBrkPage' = KernelBrkPage /\ KernelBrkPage \in Nat
        BY <1>1 DEF MemoryTypeOK, HeapTypeOK, KernelBrkPage
    <2>2. ASSUME NEW i \in FirstKernelTextPage .. KernelBrkPage - 1
          PROVE  region_0_pages'[i] # NULL
        <3>1. i \in Page \ StackPages
            BY <1>1, <2>1 DEF Page, StackPages
        <3> QED BY <1>1, <1>2, <3>1 DEF HeapMapped
    <2> QED BY <1>1, <2>1, <2>2 DEF HeapSound, HeapMapped
<1>8. MemInv'
    BY <1>4, <1>6, <1>7 DEF MemInv, Given
<1> QED BY <1>4, <1>8 DEF StepRight

LEMMA KCSwitchRight ==
    ASSUME MemInv, TypeInv', Intact', NEW p \in Proc, NEW q \in Proc, KCSwitch(p, q)
    PROVE  StepRight
<1> USE MemoryAssumption
<1>1. /\ phase = "up" /\ machine = "up" /\ exiting = "no" /\ current_process = p /\ q # p
      /\ pcb[q] = "live" /\ LoadStack(q) /\ current_process' = q /\ exiting' = "no"
      /\ kernel_stack_pages' = [kernel_stack_pages EXCEPT ![p] = StackEntries]
      /\ UNCHANGED <<phase, frame, kernel_brk_offset, free_frame_queue, pcb, page_table>>
    BY DEF KCSwitch, InKernel
<1>2. MemoryTypeOK /\ pcb[p] = "live"
    BY <1>1 DEF MemInv, TypeInv, CpuInPlace
<1>3. \A r \in Proc : kernel_stack_pages'[r] = IF r = p THEN StackEntries ELSE kernel_stack_pages[r]
    BY <1>1, <1>2 DEF MemoryTypeOK
<1>4. StackEntries' = kernel_stack_pages[q]
    BY <1>1, StackLoaded DEF MemInv
<1>5. Running = p /\ Running' = q
    BY <1>1 DEF Running
<1>6. \A r \in Proc : StackOf(r)' = StackOf(r)
    BY <1>1, <1>3, <1>4, <1>5 DEF StackOf
<1> QED BY <1>1, <1>2, <1>3, <1>6, SwitchStep

LEMMA ExitSwitchRight ==
    ASSUME MemInv, TypeInv', Intact', NEW q \in Proc, ExitSwitch(q)
    PROVE  StepRight
<1> USE MemoryAssumption
<1>1. /\ machine = "up" /\ exiting = "stack_freed" /\ pcb[q] = "live" /\ LoadStack(q)
      /\ current_process' = q /\ exiting' = "no"
      /\ UNCHANGED <<phase, frame, kernel_brk_offset, free_frame_queue, pcb, page_table,
                     kernel_stack_pages>>
    BY DEF ExitSwitch
<1>2. phase = "up"
    BY <1>1 DEF MemInv, TypeInv, CpuInPlace, MemoryTypeOK, HeapTypeOK
<1>3. StackEntries' = kernel_stack_pages[q]
    BY <1>1, StackLoaded DEF MemInv
<1>4. Running = NULL /\ Running' = q
    BY <1>1 DEF Running
<1>5. \A r \in Proc : StackOf(r)' = StackOf(r)
    BY <1>1, <1>3, <1>4 DEF StackOf
<1> QED BY <1>1, <1>2, <1>5, SwitchStep

(* The kernel stack of an exiting process goes to the list.                *)
LEMMA ExitStackRight ==
    ASSUME MemInv, TypeInv', Intact', NEW p \in Proc, ExitStack(p)
    PROVE  StepRight
<1> USE MemoryAssumption
<1> DEFINE st == kernel_stack_pages[p]
           q == free_frame_queue
           s == FramesUp(st, KStack)
<1>1. /\ machine = "up" /\ exiting = "pages_freed" /\ current_process = p
      /\ free_frame_queue' = q \o s
      /\ kernel_stack_pages' = [kernel_stack_pages EXCEPT ![p] = NoStack]
      /\ pcb' = [pcb EXCEPT ![p] = "gone"]
      /\ current_process' = NULL /\ exiting' = "stack_freed"
      /\ UNCHANGED <<phase, frame, region_0_pages, kernel_brk_offset, page_table, machine>>
    BY DEF ExitStack
<1>2. /\ MemoryTypeOK /\ F!Exclusive(Held) /\ TablesDistinct
      /\ phase = "up" /\ UpState /\ HeapSound
    BY <1>1 DEF MemInv, TypeInv, CpuInPlace, MemoryTypeOK, HeapTypeOK
<1>3. st = StackEntries
    BY <1>1, <1>2 DEF UpState, StackInPlace
<1>4. Running = p /\ Running' = NULL /\ StackEntries' = StackEntries /\ KernelTable' = KernelTable
    BY <1>1 DEF Running, StackEntries, KernelTable
<1>5. StackOf(p) = st /\ st \in [KStack -> Frame \cup {NULL}] /\ Distinct(st) /\ q \in Seq(Frame)
      /\ Distinct(q) /\ Values(st) \cap Values(q) = {}
    <2>1. StackOf(p) = st
        BY <1>3, <1>4 DEF StackOf
    <2> QED BY <1>2, <2>1, ListApart DEF TablesDistinct, MemoryTypeOK, HeapTypeOK
<1>6. NoStack \in [KStack -> Frame \cup {NULL}] /\ Distinct(NoStack) /\ Values(NoStack) = {}
    BY NoTables
<1>7. \A r \in Proc : /\ pcb'[r] = IF r = p THEN "gone" ELSE pcb[r]
                      /\ kernel_stack_pages'[r] = IF r = p THEN NoStack ELSE kernel_stack_pages[r]
    BY <1>1, <1>2 DEF MemoryTypeOK
<1>8. \A r \in Proc : StackOf(r)' = IF r = p THEN NoStack ELSE StackOf(r)
    BY <1>1, <1>4, <1>7 DEF StackOf
<1> HIDE DEF st, s, q
<1>9. Lists(s, st, KStack)
    BY <1>5, Layout, FramesUpLemma DEF s
<1>10. s \in Seq(Frame) /\ Distinct(s) /\ Values(s) = Values(st)
    BY <1>5, <1>9 DEF Lists, Distinct, Values
<1> DEFINE z == q \o s
<1>11. z \in Seq(Frame) /\ Distinct(z) /\ Values(z) = Values(q) \cup Values(st)
    BY <1>5, <1>10, ConcatLemma
<1>12. free_frame_queue' = z
    BY <1>1
<1> HIDE DEF z
<1>13. TablesDistinct'
    BY <1>1, <1>2, <1>4, <1>6, <1>8, <1>11, <1>12 DEF TablesDistinct
<1>14. Given(Held, Held') /\ Kept(Held, Held')
    <2> DEFINE h == Held
               g == Held'
               w == StackUser(p)
    <2>1. /\ h[FreeUser] = Values(q) /\ g[FreeUser] = Values(z)
          /\ h[KernelUser] = g[KernelUser]
        BY <1>1, <1>2, <1>4, <1>12, HeldFactsHold, HeldFactsNext DEF HeldFacts, FreeFrames, q
    <2>2. \A r \in Proc : /\ g[PagesUser(r)] = h[PagesUser(r)]
                          /\ h[StackUser(r)] = Values(StackOf(r))
                          /\ g[StackUser(r)] = IF r = p THEN {} ELSE Values(StackOf(r))
        BY <1>1, <1>6, <1>8, HeldFactsHold, HeldFactsNext DEF HeldFacts
    <2>3. F!Exclusive(h)
        BY <1>2
    <2> HIDE DEF h, g, w
    <2>4. w \in Users \ {FreeUser} /\ h[w] = Values(st) /\ g[w] = {}
        BY <1>5, <2>2, UsersAre DEF w
    <2>5. ASSUME NEW u \in Users \ {w, FreeUser} PROVE g[u] = h[u]
        <3>1. CASE u = KernelUser
            BY <2>1, <3>1
        <3>2. CASE u # KernelUser
            <4>1. PICK r \in Proc : u = PagesUser(r) \/ u = StackUser(r)
                BY <2>5, <3>2, UsersAre
            <4> QED BY <2>2, <4>1 DEF w
        <3> QED BY <3>1, <3>2
    <2>6. Given(h, g)
        BY <1>11, <2>1, <2>3, <2>4, <2>5, Transfer
    <2>7. Kept(h, g)
        BY <1>11, <2>1, <2>4, <2>5, UsersAre DEF Kept
    <2> QED BY <2>6, <2>7 DEF h, g
<1>15. UpState'
    <2>1. StackInPlace'
        BY <1>1 DEF StackInPlace
    <2>2. \A r \in Proc : pcb'[r] = "unused" =>
              page_table'[r] = NoPages /\ kernel_stack_pages'[r] = NoStack
        BY <1>1, <1>2, <1>7 DEF UpState
    <2>3. \A i \in TempPages : region_0_pages'[i] = NULL
        BY <1>1, <1>2 DEF UpState
    <2> QED BY <2>1, <2>2, <2>3 DEF UpState, TempPages, NoPages, NoStack
<1>16. HeapSound'
    BY <1>1, <1>2 DEF HeapSound, HeapMapped, KernelBrkPage
<1>17. MemInv'
    BY <1>1, <1>2, <1>13, <1>14, <1>15, <1>16 DEF MemInv, Given
<1> QED BY <1>14, <1>17 DEF StepRight

-----------------------------------------------------------------------------
(* Fork                                                                    *)

LEMMA TempClear ==
    ASSUME MemInv, UpState, NEW S \in SUBSET TempPages
    PROVE  Unmapped(region_0_pages, S) = region_0_pages
<1>1. region_0_pages \in [Page -> Frame \cup {NULL}]
    BY DEF MemInv, TypeInv, MemoryTypeOK, HeapTypeOK
<1>2. \A i \in S : region_0_pages[i] = NULL
    BY DEF UpState
<1> QED BY <1>1, <1>2 DEF Unmapped

LEMMA ForkNoFramesRight ==
    ASSUME MemInv, TypeInv', Intact', NEW p \in Proc, ForkNoFrames(p)
    PROVE  StepRight
<1> USE KernelHeapAssumption, MemoryAssumption
<1> DEFINE t == page_table[p]
           q == <<>>
<1>1. UserCall(p) /\ free_frame_queue' = q
    BY DEF ForkNoFrames
<1>2. exiting = "no" /\ t \in [Page -> Frame \cup {NULL}] /\ Distinct(t) /\ TypeInv /\ UpState
    BY <1>1, UpCall
<1>3. q \in Seq(Frame) /\ Distinct(q) /\ Values(q) = {}
    BY DEF Distinct, Values
<1>4. page_table' = [page_table EXCEPT ![p] = t]
    BY <1>2, SameTables DEF ForkNoFrames, memVars
<1>5. region_0_pages' = region_0_pages
    <2>1. {NUM_PAGES - 2 * NUM_KSTACK_FRAMES} \in SUBSET TempPages
        BY DEF TempPages
    <2> QED BY <1>2, <2>1, TempClear DEF ForkNoFrames
<1>6. /\ UNCHANGED <<phase, frame, kernel_brk_offset, current_process, pcb, kernel_stack_pages>>
      /\ exiting' = "no"
    BY <1>2 DEF ForkNoFrames, memVars
<1>7. Values(t) \cap Values(q) = {} /\ Values(t) \cup Values(q)
          \subseteq Values(page_table[p]) \cup Values(free_frame_queue)
    BY <1>3
<1> HIDE DEF t, q
<1>8. MemInv' /\ Given(Held, Held')
    BY <1>1, <1>2, <1>3, <1>4, <1>5, <1>6, <1>7, UserStep
<1> QED BY <1>1, <1>8 DEF StepRight, MayLose, q

(* The frames that Fork takes from list q for table T and stack s of the   *)
(* child are different ones.                                               *)
LEMMA ForkFramesLemma ==
    ASSUME NEW p \in Proc, page_table[p] \in [Page -> Frame \cup {NULL}],
           NEW n, n = Cardinality(Valid(page_table[p])),
           NEW q \in Seq(Frame), Distinct(q), Len(q) >= n + NUM_KSTACK_FRAMES,
           NEW T, T = ForkFrames(p, q), NEW s, s = [i \in KStack |-> q[n + 1 + i]],
           NEW d, d = Drop(q, n + NUM_KSTACK_FRAMES)
    PROVE  /\ Distinct(T) /\ Distinct(s) /\ Distinct(d)
           /\ Values(T) \cap Values(s) = {} /\ Values(T) \cap Values(d) = {}
           /\ Values(s) \cap Values(d) = {}
           /\ Values(T) \cup Values(s) \cup Values(d) = Values(q)
<1> USE KernelHeapAssumption
<1> DEFINE V == Valid(page_table[p])
           N == NoPages
           L == Drop(q, n)
<1>1. /\ n \in Nat /\ n <= Len(q) /\ LeftOver(N, V, q) = L
      /\ V \in SUBSET Page /\ IsFiniteSet(V) /\ T = FillUp(N, V, q)
      /\ \A i \in KStack : n + 1 + i \in n + 1 .. n + NUM_KSTACK_FRAMES /\ n + 1 + i \in 1 .. Len(q)
    BY ForkFramesTyped
<1>2. n + NUM_KSTACK_FRAMES \in Nat /\ n + NUM_KSTACK_FRAMES <= Len(q)
    BY <1>1
<1>3. N \in [Page -> Frame \cup {NULL}] /\ Distinct(N) /\ Values(N) = {}
    BY NoTables
<1> HIDE DEF V, N, L
<1>4. Filled(N, V, q, T)
    <2>1. Filled(N, V, q, FillUp(N, V, q))
        BY <1>1, <1>3, Layout, FillUpLemma
    <2> QED BY <1>1, <2>1
<1>5. /\ Distinct(T) /\ Values(T) \cap Values(L) = {} /\ Values(T) \cup Values(L) = Values(q)
    BY <1>1, <1>3, <1>4 DEF Filled
<1>6. /\ Values(L) = {q[k] : k \in n + 1 .. Len(q)}
      /\ Distinct(d)
      /\ Values(d) = {q[k] : k \in n + NUM_KSTACK_FRAMES + 1 .. Len(q)}
      /\ \A k \in 1 .. n + NUM_KSTACK_FRAMES : q[k] \notin Values(d)
    BY <1>1, <1>2, DropLemma DEF L
<1>7. \A k \in n + 1 .. n + NUM_KSTACK_FRAMES : k - n - 1 \in KStack /\ n + 1 + (k - n - 1) = k
    BY <1>1, <1>2 DEF KStack
<1>8. DOMAIN s = KStack /\ \A i \in KStack : s[i] = q[n + 1 + i] /\ s[i] # NULL
    BY <1>1
<1>9. Distinct(s)
    <2> SUFFICES ASSUME NEW i \in KStack, NEW j \in KStack, s[i] = s[j] PROVE i = j
        BY <1>8 DEF Distinct
    <2>1. n + 1 + i = n + 1 + j
        BY <1>1, <1>8 DEF Distinct
    <2> QED BY <1>1, <2>1 DEF KStack
<1>10. Values(s) = {q[k] : k \in n + 1 .. n + NUM_KSTACK_FRAMES}
    <2>1. Values(s) \subseteq {q[k] : k \in n + 1 .. n + NUM_KSTACK_FRAMES}
        BY <1>1, <1>8 DEF Values
    <2>2. ASSUME NEW k \in n + 1 .. n + NUM_KSTACK_FRAMES PROVE q[k] \in Values(s)
        <3>1. k - n - 1 \in KStack /\ s[k - n - 1] = q[k]
            BY <1>7, <1>8
        <3> QED BY <1>8, <3>1 DEF Values
    <2> QED BY <2>1, <2>2
<1>11. Values(s) \cup Values(d) = Values(L)
    <2>1. \A k : k \in n + 1 .. Len(q) <=> \/ k \in n + 1 .. n + NUM_KSTACK_FRAMES
                                           \/ k \in n + NUM_KSTACK_FRAMES + 1 .. Len(q)
        BY <1>1, <1>2
    <2> QED BY <1>6, <1>10, <2>1
<1>12. Values(s) \cap Values(d) = {}
    <2>1. \A k \in n + 1 .. n + NUM_KSTACK_FRAMES : k \in 1 .. n + NUM_KSTACK_FRAMES
        BY <1>1, <1>2
    <2> QED BY <1>6, <1>10, <2>1
<1> QED BY <1>5, <1>6, <1>9, <1>11, <1>12

LEMMA ForkRight ==
    ASSUME MemInv, TypeInv', Intact', NEW p \in Proc, NEW c \in Proc, ForkHandler(p, c)
    PROVE  StepRight
<1> USE MemoryAssumption
<1> DEFINE n == Cardinality(Valid(page_table[p]))
           q == free_frame_queue
           T == ForkFrames(p, q)
           s == [i \in KStack |-> q[n + 1 + i]]
           d == Drop(q, n + NUM_KSTACK_FRAMES)
<1>1. /\ UserCall(p) /\ pcb[c] = "unused" /\ Len(q) >= n + NUM_KSTACK_FRAMES
      /\ pcb' = [pcb EXCEPT ![c] = "live"]
      /\ page_table' = [page_table EXCEPT ![c] = T]
      /\ kernel_stack_pages' = [kernel_stack_pages EXCEPT ![c] = s]
      /\ free_frame_queue' = d
      /\ region_0_pages' = Unmapped(region_0_pages, TempPages)
      /\ UNCHANGED <<phase, frame, kernel_brk_offset, current_process, exiting>>
    BY DEF ForkHandler
<1>2. MemoryTypeOK /\ F!Exclusive(Held) /\ TablesDistinct
    BY DEF MemInv, TypeInv
<1>3. /\ phase = "up" /\ machine = "up" /\ exiting = "no" /\ current_process = p
      /\ UpState /\ HeapSound /\ pcb[p] = "live" /\ q \in Seq(Frame) /\ Distinct(q)
      /\ page_table[p] \in [Page -> Frame \cup {NULL}]
    BY <1>1, UpCall, CallState
<1>4. /\ c # p /\ page_table[c] = NoPages /\ kernel_stack_pages[c] = NoStack
    BY <1>1, <1>3 DEF UpState
<1>5. region_0_pages' = region_0_pages
    BY <1>1, <1>3, TempClear
<1>6. /\ Distinct(T) /\ Distinct(s) /\ Distinct(d)
      /\ Values(T) \cap Values(s) = {} /\ Values(T) \cap Values(d) = {}
      /\ Values(s) \cap Values(d) = {}
      /\ Values(T) \cup Values(s) \cup Values(d) = Values(q)
    <2>1. /\ n = Cardinality(Valid(page_table[p])) /\ Len(q) >= n + NUM_KSTACK_FRAMES
          /\ T = ForkFrames(p, q) /\ s = [i \in KStack |-> q[n + 1 + i]]
          /\ d = Drop(q, n + NUM_KSTACK_FRAMES)
        BY <1>1
    <2> HIDE DEF n, q, T, s, d
    <2> QED BY <1>3, <2>1, ForkFramesLemma
<1> HIDE DEF n, T, s, d
<1>7. \A r \in Proc : /\ pcb'[r] = IF r = c THEN "live" ELSE pcb[r]
                      /\ page_table'[r] = IF r = c THEN T ELSE page_table[r]
                      /\ kernel_stack_pages'[r] = IF r = c THEN s ELSE kernel_stack_pages[r]
    BY <1>1, <1>2 DEF MemoryTypeOK
<1>8. /\ Running = p /\ Running' = p /\ StackEntries' = StackEntries
      /\ KernelTable' = KernelTable
    BY <1>1, <1>3, <1>5 DEF Running, StackEntries, KernelTable
<1>9. /\ \A r \in Proc : StackOf(r)' = IF r = c THEN s ELSE StackOf(r)
      /\ StackOf(c) = NoStack
    BY <1>4, <1>7, <1>8 DEF StackOf
<1>10. TablesDistinct'
    BY <1>1, <1>2, <1>6, <1>7, <1>8, <1>9 DEF TablesDistinct
<1>11. Values(NoPages) = {} /\ Values(NoStack) = {}
    BY NoTables
<1>12. Given(Held, Held') /\ Kept(Held, Held')
    <2> DEFINE h == Held
               g == Held'
               w == PagesUser(c)
               v == StackUser(c)
    <2>1. /\ h[FreeUser] = Values(q) /\ g[FreeUser] = Values(d)
          /\ h[KernelUser] = g[KernelUser]
        BY <1>1, <1>3, <1>8, HeldFactsHold, HeldFactsNext DEF HeldFacts, FreeFrames
    <2>2. \A r \in Proc : /\ h[PagesUser(r)] = Values(page_table[r])
                          /\ g[PagesUser(r)] = IF r = c THEN Values(T) ELSE Values(page_table[r])
                          /\ h[StackUser(r)] = Values(StackOf(r))
                          /\ g[StackUser(r)] = IF r = c THEN Values(s) ELSE Values(StackOf(r))
        BY <1>7, <1>9, HeldFactsHold, HeldFactsNext DEF HeldFacts
    <2>3. F!Exclusive(h)
        BY <1>2
    <2> HIDE DEF h, g, w, v, q
    <2>4. /\ w \in Users \ {FreeUser} /\ v \in Users \ {FreeUser} /\ w # v
          /\ h[w] = {} /\ g[w] = Values(T) /\ h[v] = {} /\ g[v] = Values(s)
        BY <1>4, <1>9, <1>11, <2>2, UsersAre DEF w, v
    <2>5. ASSUME NEW u \in Users \ {w, v, FreeUser} PROVE g[u] = h[u]
        <3>1. CASE u = KernelUser
            BY <2>1, <3>1
        <3>2. CASE u # KernelUser
            <4>1. PICK r \in Proc : u = PagesUser(r) \/ u = StackUser(r)
                BY <2>5, <3>2, UsersAre
            <4> QED BY <2>2, <4>1 DEF w, v
        <3> QED BY <3>1, <3>2
    <2>6. Given(h, g)
        <3>1. g[FreeUser] \subseteq h[FreeUser]
            BY <1>6, <2>1
        <3>2. \A u \in Users \ {FreeUser} : g[u] \subseteq h[u] \cup (h[FreeUser] \ g[FreeUser])
            BY <1>6, <2>1, <2>4, <2>5
        <3>3. \A u \in Users \ {w, v, FreeUser} : g[u] \cap h[FreeUser] = {}
            BY <2>3, <2>5, UsersAre DEF F!Exclusive
        <3>4. g[w] \cap g[v] = {}
            BY <1>6, <2>4
        <3>5. \A u, x \in Users \ {FreeUser} :
                  u # x => (g[u] \cap h[FreeUser]) \cap (g[x] \cap h[FreeUser]) = {}
            BY <3>3, <3>4
        <3> QED BY <2>3, <3>1, <3>2, <3>5, TakeFrames
    <2>7. Kept(h, g)
        <3>1. h[FreeUser] = g[w] \cup g[v] \cup g[FreeUser]
            BY <1>6, <2>1, <2>4
        <3> QED BY <2>4, <2>5, <3>1, UsersAre DEF Kept
    <2> QED BY <2>6, <2>7 DEF h, g
<1>13. UpState'
    <2>1. StackInPlace'
        BY <1>1, <1>3, <1>4, <1>7, <1>8 DEF UpState, StackInPlace
    <2>2. \A r \in Proc : pcb'[r] = "unused" =>
              page_table'[r] = NoPages /\ kernel_stack_pages'[r] = NoStack
        BY <1>3, <1>7 DEF UpState
    <2>3. \A i \in TempPages : region_0_pages'[i] = NULL
        BY <1>3, <1>5 DEF UpState
    <2> QED BY <2>1, <2>2, <2>3 DEF UpState, TempPages, NoPages, NoStack
<1>14. HeapSound'
    BY <1>1, <1>3, <1>5 DEF HeapSound, HeapMapped, KernelBrkPage
<1>15. MemInv'
    BY <1>1, <1>3, <1>10, <1>12, <1>13, <1>14 DEF MemInv, Given
<1> QED BY <1>12, <1>15 DEF StepRight

-----------------------------------------------------------------------------
-----------------------------------------------------------------------------
(* The boot                                                                *)

(* While the list is built, no frame is listed that a page is in.          *)
LEMMA BootApart ==
    Intact /\ BootState /\ Distinct(free_frame_queue) => TablesDistinct /\ F!Exclusive(Held)
<1> USE KernelHeapAssumption, MemoryAssumption
<1> SUFFICES ASSUME Intact, BootState, Distinct(free_frame_queue)
             PROVE  TablesDistinct /\ F!Exclusive(Held)
    OBVIOUS
<1>1. /\ phase = "boot" /\ region_0_pages \in [Page -> Frame \cup {NULL}]
      /\ free_frame_queue \in Seq(Frame) /\ PagesInPlace /\ ListedAbove
      /\ \A i \in StackPages : region_0_pages[i] = i
      /\ \A r \in Proc : page_table[r] = NoPages /\ kernel_stack_pages[r] = NoStack
    BY DEF BootState, BootInv, BootTypeOK
<1>2. Running = init_process
    BY DEF Running, BootState
<1>3. /\ DOMAIN StackEntries = KStack
      /\ \A i \in KStack : StackEntries[i] = NUM_PAGES - NUM_KSTACK_FRAMES + i
    BY <1>1, Layout DEF StackEntries
<1>4. /\ StackOf(init_process) = StackEntries
      /\ \A r \in Proc \ {init_process} : StackOf(r) = NoStack
    BY <1>1, <1>2 DEF StackOf
<1>5. /\ Values(NoPages) = {} /\ Values(NoStack) = {}
      /\ Distinct(NoPages) /\ Distinct(NoStack)
    BY NoTables
<1>6. Distinct(StackEntries) /\ Values(StackEntries) \subseteq StackPages
    <2>1. \A i \in KStack : StackEntries[i] \in StackPages
        BY <1>3, Layout
    <2>2. \A i, j \in KStack : StackEntries[i] = StackEntries[j] => i = j
        BY <1>3 DEF KStack
    <2> QED BY <1>3, <2>1, <2>2 DEF Distinct, Values
<1>7. /\ DOMAIN KernelTable = Page \ StackPages
      /\ \A i \in Page \ StackPages : /\ KernelTable[i] = region_0_pages[i]
                                      /\ KernelTable[i] # NULL => KernelTable[i] = i
                                                                  /\ i < FirstBrkPage + 2
    BY <1>1 DEF Intact, KernelTable, PagesInPlace, FirstBrkPage, Page
<1>8. /\ Distinct(KernelTable) /\ Values(KernelTable) \cap StackPages = {}
      /\ \A x \in Values(KernelTable) : x \in Page /\ x < FirstBrkPage + 2
    BY <1>7 DEF Distinct, Values
<1>9. TablesDistinct
    BY <1>1, <1>4, <1>5, <1>6, <1>8 DEF TablesDistinct
<1>10. \A x \in Values(free_frame_queue) : x > FirstBrkPage + 1 /\ x \notin StackPages
    BY <1>1 DEF ListedAbove, Values, FirstBrkPage, StackPages
<1>11. Values(free_frame_queue) \cap Values(KernelTable) = {}
    <2>1. \A x \in Page : ~(x < FirstBrkPage + 2 /\ x > FirstBrkPage + 1)
        BY DEF Page, FirstBrkPage
    <2> QED BY <1>8, <1>10, <2>1
<1>12. /\ Values(KernelTable) \subseteq {region_0_pages[i] : i \in Page}
       /\ Values(StackEntries) \subseteq {region_0_pages[i] : i \in Page}
    <2>1. Values(KernelTable) \subseteq {region_0_pages[i] : i \in Page}
        BY <1>7 DEF Values
    <2>2. \A i \in KStack : StackEntries[i] = region_0_pages[NUM_PAGES - NUM_KSTACK_FRAMES + i]
        BY DEF StackEntries
    <2>3. \A i \in KStack : NUM_PAGES - NUM_KSTACK_FRAMES + i \in Page
        BY Layout
    <2> QED BY <1>3, <2>1, <2>2, <2>3 DEF Values
<1>13. FreeFrames \cap Values(KernelTable) = {} /\ FreeFrames \cap Values(StackEntries) = {}
    BY <1>6, <1>10, <1>11, <1>12 DEF FreeFrames
<1>14. Values(KernelTable) \cap Values(StackEntries) = {}
    BY <1>6, <1>8
<1> DEFINE h == Held
<1>15. /\ h[FreeUser] = FreeFrames /\ h[KernelUser] = Values(KernelTable)
       /\ h[StackUser(init_process)] = Values(StackEntries)
       /\ \A r \in Proc : h[PagesUser(r)] = {} /\ (r # init_process => h[StackUser(r)] = {})
    BY <1>1, <1>4, <1>5, HeldFactsHold DEF HeldFacts
<1> HIDE DEF h
<1>16. \A u \in Users : \/ u \in {FreeUser, KernelUser, StackUser(init_process)}
                        \/ h[u] = {}
    BY <1>15, UsersAre
<1>17. F!Exclusive(h)
    <2>1. \A u, v \in {FreeUser, KernelUser, StackUser(init_process)} :
              u # v => h[u] \cap h[v] = {}
        BY <1>13, <1>14, <1>15
    <2> QED BY <1>16, <2>1 DEF F!Exclusive
<1> QED BY <1>9, <1>17 DEF h

LEMMA BootApartNext ==
    Intact' /\ BootState' /\ Distinct(free_frame_queue)' => TablesDistinct' /\ F!Exclusive(Held)'
    BY BootApart, PTL

LEMMA MemInvInit ==
    ASSUME MemoryInit
    PROVE  MemInv
<1> USE KernelHeapAssumption, MemoryAssumption
<1>1. BootInv
    BY BootInvInit DEF MemoryInit
<1>2. phase = "boot" /\ free_frame_queue = <<>>
    BY DEF MemoryInit, HeapInit
<1>3. Intact
    BY DEF Intact, MemoryInit, HeapInit
<1>4. BootState
    <2>1. \A i \in StackPages : region_0_pages[i] = i
        BY Layout DEF MemoryInit, HeapInit, init_page_tables
    <2>2. \A k \in DOMAIN free_frame_queue : free_frame_queue[k] < frame
        BY <1>2
    <2> QED BY <1>1, <2>1, <2>2 DEF BootState, MemoryInit
<1>5. Distinct(free_frame_queue)
    BY <1>2 DEF Distinct
<1>6. TablesDistinct /\ F!Exclusive(Held)
    BY <1>3, <1>4, <1>5, BootApart
<1>7. HeapSound
    BY <1>1 DEF HeapSound, BootInv, KernelBrkPage, MemoryInit, HeapInit
<1> QED BY <1>2, <1>3, <1>4, <1>6, <1>7, TypeInvInit DEF MemInv

LEMMA BrkExpands ==
    ASSUME NEW n \in Page, BootBrk(n), kernel_brk_offset \in BOOT_OFFSET .. HEAP_LIMIT - OrigKernelBrkPage
    PROVE  expand_heap_pages(n) /\ UNCHANGED frame /\ (~overgrown' => ~Overgrows(n))
<1>1. SetKernelBrk(n) /\ n >= KernelBrkPage
    BY Zenon DEF BootBrk
<1>2. ~(n < KernelBrkPage)
    BY <1>1, KernelHeapAssumption DEF KernelBrkPage, Page
<1>3. /\ IF n < KernelBrkPage THEN shrink_heap_pages(n) ELSE expand_heap_pages(n)
      /\ UNCHANGED <<phase, frame>> /\ (~overgrown' => ~Overgrows(n))
    BY <1>1, Zenon DEF SetKernelBrk
<1> QED BY <1>2, <1>3

LEMMA BootingRight ==
    ASSUME MemInv, TypeInv', Intact', Booting
    PROVE  StepRight
<1> USE KernelHeapAssumption, MemoryAssumption
<1>1. BootNext /\ UNCHANGED memVars
    BY DEF Booting
<1>2. phase = "boot" /\ phase' = "boot"
    BY <1>1, Zenon DEF BootNext, init_free_frame_queue, BootBrk, SetKernelBrk
<1>3. BootState /\ BootInv /\ TablesDistinct /\ F!Exclusive(Held) /\ HeapSound /\ ~overgrown
    BY <1>2 DEF MemInv, BootState, Intact
<1>4. BootInv'
    BY <1>1, <1>3, BootInvList, BootInvBrk DEF BootNext
<1>5. /\ region_0_pages \in [Page -> Frame \cup {NULL}] /\ free_frame_queue \in Seq(Frame)
      /\ PagesInPlace /\ frame \in 0 .. NumFrames
      /\ kernel_brk_offset \in BOOT_OFFSET .. HEAP_LIMIT - OrigKernelBrkPage
      /\ \A i \in StackPages : region_0_pages[i] = i
      /\ \A k \in DOMAIN free_frame_queue : free_frame_queue[k] < frame
    BY <1>3 DEF BootState, BootInv, BootTypeOK
<1>6. \A i \in Page : region_0_pages[i] # NULL => region_0_pages[i] = i
    BY <1>5, Layout DEF PagesInPlace
(* What the step does to the list and to the table.                        *)
<1>7. /\ Distinct(free_frame_queue')
      /\ \A k \in DOMAIN free_frame_queue' : free_frame_queue'[k] < frame'
      /\ \A i \in StackPages : region_0_pages'[i] = i
      /\ \A x \in Values(free_frame_queue') :
             x \in Values(free_frame_queue) \/ x \in Frame \ {region_0_pages[i] : i \in Page}
      /\ \A i \in Page : \/ region_0_pages'[i] = region_0_pages[i]
                         \/ region_0_pages[i] = NULL /\ region_0_pages'[i] = i
    <2>1. CASE init_free_frame_queue
        <3>1. /\ frame < NumFrames /\ frame' = frame + 1 /\ region_0_pages' = region_0_pages
              /\ free_frame_queue' = IF UnusedFrame(frame) THEN Append(free_frame_queue, frame)
                                     ELSE free_frame_queue
            BY <2>1 DEF init_free_frame_queue
        <3>2. CASE UnusedFrame(frame)
            <4> DEFINE q == free_frame_queue
                       z == Append(q, frame)
            <4>1. frame \in Frame /\ frame # NULL
                BY <1>5, <3>1 DEF Frame
            <4>2. /\ Len(q) \in Nat /\ DOMAIN q = 1 .. Len(q) /\ DOMAIN z = 1 .. Len(q) + 1
                  /\ \A k \in 1 .. Len(q) : z[k] = q[k] /\ z[k] < frame /\ z[k] \in Frame
                  /\ z[Len(q) + 1] = frame
                BY <1>5, <4>1
            <4>3. Distinct(q)
                BY <1>3 DEF TablesDistinct
            <4>4. frame \notin {region_0_pages[i] : i \in Page}
                <5> SUFFICES ASSUME NEW i \in Page, region_0_pages[i] = frame PROVE FALSE
                    OBVIOUS
                <5>1. frame = i
                    BY <1>6, <4>1
                <5>2. CASE i \in StackPages
                    BY <3>2, <5>1, <5>2 DEF UnusedFrame
                <5>3. CASE i \notin StackPages
                    <6>1. i < FirstBrkPage + 2
                        BY <1>3, <1>5, <4>1, <5>3 DEF PagesInPlace
                    <6>2. frame > FirstBrkPage + 1
                        BY <1>5, <3>2 DEF UnusedFrame, KernelBrkPage, FirstBrkPage
                    <6> QED BY <1>5, <5>1, <6>1, <6>2 DEF FirstBrkPage
                <5> QED BY <5>2, <5>3
            <4> HIDE DEF q, z
            <4>5. Distinct(z)
                <5> SUFFICES ASSUME NEW k \in DOMAIN z, NEW l \in DOMAIN z, z[k] = z[l] PROVE k = l
                    BY DEF Distinct
                <5>1. \A m \in 1 .. Len(q) : z[m] \in Nat /\ z[m] # frame
                    BY <1>5, <4>2 DEF Frame
                <5>2. CASE k \in 1 .. Len(q) /\ l \in 1 .. Len(q)
                    <6>1. q[k] = q[l] /\ q[k] # NULL
                        BY <4>2, <5>2
                    <6> QED BY <4>2, <4>3, <5>2, <6>1 DEF Distinct
                <5>3. CASE k = Len(q) + 1 /\ l = Len(q) + 1
                    BY <5>3
                <5>4. \A m \in DOMAIN z : m \in 1 .. Len(q) \/ m = Len(q) + 1
                    BY <4>2
                <5> QED BY <4>2, <5>1, <5>2, <5>3, <5>4
            <4>6. \A k \in DOMAIN z : z[k] < frame + 1
                <5>1. \A m \in DOMAIN z : m \in 1 .. Len(q) \/ m = Len(q) + 1
                    BY <4>2
                <5>2. \A m \in 1 .. Len(q) : z[m] \in Nat /\ z[m] < frame
                    BY <4>2 DEF Frame
                <5>3. frame \in Nat
                    BY <1>5
                <5> QED BY <4>2, <5>1, <5>2, <5>3
            <4>7. \A x \in Values(z) : x \in Values(q) \/ x = frame
                <5>1. \A m \in DOMAIN z : m \in 1 .. Len(q) \/ m = Len(q) + 1
                    BY <4>2
                <5> QED BY <4>2, <5>1 DEF Values
            <4>8. free_frame_queue' = z
                BY <3>1, <3>2 DEF z, q
            <4> QED BY <1>5, <3>1, <4>1, <4>4, <4>5, <4>6, <4>7, <4>8 DEF q
        <3>3. CASE ~UnusedFrame(frame)
            <4>1. free_frame_queue' = free_frame_queue
                BY <3>1, <3>3
            <4>2. \A k \in DOMAIN free_frame_queue : free_frame_queue[k] < frame + 1
                <5>1. \A k \in DOMAIN free_frame_queue : free_frame_queue[k] \in Nat
                    BY <1>5 DEF Frame
                <5>2. frame \in Nat /\ \A x \in Nat : x < frame => x < frame + 1
                    BY <1>5
                <5> QED BY <1>5, <5>1, <5>2
            <4> QED BY <1>3, <1>5, <3>1, <4>1, <4>2 DEF TablesDistinct
        <3> QED BY <3>2, <3>3
    <2>2. CASE \E n \in Page : BootBrk(n)
        <3>1. PICK n \in Page : BootBrk(n)
            BY <2>2
        <3>2. expand_heap_pages(n) /\ UNCHANGED frame
            BY <1>5, <3>1, BrkExpands
        <3>3. /\ region_0_pages' = [i \in Page |-> IF i \in Missing(region_0_pages, HeapPages(n))
                                                   THEN i ELSE region_0_pages[i]]
              /\ UNCHANGED <<frame, free_frame_queue>>
            BY <1>2, <3>2 DEF expand_heap_pages
        <3>4. \A i \in Page : \/ region_0_pages'[i] = region_0_pages[i]
                              \/ region_0_pages[i] = NULL /\ region_0_pages'[i] = i
            BY <3>3 DEF Missing
        <3>5. \A i \in StackPages : region_0_pages'[i] = i
            BY <1>5, <3>4, Layout
        <3> QED BY <1>3, <1>5, <3>3, <3>4, <3>5 DEF TablesDistinct
    <2> QED BY <1>1, <2>1, <2>2 DEF BootNext
<1>8. BootState'
    BY <1>1, <1>3, <1>4, <1>7 DEF BootState, memVars, NoPages, NoStack
<1>9. TablesDistinct' /\ F!Exclusive(Held')
    BY <1>7, <1>8, BootApartNext
<1>10. Given(Held, Held')
    <2> DEFINE h == Held
               g == Held'
               w == KernelUser
               U == Frame \ {region_0_pages[i] : i \in Page}
    <2>1. /\ h[FreeUser] = Values(free_frame_queue) \cup U
          /\ g[FreeUser] = Values(free_frame_queue')
                           \cup (Frame \ {region_0_pages'[i] : i \in Page})
          /\ h[w] = Values(KernelTable) /\ g[w] = Values(KernelTable')
        BY <1>2, HeldFactsHold, HeldFactsNext DEF HeldFacts, FreeFrames
    <2>2. Frame \ {region_0_pages'[i] : i \in Page} \subseteq U
        BY <1>7
    <2>3. g[FreeUser] \subseteq h[FreeUser]
        BY <1>7, <2>1, <2>2
    <2>4. ASSUME NEW x \in Values(KernelTable')
          PROVE  x \in Values(KernelTable) \/ x \in U
        <3>1. PICK i \in Page \ StackPages : x = region_0_pages'[i] /\ x # NULL
            BY DEF Values, KernelTable
        <3>2. CASE region_0_pages'[i] = region_0_pages[i]
            BY <3>1, <3>2 DEF Values, KernelTable
        <3>3. CASE region_0_pages[i] = NULL /\ region_0_pages'[i] = i
            <4>1. x = i /\ i \in Frame
                BY <3>1, <3>3 DEF Page, Frame
            <4>2. \A j \in Page : region_0_pages[j] # i
                BY <1>6, <3>3, <4>1
            <4> QED BY <4>1, <4>2
        <3> QED BY <1>7, <3>2, <3>3
    <2>5. \A r \in Proc : g[PagesUser(r)] = h[PagesUser(r)] /\ g[StackUser(r)] = h[StackUser(r)]
        <3>1. page_table' = page_table
            BY <1>1 DEF memVars
        <3>2. StackEntries' = StackEntries
            <4>1. \A i \in StackPages : region_0_pages'[i] = region_0_pages[i]
                BY <1>5, <1>7
            <4> QED BY <4>1, Layout DEF StackEntries
        <3>3. Running' = Running
            BY <1>1 DEF Running, memVars
        <3>4. \A r \in Proc : StackOf(r)' = StackOf(r)
            BY <1>1, <3>2, <3>3 DEF StackOf, memVars
        <3> QED BY <3>1, <3>4, HeldFactsHold, HeldFactsNext DEF HeldFacts
    <2>6. F!Exclusive(h) /\ F!Exclusive(g)
        BY <1>3, <1>9
    <2> HIDE DEF h, g
    <2>7. w \in Users \ {FreeUser} /\ FreeUser \in Users
        BY UsersAre
    <2>8. g[w] \cap g[FreeUser] = {}
        BY <2>6, <2>7 DEF F!Exclusive
    <2>9. \A u \in Users \ {w, FreeUser} : g[u] = h[u]
        BY <2>5, UsersAre
    <2>10. g[w] \subseteq h[w] \cup h[FreeUser]
        BY <2>1, <2>4
    <2> HIDE DEF w
    <2>11. Given(h, g)
        BY <2>3, <2>6, <2>7, <2>8, <2>9, <2>10, Transfer
    <2> QED BY <2>11 DEF h, g
<1>11. HeapSound'
    <2>1. HeapMapped'
        BY <1>4 DEF BootInv
    <2>2. KernelBrkPage' <= NUM_PAGES - 2 * NUM_KSTACK_FRAMES
        <3>1. CASE init_free_frame_queue
            BY <1>3, <3>1 DEF HeapSound, KernelBrkPage, init_free_frame_queue
        <3>2. CASE \E n \in Page : BootBrk(n)
            <4>1. PICK n \in Page : BootBrk(n)
                BY <3>2
            <4>2. expand_heap_pages(n) /\ ~Overgrows(n)
                BY <1>5, <4>1, BrkExpands DEF Intact
            <4>3. n <= NUM_PAGES - 2 * NUM_KSTACK_FRAMES
                BY <4>2 DEF Overgrows, Page
            <4>4. kernel_brk_offset' = n - OrigKernelBrkPage \/ kernel_brk_offset' = kernel_brk_offset
                BY <1>2, <4>2 DEF expand_heap_pages
            <4> QED BY <1>3, <1>5, <4>3, <4>4 DEF HeapSound, KernelBrkPage, Page
        <3> QED BY <1>1, <3>1, <3>2 DEF BootNext
    <2> QED BY <2>1, <2>2 DEF HeapSound
<1>12. MemInv'
    BY <1>2, <1>8, <1>9, <1>11 DEF MemInv
<1> QED BY <1>2, <1>10, <1>12 DEF StepRight, MayLose

(* The frames of idle (page table t, stack s) and of init (page table T)   *)
(* are different ones of list f, and d has none of them.                   *)
StartFrames(f, t, s, T, d) ==
    /\ Distinct(t) /\ Distinct(T) /\ Distinct(s) /\ Distinct(d)
    /\ Values(t) \cap Values(s) = {} /\ Values(t) \cap Values(T) = {}
    /\ Values(s) \cap Values(T) = {}
    /\ \A x \in Values(t) \cup Values(s) \cup Values(T) : x \in Values(f) \ Values(d)
    /\ Values(d) \subseteq Values(f)

LEMMA StartFramesLemma ==
    ASSUME NEW prog \in Programs, Loadable(prog), NEW f \in Seq(Frame), Distinct(f),
           Len(f) >= 1 + NUM_KSTACK_FRAMES + FramesPopped,
           NEW q, q = Drop(f, 1 + NUM_KSTACK_FRAMES),
           NEW t, t = [NoPages EXCEPT ![NUM_PAGES - 1] = f[1]],
           NEW s, s = [i \in KStack |-> f[2 + i]],
           NEW T, T = NewPages(prog, q), NEW d, d = Drop(q, FramesPopped)
    PROVE  StartFrames(f, t, s, T, d)
<1> USE KernelHeapAssumption, MemoryAssumption
<1> DEFINE k == 1 + NUM_KSTACK_FRAMES
<1>1. /\ FramesPopped \in Nat /\ k \in Nat /\ k > 1 /\ k <= Len(f) /\ Len(f) \in Nat
      /\ FramesPopped <= Len(f) - k
    BY DEF FramesPopped
<1>2. /\ q \in Seq(Frame) /\ Len(q) = Len(f) - k /\ Distinct(q)
      /\ \A j \in 1 .. k : f[j] \notin Values(q)
      /\ Values(q) = {f[j] : j \in k + 1 .. Len(f)}
    BY <1>1, DropLemma
<1>3. \A j \in 1 .. Len(f) : f[j] \in Frame /\ f[j] # NULL /\ f[j] \in Values(f)
    BY DEF Values
<1>4. Values(q) \subseteq Values(f)
    BY <1>1, <1>2, <1>3
<1>5. Len(q) >= FramesPopped
    BY <1>1, <1>2
<1>6. /\ Distinct(T) /\ Values(T) \subseteq Values(q) /\ Distinct(d) /\ Values(d) \subseteq Values(q)
      /\ Values(T) \cap Values(d) = {}
    BY <1>2, <1>5, NewPagesLemma
<1>7. 1 \in 1 .. Len(f) /\ 1 \in 1 .. k /\ NUM_PAGES - 1 \in Page
    BY <1>1 DEF Page
<1>8. /\ Distinct(t) /\ Values(t) = {f[1]}
    <2>1. /\ t \in [Page -> Frame \cup {NULL}]
          /\ \A i \in Page : t[i] = IF i = NUM_PAGES - 1 THEN f[1] ELSE NULL
        BY <1>3, <1>7 DEF NoPages
    <2>2. f[1] # NULL
        BY <1>3, <1>7
    <2> QED BY <1>7, <2>1, <2>2 DEF Distinct, Values
<1>9. \A i \in KStack : 2 + i \in 2 .. k /\ 2 + i \in 1 .. Len(f) /\ 2 + i \in 1 .. k
    BY <1>1 DEF KStack
<1>10. DOMAIN s = KStack /\ \A i \in KStack : s[i] = f[2 + i]
    BY <1>3, <1>9
<1>11. Distinct(s)
    <2> SUFFICES ASSUME NEW i \in KStack, NEW j \in KStack, s[i] = s[j] PROVE i = j
        BY <1>10 DEF Distinct
    <2>1. 2 + i = 2 + j
        BY <1>3, <1>9, <1>10 DEF Distinct
    <2> QED BY <2>1 DEF KStack
<1>12. Values(s) \subseteq {f[j] : j \in 2 .. k}
    BY <1>9, <1>10 DEF Values
<1>13. f[1] \notin Values(s)
    <2>1. \A j \in 2 .. k : j \in 1 .. Len(f) /\ j # 1
        BY <1>1
    <2>2. \A j \in 2 .. k : f[j] # f[1]
        BY <1>3, <1>7, <2>1 DEF Distinct
    <2> QED BY <1>12, <2>2
<1>14. \A x \in Values(s) : x \in Values(f) /\ x \notin Values(q)
    <2>1. \A j \in 2 .. k : j \in 1 .. Len(f) /\ j \in 1 .. k
        BY <1>1
    <2> QED BY <1>2, <1>3, <1>12, <2>1, ZenonT(60)
<1>15. f[1] \in Values(f) /\ f[1] \notin Values(q)
    BY <1>2, <1>3, <1>7
<1>16. /\ Values(t) \cap Values(s) = {} /\ Values(t) \cap Values(T) = {}
       /\ Values(s) \cap Values(T) = {}
    <2>1. Values(t) \cap Values(s) = {}
        BY <1>8, <1>13, ZenonT(60)
    <2>2. Values(t) \cap Values(T) = {}
        BY <1>6, <1>8, <1>15, ZenonT(60)
    <2>3. Values(s) \cap Values(T) = {}
        BY <1>6, <1>14, Zenon
    <2> QED BY <2>1, <2>2, <2>3
<1>17. /\ \A x \in Values(t) : x \in Values(f) \ Values(d)
       /\ \A x \in Values(s) : x \in Values(f) \ Values(d)
       /\ \A x \in Values(T) : x \in Values(f) \ Values(d)
    <2>1. \A x \in Values(t) : x \in Values(f) \ Values(d)
        BY <1>6, <1>8, <1>15, ZenonT(60)
    <2>2. \A x \in Values(s) : x \in Values(f) \ Values(d)
        BY <1>6, <1>14, Zenon
    <2>3. \A x \in Values(T) : x \in Values(f) \ Values(d)
        BY <1>4, <1>6, Zenon
    <2> QED BY <2>1, <2>2, <2>3
<1>18. Values(d) \subseteq Values(f)
    BY <1>4, <1>6
<1>19. \A x \in Values(t) \cup Values(s) \cup Values(T) : x \in Values(f) \ Values(d)
    BY <1>17
<1> QED BY <1>6, <1>8, <1>10, <1>11, <1>16, <1>18, <1>19 DEF StartFrames

LEMMA KernelStartRight ==
    ASSUME MemInv, TypeInv', Intact', NEW prog \in Programs, KernelStart(prog)
    PROVE  StepRight
<1> USE MemoryAssumption
<1> DEFINE f == free_frame_queue
           q == Drop(f, 1 + NUM_KSTACK_FRAMES)
           t == [NoPages EXCEPT ![NUM_PAGES - 1] = f[1]]
           s == [i \in KStack |-> f[2 + i]]
           T == NewPages(prog, q)
           d == Drop(q, FramesPopped)
           enough == Len(f) >= 1 + NUM_KSTACK_FRAMES + FramesPopped
<1>1. /\ phase = "boot" /\ Loadable(prog) /\ phase' = "up"
      /\ UNCHANGED <<frame, kernel_brk_offset, exiting>>
    BY DEF KernelStart
<1>2. /\ MemoryTypeOK /\ F!Exclusive(Held) /\ TablesDistinct /\ BootState
      /\ HeapMapped /\ KernelBrkPage <= NUM_PAGES - 2 * NUM_KSTACK_FRAMES
    BY <1>1 DEF MemInv, TypeInv, HeapSound
<1>3. /\ exiting = "no" /\ current_process = NULL /\ machine = "up"
      /\ \A r \in Proc : /\ pcb[r] = "unused" /\ page_table[r] = NoPages
                         /\ kernel_stack_pages[r] = NoStack
    BY <1>2 DEF BootState
<1>4. MayLose
    BY <1>1 DEF MayLose
<1>5. CASE ~enough
    <2>1. /\ machine' = "halted"
          /\ UNCHANGED <<page_table, kernel_stack_pages, free_frame_queue, pcb, current_process,
                         region_0_pages>>
        BY <1>5 DEF KernelStart
    <2>2. /\ KernelTable' = KernelTable /\ StackEntries' = StackEntries /\ Running' = Running
        BY <1>1, <2>1 DEF KernelTable, StackEntries, Running
    <2>3. \A r \in Proc : StackOf(r)' = StackOf(r)
        BY <2>1, <2>2 DEF StackOf
    <2>4. TablesDistinct'
        BY <1>2, <2>1, <2>2, <2>3 DEF TablesDistinct
    <2>5. Given(Held, Held')
        <3>1. Held'[FreeUser] \subseteq Held[FreeUser] /\ Held'[KernelUser] = Held[KernelUser]
            BY <1>1, <2>1, <2>2, HeldFactsHold, HeldFactsNext DEF HeldFacts, FreeFrames
        <3>2. \A r \in Proc : /\ Held'[PagesUser(r)] = Held[PagesUser(r)]
                              /\ Held'[StackUser(r)] = Held[StackUser(r)]
            BY <2>1, <2>3, HeldFactsHold, HeldFactsNext DEF HeldFacts
        <3>3. \A u \in Users : Held'[u] \subseteq Held[u]
            BY <3>1, <3>2, UsersAre
        <3> QED BY <1>2, <3>3, NothingGiven
    <2>6. HeapSound'
        BY <1>1, <1>2, <2>1 DEF HeapSound, HeapMapped, KernelBrkPage
    <2>7. MemInv'
        BY <1>1, <2>1, <2>4, <2>5, <2>6 DEF MemInv, Given
    <2> QED BY <1>4, <2>5, <2>7 DEF StepRight
<1>6. CASE enough
    <2>1. /\ page_table' = [page_table EXCEPT ![idle_process] = t, ![init_process] = T]
          /\ kernel_stack_pages' = [kernel_stack_pages EXCEPT ![idle_process] = s]
          /\ free_frame_queue' = d
          /\ pcb' = [pcb EXCEPT ![idle_process] = "live", ![init_process] = "live"]
          /\ current_process' = init_process
          /\ region_0_pages' = [i \in Page |-> IF i \in TempPages THEN NULL ELSE region_0_pages[i]]
        BY <1>6 DEF KernelStart
    <2>2. /\ Distinct(t) /\ Distinct(T) /\ Distinct(s) /\ Distinct(d)
          /\ Values(t) \cap Values(s) = {} /\ Values(t) \cap Values(T) = {}
          /\ Values(s) \cap Values(T) = {}
          /\ \A x \in Values(t) \cup Values(s) \cup Values(T) : x \in Values(f) \ Values(d)
          /\ Values(d) \subseteq Values(f)
        <3>1. f \in Seq(Frame) /\ Distinct(f)
            BY <1>2 DEF MemoryTypeOK, HeapTypeOK, TablesDistinct
        <3> HIDE DEF f, q, t, s, T, d
        <3>2. /\ q = Drop(f, 1 + NUM_KSTACK_FRAMES)
              /\ t = [NoPages EXCEPT ![NUM_PAGES - 1] = f[1]]
              /\ s = [i \in KStack |-> f[2 + i]]
              /\ T = NewPages(prog, q) /\ d = Drop(q, FramesPopped)
            BY DEF q, t, s, T, d
        <3>3. Loadable(prog) /\ Len(f) >= 1 + NUM_KSTACK_FRAMES + FramesPopped
            BY <1>1, <1>6
        <3> HIDE DEF enough
        <3>4. StartFrames(f, t, s, T, d)
            BY <3>1, <3>2, <3>3, StartFramesLemma
        <3> QED BY <3>4 DEF StartFrames
    <2> HIDE DEF q, t, s, T, d, enough
    <2>3. \A r \in Proc :
             /\ page_table'[r] = IF r = idle_process THEN t
                                 ELSE IF r = init_process THEN T ELSE NoPages
             /\ kernel_stack_pages'[r] = IF r = idle_process THEN s ELSE NoStack
             /\ pcb'[r] = IF r \in {idle_process, init_process} THEN "live" ELSE "unused"
        BY <1>2, <1>3, <2>1 DEF MemoryTypeOK
    <2>4. \A i \in Page : region_0_pages'[i] = IF i \in TempPages THEN NULL ELSE region_0_pages[i]
        BY <2>1
    <2>5. StackEntries' = StackEntries
        <3>1. \A i \in StackPages : region_0_pages'[i] = region_0_pages[i]
            BY <2>4, Layout
        <3> QED BY <3>1, Layout DEF StackEntries
    <2>6. Running = init_process /\ Running' = init_process
        BY <1>1, <1>3, <2>1 DEF Running
    <2>7. \A r \in Proc : StackOf(r)' = IF r = idle_process THEN s ELSE StackOf(r)
        BY <1>3, <2>3, <2>5, <2>6 DEF StackOf
    <2>8. StackOf(idle_process) = NoStack
        BY <1>3, <2>6 DEF StackOf
    <2>9. /\ DOMAIN KernelTable = Page \ StackPages /\ DOMAIN KernelTable' = Page \ StackPages
          /\ \A i \in Page \ StackPages : KernelTable'[i] = KernelTable[i] \/ KernelTable'[i] = NULL
        BY <2>4 DEF KernelTable
    <2>10. Distinct(KernelTable') /\ Values(KernelTable') \subseteq Values(KernelTable)
        BY <1>2, <2>9 DEF TablesDistinct, Distinct, Values
    <2>11. /\ Values(NoPages) = {} /\ Values(NoStack) = {}
           /\ Distinct(NoPages) /\ Distinct(NoStack)
        BY NoTables
    <2>12. TablesDistinct'
        BY <1>2, <2>1, <2>2, <2>3, <2>7, <2>10, <2>11, ZenonT(60) DEF TablesDistinct
    <2>13. Given(Held, Held')
        <3> DEFINE h == Held
                   g == Held'
                   w == PagesUser(idle_process)
                   v == StackUser(idle_process)
                   y == PagesUser(init_process)
        <3>1. /\ Values(f) \subseteq h[FreeUser] /\ g[FreeUser] = Values(d)
              /\ g[KernelUser] \subseteq h[KernelUser]
            BY <1>1, <2>1, <2>10, HeldFactsHold, HeldFactsNext DEF HeldFacts, FreeFrames
        <3>2. \A r \in Proc :
                 /\ h[PagesUser(r)] = {}
                 /\ g[PagesUser(r)] = IF r = idle_process THEN Values(t)
                                      ELSE IF r = init_process THEN Values(T) ELSE {}
                 /\ h[StackUser(r)] = Values(StackOf(r))
                 /\ g[StackUser(r)] = IF r = idle_process THEN Values(s) ELSE Values(StackOf(r))
            <4> TAKE r \in Proc
            <4>1. /\ h[PagesUser(r)] = Values(page_table[r]) /\ h[StackUser(r)] = Values(StackOf(r))
                  /\ g[PagesUser(r)] = Values(page_table'[r])
                  /\ g[StackUser(r)] = Values(StackOf(r)')
                BY HeldFactsHold, HeldFactsNext DEF HeldFacts
            <4> HIDE DEF h, g
            <4>2. page_table[r] = NoPages
                BY <1>3
            <4>3. h[PagesUser(r)] = {}
                BY <2>11, <4>1, <4>2
            <4>4. g[PagesUser(r)] = IF r = idle_process THEN Values(t)
                                    ELSE IF r = init_process THEN Values(T) ELSE {}
                <5> HIDE DEF t, T
                <5>1. page_table'[r] = IF r = idle_process THEN t
                                       ELSE IF r = init_process THEN T ELSE NoPages
                    BY <2>3
                <5> QED BY <2>11, <4>1, <5>1
            <4>5. g[StackUser(r)] = IF r = idle_process THEN Values(s) ELSE Values(StackOf(r))
                BY <2>7, <4>1
            <4> QED BY <4>1, <4>3, <4>4, <4>5
        <3>3. F!Exclusive(h)
            BY <1>2
        <3> HIDE DEF h, g, w, v, y
        <3>4. /\ w \in Users \ {FreeUser} /\ v \in Users \ {FreeUser} /\ y \in Users \ {FreeUser}
              /\ g[w] = Values(t) /\ g[v] = Values(s) /\ g[y] = Values(T)
            BY <3>2, UsersAre DEF w, v, y
        <3>5. ASSUME NEW u \in Users \ {w, v, y, FreeUser} PROVE g[u] \subseteq h[u]
            <4>1. CASE u = KernelUser
                BY <3>1, <4>1
            <4>2. CASE u # KernelUser
                <5>1. PICK r \in Proc : u = PagesUser(r) \/ u = StackUser(r)
                    BY <3>5, <4>2, UsersAre
                <5> QED BY <3>2, <5>1 DEF w, v, y
            <4> QED BY <4>1, <4>2
        <3>6. g[FreeUser] \subseteq h[FreeUser]
            BY <2>2, <3>1
        <3>7. g[w] \cup g[v] \cup g[y] \subseteq h[FreeUser] \ g[FreeUser]
            BY <2>2, <3>1, <3>4
        <3>8. \A u \in Users \ {FreeUser} : g[u] \subseteq h[u] \cup (h[FreeUser] \ g[FreeUser])
            BY <3>5, <3>7
        <3>9. \A u \in Users \ {w, v, y, FreeUser} : g[u] \cap h[FreeUser] = {}
            BY <3>3, <3>5, UsersAre DEF F!Exclusive
        <3>10. g[w] \cap g[v] = {} /\ g[w] \cap g[y] = {} /\ g[v] \cap g[y] = {}
            BY <2>2, <3>4
        <3>11. \A u, x \in Users \ {FreeUser} :
                   u # x => (g[u] \cap h[FreeUser]) \cap (g[x] \cap h[FreeUser]) = {}
            BY <3>9, <3>10
        <3>12. Given(h, g)
            BY <3>3, <3>6, <3>8, <3>11, TakeFrames
        <3> QED BY <3>12 DEF h, g
    <2>14. UpState'
        <3>1. StackInPlace'
            BY <1>1, <1>3, <2>1, <2>3 DEF StackInPlace
        <3>2. \A r \in Proc : pcb'[r] = "unused" =>
                  page_table'[r] = NoPages /\ kernel_stack_pages'[r] = NoStack
            BY <2>3
        <3>3. \A i \in TempPages : region_0_pages'[i] = NULL
            BY <2>4, Layout
        <3> QED BY <3>1, <3>2, <3>3 DEF UpState, TempPages, NoPages, NoStack
    <2>15. HeapSound'
        <3> USE KernelHeapAssumption
        <3>1. KernelBrkPage' = KernelBrkPage
            BY <1>1 DEF KernelBrkPage
        <3>2. KernelBrkPage \in Nat
            BY <1>2 DEF MemoryTypeOK, HeapTypeOK, KernelBrkPage
        <3> SUFFICES ASSUME NEW i \in FirstKernelTextPage .. KernelBrkPage - 1
                     PROVE  region_0_pages'[i] # NULL
            BY <1>2, <3>1 DEF HeapMapped, HeapSound
        <3>3. i \in Page /\ i \notin TempPages
            BY <1>2, <3>2 DEF Page, TempPages
        <3> QED BY <1>2, <2>4, <3>3 DEF HeapMapped
    <2>16. MemInv'
        BY <1>1, <2>12, <2>13, <2>14, <2>15 DEF MemInv, Given
    <2> QED BY <1>4, <2>13, <2>16 DEF StepRight
<1> QED BY <1>5, <1>6

-----------------------------------------------------------------------------
(* What follows                                                            *)

(* A step that leaves everything as it is.                                 *)
LEMMA StandsStill ==
    ASSUME MemInv, TypeInv', Intact', UNCHANGED memoryVars
    PROVE  MemInv' /\ Held' = Held
<1> USE DEF memoryVars, heapVars, memVars
<1>1. StackEntries' = StackEntries /\ Running' = Running /\ KernelTable' = KernelTable
    BY DEF StackEntries, Running, KernelTable
<1>2. \A r \in Proc : StackOf(r)' = StackOf(r)
    BY <1>1 DEF StackOf
<1>3. Held' = Held
    <2>1. \A u \in Users : Held'[u] = Held[u]
        <3>1. Held'[FreeUser] = Held[FreeUser] /\ Held'[KernelUser] = Held[KernelUser]
            BY <1>1, HeldFactsHold, HeldFactsNext DEF HeldFacts, FreeFrames
        <3>2. \A r \in Proc : /\ Held'[PagesUser(r)] = Held[PagesUser(r)]
                              /\ Held'[StackUser(r)] = Held[StackUser(r)]
            BY <1>2, HeldFactsHold, HeldFactsNext DEF HeldFacts
        <3> QED BY <3>1, <3>2, UsersAre
    <2>2. Held = [u \in Users |-> Held[u]] /\ Held' = [u \in Users |-> Held'[u]]
        BY DEF Held
    <2> QED BY <2>1, <2>2
<1>4. TablesDistinct'
    BY <1>1, <1>2 DEF MemInv, TablesDistinct
<1>5. phase = "boot" => BootState'
    BY DEF MemInv, BootState, BootInv, BootTypeOK, PagesInPlace, ListedAbove, HeapMapped,
           KernelBrkPage, NoPages, NoStack
<1>6. phase = "up" /\ machine = "up" => UpState'
    BY <1>1 DEF MemInv, UpState, StackInPlace, TempPages, NoPages, NoStack
<1>7. HeapSound'
    BY DEF MemInv, HeapSound, HeapMapped, KernelBrkPage
<1> QED BY <1>3, <1>4, <1>5, <1>6, <1>7 DEF MemInv

LEMMA StoppedRight ==
    ASSUME MemInv, TypeInv', Intact', UNCHANGED memoryVars
    PROVE  StepRight
<1>1. MemInv' /\ Held' = Held
    BY StandsStill
<1>2. Given(Held, Held')
    BY <1>1, NothingGiven DEF MemInv
<1>3. Kept(Held, Held')
    BY <1>1 DEF Kept
<1> QED BY <1>1, <1>2, <1>3 DEF StepRight

LEMMA NextRight ==
    ASSUME MemInv, TypeInv', Intact', MemoryNext
    PROVE  StepRight
<1> USE MemoryAssumption
<1>1. CASE Booting
    BY <1>1, BootingRight
<1>2. CASE \E prog \in Programs : KernelStart(prog)
    BY <1>2, KernelStartRight
<1>3. CASE \E p \in Proc, prog \in Programs :
               ExecLoads(p, prog) \/ ExecNoFrames(p, prog) \/ ExecKilled(p, prog)
    BY <1>3, ExecRight, ExecNoFramesRight
<1>4. CASE \E p, q \in Proc : ForkHandler(p, q) \/ KCSwitch(p, q)
    BY <1>4, ForkRight, KCSwitchRight
<1>5. CASE \E p \in Proc : ForkNoFrames(p) \/ ExitHandler(p) \/ ExitStack(p) \/ ExitSwitch(p)
    BY <1>5, ForkNoFramesRight, ExitRight, ExitStackRight, ExitSwitchRight
<1>6. CASE \E p \in Proc, addr \in Addresses, sp \in StackPointers :
               \/ BrkGrow(p, addr[1], addr[2], sp) \/ BrkShrink(p, addr[1], addr[2], sp)
               \/ TrapMemoryHandler(p, addr[1], addr[2], sp)
    <2>1. PICK p \in Proc, addr \in Addresses, sp \in StackPointers :
               \/ BrkGrow(p, addr[1], addr[2], sp) \/ BrkShrink(p, addr[1], addr[2], sp)
               \/ TrapMemoryHandler(p, addr[1], addr[2], sp)
        BY <1>6
    <2>2. addr[1] \in Page /\ addr[2] \in BOOLEAN /\ sp \in Page
        OBVIOUS
    <2>3. ~BrkShrink(p, addr[1], addr[2], sp)
        BY DEF BrkShrink, Intact
    <2> QED BY <2>1, <2>2, <2>3, BrkGrowRight, GrowStackRight
<1>7. CASE \E n \in Page : HeapMove(n)
    BY <1>7, HeapMoveRight
<1>8. CASE Stopped
    BY <1>8, StoppedRight DEF Stopped
<1> QED BY <1>1, <1>2, <1>3, <1>4, <1>5, <1>6, <1>7, <1>8 DEF MemoryNext

(* The inductive invariant.                                                *)
MemSafe == TypeInv /\ (Intact => MemInv)

(* A step after which memory is intact did right.                          *)
LEMMA IntactStep ==
    ASSUME MemSafe, [MemoryNext]_memoryVars, Intact'
    PROVE  MemInv /\ Intact /\ StepRight
<1>1. TypeInv /\ TypeInv'
    BY TypeInvNext DEF MemSafe
<1>2. MemInv /\ Intact
    BY <1>1, IntactBefore DEF MemSafe
<1> QED BY <1>1, <1>2, NextRight, StoppedRight

(* Types and breaks are right always, and as long as memory is intact no   *)
(* frame is in two places, every process has its stack, and the heap of    *)
(* the kernel is mapped: for any number of processes, pages and frames.    *)
THEOREM MemInvHolds == MemorySpec => []MemSafe
<1>1. MemoryInit => MemSafe
    BY MemInvInit DEF MemSafe, MemInv
<1>2. MemSafe /\ [MemoryNext]_memoryVars => MemSafe'
    BY TypeInvNext, IntactStep DEF MemSafe, StepRight
<1> QED BY <1>1, <1>2, PTL DEF MemorySpec

(* The variables have their types, also when memory is not intact: in      *)
(* particular every page index that Brk, memory faults and malloc compute  *)
(* is within its table.                                                    *)
THEOREM MemoryTypeCorrect == MemorySpec => []MemoryTypeOK
<1>1. TypeInv => MemoryTypeOK
    BY DEF TypeInv
<1> QED BY <1>1, TypeInvHolds, PTL

LEMMA HeldType == TypeInv => Held \in [Users -> SUBSET Frame]
<1> USE KernelHeapAssumption, MemoryAssumption
<1> SUFFICES ASSUME TypeInv PROVE Held \in [Users -> SUBSET Frame]
    OBVIOUS
<1>1. MemoryTypeOK
    BY DEF TypeInv
<1>2. /\ FreeFrames \subseteq Frame /\ Values(KernelTable) \subseteq Frame
    <2>1. /\ free_frame_queue \in Seq(Frame)
          /\ KernelTable \in [Page \ StackPages -> Frame \cup {NULL}]
        BY <1>1 DEF KernelTable, MemoryTypeOK, HeapTypeOK
    <2>2. Values(free_frame_queue) \subseteq Frame
        BY <2>1 DEF Values
    <2>3. Values(KernelTable) \subseteq Frame
        BY <2>1 DEF Values
    <2>4. FreeFrames \subseteq Frame
        BY <2>2, Zenon DEF FreeFrames
    <2> QED BY <2>3, <2>4
<1>3. StackEntries \in [KStack -> Frame \cup {NULL}]
    BY <1>1, StackEntriesType DEF MemoryTypeOK, HeapTypeOK
<1>4. \A r \in Proc : StackOf(r) \in [KStack -> Frame \cup {NULL}]
    BY <1>1, <1>3 DEF StackOf, MemoryTypeOK
<1>5. \A r \in Proc : Values(page_table[r]) \subseteq Frame /\ Values(StackOf(r)) \subseteq Frame
    BY <1>1, <1>4 DEF Values, MemoryTypeOK
<1>6. \A u \in Users : Held[u] \subseteq Frame
    BY <1>2, <1>5, HeldFactsHold, UsersAre DEF HeldFacts
<1>7. Held = [u \in Users |-> Held[u]]
    BY DEF Held
<1> QED BY <1>6, <1>7

LEMMA HeldTypeNext == TypeInv' => (Held \in [Users -> SUBSET Frame])'
    BY HeldType, PTL

(* Memory implements Frames: as long as memory is intact no frame is in    *)
(* two places, and a frame changes hands only through the list.  A step    *)
(* that damages memory, a Brk downwards or a growth of the heap too far,   *)
(* ends the promise for good.                                              *)
THEOREM FramesNeverShared == MemorySpec => FramesExclusive
<1>1. MemoryInit => F!Init
    <2> SUFFICES ASSUME MemoryInit PROVE F!Init
        OBVIOUS
    <2>1. MemInv
        BY MemInvInit
    <2>2. Held \in [Users -> SUBSET Frame] /\ F!Exclusive(Held)
        BY <2>1, HeldType DEF MemInv
    <2>3. Intact = TRUE
        BY Zenon DEF Intact, MemoryInit, HeapInit
    <2> QED BY <2>2, <2>3, Zenon DEF F!Init
<1>2. MemSafe /\ [MemoryNext]_memoryVars => [F!Next]_<<Held, Intact>>
    <2> SUFFICES ASSUME MemSafe, [MemoryNext]_memoryVars PROVE F!Next
        OBVIOUS
    <2>1. Held' \in [Users -> SUBSET Frame]
        BY TypeInvNext, HeldTypeNext DEF MemSafe
    <2>2. Intact' => Intact /\ F!Moves(Held, Held')
        BY IntactStep DEF StepRight, Given, F!Moves, FreeUser, F!Exclusive
    <2> QED BY <2>1, <2>2 DEF F!Next
<1> QED BY <1>1, <1>2, MemInvHolds, PTL DEF MemorySpec, FramesExclusive, F!Spec

(* As long as memory is intact every page of the kernel below its break is *)
(* valid, whatever malloc gave back or could not get.                      *)
THEOREM KernelHeapStaysMapped == MemorySpec => []KernelHeapMapped
<1>1. MemSafe => KernelHeapMapped
    BY DEF MemSafe, MemInv, HeapSound, KernelHeapMapped
<1> QED BY <1>1, MemInvHolds, PTL

(* The pages of a process below its break are valid, except the last one:  *)
(* after Exec, Fork, a Brk that failed half way and a Brk downwards.       *)
THEOREM UserHeapStaysMapped == MemorySpec => []UserHeapMapped
<1>1. TypeInv => UserHeapMapped
    BY DEF TypeInv
<1> QED BY <1>1, TypeInvHolds, PTL

(* A table without repetitions has as many frames as valid entries.        *)
LEMMA DistinctCount ==
    ASSUME NEW f, Distinct(f), IsFiniteSet(DOMAIN f)
    PROVE  Cardinality({i \in DOMAIN f : f[i] # NULL}) = Cardinality(Values(f))
<1> DEFINE V == {i \in DOMAIN f : f[i] # NULL}
           g == [i \in V |-> f[i]]
<1>1. IsFiniteSet(V)
    BY FS_Subset
<1>2. g \in Bijection(V, Values(f))
    BY DEF Bijection, Injection, Surjection, IsInjective, Values, Distinct
<1>3. ExistsBijection(V, Values(f))
    BY <1>2 DEF ExistsBijection
<1> QED BY <1>1, <1>3, FS_Bijection

(* As long as memory is intact no frame is twice in a page table, in a     *)
(* kernel stack or on the list.                                            *)
THEOREM NoFrameTwice == MemorySpec => []EntriesDistinct
<1>1. MemSafe => EntriesDistinct
    <2> USE KernelHeapAssumption, MemoryAssumption
    <2> SUFFICES ASSUME MemInv, NEW u \in Users
                 PROVE Cardinality({i \in DOMAIN Entries(u) : Entries(u)[i] # NULL})
                       = Cardinality(FramesOf(u))
        BY DEF MemSafe, EntriesDistinct
    <2>1. MemoryTypeOK /\ TablesDistinct
        BY DEF MemInv, TypeInv
    <2>2. /\ Distinct(free_frame_queue) /\ IsFiniteSet(DOMAIN free_frame_queue)
        <3>1. free_frame_queue \in Seq(Frame)
            BY <2>1 DEF MemoryTypeOK, HeapTypeOK
        <3>2. DOMAIN free_frame_queue = 1 .. Len(free_frame_queue) /\ Len(free_frame_queue) \in Nat
            BY <3>1
        <3> QED BY <2>1, <3>2, FS_Interval DEF TablesDistinct
    <2>3. /\ Distinct(KernelTable) /\ IsFiniteSet(DOMAIN KernelTable)
        <3>1. IsFiniteSet(Page \ StackPages)
            BY Layout, FS_Subset
        <3> QED BY <2>1, <3>1 DEF TablesDistinct, KernelTable
    <2>4. ASSUME NEW p \in Proc
          PROVE /\ Distinct(page_table[p]) /\ IsFiniteSet(DOMAIN page_table[p])
                /\ Distinct(StackOf(p)) /\ IsFiniteSet(DOMAIN StackOf(p))
        <3>1. StackEntries \in [KStack -> Frame \cup {NULL}]
            BY <2>1, StackEntriesType DEF MemoryTypeOK, HeapTypeOK
        <3>2. DOMAIN page_table[p] = Page /\ DOMAIN StackOf(p) = KStack
            BY <2>1, <3>1 DEF StackOf, MemoryTypeOK
        <3> QED BY <2>1, <3>2, Layout DEF TablesDistinct
    <2>5. Distinct(Entries(u)) /\ IsFiniteSet(DOMAIN Entries(u))
        BY <2>2, <2>3, <2>4, EntriesAre, UsersAre
    <2>6. FramesOf(u) = Values(Entries(u))
        BY DEF FramesOf, Values
    <2> QED BY <2>5, <2>6, DistinctCount
<1> QED BY <1>1, MemInvHolds, PTL

(* After the boot the kernel never returns to it.                          *)
LEMMA NeverBootsAgain ==
    ASSUME TypeInv, phase # "boot", MemoryNext
    PROVE  phase' = "up"
<1>1. phase = "up"
    BY DEF TypeInv, MemoryTypeOK, HeapTypeOK
<1>3. CASE Booting
    BY <1>1, <1>3 DEF Booting, BootNext, init_free_frame_queue, BootBrk
<1>4. CASE \E prog \in Programs : KernelStart(prog)
    BY <1>1, <1>4 DEF KernelStart
<1>5. CASE \E p \in Proc, prog \in Programs :
              ExecLoads(p, prog) \/ ExecNoFrames(p, prog) \/ ExecKilled(p, prog)
    BY <1>1, <1>5 DEF ExecLoads, ExecNoFrames, ExecKilled, Leave
<1>6. CASE \E p, q \in Proc : ForkHandler(p, q) \/ KCSwitch(p, q)
    BY <1>1, <1>6 DEF ForkHandler, KCSwitch
<1>7. CASE \E p \in Proc : ForkNoFrames(p) \/ ExitHandler(p) \/ ExitStack(p) \/ ExitSwitch(p)
    BY <1>1, <1>7 DEF ForkNoFrames, ExitHandler, ExitStack, ExitSwitch, Leave
<1>8. CASE \E p \in Proc, addr \in Addresses, sp \in StackPointers :
              \/ BrkGrow(p, addr[1], addr[2], sp) \/ BrkShrink(p, addr[1], addr[2], sp)
              \/ TrapMemoryHandler(p, addr[1], addr[2], sp)
    BY <1>1, <1>8 DEF BrkGrow, BrkShrink, TrapMemoryHandler, GrowStack, GrowStackFails,
                      AbortAccess, ExitHandler, Leave, Populate
<1>9. CASE \E n \in Page : HeapMove(n)
    BY <1>1, <1>9, Zenon DEF HeapMove, SetKernelBrk
<1>10. CASE Stopped
    BY <1>1, <1>10 DEF Stopped, memoryVars, heapVars
<1> QED BY <1>3, <1>4, <1>5, <1>6, <1>7, <1>8, <1>9, <1>10 DEF MemoryNext

(* After the boot a step loses a frame only if it loads a program, empties *)
(* the list or leaves memory damaged.                                      *)
THEOREM FramesKept == MemorySpec => FramesLostOnlyByLoading
<1> DEFINE Loses ==
        \/ phase = "boot" \/ free_frame_queue' = <<>> \/ ~Intact'
        \/ \E p \in Proc, prog \in Programs : ExecLoads(p, prog) \/ ExecKilled(p, prog)
        \/ LostFrames' \subseteq LostFrames
<1>1. MemSafe /\ [MemoryNext]_memoryVars => [Loses]_memoryVars
    <2> SUFFICES ASSUME MemSafe, MemoryNext, ~MayLose PROVE LostFrames' \subseteq LostFrames
        BY DEF MayLose
    <2>1. phase # "boot" /\ phase' = "up"
        BY NeverBootsAgain DEF MayLose, MemSafe
    <2>2. \A u \in Users : Held[u] = FramesOf(u)
        BY <2>1 DEF Held
    <2>3. \A u \in Users : Held'[u] = FramesOf(u)'
        BY <2>1 DEF Held
    <2>4. Kept(Held, Held')
        BY IntactStep DEF StepRight, MayLose
    <2> QED BY <2>2, <2>3, <2>4 DEF Kept, LostFrames
<1> QED BY <1>1, MemInvHolds, PTL DEF MemorySpec, FramesLostOnlyByLoading

-----------------------------------------------------------------------------
(* The kernel stack of a process that exits                                *)

(* The kernel always runs on a whole stack, and every process that does    *)
(* not run has one.                                                        *)
StacksWhole ==
    phase = "up" /\ machine = "up" =>
        /\ \A i \in StackPages : region_0_pages[i] # NULL
        /\ \A p \in Proc : pcb[p] = "live" /\ p # current_process =>
              \A i \in KStack : kernel_stack_pages[p][i] # NULL

(* Between its release and the switch, the stack that the kernel runs on   *)
(* is on the list behind the frames that were there before it.             *)
StackLast ==
    exiting = "stack_freed" /\ ahead >= 0 =>
        \A i \in StackPages : \E k \in DOMAIN free_frame_queue :
            k > ahead /\ free_frame_queue[k] = region_0_pages[i]

LEMMA UpTypes ==
    ASSUME MemInv, phase = "up"
    PROVE  /\ free_frame_queue \in Seq(Frame)
           /\ region_0_pages \in [Page -> Frame \cup {NULL}]
           /\ pcb \in [Proc -> {"unused", "live", "gone"}]
           /\ kernel_stack_pages \in [Proc -> [KStack -> Frame \cup {NULL}]]
           /\ KernelBrkPage \in Nat \ {0}
           /\ KernelBrkPage <= NUM_PAGES - 2 * NUM_KSTACK_FRAMES
           /\ NULL \notin Proc
<1> USE KernelHeapAssumption, MemoryAssumption
<1>1. /\ free_frame_queue \in Seq(Frame)
      /\ region_0_pages \in [Page -> Frame \cup {NULL}]
      /\ pcb \in [Proc -> {"unused", "live", "gone"}]
      /\ kernel_stack_pages \in [Proc -> [KStack -> Frame \cup {NULL}]]
      /\ kernel_brk_offset \in 0 .. HEAP_LIMIT - OrigKernelBrkPage
    BY DEF MemInv, TypeInv, MemoryTypeOK, HeapTypeOK
<1> QED BY <1>1 DEF MemInv, HeapSound, KernelBrkPage

(* malloc leaves the stack alone.                                          *)
LEMMA HeapMoveStack ==
    ASSUME MemInv, Intact', NEW n \in Page, HeapMove(n)
    PROVE  \A i \in StackPages : region_0_pages'[i] = region_0_pages[i]
<1> USE KernelHeapAssumption, MemoryAssumption
<1>1. /\ phase = "up" /\ n >= OrigKernelBrkPage
      /\ IF n < KernelBrkPage THEN shrink_heap_pages(n) ELSE expand_heap_pages(n)
    BY Zenon DEF HeapMove, SetKernelBrk
<1>2. /\ region_0_pages \in [Page -> Frame \cup {NULL}] /\ KernelBrkPage \in Nat \ {0}
      /\ KernelBrkPage <= NUM_PAGES - 2 * NUM_KSTACK_FRAMES
    BY <1>1, UpTypes
<1>6. ~Overgrows(n)
    BY Zenon DEF HeapMove, Intact, SetKernelBrk
<1>7. n <= NUM_PAGES - 2 * NUM_KSTACK_FRAMES
    BY <1>6 DEF Overgrows, Page
<1> DEFINE b == KernelBrkPage
<1> SUFFICES ASSUME NEW i \in StackPages PROVE region_0_pages'[i] = region_0_pages[i]
    OBVIOUS
<1>3. i \in Page /\ i \notin n + 1 .. b /\ (n >= b => i \notin b - 1 .. n - 1)
    BY <1>1, <1>2, <1>7 DEF Page, StackPages
<1>4. CASE n < b
    BY <1>1, <1>3, <1>4 DEF shrink_heap_pages
<1>5. CASE ~(n < b)
    <2>1. region_0_pages' = FillUp(region_0_pages, HeapPages(n), free_frame_queue)
        BY <1>1, <1>5 DEF expand_heap_pages
    <2>2. i \notin Missing(region_0_pages, HeapPages(n))
        BY <1>1, <1>2, <1>3, <1>5, <1>7 DEF Missing, HeapPages, Page
    <2> QED BY <1>2, <1>3, <2>1, <2>2 DEF FillUp
<1> QED BY <1>4, <1>5

(* The steps that change neither stacks nor who runs on which.             *)
LEMMA SameStacks ==
    ASSUME MemInv, Intact', MemoryNext, phase = "up", machine' = "up"
    PROVE  \/ /\ UNCHANGED <<pcb, kernel_stack_pages, current_process>>
              /\ \A i \in StackPages : region_0_pages'[i] = region_0_pages[i]
           \/ \E p, q \in Proc : ForkHandler(p, q) \/ KCSwitch(p, q)
           \/ \E p \in Proc : ExitStack(p) \/ ExitSwitch(p)
<1> USE KernelHeapAssumption, MemoryAssumption
<1>1. CASE Booting
    BY <1>1 DEF Booting, BootNext, init_free_frame_queue, BootBrk
<1>2. CASE \E prog \in Programs : KernelStart(prog)
    BY <1>2 DEF KernelStart
<1>3. CASE \E p \in Proc, prog \in Programs :
              ExecLoads(p, prog) \/ ExecNoFrames(p, prog) \/ ExecKilled(p, prog)
    BY <1>3 DEF ExecLoads, ExecNoFrames, ExecKilled, Leave, memVars
<1>4. CASE \E p \in Proc : ForkNoFrames(p)
    <2>1. /\ UNCHANGED memVars
          /\ region_0_pages' \in {region_0_pages,
                 Unmapped(region_0_pages, {NUM_PAGES - 2 * NUM_KSTACK_FRAMES})}
        BY <1>4 DEF ForkNoFrames
    <2>2. NUM_PAGES - 2 * NUM_KSTACK_FRAMES \notin StackPages /\ StackPages \subseteq Page
        BY DEF StackPages, Page
    <2> QED BY <2>1, <2>2 DEF Unmapped, memVars
<1>5. CASE \E p \in Proc : ExitHandler(p)
    BY <1>5 DEF ExitHandler, Leave
<1>6. CASE \E p \in Proc, addr \in Addresses, sp \in StackPointers :
              \/ BrkGrow(p, addr[1], addr[2], sp) \/ BrkShrink(p, addr[1], addr[2], sp)
              \/ TrapMemoryHandler(p, addr[1], addr[2], sp)
    BY <1>6, SMTT(60)
       DEF BrkGrow, BrkShrink, TrapMemoryHandler, GrowStack, GrowStackFails,
           AbortAccess, ExitHandler, Leave, Populate
<1>7. CASE \E n \in Page : HeapMove(n)
    BY <1>7, HeapMoveStack, Zenon DEF HeapMove
<1>8. CASE Stopped
    BY <1>8 DEF Stopped, memoryVars, heapVars, memVars
<1> QED BY <1>1, <1>2, <1>3, <1>4, <1>5, <1>6, <1>7, <1>8 DEF MemoryNext

LEMMA StacksWholeStarts ==
    ASSUME MemInv, NEW prog \in Programs, KernelStart(prog)
    PROVE  StacksWhole'
<1> USE KernelHeapAssumption, MemoryAssumption
<1> SUFFICES ASSUME machine' = "up" PROVE StacksWhole'
    BY DEF StacksWhole
<1> DEFINE s == [i \in KStack |-> free_frame_queue[2 + i]]
<1>1. /\ phase = "boot" /\ BootState /\ MemoryTypeOK
    BY DEF KernelStart, MemInv, TypeInv
<1>2. /\ Len(free_frame_queue) >= 1 + NUM_KSTACK_FRAMES + FramesPopped
      /\ kernel_stack_pages' = [kernel_stack_pages EXCEPT ![idle_process] = s]
      /\ pcb' = [pcb EXCEPT ![idle_process] = "live", ![init_process] = "live"]
      /\ current_process' = init_process
      /\ region_0_pages' = [i \in Page |-> IF i \in TempPages THEN NULL ELSE region_0_pages[i]]
    BY DEF KernelStart
<1>3. \A i \in StackPages : region_0_pages'[i] # NULL
    <2>1. \A i \in StackPages : region_0_pages'[i] = i
        BY <1>1, <1>2, Layout DEF BootState
    <2>2. StackPages \subseteq Frame
        BY DEF StackPages, Frame
    <2> QED BY <2>1, <2>2
<1>4. free_frame_queue \in Seq(Frame) /\ FramesPopped \in Nat
    BY <1>1 DEF MemoryTypeOK, HeapTypeOK, FramesPopped
<1>5. \A i \in KStack : s[i] # NULL
    <2> SUFFICES ASSUME NEW i \in KStack PROVE free_frame_queue[2 + i] \in Frame
        OBVIOUS
    <2>1. 2 + i \in 1 .. Len(free_frame_queue)
        BY <1>2, <1>4 DEF KStack
    <2> QED BY <1>4, <2>1
<1>6. \A r \in Proc : pcb'[r] = "live" /\ r # current_process' => r = idle_process
    BY <1>1, <1>2 DEF BootState
<1>7. kernel_stack_pages'[idle_process] = s
    BY <1>1, <1>2 DEF MemoryTypeOK
<1> QED BY <1>3, <1>5, <1>6, <1>7 DEF StacksWhole

LEMMA StacksWholeNext ==
    ASSUME MemInv, Intact', StacksWhole, [MemoryNext]_memoryVars
    PROVE  StacksWhole'
<1> USE KernelHeapAssumption, MemoryAssumption
<1>1. CASE UNCHANGED memoryVars
    BY <1>1 DEF StacksWhole, memoryVars, heapVars, memVars
<1>2. CASE Booting
    <2>1. phase = "boot" /\ phase' = phase
        BY <1>2, Zenon DEF Booting, BootNext, init_free_frame_queue, BootBrk, SetKernelBrk
    <2> QED BY <2>1 DEF StacksWhole
<1>3. CASE \E prog \in Programs : KernelStart(prog)
    BY <1>3, StacksWholeStarts
<1>4. CASE MemoryNext /\ ~Booting /\ ~(\E prog \in Programs : KernelStart(prog))
    <2> SUFFICES ASSUME phase' = "up", machine' = "up" PROVE StacksWhole'
        BY DEF StacksWhole
    <2>1. phase # "boot" /\ phase = "up" /\ machine = "up"
        <3>1. phase \in {"boot", "up"} /\ (phase = "boot" => BootState)
            BY DEF MemInv, TypeInv, MemoryTypeOK, HeapTypeOK
        <3> QED BY <1>4, <3>1 DEF MemoryNext, ExecLoads, ExecNoFrames, ExecKilled, ForkHandler,
              KCSwitch, ForkNoFrames, ExitHandler, ExitStack, ExitSwitch, BrkGrow, BrkShrink,
              TrapMemoryHandler, GrowStack, GrowStackFails, AbortAccess, UserCall, InKernel,
              HeapMove, Stopped, BootState, memoryVars, memVars
    <2>2. /\ \A i \in StackPages : region_0_pages[i] # NULL
          /\ \A p \in Proc : pcb[p] = "live" /\ p # current_process =>
                \A i \in KStack : kernel_stack_pages[p][i] # NULL
        BY <2>1 DEF StacksWhole
    <2>3. /\ pcb \in [Proc -> {"unused", "live", "gone"}]
          /\ kernel_stack_pages \in [Proc -> [KStack -> Frame \cup {NULL}]]
          /\ free_frame_queue \in Seq(Frame) /\ region_0_pages \in [Page -> Frame \cup {NULL}]
        BY <2>1, UpTypes
    <2>4. CASE /\ UNCHANGED <<pcb, kernel_stack_pages, current_process>>
               /\ \A i \in StackPages : region_0_pages'[i] = region_0_pages[i]
        BY <2>2, <2>4 DEF StacksWhole
    <2>5. ASSUME NEW p \in Proc, NEW q \in Proc, KCSwitch(p, q) PROVE StacksWhole'
        <3>1. /\ current_process = p /\ q # p /\ pcb[q] = "live" /\ current_process' = q
              /\ pcb' = pcb /\ LoadStack(q)
              /\ kernel_stack_pages' = [kernel_stack_pages EXCEPT ![p] = StackEntries]
            BY <2>5 DEF KCSwitch, InKernel
        <3>2. \A i \in StackPages : region_0_pages'[i] # NULL
            BY <2>2, <3>1, Layout DEF LoadStack
        <3>3. \A i \in KStack : StackEntries[i] # NULL
            BY <2>2, Layout DEF StackEntries
        <3>4. \A r \in Proc : kernel_stack_pages'[r] = IF r = p THEN StackEntries
                                                       ELSE kernel_stack_pages[r]
            BY <2>3, <3>1
        <3> QED BY <2>2, <3>1, <3>2, <3>3, <3>4 DEF StacksWhole
    <2>6. ASSUME NEW q \in Proc, ExitSwitch(q) PROVE StacksWhole'
        <3>1. /\ pcb[q] = "live" /\ current_process' = q /\ exiting = "stack_freed"
              /\ UNCHANGED <<pcb, kernel_stack_pages>> /\ LoadStack(q)
            BY <2>6 DEF ExitSwitch
        <3>2. current_process = NULL
            BY <2>1, <3>1 DEF MemInv, TypeInv, CpuInPlace
        <3>3. \A i \in StackPages : region_0_pages'[i] # NULL
            BY <2>2, <3>1, <3>2, Layout DEF LoadStack
        <3> QED BY <2>2, <3>1, <3>2, <3>3 DEF StacksWhole
    <2>7. ASSUME NEW p \in Proc, ExitStack(p) PROVE StacksWhole'
        <3>1. /\ current_process = p /\ pcb' = [pcb EXCEPT ![p] = "gone"]
              /\ kernel_stack_pages' = [kernel_stack_pages EXCEPT ![p] = NoStack]
              /\ region_0_pages' = region_0_pages
            BY <2>7 DEF ExitStack
        <3> QED BY <2>2, <2>3, <3>1 DEF StacksWhole
    <2>8. ASSUME NEW p \in Proc, NEW c \in Proc, ForkHandler(p, c) PROVE StacksWhole'
        <3> DEFINE n == Cardinality(Valid(page_table[p]))
                   s == [i \in KStack |-> free_frame_queue[n + 1 + i]]
        <3>1. /\ Len(free_frame_queue) >= n + NUM_KSTACK_FRAMES
              /\ kernel_stack_pages' = [kernel_stack_pages EXCEPT ![c] = s]
              /\ pcb' = [pcb EXCEPT ![c] = "live"] /\ current_process' = current_process
              /\ region_0_pages' = Unmapped(region_0_pages, TempPages)
            BY <2>8 DEF ForkHandler
        <3>2. n \in Nat
            <4>1. IsFiniteSet(Valid(page_table[p]))
                BY Layout, FS_Subset DEF Valid
            <4> QED BY <4>1, FS_CardinalityType
        <3>3. \A i \in StackPages : region_0_pages'[i] = region_0_pages[i]
            BY <3>1, Layout DEF Unmapped
        <3> HIDE DEF n
        <3>4. \A i \in KStack : s[i] # NULL
            <4> SUFFICES ASSUME NEW i \in KStack PROVE free_frame_queue[n + 1 + i] \in Frame
                OBVIOUS
            <4>1. n + 1 + i \in 1 .. Len(free_frame_queue)
                BY <2>3, <3>1, <3>2 DEF KStack
            <4> QED BY <2>3, <4>1
        <3> HIDE DEF s
        <3>5. \A r \in Proc : /\ kernel_stack_pages'[r] = IF r = c THEN s ELSE kernel_stack_pages[r]
                              /\ pcb'[r] = IF r = c THEN "live" ELSE pcb[r]
            BY <2>3, <3>1
        <3> QED BY <2>2, <3>1, <3>3, <3>4, <3>5, SMTT(60) DEF StacksWhole
    <2> QED BY <1>4, <2>1, <2>4, <2>5, <2>6, <2>7, <2>8, SameStacks
<1> QED BY <1>1, <1>2, <1>3, <1>4

LEMMA StackLastFreed ==
    ASSUME MemInv, StacksWhole, NEW p \in Proc, ExitStack(p)
    PROVE  StackLast'
<1> USE KernelHeapAssumption, MemoryAssumption
<1> DEFINE st == kernel_stack_pages[p]
           q == free_frame_queue
           s == FramesUp(st, KStack)
           z == q \o s
<1>1. /\ machine = "up" /\ exiting = "pages_freed" /\ current_process = p
      /\ free_frame_queue' = z /\ region_0_pages' = region_0_pages /\ ahead' = Len(q)
    BY DEF ExitStack
<1>2. phase = "up" /\ UpState
    BY <1>1 DEF MemInv, TypeInv, BootState, MemoryTypeOK, HeapTypeOK
<1>3. /\ q \in Seq(Frame) /\ st \in [KStack -> Frame \cup {NULL}]
    BY <1>2, UpTypes
<1>4. st = StackEntries /\ \A i \in StackPages : region_0_pages[i] # NULL
    BY <1>1, <1>2 DEF UpState, StackInPlace, StacksWhole
<1> HIDE DEF st, q, s
<1>5. Lists(s, st, KStack)
    BY <1>3, Layout, FramesUpLemma DEF s
<1>6. s \in Seq(Frame) /\ Values(s) = {st[i] : i \in KStack} \ {NULL}
    BY <1>5 DEF Lists
<1> SUFFICES ASSUME NEW i \in StackPages
             PROVE  \E k \in DOMAIN z : k > Len(q) /\ z[k] = region_0_pages[i]
    BY <1>1 DEF StackLast
<1>7. region_0_pages[i] \in Values(s)
    <2>1. PICK j \in KStack : i = NUM_PAGES - NUM_KSTACK_FRAMES + j
        BY DEF StackPages, KStack
    <2>2. st[j] = region_0_pages[i]
        BY <1>4, <2>1 DEF StackEntries
    <2> QED BY <1>4, <1>6, <2>2
<1>8. PICK k \in DOMAIN s : s[k] = region_0_pages[i]
    BY <1>7 DEF Values
<1>9. k \in 1 .. Len(s) /\ Len(q) \in Nat
    BY <1>3, <1>6
<1>10. Len(z) = Len(q) + Len(s) /\ z[Len(q) + k] = s[k] /\ Len(q) + k \in DOMAIN z
    BY <1>3, <1>6, <1>9
<1> HIDE DEF z
<1>11. Len(q) + k > Len(q)
    BY <1>9
<1> QED BY <1>8, <1>10, <1>11

(* malloc takes frames from the front of the list.                         *)
LEMMA StackLastMalloc ==
    ASSUME MemInv, Intact', StackLast, NEW n \in Page, HeapMove(n)
    PROVE  StackLast'
<1> USE KernelHeapAssumption, MemoryAssumption
<1> DEFINE R == region_0_pages
           q == free_frame_queue
           m == Cardinality(Missing(R, HeapPages(n)))
<1> SUFFICES ASSUME exiting' = "stack_freed", ahead' >= 0, NEW i \in StackPages
             PROVE  \E k \in DOMAIN q' : k > ahead' /\ q'[k] = R'[i]
    BY DEF StackLast
<1>1. /\ phase = "up" /\ exiting = "stack_freed" /\ ahead' = ahead - Taken
      /\ IF n < KernelBrkPage THEN shrink_heap_pages(n) ELSE expand_heap_pages(n)
    <2>1. /\ phase = "up" /\ exiting' = exiting
          /\ ahead' = IF exiting = "stack_freed" THEN ahead - Taken ELSE ahead
          /\ IF n < KernelBrkPage THEN shrink_heap_pages(n) ELSE expand_heap_pages(n)
        BY Zenon DEF HeapMove, SetKernelBrk
    <2> QED BY <2>1
<1>2. /\ R \in [Page -> Frame \cup {NULL}] /\ q \in Seq(Frame)
      /\ KernelBrkPage \in Nat \ {0} /\ KernelBrkPage <= NUM_PAGES - 2 * NUM_KSTACK_FRAMES
      /\ Len(q) \in Nat /\ ahead \in Int
    <2>1. ahead \in Int
        BY DEF MemInv, TypeInv, MemoryTypeOK
    <2> QED BY <1>1, <2>1, UpTypes
<1>3. R'[i] = R[i]
    BY HeapMoveStack
<1>4. CASE n < KernelBrkPage
    <2> DEFINE s == FramesDown(R, n + 1 .. KernelBrkPage)
    <2>1. q' = q \o s
        BY <1>1, <1>4 DEF shrink_heap_pages
    <2>2. s \in Seq(Frame)
        <3>1. n + 1 .. KernelBrkPage \subseteq Page
            BY <1>2 DEF Page
        <3>2. IsFiniteSet(n + 1 .. KernelBrkPage)
            BY <3>1, Layout, FS_Subset
        <3>3. Lists(s, R, n + 1 .. KernelBrkPage)
            BY <1>2, <3>1, <3>2, Layout, FramesDownLemma
        <3> QED BY <3>3 DEF Lists
    <2> HIDE DEF s, R, q
    <2>3. Len(q') = Len(q) + Len(s) /\ Len(s) \in Nat
        BY <1>2, <2>1, <2>2
    <2>4. ahead' = ahead
        BY <1>1, <1>2, <2>3 DEF Taken, q
    <2>5. PICK k \in DOMAIN q : k > ahead /\ q[k] = R[i]
        BY <1>1, <2>4 DEF StackLast, R, q
    <2>6. k \in DOMAIN q' /\ q'[k] = q[k]
        <3>1. k \in 1 .. Len(q)
            BY <1>2, <2>5
        <3>2. k \in 1 .. Len(q \o s) /\ (q \o s)[k] = q[k]
            BY <1>2, <2>2, <2>3, <3>1
        <3> QED BY <1>2, <2>1, <2>2, <3>2
    <2> QED BY <1>3, <2>4, <2>5, <2>6
<1>5. CASE ~(n < KernelBrkPage)
    <2>1. q' = IF m <= Len(q) THEN Drop(q, m) ELSE <<>>
        BY <1>1, <1>5 DEF expand_heap_pages, LeftOver
    <2>2. m \in Nat
        <3>1. HeapPages(n) \subseteq Page
            BY <1>2 DEF HeapPages, Page
        <3>2. IsFiniteSet(Missing(R, HeapPages(n)))
            BY <3>1, Layout, FS_Subset DEF Missing
        <3> QED BY <3>2, FS_CardinalityType
    <2> HIDE DEF m, R
    <2>3. CASE m <= Len(q)
        <3>1. q' = Drop(q, m)
            BY <2>1, <2>3
        <3>2. /\ q' \in Seq(Frame) /\ Len(q') = Len(q) - m
              /\ \A k \in 1 .. Len(q) - m : q'[k] = q[m + k]
            BY <1>2, <2>2, <2>3, <3>1, SMTT(60) DEF Drop
        <3>3. ahead' = ahead - m
            <4>1. Taken = m
                BY <1>2, <2>2, <3>2 DEF Taken
            <4> QED BY <1>1, <4>1
        <3>4. PICK k \in DOMAIN q : k > ahead /\ q[k] = R[i]
            BY <1>1, <1>2, <2>2, <3>3 DEF StackLast, R
        <3>5. k \in 1 .. Len(q)
            BY <1>2, <3>4
        <3>6. k - m \in 1 .. Len(q) - m /\ k - m > ahead'
            BY <1>2, <2>2, <3>3, <3>4, <3>5
        <3>7. k - m \in DOMAIN q'
            BY <3>2, <3>6
        <3>8. q'[k - m] = q[k]
            BY <2>2, <3>2, <3>5, <3>6
        <3> QED BY <1>3, <3>4, <3>6, <3>7, <3>8
    <2>4. CASE ~(m <= Len(q))
        <3>1. Len(q') = 0
            BY <2>1, <2>4
        <3>2. ahead' = ahead - Len(q)
            <4>1. Taken = Len(q)
                BY <1>2, <3>1 DEF Taken
            <4> QED BY <1>1, <4>1
        <3>3. PICK k \in DOMAIN q : k > ahead /\ q[k] = R[i]
            BY <1>1, <1>2, <3>2 DEF StackLast, R
        <3> QED BY <1>2, <3>2, <3>3
    <2> QED BY <2>3, <2>4
<1> QED BY <1>4, <1>5

LEMMA StackLastNext ==
    ASSUME MemInv, Intact', StacksWhole, StackLast, [MemoryNext]_memoryVars
    PROVE  StackLast'
<1> SUFFICES ASSUME exiting' = "stack_freed" PROVE StackLast'
    BY DEF StackLast
<1>1. CASE UNCHANGED memoryVars
    BY <1>1 DEF StackLast, memoryVars, heapVars, memVars
<1>2. CASE \E p \in Proc : ExitStack(p)
    BY <1>2, StackLastFreed
<1>3. CASE \E n \in Page : HeapMove(n)
    BY <1>3, StackLastMalloc
<1>4. CASE Booting
    <2>1. exiting = "no" /\ exiting' = exiting
        BY <1>4 DEF Booting, BootNext, init_free_frame_queue, BootBrk, memVars, MemInv, BootState
    <2> QED BY <2>1
<1>5. CASE \E prog \in Programs : KernelStart(prog)
    <2>1. phase = "boot" /\ exiting' = exiting
        BY <1>5 DEF KernelStart
    <2> QED BY <2>1 DEF MemInv, BootState
<1>6. CASE \E p \in Proc, prog \in Programs :
              ExecLoads(p, prog) \/ ExecNoFrames(p, prog) \/ ExecKilled(p, prog)
    BY <1>6 DEF ExecLoads, ExecNoFrames, ExecKilled, UserCall, InKernel, Leave, memVars
<1>7. CASE \E p, q \in Proc : ForkHandler(p, q) \/ KCSwitch(p, q)
    BY <1>7 DEF ForkHandler, KCSwitch, UserCall, InKernel
<1>8. CASE \E p \in Proc : ForkNoFrames(p) \/ ExitHandler(p) \/ ExitSwitch(p)
    BY <1>8 DEF ForkNoFrames, ExitHandler, ExitSwitch, UserCall, InKernel, Leave, memVars
<1>9. CASE \E p \in Proc, addr \in Addresses, sp \in StackPointers :
              \/ BrkGrow(p, addr[1], addr[2], sp) \/ BrkShrink(p, addr[1], addr[2], sp)
              \/ TrapMemoryHandler(p, addr[1], addr[2], sp)
    <2>1. PICK p \in Proc, addr \in Addresses, sp \in StackPointers :
              \/ BrkGrow(p, addr[1], addr[2], sp) \/ BrkShrink(p, addr[1], addr[2], sp)
              \/ TrapMemoryHandler(p, addr[1], addr[2], sp)
        BY <1>9
    <2>2. CASE BrkGrow(p, addr[1], addr[2], sp) \/ BrkShrink(p, addr[1], addr[2], sp)
        BY <2>2 DEF BrkGrow, BrkShrink, UserCall, InKernel, Populate
    <2>3. CASE GrowStack(p, addr[1], addr[2], sp) \/ GrowStackFails(p, addr[1], addr[2], sp)
        BY <2>3 DEF GrowStack, GrowStackFails, UserCall, InKernel, Populate, ExitHandler, Leave
    <2>4. CASE AbortAccess(p, addr[1], addr[2], sp)
        BY <2>4 DEF AbortAccess, ExitHandler, UserCall, InKernel, Leave
    <2> QED BY <2>1, <2>2, <2>3, <2>4 DEF TrapMemoryHandler
<1>10. CASE Stopped
    BY <1>1, <1>10 DEF Stopped
<1>11. CASE MemoryNext
    BY <1>2, <1>3, <1>4, <1>5, <1>6, <1>7, <1>8, <1>9, <1>10, <1>11 DEF MemoryNext
<1> QED BY <1>1, <1>11

(* As long as memory is intact, no page gets a frame of the stack that the *)
(* kernel still runs on after an exit, unless malloc takes more frames     *)
(* before the switch than were on the list in front of that stack.         *)
THEOREM ExitStackKept == MemorySpec => []ExitStackSafe
<1> DEFINE Inv == Intact => StacksWhole /\ StackLast
<1>1. MemoryInit => Inv
    BY DEF MemoryInit, HeapInit, StacksWhole, StackLast
<1>2. MemSafe /\ Inv /\ [MemoryNext]_memoryVars => Inv'
    <2> SUFFICES ASSUME MemSafe, Inv, [MemoryNext]_memoryVars, Intact'
                 PROVE  StacksWhole' /\ StackLast'
        OBVIOUS
    <2>1. MemInv /\ Intact
        BY IntactStep
    <2> QED BY <2>1, StacksWholeNext, StackLastNext
<1>3. Inv => ExitStackSafe
    BY DEF StackLast, ExitStackSafe, InQueue
<1> HIDE DEF Inv
<1> QED BY <1>1, <1>2, <1>3, MemInvHolds, PTL DEF MemorySpec
=============================================================================
