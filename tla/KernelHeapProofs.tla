-------------------------- MODULE KernelHeapProofs ---------------------------
(***************************************************************************)
(* What the kernel can rely on when the list of free frames is built, for  *)
(* any size of memory and kernel: its pages are mapped however far the     *)
(* heap grows meanwhile, and the list is right exactly as long as the heap *)
(* keeps to the two pages above the break that the test leaves out.        *)
(***************************************************************************)
EXTENDS KernelHeap, FiniteSetTheorems, SequenceTheorems, TLAPS

(* The break before anything was put on the list.                          *)
FirstBrkPage == OrigKernelBrkPage + BOOT_OFFSET

BootTypeOK ==
    /\ phase = "boot"
    /\ frame \in 0 .. NumFrames
    /\ region_0_pages \in [Page -> Frame \cup {NULL}]
    /\ kernel_brk_offset \in BOOT_OFFSET .. HEAP_LIMIT - OrigKernelBrkPage
    /\ free_frame_queue \in Seq(Frame)

(* Until it overgrows the heap has at most two pages more than at first.   *)
PagesInPlace ==
    \A i \in Page \ StackPages :
        region_0_pages[i] # NULL =>
            region_0_pages[i] = i /\ (~overgrown => i < FirstBrkPage + 2)

(* The test of init_free_frame_queue keeps a distance of two frames to the *)
(* break at the time, which is never below the first one.                  *)
ListedAbove ==
    \A k \in DOMAIN free_frame_queue :
        free_frame_queue[k] > FirstBrkPage + 1 /\ free_frame_queue[k] \notin StackPages

BootInv == BootTypeOK /\ PagesInPlace /\ ListedAbove /\ HeapMapped

LEMMA BootInvInit == HeapInit => BootInv
<1> USE KernelHeapAssumption
<1> SUFFICES ASSUME HeapInit PROVE BootInv
    OBVIOUS
<1>1. Page \subseteq Frame
    BY DEF Page, Frame
<1>2. BootTypeOK
    <2>1. region_0_pages \in [Page -> Frame \cup {NULL}]
        BY <1>1 DEF HeapInit, init_page_tables, StackPages
    <2> QED BY <2>1 DEF BootTypeOK, HeapInit
<1>3. PagesInPlace
    BY DEF PagesInPlace, HeapInit, init_page_tables, FirstBrkPage, Page
<1>4. ListedAbove
    BY DEF ListedAbove, HeapInit
<1>5. HeapMapped
    BY <1>1 DEF HeapMapped, HeapInit, init_page_tables, KernelBrkPage, Page
<1> QED BY <1>2, <1>3, <1>4, <1>5 DEF BootInv

LEMMA BootInvList == BootInv /\ init_free_frame_queue => BootInv'
<1> USE KernelHeapAssumption
<1> SUFFICES ASSUME BootInv, init_free_frame_queue PROVE BootInv'
    OBVIOUS
<1> USE DEF BootInv, BootTypeOK, init_free_frame_queue
<1>1. frame \in Frame /\ frame' \in 0 .. NumFrames
    BY DEF Frame
<1>2. free_frame_queue' \in Seq(Frame)
    BY <1>1
<1>3. ListedAbove'
    <2>1. CASE UnusedFrame(frame)
        <3>1. frame > FirstBrkPage + 1 /\ frame \notin StackPages
            BY <2>1 DEF UnusedFrame, FirstBrkPage, KernelBrkPage
        <3>2. ASSUME NEW k \in DOMAIN free_frame_queue'
              PROVE \/ k \in DOMAIN free_frame_queue /\ free_frame_queue'[k] = free_frame_queue[k]
                    \/ free_frame_queue'[k] = frame
            BY <1>1, <2>1
        <3> QED BY <3>1, <3>2 DEF ListedAbove, FirstBrkPage, StackPages
    <2>2. CASE ~UnusedFrame(frame)
        BY <2>2 DEF ListedAbove, FirstBrkPage, StackPages
    <2> QED BY <2>1, <2>2
<1>4. PagesInPlace' /\ HeapMapped'
    BY DEF PagesInPlace, HeapMapped, KernelBrkPage, FirstBrkPage
<1> QED BY <1>1, <1>2, <1>3, <1>4

LEMMA BootInvBrk == ASSUME NEW n \in Page, BootInv, BootBrk(n) PROVE BootInv'
<1> USE KernelHeapAssumption
<1>1. /\ n >= KernelBrkPage /\ n <= HEAP_LIMIT /\ phase = "boot"
      /\ IF n < KernelBrkPage THEN shrink_heap_pages(n) ELSE expand_heap_pages(n)
      /\ UNCHANGED <<phase, frame>>
    BY Zenon DEF BootBrk, SetKernelBrk
<1>2. ~overgrown' => ~overgrown /\ n <= FirstBrkPage + 2
    <2>1. overgrown' = (overgrown \/ Overgrows(n))
        BY Zenon DEF BootBrk, SetKernelBrk
    <2>2. ~Overgrows(n) => n <= FirstBrkPage + 2
        BY <1>1 DEF Overgrows, FirstBrkPage, Page
    <2> QED BY <2>1, <2>2, Zenon
<1> USE DEF BootInv, BootTypeOK, expand_heap_pages
<1>3. /\ KernelBrkPage \in Nat /\ KernelBrkPage > 0 /\ n \in Nat
      /\ region_0_pages' = [i \in Page |-> IF i \in Missing(region_0_pages, HeapPages(n))
                                           THEN i ELSE region_0_pages[i]]
      /\ kernel_brk_offset' \in {n - OrigKernelBrkPage, kernel_brk_offset}
      /\ UNCHANGED free_frame_queue
      /\ Page \subseteq Frame
    <2>1. KernelBrkPage \in Nat /\ KernelBrkPage > 0 /\ n \in Nat
        BY DEF KernelBrkPage, Page
    <2>2. ~(n < KernelBrkPage)
        BY <1>1, <2>1
    <2>3. Page \subseteq Frame
        BY DEF Page, Frame
    <2> QED BY <1>1, <2>1, <2>2, <2>3
<1>4. BootTypeOK'
    <2>1. region_0_pages' \in [Page -> Frame \cup {NULL}]
        BY <1>3
    <2>2. kernel_brk_offset' \in BOOT_OFFSET .. HEAP_LIMIT - OrigKernelBrkPage
        BY <1>1, <1>3 DEF KernelBrkPage
    <2> QED BY <1>1, <1>3, <2>1, <2>2
<1>5. PagesInPlace'
    BY <1>1, <1>2, <1>3 DEF PagesInPlace, Missing, HeapPages, FirstBrkPage, KernelBrkPage, Page, StackPages
<1>6. ListedAbove'
    BY <1>3 DEF ListedAbove, FirstBrkPage, StackPages
<1>7. HeapMapped'
    <2>1. KernelBrkPage' \in {n, KernelBrkPage}
        BY <1>1, <1>3 DEF KernelBrkPage, Page
    <2>2. KernelBrkPage' \in Nat /\ KernelBrkPage' <= n
        BY <1>1, <1>3, <2>1
    <2> SUFFICES ASSUME NEW i \in Nat, FirstKernelTextPage <= i, i <= n - 1
                 PROVE region_0_pages'[i] # NULL
        <3> DEFINE k == KernelBrkPage'
        <3>1. k \in Nat /\ k <= n /\ n \in Nat
            BY <1>3, <2>2
        <3>2. HeapMapped' <=> \A j \in FirstKernelTextPage .. k - 1 : region_0_pages'[j] # NULL
            BY DEF HeapMapped
        <3> HIDE DEF k
        <3>3. \A j \in FirstKernelTextPage .. k - 1 :
                  j \in Nat /\ FirstKernelTextPage <= j /\ j <= n - 1
            BY <3>1
        <3> QED BY <3>2, <3>3
    <2> i \in Page
        BY DEF Page
    <2>3. CASE i < KernelBrkPage
        BY <1>1, <1>3, <2>3 DEF HeapMapped, Missing
    <2>4. CASE i >= KernelBrkPage
        BY <1>1, <1>3, <2>4 DEF Missing, HeapPages
    <2> QED BY <1>3, <2>3, <2>4
<1> QED BY <1>4, <1>5, <1>6, <1>7

(* While the kernel boots its pages are in the frames of their numbers and *)
(* the list keeps clear of the first break and of the stack.               *)
THEOREM BootInvariant == BootSpec => []BootInv
<1>1. BootInv /\ [BootNext]_heapVars => BootInv'
    <2> SUFFICES ASSUME BootInv, [BootNext]_heapVars PROVE BootInv'
        OBVIOUS
    <2>1. CASE init_free_frame_queue
        BY <2>1, BootInvList
    <2>2. CASE \E n \in Page : BootBrk(n)
        BY <2>2, BootInvBrk
    <2>3. CASE UNCHANGED heapVars
        BY <2>3 DEF BootInv, BootTypeOK, PagesInPlace, ListedAbove, HeapMapped, KernelBrkPage,
                    FirstBrkPage, heapVars
    <2> QED BY <2>1, <2>2, <2>3 DEF BootNext
<1> QED BY BootInvInit, <1>1, PTL DEF BootSpec

(* The distance of two frames that the test of init_free_frame_queue keeps *)
(* to the break is enough for two pages: as long as the heap was not asked *)
(* to grow further, no frame of the kernel is on the list.                 *)
THEOREM BootListRight == BootSpec => [](~overgrown => KernelFramesNotFree)
<1>1. BootInv => (~overgrown => KernelFramesNotFree)
    <2> USE KernelHeapAssumption
    <2> SUFFICES ASSUME BootInv, ~overgrown, NEW i \in Page \ StackPages, region_0_pages[i] # NULL,
                        NEW k \in DOMAIN free_frame_queue, free_frame_queue[k] = region_0_pages[i]
                 PROVE FALSE
        BY DEF KernelFramesNotFree, InQueue
    <2>1. i < FirstBrkPage + 2 /\ free_frame_queue[k] = i
        BY DEF BootInv, PagesInPlace, FirstBrkPage, Page
    <2> QED BY <2>1 DEF BootInv, ListedAbove, FirstBrkPage, Page
<1> QED BY BootInvariant, <1>1, PTL

(* While the kernel boots every page below its break is valid, although    *)
(* expand_heap_pages may report an error for pages that it did map.        *)
THEOREM BootHeapMapped == BootSpec => []HeapMapped
<1>1. BootInv => HeapMapped
    BY DEF BootInv
<1> QED BY BootInvariant, <1>1, PTL
-----------------------------------------------------------------------------
(* What FillUp, FillDown, FramesUp, FramesDown and Drop do with the frames *)
(* of a table and of a list, for tables and lists of any size.             *)

Values(f) == {f[i] : i \in DOMAIN f} \ {NULL}

Distinct(f) == \A i, j \in DOMAIN f : f[i] = f[j] /\ f[i] # NULL => i = j

(* How many elements of V are below i, and how many are above.             *)
UpRank(V, i) == Cardinality({j \in V : j < i})
DownRank(V, i) == Cardinality({j \in V : j > i})

(* r numbers the elements of V from 0 without a gap.                       *)
Numbers(r, V) ==
    /\ r \in [V -> 0 .. Cardinality(V) - 1]
    /\ \A i, j \in V : r[i] = r[j] => i = j
    /\ \A k \in 0 .. Cardinality(V) - 1 : \E i \in V : r[i] = k

(* An injection from V to as many numbers leaves none of them out.         *)
LEMMA NumbersAll ==
    ASSUME NEW V, IsFiniteSet(V), NEW r \in [V -> 0 .. Cardinality(V) - 1],
           \A i, j \in V : r[i] = r[j] => i = j
    PROVE  Numbers(r, V)
<1> DEFINE T == 0 .. Cardinality(V) - 1
<1>1. Cardinality(V) \in Nat
    BY FS_CardinalityType
<1>2. IsFiniteSet(T) /\ Cardinality(T) = Cardinality(V)
    BY <1>1, FS_Interval, SMTT(60)
<1>3. r \in Injection(V, T)
    BY DEF Injection, IsInjective
<1>4. r \in Surjection(V, T)
    <2> HIDE DEF T
    <2> QED BY <1>2, <1>3, FS_Injection
<1> QED BY <1>4 DEF Surjection, Numbers

LEMMA UpRankNumbers ==
    ASSUME NEW V \in SUBSET Int, IsFiniteSet(V)
    PROVE  Numbers([i \in V |-> UpRank(V, i)], V)
<1> DEFINE B(i) == {j \in V : j < i}
<1>1. \A i \in V : IsFiniteSet(B(i)) /\ Cardinality(B(i)) \in Nat
    BY FS_Subset, FS_CardinalityType
<1>2. ASSUME NEW i \in V, NEW S \in SUBSET V, B(i) \subseteq S, i \in S
      PROVE  Cardinality(B(i)) < Cardinality(S)
    <2>1. IsFiniteSet(S) /\ Cardinality(S) \in Nat
        BY FS_Subset, FS_CardinalityType
    <2>2. i \notin B(i)
        OBVIOUS
    <2>3. /\ Cardinality(B(i)) <= Cardinality(S)
          /\ Cardinality(S) = Cardinality(B(i)) => S = B(i)
        BY <1>2, <2>1, FS_Subset
    <2> QED BY <1>1, <1>2, <2>1, <2>2, <2>3
<1>3. \A i \in V : Cardinality(B(i)) < Cardinality(V)
    BY <1>2
<1>4. ASSUME NEW i \in V, NEW j \in V, i < j PROVE Cardinality(B(i)) < Cardinality(B(j))
    <2>1. i \in Int /\ j \in Int /\ \A k \in V : k \in Int /\ (k < i => k < j)
        BY <1>4
    <2>2. B(i) \subseteq B(j) /\ i \in B(j) /\ B(j) \in SUBSET V
        BY <1>4, <2>1
    <2> QED BY <1>2, <2>2
<1>5. [i \in V |-> UpRank(V, i)] \in [V -> 0 .. Cardinality(V) - 1]
    BY <1>1, <1>3, FS_CardinalityType DEF UpRank
<1>6. \A i, j \in V : UpRank(V, i) = UpRank(V, j) => i = j
    BY <1>1, <1>4 DEF UpRank
<1> QED BY <1>5, <1>6, NumbersAll

LEMMA DownRankNumbers ==
    ASSUME NEW V \in SUBSET Int, IsFiniteSet(V)
    PROVE  Numbers([i \in V |-> DownRank(V, i)], V)
<1> DEFINE B(i) == {j \in V : j > i}
<1>1. \A i \in V : IsFiniteSet(B(i)) /\ Cardinality(B(i)) \in Nat
    BY FS_Subset, FS_CardinalityType
<1>2. ASSUME NEW i \in V, NEW S \in SUBSET V, B(i) \subseteq S, i \in S
      PROVE  Cardinality(B(i)) < Cardinality(S)
    <2>1. IsFiniteSet(S) /\ Cardinality(S) \in Nat
        BY FS_Subset, FS_CardinalityType
    <2>2. i \notin B(i)
        OBVIOUS
    <2>3. /\ Cardinality(B(i)) <= Cardinality(S)
          /\ Cardinality(S) = Cardinality(B(i)) => S = B(i)
        BY <1>2, <2>1, FS_Subset
    <2> QED BY <1>1, <1>2, <2>1, <2>2, <2>3
<1>3. \A i \in V : Cardinality(B(i)) < Cardinality(V)
    BY <1>2
<1>4. ASSUME NEW i \in V, NEW j \in V, j < i PROVE Cardinality(B(i)) < Cardinality(B(j))
    <2>1. i \in Int /\ j \in Int /\ \A k \in V : k \in Int /\ (k > i => k > j)
        BY <1>4
    <2>2. B(i) \subseteq B(j) /\ i \in B(j) /\ B(j) \in SUBSET V
        BY <1>4, <2>1
    <2> QED BY <1>2, <2>2
<1>5. [i \in V |-> DownRank(V, i)] \in [V -> 0 .. Cardinality(V) - 1]
    BY <1>1, <1>3, FS_CardinalityType DEF DownRank
<1>6. \A i, j \in V : DownRank(V, i) = DownRank(V, j) => i = j
    BY <1>1, <1>4 DEF DownRank
<1> QED BY <1>5, <1>6, NumbersAll

(* Drop takes frames off the front: the others stay in their order.        *)
LEMMA DropLemma ==
    ASSUME NEW q \in Seq(Frame), NEW n \in Nat, n <= Len(q)
    PROVE  /\ Drop(q, n) \in Seq(Frame)
           /\ Len(Drop(q, n)) = Len(q) - n
           /\ \A k \in 1 .. Len(q) - n : Drop(q, n)[k] = q[n + k]
           /\ Values(Drop(q, n)) = {q[k] : k \in n + 1 .. Len(q)}
           /\ Distinct(q) => /\ Distinct(Drop(q, n))
                             /\ \A k \in 1 .. n : q[k] \notin Values(Drop(q, n))
<1> USE KernelHeapAssumption
<1>1. /\ Drop(q, n) \in Seq(Frame)
      /\ Len(Drop(q, n)) = Len(q) - n
      /\ \A k \in 1 .. Len(q) - n : Drop(q, n)[k] = q[n + k]
    BY DEF Drop
<1> DEFINE d == Drop(q, n)
<1>2. DOMAIN d = 1 .. Len(q) - n /\ \A k \in 1 .. Len(q) : q[k] \in Frame /\ q[k] # NULL
    BY <1>1
<1> HIDE DEF d
<1>3. Values(d) = {q[k] : k \in n + 1 .. Len(q)}
    <2>1. \A k \in DOMAIN d : d[k] = q[n + k] /\ n + k \in n + 1 .. Len(q)
        BY <1>1, <1>2 DEF d
    <2>2. \A k \in n + 1 .. Len(q) : k - n \in DOMAIN d /\ q[k] = d[k - n] /\ q[k] # NULL
        BY <1>1, <1>2 DEF d
    <2> QED BY <1>2, <2>1, <2>2, SMTT(60) DEF Values
<1>4. ASSUME Distinct(q) PROVE Distinct(d)
    <2> SUFFICES ASSUME NEW i \in DOMAIN d, NEW j \in DOMAIN d, d[i] = d[j] PROVE i = j
        BY DEF Distinct
    <2>1. q[n + i] = q[n + j] /\ n + i \in 1 .. Len(q) /\ n + j \in 1 .. Len(q)
        BY <1>1, <1>2 DEF d
    <2>2. n + i = n + j
        BY <1>2, <1>4, <2>1 DEF Distinct
    <2> QED BY <1>2, <2>2
<1>5. ASSUME Distinct(q), NEW k \in 1 .. n PROVE q[k] \notin Values(d)
    <2> SUFFICES ASSUME NEW j \in n + 1 .. Len(q), q[j] = q[k] PROVE FALSE
        BY <1>3
    <2>1. j = k
        BY <1>2, <1>5 DEF Distinct
    <2> QED BY <2>1
<1> QED BY <1>1, <1>3, <1>4, <1>5 DEF d

(* T is table t after the invalid pages of S got the frames of q, as far   *)
(* as those go: every frame is in T or left over, and in one place only.   *)
Filled(t, S, q, T) ==
    /\ T \in [DOMAIN t -> Frame \cup {NULL}] /\ LeftOver(t, S, q) \in Seq(Frame)
    /\ Distinct(T) /\ Distinct(LeftOver(t, S, q))
    /\ Values(T) \cap Values(LeftOver(t, S, q)) = {}
    /\ Values(T) \cup Values(LeftOver(t, S, q)) = Values(t) \cup Values(q)
    /\ \A i \in DOMAIN t : t[i] # NULL \/ i \notin S => T[i] = t[i]
    /\ Enough(t, S, q) => \A i \in S : T[i] # NULL

LEMMA FillNumbered ==
    ASSUME NEW D, NEW t \in [D -> Frame \cup {NULL}], NEW S \in SUBSET D, IsFiniteSet(S),
           NEW q \in Seq(Frame), Distinct(t), Distinct(q), Values(t) \cap Values(q) = {},
           NEW r, Numbers(r, Missing(t, S)),
           NEW T, T = [i \in D |-> IF i \in Missing(t, S) /\ 1 + r[i] <= Len(q)
                                   THEN q[1 + r[i]] ELSE t[i]]
    PROVE  Filled(t, S, q, T)
<1> USE KernelHeapAssumption
<1> DEFINE M == Missing(t, S)
           c == Cardinality(M)
           L == LeftOver(t, S, q)
           n == IF c <= Len(q) THEN c ELSE Len(q)
<1>1. M \subseteq D /\ M \subseteq S /\ \A i \in D : i \in M <=> i \in S /\ t[i] = NULL
    BY DEF Missing
<1>2. c \in Nat
    BY <1>1, FS_Subset, FS_CardinalityType
<1>3. /\ \A i \in M : r[i] \in 0 .. c - 1
      /\ \A i, j \in M : r[i] = r[j] => i = j
      /\ \A k \in 0 .. c - 1 : \E i \in M : r[i] = k
    BY DEF Numbers
<1>4. \A k \in 1 .. Len(q) : q[k] \in Frame /\ q[k] # NULL
    OBVIOUS
<1>5. \A k, l \in 1 .. Len(q) : q[k] = q[l] => k = l
    BY <1>4 DEF Distinct
<1>6. L = IF c <= Len(q) THEN Drop(q, c) ELSE <<>>
    BY DEF LeftOver
<1> HIDE DEF M, c, L
<1>7. /\ n \in Nat /\ n <= Len(q) /\ n <= c
      /\ \A k \in 0 .. c - 1 : 1 + k <= Len(q) <=> 1 + k <= n
    BY <1>2
<1>8. /\ L \in Seq(Frame) /\ Distinct(L)
      /\ Values(L) = {q[k] : k \in n + 1 .. Len(q)}
    <2>1. CASE c <= Len(q)
        BY <1>2, <1>6, <2>1, DropLemma
    <2>2. CASE ~(c <= Len(q))
        <3>1. L = <<>> /\ n = Len(q)
            BY <1>6, <2>2
        <3> QED BY <3>1 DEF Values, Distinct
    <2> QED BY <2>1, <2>2
<1> HIDE DEF n
(* How T differs from t, and that it uses the first n frames of q.         *)
<1>9. /\ T \in [D -> Frame \cup {NULL}]
      /\ \A i \in D : \/ T[i] = t[i] /\ ~(i \in M /\ r[i] < n)
                      \/ /\ i \in M /\ r[i] < n /\ 1 + r[i] \in 1 .. n
                         /\ T[i] = q[1 + r[i]] /\ T[i] # NULL
    <2>1. ASSUME NEW i \in D
          PROVE  /\ T[i] \in Frame \cup {NULL}
                 /\ \/ T[i] = t[i] /\ ~(i \in M /\ r[i] < n)
                    \/ /\ i \in M /\ r[i] < n /\ 1 + r[i] \in 1 .. n
                       /\ T[i] = q[1 + r[i]] /\ T[i] # NULL
        <3>1. T[i] = IF i \in M /\ 1 + r[i] <= Len(q) THEN q[1 + r[i]] ELSE t[i]
            BY DEF M
        <3>2. CASE i \notin M
            BY <3>1, <3>2
        <3>3. CASE i \in M
            <4>1. r[i] \in 0 .. c - 1
                BY <1>3, <3>3
            <4>2. 1 + r[i] <= Len(q) <=> 1 + r[i] <= n
                BY <1>7, <4>1
            <4>3. CASE 1 + r[i] <= n
                <5>1. 1 + r[i] \in 1 .. n /\ 1 + r[i] \in 1 .. Len(q) /\ r[i] < n
                    BY <1>7, <1>2, <4>1, <4>3
                <5> QED BY <1>4, <3>1, <3>3, <4>2, <4>3, <5>1
            <4>4. CASE ~(1 + r[i] <= n)
                <5>1. ~(r[i] < n)
                    BY <1>7, <1>2, <4>1, <4>4
                <5> QED BY <3>1, <4>2, <4>4, <5>1
            <4> QED BY <4>3, <4>4
        <3> QED BY <3>2, <3>3
    <2> QED BY <2>1
<1> DEFINE Q == {q[k] : k \in 1 .. n}
<1>10. \A k \in 1 .. n : \E i \in M : i \in D /\ 1 + r[i] = k /\ T[i] = q[k]
    <2> SUFFICES ASSUME NEW k \in 1 .. n PROVE \E i \in M : i \in D /\ 1 + r[i] = k /\ T[i] = q[k]
        OBVIOUS
    <2>1. k - 1 \in 0 .. c - 1
        BY <1>2, <1>7
    <2>2. PICK i \in M : r[i] = k - 1
        BY <1>3, <2>1
    <2>3. r[i] < n /\ 1 + r[i] = k /\ i \in D
        BY <1>1, <1>7, <2>2
    <2> QED BY <1>9, <2>3
<1>11. \A i \in M : t[i] = NULL
    BY <1>1
<1>12. Values(q) = Q \cup Values(L) /\ Q \cap Values(L) = {}
    <2>1. Values(q) = {q[k] : k \in 1 .. Len(q)}
        BY <1>4 DEF Values
    <2>2. \A k : k \in 1 .. Len(q) <=> k \in 1 .. n \/ k \in n + 1 .. Len(q)
        BY <1>7
    <2>3. \A k \in 1 .. n, l \in n + 1 .. Len(q) : q[k] # q[l]
        BY <1>5, <1>7
    <2> QED BY <1>8, <2>1, <2>2, <2>3
<1>13. Values(T) = Values(t) \cup Q
    <2>1. Values(T) \subseteq Values(t) \cup Q
        BY <1>9 DEF Values
    <2>2. Q \subseteq Values(T)
        <3>1. \A k \in 1 .. n : q[k] # NULL
            BY <1>4, <1>7
        <3> QED BY <1>9, <1>10, <3>1 DEF Values
    <2>3. Values(t) \subseteq Values(T)
        BY <1>9, <1>11 DEF Values
    <2> QED BY <2>1, <2>2, <2>3
<1>14. Values(t) \cap Q = {} /\ Values(t) \cap Values(L) = {}
    BY <1>12
<1>15. Distinct(T)
    <2> SUFFICES ASSUME NEW i \in D, NEW j \in D, T[i] = T[j], T[i] # NULL PROVE i = j
        BY <1>9 DEF Distinct
    <2>1. CASE T[i] = t[i] /\ T[j] = t[j]
        BY <2>1 DEF Distinct
    <2>2. CASE /\ i \in M /\ 1 + r[i] \in 1 .. n /\ T[i] = q[1 + r[i]]
               /\ j \in M /\ 1 + r[j] \in 1 .. n /\ T[j] = q[1 + r[j]]
        <3>1. 1 + r[i] \in 1 .. Len(q) /\ 1 + r[j] \in 1 .. Len(q)
            BY <1>7, <2>2
        <3>2. 1 + r[i] = 1 + r[j]
            BY <1>5, <2>2, <3>1
        <3>3. r[i] = r[j]
            BY <1>3, <2>2, <3>2
        <3> QED BY <1>3, <2>2, <3>3
    <2>3. \A k, l \in D : T[k] = t[k] /\ T[k] # NULL /\ T[l] = q[1 + r[l]] /\ 1 + r[l] \in 1 .. n
                          => T[k] # T[l]
        <3>1. \A k \in D : T[k] = t[k] /\ T[k] # NULL => T[k] \in Values(t)
            BY DEF Values
        <3>2. \A l \in D : T[l] = q[1 + r[l]] /\ 1 + r[l] \in 1 .. n => T[l] \in Q
            OBVIOUS
        <3> QED BY <1>14, <3>1, <3>2
    <2> QED BY <1>9, <2>1, <2>2, <2>3
<1>16. \A i \in D : t[i] # NULL \/ i \notin S => T[i] = t[i]
    BY <1>1, <1>9
<1>17. ASSUME c <= Len(q), NEW i \in S PROVE T[i] # NULL
    <2>1. CASE i \in M
        <3>1. r[i] < n
            BY <1>2, <1>3, <1>17, <2>1 DEF n
        <3> QED BY <1>1, <1>9, <2>1, <3>1
    <2>2. CASE i \notin M
        BY <1>1, <1>16, <2>2
    <2> QED BY <2>1, <2>2
<1> HIDE DEF Q
<1>18. Values(T) \cap Values(L) = {} /\ Values(T) \cup Values(L) = Values(t) \cup Values(q)
    BY <1>12, <1>13, <1>14
<1> QED BY <1>8, <1>9, <1>15, <1>16, <1>17, <1>18 DEF Filled, L, Enough, c, M

(* Without any assumption on what t and q hold: T is typed, and every page *)
(* of S is valid if the frames suffice.                                    *)
FilledTyped(t, S, q, T) ==
    /\ T \in [DOMAIN t -> Frame \cup {NULL}] /\ LeftOver(t, S, q) \in Seq(Frame)
    /\ \A i \in DOMAIN t : t[i] # NULL \/ i \notin S => T[i] = t[i]
    /\ Enough(t, S, q) => \A i \in S : T[i] # NULL

LEMMA FillNumberedTyped ==
    ASSUME NEW D, NEW t \in [D -> Frame \cup {NULL}], NEW S \in SUBSET D, IsFiniteSet(S),
           NEW q \in Seq(Frame), NEW r, Numbers(r, Missing(t, S)),
           NEW T, T = [i \in D |-> IF i \in Missing(t, S) /\ 1 + r[i] <= Len(q)
                                   THEN q[1 + r[i]] ELSE t[i]]
    PROVE  FilledTyped(t, S, q, T)
<1> USE KernelHeapAssumption
<1> DEFINE M == Missing(t, S)
           c == Cardinality(M)
<1>1. M \subseteq S /\ \A i \in D : i \in M <=> i \in S /\ t[i] = NULL
    BY DEF Missing
<1>2. c \in Nat
    BY <1>1, FS_Subset, FS_CardinalityType
<1>3. \A i \in M : r[i] \in 0 .. c - 1
    BY DEF Numbers
<1>4. Len(q) \in Nat /\ \A k \in 1 .. Len(q) : q[k] \in Frame /\ q[k] # NULL
    OBVIOUS
<1>5. LeftOver(t, S, q) \in Seq(Frame)
    BY <1>2, DropLemma DEF LeftOver
<1>6. \A i \in D : T[i] = IF i \in M /\ 1 + r[i] <= Len(q) THEN q[1 + r[i]] ELSE t[i]
    OBVIOUS
<1> HIDE DEF M, c
<1>7. ASSUME NEW i \in D, i \in M, 1 + r[i] <= Len(q) PROVE T[i] \in Frame /\ T[i] # NULL
    <2>1. 1 + r[i] \in 1 .. Len(q)
        BY <1>2, <1>3, <1>4, <1>7
    <2> QED BY <1>4, <1>6, <1>7, <2>1
<1>8. T \in [D -> Frame \cup {NULL}]
    <2>1. \A i \in D : T[i] \in Frame \cup {NULL}
        BY <1>6, <1>7
    <2> QED BY <2>1
<1>9. \A i \in D : t[i] # NULL \/ i \notin S => T[i] = t[i]
    BY <1>1, <1>6
<1>10. ASSUME c <= Len(q), NEW i \in S PROVE T[i] # NULL
    <2>1. CASE i \in M
        <3>1. 1 + r[i] <= Len(q)
            BY <1>2, <1>3, <1>4, <1>10, <2>1
        <3> QED BY <1>7, <2>1, <3>1
    <2>2. CASE i \notin M
        BY <1>1, <1>9, <2>2
    <2> QED BY <2>1, <2>2
<1> QED BY <1>5, <1>8, <1>9, <1>10 DEF FilledTyped, Enough, c, M

LEMMA FillUpTyped ==
    ASSUME NEW D \in SUBSET Int, NEW t \in [D -> Frame \cup {NULL}], NEW S \in SUBSET D,
           IsFiniteSet(S), NEW q \in Seq(Frame)
    PROVE  FilledTyped(t, S, q, FillUp(t, S, q))
<1> DEFINE M == Missing(t, S)
           r == [i \in M |-> UpRank(M, i)]
           T == FillUp(t, S, q)
<1>1. M \in SUBSET Int /\ IsFiniteSet(M)
    BY FS_Subset DEF Missing
<1>2. Numbers(r, M)
    BY <1>1, UpRankNumbers
<1>3. T = [i \in D |-> IF i \in M /\ 1 + r[i] <= Len(q) THEN q[1 + r[i]] ELSE t[i]]
    BY DEF FillUp, UpRank
<1> HIDE DEF r, T
<1>4. FilledTyped(t, S, q, T)
    BY <1>2, <1>3, FillNumberedTyped, Zenon
<1> QED BY <1>4 DEF T

LEMMA FillDownTyped ==
    ASSUME NEW D \in SUBSET Int, NEW t \in [D -> Frame \cup {NULL}], NEW S \in SUBSET D,
           IsFiniteSet(S), NEW q \in Seq(Frame)
    PROVE  FilledTyped(t, S, q, FillDown(t, S, q))
<1> DEFINE M == Missing(t, S)
           r == [i \in M |-> DownRank(M, i)]
           T == FillDown(t, S, q)
<1>1. M \in SUBSET Int /\ IsFiniteSet(M)
    BY FS_Subset DEF Missing
<1>2. Numbers(r, M)
    BY <1>1, DownRankNumbers
<1>3. T = [i \in D |-> IF i \in M /\ 1 + r[i] <= Len(q) THEN q[1 + r[i]] ELSE t[i]]
    BY DEF FillDown, DownRank
<1> HIDE DEF r, T
<1>4. FilledTyped(t, S, q, T)
    BY <1>2, <1>3, FillNumberedTyped, Zenon
<1> QED BY <1>4 DEF T

LEMMA FillUpLemma ==
    ASSUME NEW D \in SUBSET Int, NEW t \in [D -> Frame \cup {NULL}], NEW S \in SUBSET D,
           IsFiniteSet(S), NEW q \in Seq(Frame), Distinct(t), Distinct(q),
           Values(t) \cap Values(q) = {}
    PROVE  Filled(t, S, q, FillUp(t, S, q))
<1> DEFINE M == Missing(t, S)
           r == [i \in M |-> UpRank(M, i)]
           T == FillUp(t, S, q)
<1>1. M \in SUBSET Int /\ IsFiniteSet(M)
    BY FS_Subset DEF Missing
<1>2. Numbers(r, M)
    BY <1>1, UpRankNumbers
<1>3. T = [i \in D |-> IF i \in M /\ 1 + r[i] <= Len(q) THEN q[1 + r[i]] ELSE t[i]]
    BY DEF FillUp, UpRank
<1> HIDE DEF r, T
<1>4. Filled(t, S, q, T)
    BY <1>2, <1>3, FillNumbered, Zenon
<1> QED BY <1>4 DEF T

LEMMA FillDownLemma ==
    ASSUME NEW D \in SUBSET Int, NEW t \in [D -> Frame \cup {NULL}], NEW S \in SUBSET D,
           IsFiniteSet(S), NEW q \in Seq(Frame), Distinct(t), Distinct(q),
           Values(t) \cap Values(q) = {}
    PROVE  Filled(t, S, q, FillDown(t, S, q))
<1> DEFINE M == Missing(t, S)
           r == [i \in M |-> DownRank(M, i)]
           T == FillDown(t, S, q)
<1>1. M \in SUBSET Int /\ IsFiniteSet(M)
    BY FS_Subset DEF Missing
<1>2. Numbers(r, M)
    BY <1>1, DownRankNumbers
<1>3. T = [i \in D |-> IF i \in M /\ 1 + r[i] <= Len(q) THEN q[1 + r[i]] ELSE t[i]]
    BY DEF FillDown, DownRank
<1> HIDE DEF r, T
<1>4. Filled(t, S, q, T)
    BY <1>2, <1>3, FillNumbered, Zenon
<1> QED BY <1>4 DEF T

(* s lists the frames that table t has for the pages of S, each once.      *)
Lists(s, t, S) ==
    /\ s \in Seq(Frame)
    /\ Values(s) = {t[i] : i \in S} \ {NULL}
    /\ (\A i, j \in S : t[i] = t[j] /\ t[i] # NULL => i = j) => Distinct(s)

LEMMA ListsNumbered ==
    ASSUME NEW D, NEW t \in [D -> Frame \cup {NULL}], NEW S \in SUBSET D, IsFiniteSet(S),
           NEW r, Numbers(r, {i \in S : t[i] # NULL}),
           NEW s \in [1 .. Cardinality({i \in S : t[i] # NULL}) -> Frame],
           \A k \in DOMAIN s : \E i \in S : t[i] # NULL /\ r[i] = k - 1 /\ s[k] = t[i]
    PROVE  Lists(s, t, S)
<1> USE KernelHeapAssumption
<1> DEFINE V == {i \in S : t[i] # NULL}
           c == Cardinality(V)
<1>1. V \subseteq S /\ V \subseteq D /\ \A i \in V : t[i] \in Frame /\ t[i] # NULL
    OBVIOUS
<1>2. c \in Nat
    BY <1>1, FS_Subset, FS_CardinalityType
<1>3. /\ \A i \in V : r[i] \in 0 .. c - 1
      /\ \A i, j \in V : r[i] = r[j] => i = j
    BY DEF Numbers
<1>4. DOMAIN s = 1 .. c /\ \A k \in 1 .. c : \E i \in V : r[i] = k - 1 /\ s[k] = t[i]
    <2>1. DOMAIN s = 1 .. c
        OBVIOUS
    <2> QED BY <2>1
<1>5. \A i \in S : i \in V <=> t[i] # NULL
    OBVIOUS
<1>6. s \in [1 .. c -> Frame]
    OBVIOUS
<1> HIDE DEF V, c
<1>7. s \in Seq(Frame)
    BY <1>2, <1>6, SeqDef
<1>8. \A i \in V : r[i] + 1 \in 1 .. c /\ s[r[i] + 1] = t[i]
    <2> SUFFICES ASSUME NEW i \in V PROVE r[i] + 1 \in 1 .. c /\ s[r[i] + 1] = t[i]
        OBVIOUS
    <2>1. r[i] \in 0 .. c - 1
        BY <1>3
    <2>2. r[i] + 1 \in 1 .. c /\ (r[i] + 1) - 1 = r[i]
        BY <1>2, <2>1
    <2> QED BY <1>3, <1>4, <2>2
<1>9. Values(s) = {t[i] : i \in S} \ {NULL}
    <2>1. \A k \in DOMAIN s : \E i \in S : s[k] = t[i]
        BY <1>1, <1>4
    <2>2. \A i \in S : t[i] # NULL => r[i] + 1 \in DOMAIN s /\ s[r[i] + 1] = t[i]
        BY <1>4, <1>5, <1>8
    <2>3. Values(s) \subseteq {t[i] : i \in S} \ {NULL}
        BY <2>1 DEF Values
    <2>4. \A i \in S : t[i] # NULL => t[i] \in Values(s)
        BY <2>2 DEF Values
    <2> QED BY <2>3, <2>4
<1>10. ASSUME \A i, j \in S : t[i] = t[j] /\ t[i] # NULL => i = j PROVE Distinct(s)
    <2> SUFFICES ASSUME NEW k \in 1 .. c, NEW l \in 1 .. c, s[k] = s[l] PROVE k = l
        BY <1>4 DEF Distinct
    <2>1. PICK i \in V : r[i] = k - 1 /\ s[k] = t[i]
        BY <1>4
    <2>2. PICK j \in V : r[j] = l - 1 /\ s[l] = t[j]
        BY <1>4
    <2>3. i \in S /\ j \in S /\ t[i] = t[j] /\ t[i] # NULL
        BY <1>1, <2>1, <2>2
    <2>4. i = j
        BY <1>10, <2>3
    <2> QED BY <1>2, <2>1, <2>2, <2>4
<1> QED BY <1>7, <1>9, <1>10 DEF Lists

LEMMA FramesUpLemma ==
    ASSUME NEW D \in SUBSET Int, NEW t \in [D -> Frame \cup {NULL}], NEW S \in SUBSET D,
           IsFiniteSet(S)
    PROVE  Lists(FramesUp(t, S), t, S)
<1> DEFINE V == {i \in S : t[i] # NULL}
           r == [i \in V |-> UpRank(V, i)]
           s == FramesUp(t, S)
           nth(k) == CHOOSE i \in V : Cardinality({j \in V : j < i}) = k - 1
<1>1. V \in SUBSET Int /\ IsFiniteSet(V) /\ Cardinality(V) \in Nat
    BY FS_Subset, FS_CardinalityType
<1>2. Numbers(r, V)
    BY <1>1, UpRankNumbers
<1>3. s = [k \in 1 .. Cardinality(V) |-> t[nth(k)]]
    BY DEF FramesUp
<1>4. ASSUME NEW k \in 1 .. Cardinality(V) PROVE nth(k) \in V /\ r[nth(k)] = k - 1
    <2>1. k - 1 \in 0 .. Cardinality(V) - 1
        BY <1>1
    <2>2. \E i \in V : r[i] = k - 1
        BY <1>2, <2>1 DEF Numbers
    <2>3. \E i \in V : Cardinality({j \in V : j < i}) = k - 1
        BY <2>2 DEF UpRank
    <2>4. nth(k) \in V /\ Cardinality({j \in V : j < nth(k)}) = k - 1
        BY <2>3
    <2> QED BY <2>4 DEF UpRank
<1> HIDE DEF r, nth
<1>5. \A k \in DOMAIN s : \E i \in S : t[i] # NULL /\ r[i] = k - 1 /\ s[k] = t[i]
    BY <1>3, <1>4
<1>6. s \in [1 .. Cardinality(V) -> Frame]
    BY <1>3, <1>4
<1> HIDE DEF s
<1>7. Lists(s, t, S)
    BY <1>2, <1>5, <1>6, ListsNumbered
<1> QED BY <1>7 DEF s

LEMMA FramesDownLemma ==
    ASSUME NEW D \in SUBSET Int, NEW t \in [D -> Frame \cup {NULL}], NEW S \in SUBSET D,
           IsFiniteSet(S)
    PROVE  Lists(FramesDown(t, S), t, S)
<1> DEFINE V == {i \in S : t[i] # NULL}
           r == [i \in V |-> DownRank(V, i)]
           s == FramesDown(t, S)
           nth(k) == CHOOSE i \in V : Cardinality({j \in V : j > i}) = k - 1
<1>1. V \in SUBSET Int /\ IsFiniteSet(V) /\ Cardinality(V) \in Nat
    BY FS_Subset, FS_CardinalityType
<1>2. Numbers(r, V)
    BY <1>1, DownRankNumbers
<1>3. s = [k \in 1 .. Cardinality(V) |-> t[nth(k)]]
    BY DEF FramesDown
<1>4. ASSUME NEW k \in 1 .. Cardinality(V) PROVE nth(k) \in V /\ r[nth(k)] = k - 1
    <2>1. k - 1 \in 0 .. Cardinality(V) - 1
        BY <1>1
    <2>2. \E i \in V : r[i] = k - 1
        BY <1>2, <2>1 DEF Numbers
    <2>3. \E i \in V : Cardinality({j \in V : j > i}) = k - 1
        BY <2>2 DEF DownRank
    <2>4. nth(k) \in V /\ Cardinality({j \in V : j > nth(k)}) = k - 1
        BY <2>3
    <2> QED BY <2>4 DEF DownRank
<1> HIDE DEF r, nth
<1>5. \A k \in DOMAIN s : \E i \in S : t[i] # NULL /\ r[i] = k - 1 /\ s[k] = t[i]
    BY <1>3, <1>4
<1>6. s \in [1 .. Cardinality(V) -> Frame]
    BY <1>3, <1>4
<1> HIDE DEF s
<1>7. Lists(s, t, S)
    BY <1>2, <1>5, <1>6, ListsNumbered
<1> QED BY <1>7 DEF s

(* Frames are put at the end of the list.                                  *)
LEMMA ConcatLemma ==
    ASSUME NEW q \in Seq(Frame), NEW s \in Seq(Frame)
    PROVE  /\ q \o s \in Seq(Frame)
           /\ Values(q \o s) = Values(q) \cup Values(s)
           /\ Distinct(q) /\ Distinct(s) /\ Values(q) \cap Values(s) = {} => Distinct(q \o s)
<1> USE KernelHeapAssumption
<1> DEFINE z == q \o s
<1>1. /\ z \in Seq(Frame) /\ DOMAIN z = 1 .. Len(q) + Len(s)
      /\ Len(q) \in Nat /\ Len(s) \in Nat
      /\ DOMAIN q = 1 .. Len(q) /\ DOMAIN s = 1 .. Len(s)
      /\ \A k \in 1 .. Len(q) : z[k] = q[k]
      /\ \A k \in 1 .. Len(s) : z[Len(q) + k] = s[k]
    OBVIOUS
<1> HIDE DEF z
<1>2. \A k \in DOMAIN z : \/ k \in 1 .. Len(q) /\ z[k] = q[k]
                          \/ k - Len(q) \in 1 .. Len(s) /\ z[k] = s[k - Len(q)]
    <2> SUFFICES ASSUME NEW k \in DOMAIN z, k \notin 1 .. Len(q)
                 PROVE  k - Len(q) \in 1 .. Len(s) /\ z[k] = s[k - Len(q)]
        BY <1>1
    <2>1. k - Len(q) \in 1 .. Len(s) /\ Len(q) + (k - Len(q)) = k
        BY <1>1
    <2> QED BY <1>1, <2>1
<1>3. Values(z) = Values(q) \cup Values(s)
    <2>1. Values(z) \subseteq Values(q) \cup Values(s)
        BY <1>2 DEF Values
    <2>2. \A k \in 1 .. Len(q) : k \in DOMAIN z
        BY <1>1
    <2>3. \A k \in 1 .. Len(s) : Len(q) + k \in DOMAIN z
        BY <1>1
    <2>4. Values(q) \subseteq Values(z)
        BY <1>1, <2>2 DEF Values
    <2>5. Values(s) \subseteq Values(z)
        BY <1>1, <2>3 DEF Values
    <2> QED BY <2>1, <2>4, <2>5
<1>4. ASSUME Distinct(q), Distinct(s), Values(q) \cap Values(s) = {} PROVE Distinct(z)
    <2> SUFFICES ASSUME NEW k \in DOMAIN z, NEW l \in DOMAIN z, z[k] = z[l], z[k] # NULL
                 PROVE  k = l
        BY DEF Distinct
    <2>1. \A i \in 1 .. Len(q) : q[i] # NULL => q[i] \in Values(q)
        BY DEF Values
    <2>2. \A i \in 1 .. Len(s) : s[i] # NULL => s[i] \in Values(s)
        BY DEF Values
    <2>3. CASE k \in 1 .. Len(q) /\ l \in 1 .. Len(q) /\ q[k] = q[l] /\ q[k] # NULL
        BY <1>4, <2>3 DEF Distinct
    <2>4. CASE /\ k - Len(q) \in 1 .. Len(s) /\ l - Len(q) \in 1 .. Len(s)
               /\ s[k - Len(q)] = s[l - Len(q)] /\ s[k - Len(q)] # NULL
        <3>1. k - Len(q) = l - Len(q)
            BY <1>4, <2>4 DEF Distinct
        <3> QED BY <1>1, <3>1
    <2> QED BY <1>2, <1>4, <2>1, <2>2, <2>3, <2>4
<1> QED BY <1>1, <1>3, <1>4 DEF z
=============================================================================
