-------------------------- MODULE LinkedListsProofs --------------------------
(***************************************************************************)
(* The linked lists of queue.c and set.c implement a sequence and a set,   *)
(* and the clock trap comes to every member of the set once, for any       *)
(* number of items and nodes and whatever nodes malloc hands out again.    *)
(*                                                                         *)
(* The chain of a list is defined by recursion.  What is needed of it is   *)
(* that it is the only sequence of different nodes that the pointers link  *)
(* from the first to a null pointer; all else is about such sequences.     *)
(***************************************************************************)
EXTENDS LinkedLists, FiniteSetTheorems, SequenceTheorems, TLAPS

(* Entry k of s, or a null pointer beyond its ends.                        *)
At(s, k) == IF k \in 1 .. Len(s) THEN s[k] ELSE NULL

(* The pointers nx link the nodes of s, all different, from n on.          *)
Linked(nx, n, s) ==
    /\ s \in Seq(Node)
    /\ \A i, j \in 1 .. Len(s) : s[i] = s[j] => i = j
    /\ n = At(s, 1)
    /\ \A k \in 1 .. Len(s) : nx[s[k]] = At(s, k + 1)

-----------------------------------------------------------------------------
(* A finite set of integers has a least element: the one with none below.  *)
LEMMA LeastElement ==
    ASSUME NEW V \in SUBSET Int, IsFiniteSet(V), V # {}
    PROVE  \E i \in V : \A j \in V : i <= j
<1> DEFINE B(i) == {j \in V : j < i}
           n == Cardinality(V)
           T == 0 .. n - 1
           r == [i \in V |-> Cardinality(B(i))]
<1>1. \A i \in V : IsFiniteSet(B(i)) /\ Cardinality(B(i)) \in Nat
    BY FS_Subset, FS_CardinalityType
<1>2. ASSUME NEW i \in V, NEW S \in SUBSET V, B(i) \subseteq S, i \in S
      PROVE  Cardinality(B(i)) < Cardinality(S)
    <2>1. IsFiniteSet(S) /\ Cardinality(S) \in Nat
        BY FS_Subset, FS_CardinalityType
    <2>2. i \notin B(i)
        OBVIOUS
    <2>3. /\ Cardinality(B(i)) <= Cardinality(S)
          /\ Cardinality(S) = Cardinality(B(i)) => S = B(i)
        BY <1>2, <2>1, FS_Subset
    <2> QED BY <1>1, <1>2, <2>1, <2>2, <2>3
<1>3. \A i \in V : Cardinality(B(i)) < n
    BY <1>2
<1>4. ASSUME NEW i \in V, NEW j \in V, i < j PROVE Cardinality(B(i)) < Cardinality(B(j))
    <2>1. i \in Int /\ j \in Int /\ \A k \in V : k \in Int /\ (k < i => k < j)
        BY <1>4
    <2>2. B(i) \subseteq B(j) /\ i \in B(j) /\ B(j) \in SUBSET V
        BY <1>4, <2>1
    <2> QED BY <1>2, <2>2
<1>5. n \in Nat /\ n # 0
    BY FS_CardinalityType, FS_EmptySet
<1>6. IsFiniteSet(T) /\ Cardinality(T) = n
    BY <1>5, FS_Interval, SMTT(60)
<1>7. \A i, j \in V : Cardinality(B(i)) = Cardinality(B(j)) => i = j
    <2> SUFFICES ASSUME NEW i \in V, NEW j \in V, i # j
                 PROVE  Cardinality(B(i)) # Cardinality(B(j))
        OBVIOUS
    <2>1. i < j \/ j < i
        OBVIOUS
    <2> QED BY <1>1, <1>4, <2>1
<1>8. r \in Injection(V, T)
    <2>1. r \in [V -> T]
        BY <1>1, <1>3, <1>5
    <2> QED BY <1>7, <2>1 DEF Injection, IsInjective
<1>9. r \in Surjection(V, T)
    <2> HIDE DEF T, r
    <2> QED BY <1>6, <1>8, FS_Injection
<1>10. PICK i \in V : Cardinality(B(i)) = 0
    <2>1. 0 \in T
        BY <1>5
    <2> QED BY <1>9, <2>1 DEF Surjection
<1>11. B(i) = {}
    BY <1>1, <1>10, FS_EmptySet
<1>12. \A j \in V : ~(j < i)
    BY <1>11
<1> QED BY <1>12

(* The recursive function behind Chain.                                    *)
Follows(f, h, n) ==
    f = [k \in 0 .. Cardinality(Node) + 1 |->
            IF k = 0 THEN n ELSE IF f[k - 1] = NULL THEN NULL ELSE h.next[f[k - 1]]]

(* What Chain computes, given that some function satisfies its recursion.  *)
LEMMA ChainIs ==
    ASSUME NEW h, NEW n, NEW g, Follows(g, h, n)
    PROVE  \E f : /\ Follows(f, h, n)
                  /\ Chain(h, n) =
                       [k \in 1 .. Cardinality({j \in 0 .. Cardinality(Node) + 1 : f[j] # NULL})
                            |-> f[k - 1]]
<1> DEFINE f == CHOOSE a : Follows(a, h, n)
<1>1. Follows(f, h, n)
    BY Zenon
<1>2. Chain(h, n) =
        [k \in 1 .. Cardinality({j \in 0 .. Cardinality(Node) + 1 : f[j] # NULL}) |-> f[k - 1]]
    BY DEF Chain, Follows
<1> QED BY <1>1, <1>2

(* A sequence of different nodes is no longer than there are nodes.        *)
LEMMA DifferentNodes ==
    ASSUME NEW s \in Seq(Node), \A i, j \in 1 .. Len(s) : s[i] = s[j] => i = j
    PROVE  /\ Len(s) \in 0 .. Cardinality(Node) /\ Cardinality(Node) \in Nat
           /\ IsFiniteSet(Range(s)) /\ Cardinality(Range(s)) = Len(s)
<1> DEFINE m == Len(s)
<1>1. m \in Nat /\ DOMAIN s = 1 .. m
    OBVIOUS
<1>2. s \in Injection(1 .. m, Node) /\ s \in Bijection(1 .. m, Range(s))
    BY <1>1 DEF Injection, Bijection, Surjection, IsInjective, Range
<1> HIDE DEF m
<1>3. IsFiniteSet(1 .. m) /\ Cardinality(1 .. m) = m
    <2>1. Cardinality(1 .. m) = IF 1 > m THEN 0 ELSE m - 1 + 1
        BY <1>1, FS_Interval
    <2> QED BY <1>1, <2>1, FS_Interval
<1>4. Cardinality(Node) \in Nat
    BY LinkedListsAssumption, FS_CardinalityType
<1>5. m <= Cardinality(Node)
    BY <1>2, <1>3, LinkedListsAssumption, FS_Injection
<1>6. ExistsBijection(1 .. m, Range(s))
    BY <1>2 DEF ExistsBijection
<1>7. IsFiniteSet(Range(s)) /\ Cardinality(Range(s)) = m
    BY <1>3, <1>6, FS_Bijection
<1> QED BY <1>1, <1>4, <1>5, <1>7 DEF m

(* The chain from n on is the sequence of different nodes that the         *)
(* pointers link: there is no other.                                       *)
LEMMA ChainLinked ==
    ASSUME NEW h, NEW n, NEW s, Linked(h.next, n, s)
    PROVE  Chain(h, n) = s
<1> USE LinkedListsAssumption
<1> DEFINE N == Cardinality(Node)
           m == Len(s)
           D == 0 .. N + 1
           g == [k \in D |-> At(s, k + 1)]
<1>1. /\ s \in Seq(Node) /\ n = At(s, 1) /\ m \in Nat
      /\ \A k \in 1 .. m : h.next[s[k]] = At(s, k + 1)
    BY DEF Linked
<1>2. m \in 0 .. N /\ N \in Nat
    BY DifferentNodes DEF Linked
<1>3. \A k \in 1 .. m : s[k] \in Node /\ s[k] # NULL
    BY <1>1
<1> HIDE DEF N, m
<1>4. \A k \in D \ {0} : At(s, k + 1) = IF At(s, k) = NULL THEN NULL ELSE h.next[At(s, k)]
    <2> SUFFICES ASSUME NEW k \in D \ {0}
                 PROVE  At(s, k + 1) = IF At(s, k) = NULL THEN NULL ELSE h.next[At(s, k)]
        OBVIOUS
    <2>1. k \in Nat /\ k >= 1
        BY <1>2
    <2>2. CASE k <= m
        <3>1. At(s, k) = s[k] /\ k \in 1 .. m
            BY <1>2, <2>1, <2>2 DEF At, m
        <3> QED BY <1>1, <1>3, <3>1
    <2>3. CASE k > m
        BY <1>2, <2>1, <2>3 DEF At, m
    <2> QED BY <1>2, <2>1, <2>2, <2>3
<1>5. Follows(g, h, n)
    <2>1. \A k \in D : g[k] = At(s, k + 1)
        OBVIOUS
    <2>2. \A k \in D \ {0} : k - 1 \in D /\ g[k - 1] = At(s, k)
        BY <1>2
    <2>3. 0 \in D /\ g[0] = n
        BY <1>1, <1>2
    <2>4. \A k \in D : g[k] = IF k = 0 THEN n
                              ELSE IF g[k - 1] = NULL THEN NULL ELSE h.next[g[k - 1]]
        BY <1>4, <2>1, <2>2, <2>3
    <2>5. g = [k \in D |-> g[k]]
        OBVIOUS
    <2> HIDE DEF g
    <2> QED BY <2>4, <2>5 DEF Follows, N
<1>6. PICK f : /\ Follows(f, h, n)
               /\ Chain(h, n) = [k \in 1 .. Cardinality({j \in D : f[j] # NULL}) |-> f[k - 1]]
    BY <1>5, ChainIs DEF N
<1>7. \A k \in D : f[k] = At(s, k + 1)
    <2> DEFINE V == {k \in D : f[k] # At(s, k + 1)}
    <2> SUFFICES ASSUME V # {} PROVE FALSE
        OBVIOUS
    <2>1. V \in SUBSET Int /\ IsFiniteSet(V)
        <3>1. IsFiniteSet(D) /\ D \in SUBSET Int
            BY <1>2, FS_Interval
        <3>2. V \in SUBSET D
            OBVIOUS
        <3> HIDE DEF V, D
        <3>3. IsFiniteSet(V)
            BY <3>1, <3>2, FS_Subset
        <3> QED BY <3>1, <3>2, <3>3
    <2>2. PICK k \in V : \A j \in V : k <= j
        <3> HIDE DEF V
        <3> QED BY <2>1, LeastElement
    <2>3. \A i \in D : f[i] = IF i = 0 THEN n
                              ELSE IF f[i - 1] = NULL THEN NULL ELSE h.next[f[i - 1]]
        BY <1>6 DEF Follows, N
    <2>4. CASE k = 0
        BY <1>1, <2>2, <2>3, <2>4
    <2>5. CASE k # 0
        <3>1. k - 1 \in D /\ k \in D \ {0} /\ ~(k <= k - 1)
            BY <1>2, <2>2, <2>5
        <3>2. f[k - 1] = At(s, k)
            <4>1. k - 1 \notin V
                BY <2>2, <3>1
            <4>2. f[k - 1] = At(s, (k - 1) + 1)
                BY <3>1, <4>1
            <4> QED BY <3>1, <4>2
        <3>3. f[k] = At(s, k + 1)
            BY <1>4, <2>3, <3>1, <3>2
        <3> QED BY <2>2, <3>3
    <2> QED BY <2>4, <2>5
<1>8. {j \in D : f[j] # NULL} = 0 .. m - 1
    <2>1. \A j \in D : f[j] # NULL <=> j + 1 \in 1 .. m
        BY <1>3, <1>7 DEF At, m
    <2> QED BY <1>2, <2>1
<1>9. Cardinality(0 .. m - 1) = m
    <2>1. Cardinality(0 .. m - 1) = IF 0 > m - 1 THEN 0 ELSE (m - 1) - 0 + 1
        BY <1>2, FS_Interval
    <2> QED BY <1>2, <2>1
<1>10. Chain(h, n) = [k \in 1 .. m |-> f[k - 1]]
    BY <1>6, <1>8, <1>9
<1>11. \A k \in 1 .. m : f[k - 1] = s[k]
    <2> SUFFICES ASSUME NEW k \in 1 .. m PROVE f[k - 1] = s[k]
        OBVIOUS
    <2>1. k - 1 \in D /\ (k - 1) + 1 = k
        BY <1>2
    <2> QED BY <1>7, <2>1 DEF At, m
<1>12. s = [k \in 1 .. m |-> s[k]]
    BY <1>1 DEF m
<1> QED BY <1>10, <1>11, <1>12

-----------------------------------------------------------------------------
(* Lists and what changes them                                             *)

HeapType ==
    [item : [Node -> Item \cup {NULL}], next : [Node -> Pointer],
     used : SUBSET Node,
     front : Pointer, rear : Pointer, count : 0 .. Cardinality(Node),
     head : Pointer, node_count : 0 .. Cardinality(Node)]

(* The queue of h consists of the nodes q, the set of the nodes s.         *)
QueueOK(h, q) ==
    /\ Linked(h.next, h.front, q)
    /\ h.rear = At(q, Len(q))
    /\ h.count = Len(q)

SetOK(h, s) ==
    /\ Linked(h.next, h.head, s)
    /\ h.node_count = Len(s)
    /\ \A k \in 1 .. Len(s) : h.item[s[k]] \in Item
    /\ \A i, j \in 1 .. Len(s) : h.item[s[i]] = h.item[s[j]] => i = j

(* The nodes of M have in g what they have in h.                           *)
Same(h, g, M) == \A m \in M : g.next[m] = h.next[m] /\ g.item[m] = h.item[m]

(* A list stays one if the pointers of its nodes stay.                     *)
LEMMA LinkedSame ==
    ASSUME NEW nx, NEW ny, NEW n, NEW s, Linked(nx, n, s), \A m \in Range(s) : ny[m] = nx[m]
    PROVE  Linked(ny, n, s)
<1>1. \A k \in 1 .. Len(s) : s[k] \in Range(s)
    BY DEF Linked, Range
<1> QED BY <1>1 DEF Linked

LEMMA QueueSame ==
    ASSUME NEW h, NEW g, NEW q, QueueOK(h, q), Same(h, g, Range(q)),
           g.front = h.front, g.rear = h.rear, g.count = h.count
    PROVE  QueueOK(g, q)
<1>1. Linked(g.next, h.front, q)
    BY LinkedSame DEF QueueOK, Same
<1> QED BY <1>1 DEF QueueOK

LEMMA SetSame ==
    ASSUME NEW h, NEW g, NEW s, SetOK(h, s), Same(h, g, Range(s)),
           g.head = h.head, g.node_count = h.node_count
    PROVE  SetOK(g, s)
<1>1. Linked(g.next, h.head, s)
    BY LinkedSame DEF SetOK, Same
<1>2. \A k \in 1 .. Len(s) : s[k] \in Range(s)
    BY DEF SetOK, Linked, Range
<1> QED BY <1>1, <1>2 DEF SetOK, Same

(* The rest of a list is a list.                                           *)
LEMMA LinkedFrom ==
    ASSUME NEW nx, NEW n, NEW s, Linked(nx, n, s), NEW j \in 1 .. Len(s)
    PROVE  /\ Linked(nx, s[j], SubSeq(s, j, Len(s)))
           /\ Range(SubSeq(s, j, Len(s))) = {s[i] : i \in j .. Len(s)}
<1> DEFINE m == Len(s)
           t == SubSeq(s, j, m)
<1>1. /\ s \in Seq(Node) /\ m \in Nat /\ j \in 1 .. m
      /\ \A i, k \in 1 .. m : s[i] = s[k] => i = k
      /\ \A k \in 1 .. m : nx[s[k]] = At(s, k + 1)
    BY DEF Linked
<1>2. t \in Seq(Node) /\ Len(t) = m - j + 1 /\ \A k \in 1 .. m - j + 1 : t[k] = s[j + k - 1]
    BY <1>1
<1> HIDE DEF t
<1>3. \A k \in 1 .. m - j + 1 : j + k - 1 \in 1 .. m
    BY <1>1
<1>4. \A i, k \in 1 .. Len(t) : t[i] = t[k] => i = k
    <2> SUFFICES ASSUME NEW i \in 1 .. m - j + 1, NEW k \in 1 .. m - j + 1, t[i] = t[k]
                 PROVE  i = k
        BY <1>2
    <2>1. j + i - 1 = j + k - 1
        BY <1>1, <1>2, <1>3, SMTT(60)
    <2> QED BY <1>1, <2>1
<1>5. s[j] = At(t, 1)
    BY <1>1, <1>2 DEF At
<1>6. \A k \in 1 .. Len(t) : nx[t[k]] = At(t, k + 1)
    <2> SUFFICES ASSUME NEW k \in 1 .. m - j + 1 PROVE nx[t[k]] = At(t, k + 1)
        BY <1>2
    <2>1. nx[t[k]] = At(s, j + k)
        <3>1. (j + k - 1) + 1 = j + k
            BY <1>1
        <3> QED BY <1>1, <1>2, <1>3, <3>1
    <2>2. CASE k = m - j + 1
        BY <1>1, <1>2, <2>1, <2>2 DEF At
    <2>3. CASE k < m - j + 1
        <3>1. k + 1 \in 1 .. m - j + 1 /\ j + (k + 1) - 1 = j + k /\ j + k \in 1 .. m
            BY <1>1, <2>3
        <3> QED BY <1>2, <2>1, <3>1 DEF At
    <2> QED BY <1>1, <2>2, <2>3
<1>7. Range(t) = {s[i] : i \in j .. m}
    <2>1. DOMAIN t = 1 .. m - j + 1
        BY <1>2
    <2> DEFINE D == 1 .. m - j + 1
               J == j .. m
    <2>2. \A k \in 1 .. m - j + 1 : j + k - 1 \in j .. m /\ t[k] = s[j + k - 1]
        BY <1>1, <1>2
    <2>3. \A i \in j .. m : i - j + 1 \in 1 .. m - j + 1 /\ t[i - j + 1] = s[i]
        <3> SUFFICES ASSUME NEW i \in j .. m
                     PROVE i - j + 1 \in 1 .. m - j + 1 /\ t[i - j + 1] = s[i]
            OBVIOUS
        <3>1. i - j + 1 \in 1 .. m - j + 1 /\ j + (i - j + 1) - 1 = i
            BY <1>1
        <3> QED BY <1>2, <3>1
    <2>4. /\ \A k \in D : \E i \in J : t[k] = s[i]
          /\ \A i \in J : \E k \in D : t[k] = s[i]
        BY <2>2, <2>3
    <2>5. Range(t) = {t[k] : k \in D}
        BY <2>1, Zenon DEF Range
    <2> HIDE DEF D, J
    <2>6. Range(t) = {s[i] : i \in J}
        BY <2>4, <2>5
    <2> QED BY <2>6 DEF J
<1> QED BY <1>2, <1>4, <1>5, <1>6, <1>7 DEF Linked, t

-----------------------------------------------------------------------------
(* queue.c                                                                 *)

(* queue_push appends the node n, and touches no node but n and the last.  *)
LEMMA PushRight ==
    ASSUME NEW h \in HeapType, NEW q, QueueOK(h, q), NEW x \in Item,
           NEW n \in Node \ Range(q), NEW g, g = queue_push(h, x, n)
    PROVE  /\ g \in HeapType /\ QueueOK(g, Append(q, n))
           /\ g.used = h.used \cup {n} /\ g.head = h.head /\ g.node_count = h.node_count
           /\ Same(h, g, Node \ (Range(q) \cup {n}))
           /\ \A m \in Node : g.item[m] = IF m = n THEN x ELSE h.item[m]
<1> USE LinkedListsAssumption
<1> DEFINE m == Len(q)
           z == Append(q, n)
<1>1. /\ q \in Seq(Node) /\ m \in Nat /\ h.front = At(q, 1) /\ h.rear = At(q, m) /\ h.count = m
      /\ \A i, j \in 1 .. m : q[i] = q[j] => i = j
      /\ \A k \in 1 .. m : h.next[q[k]] = At(q, k + 1)
    BY DEF QueueOK, Linked
<1>2. /\ z \in Seq(Node) /\ Len(z) = m + 1 /\ z[m + 1] = n
      /\ \A k \in 1 .. m : z[k] = q[k]
    BY <1>1
<1>3. /\ h.next \in [Node -> Pointer] /\ h.item \in [Node -> Item \cup {NULL}]
      /\ h.used \in SUBSET Node /\ h.head \in Pointer /\ h.front \in Pointer
      /\ h.node_count \in 0 .. Cardinality(Node)
    BY DEF HeapType
<1>4. \A k \in 1 .. m : q[k] \in Range(q) /\ q[k] \in Node /\ q[k] # n
    BY <1>1 DEF Range
<1>5. /\ h.rear = NULL <=> m = 0
      /\ h.rear # NULL => h.rear = q[m] /\ m \in 1 .. m /\ h.rear \in Node
    BY <1>1, <1>4 DEF At
<1>6. /\ g.next = IF h.rear = NULL THEN [h.next EXCEPT ![n] = NULL]
                  ELSE [[h.next EXCEPT ![n] = NULL] EXCEPT ![h.rear] = n]
      /\ g.item = [h.item EXCEPT ![n] = x]
      /\ g.used = h.used \cup {n}
      /\ g.front = (IF h.rear = NULL THEN n ELSE h.front) /\ g.rear = n /\ g.count = h.count + 1
      /\ g.head = h.head /\ g.node_count = h.node_count
    BY DEF queue_push, HeapType
<1>7. /\ g.next \in [Node -> Pointer]
      /\ \A k \in Node : g.next[k] = IF h.rear # NULL /\ k = h.rear THEN n
                                     ELSE IF k = n THEN NULL ELSE h.next[k]
    BY <1>3, <1>5, <1>6 DEF Pointer
<1>8. /\ g.item \in [Node -> Item \cup {NULL}]
      /\ \A k \in Node : g.item[k] = IF k = n THEN x ELSE h.item[k]
    BY <1>3, <1>6
<1> HIDE DEF z
<1>9. \A i, j \in 1 .. Len(z) : z[i] = z[j] => i = j
    <2> SUFFICES ASSUME NEW i \in 1 .. m + 1, NEW j \in 1 .. m + 1, z[i] = z[j] PROVE i = j
        BY <1>2
    <2>1. (i \in 1 .. m \/ i = m + 1) /\ (j \in 1 .. m \/ j = m + 1)
        BY <1>1
    <2> QED BY <1>1, <1>2, <1>4, <2>1
<1>10. g.front = At(z, 1)
    <2>1. CASE m = 0
        BY <1>1, <1>2, <1>5, <1>6, <2>1 DEF At
    <2>2. CASE m # 0
        <3>1. 1 \in 1 .. m /\ 1 \in 1 .. m + 1
            BY <1>1, <2>2
        <3> QED BY <1>1, <1>2, <1>5, <1>6, <2>2, <3>1 DEF At
    <2> QED BY <2>1, <2>2
<1>11. \A k \in 1 .. Len(z) : g.next[z[k]] = At(z, k + 1)
    <2> SUFFICES ASSUME NEW k \in 1 .. m + 1 PROVE g.next[z[k]] = At(z, k + 1)
        BY <1>2
    <2>1. CASE k = m + 1
        <3>1. g.next[n] = NULL
            BY <1>4, <1>5, <1>7
        <3>2. k + 1 \notin 1 .. m + 1
            BY <1>1, <2>1
        <3> QED BY <1>2, <2>1, <3>1, <3>2 DEF At
    <2>2. CASE k = m
        <3>1. k \in 1 .. m /\ k + 1 \in 1 .. m + 1 /\ m # 0
            BY <1>1, <2>2
        <3>2. g.next[q[k]] = n
            BY <1>4, <1>5, <1>7, <2>2, <3>1
        <3> QED BY <1>2, <2>2, <3>1, <3>2 DEF At
    <2>3. CASE k < m
        <3>1. k \in 1 .. m /\ k + 1 \in 1 .. m + 1 /\ k + 1 \in 1 .. m /\ k # m /\ m \in 1 .. m
            BY <1>1, <2>3
        <3>2. q[k] # n /\ q[k] # q[m] /\ q[k] \in Node
            BY <1>1, <1>4, <3>1
        <3>3. g.next[q[k]] = h.next[q[k]]
            BY <1>5, <1>7, <3>2
        <3> QED BY <1>1, <1>2, <3>1, <3>3 DEF At
    <2> QED BY <1>1, <2>1, <2>2, <2>3
<1>12. Linked(g.next, g.front, z)
    BY <1>2, <1>9, <1>10, <1>11 DEF Linked
<1>13. Len(z) \in 0 .. Cardinality(Node)
    BY <1>2, <1>9, DifferentNodes
<1>14. QueueOK(g, z)
    BY <1>1, <1>2, <1>6, <1>12 DEF QueueOK, At
<1>15. g \in HeapType
    <2>1. g.front \in Pointer /\ g.rear \in Pointer /\ g.count \in 0 .. Cardinality(Node)
        BY <1>1, <1>2, <1>3, <1>6, <1>13 DEF Pointer
    <2>2. g.used \in SUBSET Node /\ g.head \in Pointer /\ g.node_count \in 0 .. Cardinality(Node)
        BY <1>3, <1>6
    <2>3. g = [item |-> g.item, next |-> g.next, used |-> g.used, front |-> g.front,
               rear |-> g.rear, count |-> g.count, head |-> g.head, node_count |-> g.node_count]
        BY DEF queue_push, HeapType
    <2> QED BY <1>7, <1>8, <2>1, <2>2, <2>3 DEF HeapType
<1>16. Same(h, g, Node \ (Range(q) \cup {n}))
    BY <1>4, <1>5, <1>7, <1>8 DEF Same
<1> QED BY <1>6, <1>8, <1>14, <1>15, <1>16 DEF z

(* queue_pop takes the first node off, and with the only one the rear.     *)
LEMMA PopRight ==
    ASSUME NEW h \in HeapType, NEW q, QueueOK(h, q), NEW g, g = queue_pop(h)
    PROVE  /\ q = <<>> => g = h
           /\ q # <<>> => /\ g \in HeapType /\ QueueOK(g, Tail(q))
                          /\ g.used = h.used \ {q[1]} /\ q[1] \in Node
                          /\ Range(Tail(q)) = Range(q) \ {q[1]} /\ q[1] \in Range(q)
                          /\ g.head = h.head /\ g.node_count = h.node_count
                          /\ g.next = h.next /\ g.item = h.item
<1> USE LinkedListsAssumption
<1> DEFINE m == Len(q)
           z == Tail(q)
<1>1. /\ q \in Seq(Node) /\ m \in Nat /\ h.front = At(q, 1) /\ h.rear = At(q, m) /\ h.count = m
      /\ \A i, j \in 1 .. m : q[i] = q[j] => i = j
      /\ \A k \in 1 .. m : h.next[q[k]] = At(q, k + 1)
    BY DEF QueueOK, Linked
<1>2. CASE q = <<>>
    <2>1. h.front = NULL
        BY <1>1, <1>2 DEF At
    <2> QED BY <1>2, <2>1 DEF queue_pop
<1>3. CASE q # <<>>
    <2>1. /\ m >= 1 /\ 1 \in 1 .. m /\ m \in 1 .. m
          /\ z \in Seq(Node) /\ Len(z) = m - 1 /\ \A k \in 1 .. m - 1 : z[k] = q[k + 1]
        BY <1>1, <1>3
    <2>2. h.front = q[1] /\ q[1] \in Node /\ h.rear = q[m] /\ h.next[q[1]] = At(q, 2)
        BY <1>1, <2>1 DEF At
    <2>3. /\ g.front = At(q, 2) /\ g.rear = (IF At(q, 2) = NULL THEN NULL ELSE h.rear)
          /\ g.used = h.used \ {q[1]} /\ g.count = h.count - 1
          /\ g.head = h.head /\ g.node_count = h.node_count
          /\ g.next = h.next /\ g.item = h.item
        BY <2>2 DEF queue_pop, HeapType
    <2> HIDE DEF z
    <2>4. \A k \in 1 .. m : q[k] \in Node
        BY <1>1
    <2>5. \A k \in Nat : k >= 1 => At(q, k + 1) = At(z, k)
        <3> SUFFICES ASSUME NEW k \in Nat, k >= 1 PROVE At(q, k + 1) = At(z, k)
            OBVIOUS
        <3>1. k + 1 \in 1 .. m <=> k \in 1 .. m - 1
            BY <1>1
        <3> QED BY <2>1, <3>1 DEF At
    <2>6. \A i, j \in 1 .. Len(z) : z[i] = z[j] => i = j
        <3> SUFFICES ASSUME NEW i \in 1 .. m - 1, NEW j \in 1 .. m - 1, z[i] = z[j] PROVE i = j
            BY <2>1
        <3>1. i + 1 \in 1 .. m /\ j + 1 \in 1 .. m /\ q[i + 1] = q[j + 1]
            BY <1>1, <2>1
        <3>2. i + 1 = j + 1
            BY <1>1, <3>1
        <3> QED BY <3>2
    <2>7. \A k \in 1 .. Len(z) : g.next[z[k]] = At(z, k + 1)
        <3> SUFFICES ASSUME NEW k \in 1 .. m - 1 PROVE h.next[z[k]] = At(z, k + 1)
            BY <2>1, <2>3
        <3>1. k + 1 \in 1 .. m /\ k + 1 \in Nat /\ k + 1 >= 1
            BY <1>1
        <3>2. h.next[q[k + 1]] = At(q, (k + 1) + 1)
            BY <1>1, <3>1
        <3>3. At(q, (k + 1) + 1) = At(z, k + 1)
            BY <2>5, <3>1
        <3> QED BY <2>1, <3>2, <3>3
    <2>8. g.front = At(z, 1)
        BY <2>3, <2>5
    <2>9. Linked(g.next, g.front, z)
        BY <2>1, <2>6, <2>7, <2>8 DEF Linked
    <2>10. g.rear = At(z, Len(z))
        <3>1. CASE m = 1
            <4>1. 2 \notin 1 .. m /\ ~(m - 1 \in 1 .. m - 1)
                BY <3>1
            <4> QED BY <2>1, <2>3, <4>1 DEF At
        <3>2. CASE m > 1
            <4>1. 2 \in 1 .. m /\ m - 1 \in 1 .. m - 1 /\ (m - 1) + 1 = m
                BY <1>1, <3>2
            <4>2. At(q, 2) # NULL
                BY <2>4, <4>1 DEF At
            <4>3. z[m - 1] = q[m]
                BY <2>1, <4>1
            <4> QED BY <2>1, <2>2, <2>3, <4>1, <4>2, <4>3 DEF At
        <3> QED BY <1>1, <2>1, <3>1, <3>2
    <2>11. QueueOK(g, z)
        BY <1>1, <2>1, <2>3, <2>9, <2>10 DEF QueueOK
    <2>12. Len(z) \in 0 .. Cardinality(Node)
        BY <2>1, <2>6, DifferentNodes
    <2>13. g \in HeapType
        <3>1. /\ h.next \in [Node -> Pointer] /\ h.item \in [Node -> Item \cup {NULL}]
              /\ h.used \in SUBSET Node /\ h.head \in Pointer /\ h.rear \in Pointer
              /\ h.node_count \in 0 .. Cardinality(Node)
            BY DEF HeapType
        <3>2. /\ g.front \in Pointer /\ g.rear \in Pointer /\ g.count \in 0 .. Cardinality(Node)
              /\ g.used \in SUBSET Node
            BY <1>1, <2>1, <2>2, <2>3, <2>4, <2>12, <3>1 DEF Pointer, At
        <3>3. g = [item |-> g.item, next |-> g.next, used |-> g.used, front |-> g.front,
                   rear |-> g.rear, count |-> g.count, head |-> g.head,
                   node_count |-> g.node_count]
            BY <2>2 DEF queue_pop, HeapType
        <3> QED BY <2>3, <3>1, <3>2, <3>3 DEF HeapType
    <2>14. Range(z) = Range(q) \ {q[1]} /\ q[1] \in Range(q)
        <3> DEFINE D == 1 .. m
                   E == 1 .. m - 1
        <3>1. DOMAIN q = D /\ DOMAIN z = E
            BY <1>1, <2>1
        <3>2. Range(q) = {q[k] : k \in D} /\ Range(z) = {z[k] : k \in E}
            BY <3>1, Zenon DEF Range
        <3>3. \A k \in E : \E i \in D : z[k] = q[i] /\ i # 1
            <4> SUFFICES ASSUME NEW k \in E PROVE k + 1 \in D /\ z[k] = q[k + 1] /\ k + 1 # 1
                OBVIOUS
            <4> QED BY <1>1, <2>1
        <3>4. \A i \in D : i # 1 => \E k \in E : z[k] = q[i]
            <4> SUFFICES ASSUME NEW i \in D, i # 1 PROVE i - 1 \in E /\ z[i - 1] = q[i]
                OBVIOUS
            <4>1. i - 1 \in E /\ (i - 1) + 1 = i
                BY <1>1
            <4> QED BY <2>1, <4>1
        <3>5. \A i \in D : q[i] = q[1] => i = 1
            BY <1>1, <2>1
        <3>6. 1 \in D
            BY <2>1
        <3> HIDE DEF D, E
        <3> QED BY <3>2, <3>3, <3>4, <3>5, <3>6
    <2> QED BY <1>3, <2>2, <2>3, <2>11, <2>13, <2>14 DEF z
<1> QED BY <1>2, <1>3

-----------------------------------------------------------------------------
(* set.c                                                                   *)

(* set_find returns the node with key x, or none if there is none.         *)
LEMMA FindRight ==
    ASSUME NEW h, NEW s, SetOK(h, s), NEW x
    PROVE  /\ \A k \in 1 .. Len(s) : h.item[s[k]] = x => set_find(h, x) = s[k] /\ s[k] # NULL
           /\ (\A k \in 1 .. Len(s) : h.item[s[k]] # x) => set_find(h, x) = NULL
<1> USE LinkedListsAssumption
<1> DEFINE found == {k \in 1 .. Len(s) : h.item[s[k]] = x}
<1>1. /\ s \in Seq(Node) /\ Chain(h, h.head) = s /\ DOMAIN s = 1 .. Len(s)
      /\ \A i, j \in 1 .. Len(s) : h.item[s[i]] = h.item[s[j]] => i = j
    <2>1. Linked(h.next, h.head, s)
        BY DEF SetOK
    <2>2. Chain(h, h.head) = s
        BY <2>1, ChainLinked
    <2>3. s \in Seq(Node)
        BY <2>1 DEF Linked
    <2> QED BY <2>2, <2>3 DEF SetOK
<1>2. set_find(h, x) = IF found = {} THEN NULL ELSE s[Min(found)]
    BY <1>1 DEF set_find
<1>3. ASSUME NEW k \in 1 .. Len(s), h.item[s[k]] = x
      PROVE  set_find(h, x) = s[k] /\ s[k] # NULL
    <2>1. found = {k}
        BY <1>1, <1>3
    <2>2. Min({k}) = k
        <3>1. k \in Int
            BY <1>1
        <3> QED BY <3>1 DEF Min
    <2>3. s[k] \in Node
        BY <1>1
    <2> QED BY <1>2, <2>1, <2>2, <2>3
<1> QED BY <1>2, <1>3

(* set_insert puts a key that is not there in front, in the node n.        *)
LEMMA InsertRight ==
    ASSUME NEW h \in HeapType, NEW s, SetOK(h, s), NEW x \in Item,
           \A k \in 1 .. Len(s) : h.item[s[k]] # x,
           NEW n \in Node \ Range(s), NEW g, g = set_insert(h, x, n)
    PROVE  /\ g \in HeapType /\ SetOK(g, Cons(n, s))
           /\ g.used = h.used \cup {n}
           /\ g.front = h.front /\ g.rear = h.rear /\ g.count = h.count
           /\ Same(h, g, Node \ {n})
           /\ Range(Cons(n, s)) = Range(s) \cup {n}
           /\ g.item[n] = x
<1> USE LinkedListsAssumption
<1> DEFINE m == Len(s)
           z == Cons(n, s)
<1>1. /\ s \in Seq(Node) /\ m \in Nat /\ h.head = At(s, 1) /\ h.node_count = m
      /\ \A i, j \in 1 .. m : s[i] = s[j] => i = j
      /\ \A k \in 1 .. m : h.next[s[k]] = At(s, k + 1)
      /\ \A k \in 1 .. m : h.item[s[k]] \in Item
      /\ \A i, j \in 1 .. m : h.item[s[i]] = h.item[s[j]] => i = j
    BY DEF SetOK, Linked
<1>2. /\ z \in Seq(Node) /\ Len(z) = m + 1 /\ z[1] = n
      /\ \A k \in 1 .. m : z[k + 1] = s[k]
    BY <1>1 DEF Cons
<1>3. /\ h.next \in [Node -> Pointer] /\ h.item \in [Node -> Item \cup {NULL}]
      /\ h.used \in SUBSET Node /\ h.front \in Pointer /\ h.rear \in Pointer
      /\ h.count \in 0 .. Cardinality(Node) /\ h.head \in Pointer
    BY DEF HeapType
<1>4. \A k \in 1 .. m : s[k] \in Range(s) /\ s[k] \in Node /\ s[k] # n
    BY <1>1 DEF Range
<1>5. set_find(h, x) = NULL
    BY FindRight
<1>6. /\ g.next = [h.next EXCEPT ![n] = h.head] /\ g.item = [h.item EXCEPT ![n] = x]
      /\ g.used = h.used \cup {n} /\ g.head = n /\ g.node_count = h.node_count + 1
      /\ g.front = h.front /\ g.rear = h.rear /\ g.count = h.count
    BY <1>5 DEF set_insert, HeapType
<1>7. /\ g.next \in [Node -> Pointer] /\ g.item \in [Node -> Item \cup {NULL}]
      /\ \A k \in Node : /\ g.next[k] = IF k = n THEN h.head ELSE h.next[k]
                         /\ g.item[k] = IF k = n THEN x ELSE h.item[k]
    BY <1>3, <1>6
<1> HIDE DEF z
<1>8. \A k \in 1 .. m + 1 : k = 1 \/ (k - 1 \in 1 .. m /\ z[k] = s[k - 1])
    <2> SUFFICES ASSUME NEW k \in 1 .. m + 1, k # 1
                 PROVE  k - 1 \in 1 .. m /\ z[k] = s[k - 1]
        OBVIOUS
    <2>1. k - 1 \in 1 .. m /\ (k - 1) + 1 = k
        BY <1>1
    <2> QED BY <1>2, <2>1
<1>9. \A i, j \in 1 .. Len(z) : z[i] = z[j] => i = j
    <2> SUFFICES ASSUME NEW i \in 1 .. m + 1, NEW j \in 1 .. m + 1, z[i] = z[j] PROVE i = j
        BY <1>2
    <2>1. CASE i # 1 /\ j # 1
        <3>1. i - 1 = j - 1
            BY <1>1, <1>8, <2>1
        <3> QED BY <1>1, <3>1
    <2> QED BY <1>2, <1>4, <1>8, <2>1
<1>10. \A k \in 1 .. m + 1 : At(s, k) = At(z, k + 1)
    <2> SUFFICES ASSUME NEW k \in 1 .. m + 1 PROVE At(s, k) = At(z, k + 1)
        OBVIOUS
    <2>1. k \in 1 .. m <=> k + 1 \in 1 .. m + 1
        BY <1>1
    <2> QED BY <1>2, <2>1 DEF At
<1>11. \A k \in 1 .. Len(z) : g.next[z[k]] = At(z, k + 1)
    <2> SUFFICES ASSUME NEW k \in 1 .. m + 1 PROVE g.next[z[k]] = At(z, k + 1)
        BY <1>2
    <2>1. CASE k = 1
        BY <1>1, <1>2, <1>7, <1>10, <2>1
    <2>2. CASE k # 1
        <3>1. k - 1 \in 1 .. m /\ z[k] = s[k - 1] /\ (k - 1) + 1 = k
            BY <1>1, <1>8, <2>2
        <3>2. h.next[s[k - 1]] = At(s, k)
            BY <1>1, <3>1
        <3> QED BY <1>4, <1>7, <1>10, <3>1, <3>2
    <2> QED BY <2>1, <2>2
<1>12. g.head = At(z, 1)
    BY <1>1, <1>2, <1>6 DEF At
<1>13. Linked(g.next, g.head, z)
    BY <1>2, <1>9, <1>11, <1>12 DEF Linked
<1>14. \A k \in 1 .. m : g.item[s[k]] = h.item[s[k]]
    BY <1>4, <1>7
<1>15. g.item[n] = x
    BY <1>7
<1>16. \A k \in 1 .. Len(z) : g.item[z[k]] \in Item
    <2> SUFFICES ASSUME NEW k \in 1 .. m + 1 PROVE g.item[z[k]] \in Item
        BY <1>2
    <2>1. CASE k = 1
        BY <1>2, <1>15, <2>1
    <2>2. CASE k # 1
        <3>1. k - 1 \in 1 .. m /\ z[k] = s[k - 1]
            BY <1>8, <2>2
        <3> QED BY <1>1, <1>14, <3>1
    <2> QED BY <2>1, <2>2
<1>17. \A i, j \in 1 .. Len(z) : g.item[z[i]] = g.item[z[j]] => i = j
    <2> SUFFICES ASSUME NEW i \in 1 .. m + 1, NEW j \in 1 .. m + 1, g.item[z[i]] = g.item[z[j]]
                 PROVE  i = j
        BY <1>2
    <2>1. CASE i # 1 /\ j # 1
        <3>1. /\ i - 1 \in 1 .. m /\ z[i] = s[i - 1]
              /\ j - 1 \in 1 .. m /\ z[j] = s[j - 1]
            BY <1>8, <2>1
        <3>2. h.item[s[i - 1]] = h.item[s[j - 1]]
            BY <1>14, <3>1
        <3>3. i - 1 = j - 1
            BY <1>1, <3>1, <3>2
        <3> QED BY <1>1, <3>3
    <2>2. CASE i # 1 /\ j = 1
        <3>1. i - 1 \in 1 .. m /\ z[i] = s[i - 1]
            BY <1>8, <2>2
        <3> QED BY <1>2, <1>14, <1>15, <2>2, <3>1, SMTT(60)
    <2>3. CASE i = 1 /\ j # 1
        <3>1. j - 1 \in 1 .. m /\ z[j] = s[j - 1]
            BY <1>8, <2>3
        <3>2. g.item[z[j]] # x /\ g.item[z[i]] = x
            BY <1>2, <1>14, <1>15, <2>3, <3>1
        <3> QED BY <3>2
    <2> QED BY <2>1, <2>2, <2>3
<1>18. SetOK(g, z)
    BY <1>1, <1>2, <1>6, <1>13, <1>16, <1>17 DEF SetOK
<1>19. Len(z) \in 0 .. Cardinality(Node)
    BY <1>2, <1>9, DifferentNodes
<1>20. g \in HeapType
    <2>1. /\ g.used \in SUBSET Node /\ g.head \in Pointer
          /\ g.node_count \in 0 .. Cardinality(Node)
        BY <1>1, <1>2, <1>3, <1>6, <1>19 DEF Pointer
    <2>2. g = [item |-> g.item, next |-> g.next, used |-> g.used, front |-> g.front,
               rear |-> g.rear, count |-> g.count, head |-> g.head, node_count |-> g.node_count]
        BY <1>5 DEF set_insert, HeapType
    <2> QED BY <1>3, <1>6, <1>7, <2>1, <2>2 DEF HeapType
<1>21. Range(z) = Range(s) \cup {n}
    <2> DEFINE D == 1 .. m
               E == 1 .. m + 1
    <2>1. DOMAIN s = D /\ DOMAIN z = E
        BY <1>1, <1>2
    <2>2. Range(s) = {s[k] : k \in D} /\ Range(z) = {z[k] : k \in E}
        BY <2>1, Zenon DEF Range
    <2>3. \A k \in E : z[k] = n \/ \E i \in D : z[k] = s[i]
        BY <1>2, <1>8
    <2>4. \A i \in D : \E k \in E : z[k] = s[i]
        <3> SUFFICES ASSUME NEW i \in D PROVE i + 1 \in E /\ z[i + 1] = s[i]
            OBVIOUS
        <3> QED BY <1>1, <1>2
    <2>5. \E k \in E : z[k] = n
        BY <1>1, <1>2
    <2> HIDE DEF D, E
    <2> QED BY <2>2, <2>3, <2>4, <2>5
<1>22. Same(h, g, Node \ {n})
    BY <1>7 DEF Same
<1> QED BY <1>6, <1>15, <1>18, <1>20, <1>21, <1>22 DEF z

(* s without its entry k.                                                  *)
Without(s, k) == [j \in 1 .. Len(s) - 1 |-> IF j < k THEN s[j] ELSE s[j + 1]]

(* Taking an entry out leaves the others, in their order.                  *)
LEMMA WithoutIs ==
    ASSUME NEW s \in Seq(Node), \A i, j \in 1 .. Len(s) : s[i] = s[j] => i = j,
           NEW k \in 1 .. Len(s)
    PROVE  /\ Without(s, k) \in Seq(Node) /\ Len(Without(s, k)) = Len(s) - 1
           /\ \A j \in 1 .. Len(s) - 1 :
                 /\ j < k => j \in 1 .. Len(s) /\ Without(s, k)[j] = s[j]
                 /\ j >= k => j + 1 \in 1 .. Len(s) /\ Without(s, k)[j] = s[j + 1]
           /\ \A i, j \in 1 .. Len(s) - 1 : Without(s, k)[i] = Without(s, k)[j] => i = j
           /\ Range(Without(s, k)) = Range(s) \ {s[k]}
<1> DEFINE m == Len(s)
           z == Without(s, k)
<1>1. m \in Nat /\ m >= 1 /\ k \in 1 .. m
    OBVIOUS
<1>2. \A j \in 1 .. m - 1 : j \in 1 .. m /\ j + 1 \in 1 .. m
    BY <1>1
<1>3. z \in Seq(Node) /\ Len(z) = m - 1
    <2>1. z \in [1 .. m - 1 -> Node] /\ m - 1 \in Nat
        BY <1>1, <1>2 DEF Without
    <2> QED BY <2>1
<1>4. \A j \in 1 .. m - 1 : z[j] = IF j < k THEN s[j] ELSE s[j + 1]
    BY DEF Without
<1> HIDE DEF z
<1>5. \A j \in 1 .. m - 1 :
         /\ j < k => j \in 1 .. m /\ z[j] = s[j]
         /\ j >= k => j + 1 \in 1 .. m /\ z[j] = s[j + 1]
    BY <1>1, <1>2, <1>4
<1>6. \A i, j \in 1 .. m - 1 : z[i] = z[j] => i = j
    <2> SUFFICES ASSUME NEW i \in 1 .. m - 1, NEW j \in 1 .. m - 1, z[i] = z[j] PROVE i = j
        OBVIOUS
    <2> DEFINE a == IF i < k THEN i ELSE i + 1
               b == IF j < k THEN j ELSE j + 1
    <2>1. a \in 1 .. m /\ b \in 1 .. m /\ z[i] = s[a] /\ z[j] = s[b]
        BY <1>2, <1>4
    <2>2. a = b
        <3> HIDE DEF a, b
        <3> QED BY <2>1
    <2> QED BY <1>1, <2>2
<1>7. Range(z) = Range(s) \ {s[k]}
    <2> DEFINE D == 1 .. m
               E == 1 .. m - 1
    <2>1. DOMAIN s = D /\ DOMAIN z = E
        BY <1>1, <1>3
    <2>2. Range(s) = {s[i] : i \in D} /\ Range(z) = {z[i] : i \in E}
        BY <2>1, Zenon DEF Range
    <2>3. \A j \in E : \E i \in D : z[j] = s[i] /\ i # k
        <3> SUFFICES ASSUME NEW j \in E PROVE \E i \in D : z[j] = s[i] /\ i # k
            OBVIOUS
        <3>1. CASE j < k
            BY <1>5, <3>1
        <3>2. CASE j >= k
            <4>1. j + 1 # k
                BY <1>1, <3>2
            <4> QED BY <1>5, <3>2, <4>1
        <3> QED BY <1>1, <3>1, <3>2
    <2>4. \A i \in D : i # k => \E j \in E : z[j] = s[i]
        <3> SUFFICES ASSUME NEW i \in D, i # k PROVE \E j \in E : z[j] = s[i]
            OBVIOUS
        <3>1. CASE i < k
            <4>1. i \in E
                BY <1>1, <3>1
            <4> QED BY <1>5, <3>1, <4>1
        <3>2. CASE i > k
            <4>1. i - 1 \in E /\ i - 1 >= k /\ (i - 1) + 1 = i
                BY <1>1, <3>2
            <4>2. z[i - 1] = s[i]
                BY <1>5, <4>1
            <4> QED BY <4>1, <4>2
        <3> QED BY <1>1, <3>1, <3>2
    <2>5. \A i \in D : s[i] = s[k] => i = k
        BY <1>1
    <2> HIDE DEF D, E
    <2> QED BY <2>2, <2>3, <2>4, <2>5
<1> QED BY <1>3, <1>5, <1>6, <1>7 DEF z

(* The heap g is h without entry k of its set s.                           *)
TakenOut(h, g, s, k) ==
    /\ g \in HeapType /\ SetOK(g, Without(s, k))
    /\ g.used = h.used \ {s[k]} /\ s[k] \in Range(s) /\ s[k] \in Node
    /\ g.front = h.front /\ g.rear = h.rear /\ g.count = h.count
    /\ g.item = h.item
    /\ Same(h, g, Node \ Range(s))

(* set_pop unlinks and frees the node with the key, wherever it is.        *)
LEMMA SetPopRight ==
    ASSUME NEW h \in HeapType, NEW s, SetOK(h, s), NEW k \in 1 .. Len(s),
           NEW g, g = set_pop(h, h.item[s[k]])
    PROVE  TakenOut(h, g, s, k)
<1> USE LinkedListsAssumption
<1> DEFINE m == Len(s)
           z == Without(s, k)
<1>1. /\ s \in Seq(Node) /\ m \in Nat /\ h.head = At(s, 1) /\ h.node_count = m
      /\ \A i, j \in 1 .. m : s[i] = s[j] => i = j
      /\ \A i \in 1 .. m : h.next[s[i]] = At(s, i + 1)
      /\ \A i \in 1 .. m : h.item[s[i]] \in Item
      /\ \A i, j \in 1 .. m : h.item[s[i]] = h.item[s[j]] => i = j
      /\ m >= 1 /\ k \in 1 .. m
    BY DEF SetOK, Linked
<1>2. /\ z \in Seq(Node) /\ Len(z) = m - 1
      /\ \A j \in 1 .. m - 1 :
            /\ j < k => j \in 1 .. m /\ z[j] = s[j]
            /\ j >= k => j + 1 \in 1 .. m /\ z[j] = s[j + 1]
      /\ \A i, j \in 1 .. m - 1 : z[i] = z[j] => i = j
      /\ Range(z) = Range(s) \ {s[k]}
    BY <1>1, WithoutIs, SMTT(60)
<1> HIDE DEF z
<1>3. /\ h.next \in [Node -> Pointer] /\ h.item \in [Node -> Item \cup {NULL}]
      /\ h.used \in SUBSET Node /\ h.front \in Pointer /\ h.rear \in Pointer
      /\ h.count \in 0 .. Cardinality(Node) /\ h.head \in Pointer
    BY DEF HeapType
<1>4. \A i \in 1 .. m : s[i] \in Range(s) /\ s[i] \in Node /\ s[i] # NULL
    BY <1>1 DEF Range
<1>5. set_find(h, h.item[s[k]]) = s[k] /\ Chain(h, h.head) = s
    <2>1. Linked(h.next, h.head, s)
        BY DEF SetOK
    <2>2. Chain(h, h.head) = s
        BY <2>1, ChainLinked
    <2> DEFINE x == h.item[s[k]]
    <2>3. h.item[s[k]] = x
        OBVIOUS
    <2> HIDE DEF x
    <2>4. \A i \in 1 .. Len(s) : h.item[s[i]] = x => set_find(h, x) = s[i]
        BY FindRight
    <2>5. set_find(h, x) = s[k]
        BY <2>3, <2>4
    <2> QED BY <2>2, <2>5 DEF x
<1>6. /\ g.head = IF h.head = s[k] THEN h.next[s[k]] ELSE h.head
      /\ g.next = [n \in Node |-> IF n \in Range(s) /\ h.next[n] = s[k]
                                  THEN h.next[s[k]] ELSE h.next[n]]
      /\ g.used = h.used \ {s[k]} /\ g.node_count = h.node_count - 1
      /\ g.front = h.front /\ g.rear = h.rear /\ g.count = h.count /\ g.item = h.item
    BY <1>4, <1>5 DEF set_pop, HeapType
<1>7. \A i \in 1 .. m : g.next[s[i]] = IF i + 1 = k THEN At(s, k + 1) ELSE At(s, i + 1)
    <2> SUFFICES ASSUME NEW i \in 1 .. m
                 PROVE  g.next[s[i]] = IF i + 1 = k THEN At(s, k + 1) ELSE At(s, i + 1)
        OBVIOUS
    <2>1. g.next[s[i]] = IF At(s, i + 1) = s[k] THEN At(s, k + 1) ELSE At(s, i + 1)
        BY <1>1, <1>4, <1>6
    <2>2. At(s, i + 1) = s[k] <=> i + 1 = k
        BY <1>1, <1>4 DEF At
    <2> QED BY <2>1, <2>2
<1>8. \A j \in 0 .. m - 1 : At(z, j + 1) = IF j + 1 < k THEN At(s, j + 1) ELSE At(s, j + 2)
    <2> SUFFICES ASSUME NEW j \in 0 .. m - 1
                 PROVE  At(z, j + 1) = IF j + 1 < k THEN At(s, j + 1) ELSE At(s, j + 2)
        OBVIOUS
    <2>1. CASE j + 1 \in 1 .. m - 1
        <3>1. j + 1 < k => At(z, j + 1) = At(s, j + 1)
            BY <1>1, <1>2, <2>1 DEF At
        <3>2. j + 1 >= k => At(z, j + 1) = At(s, j + 2)
            <4>1. (j + 1) + 1 = j + 2
                BY <1>1
            <4> QED BY <1>2, <2>1, <4>1 DEF At
        <3> QED BY <1>1, <3>1, <3>2
    <2>2. CASE j = m - 1
        <3>1. ~(j + 1 < k) /\ j + 2 \notin 1 .. m /\ j + 1 \notin 1 .. m - 1
            BY <1>1, <2>2
        <3> QED BY <1>2, <3>1 DEF At
    <2> QED BY <1>1, <2>1, <2>2
<1>9. g.head = At(z, 1)
    <2>1. 0 \in 0 .. m - 1 /\ 0 + 1 = 1 /\ 0 + 2 = 2
        BY <1>1
    <2>2. At(z, 1) = IF 1 < k THEN At(s, 1) ELSE At(s, 2)
        BY <1>8, <2>1
    <2>3. h.head = s[1] /\ 1 \in 1 .. m
        BY <1>1 DEF At
    <2>4. CASE k = 1
        BY <1>1, <1>6, <2>2, <2>3, <2>4
    <2>5. CASE 1 < k
        <3>1. s[1] # s[k]
            BY <1>1, <2>3, <2>5
        <3> QED BY <1>1, <1>6, <2>2, <2>3, <2>5, <3>1
    <2> QED BY <1>1, <2>4, <2>5
<1>10. \A j \in 1 .. Len(z) : g.next[z[j]] = At(z, j + 1)
    <2> SUFFICES ASSUME NEW j \in 1 .. m - 1 PROVE g.next[z[j]] = At(z, j + 1)
        BY <1>2
    <2>1. At(z, j + 1) = IF j + 1 < k THEN At(s, j + 1) ELSE At(s, j + 2)
        BY <1>1, <1>8
    <2>2. CASE j < k
        <3>1. z[j] = s[j] /\ j \in 1 .. m
            BY <1>2, <2>2
        <3>2. j + 1 < k \/ (j + 1 = k /\ j + 2 = k + 1)
            BY <1>1, <2>2
        <3> QED BY <1>1, <1>7, <2>1, <3>1, <3>2
    <2>3. CASE j >= k
        <3>1. z[j] = s[j + 1] /\ j + 1 \in 1 .. m
            BY <1>2, <2>3
        <3>2. ~(j + 1 < k) /\ (j + 1) + 1 # k /\ (j + 1) + 1 = j + 2
            BY <1>1, <2>3
        <3> QED BY <1>7, <2>1, <3>1, <3>2
    <2> QED BY <1>1, <2>2, <2>3
<1>11. Linked(g.next, g.head, z)
    BY <1>2, <1>9, <1>10 DEF Linked
<1>12. \A j \in 1 .. m - 1 : \E i \in 1 .. m : z[j] = s[i] /\ i = IF j < k THEN j ELSE j + 1
    <2> SUFFICES ASSUME NEW j \in 1 .. m - 1
                 PROVE  \E i \in 1 .. m : z[j] = s[i] /\ i = IF j < k THEN j ELSE j + 1
        OBVIOUS
    <2>1. j < k \/ j >= k
        BY <1>1
    <2> QED BY <1>1, <1>2, <2>1
<1>13. /\ \A j \in 1 .. Len(z) : g.item[z[j]] \in Item
       /\ \A i, j \in 1 .. Len(z) : g.item[z[i]] = g.item[z[j]] => i = j
    <2>1. \A j \in 1 .. m - 1 : g.item[z[j]] \in Item
        BY <1>1, <1>6, <1>12, SMTT(60)
    <2>2. ASSUME NEW i \in 1 .. m - 1, NEW j \in 1 .. m - 1, g.item[z[i]] = g.item[z[j]]
          PROVE  i = j
        <3>1. PICK a \in 1 .. m : z[i] = s[a]
            BY <1>12
        <3>2. PICK b \in 1 .. m : z[j] = s[b]
            BY <1>12
        <3>3. a = b
            BY <1>1, <1>6, <2>2, <3>1, <3>2
        <3> QED BY <1>2, <3>1, <3>2, <3>3
    <2> QED BY <1>2, <2>1, <2>2
<1>14. SetOK(g, z)
    BY <1>1, <1>2, <1>6, <1>11, <1>13 DEF SetOK
<1>15. Len(z) \in 0 .. Cardinality(Node)
    BY <1>2, DifferentNodes
<1>16. g \in HeapType
    <2>1. /\ g.used \in SUBSET Node /\ g.head \in Pointer
          /\ g.node_count \in 0 .. Cardinality(Node)
        BY <1>1, <1>2, <1>3, <1>4, <1>6, <1>15 DEF Pointer
    <2>2. g.next \in [Node -> Pointer]
        BY <1>3, <1>4, <1>6
    <2>3. g = [item |-> g.item, next |-> g.next, used |-> g.used, front |-> g.front,
               rear |-> g.rear, count |-> g.count, head |-> g.head, node_count |-> g.node_count]
        BY <1>4, <1>5 DEF set_pop, HeapType
    <2> QED BY <1>3, <1>6, <2>1, <2>2, <2>3 DEF HeapType
<1>17. Same(h, g, Node \ Range(s))
    BY <1>6 DEF Same
<1> QED BY <1>4, <1>6, <1>14, <1>16, <1>17 DEF z, TakenOut

-----------------------------------------------------------------------------
(* What the lists stand for                                                *)

ReadyOf(h, q) == [k \in 1 .. Len(q) |-> h.item[q[k]]]

DelayedOf(h, s) == {h.item[s[k]] : k \in 1 .. Len(s)}

(* The items of s from the node n on.                                      *)
TodoOf(h, n, s) == {h.item[s[i]] : i \in {k \in 1 .. Len(s) : \E j \in 1 .. k : s[j] = n}}

RestOf(h, s, j) == {h.item[s[i]] : i \in j .. Len(s)}

(* The items of a list, in order and as a set.                             *)
LEMMA ItemsAre ==
    ASSUME NEW h, NEW n, NEW s, Linked(h.next, n, s)
    PROVE  Items(h, n) = ReadyOf(h, s) /\ Range(Items(h, n)) = DelayedOf(h, s)
<1>1. Chain(h, n) = s
    BY ChainLinked
<1>2. DOMAIN s = 1 .. Len(s)
    BY DEF Linked
<1>3. Items(h, n) = ReadyOf(h, s)
    BY <1>1, <1>2 DEF Items, ReadyOf
<1>4. Range(ReadyOf(h, s)) = DelayedOf(h, s)
    <2> DEFINE D == 1 .. Len(s)
               r == ReadyOf(h, s)
    <2>1. DOMAIN r = D /\ \A k \in D : r[k] = h.item[s[k]]
        BY DEF ReadyOf
    <2>2. Range(r) = {r[k] : k \in D}
        <3> HIDE DEF D, r
        <3> QED BY <2>1, Zenon DEF Range
    <2> HIDE DEF D, r
    <2>3. Range(r) = {h.item[s[k]] : k \in D}
        BY <2>1, <2>2
    <2> QED BY <2>3 DEF D, r, DelayedOf
<1> QED BY <1>3, <1>4

(* What a walk that has come to entry j of a list still has before it.     *)
LEMMA TodoFrom ==
    ASSUME NEW h, NEW a, NEW s, Linked(h.next, a, s)
    PROVE  /\ TodoOf(h, NULL, s) = {}
           /\ \A j \in 1 .. Len(s) : /\ TodoOf(h, s[j], s) = RestOf(h, s, j)
                                     /\ Range(Items(h, s[j])) = TodoOf(h, s[j], s)
<1> USE LinkedListsAssumption
<1> DEFINE m == Len(s)
<1>1. /\ s \in Seq(Node) /\ m \in Nat /\ \A k \in 1 .. m : s[k] # NULL
      /\ \A i, j \in 1 .. m : s[i] = s[j] => i = j
    BY DEF Linked
<1>2. TodoOf(h, NULL, s) = {}
    <2>1. \A k \in 1 .. m : \A j \in 1 .. k : s[j] # NULL
        BY <1>1
    <2> QED BY <2>1 DEF TodoOf
<1>3. ASSUME NEW j \in 1 .. m
      PROVE  /\ TodoOf(h, s[j], s) = RestOf(h, s, j)
             /\ Range(Items(h, s[j])) = TodoOf(h, s[j], s)
    <2> DEFINE t == SubSeq(s, j, m)
               D == 1 .. m - j + 1
               J == j .. m
    <2>1. {k \in 1 .. m : \E i \in 1 .. k : s[i] = s[j]} = J
        <3>1. \A k \in 1 .. m : \A i \in 1 .. k : i \in 1 .. m
            BY <1>1
        <3>2. \A k \in 1 .. m : (\E i \in 1 .. k : s[i] = s[j]) <=> j \in 1 .. k
            BY <1>1, <3>1
        <3> QED BY <1>1, <3>2
    <2>2. TodoOf(h, s[j], s) = {h.item[s[i]] : i \in J}
        BY <2>1 DEF TodoOf
    <2>3. Linked(h.next, s[j], t) /\ Range(t) = {s[i] : i \in J}
        BY LinkedFrom
    <2>4. Range(Items(h, s[j])) = DelayedOf(h, t)
        <3> HIDE DEF t
        <3> QED BY <2>3, ItemsAre
    <2>5. Len(t) = m - j + 1 /\ DOMAIN t = D
        BY <1>1
    <2>6. Range(t) = {t[k] : k \in D}
        <3> HIDE DEF t, D
        <3> QED BY <2>5, Zenon DEF Range
    <2>7. DelayedOf(h, t) = {h.item[t[k]] : k \in D}
        BY <2>5 DEF DelayedOf
    <2> HIDE DEF t, D, J
    <2>8. /\ \A k \in D : \E i \in J : t[k] = s[i]
          /\ \A i \in J : \E k \in D : t[k] = s[i]
        BY <2>3, <2>6
    <2>9. {h.item[t[k]] : k \in D} = {h.item[s[i]] : i \in J}
        BY <2>8
    <2> QED BY <2>2, <2>4, <2>7, <2>9 DEF J, RestOf
<1> QED BY <1>2, <1>3

(* A null pointer is an empty list.                                        *)
LEMMA NothingFromNull == \A h : Range(Items(h, NULL)) = {}
<1> SUFFICES ASSUME NEW h PROVE Range(Items(h, NULL)) = {}
    OBVIOUS
<1>1. Linked(h.next, NULL, <<>>)
    BY DEF Linked, At
<1>2. Range(Items(h, NULL)) = DelayedOf(h, <<>>)
    BY <1>1, ItemsAre
<1> QED BY <1>2 DEF DelayedOf

-----------------------------------------------------------------------------
(* The inductive invariant: the lists consist of q and s, and these, which *)
(* have no node in common, are what is allocated; the clock is at a node   *)
(* of the set.                                                             *)

Holds(h, ex, c, n, q, s) ==
    /\ h \in HeapType /\ ex \subseteq {"queue", "set"} /\ c \in {"off", "walks"}
    /\ IF "queue" \in ex THEN QueueOK(h, q) ELSE q = <<>>
    /\ IF "set" \in ex THEN SetOK(h, s) ELSE s = <<>>
    /\ h.used = Range(q) \cup Range(s)
    /\ Range(q) \cap Range(s) = {}
    /\ c = "off" => n = NULL
    /\ c = "walks" => ex = {"queue", "set"}
    /\ n # NULL => \E k \in 1 .. Len(s) : n = s[k]

ListInv == Holds(heap, exists, clock, node, QueueNodes, SetNodes)

(* There are no other q and s, and they have what the refinement reads.    *)
LEMMA HoldsMeans ==
    ASSUME NEW h, NEW ex, NEW c, NEW n, NEW q, NEW s, Holds(h, ex, c, n, q, s)
    PROVE  /\ (IF "queue" \in ex THEN Chain(h, h.front) ELSE <<>>) = q
           /\ (IF "set" \in ex THEN Chain(h, h.head) ELSE <<>>) = s
           /\ (IF "queue" \in ex THEN Items(h, h.front) ELSE <<>>) = ReadyOf(h, q)
           /\ (IF "set" \in ex THEN Range(Items(h, h.head)) ELSE {}) = DelayedOf(h, s)
           /\ Range(Items(h, n)) = TodoOf(h, n, s)
           /\ q \in Seq(Node) /\ s \in Seq(Node)
           /\ \A i, j \in 1 .. Len(q) : q[i] = q[j] => i = j
           /\ \A i, j \in 1 .. Len(s) : s[i] = s[j] => i = j
<1>1. ReadyOf(h, <<>>) = <<>> /\ DelayedOf(h, <<>>) = {} /\ TodoOf(h, n, <<>>) = {}
    BY DEF ReadyOf, DelayedOf, TodoOf
<1>2. /\ (IF "queue" \in ex THEN Chain(h, h.front) ELSE <<>>) = q
      /\ (IF "queue" \in ex THEN Items(h, h.front) ELSE <<>>) = ReadyOf(h, q)
      /\ q \in Seq(Node) /\ \A i, j \in 1 .. Len(q) : q[i] = q[j] => i = j
    <2>1. CASE "queue" \in ex
        <3>1. Linked(h.next, h.front, q)
            BY <2>1 DEF Holds, QueueOK
        <3>2. Chain(h, h.front) = q
            BY <3>1, ChainLinked
        <3>3. Items(h, h.front) = ReadyOf(h, q)
            BY <3>1, ItemsAre
        <3> QED BY <2>1, <3>1, <3>2, <3>3 DEF Linked
    <2>2. CASE "queue" \notin ex
        BY <1>1, <2>2 DEF Holds
    <2> QED BY <2>1, <2>2
<1>3. /\ (IF "set" \in ex THEN Chain(h, h.head) ELSE <<>>) = s
      /\ (IF "set" \in ex THEN Range(Items(h, h.head)) ELSE {}) = DelayedOf(h, s)
      /\ s \in Seq(Node) /\ \A i, j \in 1 .. Len(s) : s[i] = s[j] => i = j
    <2>1. CASE "set" \in ex
        <3>1. Linked(h.next, h.head, s)
            BY <2>1 DEF Holds, SetOK
        <3>2. Chain(h, h.head) = s
            BY <3>1, ChainLinked
        <3>3. Range(Items(h, h.head)) = DelayedOf(h, s)
            BY <3>1, ItemsAre
        <3> QED BY <2>1, <3>1, <3>2, <3>3 DEF Linked
    <2>2. CASE "set" \notin ex
        BY <1>1, <2>2 DEF Holds
    <2> QED BY <2>1, <2>2
<1>4. Range(Items(h, n)) = TodoOf(h, n, s)
    <2>1. CASE n = NULL
        <3>1. TodoOf(h, NULL, s) = {}
            <4>1. \A k \in 1 .. Len(s) : \A j \in 1 .. k : s[j] # NULL
                BY <1>3, LinkedListsAssumption
            <4> QED BY <4>1 DEF TodoOf
        <3> QED BY <2>1, <3>1, NothingFromNull
    <2>2. CASE n # NULL
        <3>1. PICK j \in 1 .. Len(s) : n = s[j]
            BY <2>2 DEF Holds
        <3>2. "set" \in ex
            BY <2>2 DEF Holds
        <3>3. Linked(h.next, h.head, s)
            BY <3>2 DEF Holds, SetOK
        <3> QED BY <3>1, <3>3, TodoFrom
    <2> QED BY <2>1, <2>2
<1> QED BY <1>2, <1>3, <1>4

-----------------------------------------------------------------------------
(* What each operation does to the sequence, to the set and to what the    *)
(* clock has not come to.                                                  *)

(* The items of a queue are a sequence.                                    *)
LEMMA ReadyIs ==
    ASSUME NEW h \in HeapType, NEW q \in Seq(Node)
    PROVE  /\ ReadyOf(h, q) \in Seq(Item \cup {NULL}) /\ Len(ReadyOf(h, q)) = Len(q)
           /\ \A k \in 1 .. Len(q) : ReadyOf(h, q)[k] = h.item[q[k]]
<1>1. Len(q) \in Nat /\ \A k \in 1 .. Len(q) : q[k] \in Node
    OBVIOUS
<1>2. h.item \in [Node -> Item \cup {NULL}]
    BY DEF HeapType
<1>3. ReadyOf(h, q) \in [1 .. Len(q) -> Item \cup {NULL}]
    BY <1>1, <1>2 DEF ReadyOf
<1>4. \A k \in 1 .. Len(q) : ReadyOf(h, q)[k] = h.item[q[k]]
    BY DEF ReadyOf
<1> QED BY <1>1, <1>3, <1>4

(* Lists whose items stay stand for the same.                              *)
LEMMA SameItems ==
    ASSUME NEW h, NEW g, NEW s, \A k \in 1 .. Len(s) : g.item[s[k]] = h.item[s[k]]
    PROVE  /\ ReadyOf(g, s) = ReadyOf(h, s)
           /\ DelayedOf(g, s) = DelayedOf(h, s)
           /\ \A n : TodoOf(g, n, s) = TodoOf(h, n, s)
<1>1. ReadyOf(g, s) = ReadyOf(h, s)
    BY DEF ReadyOf
<1>2. DelayedOf(g, s) = DelayedOf(h, s)
    BY DEF DelayedOf
<1>3. ASSUME NEW n PROVE TodoOf(g, n, s) = TodoOf(h, n, s)
    <2> DEFINE K == {k \in 1 .. Len(s) : \E j \in 1 .. k : s[j] = n}
    <2>1. \A k \in K : g.item[s[k]] = h.item[s[k]]
        OBVIOUS
    <2>2. TodoOf(g, n, s) = {g.item[s[i]] : i \in K} /\ TodoOf(h, n, s) = {h.item[s[i]] : i \in K}
        BY DEF TodoOf
    <2> HIDE DEF K
    <2> QED BY <2>1, <2>2
<1> QED BY <1>1, <1>2, <1>3

(* queue_pop pops, and changes nothing else.                               *)
LEMMA PopStep ==
    ASSUME NEW h, NEW ex, NEW c, NEW n, NEW q, NEW s, Holds(h, ex, c, n, q, s),
           "queue" \in ex, NEW g, g = queue_pop(h), q # <<>>
    PROVE  /\ Holds(g, ex, c, n, Tail(q), s)
           /\ ReadyOf(h, q) # <<>> /\ ReadyOf(g, Tail(q)) = Tail(ReadyOf(h, q))
           /\ DelayedOf(g, s) = DelayedOf(h, s)
           /\ TodoOf(g, n, s) = TodoOf(h, n, s)
<1>1. /\ h \in HeapType /\ QueueOK(h, q) /\ h.used = Range(q) \cup Range(s)
      /\ Range(q) \cap Range(s) = {}
      /\ IF "set" \in ex THEN SetOK(h, s) ELSE s = <<>>
    BY DEF Holds
<1>2. q \in Seq(Node) /\ s \in Seq(Node) /\ Len(q) \in Nat /\ Len(q) >= 1
    <2>1. q \in Seq(Node) /\ s \in Seq(Node)
        BY HoldsMeans
    <2> QED BY <2>1
<1>3. /\ g \in HeapType /\ QueueOK(g, Tail(q))
      /\ g.used = h.used \ {q[1]} /\ q[1] \in Range(q)
      /\ Range(Tail(q)) = Range(q) \ {q[1]}
      /\ g.head = h.head /\ g.node_count = h.node_count
      /\ g.next = h.next /\ g.item = h.item
    BY <1>1, PopRight
<1>4. IF "set" \in ex THEN SetOK(g, s) ELSE s = <<>>
    <2>1. Same(h, g, Range(s))
        BY <1>3 DEF Same
    <2> QED BY <1>1, <1>3, <2>1, SetSame
<1>5. g.used = Range(Tail(q)) \cup Range(s) /\ Range(Tail(q)) \cap Range(s) = {}
    BY <1>1, <1>3
<1>6. Holds(g, ex, c, n, Tail(q), s)
    BY <1>3, <1>4, <1>5 DEF Holds
<1>7. ReadyOf(h, q) # <<>> /\ ReadyOf(g, Tail(q)) = Tail(ReadyOf(h, q))
    <2> DEFINE m == Len(q)
               r == ReadyOf(h, q)
               u == Tail(q)
               v == ReadyOf(g, u)
               F == Item \cup {NULL}
    <2>1. r \in Seq(F) /\ Len(r) = m /\ \A k \in 1 .. m : r[k] = h.item[q[k]]
        BY <1>1, <1>2, ReadyIs
    <2>2. u \in Seq(Node) /\ Len(u) = m - 1 /\ \A k \in 1 .. m - 1 : u[k] = q[k + 1]
        BY <1>2
    <2> HIDE DEF u
    <2>3. v \in Seq(F) /\ Len(v) = m - 1 /\ \A k \in 1 .. m - 1 : v[k] = h.item[q[k + 1]]
        BY <1>3, <2>2, ReadyIs
    <2> HIDE DEF r, v, F
    <2>4. /\ r # <<>> /\ Tail(r) \in Seq(F) /\ Len(Tail(r)) = m - 1
          /\ \A k \in 1 .. m - 1 : Tail(r)[k] = r[k + 1]
        BY <1>2, <2>1
    <2>5. \A k \in 1 .. m - 1 : k + 1 \in 1 .. m
        BY <1>2
    <2>6. \A k \in 1 .. m - 1 : v[k] = Tail(r)[k]
        BY <2>1, <2>3, <2>4, <2>5
    <2>7. v = Tail(r)
        BY <2>3, <2>4, <2>6, SeqEqual
    <2> QED BY <2>4, <2>7 DEF r, u, v
<1>8. DelayedOf(g, s) = DelayedOf(h, s) /\ TodoOf(g, n, s) = TodoOf(h, n, s)
    <2>1. \A k \in 1 .. Len(s) : g.item[s[k]] = h.item[s[k]]
        BY <1>3
    <2> QED BY <2>1, SameItems
<1> QED BY <1>6, <1>7, <1>8

(* queue_push appends, and changes nothing else.                           *)
LEMMA PushStep ==
    ASSUME NEW h, NEW ex, NEW c, NEW n, NEW q, NEW s, Holds(h, ex, c, n, q, s),
           "queue" \in ex, NEW x \in Item, NEW o \in Node \ h.used,
           NEW g, g = queue_push(h, x, o)
    PROVE  /\ Holds(g, ex, c, n, Append(q, o), s)
           /\ ReadyOf(g, Append(q, o)) = Append(ReadyOf(h, q), x)
           /\ DelayedOf(g, s) = DelayedOf(h, s)
           /\ TodoOf(g, n, s) = TodoOf(h, n, s)
<1> DEFINE z == Append(q, o)
<1>1. /\ h \in HeapType /\ QueueOK(h, q) /\ h.used = Range(q) \cup Range(s)
      /\ Range(q) \cap Range(s) = {} /\ o \in Node \ Range(q) /\ o \notin Range(s)
      /\ IF "set" \in ex THEN SetOK(h, s) ELSE s = <<>>
    BY DEF Holds
<1>2. q \in Seq(Node) /\ s \in Seq(Node) /\ Len(q) \in Nat
    <2>1. q \in Seq(Node) /\ s \in Seq(Node)
        BY HoldsMeans
    <2> QED BY <2>1
<1>3. /\ g \in HeapType /\ QueueOK(g, z)
      /\ g.used = h.used \cup {o} /\ g.head = h.head /\ g.node_count = h.node_count
      /\ Same(h, g, Node \ (Range(q) \cup {o}))
      /\ \A m \in Node : g.item[m] = IF m = o THEN x ELSE h.item[m]
    BY <1>1, PushRight
<1>4. \A k \in 1 .. Len(s) : s[k] \in Node /\ s[k] \in Range(s)
    BY <1>2 DEF Range
<1>5. Range(s) \subseteq Node
    BY <1>2 DEF Range
<1>6. IF "set" \in ex THEN SetOK(g, s) ELSE s = <<>>
    <2>1. Same(h, g, Range(s))
        BY <1>1, <1>3, <1>5 DEF Same
    <2> QED BY <1>1, <1>3, <2>1, SetSame
<1>7. /\ Len(z) = Len(q) + 1 /\ z[Len(q) + 1] = o
      /\ \A k \in 1 .. Len(q) : z[k] = q[k] /\ q[k] \in Node /\ q[k] \in Range(q)
    BY <1>1, <1>2 DEF Range
<1>8. Range(z) = Range(q) \cup {o}
    <2> DEFINE D == 1 .. Len(q)
               E == 1 .. Len(q) + 1
    <2>1. DOMAIN q = D /\ DOMAIN z = E
        BY <1>1, <1>2
    <2>2. Range(q) = {q[i] : i \in D} /\ Range(z) = {z[i] : i \in E}
        <3> HIDE DEF z, D, E
        <3> QED BY <2>1, Zenon DEF Range
    <2>3. D \subseteq E /\ Len(q) + 1 \in E /\ \A i \in E : i \in D \/ i = Len(q) + 1
        BY <1>2
    <2> HIDE DEF z, D, E
    <2>4. \A i \in D : z[i] = q[i]
        BY <1>7 DEF D
    <2> QED BY <1>7, <2>2, <2>3, <2>4
<1> HIDE DEF z
<1>9. g.used = Range(z) \cup Range(s) /\ Range(z) \cap Range(s) = {}
    BY <1>1, <1>3, <1>8
<1>10. Holds(g, ex, c, n, z, s)
    BY <1>3, <1>6, <1>9 DEF Holds
<1>11. ReadyOf(g, z) = Append(ReadyOf(h, q), x)
    <2> DEFINE m == Len(q)
               r == ReadyOf(h, q)
               v == ReadyOf(g, z)
               F == Item \cup {NULL}
    <2>1. r \in Seq(F) /\ Len(r) = m /\ \A k \in 1 .. m : r[k] = h.item[q[k]]
        BY <1>1, <1>2, ReadyIs
    <2>2. v \in Seq(F) /\ Len(v) = m + 1 /\ \A k \in 1 .. m + 1 : v[k] = g.item[z[k]]
        <3>1. z \in Seq(Node)
            BY <1>2 DEF z
        <3> QED BY <1>3, <1>7, <3>1, ReadyIs
    <2>3. x \in F
        OBVIOUS
    <2> HIDE DEF r, v, F
    <2>4. /\ Append(r, x) \in Seq(F) /\ Len(Append(r, x)) = m + 1
          /\ \A k \in 1 .. m : Append(r, x)[k] = r[k]
          /\ Append(r, x)[m + 1] = x
        BY <1>2, <2>1, <2>3
    <2>5. g.item[o] = x /\ \A k \in 1 .. m : g.item[q[k]] = h.item[q[k]]
        BY <1>1, <1>3, <1>7
    <2>6. \A k \in 1 .. m + 1 : k = m + 1 \/ k \in 1 .. m
        BY <1>2
    <2>7. \A k \in 1 .. m + 1 : v[k] = Append(r, x)[k]
        BY <1>7, <2>1, <2>2, <2>4, <2>5, <2>6
    <2>8. v = Append(r, x)
        BY <2>2, <2>4, <2>7, SeqEqual
    <2> QED BY <2>8 DEF r, v
<1>12. DelayedOf(g, s) = DelayedOf(h, s) /\ TodoOf(g, n, s) = TodoOf(h, n, s)
    <2>1. \A k \in 1 .. Len(s) : g.item[s[k]] = h.item[s[k]]
        BY <1>1, <1>3, <1>4
    <2> QED BY <2>1, SameItems, SMTT(60)
<1> QED BY <1>10, <1>11, <1>12 DEF z

(* To go on from entry k of a set takes its item off what is to come to,   *)
(* whether the entry stays in the set or is taken out.                     *)
LEMMA AdvanceStep ==
    ASSUME NEW h, NEW s, SetOK(h, s), NEW k \in 1 .. Len(s)
    PROVE  /\ TodoOf(h, At(s, k + 1), s) = TodoOf(h, s[k], s) \ {h.item[s[k]]}
           /\ h.item[s[k]] \in TodoOf(h, s[k], s)
           /\ TodoOf(h, At(s, 1), s) = DelayedOf(h, s)
<1> DEFINE m == Len(s)
           J == k .. m
           K == k + 1 .. m
           T == {h.item[s[i]] : i \in J}
<1>1. /\ Linked(h.next, h.head, s) /\ s \in Seq(Node) /\ m \in Nat /\ m >= 1
      /\ \A i, j \in 1 .. m : h.item[s[i]] = h.item[s[j]] => i = j
    <2>1. Linked(h.next, h.head, s) /\ \A i, j \in 1 .. m : h.item[s[i]] = h.item[s[j]] => i = j
        BY DEF SetOK
    <2>2. s \in Seq(Node)
        BY <2>1 DEF Linked
    <2> QED BY <2>1, <2>2
<1>2. TodoOf(h, s[k], s) = {h.item[s[i]] : i \in J}
    BY <1>1, TodoFrom DEF RestOf
<1>3. TodoOf(h, At(s, k + 1), s) = {h.item[s[i]] : i \in K}
    <2>1. CASE k + 1 \in 1 .. m
        BY <1>1, <2>1, TodoFrom DEF At, RestOf
    <2>2. CASE k + 1 \notin 1 .. m
        <3>1. K = {} /\ At(s, k + 1) = NULL
            BY <1>1, <2>2 DEF At
        <3>2. TodoOf(h, NULL, s) = {}
            BY <1>1, TodoFrom
        <3> QED BY <3>1, <3>2
    <2> QED BY <2>1, <2>2
<1>4. k \in J /\ K \subseteq J /\ k \notin K /\ \A i \in J : i = k \/ i \in K
    BY <1>1
<1>5. \A i \in J : h.item[s[i]] = h.item[s[k]] => i = k
    <2>1. \A i \in J : i \in 1 .. m
        BY <1>1
    <2> QED BY <1>1, <2>1
<1>6. TodoOf(h, At(s, 1), s) = DelayedOf(h, s)
    <2>1. 1 \in 1 .. m /\ At(s, 1) = s[1]
        BY <1>1 DEF At
    <2>2. TodoOf(h, s[1], s) = {h.item[s[i]] : i \in 1 .. m}
        BY <1>1, <2>1, TodoFrom DEF RestOf
    <2> QED BY <2>1, <2>2 DEF DelayedOf
<1> HIDE DEF J, K
<1>7. {h.item[s[i]] : i \in K} = {h.item[s[i]] : i \in J} \ {h.item[s[k]]}
    BY <1>4, <1>5
<1>8. h.item[s[k]] \in {h.item[s[i]] : i \in J}
    BY <1>4
<1> QED BY <1>2, <1>3, <1>6, <1>7, <1>8

(* set_pop removes the key, also under the walk of the clock, which still  *)
(* has the rest of the set before it.                                      *)
LEMMA RemoveStep ==
    ASSUME NEW h, NEW ex, NEW c, NEW n, NEW q, NEW s, Holds(h, ex, c, n, q, s),
           "set" \in ex, NEW k \in 1 .. Len(s),
           NEW g, g = set_pop(h, h.item[s[k]]),
           NEW o, o = NULL \/ (c = "walks" /\ o = At(s, k + 1))
    PROVE  /\ Holds(g, ex, c, o, q, Without(s, k))
           /\ ReadyOf(g, q) = ReadyOf(h, q)
           /\ DelayedOf(g, Without(s, k)) = DelayedOf(h, s) \ {h.item[s[k]]}
           /\ o = NULL => TodoOf(g, o, Without(s, k)) = {}
           /\ o # NULL => TodoOf(g, o, Without(s, k)) = TodoOf(h, s[k], s) \ {h.item[s[k]]}
<1> DEFINE z == Without(s, k)
           m == Len(s)
<1>1. /\ h \in HeapType /\ SetOK(h, s) /\ h.used = Range(q) \cup Range(s)
      /\ Range(q) \cap Range(s) = {}
      /\ IF "queue" \in ex THEN QueueOK(h, q) ELSE q = <<>>
    BY DEF Holds
<1>2. /\ q \in Seq(Node) /\ s \in Seq(Node) /\ m \in Nat /\ m >= 1 /\ k \in 1 .. m
      /\ \A i, j \in 1 .. m : s[i] = s[j] => i = j
    <2>1. /\ q \in Seq(Node) /\ s \in Seq(Node)
          /\ \A i, j \in 1 .. m : s[i] = s[j] => i = j
        BY HoldsMeans
    <2> QED BY <2>1
<1>3. /\ g \in HeapType /\ SetOK(g, z)
      /\ g.used = h.used \ {s[k]} /\ s[k] \in Range(s)
      /\ g.front = h.front /\ g.rear = h.rear /\ g.count = h.count
      /\ g.item = h.item /\ Same(h, g, Node \ Range(s))
    <2> HIDE DEF z
    <2>1. TakenOut(h, g, s, k)
        BY <1>1, SetPopRight
    <2> QED BY <2>1 DEF z, TakenOut
<1>4. /\ z \in Seq(Node) /\ Len(z) = m - 1
      /\ \A j \in 1 .. m - 1 :
            /\ j < k => j \in 1 .. m /\ z[j] = s[j]
            /\ j >= k => j + 1 \in 1 .. m /\ z[j] = s[j + 1]
      /\ Range(z) = Range(s) \ {s[k]}
    BY <1>2, WithoutIs
<1> HIDE DEF z
<1>5. IF "queue" \in ex THEN QueueOK(g, q) ELSE q = <<>>
    <2>1. Range(q) \subseteq Node
        BY <1>2 DEF Range
    <2>2. Same(h, g, Range(q))
        BY <1>1, <1>3, <2>1 DEF Same
    <2> QED BY <1>1, <1>3, <2>2, QueueSame
<1>6. g.used = Range(q) \cup Range(z) /\ Range(q) \cap Range(z) = {}
    BY <1>1, <1>3, <1>4
<1>7. o # NULL => k \in 1 .. m - 1 /\ o = z[k]
    <2> SUFFICES ASSUME o # NULL PROVE k \in 1 .. m - 1 /\ o = z[k]
        OBVIOUS
    <2>1. k + 1 \in 1 .. m /\ o = s[k + 1]
        BY DEF At
    <2>2. k \in 1 .. m - 1 /\ k >= k
        BY <1>2, <2>1
    <2> QED BY <1>4, <2>1, <2>2
<1>8. Holds(g, ex, c, o, q, z)
    BY <1>3, <1>4, <1>5, <1>6, <1>7 DEF Holds
<1>9. ReadyOf(g, q) = ReadyOf(h, q)
    <2>1. \A i \in 1 .. Len(q) : g.item[q[i]] = h.item[q[i]]
        BY <1>3
    <2> QED BY <2>1, SameItems
<1>10. \A i, j \in 1 .. m : h.item[s[i]] = h.item[s[j]] => i = j
    BY <1>1 DEF SetOK
<1>11. DelayedOf(g, z) = DelayedOf(h, s) \ {h.item[s[k]]}
    <2> DEFINE D == 1 .. m
               E == 1 .. m - 1
    <2>1. DelayedOf(g, z) = {h.item[z[i]] : i \in E} /\ DelayedOf(h, s) = {h.item[s[i]] : i \in D}
        BY <1>3, <1>4 DEF DelayedOf
    <2>2. \A j \in E : \E i \in D : z[j] = s[i] /\ i # k
        <3> SUFFICES ASSUME NEW j \in E PROVE \E i \in D : z[j] = s[i] /\ i # k
            OBVIOUS
        <3>1. CASE j < k
            BY <1>4, <3>1
        <3>2. CASE j >= k
            <4>1. j + 1 # k
                BY <1>2, <3>2
            <4> QED BY <1>4, <3>2, <4>1
        <3> QED BY <1>2, <3>1, <3>2
    <2>3. \A i \in D : i # k => \E j \in E : z[j] = s[i]
        <3> SUFFICES ASSUME NEW i \in D, i # k PROVE \E j \in E : z[j] = s[i]
            OBVIOUS
        <3>1. CASE i < k
            <4>1. i \in E
                BY <1>2, <3>1
            <4> QED BY <1>4, <3>1, <4>1
        <3>2. CASE i > k
            <4>1. i - 1 \in E /\ i - 1 >= k /\ (i - 1) + 1 = i
                BY <1>2, <3>2
            <4>2. z[i - 1] = s[i]
                BY <1>4, <4>1
            <4> QED BY <4>1, <4>2
        <3> QED BY <1>2, <3>1, <3>2
    <2>4. \A i \in D : h.item[s[i]] = h.item[s[k]] => i = k
        BY <1>10
    <2> HIDE DEF D, E
    <2> QED BY <2>1, <2>2, <2>3, <2>4
<1>12. TodoOf(g, o, z) = IF o = NULL THEN {} ELSE TodoOf(h, s[k], s) \ {h.item[s[k]]}
    <2>1. Linked(g.next, g.head, z)
        BY <1>3 DEF SetOK
    <2>2. CASE o = NULL
        BY <2>1, <2>2, TodoFrom
    <2>3. CASE o # NULL
        <3> DEFINE E == k .. m - 1
                   K == k + 1 .. m
        <3>1. k \in 1 .. Len(z) /\ o = z[k] /\ k + 1 \in 1 .. m
            BY <1>2, <1>4, <1>7, <2>3
        <3>2. TodoOf(g, o, z) = {h.item[z[i]] : i \in E}
            <4>1. \A j \in 1 .. Len(z) : TodoOf(g, z[j], z) = RestOf(g, z, j)
                BY <2>1, TodoFrom
            <4>2. RestOf(g, z, k) = {g.item[z[i]] : i \in E}
                BY <1>4 DEF RestOf
            <4>3. TodoOf(g, o, z) = RestOf(g, z, k)
                BY <3>1, <4>1
            <4> QED BY <1>3, <4>2, <4>3
        <3>3. TodoOf(h, At(s, k + 1), s) = {h.item[s[i]] : i \in K}
            <4>1. Linked(h.next, h.head, s)
                BY <1>1 DEF SetOK
            <4> QED BY <3>1, <4>1, TodoFrom DEF At, RestOf
        <3>4. \A i \in E : i + 1 \in K /\ z[i] = s[i + 1]
            <4> SUFFICES ASSUME NEW i \in E PROVE i + 1 \in K /\ z[i] = s[i + 1]
                OBVIOUS
            <4>1. i \in 1 .. m - 1 /\ i >= k /\ i + 1 \in K
                BY <1>2
            <4> QED BY <1>4, <4>1
        <3>5. \A i \in K : i - 1 \in E /\ z[i - 1] = s[i]
            <4> SUFFICES ASSUME NEW i \in K PROVE i - 1 \in E /\ z[i - 1] = s[i]
                OBVIOUS
            <4>1. i - 1 \in 1 .. m - 1 /\ i - 1 >= k /\ i - 1 \in E /\ (i - 1) + 1 = i
                BY <1>2
            <4> QED BY <1>4, <4>1
        <3>6. (\A i \in E : \E j \in K : z[i] = s[j]) /\ (\A j \in K : \E i \in E : z[i] = s[j])
            BY <3>4, <3>5
        <3> HIDE DEF E, K
        <3>7. {h.item[z[i]] : i \in E} = {h.item[s[i]] : i \in K}
            BY <3>6
        <3>8. TodoOf(h, At(s, k + 1), s) = TodoOf(h, s[k], s) \ {h.item[s[k]]}
            BY <1>1, AdvanceStep
        <3> QED BY <2>3, <3>2, <3>3, <3>7, <3>8
    <2> QED BY <2>2, <2>3
<1> QED BY <1>8, <1>9, <1>11, <1>12 DEF z

(* set_insert adds a key that is not there.                                *)
LEMMA InsertStep ==
    ASSUME NEW h, NEW ex, NEW c, NEW q, NEW s, Holds(h, ex, c, NULL, q, s),
           "set" \in ex, NEW x \in Item, \A k \in 1 .. Len(s) : h.item[s[k]] # x,
           NEW o \in Node \ h.used, NEW g, g = set_insert(h, x, o)
    PROVE  /\ Holds(g, ex, c, NULL, q, Cons(o, s))
           /\ ReadyOf(g, q) = ReadyOf(h, q)
           /\ DelayedOf(g, Cons(o, s)) = DelayedOf(h, s) \cup {x}
<1> DEFINE z == Cons(o, s)
           m == Len(s)
<1>1. /\ h \in HeapType /\ SetOK(h, s) /\ h.used = Range(q) \cup Range(s)
      /\ Range(q) \cap Range(s) = {} /\ o \in Node \ Range(s) /\ o \notin Range(q)
      /\ IF "queue" \in ex THEN QueueOK(h, q) ELSE q = <<>>
    BY DEF Holds
<1>2. q \in Seq(Node) /\ s \in Seq(Node) /\ m \in Nat
    <2>1. q \in Seq(Node) /\ s \in Seq(Node)
        BY HoldsMeans
    <2> QED BY <2>1
<1>3. /\ g \in HeapType /\ SetOK(g, z)
      /\ g.used = h.used \cup {o}
      /\ g.front = h.front /\ g.rear = h.rear /\ g.count = h.count
      /\ Same(h, g, Node \ {o}) /\ Range(z) = Range(s) \cup {o} /\ g.item[o] = x
    BY <1>1, InsertRight
<1>4. Len(z) = m + 1 /\ z[1] = o /\ \A k \in 1 .. m : z[k + 1] = s[k]
    BY <1>2 DEF Cons
<1> HIDE DEF z
<1>5. Range(q) \subseteq Node /\ \A i \in 1 .. Len(q) : q[i] \in Range(q)
    BY <1>2 DEF Range
<1>6. Same(h, g, Range(q))
    BY <1>1, <1>3, <1>5 DEF Same
<1>7. IF "queue" \in ex THEN QueueOK(g, q) ELSE q = <<>>
    BY <1>1, <1>3, <1>6, QueueSame
<1>8. g.used = Range(q) \cup Range(z) /\ Range(q) \cap Range(z) = {}
    BY <1>1, <1>3
<1>9. Holds(g, ex, c, NULL, q, z)
    BY <1>3, <1>7, <1>8 DEF Holds
<1>10. ReadyOf(g, q) = ReadyOf(h, q)
    <2>1. \A i \in 1 .. Len(q) : g.item[q[i]] = h.item[q[i]]
        BY <1>5, <1>6 DEF Same
    <2> QED BY <2>1, SameItems
<1>11. DelayedOf(g, z) = DelayedOf(h, s) \cup {x}
    <2> DEFINE D == 1 .. m
               E == 1 .. m + 1
    <2>1. DelayedOf(g, z) = {g.item[z[i]] : i \in E} /\ DelayedOf(h, s) = {h.item[s[i]] : i \in D}
        BY <1>4 DEF DelayedOf
    <2>2. \A i \in D : g.item[s[i]] = h.item[s[i]]
        <3>1. \A i \in D : s[i] \in Node /\ s[i] # o
            BY <1>1, <1>2 DEF Range
        <3> QED BY <1>3, <3>1 DEF Same
    <2>3. \A j \in E : j = 1 \/ \E i \in D : z[j] = s[i]
        <3> SUFFICES ASSUME NEW j \in E, j # 1 PROVE j - 1 \in D /\ z[j] = s[j - 1]
            OBVIOUS
        <3>1. j - 1 \in D /\ (j - 1) + 1 = j
            BY <1>2
        <3> QED BY <1>4, <3>1
    <2>4. \A i \in D : \E j \in E : z[j] = s[i]
        <3> SUFFICES ASSUME NEW i \in D PROVE i + 1 \in E /\ z[i + 1] = s[i]
            OBVIOUS
        <3> QED BY <1>2, <1>4
    <2>5. 1 \in E /\ g.item[z[1]] = x
        BY <1>2, <1>3, <1>4
    <2> HIDE DEF D, E
    <2> QED BY <2>1, <2>2, <2>3, <2>4, <2>5
<1> QED BY <1>9, <1>10, <1>11 DEF z

(* A list that is created is empty.                                        *)
LEMMA CreateStep ==
    ASSUME NEW h, NEW ex, NEW c, NEW n, NEW q, NEW s, Holds(h, ex, c, n, q, s), c = "off"
    PROVE  /\ "queue" \notin ex => /\ Holds(queue_new(h), ex \cup {"queue"}, c, n, <<>>, s)
                                   /\ queue_new(h).item = h.item
           /\ "set" \notin ex => /\ Holds(set_new(h), ex \cup {"set"}, c, n, q, <<>>)
                                 /\ set_new(h).item = h.item
<1> USE LinkedListsAssumption
<1>1. /\ h \in HeapType /\ ex \subseteq {"queue", "set"}
      /\ IF "queue" \in ex THEN QueueOK(h, q) ELSE q = <<>>
      /\ IF "set" \in ex THEN SetOK(h, s) ELSE s = <<>>
      /\ h.used = Range(q) \cup Range(s) /\ Range(q) \cap Range(s) = {}
      /\ n = NULL
    BY DEF Holds
<1>2. 0 \in 0 .. Cardinality(Node) /\ NULL \in Pointer
    BY FS_CardinalityType DEF Pointer
<1>3. ASSUME "queue" \notin ex
      PROVE  /\ Holds(queue_new(h), ex \cup {"queue"}, c, n, <<>>, s)
             /\ queue_new(h).item = h.item
    <2> DEFINE g == queue_new(h)
    <2>1. /\ g \in HeapType /\ g.front = NULL /\ g.rear = NULL /\ g.count = 0
          /\ g.next = h.next /\ g.item = h.item /\ g.used = h.used
          /\ g.head = h.head /\ g.node_count = h.node_count
        BY <1>1, <1>2 DEF queue_new, HeapType
    <2> HIDE DEF g
    <2>2. QueueOK(g, <<>>)
        BY <2>1 DEF QueueOK, Linked, At
    <2>3. IF "set" \in ex THEN SetOK(g, s) ELSE s = <<>>
        <3>1. Same(h, g, Range(s))
            BY <2>1 DEF Same
        <3> QED BY <1>1, <2>1, <3>1, SetSame
    <2>4. Holds(g, ex \cup {"queue"}, c, n, <<>>, s)
        BY <1>1, <1>3, <2>1, <2>2, <2>3 DEF Holds
    <2> QED BY <2>1, <2>4 DEF g
<1>4. ASSUME "set" \notin ex
      PROVE  /\ Holds(set_new(h), ex \cup {"set"}, c, n, q, <<>>)
             /\ set_new(h).item = h.item
    <2> DEFINE g == set_new(h)
    <2>1. /\ g \in HeapType /\ g.head = NULL /\ g.node_count = 0
          /\ g.next = h.next /\ g.item = h.item /\ g.used = h.used
          /\ g.front = h.front /\ g.rear = h.rear /\ g.count = h.count
        BY <1>1, <1>2 DEF set_new, HeapType
    <2> HIDE DEF g
    <2>2. SetOK(g, <<>>)
        BY <2>1 DEF SetOK, Linked, At
    <2>3. IF "queue" \in ex THEN QueueOK(g, q) ELSE q = <<>>
        <3>1. Same(h, g, Range(q))
            BY <2>1 DEF Same
        <3> QED BY <1>1, <2>1, <3>1, QueueSame
    <2>4. Holds(g, ex \cup {"set"}, c, n, q, <<>>)
        BY <1>1, <1>4, <2>1, <2>2, <2>3 DEF Holds
    <2> QED BY <2>1, <2>4 DEF g
<1> QED BY <1>3, <1>4

(* A list that is deleted frees its nodes and no other.                    *)
LEMMA DeleteStep ==
    ASSUME NEW h, NEW ex, NEW c, NEW n, NEW q, NEW s, Holds(h, ex, c, n, q, s), c = "off"
    PROVE  /\ "queue" \in ex => /\ Holds(queue_delete(h), ex \ {"queue"}, c, n, <<>>, s)
                                /\ queue_delete(h).item = h.item
           /\ "set" \in ex => /\ Holds(set_delete(h), ex \ {"set"}, c, n, q, <<>>)
                              /\ set_delete(h).item = h.item
<1>1. /\ h \in HeapType /\ ex \subseteq {"queue", "set"}
      /\ IF "queue" \in ex THEN QueueOK(h, q) ELSE q = <<>>
      /\ IF "set" \in ex THEN SetOK(h, s) ELSE s = <<>>
      /\ h.used = Range(q) \cup Range(s) /\ Range(q) \cap Range(s) = {}
      /\ n = NULL
    BY DEF Holds
<1>2. /\ "queue" \in ex => Chain(h, h.front) = q
      /\ "set" \in ex => Chain(h, h.head) = s
    BY HoldsMeans
<1>3. Range(<<>>) = {}
    BY DEF Range
<1>4. ASSUME "queue" \in ex
      PROVE  /\ Holds(queue_delete(h), ex \ {"queue"}, c, n, <<>>, s)
             /\ queue_delete(h).item = h.item
    <2> DEFINE g == queue_delete(h)
    <2>1. /\ g \in HeapType /\ g.next = h.next /\ g.item = h.item
          /\ g.used = h.used \ Range(q)
          /\ g.head = h.head /\ g.node_count = h.node_count
        BY <1>1, <1>2, <1>4 DEF queue_delete, HeapType
    <2> HIDE DEF g
    <2>2. IF "set" \in ex THEN SetOK(g, s) ELSE s = <<>>
        <3>1. Same(h, g, Range(s))
            BY <2>1 DEF Same
        <3> QED BY <1>1, <2>1, <3>1, SetSame
    <2>3. g.used = Range(<<>>) \cup Range(s) /\ Range(<<>>) \cap Range(s) = {}
        BY <1>1, <1>3, <2>1
    <2>4. Holds(g, ex \ {"queue"}, c, n, <<>>, s)
        BY <1>1, <2>1, <2>2, <2>3 DEF Holds
    <2> QED BY <2>1, <2>4 DEF g
<1>5. ASSUME "set" \in ex
      PROVE  /\ Holds(set_delete(h), ex \ {"set"}, c, n, q, <<>>)
             /\ set_delete(h).item = h.item
    <2> DEFINE g == set_delete(h)
    <2>1. /\ g \in HeapType /\ g.next = h.next /\ g.item = h.item
          /\ g.used = h.used \ Range(s)
          /\ g.front = h.front /\ g.rear = h.rear /\ g.count = h.count
        BY <1>1, <1>2, <1>5 DEF set_delete, HeapType
    <2> HIDE DEF g
    <2>2. IF "queue" \in ex THEN QueueOK(g, q) ELSE q = <<>>
        <3>1. Same(h, g, Range(q))
            BY <2>1 DEF Same
        <3> QED BY <1>1, <2>1, <3>1, QueueSame
    <2>3. g.used = Range(q) \cup Range(<<>>) /\ Range(q) \cap Range(<<>>) = {}
        BY <1>1, <1>3, <2>1
    <2>4. Holds(g, ex \ {"set"}, c, n, q, <<>>)
        BY <1>1, <2>1, <2>2, <2>3 DEF Holds
    <2> QED BY <2>1, <2>4 DEF g
<1> QED BY <1>4, <1>5

-----------------------------------------------------------------------------
(* The steps of the specification                                          *)

ReadyNow == IF "queue" \in exists THEN Items(heap, heap.front) ELSE <<>>
DelayedNow == IF "set" \in exists THEN Range(Items(heap, heap.head)) ELSE {}
TodoNow == Range(Items(heap, node))

(* What the refinement reads, before and after a step.                     *)
LEMMA NowIs ==
    ASSUME NEW q, NEW s, Holds(heap, exists, clock, node, q, s)
    PROVE  /\ ListInv /\ q = QueueNodes /\ s = SetNodes
           /\ ReadyNow = ReadyOf(heap, q) /\ DelayedNow = DelayedOf(heap, s)
           /\ TodoNow = TodoOf(heap, node, s)
<1>1. q = QueueNodes /\ s = SetNodes
    BY HoldsMeans DEF QueueNodes, SetNodes
<1>2. /\ ReadyNow = ReadyOf(heap, q) /\ DelayedNow = DelayedOf(heap, s)
      /\ TodoNow = TodoOf(heap, node, s)
    BY HoldsMeans DEF ReadyNow, DelayedNow, TodoNow
<1> QED BY <1>1, <1>2 DEF ListInv

LEMMA NextIs ==
    ASSUME NEW q, NEW s, Holds(heap', exists', clock', node', q, s)
    PROVE  /\ ListInv'
           /\ ReadyNow' = ReadyOf(heap', q) /\ DelayedNow' = DelayedOf(heap', s)
           /\ TodoNow' = TodoOf(heap', node', s)
<1>1. q = QueueNodes' /\ s = SetNodes'
    BY HoldsMeans DEF QueueNodes, SetNodes
<1>2. /\ ReadyNow' = ReadyOf(heap', q) /\ DelayedNow' = DelayedOf(heap', s)
      /\ TodoNow' = TodoOf(heap', node', s)
    BY HoldsMeans DEF ReadyNow, DelayedNow, TodoNow
<1> QED BY <1>1, <1>2 DEF ListInv

(* Every step preserves the invariant and is one of Lists, or none.        *)
LEMMA ListStep ==
    ASSUME ListInv, [LinkedNext]_vars
    PROVE  ListInv' /\ [L!Next]_(L!vars)
<1> USE LinkedListsAssumption
<1> DEFINE q == QueueNodes
           s == SetNodes
           Stays == ReadyNow' = ReadyNow /\ DelayedNow' = DelayedNow /\ TodoNow' = TodoNow
<1>1. Holds(heap, exists, clock, node, q, s)
    BY DEF ListInv
<1> HIDE DEF q, s
<1>2. /\ ReadyNow = ReadyOf(heap, q) /\ DelayedNow = DelayedOf(heap, s)
      /\ TodoNow = TodoOf(heap, node, s)
      /\ q \in Seq(Node) /\ s \in Seq(Node)
    BY <1>1, NowIs, HoldsMeans
<1>3. /\ heap \in HeapType /\ exists \subseteq {"queue", "set"} /\ clock \in {"off", "walks"}
      /\ "queue" \in exists => QueueOK(heap, q)
      /\ "queue" \notin exists => q = <<>>
      /\ "set" \in exists => SetOK(heap, s)
      /\ "set" \notin exists => s = <<>>
      /\ clock = "off" => node = NULL
      /\ clock = "walks" => exists = {"queue", "set"}
      /\ node # NULL => \E k \in 1 .. Len(s) : node = s[k]
    BY <1>1 DEF Holds
<1>4. ASSUME Stays, clock' = clock PROVE [L!Next]_(L!vars)
    BY <1>4 DEF L!vars, ReadyNow, DelayedNow, TodoNow
<1>5. ASSUME UNCHANGED vars PROVE ListInv' /\ [L!Next]_(L!vars)
    <2>1. Stays /\ clock' = clock
        BY <1>5 DEF vars, ReadyNow, DelayedNow, TodoNow
    <2>2. ListInv'
        BY <1>5 DEF vars, ListInv, QueueNodes, SetNodes
    <2> QED BY <1>4, <2>1, <2>2
<1>6. CASE UseQueue
    <2>1. clock = "off" /\ "queue" \in exists /\ UNCHANGED <<exists, clock, node>>
        BY <1>6 DEF UseQueue, Use
    <2>2. CASE heap' = queue_pop(heap) /\ q = <<>>
        <3>1. heap' = heap
            BY <1>3, <2>1, <2>2, PopRight
        <3> QED BY <1>5, <2>1, <3>1 DEF vars
    <2>3. CASE heap' = queue_pop(heap) /\ q # <<>>
        <3>1. /\ Holds(heap', exists, clock, node, Tail(q), s)
              /\ ReadyOf(heap, q) # <<>> /\ ReadyOf(heap', Tail(q)) = Tail(ReadyOf(heap, q))
              /\ DelayedOf(heap', s) = DelayedOf(heap, s)
              /\ TodoOf(heap', node, s) = TodoOf(heap, node, s)
            BY <1>1, <2>1, <2>3, PopStep
        <3>2. /\ ListInv' /\ ReadyNow # <<>> /\ ReadyNow' = Tail(ReadyNow)
              /\ DelayedNow' = DelayedNow /\ TodoNow' = TodoNow
            BY <1>2, <2>1, <3>1, NextIs
        <3> QED BY <2>1, <3>2 DEF L!Next, L!Pop, ReadyNow, DelayedNow, TodoNow
    <2>4. ASSUME NEW x \in Item, NEW n \in Node \ heap.used, heap' = queue_push(heap, x, n)
          PROVE  ListInv' /\ [L!Next]_(L!vars)
        <3>1. /\ Holds(heap', exists, clock, node, Append(q, n), s)
              /\ ReadyOf(heap', Append(q, n)) = Append(ReadyOf(heap, q), x)
              /\ DelayedOf(heap', s) = DelayedOf(heap, s)
              /\ TodoOf(heap', node, s) = TodoOf(heap, node, s)
            BY <1>1, <2>1, <2>4, PushStep
        <3>2. /\ ListInv' /\ ReadyNow' = Append(ReadyNow, x)
              /\ DelayedNow' = DelayedNow /\ TodoNow' = TodoNow
            BY <1>2, <2>1, <3>1, NextIs
        <3> QED BY <2>1, <3>2 DEF L!Next, L!Push, ReadyNow, DelayedNow, TodoNow
    <2> QED BY <1>6, <2>2, <2>3, <2>4 DEF UseQueue
<1>7. CASE UseSet
    <2>1. clock = "off" /\ "set" \in exists /\ UNCHANGED <<exists, clock, node>> /\ node = NULL
        BY <1>3, <1>7 DEF UseSet, Use
    <2>2. SetOK(heap, s)
        BY <1>3, <2>1
    <2>3. ASSUME NEW x \in Item, heap' = set_pop(heap, x)
          PROVE  ListInv' /\ [L!Next]_(L!vars)
        <3>1. CASE \A k \in 1 .. Len(s) : heap.item[s[k]] # x
            <4>1. set_find(heap, x) = NULL
                BY <2>2, <3>1, FindRight
            <4>2. heap' = heap
                BY <2>3, <4>1 DEF set_pop
            <4> QED BY <1>5, <2>1, <4>2 DEF vars
        <3>2. ASSUME NEW k \in 1 .. Len(s), heap.item[s[k]] = x
              PROVE  ListInv' /\ [L!Next]_(L!vars)
            <4> DEFINE z == Without(s, k)
            <4>1. heap' = set_pop(heap, heap.item[s[k]])
                BY <2>3, <3>2
            <4>2. /\ Holds(heap', exists, clock, NULL, q, z)
                  /\ ReadyOf(heap', q) = ReadyOf(heap, q)
                  /\ DelayedOf(heap', z) = DelayedOf(heap, s) \ {heap.item[s[k]]}
                  /\ TodoOf(heap', NULL, z) = {}
                BY <1>1, <2>1, <4>1, RemoveStep
            <4> HIDE DEF z
            <4>3. TodoNow = {}
                BY <2>1, NothingFromNull DEF TodoNow
            <4>4. /\ ListInv' /\ ReadyNow' = ReadyNow
                  /\ DelayedNow' = DelayedNow \ {x} /\ TodoNow' = TodoNow
                BY <1>2, <2>1, <3>2, <4>2, <4>3, NextIs
            <4> QED BY <2>1, <4>4 DEF L!Next, L!Remove, ReadyNow, DelayedNow, TodoNow
        <3> QED BY <3>1, <3>2
    <2>4. ASSUME NEW x \in Item, NEW n \in Node \ heap.used, heap' = set_insert(heap, x, n)
          PROVE  ListInv' /\ [L!Next]_(L!vars)
        <3>1. CASE \A k \in 1 .. Len(s) : heap.item[s[k]] # x
            <4> DEFINE z == Cons(n, s)
            <4>1. /\ Holds(heap', exists, clock, NULL, q, z)
                  /\ ReadyOf(heap', q) = ReadyOf(heap, q)
                  /\ DelayedOf(heap', z) = DelayedOf(heap, s) \cup {x}
                <5>1. Holds(heap, exists, clock, NULL, q, s)
                    BY <1>1, <2>1
                <5> QED BY <2>1, <2>4, <3>1, <5>1, InsertStep
            <4> HIDE DEF z
            <4>2. TodoNow = {} /\ TodoNow' = {}
                BY <2>1, NothingFromNull DEF TodoNow
            <4>3. /\ ListInv' /\ ReadyNow' = ReadyNow
                  /\ DelayedNow' = DelayedNow \cup {x} /\ TodoNow' = TodoNow
                BY <1>2, <2>1, <4>1, <4>2, NextIs
            <4> QED BY <2>1, <4>3 DEF L!Next, L!Insert, ReadyNow, DelayedNow, TodoNow
        <3>2. ASSUME NEW k \in 1 .. Len(s), heap.item[s[k]] = x
              PROVE  ListInv' /\ [L!Next]_(L!vars)
            <4>1. set_find(heap, x) # NULL
                BY <2>2, <3>2, FindRight
            <4>2. heap' = heap
                BY <2>4, <4>1 DEF set_insert
            <4> QED BY <1>5, <2>1, <4>2 DEF vars
        <3> QED BY <3>1, <3>2
    <2> QED BY <1>7, <2>3, <2>4 DEF UseSet
<1>8. ReadyOf(heap', <<>>) = <<>> /\ DelayedOf(heap', <<>>) = {}
    BY DEF ReadyOf, DelayedOf
<1>9. ASSUME heap'.item = heap.item
      PROVE  ReadyOf(heap', q) = ReadyOf(heap, q) /\ DelayedOf(heap', s) = DelayedOf(heap, s)
    BY <1>9 DEF ReadyOf, DelayedOf
<1>10. CASE Create("queue")
    <2>1. /\ clock = "off" /\ "queue" \notin exists /\ exists' = exists \cup {"queue"}
          /\ heap' = queue_new(heap) /\ clock' = clock /\ node' = node /\ node = NULL
        BY <1>3, <1>10 DEF Create
    <2>2. Holds(heap', exists', clock', node', <<>>, s) /\ heap'.item = heap.item
        BY <1>1, <2>1, CreateStep
    <2>3. TodoNow = {} /\ TodoNow' = {}
        BY <2>1, NothingFromNull DEF TodoNow
    <2>4. ReadyNow = <<>>
        BY <2>1 DEF ReadyNow
    <2>5. ListInv' /\ Stays
        BY <1>2, <1>8, <1>9, <2>2, <2>3, <2>4, NextIs
    <2> QED BY <1>4, <2>1, <2>5
<1>11. CASE Create("set")
    <2>1. /\ clock = "off" /\ "set" \notin exists /\ exists' = exists \cup {"set"}
          /\ heap' = set_new(heap) /\ clock' = clock /\ node' = node /\ node = NULL
        BY <1>3, <1>11 DEF Create
    <2>2. Holds(heap', exists', clock', node', q, <<>>) /\ heap'.item = heap.item
        BY <1>1, <2>1, CreateStep
    <2>3. TodoNow = {} /\ TodoNow' = {}
        BY <2>1, NothingFromNull DEF TodoNow
    <2>4. DelayedNow = {}
        BY <2>1 DEF DelayedNow
    <2>5. ListInv' /\ Stays
        BY <1>2, <1>8, <1>9, <2>2, <2>3, <2>4, NextIs
    <2> QED BY <1>4, <2>1, <2>5
<1>12. CASE Delete("queue")
    <2>1. /\ clock = "off" /\ "queue" \in exists /\ exists' = exists \ {"queue"}
          /\ heap' = queue_delete(heap) /\ clock' = clock /\ node' = node /\ node = NULL
        BY <1>3, <1>12 DEF Delete
    <2>2. Holds(heap', exists', clock', node', <<>>, s) /\ heap'.item = heap.item
        BY <1>1, <2>1, DeleteStep
    <2>3. TodoNow = {} /\ TodoNow' = {}
        BY <2>1, NothingFromNull DEF TodoNow
    <2>4. ListInv' /\ ReadyNow' = <<>> /\ DelayedNow' = DelayedNow /\ TodoNow' = TodoNow
        BY <1>2, <1>8, <1>9, <2>2, <2>3, NextIs
    <2> QED BY <2>1, <2>4 DEF L!Next, L!Forget, ReadyNow, DelayedNow, TodoNow
<1>13. CASE Delete("set")
    <2>1. /\ clock = "off" /\ "set" \in exists /\ exists' = exists \ {"set"}
          /\ heap' = set_delete(heap) /\ clock' = clock /\ node' = node /\ node = NULL
        BY <1>3, <1>13 DEF Delete
    <2>2. Holds(heap', exists', clock', node', q, <<>>) /\ heap'.item = heap.item
        BY <1>1, <2>1, DeleteStep
    <2>3. TodoNow = {} /\ TodoNow' = {}
        BY <2>1, NothingFromNull DEF TodoNow
    <2>4. ListInv' /\ ReadyNow' = ReadyNow /\ DelayedNow' = {} /\ TodoNow' = TodoNow
        BY <1>2, <1>8, <1>9, <2>2, <2>3, NextIs
    <2> QED BY <2>1, <2>4 DEF L!Next, L!Clear, ReadyNow, DelayedNow, TodoNow
<1>14. CASE ClockBegins
    <2>1. /\ clock = "off" /\ exists = {"queue", "set"} /\ clock' = "walks"
          /\ node' = heap.head /\ heap' = heap /\ exists' = exists
        BY <1>14 DEF ClockBegins
    <2>2. SetOK(heap, s) /\ Len(s) \in Nat
        BY <1>2, <1>3, <2>1
    <2>3. node' = At(s, 1)
        BY <2>1, <2>2 DEF SetOK, Linked
    <2>4. node' # NULL => 1 \in 1 .. Len(s) /\ node' = s[1]
        BY <2>3 DEF At
    <2>5. Holds(heap', exists', clock', node', q, s)
        BY <1>1, <2>1, <2>4 DEF Holds
    <2>6. TodoOf(heap, At(s, 1), s) = DelayedOf(heap, s)
        <3>1. CASE Len(s) = 0
            BY <3>1 DEF TodoOf, DelayedOf
        <3>2. CASE Len(s) # 0
            <4>1. 1 \in 1 .. Len(s)
                BY <2>2, <3>2
            <4> QED BY <2>2, <4>1, AdvanceStep
        <3> QED BY <3>1, <3>2
    <2>7. ListInv' /\ ReadyNow' = ReadyNow /\ DelayedNow' = DelayedNow /\ TodoNow' = DelayedNow
        BY <1>2, <2>1, <2>3, <2>5, <2>6, NextIs
    <2> QED BY <2>1, <2>7 DEF L!Next, L!Begin, ReadyNow, DelayedNow, TodoNow
<1>15. CASE ClockVisits
    <2>1. /\ clock = "walks" /\ node # NULL /\ exists = {"queue", "set"}
          /\ node' = heap.next[node] /\ clock' = clock /\ exists' = exists
        BY <1>3, <1>15 DEF ClockVisits, NextNode
    <2>2. SetOK(heap, s) /\ QueueOK(heap, q)
        BY <1>3, <2>1
    <2>3. PICK k \in 1 .. Len(s) : node = s[k]
        BY <1>3, <2>1
    <2> DEFINE x == heap.item[s[k]]
               popped == set_pop(heap, x)
               z == Without(s, k)
    <2>4. node' = At(s, k + 1) /\ x \in Item
        BY <2>1, <2>2, <2>3 DEF SetOK, Linked
    <2>5. /\ TodoOf(heap, At(s, k + 1), s) = TodoOf(heap, s[k], s) \ {x}
          /\ x \in TodoOf(heap, s[k], s)
        BY <2>2, AdvanceStep
    <2>6. x \in TodoNow
        BY <1>2, <2>3, <2>5
    <2>7. CASE heap' = heap
        <3>1. node' # NULL => k + 1 \in 1 .. Len(s) /\ node' = s[k + 1]
            BY <2>4 DEF At
        <3>2. Holds(heap', exists', clock', node', q, s)
            BY <1>1, <2>1, <2>7, <3>1 DEF Holds
        <3>3. /\ ListInv' /\ ReadyNow' = ReadyNow /\ DelayedNow' = DelayedNow
              /\ TodoNow' = TodoNow \ {x}
            BY <1>2, <2>3, <2>4, <2>5, <2>7, <3>2, NextIs
        <3> HIDE DEF x
        <3> QED BY <2>1, <2>4, <2>6, <3>3 DEF L!Next, L!Tick, ReadyNow, DelayedNow, TodoNow
    <2>8. ASSUME NEW n \in Node \ popped.used, heap' = queue_push(popped, x, n)
          PROVE  ListInv' /\ [L!Next]_(L!vars)
        <3> DEFINE o == node'
        <3>1. /\ Holds(popped, exists, clock, o, q, z)
              /\ ReadyOf(popped, q) = ReadyOf(heap, q)
              /\ DelayedOf(popped, z) = DelayedOf(heap, s) \ {x}
              /\ TodoOf(popped, o, z) = IF o = NULL THEN {} ELSE TodoOf(heap, s[k], s) \ {x}
            <4>1. o = NULL \/ (clock = "walks" /\ o = At(s, k + 1))
                BY <2>1, <2>4
            <4>2. "set" \in exists
                BY <2>1
            <4>3. popped = set_pop(heap, heap.item[s[k]])
                OBVIOUS
            <4> HIDE DEF popped, o
            <4>4. Holds(popped, exists, clock, o, q, Without(s, k))
                BY <1>1, <4>1, <4>2, <4>3, RemoveStep
            <4>5. /\ ReadyOf(popped, q) = ReadyOf(heap, q)
                  /\ DelayedOf(popped, Without(s, k)) = DelayedOf(heap, s) \ {heap.item[s[k]]}
                BY <1>1, <4>1, <4>2, <4>3, RemoveStep
            <4>6. CASE o = NULL
                <5>1. TodoOf(popped, o, Without(s, k)) = {}
                    BY <1>1, <4>1, <4>2, <4>3, <4>6, RemoveStep
                <5> QED BY <4>4, <4>5, <4>6, <5>1
            <4>7. CASE o # NULL
                <5>1. TodoOf(popped, o, Without(s, k)) = TodoOf(heap, s[k], s) \ {heap.item[s[k]]}
                    BY <1>1, <4>1, <4>2, <4>3, <4>7, RemoveStep, SMTT(60)
                <5> QED BY <4>4, <4>5, <4>7, <5>1
            <4> QED BY <4>6, <4>7
        <3>2. TodoOf(popped, o, z) = TodoOf(heap, s[k], s) \ {x}
            <4>1. Linked(heap.next, heap.head, s)
                BY <2>2 DEF SetOK
            <4>2. TodoOf(heap, NULL, s) = {}
                BY <4>1, TodoFrom
            <4> QED BY <2>4, <2>5, <3>1, <4>2
        <3> HIDE DEF x, popped, z, o
        <3>3. /\ Holds(heap', exists, clock, o, Append(q, n), z)
              /\ ReadyOf(heap', Append(q, n)) = Append(ReadyOf(popped, q), x)
              /\ DelayedOf(heap', z) = DelayedOf(popped, z)
              /\ TodoOf(heap', o, z) = TodoOf(popped, o, z)
            BY <2>1, <2>4, <2>8, <3>1, PushStep
        <3>4. /\ ListInv' /\ ReadyNow' = Append(ReadyNow, x) /\ DelayedNow' = DelayedNow \ {x}
              /\ TodoNow' = TodoNow \ {x}
            BY <1>2, <2>1, <2>3, <3>1, <3>2, <3>3, NextIs DEF o
        <3> QED BY <2>1, <2>4, <2>6, <3>4 DEF L!Next, L!Tick, ReadyNow, DelayedNow, TodoNow
    <2> HIDE DEF x, popped
    <2>9. heap' \in {heap} \cup {queue_push(popped, x, n) : n \in Node \ popped.used}
        BY <1>15, <2>3 DEF ClockVisits, x, popped
    <2> QED BY <2>7, <2>8, <2>9
<1>16. CASE ClockEnds
    <2>1. /\ clock = "walks" /\ node = NULL /\ clock' = "off"
          /\ heap' = heap /\ exists' = exists /\ node' = node
        BY <1>16 DEF ClockEnds
    <2>2. Holds(heap', exists', clock', node', q, s)
        BY <1>1, <2>1 DEF Holds
    <2>3. TodoNow = {} /\ TodoNow' = {}
        BY <2>1, NothingFromNull DEF TodoNow
    <2>4. ListInv' /\ Stays
        BY <1>2, <2>1, <2>2, <2>3, NextIs
    <2> QED BY <2>1, <2>3, <2>4 DEF L!Next, L!End, ReadyNow, DelayedNow, TodoNow
<1> QED BY <1>5, <1>6, <1>7, <1>10, <1>11, <1>12, <1>13, <1>14, <1>15, <1>16 DEF LinkedNext

-----------------------------------------------------------------------------
(* The lists are always well formed, whatever nodes malloc hands out.      *)
THEOREM ListInvHolds == LinkedSpec => []ListInv
<1>1. LinkedInit => ListInv
    <2> SUFFICES ASSUME LinkedInit PROVE ListInv
        OBVIOUS
    <2>1. /\ exists = {} /\ clock = "off" /\ node = NULL /\ QueueNodes = <<>> /\ SetNodes = <<>>
          /\ heap.used = {}
        BY DEF LinkedInit, QueueNodes, SetNodes
    <2>2. 0 \in 0 .. Cardinality(Node) /\ NULL \in Pointer
        BY LinkedListsAssumption, FS_CardinalityType DEF Pointer
    <2>3. heap \in HeapType
        BY <2>2 DEF LinkedInit, HeapType
    <2>4. Range(<<>>) = {}
        BY DEF Range
    <2> QED BY <2>1, <2>3, <2>4 DEF ListInv, Holds
<1>2. ListInv /\ [LinkedNext]_vars => ListInv'
    BY ListStep
<1> QED BY <1>1, <1>2, PTL DEF LinkedSpec

(* The lists keep their types: the counters stay within the number of      *)
(* nodes, and the pointers of nodes, lists and walk are null or to nodes.  *)
THEOREM ListTypeCorrect == LinkedSpec => []LinkedTypeOK
<1>1. ListInv => LinkedTypeOK
    <2> SUFFICES ASSUME ListInv PROVE LinkedTypeOK
        OBVIOUS
    <2>1. /\ heap \in HeapType /\ exists \subseteq {"queue", "set"}
          /\ clock \in {"off", "walks"}
          /\ node # NULL => \E k \in 1 .. Len(SetNodes) : node = SetNodes[k]
        BY DEF ListInv, Holds
    <2>2. SetNodes \in Seq(Node)
        BY HoldsMeans DEF ListInv
    <2>3. node \in Pointer
        BY <2>1, <2>2 DEF Pointer
    <2> QED BY <2>1, <2>3 DEF LinkedTypeOK, HeapType
<1> QED BY <1>1, ListInvHolds, PTL

(* No node leaks, is on two lists or twice on one, and none that is on a   *)
(* list, at its end or next in the walk of the clock trap was freed.       *)
THEOREM NoNodeLost == LinkedSpec => []NodesAccounted
<1>1. ListInv => NodesAccounted
    <2> SUFFICES ASSUME ListInv PROVE NodesAccounted
        OBVIOUS
    <2> DEFINE q == QueueNodes
               s == SetNodes
    <2>1. Holds(heap, exists, clock, node, q, s)
        BY DEF ListInv
    <2> HIDE DEF q, s
    <2>2. /\ q \in Seq(Node) /\ s \in Seq(Node)
          /\ \A i, j \in 1 .. Len(q) : q[i] = q[j] => i = j
          /\ \A i, j \in 1 .. Len(s) : s[i] = s[j] => i = j
        BY <2>1, HoldsMeans
    <2>3. /\ heap.used = Range(q) \cup Range(s) /\ Range(q) \cap Range(s) = {}
          /\ "queue" \in exists => heap.rear = At(q, Len(q))
          /\ node # NULL => \E k \in 1 .. Len(s) : node = s[k]
        BY <2>1 DEF Holds, QueueOK
    <2>4. /\ IsFiniteSet(Range(q)) /\ Cardinality(Range(q)) = Len(q)
          /\ IsFiniteSet(Range(s)) /\ Cardinality(Range(s)) = Len(s)
        BY <2>2, DifferentNodes
    <2>5. Cardinality(heap.used) = Len(q) + Len(s)
        <3>1. Cardinality(Range(q) \cup Range(s)) =
                Cardinality(Range(q)) + Cardinality(Range(s)) - Cardinality(Range(q) \cap Range(s))
            BY <2>4, FS_Union
        <3>2. Cardinality(Range(q) \cap Range(s)) = 0
            BY <2>3, FS_EmptySet
        <3>3. Cardinality(heap.used) = Cardinality(Range(q) \cup Range(s))
            BY <2>3
        <3>4. Len(q) \in Nat /\ Len(s) \in Nat
            BY <2>2
        <3> QED BY <2>4, <3>1, <3>2, <3>3, <3>4
    <2>6. "queue" \in exists => heap.rear = IF q = <<>> THEN NULL ELSE Last(q)
        <3>1. CASE q = <<>>
            BY <2>3, <3>1 DEF At
        <3>2. CASE q # <<>>
            <4>1. Len(q) \in 1 .. Len(q)
                BY <2>2, <3>2
            <4> QED BY <2>3, <3>2, <4>1 DEF At, Last
        <3> QED BY <3>1, <3>2
    <2>7. node # NULL => node \in Range(s)
        BY <2>2, <2>3 DEF Range
    <2> QED BY <2>3, <2>5, <2>6, <2>7 DEF NodesAccounted, q, s
<1> QED BY <1>1, ListInvHolds, PTL

(* The counters that queue.c and set.c keep are the lengths of the lists,  *)
(* and no key is twice in a set.                                           *)
THEOREM CountersRight == LinkedSpec => []CountsRight
<1>1. ListInv => CountsRight
    <2> SUFFICES ASSUME ListInv PROVE CountsRight
        OBVIOUS
    <2> DEFINE q == QueueNodes
               s == SetNodes
               D == 1 .. Len(s)
               V == {heap.item[n] : n \in Range(s)}
    <2>1. Holds(heap, exists, clock, node, q, s)
        BY DEF ListInv
    <2> HIDE DEF q, s
    <2>2. s \in Seq(Node) /\ Len(s) \in Nat /\ DOMAIN s = D
        <3>1. s \in Seq(Node)
            BY <2>1, HoldsMeans
        <3> QED BY <3>1
    <2>3. "queue" \in exists => heap.count = Len(q)
        BY <2>1 DEF Holds, QueueOK
    <2>4. ASSUME "set" \in exists PROVE heap.node_count = Cardinality(V)
        <3> DEFINE f == [k \in D |-> heap.item[s[k]]]
        <3>1. /\ heap.node_count = Len(s)
              /\ \A i, j \in D : heap.item[s[i]] = heap.item[s[j]] => i = j
            BY <2>1, <2>4 DEF Holds, SetOK
        <3>2. Range(s) = {s[k] : k \in D}
            <4> HIDE DEF D
            <4> QED BY <2>2, Zenon DEF Range
        <3> HIDE DEF D
        <3>3. V = {heap.item[s[k]] : k \in D}
            BY <3>2
        <3>4. f \in Bijection(D, V)
            <4> HIDE DEF V
            <4>1. f \in [D -> V] /\ \A k \in D : f[k] = heap.item[s[k]]
                BY <3>3
            <4>2. \A v \in V : \E k \in D : f[k] = v
                BY <3>3
            <4> HIDE DEF f
            <4> QED BY <3>1, <4>1, <4>2 DEF Bijection, Injection, Surjection, IsInjective
        <3>5. IsFiniteSet(D) /\ Cardinality(D) = Len(s)
            <4>1. Cardinality(1 .. Len(s)) = IF 1 > Len(s) THEN 0 ELSE Len(s) - 1 + 1
                BY <2>2, FS_Interval
            <4> QED BY <2>2, <4>1, FS_Interval, SMTT(60) DEF D
        <3>6. ExistsBijection(D, V)
            BY <3>4 DEF ExistsBijection
        <3> HIDE DEF V
        <3> QED BY <3>1, <3>5, <3>6, FS_Bijection
    <2> QED BY <2>3, <2>4 DEF CountsRight, q, s
<1> QED BY <1>1, ListInvHolds, PTL

(* The linked lists implement a sequence and a set, and the clock trap     *)
(* comes to every delayed process once although it frees nodes on its way. *)
THEOREM ListsRefined == LinkedSpec => ListsImplemented
<1>1. LinkedInit => L!Init
    <2> SUFFICES ASSUME LinkedInit PROVE L!Init
        OBVIOUS
    <2>1. exists = {} /\ clock = "off" /\ node = NULL
        BY DEF LinkedInit
    <2>2. Range(Items(heap, node)) = {}
        BY <2>1, NothingFromNull
    <2> QED BY <2>1, <2>2 DEF L!Init
<1>2. ListInv /\ [LinkedNext]_vars => [L!Next]_(L!vars)
    BY ListStep
<1> QED BY <1>1, <1>2, ListInvHolds, PTL DEF LinkedSpec, ListsImplemented, L!Spec
=============================================================================
