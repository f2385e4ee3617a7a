----------------------------- MODULE TimerProofs ----------------------------
(* The timers, for any size of the wheel, any delays and any functions.      *)
EXTENDS LuaTimers, SequenceTheorems, WellFoundedInduction, TLAPS

-----------------------------------------------------------------------------
(* Numbers                                                                   *)

\* A set of numbers has a least one: what the inductions below begin with.
LEMMA LeastNat ==
  ASSUME NEW T, T \subseteq Nat, T # {}
  PROVE  \E x \in T : \A y \in T : x <= y
<1> DEFINE R == OpToRel(<, Nat)
<1>1. IsWellFoundedOn(R, Nat)
  BY NatLessThanWellFounded
<1>2. \A x, y \in Nat : x < y => <<x, y>> \in R
  BY DEF OpToRel
<1> HIDE DEF R
<1>3. PICK x \in T : \A y \in T : ~(<<y, x>> \in R)
  BY <1>1, WFMin
<1>4. ASSUME NEW y \in T
      PROVE  x <= y
  <2>1. x \in Nat /\ y \in Nat
    OBVIOUS
  <2>2. ASSUME y < x
        PROVE  FALSE
    <3>1. <<y, x>> \in R
      BY <1>2, <2>1, <2>2
    <3> QED
      BY <1>3, <3>1
  <2> QED
    BY <2>1, <2>2
<1> QED
  BY <1>4

-----------------------------------------------------------------------------
(* Heaps                                                                     *)

\* The children of node i are not less than its parent.
Grand(h, i) == i > 1 => \A j \in 2..Size(h) : j \div 2 = i => Value(h, i \div 2) <= Value(h, j)

\* Node i may be in the wrong place; or it is too low at most; or too high.
Aside(h, i) == Grand(h, i) /\ \A j \in 2..Size(h) : j # i /\ j \div 2 # i => Edge(h, j)
Low(h, i) == Grand(h, i) /\ \A j \in 2..Size(h) : j # i => Edge(h, j)
High(h, i) == Grand(h, i) /\ \A j \in 2..Size(h) : j \div 2 # i => Edge(h, j)

\* Two heaps with the same keys and values.
SameContent(h, g) ==
    \A k \in Key :
        /\ h.index[k] = 0 <=> g.index[k] = 0
        /\ h.index[k] # 0 => Value(h, h.index[k]) = Value(g, g.index[k])

\* What the nodes and the index of a heap are.
LEMMA HeapIs ==
  ASSUME NEW h \in Heap
  PROVE  /\ Size(h) \in Nat
         /\ \A i \in 1..Size(h) : h.nodes[i] \in Node /\ h.nodes[i].key \in Key /\ Value(h, i) \in Int
         /\ h.nodes \in Seq(Node) /\ h.index \in [Key -> Nat]
<1>1. h.nodes \in Seq(Node) /\ h.index \in [Key -> Nat]
  BY DEF Heap
<1>2. Len(h.nodes) \in Nat /\ \A i \in 1..Len(h.nodes) : h.nodes[i] \in Node
  BY <1>1, LenProperties, ElementOfSeq
<1> QED
  BY <1>1, <1>2 DEF Size, Value, Node

\* An array of nodes is a sequence.
LEMMA ArrayIs ==
  ASSUME NEW n \in Nat, NEW q \in [1..n -> Node]
  PROVE  q \in Seq(Node) /\ Len(q) = n
OBVIOUS

\* Two nodes change places, and their index follows.
LEMMA Swapped ==
  ASSUME NEW h, Indexed(h), NEW i \in 1..Size(h), NEW j \in 1..Size(h), i # j
  PROVE  /\ Indexed(Swap(h, i, j)) /\ Size(Swap(h, i, j)) = Size(h)
         /\ \A m \in 1..Size(h) :
               Value(Swap(h, i, j), m) = IF m = i THEN Value(h, j) ELSE IF m = j THEN Value(h, i) ELSE Value(h, m)
         /\ SameContent(h, Swap(h, i, j))
<1> DEFINE g == Swap(h, i, j)
<1>1. /\ Size(h) \in Nat /\ h.nodes \in Seq(Node) /\ h.index \in [Key -> Nat]
      /\ \A m \in 1..Size(h) : h.nodes[m] \in Node /\ h.nodes[m].key \in Key
  BY HeapIs DEF Indexed
<1>2. g.nodes = [h.nodes EXCEPT ![i] = h.nodes[j], ![j] = h.nodes[i]]
      /\ g.index = [h.index EXCEPT ![h.nodes[j].key] = i, ![h.nodes[i].key] = j]
      /\ g = [nodes |-> g.nodes, index |-> g.index]
  BY DEF Swap
<1>3. h.nodes \in [1..Size(h) -> Node]
  BY <1>1, LenProperties DEF Size
<1>4. g.nodes \in [1..Size(h) -> Node]
      /\ \A m \in 1..Size(h) :
            g.nodes[m] = IF m = i THEN h.nodes[j] ELSE IF m = j THEN h.nodes[i] ELSE h.nodes[m]
  BY <1>1, <1>2, <1>3
<1>5. g.nodes \in Seq(Node) /\ Size(g) = Size(h)
  <2>1. PICK n \in Nat : n = Size(h)
    BY <1>1
  <2>2. PICK q \in [1..n -> Node] : q = g.nodes
    BY <1>4, <2>1
  <2>3. q \in Seq(Node) /\ Len(q) = n
    BY ArrayIs
  <2> QED
    BY <2>1, <2>2, <2>3 DEF Size
<1>6. h.nodes[i].key # h.nodes[j].key
  BY DEF Indexed
<1>7. g.index \in [Key -> Nat]
      /\ \A k \in Key : g.index[k] = IF k = h.nodes[j].key THEN i ELSE IF k = h.nodes[i].key THEN j ELSE h.index[k]
  <2>1. i \in Nat /\ j \in Nat
    BY <1>1
  <2> QED
    BY <1>1, <1>2, <1>6, <2>1
<1> HIDE DEF g
<1>8. \A m \in 1..Size(h) : g.index[g.nodes[m].key] = m
  <2> TAKE m \in 1..Size(h)
  <2>1. CASE m = i \/ m = j
    BY <1>1, <1>4, <1>6, <1>7, <2>1
  <2>2. CASE m # i /\ m # j
    <3>1. h.nodes[m].key \in Key /\ h.nodes[m].key # h.nodes[i].key /\ h.nodes[m].key # h.nodes[j].key
      BY <1>1, <2>2 DEF Indexed
    <3>2. h.index[h.nodes[m].key] = m
      BY DEF Indexed
    <3> QED
      BY <1>4, <1>7, <2>2, <3>1, <3>2
  <2> QED
    BY <2>1, <2>2
<1>9. \A k \in Key : g.index[k] # 0 => g.index[k] \in 1..Size(h) /\ g.nodes[g.index[k]].key = k
  <2> TAKE k \in Key
  <2>1. CASE k = h.nodes[i].key \/ k = h.nodes[j].key
    BY <1>4, <1>6, <1>7, <2>1
  <2>2. CASE k # h.nodes[i].key /\ k # h.nodes[j].key
    <3>1. g.index[k] = h.index[k]
      BY <1>7, <2>2
    <3>2. h.index[k] # 0 => h.index[k] \in 1..Size(h) /\ h.nodes[h.index[k]].key = k
      BY DEF Indexed
    <3> QED
      BY <1>4, <2>2, <3>1, <3>2
  <2> QED
    BY <2>1, <2>2
<1>10. g \in Heap
  BY <1>2, <1>5, <1>7 DEF Heap
<1>11. Indexed(g)
  BY <1>5, <1>8, <1>9, <1>10 DEF Indexed
<1>12. SameContent(h, g)
  <2> SUFFICES ASSUME NEW k \in Key
               PROVE  /\ h.index[k] = 0 <=> g.index[k] = 0
                      /\ h.index[k] # 0 => Value(h, h.index[k]) = Value(g, g.index[k])
    BY DEF SameContent
  <2>0. /\ h.index[h.nodes[i].key] = i /\ h.index[h.nodes[j].key] = j /\ i # 0 /\ j # 0
    BY <1>1 DEF Indexed
  <2>1. CASE k = h.nodes[i].key
    BY <1>4, <1>6, <1>7, <2>0, <2>1 DEF Value
  <2>2. CASE k = h.nodes[j].key
    BY <1>4, <1>6, <1>7, <2>0, <2>2 DEF Value
  <2>3. CASE k # h.nodes[i].key /\ k # h.nodes[j].key
    <3>1. g.index[k] = h.index[k]
      BY <1>7, <2>3
    <3>2. h.index[k] # 0 => h.index[k] \in 1..Size(h) /\ h.nodes[h.index[k]].key = k
      BY DEF Indexed
    <3> QED
      BY <1>4, <2>3, <3>1, <3>2 DEF Value
  <2> QED
    BY <2>1, <2>2, <2>3
<1>13. \A m \in 1..Size(h) :
          Value(g, m) = IF m = i THEN Value(h, j) ELSE IF m = j THEN Value(h, i) ELSE Value(h, m)
  BY <1>4 DEF Value
<1> QED
  BY <1>5, <1>11, <1>12, <1>13 DEF g

\* An ordered heap is ordered around each of its nodes.
LEMMA OrderedHigh ==
  ASSUME NEW h \in Heap, Ordered(h), NEW i \in 1..Size(h)
  PROVE  High(h, i)
<1>1. Size(h) \in Nat /\ \A m \in 1..Size(h) : Value(h, m) \in Int
  BY HeapIs
<1>2. ASSUME i > 1, NEW j \in 2..Size(h), j \div 2 = i
      PROVE  Value(h, i \div 2) <= Value(h, j)
  <2>1. i \in 2..Size(h) /\ i \div 2 \in 1..Size(h)
    BY <1>1, <1>2
  <2>2. Value(h, i \div 2) <= Value(h, i) /\ Value(h, i) <= Value(h, j)
    BY <1>2, <2>1 DEF Ordered, Edge
  <2> QED
    BY <1>1, <2>1, <2>2
<1> QED
  BY <1>2 DEF High, Grand, Ordered

-----------------------------------------------------------------------------
(* shift_up                                                                  *)

\* A turn of shift_up leaves a heap in which the node it is at may be too low,
\* at most; or it ends the loop.
LEMMA Climbed ==
  ASSUME NEW h, Indexed(h), NEW i \in 1..Size(h), Aside(h, i)
  PROVE  LET t == Climb([heap |-> h, at |-> i])
         IN  /\ Indexed(t.heap) /\ Size(t.heap) = Size(h) /\ SameContent(h, t.heap)
             /\ t.at \in 1..Size(h)
             /\ \/ t = [heap |-> h, at |-> i] /\ High(h, i) /\ (Low(h, i) => Ordered(h))
                \/ t.at < i /\ Low(t.heap, t.at)
<1> DEFINE up == i \div 2
           s == [heap |-> h, at |-> i]
           g == Swap(h, up, i)
<1>1. h \in Heap /\ Size(h) \in Nat /\ \A m \in 1..Size(h) : Value(h, m) \in Int
  BY HeapIs DEF Indexed
<1>2. SameContent(h, h)
  BY DEF SameContent
<1>3. s.heap = h /\ s.at = i
  OBVIOUS
<1> SUFFICES LET t == Climb(s)
             IN  /\ Indexed(t.heap) /\ Size(t.heap) = Size(h) /\ SameContent(h, t.heap)
                 /\ t.at \in 1..Size(h)
                 /\ \/ t = s /\ High(h, i) /\ (Low(h, i) => Ordered(h))
                    \/ t.at < i /\ Low(t.heap, t.at)
  OBVIOUS
<1> HIDE DEF s
<1>4. CASE ~(i > 1 /\ Value(h, i) <= Value(h, up))
  <2>1. Climb(s) = s
    BY <1>3, <1>4 DEF Climb
  <2>2. i > 1 => Edge(h, i)
    <3>1. i > 1 => up \in 1..Size(h)
      BY <1>1
    <3> QED
      BY <1>1, <1>4, <3>1 DEF Edge
  <2>3. \A j \in 2..Size(h) : j \div 2 # i => Edge(h, j)
    BY <1>1, <2>2 DEF Aside
  <2>4. Low(h, i) => Ordered(h)
    BY <1>1, <2>2 DEF Low, Ordered
  <2>5. High(h, i)
    BY <2>3 DEF High, Aside
  <2> QED
    BY <1>2, <1>3, <2>1, <2>4, <2>5
<1>5. CASE i > 1 /\ Value(h, i) <= Value(h, up)
  <2>1. up \in 1..Size(h) /\ up # i /\ up < i
    BY <1>1, <1>5
  <2>2. Climb(s) = [heap |-> g, at |-> up]
    BY <1>3, <1>5 DEF Climb
  <2>3. Indexed(g) /\ Size(g) = Size(h) /\ SameContent(h, g)
        /\ \A m \in 1..Size(h) :
              Value(g, m) = IF m = up THEN Value(h, i) ELSE IF m = i THEN Value(h, up) ELSE Value(h, m)
    BY <2>1, Swapped
  <2> HIDE DEF g
  <2>4. ASSUME NEW j \in 2..Size(h), j # up
        PROVE  Edge(g, j)
    <3>0. j \div 2 \in 1..Size(h) /\ j \in 1..Size(h) /\ j \div 2 # j
      BY <1>1
    <3>1. CASE j = i
      BY <1>5, <2>1, <2>3, <3>0, <3>1 DEF Edge
    <3>2. CASE j # i /\ j \div 2 = i
      <4>1. Value(h, up) <= Value(h, j)
        BY <1>5, <3>2 DEF Aside, Grand
      <4> QED
        BY <2>1, <2>3, <2>4, <3>0, <3>2, <4>1 DEF Edge
    <3>3. CASE j # i /\ j \div 2 = up
      <4>1. Value(h, up) <= Value(h, j)
        BY <2>1, <3>3 DEF Aside, Edge
      <4>2. Value(h, i) <= Value(h, j)
        BY <1>1, <1>5, <2>1, <3>0, <4>1
      <4> QED
        BY <2>1, <2>3, <2>4, <3>0, <3>3, <4>2 DEF Edge
    <3>4. CASE j # i /\ j \div 2 # i /\ j \div 2 # up
      <4>1. Edge(h, j)
        BY <3>4 DEF Aside
      <4> QED
        BY <2>3, <2>4, <3>0, <3>4, <4>1 DEF Edge
    <3> QED
      BY <3>1, <3>2, <3>3, <3>4
  <2>5. ASSUME up > 1, NEW j \in 2..Size(h), j \div 2 = up
        PROVE  Value(g, up \div 2) <= Value(g, j)
    <3>0. up \in 2..Size(h) /\ up \div 2 \in 1..Size(h) /\ up \div 2 # up /\ up \div 2 # i /\ up # i
      BY <1>1, <2>1, <2>5
    <3>1. Value(h, up \div 2) <= Value(h, up)
      BY <3>0 DEF Aside, Edge
    <3>2. j # i => Value(h, up) <= Value(h, j)
      BY <2>1, <2>5 DEF Aside, Edge
    <3>3. j \in 1..Size(h) /\ j # up
      BY <1>1, <2>5
    <3>4. Value(g, up \div 2) = Value(h, up \div 2)
      BY <2>3, <3>0
    <3>5. CASE j = i
      BY <2>1, <2>3, <3>1, <3>4, <3>5
    <3>6. CASE j # i
      <4>1. Value(g, j) = Value(h, j)
        BY <2>3, <3>3, <3>6
      <4> QED
        BY <1>1, <3>0, <3>1, <3>2, <3>3, <3>4, <3>6, <4>1
    <3> QED
      BY <3>5, <3>6
  <2>6. Low(g, up)
    BY <2>3, <2>4, <2>5 DEF Low, Grand
  <2> HIDE DEF up
  <2> QED
    BY <2>1, <2>2, <2>3, <2>6
<1> QED
  BY <1>4, <1>5

\* The turns of the loop, one after the other.
Climbing(h, i, f, n) == IF n = 0 THEN [heap |-> h, at |-> i] ELSE Climb(f[n - 1])

\* The loop of shift_up is a sequence of heaps: the turns are defined one after
\* the other.
LEMMA ClimbingExists ==
  ASSUME NEW h, NEW i, NEW L \in Nat
  PROVE  \E f : f = [n \in 0..L |-> Climbing(h, i, f, n)]
<1> DEFINE Until(j, f) == /\ f = [n \in 0..L |-> f[n]]
                          /\ \A n \in 0..L : n <= j => f[n] = Climbing(h, i, f, n)
           T == {j \in 0..L : ~ \E f : Until(j, f)}
<1>1. CASE T = {}
  <2>1. PICK f : Until(L, f)
    BY <1>1
  <2>2. \A n \in 0..L : f[n] = Climbing(h, i, f, n)
    BY <2>1
  <2>3. f = [n \in 0..L |-> Climbing(h, i, f, n)]
    BY <2>1, <2>2 DEF Climbing
  <2> QED
    BY <2>3
<1>2. CASE T # {}
  <2>0. T \subseteq Nat
    OBVIOUS
  <2>1. PICK j \in T : \A k \in T : j <= k
    <3> HIDE DEF T
    <3> QED
      BY <1>2, <2>0, LeastNat
  <2>2. j \in 0..L /\ ~ \E f : Until(j, f)
    BY <2>1
  <2>3. CASE j = 0
    <3> DEFINE g == [n \in 0..L |-> [heap |-> h, at |-> i]]
    <3>1. Until(0, g)
      BY DEF Climbing
    <3> QED
      BY <2>2, <2>3, <3>1
  <2>4. CASE j # 0
    <3>1. j - 1 \in 0..L /\ j - 1 \notin T
      BY <2>1, <2>2, <2>4
    <3>2. PICK f : Until(j - 1, f)
      BY <3>1
    <3> DEFINE g == [n \in 0..L |-> Climbing(h, i, f, n)]
    <3>3. \A n \in 0..L : n <= j - 1 => g[n] = f[n]
      BY <3>2
    <3>4. \A n \in 0..L : n <= j => g[n] = Climbing(h, i, g, n)
      <4> SUFFICES ASSUME NEW n \in 0..L, n <= j
                   PROVE  g[n] = Climbing(h, i, g, n)
        OBVIOUS
      <4>1. g[n] = Climbing(h, i, f, n)
        OBVIOUS
      <4>2. n # 0 => g[n - 1] = f[n - 1]
        <5>1. n # 0 => n - 1 \in 0..L /\ n - 1 <= j - 1
          BY <2>2
        <5> HIDE DEF g
        <5> QED
          BY <3>3, <5>1
      <4> HIDE DEF g
      <4> QED
        BY <4>1, <4>2 DEF Climbing
    <3>5. g = [n \in 0..L |-> g[n]]
      OBVIOUS
    <3> HIDE DEF g
    <3>6. Until(j, g)
      BY <3>4, <3>5
    <3> QED
      BY <2>2, <3>6
  <2> QED
    BY <2>3, <2>4
<1> QED
  BY <1>1, <1>2

\* shift_up is the last turn of its loop.
LEMMA ShiftUpUnfolds ==
  ASSUME NEW h, NEW i \in Nat
  PROVE  \E f : f = [n \in 0..i |-> Climbing(h, i, f, n)] /\ ShiftUp(h, i) = f[i].heap
<1> DEFINE P(f) == f = [n \in 0..i |-> Climbing(h, i, f, n)]
           k == CHOOSE f : P(f)
<1>1. ShiftUp(h, i) = k[i].heap
  BY Zenon DEF ShiftUp, Climbing
<1>2. \E f : P(f)
  BY ClimbingExists
<1> HIDE DEF P
<1>3. P(k)
  BY <1>2
<1> QED
  BY <1>1, <1>3 DEF P

\* Content is compared along a chain of heaps.
LEMMA SameAgain ==
  ASSUME NEW h, NEW g, NEW f, SameContent(h, g), SameContent(g, f)
  PROVE  SameContent(h, f)
BY DEF SameContent

\* shift_up keeps the index and the content; when the node is only too low
\* the heap is in order after it, otherwise but for the node's children.
LEMMA ShiftedUp ==
  ASSUME NEW h, Indexed(h), NEW i \in 1..Size(h), Aside(h, i)
  PROVE  /\ Indexed(ShiftUp(h, i)) /\ Size(ShiftUp(h, i)) = Size(h) /\ SameContent(h, ShiftUp(h, i))
         /\ High(ShiftUp(h, i), i)
         /\ Low(h, i) => Ordered(ShiftUp(h, i))
<1>0. h \in Heap /\ Size(h) \in Nat /\ i \in Nat
  BY HeapIs DEF Indexed
<1>1. PICK f : f = [n \in 0..i |-> Climbing(h, i, f, n)] /\ ShiftUp(h, i) = f[i].heap
  BY <1>0, ShiftUpUnfolds
<1> DEFINE Kept(t) ==
             /\ Indexed(t.heap) /\ Size(t.heap) = Size(h) /\ SameContent(h, t.heap)
             /\ t = [heap |-> t.heap, at |-> t.at] /\ t.at \in 1..Size(h)
           Over(t) == High(t.heap, i) /\ (Low(h, i) => Ordered(t.heap)) /\ Climb(t) = t
           Sofar(n) ==
             /\ Kept(f[n])
             /\ \/ Over(f[n])
                \/ n = 0 /\ f[n] = [heap |-> h, at |-> i]
                \/ f[n].at + n <= i /\ Low(f[n].heap, f[n].at)
           T == {n \in 0..i : ~Sofar(n)}
<1>2. /\ f[0] = [heap |-> h, at |-> i]
      /\ \A n \in 1..i : f[n] = Climb(f[n - 1])
  <2>1. \A n \in 0..i : f[n] = Climbing(h, i, f, n)
    BY <1>1
  <2> QED
    BY <1>0, <2>1 DEF Climbing
<1>3. SameContent(h, h)
  BY DEF SameContent
<1>4. T = {}
  <2> SUFFICES ASSUME T # {} PROVE FALSE
    OBVIOUS
  <2>0. T \subseteq Nat
    BY <1>0
  <2>1. PICK n \in T : \A k \in T : n <= k
    <3> HIDE DEF T
    <3> QED
      BY <2>0, LeastNat
  <2>2. n \in 0..i /\ ~Sofar(n)
    BY <2>1
  <2>3. n # 0
    <3>1. Kept(f[0])
      BY <1>2, <1>3
    <3>2. Sofar(0)
      BY <1>2, <3>1
    <3> QED
      BY <2>2, <3>2
  <2>4. n - 1 \in 0..i /\ Sofar(n - 1) /\ n \in 1..i
    <3>1. n - 1 \in 0..i /\ n \in 1..i
      BY <1>0, <2>2, <2>3
    <3>2. n - 1 \notin T
      BY <1>0, <2>1, <2>2, <3>1
    <3> QED
      BY <3>1, <3>2
  <2>5. PICK t : t = f[n - 1]
    OBVIOUS
  <2>6. f[n] = Climb(t) /\ Kept(t)
    BY <1>2, <2>4, <2>5
  <2>7. ~Over(t)
    <3>1. Over(t) => f[n] = t
      BY <2>6
    <3>2. Over(t) => Sofar(n)
      BY <2>6, <3>1
    <3> QED
      BY <2>2, <3>2
  <2>8. \/ n - 1 = 0 /\ t = [heap |-> h, at |-> i]
        \/ t.at + (n - 1) <= i /\ Low(t.heap, t.at)
    BY <2>4, <2>5, <2>7
  <2>9. Aside(t.heap, t.at)
    <3>1. Low(t.heap, t.at) => Aside(t.heap, t.at)
      BY DEF Low, Aside
    <3> QED
      BY <2>8, <3>1
  <2>10. t.at + (n - 1) <= i
    BY <1>0, <2>8
  <2>11. PICK g, a : g = t.heap /\ a = t.at
    OBVIOUS
  <2>12. Indexed(g) /\ Size(g) = Size(h) /\ a \in 1..Size(g) /\ t = [heap |-> g, at |-> a] /\ SameContent(h, g)
    BY <2>6, <2>11
  <2>13. PICK u : u = Climb([heap |-> g, at |-> a])
    OBVIOUS
  <2>14. /\ Indexed(u.heap) /\ Size(u.heap) = Size(g) /\ SameContent(g, u.heap)
         /\ u.at \in 1..Size(g)
         /\ \/ u = [heap |-> g, at |-> a] /\ High(g, a) /\ (Low(g, a) => Ordered(g))
            \/ u.at < a /\ Low(u.heap, u.at)
    BY <2>9, <2>11, <2>12, <2>13, Climbed
  <2>15. f[n] = u
    BY <2>6, <2>12, <2>13
  <2>16. u = [heap |-> u.heap, at |-> u.at]
    BY <2>12, <2>13 DEF Climb
  <2>17. Kept(u)
    BY <2>12, <2>14, <2>16, SameAgain
  <2>18. CASE u.at < a /\ Low(u.heap, u.at)
    <3>1. u.at + n <= i
      BY <1>0, <2>2, <2>10, <2>11, <2>12, <2>14, <2>18
    <3> QED
      BY <2>2, <2>15, <2>17, <2>18, <3>1
  <2>19. CASE u = [heap |-> g, at |-> a] /\ High(g, a) /\ (Low(g, a) => Ordered(g))
    <3>1. u = t /\ Climb(t) = t
      BY <2>6, <2>12, <2>15, <2>19
    <3>2. High(g, i) /\ (Low(h, i) => Ordered(g))
      <4>1. CASE n - 1 = 0 /\ t = [heap |-> h, at |-> i]
        BY <2>11, <2>19, <4>1
      <4>2. CASE t.at + (n - 1) <= i /\ Low(t.heap, t.at)
        <5>1. Ordered(g) /\ g \in Heap /\ i \in 1..Size(g)
          BY <2>11, <2>12, <2>19, <4>2 DEF Indexed
        <5> QED
          BY <5>1, OrderedHigh
      <4> QED
        BY <2>8, <4>1, <4>2
    <3>3. Over(u)
      BY <2>11, <3>1, <3>2
    <3> QED
      BY <2>2, <2>15, <2>17, <3>3
  <2> QED
    BY <2>14, <2>18, <2>19
<1>5. Sofar(i)
  BY <1>0, <1>4
<1>6. Kept(f[i]) /\ (Over(f[i]) \/ f[i].at + i <= i)
  <2>1. i # 0
    BY <1>0
  <2> QED
    BY <1>5, <2>1
<1>7. Over(f[i])
  BY <1>0, <1>6
<1> QED
  BY <1>1, <1>6, <1>7

-----------------------------------------------------------------------------
(* shift_down                                                                *)

\* The child to change places with is not greater than the node and the other
\* child; or both children are greater than the node.
LEMMA SmallestIs ==
  ASSUME NEW h \in Heap, NEW i \in 1..Size(h)
  PROVE  /\ Smallest(h, i) = i => \A j \in 2..Size(h) : j \div 2 = i => Value(h, i) <= Value(h, j)
         /\ Smallest(h, i) # i =>
               /\ Smallest(h, i) \in 2..Size(h) /\ Smallest(h, i) \div 2 = i /\ Smallest(h, i) > i
               /\ Value(h, Smallest(h, i)) <= Value(h, i)
               /\ \A j \in 2..Size(h) : j \div 2 = i => Value(h, Smallest(h, i)) <= Value(h, j)
<1>1. Size(h) \in Nat /\ \A m \in 1..Size(h) : Value(h, m) \in Int
  BY HeapIs
<1>2. \A j \in 2..Size(h) : j \div 2 = i => j = 2 * i \/ j = 2 * i + 1
  BY <1>1
<1>3. 2 * i \in Int /\ 2 * i > i /\ (2 * i) \div 2 = i /\ (2 * i + 1) \div 2 = i
  BY <1>1
<1> DEFINE left == IF 2 * i <= Size(h) /\ Value(h, 2 * i) <= Value(h, i) THEN 2 * i ELSE i
<1>4. Smallest(h, i) = IF 2 * i + 1 <= Size(h) /\ Value(h, 2 * i + 1) <= Value(h, left) THEN 2 * i + 1 ELSE left
  BY DEF Smallest
<1>5. /\ left \in 1..Size(h) /\ Value(h, left) <= Value(h, i)
      /\ left = i \/ left = 2 * i
      /\ 2 * i <= Size(h) => Value(h, left) <= Value(h, 2 * i)
  BY <1>1, <1>3
<1> HIDE DEF left
<1>6. CASE 2 * i + 1 <= Size(h) /\ Value(h, 2 * i + 1) <= Value(h, left)
  <2>1. Smallest(h, i) = 2 * i + 1
    BY <1>4, <1>6
  <2>2. 2 * i + 1 \in 2..Size(h) /\ 2 * i \in 1..Size(h)
    BY <1>1, <1>3, <1>6
  <2>3. Value(h, 2 * i + 1) <= Value(h, i) /\ Value(h, 2 * i + 1) <= Value(h, 2 * i)
    BY <1>1, <1>5, <1>6, <2>2
  <2>4. Value(h, 2 * i + 1) <= Value(h, 2 * i + 1)
    BY <1>1, <2>2
  <2> QED
    BY <1>2, <1>3, <2>1, <2>2, <2>3, <2>4
<1>7. CASE ~(2 * i + 1 <= Size(h) /\ Value(h, 2 * i + 1) <= Value(h, left))
  <2>1. Smallest(h, i) = left
    BY <1>4, <1>7
  <2>2. \A j \in 2..Size(h) : j \div 2 = i => Value(h, left) <= Value(h, j)
    <3> TAKE j \in 2..Size(h)
    <3>1. CASE j = 2 * i
      BY <1>5, <3>1
    <3>2. CASE j = 2 * i + 1
      <4>1. Value(h, j) \in Int /\ Value(h, left) \in Int
        BY <1>1, <1>5
      <4> QED
        BY <1>7, <3>2, <4>1
    <3> QED
      BY <1>2, <3>1, <3>2
  <2>3. left # i => left \in 2..Size(h) /\ left \div 2 = i /\ left > i
    BY <1>1, <1>3, <1>5
  <2> QED
    BY <1>5, <2>1, <2>2, <2>3
<1> QED
  BY <1>6, <1>7

\* A turn of shift_down leaves a heap in which the node it is at may be too
\* high; or it ends the loop.
LEMMA Sunk ==
  ASSUME NEW h, Indexed(h), NEW i \in 1..Size(h), High(h, i)
  PROVE  LET t == Sink([heap |-> h, at |-> i])
         IN  /\ Indexed(t.heap) /\ Size(t.heap) = Size(h) /\ SameContent(h, t.heap)
             /\ t.at \in 1..Size(h)
             /\ \/ t = [heap |-> h, at |-> i] /\ Ordered(h)
                \/ t.at > i /\ High(t.heap, t.at)
<1> DEFINE down == Smallest(h, i)
           s == [heap |-> h, at |-> i]
           g == Swap(h, i, down)
<1>1. h \in Heap /\ Size(h) \in Nat /\ \A m \in 1..Size(h) : Value(h, m) \in Int
  BY HeapIs DEF Indexed
<1>2. SameContent(h, h)
  BY DEF SameContent
<1>3. s.heap = h /\ s.at = i
  OBVIOUS
<1> SUFFICES LET t == Sink(s)
             IN  /\ Indexed(t.heap) /\ Size(t.heap) = Size(h) /\ SameContent(h, t.heap)
                 /\ t.at \in 1..Size(h)
                 /\ \/ t = s /\ Ordered(h)
                    \/ t.at > i /\ High(t.heap, t.at)
  OBVIOUS
<1> HIDE DEF s
<1>4. CASE down = i
  <2>1. Sink(s) = s
    BY <1>3, <1>4 DEF Sink
  <2>2. \A j \in 2..Size(h) : j \div 2 = i => Value(h, i) <= Value(h, j)
    BY <1>1, <1>4, SmallestIs
  <2>3. Ordered(h)
    BY <2>2 DEF Ordered, High, Edge
  <2> QED
    BY <1>2, <1>3, <2>1, <2>3
<1>5. CASE down # i
  <2>1. /\ down \in 2..Size(h) /\ down \div 2 = i /\ down > i
        /\ Value(h, down) <= Value(h, i)
        /\ \A j \in 2..Size(h) : j \div 2 = i => Value(h, down) <= Value(h, j)
    BY <1>1, <1>5, SmallestIs
  <2>2. Sink(s) = [heap |-> g, at |-> down]
    BY <1>3, <1>5 DEF Sink
  <2> HIDE DEF down
  <2>3. down \in 1..Size(h)
    BY <1>1, <2>1
  <2>4. Indexed(g) /\ Size(g) = Size(h) /\ SameContent(h, g)
        /\ \A m \in 1..Size(h) :
              Value(g, m) = IF m = i THEN Value(h, down) ELSE IF m = down THEN Value(h, i) ELSE Value(h, m)
    BY <1>5, <2>3, Swapped
  <2> HIDE DEF g
  <2>5. ASSUME NEW j \in 2..Size(h), j \div 2 # down
        PROVE  Edge(g, j)
    <3>0. j \div 2 \in 1..Size(h) /\ j \in 1..Size(h) /\ j \div 2 # j
      BY <1>1
    <3>1. CASE j = i
      <4>1. i > 1
        BY <3>1
      <4>2. Value(h, i \div 2) <= Value(h, down)
        BY <2>1, <4>1 DEF High, Grand
      <4> QED
        BY <2>4, <2>5, <3>0, <3>1, <4>2 DEF Edge
    <3>2. CASE j = down
      BY <2>1, <2>4, <3>0, <3>2 DEF Edge
    <3>3. CASE j # down /\ j \div 2 = i
      <4>1. Value(h, down) <= Value(h, j)
        BY <2>1, <3>3
      <4> QED
        BY <2>4, <3>0, <3>3, <4>1 DEF Edge
    <3>4. CASE j # i /\ j # down /\ j \div 2 # i
      <4>1. Edge(h, j)
        BY <3>4 DEF High
      <4> QED
        BY <2>4, <2>5, <3>0, <3>4, <4>1 DEF Edge
    <3> QED
      BY <3>1, <3>2, <3>3, <3>4
  <2>6. ASSUME NEW j \in 2..Size(h), j \div 2 = down
        PROVE  Value(g, down \div 2) <= Value(g, j)
    <3>1. j \in 1..Size(h) /\ j # down /\ j # i
      BY <1>1, <2>1, <2>6
    <3>2. Edge(h, j)
      BY <1>1, <2>1, <2>6 DEF High
    <3> QED
      BY <2>1, <2>4, <2>6, <3>1, <3>2 DEF Edge
  <2>7. High(g, down)
    BY <2>4, <2>5, <2>6 DEF High, Grand
  <2> QED
    BY <2>1, <2>2, <2>3, <2>4, <2>7
<1> QED
  BY <1>4, <1>5

\* The turns of the loop, one after the other.
Sinking(h, i, f, n) == IF n = 0 THEN [heap |-> h, at |-> i] ELSE Sink(f[n - 1])

\* The loop of shift_down is a sequence of heaps in the same way.
LEMMA SinkingExists ==
  ASSUME NEW h, NEW i, NEW L \in Nat
  PROVE  \E f : f = [n \in 0..L |-> Sinking(h, i, f, n)]
<1> DEFINE Until(j, f) == /\ f = [n \in 0..L |-> f[n]]
                          /\ \A n \in 0..L : n <= j => f[n] = Sinking(h, i, f, n)
           T == {j \in 0..L : ~ \E f : Until(j, f)}
<1>1. CASE T = {}
  <2>1. PICK f : Until(L, f)
    BY <1>1
  <2>2. \A n \in 0..L : f[n] = Sinking(h, i, f, n)
    BY <2>1
  <2>3. f = [n \in 0..L |-> Sinking(h, i, f, n)]
    BY <2>1, <2>2 DEF Sinking
  <2> QED
    BY <2>3
<1>2. CASE T # {}
  <2>0. T \subseteq Nat
    OBVIOUS
  <2>1. PICK j \in T : \A k \in T : j <= k
    <3> HIDE DEF T
    <3> QED
      BY <1>2, <2>0, LeastNat
  <2>2. j \in 0..L /\ ~ \E f : Until(j, f)
    BY <2>1
  <2>3. CASE j = 0
    <3> DEFINE g == [n \in 0..L |-> [heap |-> h, at |-> i]]
    <3>1. Until(0, g)
      BY DEF Sinking
    <3> QED
      BY <2>2, <2>3, <3>1
  <2>4. CASE j # 0
    <3>1. j - 1 \in 0..L /\ j - 1 \notin T
      BY <2>1, <2>2, <2>4
    <3>2. PICK f : Until(j - 1, f)
      BY <3>1
    <3> DEFINE g == [n \in 0..L |-> Sinking(h, i, f, n)]
    <3>3. \A n \in 0..L : n <= j - 1 => g[n] = f[n]
      BY <3>2
    <3>4. \A n \in 0..L : n <= j => g[n] = Sinking(h, i, g, n)
      <4> SUFFICES ASSUME NEW n \in 0..L, n <= j
                   PROVE  g[n] = Sinking(h, i, g, n)
        OBVIOUS
      <4>1. g[n] = Sinking(h, i, f, n)
        OBVIOUS
      <4>2. n # 0 => g[n - 1] = f[n - 1]
        <5>1. n # 0 => n - 1 \in 0..L /\ n - 1 <= j - 1
          BY <2>2
        <5> HIDE DEF g
        <5> QED
          BY <3>3, <5>1
      <4> HIDE DEF g
      <4> QED
        BY <4>1, <4>2 DEF Sinking
    <3>5. g = [n \in 0..L |-> g[n]]
      OBVIOUS
    <3> HIDE DEF g
    <3>6. Until(j, g)
      BY <3>4, <3>5
    <3> QED
      BY <2>2, <3>6
  <2> QED
    BY <2>3, <2>4
<1> QED
  BY <1>1, <1>2

\* shift_down is the last turn of its loop.
LEMMA ShiftDownUnfolds ==
  ASSUME NEW h, NEW i, Size(h) \in Nat
  PROVE  \E f : f = [n \in 0..Size(h) |-> Sinking(h, i, f, n)] /\ ShiftDown(h, i) = f[Size(h)].heap
<1> DEFINE P(f) == f = [n \in 0..Size(h) |-> Sinking(h, i, f, n)]
           k == CHOOSE f : P(f)
<1>1. ShiftDown(h, i) = k[Size(h)].heap
  BY Zenon DEF ShiftDown, Sinking
<1>2. \E f : P(f)
  BY SinkingExists
<1> HIDE DEF P
<1>3. P(k)
  BY <1>2
<1> QED
  BY <1>1, <1>3 DEF P

\* shift_down keeps the index and the content and puts the heap in order when
\* it was so but for the node's children.
LEMMA ShiftedDown ==
  ASSUME NEW h, Indexed(h), NEW i \in 1..Size(h), High(h, i)
  PROVE  /\ Indexed(ShiftDown(h, i)) /\ Size(ShiftDown(h, i)) = Size(h)
         /\ SameContent(h, ShiftDown(h, i)) /\ Ordered(ShiftDown(h, i))
<1>0. h \in Heap /\ Size(h) \in Nat /\ i \in Nat
  BY HeapIs DEF Indexed
<1> DEFINE L == Size(h)
<1>1. PICK f : f = [n \in 0..L |-> Sinking(h, i, f, n)] /\ ShiftDown(h, i) = f[L].heap
  BY <1>0, ShiftDownUnfolds
<1> DEFINE Kept(t) ==
             /\ Indexed(t.heap) /\ Size(t.heap) = Size(h) /\ SameContent(h, t.heap)
             /\ t = [heap |-> t.heap, at |-> t.at] /\ t.at \in 1..Size(h)
           Over(t) == Ordered(t.heap) /\ Sink(t) = t
           Sofar(n) ==
             /\ Kept(f[n])
             /\ \/ Over(f[n])
                \/ f[n].at >= i + n /\ High(f[n].heap, f[n].at)
           T == {n \in 0..L : ~Sofar(n)}
<1>2. /\ f[0] = [heap |-> h, at |-> i]
      /\ \A n \in 1..L : f[n] = Sink(f[n - 1])
  <2>1. \A n \in 0..L : f[n] = Sinking(h, i, f, n)
    BY <1>1
  <2> QED
    BY <1>0, <2>1 DEF Sinking
<1>3. SameContent(h, h)
  BY DEF SameContent
<1>4. T = {}
  <2> SUFFICES ASSUME T # {} PROVE FALSE
    OBVIOUS
  <2>0. T \subseteq Nat
    BY <1>0
  <2>1. PICK n \in T : \A k \in T : n <= k
    <3> HIDE DEF T
    <3> QED
      BY <2>0, LeastNat
  <2>2. n \in 0..L /\ ~Sofar(n)
    BY <2>1
  <2>3. n # 0
    <3>1. Kept(f[0])
      BY <1>2, <1>3
    <3>2. f[0].at >= i + 0 /\ High(f[0].heap, f[0].at)
      BY <1>0, <1>2
    <3>3. Sofar(0)
      BY <3>1, <3>2
    <3> QED
      BY <2>2, <3>3
  <2>4. n - 1 \in 0..L /\ Sofar(n - 1) /\ n \in 1..L
    <3>1. n - 1 \in 0..L /\ n \in 1..L
      BY <1>0, <2>2, <2>3
    <3>2. n - 1 \notin T
      BY <1>0, <2>1, <2>2, <3>1
    <3> QED
      BY <3>1, <3>2
  <2>5. PICK t : t = f[n - 1]
    OBVIOUS
  <2>6. f[n] = Sink(t) /\ Kept(t)
    BY <1>2, <2>4, <2>5
  <2>7. ~Over(t)
    <3>1. Over(t) => f[n] = t
      BY <2>6
    <3>2. Over(t) => Sofar(n)
      BY <2>6, <3>1
    <3> QED
      BY <2>2, <3>2
  <2>8. t.at >= i + (n - 1) /\ High(t.heap, t.at)
    BY <2>4, <2>5, <2>7
  <2>11. PICK g, a : g = t.heap /\ a = t.at
    OBVIOUS
  <2>12. Indexed(g) /\ Size(g) = Size(h) /\ a \in 1..Size(g) /\ t = [heap |-> g, at |-> a] /\ SameContent(h, g)
    BY <2>6, <2>11
  <2>13. PICK u : u = Sink([heap |-> g, at |-> a])
    OBVIOUS
  <2>14. /\ Indexed(u.heap) /\ Size(u.heap) = Size(g) /\ SameContent(g, u.heap)
         /\ u.at \in 1..Size(g)
         /\ \/ u = [heap |-> g, at |-> a] /\ Ordered(g)
            \/ u.at > a /\ High(u.heap, u.at)
    BY <2>8, <2>11, <2>12, <2>13, Sunk
  <2>15. f[n] = u
    BY <2>6, <2>12, <2>13
  <2>16. u = [heap |-> u.heap, at |-> u.at]
    BY <2>12, <2>13 DEF Sink
  <2>17. Kept(u)
    BY <2>12, <2>14, <2>16, SameAgain
  <2>18. CASE u.at > a /\ High(u.heap, u.at)
    <3>1. u.at >= i + n
      BY <1>0, <2>2, <2>8, <2>11, <2>12, <2>14, <2>18
    <3> QED
      BY <2>2, <2>15, <2>17, <2>18, <3>1
  <2>19. CASE u = [heap |-> g, at |-> a] /\ Ordered(g)
    <3>1. u = t /\ Sink(t) = t
      BY <2>6, <2>12, <2>15, <2>19
    <3>2. Over(u)
      BY <2>11, <2>19, <3>1
    <3> QED
      BY <2>2, <2>15, <2>17, <3>2
  <2> QED
    BY <2>14, <2>18, <2>19
<1>5. Sofar(L)
  BY <1>0, <1>4
<1>6. Kept(f[L]) /\ (Over(f[L]) \/ f[L].at >= i + L)
  BY <1>5
<1>7. Over(f[L])
  BY <1>0, <1>6
<1> QED
  BY <1>1, <1>6, <1>7

-----------------------------------------------------------------------------
(* The operations of the heap                                                *)

\* shift_up and then shift_down put a heap in order that was so but for one
\* node.
LEMMA Repaired ==
  ASSUME NEW h, Indexed(h), NEW i \in 1..Size(h), Aside(h, i)
  PROVE  /\ Indexed(Repair(h, i)) /\ Size(Repair(h, i)) = Size(h)
         /\ SameContent(h, Repair(h, i)) /\ Ordered(Repair(h, i))
<1>1. PICK g : g = ShiftUp(h, i)
  OBVIOUS
<1>2. Indexed(g) /\ Size(g) = Size(h) /\ SameContent(h, g) /\ High(g, i)
  BY <1>1, ShiftedUp
<1>3. PICK f : f = ShiftDown(g, i)
  OBVIOUS
<1>4. Indexed(f) /\ Size(f) = Size(g) /\ SameContent(g, f) /\ Ordered(f)
  BY <1>2, <1>3, ShiftedDown
<1>5. Repair(h, i) = f
  BY <1>1, <1>3 DEF Repair
<1> QED
  BY <1>2, <1>4, <1>5, SameAgain

\* The heap h holds what g holds, but for the key k.
SameBut(h, g, k) ==
    \A j \in Key \ {k} :
        /\ h.index[j] = 0 <=> g.index[j] = 0
        /\ h.index[j] # 0 => Value(h, h.index[j]) = Value(g, g.index[j])

\* A new heap is one.
LEMMA EmptyRight == Right(EmptyHeap)
<1>1. EmptyHeap \in Heap /\ Size(EmptyHeap) = 0
  BY DEF EmptyHeap, Heap, Size
<1> QED
  BY <1>1 DEF Right, Indexed, Ordered, EmptyHeap

\* A value is changed: the node may be in the wrong place.
LEMMA Changed ==
  ASSUME NEW h, Right(h), NEW i \in 1..Size(h), NEW v \in Int
  PROVE  LET g == [h EXCEPT !.nodes[i].value = v]
         IN  /\ Indexed(g) /\ Size(g) = Size(h) /\ Aside(g, i) /\ g.index = h.index
             /\ \A m \in 1..Size(h) : Value(g, m) = IF m = i THEN v ELSE Value(h, m)
<1> DEFINE g == [h EXCEPT !.nodes[i].value = v]
<1>1. /\ h \in Heap /\ Size(h) \in Nat /\ h.nodes \in Seq(Node) /\ h.index \in [Key -> Nat]
      /\ \A m \in 1..Size(h) : h.nodes[m] \in Node /\ h.nodes[m].key \in Key /\ Value(h, m) \in Int
  BY HeapIs DEF Right, Indexed
<1>2. h = [nodes |-> h.nodes, index |-> h.index] /\ h.nodes \in [1..Size(h) -> Node]
  BY <1>1, LenProperties DEF Heap, Size
<1>3. g.index = h.index /\ g.nodes = [h.nodes EXCEPT ![i] = [h.nodes[i] EXCEPT !.value = v]]
      /\ g = [nodes |-> g.nodes, index |-> g.index]
  BY <1>2
<1>4. [h.nodes[i] EXCEPT !.value = v] = [key |-> h.nodes[i].key, value |-> v]
  <2>1. PICK a \in Node : a = h.nodes[i]
    BY <1>1
  <2>2. a = [key |-> a.key, value |-> a.value]
    BY DEF Node
  <2>3. [a EXCEPT !.value = v] = [key |-> a.key, value |-> v]
    BY <2>2
  <2> QED
    BY <2>1, <2>3
<1> HIDE DEF g
<1>5. g.nodes \in [1..Size(h) -> Node]
      /\ \A m \in 1..Size(h) : g.nodes[m] = IF m = i THEN [key |-> h.nodes[i].key, value |-> v] ELSE h.nodes[m]
  <2>1. [key |-> h.nodes[i].key, value |-> v] \in Node
    BY <1>1 DEF Node
  <2> QED
    BY <1>2, <1>3, <1>4, <2>1
<1>6. g.nodes \in Seq(Node) /\ Size(g) = Size(h)
  <2>1. PICK L \in Nat : L = Size(h)
    BY <1>1
  <2>2. g.nodes \in [1..L -> Node]
    BY <1>5, <2>1
  <2>3. g.nodes \in Seq(Node) /\ Len(g.nodes) = L
    BY <2>2
  <2> QED
    BY <2>1, <2>3 DEF Size
<1>7. \A m \in 1..Size(h) : g.nodes[m].key = h.nodes[m].key
  BY <1>5
<1>8. \A m \in 1..Size(h) : Value(g, m) = IF m = i THEN v ELSE Value(h, m)
  BY <1>5 DEF Value
<1>9. Indexed(g)
  <2>1. g \in Heap
    BY <1>1, <1>3, <1>6 DEF Heap
  <2> QED
    BY <1>3, <1>6, <1>7, <2>1 DEF Right, Indexed
<1>10. Aside(g, i)
  <2>0. Grand(h, i) /\ Ordered(h)
    BY <1>1, OrderedHigh DEF Right, High
  <2>1. ASSUME i > 1, NEW j \in 2..Size(h), j \div 2 = i
        PROVE  Value(g, i \div 2) <= Value(g, j)
    <3>1. i \div 2 \in 1..Size(h) /\ i \div 2 # i /\ j \in 1..Size(h) /\ j # i
      BY <1>1, <2>1
    <3> QED
      BY <1>8, <2>0, <2>1, <3>1 DEF Grand
  <2>2. ASSUME NEW j \in 2..Size(h), j # i, j \div 2 # i
        PROVE  Edge(g, j)
    <3>1. j \div 2 \in 1..Size(h) /\ j \in 1..Size(h)
      BY <1>1
    <3> QED
      BY <1>8, <2>0, <2>2, <3>1 DEF Ordered, Edge
  <2> QED
    BY <1>6, <2>1, <2>2 DEF Aside, Grand
<1> QED
  BY <1>3, <1>6, <1>8, <1>9, <1>10 DEF g

\* A node is appended: it may be too low.
LEMMA Appended ==
  ASSUME NEW h, Right(h), NEW k \in Key, h.index[k] = 0, NEW v \in Int
  PROVE  LET n == Size(h) + 1
             g == [nodes |-> Append(h.nodes, [key |-> k, value |-> v]), index |-> [h.index EXCEPT ![k] = n]]
         IN  /\ Indexed(g) /\ n \in 1..Size(g) /\ Low(g, n)
             /\ SameBut(h, g, k) /\ g.index[k] = n /\ Value(g, n) = v
<1> DEFINE n == Size(h) + 1
           g == [nodes |-> Append(h.nodes, [key |-> k, value |-> v]), index |-> [h.index EXCEPT ![k] = n]]
<1>1. /\ h \in Heap /\ Size(h) \in Nat /\ h.nodes \in Seq(Node) /\ h.index \in [Key -> Nat]
      /\ \A m \in 1..Size(h) : h.nodes[m] \in Node /\ h.nodes[m].key \in Key /\ Value(h, m) \in Int
  BY HeapIs DEF Right, Indexed
<1>2. [key |-> k, value |-> v] \in Node
  BY DEF Node
<1>3. g.nodes = Append(h.nodes, [key |-> k, value |-> v]) /\ g.index = [h.index EXCEPT ![k] = n]
      /\ g = [nodes |-> g.nodes, index |-> g.index]
  OBVIOUS
<1> HIDE DEF g
<1>4. g.nodes \in Seq(Node) /\ Size(g) = n
      /\ \A m \in 1..n : g.nodes[m] = IF m = n THEN [key |-> k, value |-> v] ELSE h.nodes[m]
  <2>1. PICK x \in Node : x = [key |-> k, value |-> v]
    BY <1>2
  <2>2. g.nodes = Append(h.nodes, x)
    BY <1>3, <2>1
  <2>3. /\ g.nodes \in Seq(Node) /\ Len(g.nodes) = n
        /\ \A m \in 1..Len(h.nodes) : g.nodes[m] = h.nodes[m]
        /\ g.nodes[n] = x
    BY <1>1, <2>2, AppendProperties DEF Size
  <2>4. \A m \in 1..n : m # n => m \in 1..Len(h.nodes)
    BY <1>1 DEF Size
  <2> QED
    BY <2>1, <2>3, <2>4 DEF Size
<1>5. g.index \in [Key -> Nat] /\ \A j \in Key : g.index[j] = IF j = k THEN n ELSE h.index[j]
  BY <1>1, <1>3
<1>6. \A m \in 1..Size(h) : h.nodes[m].key # k
  BY <1>1 DEF Right, Indexed
<1>7. \A m \in 1..n : m # n => m \in 1..Size(h)
  BY <1>1
<1>8. n \in Nat /\ n # 0 /\ n \in 1..n /\ \A m \in 1..Size(h) : m \in 1..n /\ m # n
  BY <1>1
<1> HIDE DEF n
<1>9. \A m \in 1..n : g.index[g.nodes[m].key] = m
  <2> TAKE m \in 1..n
  <2>1. CASE m = n
    BY <1>4, <1>5, <2>1
  <2>2. CASE m # n
    <3>1. m \in 1..Size(h) /\ h.nodes[m].key \in Key /\ h.nodes[m].key # k /\ h.index[h.nodes[m].key] = m
      BY <1>1, <1>6, <1>7, <2>2 DEF Right, Indexed
    <3> QED
      BY <1>4, <1>5, <2>2, <3>1
  <2> QED
    BY <2>1, <2>2
<1>10. \A j \in Key : g.index[j] # 0 => g.index[j] \in 1..n /\ g.nodes[g.index[j]].key = j
  <2> TAKE j \in Key
  <2>1. CASE j = k
    BY <1>4, <1>5, <1>8, <2>1
  <2>2. CASE j # k
    <3>1. g.index[j] = h.index[j] /\ (h.index[j] # 0 => h.index[j] \in 1..Size(h) /\ h.nodes[h.index[j]].key = j)
      BY <1>5, <2>2 DEF Right, Indexed
    <3> QED
      BY <1>4, <1>8, <3>1
  <2> QED
    BY <2>1, <2>2
<1>11. Indexed(g)
  <2>1. g \in Heap
    BY <1>3, <1>4, <1>5 DEF Heap
  <2> QED
    BY <1>4, <1>9, <1>10, <2>1 DEF Indexed
<1>12. \A m \in 1..n : Value(g, m) = IF m = n THEN v ELSE Value(h, m)
  BY <1>4 DEF Value
<1>13. Low(g, n)
  <2>1. ASSUME NEW j \in 2..n
        PROVE  j \div 2 # n /\ (j # n => Edge(g, j))
    <3>1. j \div 2 # n /\ j \div 2 \in 1..n
      BY <1>8
    <3>2. ASSUME j # n
          PROVE  Edge(g, j)
      <4>1. j \in 2..Size(h) /\ j \div 2 \in 1..Size(h) /\ j \in 1..n
        BY <1>1, <1>8, <3>2 DEF n
      <4>2. j \div 2 # n
        BY <3>1
      <4> QED
        BY <1>12, <3>1, <3>2, <4>1, <4>2 DEF Right, Ordered, Edge
    <3> QED
      BY <3>1, <3>2
  <2> QED
    BY <1>4, <2>1 DEF Low, Grand
<1>14. SameBut(h, g, k)
  <2> SUFFICES ASSUME NEW j \in Key \ {k}
               PROVE  /\ h.index[j] = 0 <=> g.index[j] = 0
                      /\ h.index[j] # 0 => Value(h, h.index[j]) = Value(g, g.index[j])
    BY DEF SameBut
  <2>1. g.index[j] = h.index[j] /\ (h.index[j] # 0 => h.index[j] \in 1..Size(h))
    BY <1>5 DEF Right, Indexed
  <2> QED
    BY <1>8, <1>12, <2>1
<1> QED
  BY <1>4, <1>5, <1>8, <1>11, <1>12, <1>13, <1>14 DEF g, n

\* minheap:push keeps a heap right, and the other keys with their values; the
\* key has the value pushed.
THEOREM PushKeepsHeap ==
  ASSUME NEW h, Right(h), NEW k \in Key, NEW v \in Int
  PROVE  LET g == HeapPush(h, k, v)
         IN  /\ Right(g) /\ SameBut(h, g, k)
             /\ g.index[k] # 0 /\ Value(g, g.index[k]) = v
<1>0. h.index[k] # 0 => h.index[k] \in 1..Size(h) /\ h.nodes[h.index[k]].key = k
  BY DEF Right, Indexed
<1>1. CASE h.index[k] # 0
  <2>1. PICK i \in 1..Size(h) : i = h.index[k]
    BY <1>0, <1>1
  <2>2. PICK g : g = [h EXCEPT !.nodes[i].value = v]
    OBVIOUS
  <2>3. /\ Indexed(g) /\ Size(g) = Size(h) /\ Aside(g, i) /\ g.index = h.index
        /\ \A m \in 1..Size(h) : Value(g, m) = IF m = i THEN v ELSE Value(h, m)
    BY <2>2, Changed
  <2>4. PICK f : f = Repair(g, i)
    OBVIOUS
  <2>5. Right(f) /\ SameContent(g, f)
    BY <2>3, <2>4, Repaired DEF Right
  <2>6. HeapPush(h, k, v) = f
    BY <1>1, <2>1, <2>2, <2>4 DEF HeapPush
  <2>7. f.index[k] # 0 /\ Value(f, f.index[k]) = v
    BY <1>1, <2>1, <2>3, <2>5 DEF SameContent
  <2>8. SameBut(h, f, k)
    <3> SUFFICES ASSUME NEW j \in Key \ {k}
                 PROVE  /\ h.index[j] = 0 <=> f.index[j] = 0
                        /\ h.index[j] # 0 => Value(h, h.index[j]) = Value(f, f.index[j])
      BY DEF SameBut
    <3>1. h.index[j] # 0 => h.index[j] \in 1..Size(h) /\ h.index[j] # i
      BY <1>0, <1>1, <2>1 DEF Right, Indexed
    <3>2. h.index[j] # 0 => Value(g, g.index[j]) = Value(h, h.index[j])
      BY <2>3, <3>1
    <3> QED
      BY <2>3, <2>5, <3>2 DEF SameContent
  <2> QED
    BY <2>5, <2>6, <2>7, <2>8
<1>2. CASE h.index[k] = 0
  <2>1. PICK n : n = Size(h) + 1
    OBVIOUS
  <2>2. PICK g : g = [nodes |-> Append(h.nodes, [key |-> k, value |-> v]), index |-> [h.index EXCEPT ![k] = n]]
    OBVIOUS
  <2>3. /\ Indexed(g) /\ n \in 1..Size(g) /\ Low(g, n)
        /\ SameBut(h, g, k) /\ g.index[k] = n /\ Value(g, n) = v
    BY <1>2, <2>1, <2>2, Appended
  <2>4. PICK f : f = ShiftUp(g, n)
    OBVIOUS
  <2>5. Right(f) /\ SameContent(g, f)
    <3>1. Aside(g, n)
      BY <2>3 DEF Low, Aside
    <3> QED
      BY <2>3, <2>4, <3>1, ShiftedUp DEF Right
  <2>6. HeapPush(h, k, v) = f
    BY <1>2, <2>1, <2>2, <2>4 DEF HeapPush
  <2>7. n # 0
    BY <2>1, HeapIs DEF Right, Indexed
  <2>8. f.index[k] # 0 /\ Value(f, f.index[k]) = v
    BY <2>3, <2>5, <2>7 DEF SameContent
  <2>9. SameBut(h, f, k)
    BY <2>3, <2>5 DEF SameBut, SameContent
  <2> QED
    BY <2>5, <2>6, <2>8, <2>9
<1> QED
  BY <1>1, <1>2

\* The last node of a heap is cut off.
LEMMA CutOff ==
  ASSUME NEW h, Indexed(h), Size(h) > 0
  PROVE  LET last == Size(h)
             k == h.nodes[last].key
             g == [nodes |-> SubSeq(h.nodes, 1, last - 1), index |-> [h.index EXCEPT ![k] = 0]]
         IN  /\ Indexed(g) /\ Size(g) = last - 1 /\ SameBut(h, g, k) /\ g.index[k] = 0
             /\ \A m \in 1..(last - 1) : Value(g, m) = Value(h, m)
<1> DEFINE last == Size(h)
           k == h.nodes[last].key
           g == [nodes |-> SubSeq(h.nodes, 1, last - 1), index |-> [h.index EXCEPT ![k] = 0]]
<1>1. /\ h \in Heap /\ last \in Nat /\ h.nodes \in Seq(Node) /\ h.index \in [Key -> Nat]
      /\ \A m \in 1..last : h.nodes[m] \in Node /\ h.nodes[m].key \in Key /\ Value(h, m) \in Int
  BY HeapIs DEF Indexed
<1>2. last \in 1..last /\ last - 1 \in Nat /\ \A m \in 1..(last - 1) : m \in 1..last /\ m # last
  BY <1>1
<1>3. k \in Key /\ h.index[k] = last
  BY <1>1, <1>2 DEF Indexed
<1>4. g.nodes = SubSeq(h.nodes, 1, last - 1) /\ g.index = [h.index EXCEPT ![k] = 0]
      /\ g = [nodes |-> g.nodes, index |-> g.index]
  OBVIOUS
<1>5. last = Len(h.nodes)
  BY DEF Size
<1> HIDE DEF g
<1>6. g.nodes \in Seq(Node) /\ Size(g) = last - 1 /\ \A m \in 1..(last - 1) : g.nodes[m] = h.nodes[m]
  <2>1. /\ Len(SubSeq(h.nodes, 1, last - 1)) = last - 1
        /\ \A m \in 1..(last - 1) : SubSeq(h.nodes, 1, last - 1)[m] = h.nodes[m]
        /\ SubSeq(h.nodes, 1, last - 1) \in Seq(Node)
    <3>1. \A m \in 1..(last - 1) : m \in 1..Len(h.nodes)
      BY <1>2, <1>5
    <3>2. 1 \in Int /\ last - 1 \in Int /\ 1 <= last - 1 + 1 /\ 1 \in 1..(Len(h.nodes) + 1)
          /\ last - 1 \in 0..Len(h.nodes)
      BY <1>2, <1>5
    <3> QED
      BY <1>1, <1>2, <3>1, <3>2, SubSeqProperties
  <2> QED
    BY <1>4, <2>1 DEF Size
<1> HIDE DEF k
<1>7. g.index \in [Key -> Nat] /\ \A j \in Key : g.index[j] = IF j = k THEN 0 ELSE h.index[j]
  BY <1>1, <1>3, <1>4
<1>8. \A j \in Key \ {k} : h.index[j] # 0 => h.index[j] \in 1..(last - 1)
  <2> SUFFICES ASSUME NEW j \in Key \ {k}, h.index[j] # 0
               PROVE  h.index[j] \in 1..(last - 1)
    OBVIOUS
  <2>1. h.index[j] \in 1..last /\ h.nodes[h.index[j]].key = j
    BY DEF Indexed
  <2>2. h.index[j] # last
    BY <2>1 DEF k
  <2> QED
    BY <1>1, <2>1, <2>2
<1>9. \A m \in 1..(last - 1) : g.index[g.nodes[m].key] = m
  <2> TAKE m \in 1..(last - 1)
  <2>1. m \in 1..last /\ m # last /\ h.nodes[m].key \in Key /\ h.index[h.nodes[m].key] = m
    BY <1>1, <1>2 DEF Indexed
  <2>2. h.nodes[m].key # k
    BY <1>3, <2>1
  <2> QED
    BY <1>6, <1>7, <2>1, <2>2
<1>10. \A j \in Key : g.index[j] # 0 => g.index[j] \in 1..(last - 1) /\ g.nodes[g.index[j]].key = j
  <2> TAKE j \in Key
  <2>1. h.index[j] # 0 => h.nodes[h.index[j]].key = j
    BY DEF Indexed
  <2> QED
    BY <1>6, <1>7, <1>8, <2>1
<1>11. Indexed(g)
  <2>1. g \in Heap
    BY <1>4, <1>6, <1>7 DEF Heap
  <2> QED
    BY <1>6, <1>9, <1>10, <2>1 DEF Indexed
<1>12. \A m \in 1..(last - 1) : Value(g, m) = Value(h, m)
  BY <1>6 DEF Value
<1>13. SameBut(h, g, k)
  BY <1>7, <1>8, <1>12 DEF SameBut
<1> QED
  BY <1>3, <1>6, <1>7, <1>11, <1>12, <1>13 DEF g, k

\* The node that takes the place of the one removed may be too low there or
\* too high.
LEMMA Replaced ==
  ASSUME NEW h, Right(h), NEW i \in 1..Size(h), i # Size(h),
         NEW g, g \in Heap, Size(g) = Size(h) - 1,
         \A m \in 1..(Size(h) - 1) : m # i => Value(g, m) = Value(h, m)
  PROVE  i \in 1..Size(g) /\ Aside(g, i)
<1>1. /\ h \in Heap /\ Size(h) \in Nat /\ i \in 1..(Size(h) - 1)
      /\ \A m \in 1..Size(h) : Value(h, m) \in Int
  BY HeapIs DEF Right, Indexed
<1>2. Grand(h, i) /\ Ordered(h)
  BY <1>1, OrderedHigh DEF Right, High
<1>3. ASSUME i > 1, NEW j \in 2..Size(g), j \div 2 = i
      PROVE  Value(g, i \div 2) <= Value(g, j)
  <2>1. /\ i \div 2 \in 1..(Size(h) - 1) /\ i \div 2 # i
        /\ j \in 1..(Size(h) - 1) /\ j # i /\ j \in 2..Size(h)
    BY <1>1, <1>3
  <2> QED
    BY <1>2, <1>3, <2>1 DEF Grand
<1>4. ASSUME NEW j \in 2..Size(g), j # i, j \div 2 # i
      PROVE  Edge(g, j)
  <2>1. j \div 2 \in 1..(Size(h) - 1) /\ j \in 1..(Size(h) - 1) /\ j \in 2..Size(h)
    BY <1>1
  <2> QED
    BY <1>2, <1>4, <2>1 DEF Ordered, Edge
<1> QED
  BY <1>1, <1>3, <1>4 DEF Aside, Grand

\* minheap:remove keeps a heap right, and the other keys with their values;
\* the key is gone.
THEOREM RemoveKeepsHeap ==
  ASSUME NEW h, Right(h), NEW k \in Key
  PROVE  LET g == HeapRemove(h, k)
         IN  Right(g) /\ SameBut(h, g, k) /\ g.index[k] = 0
<1>0. /\ h \in Heap /\ Size(h) \in Nat /\ Indexed(h) /\ Ordered(h)
      /\ h.index[k] # 0 => h.index[k] \in 1..Size(h) /\ h.nodes[h.index[k]].key = k
      /\ \A m \in 1..Size(h) : Value(h, m) \in Int
  BY HeapIs DEF Right, Indexed
<1>1. CASE h.index[k] = 0
  <2>1. HeapRemove(h, k) = h
    BY <1>1 DEF HeapRemove
  <2> QED
    BY <1>1, <2>1 DEF SameBut
<1>2. CASE h.index[k] # 0
  <2>1. PICK i \in 1..Size(h) : i = h.index[k]
    BY <1>0, <1>2
  <2>2. PICK last : last = Size(h)
    OBVIOUS
  <2>3. PICK moved : moved = IF i = last THEN h ELSE Swap(h, i, last)
    OBVIOUS
  <2>4. PICK g : g = [nodes |-> SubSeq(moved.nodes, 1, last - 1), index |-> [moved.index EXCEPT ![k] = 0]]
    OBVIOUS
  <2>5. HeapRemove(h, k) = IF i <= Size(g) THEN Repair(g, i) ELSE g
    BY <1>2, <2>1, <2>2, <2>3, <2>4 DEF HeapRemove
  <2>6. last \in 1..Size(h) /\ last > 0 /\ last \in Nat
    BY <1>0, <2>2
  <2>7. /\ Indexed(moved) /\ Size(moved) = last /\ moved.nodes[last].key = k
        /\ SameContent(h, moved)
        /\ \A m \in 1..(last - 1) : m # i => Value(moved, m) = Value(h, m)
    <3>1. CASE i = last
      <4>1. SameContent(h, h)
        BY DEF SameContent
      <4> QED
        BY <1>0, <1>2, <2>1, <2>2, <2>3, <3>1, <4>1
    <3>2. CASE i # last
      <4>1. moved = Swap(h, i, last)
        BY <2>3, <3>2
      <4>2. /\ Indexed(moved) /\ Size(moved) = last /\ SameContent(h, moved)
            /\ \A m \in 1..Size(h) :
                  Value(moved, m) = IF m = i THEN Value(h, last) ELSE IF m = last THEN Value(h, i) ELSE Value(h, m)
        BY <1>0, <2>2, <2>6, <3>2, <4>1, Swapped
      <4>3. moved.nodes[last].key = k
        <5>1. moved.nodes = [h.nodes EXCEPT ![i] = h.nodes[last], ![last] = h.nodes[i]]
          BY <4>1 DEF Swap
        <5>2. h.nodes \in [1..Size(h) -> Node]
          BY <1>0, HeapIs, LenProperties DEF Size
        <5> QED
          BY <1>0, <1>2, <2>1, <2>6, <3>2, <5>1, <5>2
      <4>4. \A m \in 1..(last - 1) : m \in 1..Size(h) /\ m # last
        BY <2>2, <2>6
      <4> QED
        BY <4>2, <4>3, <4>4
    <3> QED
      BY <3>1, <3>2
  <2>8. /\ Indexed(g) /\ Size(g) = last - 1 /\ SameBut(moved, g, k) /\ g.index[k] = 0
        /\ \A m \in 1..(last - 1) : Value(g, m) = Value(moved, m)
    BY <2>4, <2>6, <2>7, CutOff
  <2>9. SameBut(h, g, k)
    BY <2>7, <2>8 DEF SameBut, SameContent
  <2>10. CASE i = last
    <3>1. HeapRemove(h, k) = g
      BY <2>5, <2>6, <2>8, <2>10
    <3>2. Ordered(g)
      <4> SUFFICES ASSUME NEW j \in 2..Size(g)
                   PROVE  Edge(g, j)
        BY DEF Ordered
      <4>1. j \in 1..(last - 1) /\ j # i /\ j \div 2 \in 1..(last - 1) /\ j \div 2 # i /\ j \in 2..Size(h)
        BY <2>2, <2>6, <2>8, <2>10
      <4>2. Edge(h, j)
        BY <1>0, <4>1 DEF Ordered
      <4> QED
        BY <2>7, <2>8, <4>1, <4>2 DEF Edge
    <3> QED
      BY <2>8, <2>9, <3>1, <3>2 DEF Right
  <2>11. CASE i # last
    <3>1. g \in Heap /\ \A m \in 1..(Size(h) - 1) : m # i => Value(g, m) = Value(h, m)
      BY <2>2, <2>7, <2>8 DEF Indexed
    <3>2. i \in 1..Size(g) /\ Aside(g, i)
      BY <2>2, <2>8, <2>11, <3>1, Replaced
    <3>3. PICK f : f = Repair(g, i)
      OBVIOUS
    <3>4. Right(f) /\ SameContent(g, f)
      BY <2>8, <3>2, <3>3, Repaired DEF Right
    <3>5. HeapRemove(h, k) = f
      <4>1. i <= Size(g)
        BY <2>6, <2>8, <3>2
      <4> QED
        BY <2>5, <3>3, <4>1
    <3> QED
      BY <2>8, <2>9, <3>4, <3>5 DEF SameBut, SameContent
  <2> QED
    BY <2>10, <2>11
<1> QED
  BY <1>1, <1>2

-----------------------------------------------------------------------------
(* Division                                                                  *)

\* A number is divided in one way.
LEMMA DivUnique ==
  ASSUME NEW m \in Nat, m > 0, NEW p \in Int, NEW w \in 0..(m - 1)
  PROVE  (m * p + w) \div m = p /\ (m * p + w) % m = w
OBVIOUS

\* Division leaves a rest.
LEMMA Divided ==
  ASSUME NEW x \in Nat, NEW m \in Nat, m > 0
  PROVE  x \div m \in Nat /\ x % m \in 0..(m - 1) /\ x = m * (x \div m) + (x % m)
<1>1. x % m \in 0..(m - 1)
  OBVIOUS
<1>2. x = m * (x \div m) + (x % m)
  OBVIOUS
<1>3. x \div m \in Nat
  OBVIOUS
<1> QED
  BY <1>1, <1>2, <1>3

\* Divided by a product: by the one and by the other.
LEMMA DivMul ==
  ASSUME NEW a \in Nat, NEW s \in Nat, s > 0, NEW n \in Nat, n > 0
  PROVE  /\ s * n \in Nat /\ s * n > 0
         /\ a \div (s * n) = (a \div s) \div n
         /\ a % (s * n) = 0 <=> a % s = 0 /\ (a \div s) % n = 0
<1>1. PICK q \in Nat, r \in 0..(s - 1) : q = a \div s /\ r = a % s /\ a = s * q + r
  BY Divided
<1>2. PICK p \in Nat, u \in 0..(n - 1) : p = q \div n /\ u = q % n /\ q = n * p + u
  BY Divided
<1>3. s * n \in Nat /\ s * n > 0
  OBVIOUS
<1>4. a = (s * n) * p + (s * u + r)
  BY <1>1, <1>2
<1>5. s * u + r \in 0..((s * n) - 1)
  <2>1. s * u <= s * (n - 1) /\ s * u >= 0 /\ s * u \in Int
    BY <1>2
  <2>2. s * (n - 1) = s * n - s
    OBVIOUS
  <2> QED
    BY <1>3, <2>1, <2>2
<1>6. PICK m \in Nat : m = s * n
  BY <1>3
<1>7. PICK w \in 0..(m - 1) : w = s * u + r
  BY <1>5, <1>6
<1>8. a = m * p + w
  BY <1>4, <1>6, <1>7
<1>9. a \div m = p /\ a % m = w
  BY <1>3, <1>6, <1>8, DivUnique
<1>10. w = 0 <=> r = 0 /\ u = 0
  <2>1. s * u >= 0 /\ (s * u = 0 <=> u = 0) /\ s * u \in Int
    BY <1>2
  <2> QED
    BY <1>7, <2>1
<1> QED
  BY <1>1, <1>2, <1>3, <1>6, <1>9, <1>10

\* The quotient grows at the multiples.
LEMMA DivNext ==
  ASSUME NEW a \in Nat, NEW s \in Nat, s > 0
  PROVE  (a + 1) \div s = IF (a + 1) % s = 0 THEN a \div s + 1 ELSE a \div s
<1>1. PICK q \in Nat, r \in 0..(s - 1) : q = a \div s /\ r = a % s /\ a = s * q + r
  BY Divided
<1>2. CASE r = s - 1
  <2>1. a + 1 = s * (q + 1) + 0
    BY <1>1, <1>2
  <2>2. 0 \in 0..(s - 1) /\ q + 1 \in Int
    OBVIOUS
  <2>3. (s * (q + 1) + 0) \div s = q + 1 /\ (s * (q + 1) + 0) % s = 0
    BY <2>2, DivUnique
  <2> QED
    BY <1>1, <2>1, <2>3
<1>3. CASE r # s - 1
  <2>1. a + 1 = s * q + (r + 1) /\ r + 1 \in 0..(s - 1)
    BY <1>1, <1>3
  <2>2. (a + 1) \div s = q /\ (a + 1) % s = r + 1
    BY <2>1, DivUnique
  <2> QED
    BY <1>1, <2>2
<1> QED
  BY <1>2, <1>3

\* Two numbers with the same quotient; nothing of a block is behind its end.
LEMMA SameBlock ==
  ASSUME NEW a \in Nat, NEW b \in Nat, NEW s \in Nat, s > 0, a \div s = b \div s
  PROVE  /\ a - b < s /\ b - a < s
         /\ (b + 1) % s = 0 => a <= b
         /\ a % s = b % s => a = b
<1>1. PICK q \in Nat, r \in 0..(s - 1) : q = a \div s /\ r = a % s /\ a = s * q + r
  BY Divided
<1>2. PICK u \in 0..(s - 1) : u = b % s /\ b = s * q + u
  BY <1>1, Divided
<1>3. PICK x \in Int : x = s * q
  OBVIOUS
<1>4. a = x + r /\ b = x + u
  BY <1>1, <1>2, <1>3
<1>5. (b + 1) % s = 0 => u = s - 1
  <2>1. ASSUME u # s - 1
        PROVE  (b + 1) % s # 0
    <3>1. b + 1 = s * q + (u + 1) /\ u + 1 \in 0..(s - 1)
      BY <1>2, <2>1
    <3>2. (s * q + (u + 1)) % s = u + 1
      BY <3>1, DivUnique
    <3> QED
      BY <3>1, <3>2
  <2> QED
    BY <2>1
<1> QED
  BY <1>1, <1>2, <1>4, <1>5

-----------------------------------------------------------------------------
(* The spans of the wheel                                                    *)

\* The sizes of the wheel.
LEMMA Sizes == Near \in Nat /\ Near >= 2 /\ Level \in Nat /\ Level >= 2
<1>1. ASSUME NEW k \in 1..8
      PROVE  2 ^ k \in Nat /\ 2 ^ k >= 2
  <2>1. CASE k = 1
    BY <2>1
  <2>2. CASE k = 2
    BY <2>2
  <2>3. CASE k = 3
    BY <2>3
  <2>4. CASE k = 4
    BY <2>4
  <2>5. CASE k = 5
    BY <2>5
  <2>6. CASE k = 6
    BY <2>6
  <2>7. CASE k = 7
    BY <2>7
  <2>8. CASE k = 8
    BY <2>8
  <2> QED
    BY <1>1, <2>1, <2>2, <2>3, <2>4, <2>5, <2>6, <2>7, <2>8
<1>2. PICK a \in 1..8, b \in 1..8 : Near = 2 ^ a /\ Level = 2 ^ b
  <2>1. \A b \in 1..6 : b \in 1..8
    OBVIOUS
  <2> QED
    BY <2>1, NearLevel
<1> QED
  BY <1>1, <1>2

\* The spans, one after the other.
Spanned(f, i) == IF i = 0 THEN Near ELSE f[i - 1] * Level

\* Which is a function.
LEMMA SpannedExists == \E f : f = [i \in 0..Levels |-> Spanned(f, i)]
<1> DEFINE Until(j, f) == /\ f = [n \in 0..Levels |-> f[n]]
                          /\ \A n \in 0..Levels : n <= j => f[n] = Spanned(f, n)
           T == {j \in 0..Levels : ~ \E f : Until(j, f)}
<1>0. Levels \in Nat
  BY LevelsPositive
<1>1. CASE T = {}
  <2>1. PICK f : Until(Levels, f)
    BY <1>0, <1>1
  <2>2. \A n \in 0..Levels : f[n] = Spanned(f, n)
    BY <2>1
  <2>3. f = [n \in 0..Levels |-> Spanned(f, n)]
    BY <2>1, <2>2 DEF Spanned
  <2> QED
    BY <2>3
<1>2. CASE T # {}
  <2>0. T \subseteq Nat
    OBVIOUS
  <2>1. PICK j \in T : \A k \in T : j <= k
    <3> HIDE DEF T
    <3> QED
      BY <1>2, <2>0, LeastNat
  <2>2. j \in 0..Levels /\ ~ \E f : Until(j, f)
    BY <2>1
  <2>3. CASE j = 0
    <3> DEFINE g == [n \in 0..Levels |-> Near]
    <3>1. Until(0, g)
      BY DEF Spanned
    <3> QED
      BY <2>2, <2>3, <3>1
  <2>4. CASE j # 0
    <3>1. j - 1 \in 0..Levels /\ j - 1 \notin T
      BY <1>0, <2>1, <2>2, <2>4
    <3>2. PICK f : Until(j - 1, f)
      BY <3>1
    <3> DEFINE g == [n \in 0..Levels |-> Spanned(f, n)]
    <3>3. \A n \in 0..Levels : n <= j - 1 => g[n] = f[n]
      BY <3>2
    <3>4. \A n \in 0..Levels : n <= j => g[n] = Spanned(g, n)
      <4> SUFFICES ASSUME NEW n \in 0..Levels, n <= j
                   PROVE  g[n] = Spanned(g, n)
        OBVIOUS
      <4>1. g[n] = Spanned(f, n)
        OBVIOUS
      <4>2. n # 0 => g[n - 1] = f[n - 1]
        <5>1. n # 0 => n - 1 \in 0..Levels /\ n - 1 <= j - 1
          BY <1>0, <2>2
        <5> HIDE DEF g
        <5> QED
          BY <3>3, <5>1
      <4> HIDE DEF g
      <4> QED
        BY <4>1, <4>2 DEF Spanned
    <3>5. g = [n \in 0..Levels |-> g[n]]
      OBVIOUS
    <3> HIDE DEF g
    <3>6. Until(j, g)
      BY <3>4, <3>5
    <3> QED
      BY <2>2, <3>6
  <2> QED
    BY <2>3, <2>4
<1> QED
  BY <1>1, <1>2

\* Each span is Level of the one below.
LEMMA SpanIs ==
  /\ Span[0] = Near
  /\ \A i \in 0..Top : Span[i + 1] = Span[i] * Level
  /\ \A i \in 0..Levels : Span[i] \in Nat /\ Span[i] > 0
<1> DEFINE P(f) == f = [i \in 0..Levels |-> Spanned(f, i)]
           k == CHOOSE f : P(f)
<1>0. Levels \in Nat /\ Levels > 0 /\ Top \in Nat /\ Top + 1 = Levels
  BY LevelsPositive DEF Top
<1>1. Span = k
  BY Zenon DEF Span, Spanned
<1>2. \E f : P(f)
  BY SpannedExists
<1> HIDE DEF P
<1>3. P(k)
  BY <1>2
<1>4. P(Span)
  BY <1>1, <1>3
<1>5. \A i \in 0..Levels : Span[i] = Spanned(Span, i)
  BY <1>4 DEF P
<1>6. Span[0] = Near
  BY <1>0, <1>5 DEF Spanned
<1>7. \A i \in 0..Top : Span[i + 1] = Span[i] * Level
  <2> TAKE i \in 0..Top
  <2>1. i + 1 \in 0..Levels /\ i + 1 # 0 /\ (i + 1) - 1 = i
    BY <1>0
  <2> QED
    BY <1>5, <2>1 DEF Spanned
<1>8. \A i \in 0..Levels : Span[i] \in Nat /\ Span[i] > 0
  <2> DEFINE T == {i \in 0..Levels : ~(Span[i] \in Nat /\ Span[i] > 0)}
  <2> SUFFICES ASSUME T # {} PROVE FALSE
    OBVIOUS
  <2>0. T \subseteq Nat
    BY <1>0
  <2>1. PICK j \in T : \A i \in T : j <= i
    <3> HIDE DEF T
    <3> QED
      BY <2>0, LeastNat
  <2>2. j \in 0..Levels /\ j # 0
    BY <1>6, <2>1, Sizes
  <2>3. j - 1 \in 0..Top /\ j - 1 \in 0..Levels /\ j - 1 \notin T /\ (j - 1) + 1 = j
    BY <1>0, <2>1, <2>2
  <2>4. PICK s \in Nat : s = Span[j - 1] /\ s > 0
    BY <2>3
  <2>5. Span[j] = s * Level
    BY <1>7, <2>3, <2>4
  <2>6. s * Level \in Nat /\ s * Level > 0
    BY <2>4, Sizes
  <2> QED
    BY <2>1, <2>5, <2>6
<1> QED
  BY <1>6, <1>7, <1>8

\* The counter wraps after two turns of the top level at least.
LEMMA Widths ==
  /\ Levels \in Nat /\ Levels > 0 /\ Top \in 0..Levels /\ Top + 1 = Levels /\ Levels \in 0..Levels
  /\ Width \in Nat /\ Width > 0 /\ 2 * Span[Top] <= Width /\ Width = Span[Top] * Level
  /\ Span[0] = Near /\ Near <= Width
<1>1. Levels \in Nat /\ Levels > 0 /\ Top \in 0..Levels /\ Top + 1 = Levels /\ Levels \in 0..Levels /\ Top \in 0..Top
  BY LevelsPositive DEF Top
<1>2. Width = Span[Top] * Level /\ Width \in Nat /\ Width > 0
  BY <1>1, SpanIs DEF Width
<1>3. PICK s \in Nat : s = Span[Top] /\ s > 0
  BY <1>1, SpanIs
<1>4. 2 * s <= s * Level
  BY <1>3, Sizes
<1>5. Near <= Width
  <2> DEFINE T == {i \in 0..Levels : ~(Near <= Span[i])}
  <2> SUFFICES ASSUME T # {} PROVE FALSE
    BY <1>1 DEF Width
  <2>0. T \subseteq Nat
    BY <1>1
  <2>1. PICK j \in T : \A i \in T : j <= i
    <3> HIDE DEF T
    <3> QED
      BY <2>0, LeastNat
  <2>2. j \in 0..Levels /\ j # 0
    BY <2>1, SpanIs, Sizes
  <2>3. j - 1 \in 0..Top /\ j - 1 \in 0..Levels /\ j - 1 \notin T /\ (j - 1) + 1 = j
    BY <1>1, <2>1, <2>2
  <2>4. PICK r \in Nat : r = Span[j - 1] /\ Near <= r
    BY <2>3, SpanIs
  <2>5. Span[j] = r * Level
    BY <2>3, <2>4, SpanIs
  <2>6. r <= r * Level /\ r * Level \in Nat
    BY <2>4, Sizes
  <2> QED
    BY <2>1, <2>4, <2>5, <2>6, Sizes
<1> QED
  BY <1>1, <1>2, <1>3, <1>4, <1>5, SpanIs

\* The times e and t are in the same list of level j, or of the near ones (0).
Same(e, t, j) == e \div Span[j] = t \div Span[j]

\* Then they are in the same list of all levels above.
LEMMA SameUp ==
  ASSUME NEW e \in Nat, NEW t \in Nat, NEW i \in 0..Levels, NEW j \in 0..Levels,
         i <= j, Same(e, t, i)
  PROVE  Same(e, t, j)
<1> DEFINE T == {k \in 0..Levels : i <= k /\ ~Same(e, t, k)}
<1> SUFFICES ASSUME T # {} PROVE FALSE
  OBVIOUS
<1>0. T \subseteq Nat
  BY Widths
<1>1. PICK k \in T : \A m \in T : k <= m
  <2> HIDE DEF T
  <2> QED
    BY <1>0, LeastNat
<1>2. k \in 0..Levels /\ i <= k /\ k # i /\ ~Same(e, t, k)
  BY <1>1
<1>3. k - 1 \in 0..Top /\ k - 1 \in 0..Levels /\ i <= k - 1 /\ k - 1 \notin T /\ (k - 1) + 1 = k
  BY <1>1, <1>2, Widths
<1>4. Same(e, t, k - 1)
  BY <1>3
<1>5. PICK s \in Nat : s = Span[k - 1] /\ s > 0
  BY <1>3, SpanIs
<1>6. Span[k] = s * Level
  BY <1>3, <1>5, SpanIs
<1>7. e \div (s * Level) = (e \div s) \div Level /\ t \div (s * Level) = (t \div s) \div Level
  BY <1>5, Sizes, DivMul
<1> QED
  BY <1>2, <1>4, <1>5, <1>6, <1>7 DEF Same

\* A time at which no list of level i begins is none at which a list of a
\* level above begins.
LEMMA BeginsUp ==
  ASSUME NEW t \in Nat, NEW i \in 0..Levels, NEW j \in 0..Levels,
         i <= j, t % Span[i] # 0
  PROVE  t % Span[j] # 0
<1> DEFINE T == {k \in 0..Levels : i <= k /\ t % Span[k] = 0}
<1> SUFFICES ASSUME T # {} PROVE FALSE
  OBVIOUS
<1>0. T \subseteq Nat
  BY Widths
<1>1. PICK k \in T : \A m \in T : k <= m
  <2> HIDE DEF T
  <2> QED
    BY <1>0, LeastNat
<1>2. k \in 0..Levels /\ i <= k /\ k # i /\ t % Span[k] = 0
  BY <1>1
<1>3. k - 1 \in 0..Top /\ k - 1 \in 0..Levels /\ i <= k - 1 /\ k - 1 \notin T /\ (k - 1) + 1 = k
  BY <1>1, <1>2, Widths
<1>4. t % Span[k - 1] # 0
  BY <1>3
<1>5. PICK s \in Nat : s = Span[k - 1] /\ s > 0
  BY <1>3, SpanIs
<1>6. Span[k] = s * Level
  BY <1>3, <1>5, SpanIs
<1>7. t % (s * Level) = 0 => t % s = 0
  BY <1>5, Sizes, DivMul
<1> QED
  BY <1>2, <1>4, <1>5, <1>6, <1>7

-----------------------------------------------------------------------------
(* Where the nodes of a time are                                             *)

\* The values of the counter.
Ticks == 0..(Width - 1)

\* A timeout for e that is added at time t is not past.
Ahead(e, t) == (e - t) % Width < Width \div 2

\* All times are in one turn of the counter.
LEMMA SameTurn ==
  ASSUME NEW e \in Ticks, NEW t \in Ticks
  PROVE  Same(e, t, Levels)
<1>1. PICK w \in Nat : w = Width /\ w > 0 /\ w = Span[Levels]
  BY Widths DEF Width
<1>2. e \in 0..(w - 1) /\ t \in 0..(w - 1)
  BY <1>1 DEF Ticks
<1>3. e = w * 0 + e /\ t = w * 0 + t
  BY <1>1, <1>2
<1>4. \A x \in 0..(w - 1) : x = w * 0 + x => x \div w = 0
  <2> SUFFICES ASSUME NEW x \in 0..(w - 1), x = w * 0 + x
               PROVE  x \div w = 0
    OBVIOUS
  <2>1. (w * 0 + x) \div w = 0
    BY <1>1, DivUnique
  <2> QED
    BY <2>1
<1> QED
  BY <1>1, <1>2, <1>3, <1>4 DEF Same

\* The level of e at time t is the one below the lowest list they share.
LEMMA LevelIs ==
  ASSUME NEW e \in Ticks, NEW t \in Ticks, ~Same(e, t, 0)
  PROVE  /\ LevelOf(e, t) \in 0..Top
         /\ Same(e, t, LevelOf(e, t) + 1) /\ ~Same(e, t, LevelOf(e, t))
<1> DEFINE P(i) == /\ i = Top \/ e \div Span[i + 1] = t \div Span[i + 1]
                   /\ \A j \in 0..(i - 1) : e \div Span[j + 1] # t \div Span[j + 1]
           T == {k \in 0..Levels : Same(e, t, k)}
<1>1. T \subseteq Nat /\ Levels \in T
  BY Widths, SameTurn
<1>2. PICK m \in T : \A k \in T : m <= k
  <2> HIDE DEF T
  <2> QED
    BY <1>1, LeastNat
<1>3. m \in 0..Levels /\ m # 0 /\ Same(e, t, m) /\ m - 1 \in 0..Top /\ (m - 1) + 1 = m
  BY <1>2, Widths
<1>4. P(m - 1)
  <2> SUFFICES ASSUME NEW j \in 0..((m - 1) - 1)
               PROVE  e \div Span[j + 1] # t \div Span[j + 1]
    BY <1>3 DEF Same
  <2>1. j + 1 \in 0..Levels /\ ~(m <= j + 1)
    BY <1>3, Widths
  <2> QED
    BY <1>2, <2>1 DEF Same
<1>5. LevelOf(e, t) = CHOOSE i \in 0..Top : P(i)
  BY DEF LevelOf
<1> HIDE DEF P
<1>6. PICK i \in 0..Top : i = LevelOf(e, t) /\ P(i)
  BY <1>3, <1>4, <1>5
<1>7. Same(e, t, i + 1)
  BY <1>6, SameTurn, Widths DEF P, Same
<1>8. ~Same(e, t, i)
  <2>1. CASE i = 0
    BY <2>1
  <2>2. CASE i # 0
    <3>1. i - 1 \in 0..(i - 1) /\ (i - 1) + 1 = i
      BY <2>2, Widths
    <3> QED
      BY <1>6, <3>1 DEF P, Same
  <2> QED
    BY <2>1, <2>2
<1> QED
  BY <1>6, <1>7, <1>8

\* A level i such that the times agree above it and differ in its bits is the
\* one that add_node finds.
LEMMA LevelOnly ==
  ASSUME NEW e \in Ticks, NEW t \in Ticks, NEW i \in 0..Top,
         Same(e, t, i + 1), ~Same(e, t, i)
  PROVE  LevelOf(e, t) = i /\ ~Same(e, t, 0)
<1>0. e \in Nat /\ t \in Nat /\ i \in 0..Levels /\ 0 \in 0..Levels /\ i + 1 \in 0..Levels
  BY Widths DEF Ticks
<1>1. ~Same(e, t, 0)
  <2>1. 0 <= i
    OBVIOUS
  <2> QED
    BY <1>0, <2>1, SameUp
<1>2. PICK k \in 0..Top : k = LevelOf(e, t) /\ Same(e, t, k + 1) /\ ~Same(e, t, k)
  BY <1>1, LevelIs
<1>3. k \in 0..Levels /\ k + 1 \in 0..Levels
  BY Widths
<1>4. ~(k + 1 <= i)
  BY <1>0, <1>2, <1>3, SameUp
<1>5. ~(i + 1 <= k)
  BY <1>0, <1>2, <1>3, SameUp
<1>6. k = i
  BY <1>4, <1>5, Widths
<1> QED
  BY <1>1, <1>2, <1>6

\* A list of a level above is one of the wheel.
LEMMA PlaceOfIs ==
  ASSUME NEW i \in 0..Top, NEW j \in 0..(Level - 1)
  PROVE  PlaceOf(i, j) \in 1..(Levels * Level)
<1>1. i \in Nat /\ Levels \in Nat /\ i + 1 <= Levels /\ Level \in Nat /\ Level > 0
  BY Widths, Sizes
<1>2. i * Level + Level <= Levels * Level
  <2>1. (i + 1) * Level <= Levels * Level
    <3>1. \A a, b, c \in Nat : a <= b => a * c <= b * c
      OBVIOUS
    <3>2. i + 1 \in Nat
      BY <1>1
    <3> QED
      BY <1>1, <3>1, <3>2
  <2>2. (i + 1) * Level = i * Level + Level
    BY <1>1
  <2> QED
    BY <2>1, <2>2
<1>3. i * Level \in Nat /\ Levels * Level \in Nat
  BY <1>1
<1> QED
  BY <1>1, <1>2, <1>3 DEF PlaceOf

\* A level has Level lists.
LEMMA IndexIs ==
  ASSUME NEW e \in Ticks, NEW i \in 0..Top
  PROVE  IndexOf(e, i) \in 0..(Level - 1)
<1>1. PICK s \in Nat : s = Span[i] /\ s > 0
  BY SpanIs, Widths
<1>2. e \div s \in Nat
  BY <1>1, Divided DEF Ticks
<1>3. (e \div s) % Level \in 0..(Level - 1)
  BY <1>2, Sizes, Divided
<1> QED
  BY <1>1, <1>3 DEF IndexOf

\* The place of e at time t: a near list, if they share it; else a list of the
\* level below the lowest they share.
LEMMA PlaceNear ==
  ASSUME NEW e \in Ticks, NEW t \in Ticks, Same(e, t, 0)
  PROVE  Place(e, t) = <<"near", NearOf(e)>> /\ NearOf(e) \in 1..Near
<1>1. e % Near \in 0..(Near - 1)
  BY Sizes, Divided DEF Ticks
<1> QED
  BY <1>1, Sizes, SpanIs DEF Place, Same, NearOf

\* Such a time has its nodes in the wheel, at level i.
LEMMA PlaceWheel ==
  ASSUME NEW e \in Ticks, NEW t \in Ticks, NEW i \in 0..Top,
         Same(e, t, i + 1), ~Same(e, t, i)
  PROVE  /\ Place(e, t) = <<"wheel", PlaceOf(i, IndexOf(e, i))>>
         /\ PlaceOf(i, IndexOf(e, i)) \in 1..(Levels * Level)
<1>1. LevelOf(e, t) = i /\ ~Same(e, t, 0)
  BY LevelOnly
<1>2. e \div Near # t \div Near
  BY <1>1, Widths DEF Same
<1> QED
  BY <1>1, <1>2, IndexIs, PlaceOfIs DEF Place

\* Every time has its nodes in some list.
LEMMA PlaceIs ==
  ASSUME NEW e \in Ticks, NEW t \in Ticks
  PROVE  Place(e, t) \in Places
<1>1. CASE Same(e, t, 0)
  BY <1>1, PlaceNear DEF Places
<1>2. CASE ~Same(e, t, 0)
  <2>1. PICK i \in 0..Top : Same(e, t, i + 1) /\ ~Same(e, t, i)
    BY <1>2, LevelIs
  <2> QED
    BY <2>1, PlaceWheel DEF Places
<1> QED
  BY <1>1, <1>2

\* The near list of a time holds this time only.
LEMMA NearHere ==
  ASSUME NEW e \in Ticks, NEW t \in Ticks
  PROVE  Place(e, t) = <<"near", NearOf(t)>> <=> e = t
<1>0. e \in Nat /\ t \in Nat
  BY DEF Ticks
<1>1. ASSUME e = t
      PROVE  Place(e, t) = <<"near", NearOf(t)>>
  BY <1>1 DEF Place
<1>2. ASSUME Place(e, t) = <<"near", NearOf(t)>>
      PROVE  e = t
  <2>1. Same(e, t, 0)
    <3> SUFFICES ASSUME ~Same(e, t, 0) PROVE FALSE
      OBVIOUS
    <3>1. PICK i \in 0..Top : Same(e, t, i + 1) /\ ~Same(e, t, i)
      BY LevelIs
    <3>2. Place(e, t)[1] = "wheel"
      BY <3>1, PlaceWheel
    <3> QED
      BY <1>2, <3>2
  <2>2. NearOf(e) = NearOf(t)
    BY <1>2, <2>1, PlaceNear
  <2>3. e \div Near = t \div Near
    BY <2>1, Widths DEF Same
  <2>4. e % Near \in 0..(Near - 1) /\ t % Near \in 0..(Near - 1)
    BY <1>0, Sizes, Divided
  <2>5. e % Near = t % Near
    BY <2>2, <2>4 DEF NearOf
  <2> QED
    BY <1>0, <2>3, <2>5, Sizes, SameBlock
<1> QED
  BY <1>1, <1>2

-----------------------------------------------------------------------------
(* A tick                                                                    *)

\* How far e is ahead of t.
LEMMA AheadIs ==
  ASSUME NEW e \in Ticks, NEW t \in Ticks
  PROVE  (e - t) % Width = IF t <= e THEN e - t ELSE (e - t) + Width
<1>1. PICK w \in Nat : w = Width /\ w > 0
  BY Widths
<1>2. e \in 0..(w - 1) /\ t \in 0..(w - 1)
  BY <1>1 DEF Ticks
<1>3. CASE t <= e
  <2>1. e - t \in 0..(w - 1) /\ e - t = w * 0 + (e - t)
    BY <1>1, <1>2, <1>3
  <2>2. (w * 0 + (e - t)) % w = e - t
    BY <1>1, <2>1, DivUnique
  <2> QED
    BY <1>1, <1>3, <2>1, <2>2
<1>4. CASE ~(t <= e)
  <2>1. (e - t) + w \in 0..(w - 1) /\ e - t = w * (-1) + ((e - t) + w) /\ -1 \in Int
    BY <1>1, <1>2, <1>4
  <2>2. (w * (-1) + ((e - t) + w)) % w = (e - t) + w
    BY <1>1, <2>1, DivUnique
  <2> QED
    BY <1>1, <1>4, <2>1, <2>2
<1> QED
  BY <1>3, <1>4

\* The next tick.
LEMMA NextIs ==
  ASSUME NEW t \in Ticks
  PROVE  (t + 1) % Width = (IF t = Width - 1 THEN 0 ELSE t + 1) /\ (t + 1) % Width \in Ticks
<1>1. PICK w \in Nat : w = Width /\ w > 0
  BY Widths
<1>2. t \in 0..(w - 1)
  BY <1>1 DEF Ticks
<1>3. CASE t = w - 1
  <2>1. t + 1 = w * 1 + 0 /\ 0 \in 0..(w - 1) /\ 1 \in Int
    BY <1>1, <1>3
  <2>2. (w * 1 + 0) % w = 0
    BY <1>1, <2>1, DivUnique
  <2> QED
    BY <1>1, <1>3, <2>1, <2>2 DEF Ticks
<1>4. CASE t # w - 1
  <2>1. t + 1 = w * 0 + (t + 1) /\ t + 1 \in 0..(w - 1) /\ 0 \in Int
    BY <1>1, <1>2, <1>4
  <2>2. (w * 0 + (t + 1)) % w = t + 1
    BY <1>1, <2>1, DivUnique
  <2> QED
    BY <1>1, <1>4, <2>1, <2>2 DEF Ticks
<1> QED
  BY <1>3, <1>4

\* What is ahead, and not now, is ahead after the tick.
LEMMA AheadStill ==
  ASSUME NEW e \in Ticks, NEW t \in Ticks, e # t, Ahead(e, t)
  PROVE  Ahead(e, (t + 1) % Width)
<1>1. PICK w \in Nat : w = Width /\ w > 0 /\ e \in 0..(w - 1) /\ t \in 0..(w - 1)
  BY Widths DEF Ticks
<1>2. PICK n \in Ticks : n = (t + 1) % Width /\ n = (IF t = w - 1 THEN 0 ELSE t + 1) /\ n \in 0..(w - 1)
  BY <1>1, NextIs DEF Ticks
<1>3. (e - t) % Width = IF t <= e THEN e - t ELSE (e - t) + w
  BY <1>1, AheadIs
<1>4. (e - n) % Width = IF n <= e THEN e - n ELSE (e - n) + w
  BY <1>1, <1>2, AheadIs
<1>5. (e - n) % Width = ((e - t) % Width) - 1
  BY <1>1, <1>2, <1>3, <1>4
<1>6. (e - t) % Width \in Nat /\ w \div 2 \in Nat
  BY <1>1, <1>3
<1> QED
  BY <1>1, <1>2, <1>5, <1>6 DEF Ahead

\* The list of level j is the same at the next tick, unless one begins there.
LEMMA SameNext ==
  ASSUME NEW e \in Ticks, NEW t \in Ticks, NEW j \in 0..Levels, (t + 1) % Span[j] # 0
  PROVE  Same(e, t, j) <=> Same(e, t + 1, j)
<1>1. PICK s \in Nat : s = Span[j] /\ s > 0
  BY SpanIs
<1>2. (t + 1) \div s = t \div s
  BY <1>1, DivNext DEF Ticks
<1> QED
  BY <1>1, <1>2 DEF Same

\* At most one list above the near ones begins that is not the first of its
\* level.
LEMMA OneBegins ==
  ASSUME NEW t \in Nat, NEW i \in 0..Top, t % Span[i] = 0, IndexOf(t, i) # 0
  PROVE  /\ {k \in 0..Top : t % Span[k] = 0 /\ IndexOf(t, k) # 0} = {i}
         /\ t % Span[i + 1] # 0
<1> DEFINE B(k) == t % Span[k] = 0 /\ IndexOf(t, k) # 0
<1>1. ASSUME NEW k \in 0..Top, B(k)
      PROVE  t % Span[k + 1] # 0
  <2>1. PICK s \in Nat : s = Span[k] /\ s > 0
    BY Widths, SpanIs
  <2>2. t % (s * Level) = 0 => (t \div s) % Level = 0
    BY <2>1, Sizes, DivMul
  <2> QED
    BY <1>1, <2>1, <2>2, SpanIs DEF IndexOf
<1>2. B(i)
  OBVIOUS
<1> HIDE DEF B
<1>3. ASSUME NEW k \in 0..Top, B(k)
      PROVE  k = i
  <2>0. \A m \in 0..Top : m \in 0..Levels /\ m + 1 \in 0..Levels /\ m \in Int
    BY Widths
  <2>1. t % Span[k + 1] # 0 /\ t % Span[i + 1] # 0
    BY <1>1, <1>2, <1>3
  <2>2. t % Span[k] = 0 /\ t % Span[i] = 0
    BY <1>2, <1>3 DEF B
  <2>3. ~(k + 1 <= i)
    BY <2>0, <2>1, <2>2, BeginsUp
  <2>4. ~(i + 1 <= k)
    BY <2>0, <2>1, <2>2, BeginsUp
  <2> QED
    BY <2>0, <2>3, <2>4
<1>4. {k \in 0..Top : B(k)} = {i}
  BY <1>2, <1>3
<1> QED
  BY <1>1, <1>2, <1>4 DEF B

\* A list that holds t and a time ahead of it does not end at t.
LEMMA NotLast ==
  ASSUME NEW e \in Ticks, NEW t \in Ticks, e # t, Ahead(e, t),
         NEW m \in 0..Levels, Same(e, t, m), t # Width - 1
  PROVE  (t + 1) % Span[m] # 0
<1> SUFFICES ASSUME (t + 1) % Span[m] = 0 PROVE FALSE
  OBVIOUS
<1>0. e \in Nat /\ t \in Nat
  BY DEF Ticks
<1>1. PICK w \in Nat : w = Width /\ w > 0 /\ e \in 0..(w - 1) /\ t \in 0..(w - 1) /\ w = Span[Levels]
  BY Widths DEF Ticks, Width
<1>2. PICK s \in Nat : s = Span[m] /\ s > 0
  BY SpanIs
<1>3. e <= t
  BY <1>0, <1>2, SameBlock DEF Same
<1>4. (e - t) + w < w \div 2
  BY <1>1, <1>3, AheadIs DEF Ahead
<1>5. m # Levels
  <2> SUFFICES ASSUME m = Levels PROVE FALSE
    OBVIOUS
  <2>1. (t + 1) % w = t + 1
    BY <1>1, NextIs
  <2> QED
    BY <1>0, <1>1, <2>1
<1>6. Same(e, t, Top)
  <2>1. m <= Top /\ Top \in 0..Levels
    BY <1>5, Widths
  <2> QED
    BY <1>0, <2>1, SameUp
<1>7. PICK r \in Nat : r = Span[Top] /\ r > 0 /\ 2 * r <= w
  BY <1>1, Widths, SpanIs
<1>8. t - e < r
  BY <1>0, <1>6, <1>7, SameBlock DEF Same
<1> QED
  BY <1>0, <1>1, <1>4, <1>7, <1>8

\* The place of a time ahead stays as it is when a tick is over, but for the
\* list that begins at the next tick.
LEMMA TickOn ==
  ASSUME NEW e \in Ticks, NEW t \in Ticks, e # t, Ahead(e, t), t # Width - 1
  PROVE  \/ Place(e, t + 1) = Place(e, t)
         \/ \E i \in 0..Top : /\ (t + 1) % Span[i] = 0 /\ IndexOf(t + 1, i) # 0
                              /\ Place(e, t) = <<"wheel", PlaceOf(i, IndexOf(t + 1, i))>>
<1>0. t + 1 \in Ticks /\ t \in Nat /\ e \in Nat /\ 0 \in 0..Levels
  BY Widths DEF Ticks
<1>1. CASE Same(e, t, 0)
  <2>1. Same(e, t + 1, 0)
    BY <1>0, <1>1, NotLast, SameNext
  <2> QED
    BY <1>0, <1>1, <2>1, PlaceNear
<1>2. CASE ~Same(e, t, 0)
  <2>1. PICK i \in 0..Top : Same(e, t, i + 1) /\ ~Same(e, t, i)
    BY <1>2, LevelIs
  <2>2. i \in 0..Levels /\ i + 1 \in 0..Levels
    BY Widths
  <2>3. (t + 1) % Span[i + 1] # 0 /\ Same(e, t + 1, i + 1)
    BY <2>1, <2>2, NotLast, SameNext
  <2>4. Place(e, t) = <<"wheel", PlaceOf(i, IndexOf(e, i))>>
    BY <2>1, PlaceWheel
  <2>5. CASE ~Same(e, t + 1, i)
    BY <1>0, <2>3, <2>4, <2>5, PlaceWheel
  <2>6. CASE Same(e, t + 1, i)
    <3>1. (t + 1) % Span[i] = 0
      BY <2>1, <2>2, <2>6, SameNext
    <3>2. IndexOf(e, i) = IndexOf(t + 1, i)
      BY <2>6 DEF Same, IndexOf
    <3>3. IndexOf(t + 1, i) # 0
      <4>1. PICK s \in Nat : s = Span[i] /\ s > 0
        BY <2>2, SpanIs
      <4>2. t + 1 \in Nat
        BY <1>0
      <4>3. (t + 1) % (s * Level) = 0 <=> (t + 1) % s = 0 /\ ((t + 1) \div s) % Level = 0
        BY <4>1, <4>2, Sizes, DivMul
      <4>4. Span[i + 1] = s * Level
        BY <4>1, SpanIs
      <4> QED
        BY <2>3, <3>1, <4>1, <4>3, <4>4 DEF IndexOf
    <3> QED
      BY <2>4, <3>1, <3>2, <3>3
  <2> QED
    BY <2>5, <2>6
<1> QED
  BY <1>1, <1>2

\* When the counter wraps, so does the place of a time ahead, but for the
\* first list of the top level.
LEMMA TickTurn ==
  ASSUME NEW e \in Ticks, NEW t \in Ticks, e # t, Ahead(e, t), t = Width - 1
  PROVE  Place(e, 0) = Place(e, t) \/ Place(e, t) = <<"wheel", PlaceOf(Top, 0)>>
<1>0. t \in Nat /\ e \in Nat /\ Top \in 0..Levels /\ Top \in 0..Top /\ Top + 1 = Levels /\ 0 \in Ticks
  BY Widths DEF Ticks
<1>1. PICK w \in Nat : w = Width /\ w > 0 /\ e \in 0..(w - 1) /\ t = w - 1
  BY Widths DEF Ticks
<1>2. PICK r \in Nat : r = Span[Top] /\ r > 0 /\ 2 * r <= w
  BY <1>0, <1>1, Widths, SpanIs
<1>3. ~Same(e, t, Top)
  <2> SUFFICES ASSUME Same(e, t, Top) PROVE FALSE
    OBVIOUS
  <2>1. t - e < r
    BY <1>0, <1>2, SameBlock DEF Same
  <2>2. (e - t) + w < w \div 2
    BY <1>1, AheadIs DEF Ahead
  <2> QED
    BY <1>1, <1>2, <2>1, <2>2
<1>4. Same(e, t, Top + 1) /\ Same(e, 0, Top + 1)
  BY <1>0, SameTurn
<1>5. Place(e, t) = <<"wheel", PlaceOf(Top, IndexOf(e, Top))>>
  BY <1>0, <1>3, <1>4, PlaceWheel
<1>6. CASE Same(e, 0, Top)
  <2>1. 0 \div r = 0 /\ 0 % Level = 0
    BY <1>2, Sizes
  <2>2. IndexOf(e, Top) = 0
    BY <1>2, <1>6, <2>1 DEF Same, IndexOf
  <2> QED
    BY <1>5, <2>2
<1>7. CASE ~Same(e, 0, Top)
  BY <1>0, <1>4, <1>5, <1>7, PlaceWheel
<1> QED
  BY <1>6, <1>7

-----------------------------------------------------------------------------
(* The events of a list                                                      *)

\* What a timeout is for.
Names == {"own", "other"}

\* The results after each of the n turns of a loop that begins with a.
Results(V, a, n, g) == {f \in [0..n -> V] : f[0] = a /\ \A k \in 1..n : f[k] = g[k][f[k - 1]]}

\* Such a loop has results.
LEMMA Iterated ==
  ASSUME NEW V, NEW a \in V, NEW n \in Nat, NEW g,
         \A k \in 1..n : \A x \in V : g[k][x] \in V
  PROVE  Results(V, a, n, g) # {}
<1> DEFINE P(m) == \E f \in [0..m -> V] : f[0] = a /\ \A k \in 1..m : f[k] = g[k][f[k - 1]]
           T == {m \in 0..n : ~P(m)}
<1> SUFFICES P(n)
  BY DEF Results
<1> HIDE DEF P
<1> SUFFICES ASSUME T # {} PROVE FALSE
  OBVIOUS
<1>0. T \subseteq Nat
  OBVIOUS
<1>1. PICK m \in T : \A i \in T : m <= i
  <2> HIDE DEF T
  <2> QED
    BY <1>0, LeastNat
<1>2. m \in 0..n /\ ~P(m)
  BY <1>1
<1>3. m # 0
  <2> SUFFICES ASSUME m = 0 PROVE FALSE
    OBVIOUS
  <2>1. [k \in 0..0 |-> a] \in [0..0 -> V] /\ [k \in 0..0 |-> a][0] = a /\ 1..0 = {}
    OBVIOUS
  <2>2. P(0)
    BY <2>1 DEF P
  <2> QED
    BY <1>2, <2>2
<1>4. m - 1 \in 0..n /\ m - 1 \notin T
  BY <1>1, <1>2, <1>3
<1>5. PICK f \in [0..(m - 1) -> V] : f[0] = a /\ \A k \in 1..(m - 1) : f[k] = g[k][f[k - 1]]
  BY <1>4 DEF P
<1> DEFINE h == [k \in 0..m |-> IF k = m THEN g[m][f[m - 1]] ELSE f[k]]
<1>6. g[m][f[m - 1]] \in V
  <2>1. f[m - 1] \in V /\ m \in 1..n
    BY <1>2, <1>3, <1>5
  <2> QED
    BY <2>1
<1>7. h \in [0..m -> V]
  <2>1. \A k \in 0..m : k # m => k \in 0..(m - 1)
    BY <1>2
  <2> QED
    BY <1>5, <1>6, <2>1
<1>8. h[0] = a /\ h[m] = g[m][f[m - 1]] /\ \A k \in 0..(m - 1) : h[k] = f[k]
  BY <1>2, <1>3, <1>5
<1> HIDE DEF h
<1>9. \A k \in 1..m : h[k] = g[k][h[k - 1]]
  <2> TAKE k \in 1..m
  <2>1. k - 1 \in 0..(m - 1) /\ (k # m => k \in 1..(m - 1) /\ k \in 0..(m - 1))
    BY <1>2
  <2> QED
    BY <1>5, <1>8, <2>1
<1> QED
  BY <1>2, <1>7, <1>8, <1>9 DEF P

\* The events found in the first k nodes.
Found(l, e, f, k) ==
    IF k = 0 THEN <<>>
    ELSE IF l[k].expire = e THEN Append(f[k - 1], l[k].event)
    ELSE f[k - 1]

\* f is what is found at tick e, node by node.
Finds(l, e, f) ==
    /\ f \in [0..Len(l) -> Seq(Names)]
    /\ f[0] = <<>>
    /\ \A k \in 1..Len(l) : f[k] = IF l[k].expire = e THEN Append(f[k - 1], l[k].event) ELSE f[k - 1]

\* EventsAt goes from node to node.
LEMMA EventsAre ==
  ASSUME NEW l \in Seq(Timed), NEW e
  PROVE  \E f : Finds(l, e, f) /\ EventsAt(l, e) = f[Len(l)]
<1> DEFINE P(f) == f = [k \in 0..Len(l) |-> Found(l, e, f, k)]
           c == CHOOSE f : P(f)
           one(k) == [x \in Seq(Names) |-> IF l[k].expire = e THEN Append(x, l[k].event) ELSE x]
           g == [k \in 1..Len(l) |-> one(k)]
<1>0. Len(l) \in Nat /\ \A k \in 1..Len(l) : l[k].event \in Names
  <2>1. Len(l) \in Nat /\ l \in [1..Len(l) -> Timed]
    BY LenProperties
  <2>2. \A n \in Timed : n.event \in Names
    BY DEF Timed, Names
  <2> QED
    BY <2>1, <2>2
<1>1. \A k \in 1..Len(l) : one(k) \in [Seq(Names) -> Seq(Names)]
  BY <1>0, AppendProperties
<1>2. \A k \in 1..Len(l) : \A x \in Seq(Names) : g[k][x] \in Seq(Names)
  <2> HIDE DEF one
  <2>1. \A k \in 1..Len(l) : g[k] = one(k)
    OBVIOUS
  <2> QED
    BY <1>1, <2>1
<1>3. <<>> \in Seq(Names)
  OBVIOUS
<1>4. PICK f \in [0..Len(l) -> Seq(Names)] : f[0] = <<>> /\ \A k \in 1..Len(l) : f[k] = g[k][f[k - 1]]
  <2>1. Results(Seq(Names), <<>>, Len(l), g) # {}
    <3> HIDE DEF g
    <3> QED
      BY <1>0, <1>2, <1>3, Iterated
  <2> QED
    BY <2>1 DEF Results
<1>5. Finds(l, e, f)
  <2> SUFFICES ASSUME NEW k \in 1..Len(l)
               PROVE  f[k] = IF l[k].expire = e THEN Append(f[k - 1], l[k].event) ELSE f[k - 1]
    BY <1>4 DEF Finds
  <2>1. k - 1 \in 0..Len(l)
    BY <1>0
  <2>2. f[k - 1] \in Seq(Names)
    BY <1>4, <2>1
  <2>3. g[k] = one(k) /\ f[k] = g[k][f[k - 1]]
    BY <1>4
  <2> QED
    BY <2>2, <2>3
<1>6. EventsAt(l, e) = c[Len(l)]
  BY Zenon DEF EventsAt, Found
<1>7. P(f)
  <2>1. \A k \in 0..Len(l) : f[k] = Found(l, e, f, k)
    <3> TAKE k \in 0..Len(l)
    <3>1. CASE k = 0
      BY <1>4, <3>1 DEF Found
    <3>2. CASE k # 0
      <4>1. k \in 1..Len(l)
        BY <1>0, <3>2
      <4> QED
        BY <1>5, <3>2, <4>1 DEF Found, Finds
    <3> QED
      BY <3>1, <3>2
  <2> QED
    BY <1>4, <2>1
<1> HIDE DEF P, g
<1>8. P(c)
  BY <1>7
<1>9. \A k \in 0..Len(l) : c[k] = Found(l, e, c, k)
  BY <1>8 DEF P
<1>10. \A k \in 0..Len(l) : c[k] = f[k]
  <2> DEFINE T == {k \in 0..Len(l) : c[k] # f[k]}
  <2> SUFFICES ASSUME T # {} PROVE FALSE
    OBVIOUS
  <2>0. T \subseteq Nat
    BY <1>0
  <2> HIDE DEF c
  <2>1. PICK k \in T : \A i \in T : k <= i
    <3> HIDE DEF T
    <3> QED
      BY <2>0, LeastNat
  <2>2. k \in 0..Len(l) /\ c[k] # f[k] /\ c[0] = <<>>
    BY <1>0, <1>9, <2>1 DEF Found
  <2>3. k \in 1..Len(l) /\ k - 1 \in 0..Len(l) /\ k - 1 \notin T /\ k # 0
    BY <1>0, <1>4, <2>1, <2>2
  <2>4. c[k - 1] = f[k - 1]
    BY <2>3
  <2>5. c[k] = IF l[k].expire = e THEN Append(c[k - 1], l[k].event) ELSE c[k - 1]
    BY <1>9, <2>3 DEF Found
  <2> QED
    BY <1>5, <2>2, <2>3, <2>4, <2>5 DEF Finds
<1> HIDE DEF c
<1>11. c[Len(l)] = f[Len(l)]
  BY <1>0, <1>10
<1> QED
  BY <1>5, <1>6, <1>11

\* Nothing is found in an empty list.
LEMMA EventsEmpty == ASSUME NEW e PROVE EventsAt(<<>>, e) = <<>>
<1>1. <<>> \in Seq(Timed) /\ Len(<<>>) = 0
  OBVIOUS
<1>2. PICK f : Finds(<<>>, e, f) /\ EventsAt(<<>>, e) = f[Len(<<>>)]
  BY <1>1, EventsAre
<1> QED
  BY <1>1, <1>2 DEF Finds

\* What is found in a list is events.
LEMMA EventsIn ==
  ASSUME NEW l \in Seq(Timed), NEW e
  PROVE  EventsAt(l, e) \in Seq(Names)
<1>1. PICK f : Finds(l, e, f) /\ EventsAt(l, e) = f[Len(l)]
  BY EventsAre
<1>2. Len(l) \in 0..Len(l)
  BY LenProperties
<1>3. f \in [0..Len(l) -> Seq(Names)]
  BY <1>1 DEF Finds
<1> QED
  BY <1>1, <1>2, <1>3

\* A node at the end is found last.
LEMMA EventsAppend ==
  ASSUME NEW l \in Seq(Timed), NEW n \in Timed, NEW e
  PROVE  EventsAt(Append(l, n), e)
           = IF n.expire = e THEN Append(EventsAt(l, e), n.event) ELSE EventsAt(l, e)
<1>1. PICK a \in Seq(Timed) : a = Append(l, n)
  BY AppendProperties
<1>2. PICK f : Finds(l, e, f) /\ EventsAt(l, e) = f[Len(l)]
  BY EventsAre
<1>3. PICK h : Finds(a, e, h) /\ EventsAt(a, e) = h[Len(a)]
  BY EventsAre
<1>4. PICK m \in Nat : m = Len(l)
  BY LenProperties
<1>5. Len(a) = m + 1 /\ a[m + 1] = n /\ \A k \in 1..m : a[k] = l[k]
  BY <1>1, <1>4, AppendProperties
<1>6. \A k \in 0..m : h[k] = f[k]
  <2> DEFINE T == {k \in 0..m : h[k] # f[k]}
  <2> SUFFICES ASSUME T # {} PROVE FALSE
    OBVIOUS
  <2>0. T \subseteq Nat
    OBVIOUS
  <2>1. PICK k \in T : \A i \in T : k <= i
    <3> HIDE DEF T
    <3> QED
      BY <2>0, LeastNat
  <2>2. k \in 1..m /\ k - 1 \in 0..m /\ k - 1 \notin T /\ h[k] # f[k]
    BY <1>2, <1>3, <2>1 DEF Finds
  <2>3. h[k - 1] = f[k - 1]
    BY <2>2
  <2>4. k \in 1..Len(a) /\ k \in 1..Len(l) /\ a[k] = l[k]
    BY <1>4, <1>5, <2>2
  <2>5. h[k] = IF a[k].expire = e THEN Append(h[k - 1], a[k].event) ELSE h[k - 1]
    BY <1>3, <2>4 DEF Finds
  <2>6. f[k] = IF l[k].expire = e THEN Append(f[k - 1], l[k].event) ELSE f[k - 1]
    BY <1>2, <2>4 DEF Finds
  <2> QED
    BY <2>2, <2>3, <2>4, <2>5, <2>6
<1>7. h[m + 1] = IF n.expire = e THEN Append(f[m], n.event) ELSE f[m]
  <2>1. m + 1 \in 1..Len(a) /\ (m + 1) - 1 = m /\ m \in 0..m
    BY <1>5
  <2>2. h[m + 1] = IF a[m + 1].expire = e THEN Append(h[(m + 1) - 1], a[m + 1].event) ELSE h[(m + 1) - 1]
    BY <1>3, <2>1 DEF Finds
  <2> QED
    BY <1>5, <1>6, <2>1, <2>2
<1> QED
  BY <1>1, <1>2, <1>3, <1>4, <1>5, <1>7

\* What is not in a list is not found there, and the converse.
LEMMA EventsNone ==
  ASSUME NEW l \in Seq(Timed), NEW e
  PROVE  EventsAt(l, e) = <<>> <=> \A k \in 1..Len(l) : l[k].expire # e
<1>1. PICK f : Finds(l, e, f) /\ EventsAt(l, e) = f[Len(l)]
  BY EventsAre
<1>2. PICK m \in Nat : m = Len(l)
  BY LenProperties
<1>3. /\ f[0] = <<>>
      /\ \A k \in 1..m : f[k] = IF l[k].expire = e THEN Append(f[k - 1], l[k].event) ELSE f[k - 1]
      /\ \A k \in 0..m : f[k] \in Seq(Names)
  BY <1>1, <1>2 DEF Finds
<1>4. ASSUME \A k \in 1..m : l[k].expire # e
      PROVE  f[m] = <<>>
  <2> DEFINE T == {k \in 0..m : f[k] # <<>>}
  <2> SUFFICES ASSUME T # {} PROVE FALSE
    OBVIOUS
  <2>0. T \subseteq Nat
    OBVIOUS
  <2>1. PICK k \in T : \A i \in T : k <= i
    <3> HIDE DEF T
    <3> QED
      BY <2>0, LeastNat
  <2>2. k \in 1..m /\ k - 1 \in 0..m /\ k - 1 \notin T /\ f[k] # <<>>
    BY <1>3, <2>1
  <2>3. f[k - 1] = <<>> /\ f[k] = f[k - 1]
    BY <1>3, <1>4, <2>2
  <2> QED
    BY <2>2, <2>3
<1>5. ASSUME NEW j \in 1..m, l[j].expire = e
      PROVE  f[m] # <<>>
  <2> DEFINE T == {k \in j..m : f[k] = <<>>}
  <2> SUFFICES ASSUME T # {} PROVE FALSE
    OBVIOUS
  <2>0. T \subseteq Nat
    OBVIOUS
  <2>1. PICK k \in T : \A i \in T : k <= i
    <3> HIDE DEF T
    <3> QED
      BY <2>0, LeastNat
  <2>2. k \in 1..m /\ k \in j..m /\ f[k] = <<>> /\ k - 1 \in 0..m
    BY <2>1
  <2>4. l[k].expire # e /\ f[k - 1] = <<>>
    <3>1. PICK x : x = f[k - 1]
      OBVIOUS
    <3>2. Append(x, l[k].event) # <<>>
      <4>1. x \in Seq(Names)
        BY <1>3, <2>2, <3>1
      <4>2. PICK y : y = l[k].event
        OBVIOUS
      <4>3. Append(x, y) # <<>>
        BY <4>1
      <4> QED
        BY <4>2, <4>3
    <3> QED
      BY <1>3, <2>2, <3>1, <3>2
  <2>5. k # j /\ k - 1 \in j..m /\ k - 1 \notin T
    BY <1>5, <2>1, <2>2, <2>4
  <2> QED
    BY <2>4, <2>5
<1> QED
  BY <1>1, <1>2, <1>4, <1>5

\* An event at the end of two sequences.
LEMMA Grouped ==
  ASSUME NEW a \in Seq(Names), NEW x \in Seq(Names), NEW y \in Names
  PROVE  Append(a \o x, y) = a \o Append(x, y)
<1>1. PICK u \in Seq(Names) : u = a \o x
  BY ConcatProperties
<1>2. <<y>> \in Seq(Names)
  OBVIOUS
<1>3. Append(u, y) = u \o <<y>>
  BY AppendIsConcat
<1>4. (a \o x) \o <<y>> = a \o (x \o <<y>>)
  BY <1>2, ConcatAssociative
<1>5. x \o <<y>> = Append(x, y)
  BY AppendIsConcat
<1> QED
  BY <1>1, <1>3, <1>4, <1>5

\* The head of a list is found first.
LEMMA EventsTail ==
  ASSUME NEW l \in Seq(Timed), l # <<>>, NEW e
  PROVE  EventsAt(l, e) = (IF Head(l).expire = e THEN <<Head(l).event>> ELSE <<>>) \o EventsAt(Tail(l), e)
<1>1. PICK b \in Seq(Timed) : b = Tail(l)
  BY HeadTailProperties
<1>2. PICK f : Finds(l, e, f) /\ EventsAt(l, e) = f[Len(l)]
  BY EventsAre
<1>3. PICK h : Finds(b, e, h) /\ EventsAt(b, e) = h[Len(b)]
  BY EventsAre
<1>4. PICK m \in Nat : m = Len(b)
  BY LenProperties
<1>5. Len(l) = m + 1 /\ Head(l) = l[1] /\ \A k \in 1..m : b[k] = l[k + 1]
  BY <1>1, <1>4, HeadTailProperties, LenProperties
<1>6. PICK first : first = IF Head(l).expire = e THEN <<Head(l).event>> ELSE <<>>
  OBVIOUS
<1>7. first \in Seq(Names) /\ f[1] = first
  <2>1. l[1] \in Timed
    BY <1>5, ElementOfSeq
  <2>2. l[1].event \in Names
    BY <2>1 DEF Timed, Names
  <2>3. 1 \in 1..Len(l) /\ 1 - 1 = 0
    BY <1>5
  <2>4. f[1] = IF l[1].expire = e THEN Append(f[0], l[1].event) ELSE f[0]
    BY <1>2, <2>3 DEF Finds
  <2>5. f[0] = <<>> /\ Append(<<>>, l[1].event) = <<l[1].event>>
    BY <1>2 DEF Finds
  <2> QED
    BY <1>5, <1>6, <2>2, <2>4, <2>5
<1>8. \A k \in 0..m : f[k + 1] = first \o h[k]
  <2> DEFINE T == {k \in 0..m : f[k + 1] # first \o h[k]}
  <2> SUFFICES ASSUME T # {} PROVE FALSE
    OBVIOUS
  <2>0. T \subseteq Nat
    OBVIOUS
  <2>1. PICK k \in T : \A i \in T : k <= i
    <3> HIDE DEF T
    <3> QED
      BY <2>0, LeastNat
  <2>2. k \in 0..m /\ f[k + 1] # first \o h[k]
    BY <2>1
  <2>3. CASE k = 0
    <3>1. h[0] = <<>> /\ first \o <<>> = first /\ 0 + 1 = 1
      BY <1>3, <1>7, ConcatEmptySeq DEF Finds
    <3> QED
      BY <1>7, <2>2, <2>3, <3>1
  <2>4. CASE k # 0
    <3>1. k \in 1..m /\ k - 1 \in 0..m /\ k - 1 \notin T /\ (k - 1) + 1 = k /\ (k + 1) - 1 = k
      BY <2>1, <2>2, <2>4
    <3>2. f[k] = first \o h[k - 1]
      BY <3>1
    <3>3. k \in 1..Len(b) /\ k + 1 \in 1..Len(l) /\ b[k] = l[k + 1]
      BY <1>4, <1>5, <3>1
    <3>4. h[k] = IF b[k].expire = e THEN Append(h[k - 1], b[k].event) ELSE h[k - 1]
      BY <1>3, <3>3 DEF Finds
    <3>5. f[k + 1] = IF l[k + 1].expire = e THEN Append(f[k], l[k + 1].event) ELSE f[k]
      BY <1>2, <3>1, <3>3 DEF Finds
    <3>6. h[k - 1] \in Seq(Names)
      BY <1>3, <1>4, <3>1 DEF Finds
    <3>7. b[k].event \in Names
      <4>1. b[k] \in Timed
        BY <3>3, ElementOfSeq
      <4> QED
        BY <4>1 DEF Timed, Names
    <3>8. Append(first \o h[k - 1], b[k].event) = first \o Append(h[k - 1], b[k].event)
      <4>1. PICK x \in Seq(Names), y \in Names : x = h[k - 1] /\ y = b[k].event
        BY <3>6, <3>7
      <4>2. PICK a \in Seq(Names) : a = first
        BY <1>7
      <4>3. Append(a \o x, y) = a \o Append(x, y)
        BY Grouped
      <4> QED
        BY <4>1, <4>2, <4>3
    <3> QED
      BY <2>2, <3>2, <3>3, <3>4, <3>5, <3>8
  <2> QED
    BY <2>3, <2>4
<1>9. m \in 0..m
  OBVIOUS
<1> QED
  BY <1>1, <1>2, <1>3, <1>4, <1>5, <1>6, <1>8, <1>9

-----------------------------------------------------------------------------
(* The lists                                                                 *)

\* What the wheel has for tick e.
FoundAt(tab, t, e) == EventsAt(ListAt(tab, Place(e, t)), e)

\* A table has two parts.
LEMMA TableIs ==
  ASSUME NEW tab \in Tables
  PROVE  \E a \in [1..Near -> Seq(Timed)], b \in [1..(Levels * Level) -> Seq(Timed)] :
            tab = [near |-> a, wheel |-> b]
BY DEF Tables

\* Every place has a list of nodes.
LEMMA ListAtIn ==
  ASSUME NEW tab \in Tables, NEW p \in Places
  PROVE  ListAt(tab, p) \in Seq(Timed)
<1>1. PICK a \in [1..Near -> Seq(Timed)], b \in [1..(Levels * Level) -> Seq(Timed)] :
         tab = [near |-> a, wheel |-> b]
  BY TableIs
<1>2. CASE p \in {"near"} \X (1..Near)
  <2>1. PICK i \in 1..Near : p = <<"near", i>>
    BY <1>2
  <2> QED
    BY <1>1, <2>1 DEF ListAt
<1>3. CASE p \in {"wheel"} \X (1..(Levels * Level))
  <2>1. PICK i \in 1..(Levels * Level) : p = <<"wheel", i>>
    BY <1>3
  <2> QED
    BY <1>1, <2>1 DEF ListAt
<1> QED
  BY <1>2, <1>3 DEF Places

\* One list of the wheel is another one.
LEMMA NearChanged ==
  ASSUME NEW tab \in Tables, NEW i \in 1..Near, NEW l \in Seq(Timed)
  PROVE  LET g == [tab EXCEPT !.near[i] = l]
         IN  /\ g \in Tables
             /\ \A p \in Places : ListAt(g, p) = IF p = <<"near", i>> THEN l ELSE ListAt(tab, p)
<1> DEFINE g == [tab EXCEPT !.near[i] = l]
<1>1. PICK a \in [1..Near -> Seq(Timed)], b \in [1..(Levels * Level) -> Seq(Timed)] :
         tab = [near |-> a, wheel |-> b]
  BY TableIs
<1>2. PICK c \in [1..Near -> Seq(Timed)] : c = [a EXCEPT ![i] = l]
  OBVIOUS
<1>3. g = [near |-> c, wheel |-> b]
  BY <1>1, <1>2, SMTT(30)
<1>4. g \in Tables
  BY <1>3 DEF Tables
<1> HIDE DEF g
<1>5. ASSUME NEW p \in Places
      PROVE  ListAt(g, p) = IF p = <<"near", i>> THEN l ELSE ListAt(tab, p)
  <2>1. CASE p \in {"near"} \X (1..Near)
    <3>1. PICK j \in 1..Near : p = <<"near", j>>
      BY <2>1
    <3>2. ListAt(g, p) = c[j] /\ ListAt(tab, p) = a[j]
      BY <1>1, <1>3, <3>1 DEF ListAt
    <3>3. p = <<"near", i>> <=> j = i
      BY <3>1
    <3> QED
      BY <1>2, <3>2, <3>3
  <2>2. CASE p \in {"wheel"} \X (1..(Levels * Level))
    <3>1. PICK j \in 1..(Levels * Level) : p = <<"wheel", j>>
      BY <2>2
    <3>2. ListAt(g, p) = b[j] /\ ListAt(tab, p) = b[j]
      BY <1>1, <1>3, <3>1 DEF ListAt
    <3>3. p # <<"near", i>>
      BY <3>1
    <3> QED
      BY <3>2, <3>3
  <2> QED
    BY <2>1, <2>2 DEF Places
<1> QED
  BY <1>4, <1>5 DEF g

\* The same for the lists of the levels above.
LEMMA WheelChanged ==
  ASSUME NEW tab \in Tables, NEW i \in 1..(Levels * Level), NEW l \in Seq(Timed)
  PROVE  LET g == [tab EXCEPT !.wheel[i] = l]
         IN  /\ g \in Tables
             /\ \A p \in Places : ListAt(g, p) = IF p = <<"wheel", i>> THEN l ELSE ListAt(tab, p)
<1> DEFINE g == [tab EXCEPT !.wheel[i] = l]
<1>1. PICK a \in [1..Near -> Seq(Timed)], b \in [1..(Levels * Level) -> Seq(Timed)] :
         tab = [near |-> a, wheel |-> b]
  BY TableIs
<1>2. PICK c \in [1..(Levels * Level) -> Seq(Timed)] : c = [b EXCEPT ![i] = l]
  OBVIOUS
<1>3. g = [near |-> a, wheel |-> c]
  BY <1>1, <1>2
<1>4. g \in Tables
  BY <1>3 DEF Tables
<1> HIDE DEF g
<1>5. ASSUME NEW p \in Places
      PROVE  ListAt(g, p) = IF p = <<"wheel", i>> THEN l ELSE ListAt(tab, p)
  <2>1. CASE p \in {"wheel"} \X (1..(Levels * Level))
    <3>1. PICK j \in 1..(Levels * Level) : p = <<"wheel", j>>
      BY <2>1
    <3>2. ListAt(g, p) = c[j] /\ ListAt(tab, p) = b[j]
      BY <1>1, <1>3, <3>1 DEF ListAt
    <3>3. p = <<"wheel", i>> <=> j = i
      BY <3>1
    <3> QED
      BY <1>2, <3>2, <3>3
  <2>2. CASE p \in {"near"} \X (1..Near)
    <3>1. PICK j \in 1..Near : p = <<"near", j>>
      BY <2>2
    <3>2. ListAt(g, p) = a[j] /\ ListAt(tab, p) = a[j]
      BY <1>1, <1>3, <3>1 DEF ListAt
    <3>3. p # <<"wheel", i>>
      BY <3>1
    <3> QED
      BY <3>2, <3>3
  <2> QED
    BY <2>1, <2>2 DEF Places
<1> QED
  BY <1>4, <1>5 DEF g

\* add_node puts a node at the end of the list of its place.
LEMMA AddNodeIs ==
  ASSUME NEW tab \in Tables, NEW n \in Timed, NEW t \in Ticks
  PROVE  /\ AddNode(tab, n, t) \in Tables
         /\ \A p \in Places :
               ListAt(AddNode(tab, n, t), p)
                 = IF p = Place(n.expire, t) THEN Append(ListAt(tab, p), n) ELSE ListAt(tab, p)
<1>1. PICK e \in Ticks : e = n.expire
  BY DEF Timed, Ticks
<1>2. Place(e, t) \in Places
  BY PlaceIs
<1>3. CASE e \div Near = t \div Near
  <2>1. Place(e, t) = <<"near", NearOf(e)>> /\ NearOf(e) \in 1..Near
    BY <1>3, PlaceNear, Widths DEF Same
  <2>2. ListAt(tab, Place(e, t)) = tab.near[NearOf(e)]
    BY <2>1 DEF ListAt
  <2>3. PICK l \in Seq(Timed) : l = Append(tab.near[NearOf(e)], n)
    BY <1>2, <2>2, ListAtIn, AppendProperties
  <2>4. AddNode(tab, n, t) = [tab EXCEPT !.near[NearOf(e)] = l]
    BY <1>1, <1>3, <2>3 DEF AddNode
  <2>5. PICK i \in 1..Near : i = NearOf(e)
    BY <2>1
  <2>6. PICK g : g = [tab EXCEPT !.near[i] = l]
    OBVIOUS
  <2>7. g \in Tables /\ \A p \in Places : ListAt(g, p) = IF p = <<"near", i>> THEN l ELSE ListAt(tab, p)
    BY <2>6, NearChanged
  <2>8. AddNode(tab, n, t) = g
    BY <2>4, <2>5, <2>6
  <2>9. Place(e, t) = <<"near", i>> /\ l = Append(ListAt(tab, <<"near", i>>), n)
    BY <2>1, <2>2, <2>3, <2>5
  <2> QED
    BY <1>1, <2>7, <2>8, <2>9
<1>4. CASE e \div Near # t \div Near
  <2>1. ~Same(e, t, 0)
    BY <1>4, Widths DEF Same
  <2>2. PICK i \in 0..Top : i = LevelOf(e, t) /\ Same(e, t, i + 1) /\ ~Same(e, t, i)
    BY <2>1, LevelIs
  <2>3. PICK q \in 1..(Levels * Level) : q = PlaceOf(i, IndexOf(e, i)) /\ Place(e, t) = <<"wheel", q>>
    BY <2>2, PlaceWheel
  <2>4. ListAt(tab, Place(e, t)) = tab.wheel[q]
    BY <2>3 DEF ListAt
  <2>5. PICK l \in Seq(Timed) : l = Append(tab.wheel[q], n)
    BY <1>2, <2>4, ListAtIn, AppendProperties
  <2>6. AddNode(tab, n, t) = [tab EXCEPT !.wheel[q] = l]
    BY <1>1, <1>4, <2>2, <2>3, <2>5 DEF AddNode
  <2>7. PICK g : g = [tab EXCEPT !.wheel[q] = l]
    OBVIOUS
  <2>8. g \in Tables /\ \A p \in Places : ListAt(g, p) = IF p = <<"wheel", q>> THEN l ELSE ListAt(tab, p)
    BY <2>7, WheelChanged
  <2>9. Place(e, t) = <<"wheel", q>> /\ l = Append(ListAt(tab, <<"wheel", q>>), n)
    BY <2>3, <2>4, <2>5
  <2> QED
    BY <1>1, <2>6, <2>7, <2>8, <2>9
<1> QED
  BY <1>3, <1>4

\* add_node puts a node where it will be found, after those of its tick, and
\* leaves the other ticks alone.
LEMMA AddNodeKeeps ==
  ASSUME NEW tab \in Tables, NEW n \in Timed, NEW t \in Ticks,
         Placed(tab, t), Ahead(n.expire, t)
  PROVE  /\ AddNode(tab, n, t) \in Tables
         /\ Placed(AddNode(tab, n, t), t)
         /\ \A e \in Ticks :
               FoundAt(AddNode(tab, n, t), t, e)
                 = IF n.expire = e THEN Append(FoundAt(tab, t, e), n.event) ELSE FoundAt(tab, t, e)
<1>1. PICK g \in Tables : g = AddNode(tab, n, t)
  BY AddNodeIs
<1>2. \A p \in Places :
         ListAt(g, p) = IF p = Place(n.expire, t) THEN Append(ListAt(tab, p), n) ELSE ListAt(tab, p)
  BY <1>1, AddNodeIs
<1>3. ASSUME NEW p \in Places, NEW k \in 1..Len(ListAt(g, p))
      PROVE  p = Place(ListAt(g, p)[k].expire, t) /\ (ListAt(g, p)[k].expire - t) % Width < Width \div 2
  <2>1. PICK l \in Seq(Timed) : l = ListAt(tab, p)
    BY ListAtIn
  <2>2. \A j \in 1..Len(l) : p = Place(l[j].expire, t) /\ (l[j].expire - t) % Width < Width \div 2
    BY <2>1 DEF Placed
  <2>3. CASE p = Place(n.expire, t)
    <3>1. ListAt(g, p) = Append(l, n)
      BY <1>2, <2>1, <2>3
    <3>2. Len(l) \in Nat /\ Len(Append(l, n)) = Len(l) + 1 /\ Append(l, n)[Len(l) + 1] = n
          /\ \A j \in 1..Len(l) : Append(l, n)[j] = l[j]
      BY AppendProperties, LenProperties
    <3>3. CASE k \in 1..Len(l)
      BY <2>2, <3>1, <3>2, <3>3
    <3>4. CASE k = Len(l) + 1
      BY <2>3, <3>1, <3>2, <3>4 DEF Ahead
    <3> QED
      BY <3>1, <3>2, <3>3, <3>4
  <2>4. CASE p # Place(n.expire, t)
    BY <1>2, <2>1, <2>2, <2>4
  <2> QED
    BY <2>3, <2>4
<1>4. Placed(g, t)
  BY <1>3 DEF Placed
<1>5. ASSUME NEW e \in Ticks
      PROVE  FoundAt(g, t, e) = IF n.expire = e THEN Append(FoundAt(tab, t, e), n.event) ELSE FoundAt(tab, t, e)
  <2>1. PICK p \in Places : p = Place(e, t)
    BY PlaceIs
  <2>2. PICK l \in Seq(Timed) : l = ListAt(tab, p)
    BY ListAtIn
  <2>3. CASE p = Place(n.expire, t)
    <3>1. ListAt(g, p) = Append(l, n)
      BY <1>2, <2>2, <2>3
    <3>2. EventsAt(Append(l, n), e) = IF n.expire = e THEN Append(EventsAt(l, e), n.event) ELSE EventsAt(l, e)
      BY EventsAppend
    <3> QED
      BY <2>1, <2>2, <3>1, <3>2 DEF FoundAt
  <2>4. CASE p # Place(n.expire, t)
    <3>1. n.expire # e
      BY <2>1, <2>4
    <3> QED
      BY <1>2, <2>1, <2>2, <2>4, <3>1 DEF FoundAt
  <2> QED
    BY <2>3, <2>4
<1> QED
  BY <1>1, <1>4, <1>5

\* What the wheel has for a tick is events.
LEMMA FoundIn ==
  ASSUME NEW tab \in Tables, NEW t \in Ticks, NEW e \in Ticks
  PROVE  FoundAt(tab, t, e) \in Seq(Names)
<1>1. PICK l \in Seq(Timed) : l = ListAt(tab, Place(e, t))
  BY PlaceIs, ListAtIn
<1> QED
  BY <1>1, EventsIn DEF FoundAt

\* The first nodes of a list.
LEMMA First ==
  ASSUME NEW l \in Seq(Timed), NEW k \in 1..Len(l)
  PROVE  /\ SubSeq(l, 1, k - 1) \in Seq(Timed) /\ l[k] \in Timed
         /\ SubSeq(l, 1, k) = Append(SubSeq(l, 1, k - 1), l[k])
<1>1. PICK m \in Nat : m = Len(l)
  BY LenProperties
<1>2. \A i \in 1..m : l[i] \in Timed
  BY <1>1, ElementOfSeq
<1>3. PICK a \in Seq(Timed) : a = SubSeq(l, 1, k - 1)
  <2>1. 1 \in Int /\ k - 1 \in Int /\ \A i \in 1..(k - 1) : l[i] \in Timed
    BY <1>1, <1>2
  <2> QED
    BY <2>1, SubSeqProperties
<1>4. PICK n \in Timed : n = l[k]
  BY <1>1, <1>2
<1>5. SubSeq(l, 1, k) = a \o <<n>>
  <2>1. 1 \in 1..Len(l) /\ k \in 1..Len(l)
    BY <1>1
  <2> QED
    BY <1>3, <1>4, <2>1, SubSeqRecursiveSecond
<1>6. Append(a, n) = a \o <<n>>
  BY AppendIsConcat
<1> QED
  BY <1>3, <1>4, <1>5, <1>6

\* The tables of move_list, after each node.
Moves(d, c, l, t) ==
    d = [k \in 0..Len(l) |-> IF k = 0 THEN c ELSE AddNode(d[k - 1], l[k], t)]

\* move_list is a sequence of tables.
LEMMA MovesExist ==
  ASSUME NEW c \in Tables, NEW l \in Seq(Timed), NEW t \in Ticks
  PROVE  \E d : Moves(d, c, l, t)
<1> DEFINE one(k) == [x \in Tables |-> AddNode(x, l[k], t)]
           g == [k \in 1..Len(l) |-> one(k)]
<1>1. Len(l) \in Nat /\ \A k \in 1..Len(l) : l[k] \in Timed
  BY LenProperties, ElementOfSeq
<1>2. \A k \in 1..Len(l) : \A x \in Tables : g[k][x] = AddNode(x, l[k], t) /\ g[k][x] \in Tables
  BY <1>1, AddNodeIs
<1> HIDE DEF g
<1>3. Results(Tables, c, Len(l), g) # {}
  BY <1>1, <1>2, Iterated
<1>4. PICK f \in [0..Len(l) -> Tables] : f[0] = c /\ \A k \in 1..Len(l) : f[k] = g[k][f[k - 1]]
  BY <1>3 DEF Results
<1>5. \A k \in 0..Len(l) : f[k] = IF k = 0 THEN c ELSE AddNode(f[k - 1], l[k], t)
  <2> TAKE k \in 0..Len(l)
  <2>1. CASE k = 0
    BY <1>4, <2>1
  <2>2. CASE k # 0
    <3>1. k \in 1..Len(l) /\ k - 1 \in 0..Len(l)
      BY <1>1, <2>2
    <3>2. f[k - 1] \in Tables
      BY <1>4, <3>1
    <3> QED
      BY <1>2, <1>4, <2>2, <3>1, <3>2
  <2> QED
    BY <2>1, <2>2
<1>6. f = [k \in 0..Len(l) |-> f[k]]
  BY <1>4
<1>7. f = [k \in 0..Len(l) |-> IF k = 0 THEN c ELSE AddNode(f[k - 1], l[k], t)]
  BY <1>5, <1>6
<1> QED
  BY <1>7 DEF Moves

\* move_list puts the nodes of a list where they will be found, in order.
LEMMA MovesKeep ==
  ASSUME NEW c \in Tables, NEW l \in Seq(Timed), NEW t \in Ticks, Placed(c, t),
         \A k \in 1..Len(l) : Ahead(l[k].expire, t),
         NEW d, Moves(d, c, l, t)
  PROVE  LET g == d[Len(l)]
         IN  /\ g \in Tables /\ Placed(g, t)
             /\ \A e \in Ticks : FoundAt(g, t, e) = FoundAt(c, t, e) \o EventsAt(l, e)
<1> DEFINE Q(k) == /\ d[k] \in Tables /\ Placed(d[k], t)
                   /\ \A e \in Ticks :
                         FoundAt(d[k], t, e) = FoundAt(c, t, e) \o EventsAt(SubSeq(l, 1, k), e)
           T == {k \in 0..Len(l) : ~Q(k)}
<1>0. Len(l) \in Nat /\ \A k \in 1..Len(l) : l[k] \in Timed
  BY LenProperties, ElementOfSeq
<1>1. \A k \in 0..Len(l) : d[k] = IF k = 0 THEN c ELSE AddNode(d[k - 1], l[k], t)
  BY DEF Moves
<1>2. Q(0)
  <2>1. d[0] = c
    BY <1>0, <1>1
  <2>2. ASSUME NEW e \in Ticks
        PROVE  FoundAt(c, t, e) = FoundAt(c, t, e) \o EventsAt(SubSeq(l, 1, 0), e)
    <3>1. SubSeq(l, 1, 0) = <<>>
      BY SubSeqEmpty
    <3>2. PICK x \in Seq(Names) : x = FoundAt(c, t, e)
      BY FoundIn
    <3>3. x \o <<>> = x
      BY ConcatEmptySeq
    <3>4. EventsAt(<<>>, e) = <<>>
      BY EventsEmpty
    <3> QED
      BY <3>1, <3>2, <3>3, <3>4
  <2> QED
    BY <2>1, <2>2
<1>3. ASSUME NEW k \in 1..Len(l), Q(k - 1)
      PROVE  Q(k)
  <2>0. PICK n \in Timed, a \in Seq(Timed) :
           n = l[k] /\ a = SubSeq(l, 1, k - 1) /\ SubSeq(l, 1, k) = Append(a, n) /\ Ahead(n.expire, t)
    BY First
  <2>1. PICK b \in Tables : b = d[k - 1]
    BY <1>3
  <2>2. d[k] = AddNode(b, n, t)
    BY <1>0, <1>1, <2>0, <2>1
  <2>3. /\ d[k] \in Tables /\ Placed(d[k], t)
        /\ \A e \in Ticks :
              FoundAt(d[k], t, e) = IF n.expire = e THEN Append(FoundAt(b, t, e), n.event) ELSE FoundAt(b, t, e)
    <3>1. Placed(b, t)
      BY <1>3, <2>1
    <3>2. Ahead(n.expire, t)
      BY <2>0
    <3>3. /\ AddNode(b, n, t) \in Tables /\ Placed(AddNode(b, n, t), t)
          /\ \A e \in Ticks :
                FoundAt(AddNode(b, n, t), t, e)
                  = IF n.expire = e THEN Append(FoundAt(b, t, e), n.event) ELSE FoundAt(b, t, e)
      <4> HIDE DEF T
      <4> QED
        BY <3>1, <3>2, AddNodeKeeps
    <3> QED
      BY <2>2, <3>3
  <2>4. ASSUME NEW e \in Ticks
        PROVE  FoundAt(d[k], t, e) = FoundAt(c, t, e) \o EventsAt(SubSeq(l, 1, k), e)
    <3>1. PICK x \in Seq(Names), y \in Seq(Names), v \in Names :
             x = FoundAt(c, t, e) /\ y = EventsAt(a, e) /\ v = n.event
      <4>1. n.event \in Names
        BY DEF Timed, Names
      <4> QED
        BY <4>1, FoundIn, EventsIn
    <3>2. FoundAt(b, t, e) = x \o y
      BY <1>3, <2>0, <2>1, <3>1
    <3>3. EventsAt(Append(a, n), e) = IF n.expire = e THEN Append(y, v) ELSE y
      BY <3>1, EventsAppend
    <3>4. Append(x \o y, v) = x \o Append(y, v)
      BY Grouped
    <3> QED
      BY <2>0, <2>3, <3>1, <3>2, <3>3, <3>4
  <2> QED
    BY <2>3, <2>4
<1> HIDE DEF Q
<1>4. Q(Len(l))
  <2> SUFFICES ASSUME T # {} PROVE FALSE
    BY <1>0
  <2>0. T \subseteq Nat
    BY <1>0
  <2>1. PICK k \in T : \A m \in T : k <= m
    <3> HIDE DEF T
    <3> QED
      BY <2>0, LeastNat
  <2>2. k \in 1..Len(l) /\ k - 1 \in 0..Len(l) /\ k - 1 \notin T /\ ~Q(k)
    BY <1>0, <1>2, <2>1
  <2>3. Q(k - 1)
    BY <2>2
  <2> QED
    BY <1>3, <2>2, <2>3
<1>5. SubSeq(l, 1, Len(l)) = l
  BY SubSeqFull
<1> QED
  BY <1>4, <1>5 DEF Q

\* move_list takes a list off the wheel and adds its nodes one by one.
LEMMA MoveListIs ==
  ASSUME NEW tab \in Tables, NEW i \in 0..Top, NEW j \in 0..(Level - 1), NEW t \in Ticks,
         NEW q, q = PlaceOf(i, j), NEW l, l = tab.wheel[q]
  PROVE  \E d : /\ MoveList(tab, i, j, t) = d[Len(l)]
                /\ Moves(d, [tab EXCEPT !.wheel[q] = <<>>], l, t)
<1> DEFINE c == [tab EXCEPT !.wheel[q] = <<>>]
           d == CHOOSE f : Moves(f, c, l, t)
<1>0. q \in 1..(Levels * Level)
  BY PlaceOfIs
<1>1. l \in Seq(Timed)
  <2>1. <<"wheel", q>> \in Places /\ ListAt(tab, <<"wheel", q>>) = l
    BY <1>0 DEF Places, ListAt
  <2> QED
    BY <2>1, ListAtIn
<1>2. c \in Tables
  <2>1. <<>> \in Seq(Timed)
    OBVIOUS
  <2> QED
    BY <1>0, <2>1, WheelChanged
<1>3. MoveList(tab, i, j, t) = d[Len(l)]
  BY Zenon DEF MoveList, Moves
<1> HIDE DEF c
<1>4. \E f : Moves(f, c, l, t)
  BY <1>1, <1>2, MovesExist
<1>5. Moves(d, c, l, t)
  BY <1>4
<1> HIDE DEF d
<1> QED
  BY <1>3, <1>5 DEF c

\* The times of a table's nodes.
Times(tab) == {e \in Ticks : \E p \in Places : \E k \in 1..Len(ListAt(tab, p)) : ListAt(tab, p)[k].expire = e}

\* Nodes are where they will be found: a tick with no node there has none.
LEMMA FoundNone ==
  ASSUME NEW tab \in Tables, NEW t \in Ticks, NEW e \in Ticks, Placed(tab, t)
  PROVE  FoundAt(tab, t, e) = <<>> <=> e \notin Times(tab)
<1>1. PICK p \in Places : p = Place(e, t)
  BY PlaceIs
<1>2. PICK l \in Seq(Timed) : l = ListAt(tab, p)
  BY ListAtIn
<1>3. FoundAt(tab, t, e) = <<>> <=> \A k \in 1..Len(l) : l[k].expire # e
  BY <1>1, <1>2, EventsNone DEF FoundAt
<1>4. (\E k \in 1..Len(l) : l[k].expire = e) <=> e \in Times(tab)
  BY <1>1, <1>2 DEF Placed, Times
<1> QED
  BY <1>3, <1>4

\* The list that begins at time n is moved: the rest is where it will be found.
LEMMA MovedKeeps ==
  ASSUME NEW tab \in Tables, NEW t \in Ticks, NEW n \in Ticks, Placed(tab, t),
         NEW i \in 0..Top, NEW j \in 0..(Level - 1),
         \A e \in Times(tab) :
            Ahead(e, n) /\ (Place(e, n) = Place(e, t) \/ Place(e, t) = <<"wheel", PlaceOf(i, j)>>)
  PROVE  /\ MoveList(tab, i, j, n) \in Tables
         /\ Placed(MoveList(tab, i, j, n), n)
         /\ \A e \in Ticks : FoundAt(MoveList(tab, i, j, n), n, e) = FoundAt(tab, t, e)
<1>1. PICK q \in 1..(Levels * Level) : q = PlaceOf(i, j)
  BY PlaceOfIs
<1>2. PICK w \in Places : w = <<"wheel", q>>
  BY DEF Places
<1>3. PICK l \in Seq(Timed) : l = ListAt(tab, w)
  BY ListAtIn
<1>4. l = tab.wheel[q]
  BY <1>2, <1>3 DEF ListAt
<1>5. PICK c : c = [tab EXCEPT !.wheel[q] = <<>>]
  OBVIOUS
<1>6. c \in Tables /\ \A p \in Places : ListAt(c, p) = IF p = w THEN <<>> ELSE ListAt(tab, p)
  <2>0. <<>> \in Seq(Timed)
    OBVIOUS
  <2>1. PICK x \in Seq(Timed) : x = <<>>
    BY <2>0
  <2>2. c = [tab EXCEPT !.wheel[q] = x]
    BY <1>5, <2>1
  <2>3. LET g == [tab EXCEPT !.wheel[q] = x]
        IN  /\ g \in Tables
            /\ \A p \in Places : ListAt(g, p) = IF p = <<"wheel", q>> THEN x ELSE ListAt(tab, p)
    BY WheelChanged
  <2> QED
    BY <1>2, <2>1, <2>2, <2>3
<1>7. PICK d : MoveList(tab, i, j, n) = d[Len(l)] /\ Moves(d, c, l, n)
  <2>1. \E d : MoveList(tab, i, j, n) = d[Len(l)] /\ Moves(d, [tab EXCEPT !.wheel[q] = <<>>], l, n)
    BY <1>1, <1>4, MoveListIs
  <2> QED
    BY <1>5, <2>1
<1>8. ASSUME NEW p \in Places, NEW k \in 1..Len(ListAt(tab, p))
      PROVE  /\ ListAt(tab, p)[k].expire \in Times(tab)
             /\ p = Place(ListAt(tab, p)[k].expire, t)
             /\ Ahead(ListAt(tab, p)[k].expire, n)
  <2>1. PICK m \in Seq(Timed) : m = ListAt(tab, p)
    BY ListAtIn
  <2>2. m[k] \in Timed
    BY <2>1, ElementOfSeq
  <2>3. m[k].expire \in Ticks
    BY <2>2 DEF Timed, Ticks
  <2>4. m[k].expire \in Times(tab)
    BY <2>1, <2>3 DEF Times
  <2> QED
    BY <2>1, <2>4 DEF Placed
<1>9. \A k \in 1..Len(l) : Ahead(l[k].expire, n)
  BY <1>3, <1>8
<1>10. Placed(c, n)
  <2> SUFFICES ASSUME NEW p \in Places, NEW k \in 1..Len(ListAt(c, p))
               PROVE  p = Place(ListAt(c, p)[k].expire, n) /\ Ahead(ListAt(c, p)[k].expire, n)
    BY DEF Placed, Ahead
  <2>1. p # w
    <3>1. Len(<<>>) = 0 /\ 1..0 = {}
      OBVIOUS
    <3> QED
      BY <1>6, <3>1
  <2>2. ListAt(c, p) = ListAt(tab, p)
    BY <1>6, <2>1
  <2> QED
    BY <1>1, <1>2, <1>8, <2>1, <2>2
<1>11. PICK g \in Tables : /\ g = MoveList(tab, i, j, n) /\ Placed(g, n)
                           /\ \A e \in Ticks : FoundAt(g, n, e) = FoundAt(c, n, e) \o EventsAt(l, e)
  BY <1>6, <1>7, <1>9, <1>10, MovesKeep
<1>12. ASSUME NEW e \in Ticks
       PROVE  FoundAt(g, n, e) = FoundAt(tab, t, e)
  <2>1. PICK x \in Seq(Names), y \in Seq(Names) : x = FoundAt(c, n, e) /\ y = EventsAt(l, e)
    BY <1>6, FoundIn, EventsIn
  <2>2. FoundAt(g, n, e) = x \o y
    BY <1>11, <2>1
  <2>3. x \o <<>> = x /\ <<>> \o y = y
    BY ConcatEmptySeq
  <2>4. Place(e, n) \in Places /\ Place(e, t) \in Places
    BY PlaceIs
  <2>5. CASE Place(e, t) = w
    <3>1. y = FoundAt(tab, t, e)
      BY <1>3, <2>1, <2>5 DEF FoundAt
    <3>2. x = <<>>
      <4>1. e \notin Times(c)
        BY <1>6, <1>8, <2>5, EmptySeq DEF Times
      <4> QED
        BY <1>6, <1>10, <2>1, <4>1, FoundNone
    <3> QED
      BY <2>2, <2>3, <3>1, <3>2
  <2>6. CASE Place(e, t) # w
    <3>1. y = <<>>
      <4>1. \A k \in 1..Len(l) : l[k].expire # e
        BY <1>3, <1>8, <2>6
      <4> QED
        BY <2>1, <4>1, EventsNone
    <3>2. x = FoundAt(tab, t, e)
      <4>1. CASE e \in Times(tab)
        <5>1. Place(e, n) = Place(e, t)
          BY <1>1, <1>2, <2>6, <4>1
        <5> QED
          BY <1>6, <2>1, <2>4, <2>6, <5>1 DEF FoundAt
      <4>2. CASE e \notin Times(tab)
        <5>1. e \notin Times(c)
          BY <1>6, <4>2, EmptySeq DEF Times
        <5> QED
          BY <1>6, <1>10, <2>1, <4>2, <5>1, FoundNone
      <4> QED
        BY <4>1, <4>2
    <3> QED
      BY <2>2, <2>3, <3>1, <3>2
  <2> QED
    BY <2>5, <2>6
<1> QED
  BY <1>11, <1>12

\* No list begins: all is where it will be found.
LEMMA StayKeeps ==
  ASSUME NEW tab \in Tables, NEW t \in Ticks, NEW n \in Ticks, Placed(tab, t),
         \A e \in Times(tab) : Ahead(e, n) /\ Place(e, n) = Place(e, t)
  PROVE  Placed(tab, n) /\ \A e \in Ticks : FoundAt(tab, n, e) = FoundAt(tab, t, e)
<1>1. Placed(tab, n)
  <2> SUFFICES ASSUME NEW p \in Places, NEW k \in 1..Len(ListAt(tab, p))
               PROVE  p = Place(ListAt(tab, p)[k].expire, n) /\ Ahead(ListAt(tab, p)[k].expire, n)
    BY DEF Placed, Ahead
  <2>1. PICK m \in Seq(Timed) : m = ListAt(tab, p)
    BY ListAtIn
  <2>2. m[k] \in Timed
    BY <2>1, ElementOfSeq
  <2>3. m[k].expire \in Ticks
    BY <2>2 DEF Timed, Ticks
  <2>4. m[k].expire \in Times(tab)
    BY <2>1, <2>3 DEF Times
  <2>5. p = Place(m[k].expire, t)
    BY <2>1 DEF Placed
  <2> QED
    BY <2>1, <2>4, <2>5
<1>2. ASSUME NEW e \in Ticks
      PROVE  FoundAt(tab, n, e) = FoundAt(tab, t, e)
  <2>1. CASE e \in Times(tab)
    BY <2>1 DEF FoundAt
  <2>2. CASE e \notin Times(tab)
    BY <1>1, <2>2, FoundNone
  <2> QED
    BY <2>1, <2>2
<1> QED
  BY <1>1, <1>2

\* timer_shift: when the tick t has no nodes left, all others are where the
\* next tick will find them.
LEMMA ShiftedKeeps ==
  ASSUME NEW tab \in Tables, NEW t \in Ticks, Placed(tab, t), t \notin Times(tab),
         NEW n, n = (t + 1) % Width
  PROVE  /\ Shifted(tab, n) \in Tables
         /\ Placed(Shifted(tab, n), n)
         /\ \A e \in Ticks : FoundAt(Shifted(tab, n), n, e) = FoundAt(tab, t, e)
<1> DEFINE level == {i \in 0..Top : n % Span[i] = 0 /\ IndexOf(n, i) # 0}
<1>1. n \in Ticks /\ n = IF t = Width - 1 THEN 0 ELSE t + 1
  BY NextIs
<1>2. ASSUME NEW e \in Times(tab)
      PROVE  e \in Ticks /\ e # t /\ Ahead(e, t) /\ Ahead(e, n)
  <2>1. e \in Ticks /\ e # t
    BY DEF Times
  <2>2. Ahead(e, t)
    BY DEF Times, Placed, Ahead
  <2> QED
    BY <2>1, <2>2, AheadStill
<1>3. CASE t = Width - 1
  <2>1. n = 0 /\ Shifted(tab, n) = MoveList(tab, Top, 0, n)
    BY <1>1, <1>3 DEF Shifted
  <2>2. Top \in 0..Top /\ 0 \in 0..(Level - 1)
    BY Widths, Sizes
  <2>3. \A e \in Times(tab) :
           Ahead(e, n) /\ (Place(e, n) = Place(e, t) \/ Place(e, t) = <<"wheel", PlaceOf(Top, 0)>>)
    BY <1>2, <1>3, <2>1, TickTurn
  <2> QED
    BY <1>1, <2>1, <2>2, <2>3, MovedKeeps
<1>4. CASE t # Width - 1
  <2>1. n = t + 1 /\ n # 0 /\ n \in Nat
    BY <1>1, <1>4 DEF Ticks
  <2>2. \A e \in Times(tab) :
           /\ Ahead(e, n)
           /\ Place(e, n) = Place(e, t)
                \/ \E i \in level : Place(e, t) = <<"wheel", PlaceOf(i, IndexOf(n, i))>>
    BY <1>2, <1>4, <2>1, TickOn
  <2>3. CASE level = {}
    <3>1. Shifted(tab, n) = tab
      BY <2>1, <2>3 DEF Shifted
    <3>2. \A e \in Times(tab) : Ahead(e, n) /\ Place(e, n) = Place(e, t)
      BY <2>2, <2>3
    <3> QED
      BY <1>1, <3>1, <3>2, StayKeeps
  <2>4. CASE level # {}
    <3>1. PICK i \in level : TRUE
      BY <2>4
    <3>2. level = {i}
      BY <2>1, <3>1, OneBegins
    <3>3. Shifted(tab, n) = MoveList(tab, i, IndexOf(n, i), n)
      <4>1. (CHOOSE x \in level : TRUE) = i
        BY <3>2
      <4> QED
        BY <2>1, <2>4, <4>1 DEF Shifted
    <3>4. i \in 0..Top /\ IndexOf(n, i) \in 0..(Level - 1)
      BY <1>1, <3>1, IndexIs
    <3>5. \A e \in Times(tab) :
             Ahead(e, n) /\ (Place(e, n) = Place(e, t) \/ Place(e, t) = <<"wheel", PlaceOf(i, IndexOf(n, i))>>)
      BY <2>2, <3>2
    <3> QED
      BY <1>1, <3>3, <3>4, <3>5, MovedKeeps
  <2> QED
    BY <2>3, <2>4
<1> QED
  BY <1>3, <1>4

-----------------------------------------------------------------------------
(* The wheel                                                                 *)

\* The wheel's part of TimerInv.
WheelOK ==
    /\ time \in Ticks
    /\ behind \in 0..MaxLag
    /\ phase \in {"first", "second"}
    /\ run \in Seq(Timed)
    /\ Table \in Tables
    /\ Placed(Table, time)
    /\ \A k \in 1..Len(run) : run[k].expire = time

\* The table that an action leaves is the one it sets.
LEMMA TableSet ==
  ASSUME NEW tab \in Tables, SetTable(tab)
  PROVE  Table' = tab
<1>1. PICK a \in [1..Near -> Seq(Timed)], b \in [1..(Levels * Level) -> Seq(Timed)] :
         tab = [near |-> a, wheel |-> b]
  BY TableIs
<1> QED
  BY <1>1 DEF SetTable, Table

\* An action that leaves the lists alone leaves the table.
LEMMA TableSame ==
  ASSUME UNCHANGED <<near, wheel>>
  PROVE  Table' = Table
BY DEF Table

\* A new wheel has no nodes.
LEMMA WheelInit == TimerInit => WheelOK
<1> SUFFICES ASSUME TimerInit PROVE WheelOK
  OBVIOUS
<1>1. <<>> \in Seq(Timed) /\ Len(<<>>) = 0
  OBVIOUS
<1>2. near \in [1..Near -> Seq(Timed)] /\ wheel \in [1..(Levels * Level) -> Seq(Timed)]
  BY <1>1 DEF TimerInit
<1>3. Table \in Tables
  BY <1>2 DEF Tables, Table
<1>4. ASSUME NEW p \in Places
      PROVE  ListAt(Table, p) = <<>>
  BY DEF Places, ListAt, Table, TimerInit
<1>5. Placed(Table, time)
  BY <1>1, <1>4 DEF Placed
<1>6. time \in Ticks /\ behind \in 0..MaxLag /\ phase = "first" /\ run = <<>>
  BY Widths, MaxLagPositive DEF TimerInit, Ticks
<1> QED
  BY <1>1, <1>3, <1>5, <1>6 DEF WheelOK

\* skynet_timeout: the time asked for.
LEMMA Later ==
  ASSUME NEW t \in Ticks, NEW d \in 1..(Width \div 2 - 1)
  PROVE  (t + d) % Width \in Ticks /\ (((t + d) % Width) - t) % Width = d
<1>1. PICK w \in Nat : w = Width /\ w > 0 /\ t \in 0..(w - 1) /\ d \in 1..(w - 1)
  <2>1. PICK w \in Nat : w = Width /\ w > 0
    BY Widths
  <2>2. w \div 2 \in Nat /\ w \div 2 <= w
    BY <2>1
  <2>3. d \in 1..(w - 1)
    BY <2>1, <2>2
  <2> QED
    BY <2>1, <2>3 DEF Ticks
<1>2. CASE t + d < w
  <2>1. t + d = w * 0 + (t + d) /\ t + d \in 0..(w - 1)
    BY <1>1, <1>2
  <2>2. (w * 0 + (t + d)) % w = t + d
    BY <1>1, <2>1, DivUnique
  <2>3. (t + d) % w = t + d /\ t + d \in Ticks /\ t <= t + d
    BY <1>1, <2>1, <2>2 DEF Ticks
  <2>4. ((t + d) - t) % Width = (t + d) - t
    BY <2>3, AheadIs
  <2> QED
    BY <1>1, <2>3, <2>4
<1>3. CASE ~(t + d < w)
  <2>0. PICK e \in 0..(w - 1) : e = (t + d) - w
    BY <1>1, <1>3
  <2>1. t + d = w * 1 + e /\ 1 \in Int
    BY <1>1, <2>0
  <2>2. (w * 1 + e) % w = e
    BY <1>1, <2>1, DivUnique
  <2>3. (t + d) % w = e /\ e \in Ticks /\ ~(t <= e)
    BY <1>1, <2>0, <2>1, <2>2 DEF Ticks
  <2>4. (e - t) % Width = (e - t) + Width
    BY <2>3, AheadIs
  <2> QED
    BY <1>1, <2>0, <2>3, <2>4
<1> QED
  BY <1>2, <1>3

\* timer_add keeps the wheel, and adds an event at its tick.
LEMMA WheelAdd ==
  ASSUME WheelOK, NEW ev \in Names, NEW d \in 1..(Width \div 2 - 1), TimerAdd(ev, d)
  PROVE  /\ WheelOK'
         /\ \A e \in Ticks :
               FoundAt(Table', time, e)
                 = IF (time + d) % Width = e THEN Append(FoundAt(Table, time, e), ev) ELSE FoundAt(Table, time, e)
<1>1. PICK x \in Ticks : x = (time + d) % Width /\ Ahead(x, time)
  <2>1. time \in Ticks
    BY DEF WheelOK
  <2>2. d < Width \div 2
    BY Widths
  <2> QED
    BY <2>1, <2>2, Later DEF Ahead
<1>2. PICK n \in Timed : n = [expire |-> x, event |-> ev]
  BY DEF Timed, Ticks, Names
<1>3. PICK tab \in Tables, t \in Ticks : tab = Table /\ t = time /\ Placed(tab, t)
  BY DEF WheelOK
<1>4. n.expire = x /\ n.event = ev
  BY <1>2
<1>5. PICK g \in Tables :
         /\ g = AddNode(tab, n, t) /\ Placed(g, t)
         /\ \A e \in Ticks : FoundAt(g, t, e) = IF n.expire = e THEN Append(FoundAt(tab, t, e), n.event) ELSE FoundAt(tab, t, e)
  <2>1. Ahead(n.expire, t)
    BY <1>1, <1>3, <1>4
  <2> QED
    BY <1>3, <2>1, AddNodeKeeps
<1>6. SetTable(g) /\ UNCHANGED <<time, run, phase, behind>>
  BY <1>1, <1>2, <1>3, <1>5 DEF TimerAdd
<1>7. Table' = g
  BY <1>6, TableSet
<1>8. WheelOK'
  BY <1>3, <1>5, <1>6, <1>7 DEF WheelOK
<1> QED
  BY <1>1, <1>3, <1>4, <1>5, <1>7, <1>8

\* The list of tick t is taken off: its nodes are all for this tick.
LEMMA TakeKeeps ==
  ASSUME NEW tab \in Tables, NEW t \in Ticks, Placed(tab, t)
  PROVE  LET l == tab.near[NearOf(t)]
             c == [tab EXCEPT !.near[NearOf(t)] = <<>>]
         IN  /\ l \in Seq(Timed) /\ \A k \in 1..Len(l) : l[k].expire = t
             /\ c \in Tables /\ Placed(c, t)
             /\ \A e \in Ticks : EventsAt(l, e) \o FoundAt(c, t, e) = FoundAt(tab, t, e)
             /\ l = <<>> => t \notin Times(tab)
<1>1. PICK i \in 1..Near : i = NearOf(t)
  <2>1. t % Near \in 0..(Near - 1)
    BY Sizes, Divided DEF Ticks
  <2> QED
    BY <2>1, Sizes DEF NearOf
<1>2. PICK w \in Places : w = <<"near", i>>
  BY DEF Places
<1>3. PICK l \in Seq(Timed) : l = ListAt(tab, w)
  BY ListAtIn
<1>4. l = tab.near[i]
  BY <1>2, <1>3 DEF ListAt
<1>5. PICK c : c = [tab EXCEPT !.near[i] = <<>>]
  OBVIOUS
<1>6. c \in Tables /\ \A p \in Places : ListAt(c, p) = IF p = w THEN <<>> ELSE ListAt(tab, p)
  <2>0. <<>> \in Seq(Timed)
    OBVIOUS
  <2>1. PICK x \in Seq(Timed) : x = <<>>
    BY <2>0
  <2>2. c = [tab EXCEPT !.near[i] = x]
    BY <1>5, <2>1
  <2>3. LET g == [tab EXCEPT !.near[i] = x]
        IN  /\ g \in Tables
            /\ \A p \in Places : ListAt(g, p) = IF p = <<"near", i>> THEN x ELSE ListAt(tab, p)
    BY NearChanged
  <2> QED
    BY <1>2, <2>1, <2>2, <2>3
<1>7. \A e \in Ticks : Place(e, t) = w <=> e = t
  BY <1>1, <1>2, NearHere
<1>8. \A k \in 1..Len(l) : l[k].expire = t
  <2> TAKE k \in 1..Len(l)
  <2>1. l[k] \in Timed
    BY ElementOfSeq
  <2>2. l[k].expire \in Ticks
    BY <2>1 DEF Timed, Ticks
  <2>3. w = Place(l[k].expire, t)
    BY <1>3 DEF Placed
  <2> QED
    BY <1>7, <2>2, <2>3
<1>9. Len(<<>>) = 0 /\ 1..0 = {}
  OBVIOUS
<1>10. Placed(c, t)
  <2> SUFFICES ASSUME NEW p \in Places, NEW k \in 1..Len(ListAt(c, p))
               PROVE  p = Place(ListAt(c, p)[k].expire, t) /\ (ListAt(c, p)[k].expire - t) % Width < Width \div 2
    BY DEF Placed
  <2>1. ListAt(c, p) = ListAt(tab, p)
    BY <1>6, <1>9
  <2> QED
    BY <2>1 DEF Placed
<1>11. ASSUME NEW e \in Ticks
       PROVE  EventsAt(l, e) \o FoundAt(c, t, e) = FoundAt(tab, t, e)
  <2>1. PICK x \in Seq(Names), y \in Seq(Names) : x = EventsAt(l, e) /\ y = FoundAt(c, t, e)
    BY <1>6, FoundIn, EventsIn
  <2>2. x \o <<>> = x /\ <<>> \o y = y
    BY ConcatEmptySeq
  <2>3. Place(e, t) \in Places
    BY PlaceIs
  <2>4. CASE e = t
    <3>1. x = FoundAt(tab, t, e)
      BY <1>3, <1>7, <2>1, <2>4 DEF FoundAt
    <3>2. y = <<>>
      BY <1>6, <1>7, <2>1, <2>3, <2>4, EventsEmpty DEF FoundAt
    <3> QED
      BY <2>1, <2>2, <3>1, <3>2
  <2>5. CASE e # t
    <3>1. y = FoundAt(tab, t, e)
      BY <1>6, <1>7, <2>1, <2>3, <2>5 DEF FoundAt
    <3>2. x = <<>>
      BY <1>8, <2>1, <2>5, EventsNone
    <3> QED
      BY <2>1, <2>2, <3>1, <3>2
  <2> QED
    BY <2>4, <2>5
<1>12. l = <<>> => t \notin Times(tab)
  <2> SUFFICES ASSUME l = <<>> PROVE t \notin Times(tab)
    OBVIOUS
  <2>1. FoundAt(tab, t, t) = <<>>
    BY <1>3, <1>7, EventsEmpty DEF FoundAt
  <2> QED
    BY <2>1, FoundNone
<1> QED
  BY <1>1, <1>4, <1>5, <1>6, <1>8, <1>10, <1>11, <1>12

\* The clock.
LEMMA WheelClock ==
  ASSUME WheelOK, NEW d \in 1..MaxLag, UpdateTime(d)
  PROVE  WheelOK'
<1>1. Table' = Table /\ UNCHANGED <<time, run, phase>>
  BY TableSame DEF UpdateTime
<1>2. behind' \in 0..MaxLag
  BY MaxLagPositive DEF UpdateTime
<1> QED
  BY <1>1, <1>2 DEF WheelOK

\* dispatch_list takes the head off the list in hand.
LEMMA WheelHead ==
  ASSUME WheelOK, DispatchHead
  PROVE  WheelOK'
<1>1. Table' = Table /\ UNCHANGED <<time, behind, phase>>
  BY TableSame DEF DispatchHead
<1>2. PICK l \in Seq(Timed), t \in Ticks : /\ l = run /\ t = time /\ l # <<>>
                                           /\ \A k \in 1..Len(l) : l[k].expire = t
  BY DEF WheelOK, DispatchHead
<1>3. PICK m \in Seq(Timed) : m = Tail(l) /\ \A k \in 1..Len(m) : m[k].expire = t
  <2>1. Tail(l) \in Seq(Timed) /\ Len(Tail(l)) = Len(l) - 1 /\ \A k \in 1..Len(Tail(l)) : Tail(l)[k] = l[k + 1]
    BY <1>2, HeadTailProperties
  <2>2. Len(l) \in Nat
    BY LenProperties
  <2>3. \A k \in 1..Len(Tail(l)) : k + 1 \in 1..Len(l)
    BY <2>1, <2>2
  <2> QED
    BY <1>2, <2>1, <2>3
<1>4. run' = m
  BY <1>2, <1>3 DEF DispatchHead
<1> QED
  BY <1>1, <1>2, <1>3, <1>4 DEF WheelOK

\* timer_update keeps the wheel and finds all events at their ticks; a tick is
\* over only when it has no more.
LEMMA WheelUpdate ==
  ASSUME WheelOK, TimerUpdate
  PROVE  /\ WheelOK'
         /\ \A e \in Ticks : Coming(e)' = Coming(e)
         /\ \/ time' = time
            \/ time' = (time + 1) % Width /\ Coming(time) = <<>>
<1>1. PICK tab \in Tables, t \in Ticks : tab = Table /\ t = time /\ Placed(tab, t)
  BY DEF WheelOK
<1>2. run = <<>>
  BY DEF TimerUpdate
<1>3. ASSUME NEW e \in Ticks
      PROVE  Coming(e) = FoundAt(tab, t, e)
  <2>1. PICK y \in Seq(Names) : y = FoundAt(tab, t, e)
    BY FoundIn
  <2>2. <<>> \o y = y /\ EventsAt(<<>>, e) = <<>>
    BY ConcatEmptySeq, EventsEmpty
  <2> QED
    BY <1>1, <1>2, <2>1, <2>2 DEF Coming, FoundAt
<1>4. near[NearOf(time)] = tab.near[NearOf(t)]
  BY <1>1 DEF Table
<1>5. ASSUME NEW g \in Tables, NEW u \in Ticks, Placed(g, u), TakeList(g, u), time' = u,
             \A e \in Ticks : FoundAt(g, u, e) = FoundAt(tab, t, e),
             behind' \in 0..MaxLag, phase' \in {"first", "second"}
      PROVE  WheelOK' /\ \A e \in Ticks : Coming(e)' = Coming(e)
  <2>1. PICK l, c : l = g.near[NearOf(u)] /\ c = [g EXCEPT !.near[NearOf(u)] = <<>>]
    OBVIOUS
  <2>2. /\ l \in Seq(Timed) /\ \A k \in 1..Len(l) : l[k].expire = u
        /\ c \in Tables /\ Placed(c, u)
        /\ \A e \in Ticks : EventsAt(l, e) \o FoundAt(c, u, e) = FoundAt(g, u, e)
    BY <1>5, <2>1, TakeKeeps
  <2>3. run' = l /\ Table' = c
    <3>1. run' = l /\ SetTable(c)
      BY <1>5, <2>1 DEF TakeList
    <3> QED
      BY <2>2, <3>1, TableSet
  <2>4. WheelOK'
    BY <1>5, <2>2, <2>3 DEF WheelOK
  <2>5. ASSUME NEW e \in Ticks
        PROVE  Coming(e)' = Coming(e)
    <3>1. Coming(e)' = EventsAt(l, e) \o FoundAt(c, u, e)
      BY <1>5, <2>3 DEF Coming, FoundAt
    <3> QED
      BY <1>3, <1>5, <2>2, <3>1
  <2> QED
    BY <2>4, <2>5
<1>6. CASE near[NearOf(time)] # <<>>
  <2>1. TakeList(tab, t) /\ UNCHANGED <<time, phase, behind>>
    BY <1>1, <1>6 DEF TimerUpdate
  <2>2. time' = t /\ behind' \in 0..MaxLag /\ phase' \in {"first", "second"}
    BY <1>1, <2>1 DEF WheelOK
  <2> QED
    BY <1>1, <1>5, <2>1, <2>2
<1>7. CASE near[NearOf(time)] = <<>> /\ phase = "first"
  <2>1. /\ time' = (time + 1) % Width /\ TakeList(Shifted(Table, time'), time')
        /\ behind' = behind - 1 /\ behind > 0
        /\ phase' = IF run' = <<>> THEN "first" ELSE "second"
    BY <1>7 DEF TimerUpdate
  <2>2. t \notin Times(tab)
    BY <1>1, <1>4, <1>7, TakeKeeps
  <2>3. PICK n \in Ticks : n = (t + 1) % Width
    BY NextIs
  <2>4. PICK g \in Tables : /\ g = Shifted(tab, n) /\ Placed(g, n)
                            /\ \A e \in Ticks : FoundAt(g, n, e) = FoundAt(tab, t, e)
    BY <1>1, <2>2, <2>3, ShiftedKeeps
  <2>5. time' = n /\ TakeList(g, n)
    BY <1>1, <2>1, <2>3, <2>4
  <2>6. behind' \in 0..MaxLag /\ phase' \in {"first", "second"}
    BY <2>1, MaxLagPositive DEF WheelOK
  <2>7. Coming(time) = <<>>
    BY <1>1, <1>3, <2>2, FoundNone
  <2> QED
    BY <1>5, <2>1, <2>4, <2>5, <2>6, <2>7
<1>8. CASE near[NearOf(time)] = <<>> /\ phase # "first"
  <2>1. phase' = "first" /\ UNCHANGED <<time, near, wheel, run, behind>>
    BY <1>8 DEF TimerUpdate
  <2>2. Table' = Table
    BY <2>1, TableSame
  <2>3. WheelOK'
    BY <2>1, <2>2 DEF WheelOK
  <2>4. \A e \in Ticks : Coming(e)' = Coming(e)
    BY <2>1, <2>2 DEF Coming
  <2> QED
    BY <2>1, <2>3, <2>4
<1> QED
  BY <1>6, <1>7, <1>8

-----------------------------------------------------------------------------
(* The service                                                               *)

\* Where the service's coroutine may be.
Steps == {"idle", "ask", "loop", "fun"}

\* The service's part of TimerInv.
LuaOK ==
    /\ Right(heap)
    /\ \A i \in 1..Size(heap) : Value(heap, i) < Width \div 2
    /\ timeouts \in Seq(Int)
    /\ box \in Nat
    /\ pc \in Steps /\ ret \in {"idle", "fun"}
    /\ intvl \in 0..(Width \div 2 - 1)
    /\ now \in Late
    /\ waits \in [Late -> Nat]
    /\ pc = "ask" => Size(heap) > 0

\* The invariant is one part about the wheel and one about the service.
LEMMA InvIs == TimerInv <=> WheelOK /\ LuaOK
<1>1. Right(heap) => heap \in Heap
  BY DEF Right, Indexed
<1>2. TypeOK <=> /\ time \in Ticks /\ behind \in 0..MaxLag /\ phase \in {"first", "second"}
                 /\ run \in Seq(Timed) /\ Table \in Tables
                 /\ heap \in Heap /\ timeouts \in Seq(Int) /\ box \in Nat
                 /\ pc \in Steps /\ ret \in {"idle", "fun"}
                 /\ intvl \in 0..(Width \div 2 - 1) /\ now \in Late
                 /\ waits \in [Late -> Nat]
  BY DEF TypeOK, Ticks, Steps
<1> QED
  BY <1>1, <1>2 DEF TimerInv, WheelOK, LuaOK

\* A heap of functions that are due soon enough.
Soon(h) == Right(h) /\ \A i \in 1..Size(h) : Value(h, i) < Width \div 2

\* Half of the counter is a number of ticks.
LEMMA HalfIs == Width \div 2 \in Nat /\ Width \div 2 > 0
<1>1. PICK s \in Nat : s = Span[Top] /\ s > 0
  BY SpanIs, Widths
<1>2. PICK w \in Nat : w = Width /\ 2 * s <= w
  BY <1>1, Widths
<1>3. w >= 2
  BY <1>1, <1>2
<1> QED
  BY <1>2, <1>3

\* A loop that starts now is not late.
LEMMA ZeroLate == 0 \in Late
BY MaxLateNat DEF Late

\* A push of a function that is due soon enough keeps such a heap.
LEMMA PushSoon ==
  ASSUME NEW h, Soon(h), NEW k \in Key, NEW v \in Int, v < Width \div 2
  PROVE  Soon(HeapPush(h, k, v)) /\ Size(HeapPush(h, k, v)) > 0
<1>1. PICK g : g = HeapPush(h, k, v)
  OBVIOUS
<1>2. Right(g) /\ SameBut(h, g, k) /\ g.index[k] # 0 /\ Value(g, g.index[k]) = v
  BY <1>1, PushKeepsHeap DEF Soon
<1>3. ASSUME NEW i \in 1..Size(g)
      PROVE  Value(g, i) < Width \div 2
  <2>1. PICK j \in Key : j = g.nodes[i].key /\ g.index[j] = i
    BY <1>2, HeapIs DEF Right, Indexed
  <2>2. Size(g) \in Nat /\ i # 0
    BY <1>2, HeapIs DEF Right, Indexed
  <2>3. CASE j = k
    BY <1>2, <2>1, <2>3
  <2>4. CASE j # k
    <3>1. h.index[j] # 0 /\ Value(h, h.index[j]) = Value(g, i)
      BY <1>2, <2>1, <2>2, <2>4 DEF SameBut
    <3>2. h.index[j] \in 1..Size(h)
      BY <3>1 DEF Soon, Right, Indexed
    <3> QED
      BY <3>1, <3>2 DEF Soon
  <2> QED
    BY <2>3, <2>4
<1>4. Size(g) > 0
  <2>1. Size(g) \in Nat /\ g.index[k] \in 1..Size(g)
    BY <1>2, HeapIs DEF Right, Indexed
  <2> QED
    BY <2>1
<1> QED
  BY <1>1, <1>2, <1>3, <1>4 DEF Soon

\* So does a removal.
LEMMA RemoveSoon ==
  ASSUME NEW h, Soon(h), NEW k \in Key
  PROVE  Soon(HeapRemove(h, k))
<1>1. PICK g : g = HeapRemove(h, k)
  OBVIOUS
<1>2. Right(g) /\ SameBut(h, g, k) /\ g.index[k] = 0
  BY <1>1, RemoveKeepsHeap DEF Soon
<1>3. ASSUME NEW i \in 1..Size(g)
      PROVE  Value(g, i) < Width \div 2
  <2>1. PICK j \in Key : j = g.nodes[i].key /\ g.index[j] = i
    BY <1>2, HeapIs DEF Right, Indexed
  <2>2. Size(g) \in Nat /\ i # 0
    BY <1>2, HeapIs DEF Right, Indexed
  <2>3. j # k
    BY <1>2, <2>1, <2>2
  <2>4. h.index[j] # 0 /\ Value(h, h.index[j]) = Value(g, i)
    BY <1>2, <2>1, <2>2, <2>3 DEF SameBut
  <2>5. h.index[j] \in 1..Size(h)
    BY <2>4 DEF Soon, Right, Indexed
  <2> QED
    BY <2>4, <2>5 DEF Soon
<1> QED
  BY <1>1, <1>2, <1>3 DEF Soon

\* The clock moves the heap as a whole.
LEMMA ShiftSoon ==
  ASSUME NEW h, Soon(h), NEW d \in Nat
  PROVE  Soon(Shift(h, d)) /\ Size(Shift(h, d)) = Size(h)
<1>1. /\ h \in Heap /\ Size(h) \in Nat /\ h.nodes \in Seq(Node) /\ h.index \in [Key -> Nat]
      /\ \A m \in 1..Size(h) : h.nodes[m] \in Node /\ h.nodes[m].key \in Key /\ Value(h, m) \in Int
  BY HeapIs DEF Soon, Right, Indexed
<1>2. PICK L \in Nat : L = Size(h)
  BY <1>1
<1>3. h = [nodes |-> h.nodes, index |-> h.index]
  BY <1>1 DEF Heap
<1>4. PICK a : a = [i \in 1..L |-> [h.nodes[i] EXCEPT !.value = @ - d]]
  OBVIOUS
<1>5. ASSUME NEW i \in 1..L
      PROVE  a[i] \in Node /\ a[i].key = h.nodes[i].key /\ a[i].value = h.nodes[i].value - d
  <2>1. PICK n \in Node : n = h.nodes[i]
    BY <1>1, <1>2
  <2>2. n = [key |-> n.key, value |-> n.value] /\ n.value \in Int /\ n.key \in Key
    BY DEF Node
  <2>3. a[i] = [n EXCEPT !.value = n.value - d]
    BY <1>4, <2>1
  <2>4. a[i] = [key |-> n.key, value |-> n.value - d]
    BY <2>2, <2>3
  <2> QED
    BY <2>1, <2>2, <2>4 DEF Node
<1>6. a \in Seq(Node) /\ Len(a) = L
  <2>1. a \in [1..L -> Node]
    BY <1>4, <1>5
  <2> QED
    BY <2>1
<1>7. PICK g : g = Shift(h, d) /\ g = [nodes |-> a, index |-> h.index]
  <2>1. Shift(h, d) = [h EXCEPT !.nodes = a]
    BY <1>2, <1>4 DEF Shift
  <2>2. [h EXCEPT !.nodes = a] = [nodes |-> a, index |-> h.index]
    BY <1>3
  <2> QED
    BY <2>1, <2>2
<1>8. g \in Heap /\ Size(g) = L /\ g.index = h.index /\ g.nodes = a
  BY <1>1, <1>6, <1>7 DEF Heap, Size
<1>9. \A i \in 1..L : Value(g, i) = Value(h, i) - d
  BY <1>5, <1>8 DEF Value
<1>10. Indexed(g)
  <2>1. \A i \in 1..L : g.index[g.nodes[i].key] = i
    BY <1>2, <1>5, <1>8 DEF Soon, Right, Indexed
  <2>2. \A k \in Key : g.index[k] # 0 => g.index[k] \in 1..L /\ g.nodes[g.index[k]].key = k
    BY <1>2, <1>5, <1>8 DEF Soon, Right, Indexed
  <2> QED
    BY <1>8, <2>1, <2>2 DEF Indexed
<1>11. Ordered(g)
  <2> SUFFICES ASSUME NEW j \in 2..L
               PROVE  Edge(g, j)
    BY <1>8 DEF Ordered
  <2>1. j \div 2 \in 1..L /\ j \in 1..L
    OBVIOUS
  <2>2. Value(h, j \div 2) <= Value(h, j)
    BY <1>2 DEF Soon, Right, Ordered, Edge
  <2>3. PICK x \in Int, y \in Int : x = Value(h, j \div 2) /\ y = Value(h, j)
    BY <1>1, <1>2, <2>1
  <2> QED
    BY <1>9, <2>1, <2>2, <2>3 DEF Edge
<1>12. \A i \in 1..L : Value(g, i) < Width \div 2
  <2> TAKE i \in 1..L
  <2>1. Value(h, i) \in Int /\ Value(h, i) < Width \div 2
    BY <1>1, <1>2 DEF Soon
  <2> QED
    BY <1>9, <2>1, HalfIs
<1> QED
  BY <1>2, <1>7, <1>8, <1>10, <1>11, <1>12 DEF Soon, Right

\* The root of a heap that is not empty.
LEMMA RootIs ==
  ASSUME NEW h, Soon(h), Size(h) > 0
  PROVE  1 \in 1..Size(h) /\ Value(h, 1) \in Int /\ Value(h, 1) < Width \div 2 /\ h.nodes[1].key \in Key
<1>1. h \in Heap /\ Size(h) \in Nat
  BY HeapIs DEF Soon, Right, Indexed
<1>2. 1 \in 1..Size(h)
  BY <1>1
<1> QED
  BY <1>1, <1>2, HeapIs DEF Soon

\* timer_check asks for a time that the core can count.
LEMMA CheckKeeps ==
  ASSUME LuaOK, NEW h, Soon(h), heap' = h, NEW asked, NEW r \in {"idle", "fun"},
         Check(h, asked, r)
  PROVE  /\ pc' \in Steps /\ ret' \in {"idle", "fun"}
         /\ intvl' \in 0..(Width \div 2 - 1)
         /\ pc' = "ask" => Size(heap') > 0
<1>1. CASE Size(h) > 0 /\ (asked = <<>> \/ Value(h, 1) < Last(asked))
  <2>1. pc' = "ask" /\ ret' = r /\ intvl' = IF Value(h, 1) <= 0 THEN 0 ELSE Value(h, 1)
    BY <1>1 DEF Check
  <2>2. PICK v \in Int : v = Value(h, 1) /\ v < Width \div 2
    BY <1>1, RootIs
  <2>3. intvl' \in 0..(Width \div 2 - 1)
    BY <2>1, <2>2, HalfIs
  <2> QED
    BY <1>1, <2>1, <2>3 DEF Steps
<1>2. CASE ~(Size(h) > 0 /\ (asked = <<>> \/ Value(h, 1) < Last(asked)))
  BY <1>2 DEF Check, LuaOK, Steps
<1> QED
  BY <1>1, <1>2

\* The stack of timeouts is one after its end is taken off.
LEMMA OutstandingIn ==
  ASSUME NEW s \in Seq(Int), now \in Int
  PROVE  Outstanding(s) \in Seq(Int)
<1> DEFINE P(k) == /\ k = 0 \/ s[k] > now
                   /\ \A i \in (k + 1)..Len(s) : s[i] <= now
           T == {k \in 0..Len(s) : \A i \in (k + 1)..Len(s) : s[i] <= now}
<1>0. Len(s) \in Nat /\ \A i \in 1..Len(s) : s[i] \in Int
  BY LenProperties, ElementOfSeq
<1>1. T \subseteq Nat /\ T # {}
  BY <1>0
<1>2. PICK k \in T : \A i \in T : k <= i
  <2> HIDE DEF T
  <2> QED
    BY <1>1, LeastNat
<1>3. k \in 0..Len(s) /\ \A i \in (k + 1)..Len(s) : s[i] <= now
  BY <1>2
<1>4. k = 0 \/ s[k] > now
  <2> SUFFICES ASSUME k # 0, ~(s[k] > now) PROVE FALSE
    OBVIOUS
  <2>1. s[k] <= now /\ k - 1 \in 0..Len(s) /\ ~(k <= k - 1)
    BY <1>0, <1>3
  <2>2. \A i \in ((k - 1) + 1)..Len(s) : i = k \/ i \in (k + 1)..Len(s)
    BY <1>0, <1>3
  <2>3. k - 1 \in T
    BY <1>3, <2>1, <2>2
  <2> QED
    BY <1>2, <2>1, <2>3
<1>5. P(k)
  BY <1>3, <1>4
<1> HIDE DEF P
<1>6. PICK m \in 0..Len(s) : m = CHOOSE i \in 0..Len(s) : P(i)
  BY <1>3, <1>5
<1>7. Outstanding(s) = SubSeq(s, 1, m)
  BY <1>6 DEF Outstanding, P
<1>8. 1 \in Int /\ m \in Int /\ \A i \in 1..m : s[i] \in Int
  BY <1>0
<1> QED
  BY <1>7, <1>8, SubSeqProperties

-----------------------------------------------------------------------------
(* The inductive invariant                                                   *)

\* What leaves the core's timer alone keeps the wheel's part.
LEMMA WheelSame ==
  ASSUME WheelOK, UNCHANGED timerVars
  PROVE  WheelOK'
<1>1. Table' = Table
  BY TableSame DEF timerVars
<1> QED
  BY <1>1 DEF WheelOK, timerVars

\* What leaves the service alone keeps its part.
LEMMA LuaSame ==
  ASSUME LuaOK, UNCHANGED luaVars
  PROVE  LuaOK'
BY DEF LuaOK, luaVars

\* Initially the wheel, the heap and the stack are empty.
LEMMA InitOK ==
  ASSUME Init
  PROVE  WheelOK /\ LuaOK
<1>1. WheelOK
  BY WheelInit DEF Init
<1>2. Right(heap) /\ Size(heap) = 0
  BY EmptyRight DEF Init, EmptyHeap, Size
<1>3. <<>> \in Seq(Int)
  OBVIOUS
<1>4. 0 \in 0..(Width \div 2 - 1)
  BY HalfIs
<1>5. 0 \in Late
  BY ZeroLate
<1>6. LuaOK
  BY <1>2, <1>3, <1>4, <1>5 DEF Init, LuaOK, Steps
<1> QED
  BY <1>1, <1>6

\* ClockMoves: all times of the service move, the wheel does not.
LEMMA ClockKeeps ==
  ASSUME WheelOK, LuaOK, NEW d \in 1..MaxLag, ClockMoves(d)
  PROVE  WheelOK' /\ LuaOK'
<1>0. d \in Nat /\ d > 0
  BY MaxLagPositive
<1>1. WheelOK'
  BY WheelClock DEF ClockMoves
<1>2. Soon(heap') /\ Size(heap') = Size(heap)
  <2>1. Soon(heap) /\ heap' = Shift(heap, d)
    BY DEF ClockMoves, LuaOK, Soon
  <2> QED
    BY <1>0, <2>1, ShiftSoon
<1>3. timeouts' \in Seq(Int)
  <2>1. PICK n \in Nat : n = Len(timeouts)
    BY LenProperties DEF LuaOK
  <2>2. \A i \in 1..n : timeouts[i] \in Int
    BY <2>1, ElementOfSeq DEF LuaOK
  <2>3. \A i \in 1..n : timeouts[i] - d \in Int
    BY <1>0, <2>2
  <2>4. timeouts' \in [1..n -> Int]
    BY <2>1, <2>3 DEF ClockMoves
  <2> QED
    BY <2>1, <2>4
<1>4. now' \in Late
  <2>1. now \in (-MaxLate)..0 /\ now' >= -MaxLate /\ (now' = now - d \/ now' = 0)
    BY DEF ClockMoves, LuaOK, Late
  <2> QED
    BY <1>0, <2>1, MaxLateNat DEF Late
<1>5. waits' \in [Late -> Nat]
  <2>1. waits' = [n \in Late |-> IF n + d \in Late THEN waits[n + d] ELSE 0]
    BY DEF ClockMoves
  <2>2. \A n \in Late : waits[n] \in Nat
    BY DEF LuaOK
  <2> QED
    BY <2>1, <2>2
<1>6. UNCHANGED <<box, pc, ret, intvl>>
  BY DEF ClockMoves
<1> QED
  BY <1>1, <1>2, <1>3, <1>4, <1>5, <1>6 DEF LuaOK, Soon

\* PushResponse: the rest of the list in hand is still of this tick.
LEMMA ResponseKeeps ==
  ASSUME WheelOK, LuaOK, PushResponse
  PROVE  WheelOK' /\ LuaOK'
<1>1. WheelOK'
  BY WheelHead DEF PushResponse
<1>2. box' \in Nat
  BY DEF PushResponse, LuaOK
<1> QED
  BY <1>1, <1>2 DEF PushResponse, LuaOK

\* OtherTimeout: the node of another service goes where it will be found.
LEMMA OtherKeeps ==
  ASSUME WheelOK, LuaOK, NEW d \in Delay, OtherTimeout(d)
  PROVE  WheelOK' /\ LuaOK'
<1>1. d \in 1..(Width \div 2 - 1) /\ "other" \in Names
  BY DelayBound DEF Names
<1>2. TimerAdd("other", d) /\ UNCHANGED luaVars
  BY DEF OtherTimeout
<1> QED
  BY <1>1, <1>2, WheelAdd, LuaSame

\* PushEnds: the heap stays one, and what is asked for is soon enough.
LEMMA PushEndsKeeps ==
  ASSUME WheelOK, LuaOK, NEW k \in Key, NEW d \in Intvl, PushEnds(k, d)
  PROVE  WheelOK' /\ LuaOK'
<1>1. d \in Int /\ d < Width \div 2
  BY DelayBound, HalfIs
<1>2. Soon(heap') /\ Check(heap', timeouts, pc) /\ UNCHANGED <<timerVars, timeouts, box, now, waits>>
  BY <1>1, PushSoon DEF PushEnds, LuaOK, Soon
<1>3. /\ pc' \in Steps /\ ret' \in {"idle", "fun"}
      /\ intvl' \in 0..(Width \div 2 - 1)
      /\ pc' = "ask" => Size(heap') > 0
  <2>1. PICK h : h = heap'
    OBVIOUS
  <2>2. PICK r \in {"idle", "fun"} : r = pc
    BY DEF PushEnds
  <2> QED
    BY <1>2, <2>1, <2>2, CheckKeeps
<1>4. WheelOK'
  BY <1>2, WheelSame
<1> QED
  BY <1>2, <1>3, <1>4 DEF LuaOK, Soon

\* TimerRemove: so it does when a function is removed.
LEMMA RemoveKeeps ==
  ASSUME WheelOK, LuaOK, NEW k \in Key, TimerRemove(k)
  PROVE  WheelOK' /\ LuaOK'
<1>2. Soon(heap') /\ Check(heap', timeouts, pc) /\ UNCHANGED <<timerVars, timeouts, box, now, waits>>
  BY RemoveSoon DEF TimerRemove, LuaOK, Soon
<1>3. /\ pc' \in Steps /\ ret' \in {"idle", "fun"}
      /\ intvl' \in 0..(Width \div 2 - 1)
      /\ pc' = "ask" => Size(heap') > 0
  <2>1. PICK h : h = heap'
    OBVIOUS
  <2>2. PICK r \in {"idle", "fun"} : r = pc
    BY DEF TimerRemove
  <2> QED
    BY <1>2, <2>1, <2>2, CheckKeeps
<1>4. WheelOK'
  BY <1>2, WheelSame
<1> QED
  BY <1>2, <1>3, <1>4 DEF LuaOK, Soon

\* Ask: the service's timeout goes where it will be found.
LEMMA AskKeeps ==
  ASSUME WheelOK, LuaOK, Ask
  PROVE  WheelOK' /\ LuaOK'
<1>1. pc = "ask" /\ Size(heap) > 0 /\ Soon(heap) /\ intvl \in 0..(Width \div 2 - 1)
  BY DEF Ask, LuaOK, Soon
<1>2. timeouts' \in Seq(Int)
  <2>1. Value(heap, 1) \in Int
    BY <1>1, RootIs
  <2> QED
    BY <2>1, AppendProperties DEF Ask, LuaOK
<1>3. /\ pc' \in Steps /\ ret' = "idle" /\ pc' # "ask"
      /\ intvl' = 0 /\ UNCHANGED <<heap, now, waits>>
  BY DEF Ask, LuaOK, Steps
<1>4. CASE intvl = 0
  <2>1. box' \in Nat /\ UNCHANGED timerVars
    BY <1>4 DEF Ask, LuaOK
  <2>2. WheelOK'
    BY <2>1, WheelSame
  <2> QED
    BY <1>2, <1>3, <2>1, <2>2, HalfIs DEF LuaOK
<1>5. CASE intvl # 0
  <2>1. TimerAdd("own", intvl) /\ UNCHANGED box
    BY <1>5 DEF Ask
  <2>2. PICK d \in 1..(Width \div 2 - 1) : d = intvl
    BY <1>1, <1>5, HalfIs
  <2>3. "own" \in Names /\ TimerAdd("own", d)
    BY <2>1, <2>2 DEF Names
  <2>4. WheelOK'
    BY <2>3, WheelAdd
  <2> QED
    BY <1>2, <1>3, <2>1, <2>4, HalfIs DEF LuaOK
<1> QED
  BY <1>4, <1>5

\* Serve: neither the heap nor the wheel changes.
LEMMA ServeKeeps ==
  ASSUME WheelOK, LuaOK, Serve
  PROVE  WheelOK' /\ LuaOK'
<1>1. WheelOK'
  BY WheelSame DEF Serve
<1>2. box' \in Nat /\ now' \in Late
  BY ZeroLate DEF Serve, LuaOK
<1> QED
  BY <1>1, <1>2 DEF Serve, LuaOK, Steps

\* Call: the function is taken out.
LEMMA CallKeeps ==
  ASSUME WheelOK, LuaOK, Call
  PROVE  WheelOK' /\ LuaOK'
<1>1. WheelOK'
  BY WheelSame DEF Call
<1>2. PICK k \in Key : k = heap.nodes[1].key
  BY RootIs DEF Call, RootDue, LuaOK, Soon
<1>3. Soon(heap')
  BY <1>2, RemoveSoon DEF Call, LuaOK, Soon
<1> QED
  BY <1>1, <1>3 DEF Call, LuaOK, Soon, Steps

\* Return: the heap, the stack and the wheel stay.
LEMMA ReturnKeeps ==
  ASSUME WheelOK, LuaOK, Return
  PROVE  WheelOK' /\ LuaOK'
<1>1. WheelOK'
  BY WheelSame DEF Return
<1> QED
  BY <1>1 DEF Return, LuaOK, Steps

\* Yield: they stay, and one loop more waits.
LEMMA YieldKeeps ==
  ASSUME WheelOK, LuaOK, Yield
  PROVE  WheelOK' /\ LuaOK'
<1>1. WheelOK'
  BY WheelSame DEF Yield
<1>2. waits' \in [Late -> Nat]
  <2>1. waits[now] + 1 \in Nat
    BY DEF LuaOK
  <2> QED
    BY <2>1 DEF Yield, LuaOK
<1>3. now' \in Late
  BY ZeroLate DEF Yield
<1> QED
  BY <1>1, <1>2, <1>3 DEF Yield, LuaOK, Steps

\* Resume: they stay, and one loop less waits.
LEMMA ResumeKeeps ==
  ASSUME WheelOK, LuaOK, NEW n \in Late, Resume(n)
  PROVE  WheelOK' /\ LuaOK'
<1>1. WheelOK'
  BY WheelSame DEF Resume
<1>2. waits' \in [Late -> Nat]
  <2>1. waits[n] - 1 \in Nat
    BY DEF Resume, LuaOK
  <2> QED
    BY <2>1 DEF Resume, LuaOK
<1> QED
  BY <1>1, <1>2 DEF Resume, LuaOK, Steps

\* LoopEnds: what is left of the stack is still times.
LEMMA LoopKeeps ==
  ASSUME WheelOK, LuaOK, LoopEnds
  PROVE  WheelOK' /\ LuaOK'
<1>1. WheelOK'
  BY WheelSame DEF LoopEnds
<1>2. timeouts' \in Seq(Int)
  <2>1. now \in Int
    BY DEF LuaOK, Late
  <2> QED
    BY <2>1, OutstandingIn DEF LoopEnds, LuaOK
<1>3. Soon(heap) /\ heap' = heap /\ Check(heap, timeouts', "idle")
  BY DEF LoopEnds, LuaOK, Soon
<1>4. /\ pc' \in Steps /\ ret' \in {"idle", "fun"}
      /\ intvl' \in 0..(Width \div 2 - 1)
      /\ pc' = "ask" => Size(heap') > 0
  BY <1>3, CheckKeeps
<1>5. now' \in Late /\ UNCHANGED <<box, waits>>
  BY ZeroLate DEF LoopEnds
<1> QED
  BY <1>1, <1>2, <1>3, <1>4, <1>5 DEF LuaOK, Soon

\* Every step keeps the invariant; Turn by WheelUpdate.
LEMMA NextKeeps ==
  ASSUME WheelOK, LuaOK, [Next]_vars
  PROVE  WheelOK' /\ LuaOK'
<1>1. ASSUME NEW d \in 1..MaxLag, ClockMoves(d)
      PROVE  WheelOK' /\ LuaOK'
  BY <1>1, ClockKeeps
<1>2. CASE Turn
  BY <1>2, WheelUpdate, LuaSame DEF Turn
<1>3. CASE PushResponse
  BY <1>3, ResponseKeeps
<1>4. ASSUME NEW d \in Delay, OtherTimeout(d)
      PROVE  WheelOK' /\ LuaOK'
  BY <1>4, OtherKeeps
<1>5. ASSUME NEW k \in Key, TimerRemove(k)
      PROVE  WheelOK' /\ LuaOK'
  BY <1>5, RemoveKeeps
<1>6. ASSUME NEW k \in Key, NEW d \in Intvl, PushEnds(k, d)
      PROVE  WheelOK' /\ LuaOK'
  BY <1>6, PushEndsKeeps
<1>7. CASE Ask
  BY <1>7, AskKeeps
<1>8. CASE Serve
  BY <1>8, ServeKeeps
<1>9. CASE Call
  BY <1>9, CallKeeps
<1>10. CASE LoopEnds
  BY <1>10, LoopKeeps
<1>11. CASE Return
  BY <1>11, ReturnKeeps
<1>12. CASE Yield
  BY <1>12, YieldKeeps
<1>13. ASSUME NEW n \in Late, Resume(n)
       PROVE  WheelOK' /\ LuaOK'
  BY <1>13, ResumeKeeps
<1>14. CASE UNCHANGED vars
  BY <1>14, WheelSame, LuaSame DEF vars
<1> QED
  BY <1>1, <1>2, <1>3, <1>4, <1>5, <1>6, <1>7, <1>8, <1>9, <1>10, <1>11, <1>12, <1>13, <1>14
     DEF Next

\* The inductive invariant of the timers: every node of the wheel is in the
\* list in which the clock will come to it, no earlier and no later, and the
\* heap of the service is one.
THEOREM TimerInvariant == Spec => []TimerInv
<1> DEFINE Inv == WheelOK /\ LuaOK
<1>1. Init => Inv
  BY InitOK
<1>2. Inv /\ [Next]_vars => Inv'
  BY NextKeeps
<1>3. Inv => TimerInv
  BY InvIs
<1> HIDE DEF Inv
<1> QED
  BY <1>1, <1>2, <1>3, PTL DEF Spec

\* skynet_timer.c, skynet.lua: all values have their types; so the times asked
\* for are less than half of the counter, also when they wrap.
THEOREM TimersTyped == Spec => []TypeOK
<1>1. TimerInv => TypeOK
  BY DEF TimerInv
<1> QED
  BY <1>1, TimerInvariant, PTL

\* minheap.lua: after any pushes, updates and removals the service's heap is
\* ordered and its index leads to the node of each key.
THEOREM HeapStaysExact == Spec => []HeapExact
<1>1. TimerInv => HeapExact
  BY DEF TimerInv, HeapExact, Right, Indexed, Ordered, Edge
<1> QED
  BY <1>1, TimerInvariant, PTL

-----------------------------------------------------------------------------
(* The alarm                                                                 *)

\* A function from ticks to events, and the alarm that holds these.
Alarms == [Ticks -> Seq(Names)]

Rings(c) == {e \in Ticks : c[e] # <<>>}

AlarmOf(c) == [e \in Rings(c) |-> c[e]]

\* An event more.
LEMMA AlarmSet ==
  ASSUME NEW c \in Alarms, NEW x \in Ticks, NEW ev \in Names,
         NEW g \in Alarms, \A e \in Ticks : g[e] = IF x = e THEN Append(c[e], ev) ELSE c[e]
  PROVE  LET old == AlarmOf(c)
             new == AlarmOf(g)
         IN  /\ new # old /\ x \in DOMAIN new /\ DOMAIN new = DOMAIN old \cup {x}
             /\ new[x] = Append(IF x \in DOMAIN old THEN old[x] ELSE <<>>, ev)
             /\ \A f \in DOMAIN old \ {x} : new[f] = old[f]
<1>1. PICK l \in Seq(Names) : l = c[x]
  BY DEF Alarms
<1>2. PICK m \in Seq(Names) : m = Append(l, ev) /\ m # <<>> /\ Len(m) = Len(l) + 1
  BY AppendProperties
<1>3. g[x] = m /\ m # l
  <2>1. Len(l) \in Nat /\ Len(m) = Len(l) + 1
    BY <1>2, LenProperties
  <2>2. m # l
    <3> SUFFICES ASSUME m = l PROVE FALSE
      OBVIOUS
    <3>1. Len(m) = Len(l)
      OBVIOUS
    <3> QED
      BY <2>1, <3>1
  <2>3. g[x] = Append(c[x], ev)
    OBVIOUS
  <2> QED
    BY <1>1, <1>2, <2>2, <2>3
<1>4. Rings(g) = Rings(c) \cup {x} /\ x \in Rings(g)
  BY <1>2, <1>3 DEF Rings
<1>5. PICK old, new : old = AlarmOf(c) /\ new = AlarmOf(g)
  OBVIOUS
<1>6. DOMAIN old = Rings(c) /\ DOMAIN new = Rings(g)
  BY <1>5 DEF AlarmOf
<1>7. \A f \in Rings(c) : old[f] = c[f]
  BY <1>5 DEF AlarmOf
<1>8. \A f \in Rings(g) : new[f] = g[f]
  BY <1>5 DEF AlarmOf
<1>9. new[x] = m
  BY <1>3, <1>4, <1>8
<1>10. x \in Rings(c) => old[x] = l
  BY <1>1, <1>7
<1>11. x \notin Rings(c) => l = <<>>
  BY <1>1 DEF Rings
<1>12. new # old
  <2> SUFFICES ASSUME new = old PROVE FALSE
    OBVIOUS
  <2>1. x \in Rings(c)
    BY <1>4, <1>6
  <2> QED
    BY <1>3, <1>9, <1>10, <2>1
<1>13. \A f \in Rings(c) \ {x} : new[f] = old[f]
  BY <1>4, <1>7, <1>8 DEF Rings
<1>14. new[x] = Append(IF x \in Rings(c) THEN old[x] ELSE <<>>, ev)
  BY <1>2, <1>9, <1>10, <1>11
<1> QED
  BY <1>4, <1>5, <1>6, <1>12, <1>13, <1>14

\* An event less.
LEMMA AlarmRing ==
  ASSUME NEW c \in Alarms, NEW x \in Ticks, c[x] # <<>>,
         NEW g \in Alarms, \A e \in Ticks : g[e] = IF x = e THEN Tail(c[e]) ELSE c[e]
  PROVE  LET old == AlarmOf(c)
             new == AlarmOf(g)
         IN  /\ new # old /\ x \in DOMAIN old
             /\ new = IF Len(old[x]) = 1 THEN [f \in DOMAIN old \ {x} |-> old[f]]
                      ELSE [old EXCEPT ![x] = Tail(@)]
<1>1. PICK l \in Seq(Names) : l = c[x] /\ l # <<>>
  BY DEF Alarms
<1>2. PICK m \in Seq(Names) : m = Tail(l) /\ Len(m) = Len(l) - 1
  BY <1>1, HeadTailProperties
<1>3. Len(l) \in Nat /\ Len(m) \in Nat /\ m # l /\ (m = <<>> <=> Len(l) = 1)
  <2>1. Len(l) \in Nat /\ Len(m) \in Nat
    BY LenProperties
  <2>2. m = <<>> <=> Len(m) = 0
    BY EmptySeq
  <2>3. Len(m) = Len(l) - 1
    BY <1>2
  <2>4. m # l
    <3> SUFFICES ASSUME m = l PROVE FALSE
      OBVIOUS
    <3>1. Len(m) = Len(l)
      OBVIOUS
    <3> QED
      BY <2>1, <2>3, <3>1
  <2>5. Len(m) = 0 <=> Len(l) = 1
    BY <2>1, <2>3
  <2> QED
    BY <2>1, <2>2, <2>4, <2>5
<1>4. g[x] = m
  BY <1>1, <1>2
<1>5. x \in Rings(c) /\ Rings(g) = IF m = <<>> THEN Rings(c) \ {x} ELSE Rings(c)
  BY <1>1, <1>4 DEF Rings
<1>6. PICK old, new : old = AlarmOf(c) /\ new = AlarmOf(g)
  OBVIOUS
<1>7. DOMAIN old = Rings(c) /\ DOMAIN new = Rings(g)
  BY <1>6 DEF AlarmOf
<1>8. \A f \in Rings(c) : old[f] = c[f]
  BY <1>6 DEF AlarmOf
<1>9. \A f \in Rings(g) : new[f] = g[f]
  BY <1>6 DEF AlarmOf
<1>10. old[x] = l
  BY <1>1, <1>5, <1>8
<1>11. CASE m = <<>>
  <2>1. Len(old[x]) = 1 /\ DOMAIN new = DOMAIN old \ {x}
    BY <1>3, <1>5, <1>7, <1>10, <1>11
  <2>2. new = [f \in Rings(g) |-> g[f]]
    BY <1>6 DEF AlarmOf
  <2>3. \A f \in Rings(g) : g[f] = old[f]
    BY <1>5, <1>8, <1>11 DEF Rings
  <2>4. new = [f \in DOMAIN old \ {x} |-> old[f]]
    BY <1>7, <2>1, <2>2, <2>3
  <2>5. new # old
    BY <1>5, <1>7, <2>1
  <2> QED
    BY <1>5, <1>6, <1>7, <2>1, <2>4, <2>5
<1>12. CASE m # <<>>
  <2>1. Len(old[x]) # 1 /\ Rings(g) = Rings(c)
    BY <1>3, <1>5, <1>10, <1>12
  <2>2. new = [f \in Rings(g) |-> g[f]] /\ old = [f \in Rings(c) |-> c[f]]
    BY <1>6 DEF AlarmOf
  <2>3. \A f \in Rings(c) : g[f] = IF f = x THEN Tail(old[f]) ELSE old[f]
    BY <1>8 DEF Rings
  <2>4. new = [old EXCEPT ![x] = Tail(@)]
    <3>1. [old EXCEPT ![x] = Tail(old[x])] = [f \in Rings(c) |-> IF f = x THEN Tail(old[f]) ELSE old[f]]
      BY <1>5, <2>2
    <3>2. new = [f \in Rings(c) |-> IF f = x THEN Tail(old[f]) ELSE old[f]]
      BY <2>1, <2>2, <2>3
    <3> QED
      BY <3>1, <3>2
  <2>5. new # old
    <3>1. new[x] = m
      BY <1>4, <1>5, <1>9, <2>1
    <3> QED
      BY <1>3, <1>10, <3>1
  <2> QED
    BY <1>5, <1>6, <1>7, <2>1, <2>4, <2>5
<1> QED
  BY <1>11, <1>12

\* The nodes of the list in hand and of the wheel are for the ticks that have
\* events.
LEMMA NodesAre ==
  ASSUME NEW r \in Seq(Timed), NEW tab \in Tables, NEW t \in Ticks, Placed(tab, t)
  PROVE  LET nodes == UNION {Range(l) : l \in {r} \cup Range(tab.near) \cup Range(tab.wheel)}
         IN  {n.expire : n \in nodes} = {e \in Ticks : EventsAt(r, e) \o FoundAt(tab, t, e) # <<>>}
<1> DEFINE nodes == UNION {Range(l) : l \in {r} \cup Range(tab.near) \cup Range(tab.wheel)}
           lists == {r} \cup {ListAt(tab, p) : p \in Places}
<1>1. PICK a \in [1..Near -> Seq(Timed)], b \in [1..(Levels * Level) -> Seq(Timed)] :
         tab = [near |-> a, wheel |-> b]
  BY TableIs
<1>2. Range(tab.near) = {a[i] : i \in 1..Near} /\ Range(tab.wheel) = {b[i] : i \in 1..(Levels * Level)}
  BY <1>1 DEF Range
<1>3. /\ \A i \in 1..Near : <<"near", i>> \in Places /\ ListAt(tab, <<"near", i>>) = a[i]
      /\ \A i \in 1..(Levels * Level) : <<"wheel", i>> \in Places /\ ListAt(tab, <<"wheel", i>>) = b[i]
  BY <1>1 DEF Places, ListAt
<1>4. \A p \in Places : ListAt(tab, p) \in {a[i] : i \in 1..Near} \cup {b[i] : i \in 1..(Levels * Level)}
  <2> TAKE p \in Places
  <2>1. CASE p \in {"near"} \X (1..Near)
    <3>1. PICK i \in 1..Near : p = <<"near", i>>
      BY <2>1
    <3> QED
      BY <1>3, <3>1
  <2>2. CASE p \in {"wheel"} \X (1..(Levels * Level))
    <3>1. PICK i \in 1..(Levels * Level) : p = <<"wheel", i>>
      BY <2>2
    <3> QED
      BY <1>3, <3>1
  <2> QED
    BY <2>1, <2>2 DEF Places
<1>5. {r} \cup Range(tab.near) \cup Range(tab.wheel) = lists
  BY <1>2, <1>3, <1>4
<1>6. nodes = UNION {Range(l) : l \in lists}
  BY <1>5
<1>7. \A l \in lists : l \in Seq(Timed)
  BY ListAtIn
<1>8. \A l \in Seq(Timed) : Range(l) = {l[k] : k \in 1..Len(l)}
  BY LenProperties DEF Range
<1>9. ASSUME NEW e
      PROVE  e \in {n.expire : n \in nodes} <=> \E l \in lists : \E k \in 1..Len(l) : l[k].expire = e
  <2> HIDE DEF lists, nodes
  <2>1. \A n : n \in nodes <=> \E l \in lists : \E k \in 1..Len(l) : n = l[k]
    BY <1>6, <1>7, <1>8
  <2> QED
    BY <2>1
<1>10. ASSUME NEW e \in Ticks
       PROVE  EventsAt(r, e) \o FoundAt(tab, t, e) # <<>> <=> \E l \in lists : \E k \in 1..Len(l) : l[k].expire = e
  <2>1. PICK x \in Seq(Names), y \in Seq(Names) : x = EventsAt(r, e) /\ y = FoundAt(tab, t, e)
    BY FoundIn, EventsIn
  <2>2. x \o y = <<>> <=> x = <<>> /\ y = <<>>
    BY ConcatEqualIffEmpty
  <2>3. x = <<>> <=> \A k \in 1..Len(r) : r[k].expire # e
    BY <2>1, EventsNone
  <2>4. y = <<>> <=> ~ \E p \in Places : \E k \in 1..Len(ListAt(tab, p)) : ListAt(tab, p)[k].expire = e
    BY <2>1, FoundNone DEF Times
  <2> QED
    BY <2>1, <2>2, <2>3, <2>4
<1>11. \A l \in lists : \A k \in 1..Len(l) : l[k].expire \in Ticks
  <2> HIDE DEF lists
  <2> TAKE l \in lists
  <2> TAKE k \in 1..Len(l)
  <2>1. l[k] \in Timed
    BY <1>7, ElementOfSeq
  <2> QED
    BY <2>1 DEF Timed, Ticks
<1> HIDE DEF lists, nodes
<1>12. {n.expire : n \in nodes} = {e \in Ticks : EventsAt(r, e) \o FoundAt(tab, t, e) # <<>>}
  <2>1. PICK A : A = {n.expire : n \in nodes}
    OBVIOUS
  <2>2. \A e : e \in A <=> \E l \in lists : \E k \in 1..Len(l) : l[k].expire = e
    BY <1>9, <2>1
  <2>3. \A e \in A : e \in Ticks
    BY <1>11, <2>2
  <2>4. \A e \in Ticks : e \in A <=> EventsAt(r, e) \o FoundAt(tab, t, e) # <<>>
    BY <1>10, <2>2
  <2>5. A = {e \in Ticks : EventsAt(r, e) \o FoundAt(tab, t, e) # <<>>}
    BY <2>3, <2>4
  <2> QED
    BY <2>1, <2>5
<1> QED
  BY <1>12 DEF nodes

\* The nodes of the list in hand and of the wheel make up an alarm: its ticks
\* are those for which something will be found.
LEMMA AlarmIs ==
  ASSUME NEW r \in Seq(Timed), NEW tab \in Tables, NEW t \in Ticks, Placed(tab, t)
  PROVE  LET nodes == UNION {Range(l) : l \in {r} \cup Range(tab.near) \cup Range(tab.wheel)}
             coming(e) == EventsAt(r, e) \o FoundAt(tab, t, e)
         IN  /\ [e \in Ticks |-> coming(e)] \in Alarms
             /\ [e \in {n.expire : n \in nodes} |-> coming(e)] = AlarmOf([e \in Ticks |-> coming(e)])
<1> DEFINE nodes == UNION {Range(l) : l \in {r} \cup Range(tab.near) \cup Range(tab.wheel)}
           coming(e) == EventsAt(r, e) \o FoundAt(tab, t, e)
<1>1. PICK A : A = {n.expire : n \in nodes} /\ A = {e \in Ticks : coming(e) # <<>>}
  BY NodesAre
<1>2. \A e \in Ticks : coming(e) \in Seq(Names)
  BY FoundIn, EventsIn, ConcatProperties
<1> HIDE DEF coming, nodes
<1>3. PICK c \in Alarms : c = [e \in Ticks |-> coming(e)]
  BY <1>2 DEF Alarms
<1>4. Rings(c) = A
  BY <1>1, <1>3 DEF Rings
<1>5. [e \in A |-> coming(e)] = AlarmOf(c)
  <2>1. AlarmOf(c) = [e \in A |-> c[e]]
    BY <1>4 DEF AlarmOf
  <2>2. \A e \in A : c[e] = coming(e)
    BY <1>1, <1>3
  <2> QED
    BY <2>1, <2>2
<1> QED
  BY <1>1, <1>3, <1>5 DEF coming, nodes

\* What Expiring is, before a step and after it.
LEMMA ComingIs ==
  ASSUME WheelOK
  PROVE  \E c \in Alarms : (\A e \in Ticks : c[e] = Coming(e)) /\ Expiring = AlarmOf(c)
<1>1. PICK r \in Seq(Timed), tab \in Tables, t \in Ticks :
         r = run /\ tab = Table /\ t = time /\ Placed(tab, t)
  BY DEF WheelOK
<1>2. tab.near = near /\ tab.wheel = wheel
  BY <1>1 DEF Table
<1> DEFINE nodes == UNION {Range(l) : l \in {r} \cup Range(tab.near) \cup Range(tab.wheel)}
           coming(e) == EventsAt(r, e) \o FoundAt(tab, t, e)
<1>3. PICK c \in Alarms : /\ c = [e \in Ticks |-> coming(e)]
                          /\ [e \in {n.expire : n \in nodes} |-> coming(e)] = AlarmOf(c)
  <2>1. /\ [e \in Ticks |-> coming(e)] \in Alarms
        /\ [e \in {n.expire : n \in nodes} |-> coming(e)] = AlarmOf([e \in Ticks |-> coming(e)])
    BY <1>1, AlarmIs
  <2> HIDE DEF coming, nodes
  <2> QED
    BY <2>1
<1>4. \A e : Coming(e) = coming(e)
  BY <1>1 DEF Coming, FoundAt
<1>5. Expiring = [e \in {n.expire : n \in nodes} |-> coming(e)]
  BY <1>1, <1>2, <1>4 DEF Expiring
<1> HIDE DEF coming, nodes
<1> QED
  BY <1>3, <1>4, <1>5

\* The same after a step.
LEMMA ComingIsNext ==
  ASSUME WheelOK'
  PROVE  \E c \in Alarms : (\A e \in Ticks : c[e] = Coming(e)') /\ Expiring' = AlarmOf(c)
<1>1. PICK r \in Seq(Timed), tab \in Tables, t \in Ticks :
         r = run' /\ tab = Table' /\ t = time' /\ Placed(tab, t)
  BY DEF WheelOK
<1>2. tab.near = near' /\ tab.wheel = wheel'
  BY <1>1 DEF Table
<1> DEFINE nodes == UNION {Range(l) : l \in {r} \cup Range(tab.near) \cup Range(tab.wheel)}
           coming(e) == EventsAt(r, e) \o FoundAt(tab, t, e)
<1>3. PICK c \in Alarms : /\ c = [e \in Ticks |-> coming(e)]
                          /\ [e \in {n.expire : n \in nodes} |-> coming(e)] = AlarmOf(c)
  <2>1. /\ [e \in Ticks |-> coming(e)] \in Alarms
        /\ [e \in {n.expire : n \in nodes} |-> coming(e)] = AlarmOf([e \in Ticks |-> coming(e)])
    BY <1>1, AlarmIs
  <2> HIDE DEF coming, nodes
  <2> QED
    BY <2>1
<1>4. \A e \in Ticks : Coming(e)' = coming(e)
  BY <1>1 DEF Coming, FoundAt
<1>5. {n.expire : n \in nodes} \subseteq Ticks
  <2>1. {n.expire : n \in nodes} = {e \in Ticks : coming(e) # <<>>}
    BY <1>1, NodesAre
  <2> HIDE DEF coming, nodes
  <2> QED
    BY <2>1
<1>6. Expiring' = [e \in {n.expire : n \in nodes} |-> coming(e)]
  <2>1. Expiring' = [e \in {n.expire : n \in nodes} |-> Coming(e)']
    BY <1>1, <1>2 DEF Expiring
  <2> HIDE DEF coming, nodes
  <2> QED
    BY <1>4, <1>5, <2>1
<1> HIDE DEF coming, nodes
<1> QED
  BY <1>3, <1>4, <1>6

\* timer_add sets an alarm.
LEMMA AddSets ==
  ASSUME WheelOK, NEW ev \in Names, NEW d \in 1..(Width \div 2 - 1), TimerAdd(ev, d)
  PROVE  Core!Set
<1>1. /\ WheelOK'
      /\ \A e \in Ticks :
            FoundAt(Table', time, e)
              = IF (time + d) % Width = e THEN Append(FoundAt(Table, time, e), ev) ELSE FoundAt(Table, time, e)
  BY WheelAdd
<1>2. PICK r \in Seq(Timed), tab \in Tables, t \in Ticks : r = run /\ tab = Table /\ t = time
  BY DEF WheelOK
<1>3. PICK x \in Ticks : x = (time + d) % Width /\ (x - time) % Width = d
  BY <1>2, Later
<1>4. UNCHANGED <<time, run>>
  BY DEF TimerAdd
<1>5. PICK c \in Alarms : (\A e \in Ticks : c[e] = Coming(e)) /\ Expiring = AlarmOf(c)
  BY ComingIs
<1>6. PICK g \in Alarms : (\A e \in Ticks : g[e] = Coming(e)') /\ Expiring' = AlarmOf(g)
  BY <1>1, ComingIsNext
<1>7. ASSUME NEW e \in Ticks
      PROVE  g[e] = IF x = e THEN Append(c[e], ev) ELSE c[e]
  <2>1. PICK a \in Seq(Names), b \in Seq(Names) : a = EventsAt(r, e) /\ b = FoundAt(tab, t, e)
    BY FoundIn, EventsIn
  <2>2. c[e] = a \o b
    BY <1>2, <1>5, <2>1 DEF Coming, FoundAt
  <2>3. g[e] = a \o FoundAt(Table', time, e)
    BY <1>2, <1>4, <1>6, <2>1 DEF Coming, FoundAt
  <2>4. Append(a \o b, ev) = a \o Append(b, ev)
    BY Grouped
  <2> QED
    BY <1>1, <1>2, <1>3, <2>1, <2>2, <2>3, <2>4
<1>8. PICK old, new : old = Expiring /\ new = Expiring'
  OBVIOUS
<1>9. /\ new # old /\ x \in DOMAIN new /\ DOMAIN new = DOMAIN old \cup {x}
      /\ new[x] = Append(IF x \in DOMAIN old THEN old[x] ELSE <<>>, ev)
      /\ \A f \in DOMAIN old \ {x} : new[f] = old[f]
  <2>1. \A e \in Ticks : g[e] = IF x = e THEN Append(c[e], ev) ELSE c[e]
    BY <1>7
  <2>2. LET a == AlarmOf(c)
            b == AlarmOf(g)
        IN  /\ b # a /\ x \in DOMAIN b /\ DOMAIN b = DOMAIN a \cup {x}
            /\ b[x] = Append(IF x \in DOMAIN a THEN a[x] ELSE <<>>, ev)
            /\ \A f \in DOMAIN a \ {x} : b[f] = a[f]
    BY <2>1, AlarmSet
  <2> QED
    BY <1>5, <1>6, <1>8, <2>2
<1>10. (x - time) % Width \in 1..(Width \div 2 - 1)
  BY <1>3
<1> QED
  BY <1>4, <1>8, <1>9, <1>10 DEF Core!Set, Names

\* dispatch_list rings it, in the tick it was set to.
LEMMA HeadRings ==
  ASSUME WheelOK, DispatchHead
  PROVE  Core!Ring
<1>1. WheelOK'
  BY WheelHead
<1>2. PICK r \in Seq(Timed), tab \in Tables, t \in Ticks :
         /\ r = run /\ tab = Table /\ t = time /\ r # <<>>
         /\ \A k \in 1..Len(r) : r[k].expire = t
  BY DEF WheelOK, DispatchHead
<1>3. UNCHANGED time /\ Table' = Table /\ run' = Tail(run)
  BY TableSame DEF DispatchHead
<1>4. PICK m \in Seq(Timed), n \in Timed :
         m = Tail(r) /\ n = Head(r) /\ n.expire = t /\ \A k \in 1..Len(m) : m[k].expire = t
  <2>1. /\ Tail(r) \in Seq(Timed) /\ Head(r) \in Timed /\ Len(Tail(r)) = Len(r) - 1
        /\ \A k \in 1..Len(Tail(r)) : Tail(r)[k] = r[k + 1]
    BY <1>2, HeadTailProperties
  <2>2. Len(r) \in Nat /\ Len(r) # 0
    BY <1>2, EmptySeq
  <2>3. Head(r) = r[1] /\ 1 \in 1..Len(r)
    BY <1>2, <2>2
  <2>4. \A k \in 1..Len(Tail(r)) : k + 1 \in 1..Len(r)
    BY <2>1, <2>2
  <2> QED
    BY <1>2, <2>1, <2>3, <2>4
<1>5. PICK c \in Alarms : (\A e \in Ticks : c[e] = Coming(e)) /\ Expiring = AlarmOf(c)
  BY ComingIs
<1>6. PICK g \in Alarms : (\A e \in Ticks : g[e] = Coming(e)') /\ Expiring' = AlarmOf(g)
  BY <1>1, ComingIsNext
<1>7. ASSUME NEW e \in Ticks
      PROVE  /\ g[e] = IF t = e THEN Tail(c[e]) ELSE c[e]
             /\ t = e => c[e] # <<>>
  <2>1. PICK a \in Seq(Names), b \in Seq(Names) : a = EventsAt(m, e) /\ b = FoundAt(tab, t, e)
    BY FoundIn, EventsIn
  <2>2. g[e] = a \o b
    BY <1>2, <1>3, <1>4, <1>6, <2>1 DEF Coming, FoundAt
  <2>3. c[e] = EventsAt(r, e) \o b
    BY <1>2, <1>5, <2>1 DEF Coming, FoundAt
  <2>4. EventsAt(r, e) = (IF n.expire = e THEN <<n.event>> ELSE <<>>) \o a
    BY <1>2, <1>4, <2>1, EventsTail
  <2>5. CASE t # e
    <3>1. <<>> \o a = a
      BY ConcatEmptySeq
    <3> QED
      BY <1>4, <2>2, <2>3, <2>4, <2>5, <3>1
  <2>6. CASE t = e
    <3>1. PICK v \in Names : v = n.event
      BY DEF Timed, Names
    <3>2. PICK u \in Seq(Names) : u = <<v>>
      <4>1. <<v>> \in Seq(Names)
        OBVIOUS
      <4> QED
        BY <4>1
    <3>3. c[e] = (u \o a) \o b
      BY <1>4, <2>3, <2>4, <2>6, <3>1, <3>2
    <3>4. (u \o a) \o b = u \o (a \o b)
      BY ConcatAssociative
    <3>5. PICK z \in Seq(Names) : z = a \o b
      BY ConcatProperties
    <3>6. PICK s \in Seq(Names) : s = u \o z
      BY ConcatProperties
    <3>7. s # <<>> /\ Tail(s) = z
      <4>1. Len(u) = 1 /\ Len(s) = Len(u) + Len(z) /\ Len(z) \in Nat
            /\ \A i \in 1..(Len(u) + Len(z)) : s[i] = IF i <= Len(u) THEN u[i] ELSE z[i - Len(u)]
        BY <3>2, <3>6, ConcatProperties, LenProperties
      <4>2. Len(s) = 1 + Len(z) /\ s # <<>>
        BY <4>1, EmptySeq
      <4>3. /\ Tail(s) \in Seq(Names) /\ Len(Tail(s)) = Len(s) - 1
            /\ \A i \in 1..Len(Tail(s)) : Tail(s)[i] = s[i + 1]
        BY <4>2, HeadTailProperties
      <4>4. PICK y \in Seq(Names) : y = Tail(s)
        BY <4>3
      <4>5. Len(y) = Len(z)
        BY <4>1, <4>2, <4>3, <4>4
      <4>6. \A i \in 1..Len(y) : y[i] = z[i]
        <5> TAKE i \in 1..Len(y)
        <5>1. i + 1 \in 1..(Len(u) + Len(z)) /\ ~(i + 1 <= Len(u)) /\ (i + 1) - Len(u) = i
          BY <4>1, <4>5
        <5> QED
          BY <4>1, <4>3, <4>4, <5>1
      <4>7. y = z
        BY <4>5, <4>6, SeqEqual
      <4> QED
        BY <4>2, <4>4, <4>7
    <3> QED
      BY <2>2, <2>6, <3>3, <3>4, <3>5, <3>6, <3>7
  <2> QED
    BY <2>5, <2>6
<1>8. PICK old, new : old = Expiring /\ new = Expiring'
  OBVIOUS
<1>9. /\ new # old /\ t \in DOMAIN old
      /\ new = IF Len(old[t]) = 1 THEN [f \in DOMAIN old \ {t} |-> old[f]]
               ELSE [old EXCEPT ![t] = Tail(@)]
  <2>1. c[t] # <<>> /\ \A e \in Ticks : g[e] = IF t = e THEN Tail(c[e]) ELSE c[e]
    BY <1>7
  <2>2. LET a == AlarmOf(c)
            b == AlarmOf(g)
        IN  /\ b # a /\ t \in DOMAIN a
            /\ b = IF Len(a[t]) = 1 THEN [f \in DOMAIN a \ {t} |-> a[f]]
                   ELSE [a EXCEPT ![t] = Tail(@)]
    BY <2>1, AlarmRing
  <2> QED
    BY <1>5, <1>6, <1>8, <2>2
<1> QED
  BY <1>2, <1>3, <1>8, <1>9 DEF Core!Ring

\* timer_update is a tick of the alarm, or nothing.
LEMMA UpdateTicks ==
  ASSUME WheelOK, TimerUpdate
  PROVE  Core!TickOver \/ UNCHANGED <<time, Expiring>>
<1>1. /\ WheelOK'
      /\ \A e \in Ticks : Coming(e)' = Coming(e)
      /\ \/ time' = time
         \/ time' = (time + 1) % Width /\ Coming(time) = <<>>
  BY WheelUpdate
<1>2. PICK c \in Alarms : (\A e \in Ticks : c[e] = Coming(e)) /\ Expiring = AlarmOf(c)
  BY ComingIs
<1>3. PICK g \in Alarms : (\A e \in Ticks : g[e] = Coming(e)') /\ Expiring' = AlarmOf(g)
  BY <1>1, ComingIsNext
<1>4. g = c
  <2>1. \A e \in Ticks : g[e] = c[e]
    BY <1>1, <1>2, <1>3
  <2> QED
    BY <2>1 DEF Alarms
<1>5. Expiring' = Expiring
  BY <1>2, <1>3, <1>4
<1>6. Coming(time) = <<>> => time \notin DOMAIN Expiring
  <2>1. time \in Ticks
    BY DEF WheelOK
  <2> QED
    BY <1>2, <2>1 DEF AlarmOf, Rings
<1> QED
  BY <1>1, <1>5, <1>6 DEF Core!TickOver

\* What leaves the lists and the tick alone leaves the alarm alone.
LEMMA StaysStill ==
  ASSUME UNCHANGED <<time, near, wheel, run>>
  PROVE  UNCHANGED <<time, Expiring>>
<1>1. Table' = Table
  BY TableSame
<1>2. Expiring' = Expiring
  BY <1>1 DEF Expiring, Coming
<1> QED
  BY <1>2

\* The wheel of the core's timer is an alarm: an event rings in the tick it was
\* set to, after those set to this tick before it, and no event is lost, also
\* when the counter of ticks wraps.
THEOREM WheelIsAlarm == Spec => ImplementsAlarm
<1> DEFINE Inv == WheelOK /\ LuaOK
<1>1. Init => Inv /\ Core!AlarmInit
  <2> SUFFICES ASSUME Init PROVE Inv /\ Core!AlarmInit
    OBVIOUS
  <2>1. Inv
    BY InitOK
  <2>2. PICK c \in Alarms : (\A e \in Ticks : c[e] = Coming(e)) /\ Expiring = AlarmOf(c)
    BY <2>1, ComingIs
  <2>3. ASSUME NEW e \in Ticks
        PROVE  Coming(e) = <<>>
    <3>1. ListAt(Table, Place(e, time)) = <<>>
      <4>1. Place(e, time) \in Places
        BY <2>1, PlaceIs DEF WheelOK
      <4> QED
        BY <4>1 DEF Places, ListAt, Table, Init, TimerInit
    <3>2. run = <<>>
      BY DEF Init, TimerInit
    <3>3. EventsAt(<<>>, e) = <<>> /\ <<>> \o <<>> = <<>>
      BY EventsEmpty
    <3> QED
      BY <3>1, <3>2, <3>3 DEF Coming
  <2>4. Rings(c) = {}
    BY <2>2, <2>3 DEF Rings
  <2>5. Expiring = [e \in {} |-> <<>>]
    BY <2>2, <2>4 DEF AlarmOf
  <2>6. time = 0
    BY DEF Init, TimerInit
  <2> QED
    BY <2>1, <2>5, <2>6 DEF Core!AlarmInit
<1>2. Inv /\ [Next]_vars => Inv'
  BY NextKeeps
<1>3. Inv /\ [Next]_vars => [Core!AlarmNext]_(Core!alarmVars)
  <2> SUFFICES ASSUME Inv, [Next]_vars
               PROVE  Core!Set \/ Core!Ring \/ Core!TickOver \/ UNCHANGED <<time, Expiring>>
    BY DEF Core!AlarmNext, Core!alarmVars
  <2>1. ASSUME NEW d \in 1..MaxLag, ClockMoves(d)
        PROVE  UNCHANGED <<time, Expiring>>
    BY <2>1, StaysStill DEF ClockMoves, UpdateTime
  <2>2. CASE Turn
    BY <2>2, UpdateTicks DEF Turn
  <2>3. CASE PushResponse
    BY <2>3, HeadRings DEF PushResponse
  <2>4. ASSUME NEW d \in Delay, OtherTimeout(d)
        PROVE  Core!Set
    <3>1. d \in 1..(Width \div 2 - 1) /\ "other" \in Names /\ TimerAdd("other", d)
      BY <2>4, DelayBound DEF Names, OtherTimeout
    <3> QED
      BY <3>1, AddSets
  <2>5. CASE UNCHANGED timerVars
    BY <2>5, StaysStill DEF timerVars
  <2>6. CASE Ask
    <3>1. CASE intvl = 0
      BY <2>5, <2>6, <3>1 DEF Ask
    <3>2. CASE intvl # 0
      <4>1. TimerAdd("own", intvl) /\ intvl \in 0..(Width \div 2 - 1)
        BY <2>6, <3>2 DEF Ask, LuaOK
      <4>2. PICK d \in 1..(Width \div 2 - 1) : d = intvl
        BY <3>2, <4>1, HalfIs
      <4>3. "own" \in Names /\ TimerAdd("own", d)
        BY <4>1, <4>2 DEF Names
      <4> QED
        BY <4>3, AddSets
    <3> QED
      BY <3>1, <3>2
  <2>7. CASE \E k \in Key : TimerRemove(k) \/ \E d \in Intvl : PushEnds(k, d)
    BY <2>5, <2>7 DEF TimerRemove, PushEnds
  <2>8. CASE Serve \/ Call \/ Return \/ Yield \/ LoopEnds \/ \E n \in Late : Resume(n)
    BY <2>5, <2>8 DEF Serve, Call, Return, Yield, LoopEnds, Resume
  <2>9. CASE UNCHANGED vars
    BY <2>5, <2>9 DEF vars
  <2> QED
    BY <2>1, <2>2, <2>3, <2>4, <2>6, <2>7, <2>8, <2>9 DEF Next
<1> HIDE DEF Inv
<1> QED
  BY <1>1, <1>2, <1>3, PTL DEF Spec, ImplementsAlarm, Core!AlarmSpec

=============================================================================
