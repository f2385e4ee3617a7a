------------------------------ MODULE MinHeap -------------------------------
(* The heap of minheap.lua: nodes in an array, ordered by value, and the     *)
(* index that finds the node of a key (function and arguments) in it.        *)
EXTENDS Integers, Sequences

CONSTANTS Key

\* index[k] is 0 when k is not in the heap.
EmptyHeap == [nodes |-> <<>>, index |-> [k \in Key |-> 0]]

Size(h) == Len(h.nodes)

Value(h, i) == h.nodes[i].value

\* Two nodes change places, in the array and in the index.
Swap(h, i, j) ==
    [nodes |-> [h.nodes EXCEPT ![i] = h.nodes[j], ![j] = h.nodes[i]],
     index |-> [h.index EXCEPT ![h.nodes[j].key] = i, ![h.nodes[i].key] = j]]

\* A turn of the loop of shift_up, which is at one node of the heap: this node
\* changes places with its parent, unless that is less.
Climb(s) ==
    LET up == s.at \div 2
    IN  IF s.at > 1 /\ Value(s.heap, s.at) <= Value(s.heap, up)
        THEN [heap |-> Swap(s.heap, up, s.at), at |-> up]
        ELSE s

\* The loop is over after i turns at most.
ShiftUp(h, i) ==
    LET turn[n \in 0..i] == IF n = 0 THEN [heap |-> h, at |-> i] ELSE Climb(turn[n - 1])
    IN  turn[i].heap

\* The child to swap with: not greater, and the right one if that is least.
Smallest(h, i) ==
    LET left == IF 2 * i <= Size(h) /\ Value(h, 2 * i) <= Value(h, i) THEN 2 * i ELSE i
    IN  IF 2 * i + 1 <= Size(h) /\ Value(h, 2 * i + 1) <= Value(h, left) THEN 2 * i + 1 ELSE left

\* A turn of the loop of shift_down: the node changes places with that child.
Sink(s) ==
    LET down == Smallest(s.heap, s.at)
    IN  IF down = s.at THEN s ELSE [heap |-> Swap(s.heap, s.at, down), at |-> down]

\* The loop is over after as many turns as there are nodes at most.
ShiftDown(h, i) ==
    LET turn[n \in 0..Size(h)] == IF n = 0 THEN [heap |-> h, at |-> i] ELSE Sink(turn[n - 1])
    IN  turn[Size(h)].heap

RepairUp(h, i) == ShiftUp(h, i)

Repair(h, i) == ShiftDown(ShiftUp(h, i), i)

HeapPush(h, k, v) ==
    IF h.index[k] # 0
    THEN Repair([h EXCEPT !.nodes[h.index[k]].value = v], h.index[k])
    ELSE LET n == Size(h) + 1
         IN  ShiftUp([nodes |-> Append(h.nodes, [key |-> k, value |-> v]),
                      index |-> [h.index EXCEPT ![k] = n]], n)

HeapRemove(h, k) ==
    IF h.index[k] = 0 THEN h
    ELSE LET i == h.index[k]
             last == Size(h)
             moved == IF i = last THEN h ELSE Swap(h, i, last)
             cut == [nodes |-> SubSeq(moved.nodes, 1, last - 1),
                     index |-> [moved.index EXCEPT ![k] = 0]]
         IN  IF i <= Size(cut) THEN Repair(cut, i) ELSE cut

-----------------------------------------------------------------------------
(* What a heap is                                                            *)

Node == [key: Key, value: Int]

Heap == [nodes: Seq(Node), index: [Key -> Nat]]

\* The index leads to the node of each key, and to no other.
Indexed(h) ==
    /\ h \in Heap
    /\ \A i \in 1..Size(h) : h.index[h.nodes[i].key] = i
    /\ \A k \in Key : h.index[k] # 0 => h.index[k] \in 1..Size(h) /\ h.nodes[h.index[k]].key = k

\* A node is not less than its parent.
Edge(h, i) == Value(h, i \div 2) <= Value(h, i)

Ordered(h) == \A i \in 2..Size(h) : Edge(h, i)

Right(h) == Indexed(h) /\ Ordered(h)

=============================================================================
