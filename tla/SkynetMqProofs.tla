--------------------------- MODULE SkynetMqProofs ---------------------------
(* The ring of skynet_mq.c is a first-in first-out queue: a push appends to  *)
(* the messages it holds, also when the ring wraps or doubles, and a pop     *)
(* takes the oldest one.                                                     *)
EXTENDS SkynetMq, SequenceTheorems, TLAPS

\* A queue whose indices lie in its ring (which so has an entry at least).
Sound(k) == k \in Queue /\ k.head < Cap(k) /\ k.tail < Cap(k)

-----------------------------------------------------------------------------
(* Indices of a ring of n entries, counted from 0: where the i-th message    *)
(* from head h is (counted from 1), how many there are up to tail t, and the *)
(* index after i.                                                            *)
Place(n, h, i) == IF h + i <= n THEN h + i ELSE h + i - n
Distance(n, h, t) == IF h <= t THEN t - h ELSE t + n - h
NextIndex(n, i) == IF i + 1 >= n THEN 0 ELSE i + 1

LEMMA ModPlace ==
  ASSUME NEW n \in Nat \ {0}, NEW h \in 0..(n - 1), NEW i \in 1..n
  PROVE  ((h + i - 1) % n) + 1 = Place(n, h, i) /\ Place(n, h, i) \in 1..n
<1> DEFINE x == h + i - 1
<1>1. CASE x < n
  <2>1. x % n = x
    BY <1>1
  <2> QED
    BY <1>1, <2>1 DEF Place
<1>2. CASE x >= n
  <2>1. x % n = x - n
    BY <1>2
  <2> QED
    BY <1>2, <2>1 DEF Place
<1> QED
  BY <1>1, <1>2

\* Fewer messages than entries; none exactly when the indices meet.
LEMMA Distances ==
  ASSUME NEW n \in Nat \ {0}, NEW h \in 0..(n - 1), NEW t \in 0..(n - 1)
  PROVE  Distance(n, h, t) \in 0..(n - 1) /\ (Distance(n, h, t) = 0 <=> h = t)
BY DEF Distance

\* One more message: the ring is full when the tail has come round to the head.
LEMMA PushIndex ==
  ASSUME NEW n \in Nat \ {0}, NEW h \in 0..(n - 1), NEW t \in 0..(n - 1)
  PROVE  /\ NextIndex(n, t) \in 0..(n - 1)
         /\ h = NextIndex(n, t) => Distance(n, h, t) + 1 = n
         /\ h # NextIndex(n, t) => Distance(n, h, NextIndex(n, t)) = Distance(n, h, t) + 1
BY DEF Distance, NextIndex

\* It takes the place behind the last one.
LEMMA PushPlace ==
  ASSUME NEW n \in Nat \ {0}, NEW h \in 0..(n - 1), NEW t \in 0..(n - 1)
  PROVE  Place(n, h, Distance(n, h, t) + 1) = t + 1
BY DEF Place, Distance

LEMMA OtherPlaces ==
  ASSUME NEW n \in Nat \ {0}, NEW h \in 0..(n - 1), NEW t \in 0..(n - 1)
  PROVE  \A i \in 1..Distance(n, h, t) : Place(n, h, i) # t + 1
BY DEF Place, Distance

\* Without the first message the others move up by one.
LEMMA PopPlaces ==
  ASSUME NEW n \in Nat \ {0}, NEW h \in 0..(n - 1), NEW t \in 0..(n - 1), h # t
  PROVE  /\ Distance(n, h, t) \in 1..(n - 1) /\ NextIndex(n, h) \in 0..(n - 1)
         /\ Distance(n, NextIndex(n, h), t) = Distance(n, h, t) - 1
         /\ Place(n, h, 1) = h + 1
         /\ \A i \in 1..(Distance(n, h, t) - 1) :
               /\ Place(n, NextIndex(n, h), i) = Place(n, h, i + 1)
               /\ Place(n, h, i + 1) # h + 1
BY DEF Place, Distance, NextIndex

-----------------------------------------------------------------------------
(* What a queue holds                                                        *)

LEMMA SoundParts ==
  ASSUME NEW k, Sound(k)
  PROVE  /\ k \in Queue /\ Cap(k) \in Nat \ {0} /\ Cap(k) = Len(k.ring)
         /\ k.head \in 0..(Cap(k) - 1) /\ k.tail \in 0..(Cap(k) - 1)
         /\ k.ring \in Seq(Msg \cup {Nil})
         /\ QueueLength(k) = Distance(Cap(k), k.head, k.tail)
         /\ \A i : After(k, i) = NextIndex(Cap(k), i)
BY DEF Sound, Queue, Cap, QueueLength, Distance, After, NextIndex

\* The messages of a queue are a sequence, empty when the indices meet, and
\* this is where they are in its ring.
LEMMA PendingMessages ==
  ASSUME NEW k, Sound(k)
  PROVE  /\ QueueLength(k) \in 0..(Cap(k) - 1)
         /\ Pending(k) \in Seq(Msg \cup {Nil})
         /\ Len(Pending(k)) = QueueLength(k)
         /\ IsEmpty(k) <=> QueueLength(k) = 0
         /\ IsEmpty(k) <=> Pending(k) = <<>>
         /\ \A i \in 1..QueueLength(k) : Pending(k)[i] = k.ring[Place(Cap(k), k.head, i)]
<1> DEFINE n == Cap(k)
           L == QueueLength(k)
<1>1. n \in Nat \ {0} /\ n = Len(k.ring) /\ k.head \in 0..(n - 1) /\ k.tail \in 0..(n - 1)
      /\ k.ring \in Seq(Msg \cup {Nil}) /\ L = Distance(n, k.head, k.tail)
  BY SoundParts
<1>2. L \in 0..(n - 1) /\ (IsEmpty(k) <=> L = 0)
  <2> DEFINE h == k.head
             t == k.tail
  <2>1. n \in Nat \ {0} /\ h \in 0..(n - 1) /\ t \in 0..(n - 1) /\ L = Distance(n, h, t)
    BY <1>1
  <2>2. IsEmpty(k) <=> h = t
    BY DEF IsEmpty
  <2> HIDE DEF n, L, h, t
  <2>3. L \in 0..(n - 1)
    BY <2>1, Distances
  <2>4. L = 0 <=> h = t
    BY <2>1, Distances
  <2> QED
    BY <2>2, <2>3, <2>4
<1>3. Pending(k) = [i \in 1..L |-> k.ring[((k.head + i - 1) % n) + 1]]
  BY DEF Pending
<1> HIDE DEF n, L
<1>4. ASSUME NEW i \in 1..L
      PROVE  /\ Pending(k)[i] = k.ring[Place(n, k.head, i)]
             /\ Pending(k)[i] \in Msg \cup {Nil}
  <2>1. i \in 1..n
    BY <1>1, <1>2
  <2>2. ((k.head + i - 1) % n) + 1 = Place(n, k.head, i) /\ Place(n, k.head, i) \in 1..Len(k.ring)
    BY <1>1, <2>1, ModPlace
  <2>3. Pending(k)[i] = k.ring[((k.head + i - 1) % n) + 1]
    BY <1>3
  <2>4. k.ring[Place(n, k.head, i)] \in Msg \cup {Nil}
    BY <1>1, <2>2, ElementOfSeq
  <2> QED
    BY <2>2, <2>3, <2>4
<1>5. Pending(k) \in [1..L -> Msg \cup {Nil}]
  BY <1>3, <1>4
<1>6. Pending(k) \in Seq(Msg \cup {Nil}) /\ Len(Pending(k)) = L
  BY <1>2, <1>5, SeqDef
<1> QED
  BY <1>2, <1>4, <1>6, EmptySeq DEF n, L

\* A new queue is empty.
LEMMA NewQueueSound ==
  /\ Sound(NewQueue) /\ Pending(NewQueue) = <<>>
  /\ NewQueue.st = "live" /\ ~NewQueue.release /\ NewQueue.inGlobal
<1>1. NewQueue.ring \in Seq(Msg \cup {Nil}) /\ Len(NewQueue.ring) = RingSize
  <2>1. NewQueue.ring \in [1..RingSize -> Msg \cup {Nil}]
    BY DEF NewQueue
  <2> QED
    BY <2>1, SeqDef, RingSizePositive
<1>2. Sound(NewQueue) /\ IsEmpty(NewQueue)
  BY <1>1, RingSizePositive DEF Sound, NewQueue, Queue, Cap, IsEmpty
<1> QED
  BY <1>2, PendingMessages DEF NewQueue

\* So is the memory of no queue.
LEMMA NoQueueSound ==
  ASSUME NEW st \in {"none", "live", "freed"}
  PROVE  /\ Sound(NoQueue(st)) /\ Pending(NoQueue(st)) = <<>>
         /\ NoQueue(st).st = st /\ ~NoQueue(st).release /\ ~NoQueue(st).inGlobal
<1>1. NewQueue \in Queue /\ NewQueue.head = 0 /\ NewQueue.tail = 0 /\ ~NewQueue.release
      /\ 0 < Len(NewQueue.ring)
  BY NewQueueSound DEF Sound, NewQueue, Cap
<1> HIDE DEF NewQueue
<1>2. NoQueue(st) \in Queue /\ NoQueue(st).st = st /\ ~NoQueue(st).release
      /\ ~NoQueue(st).inGlobal /\ NoQueue(st).head = 0 /\ NoQueue(st).tail = 0
      /\ NoQueue(st).ring = NewQueue.ring
  BY <1>1 DEF NoQueue, Queue
<1>3. Sound(NoQueue(st)) /\ IsEmpty(NoQueue(st))
  BY <1>1, <1>2 DEF Sound, Cap, IsEmpty
<1> QED
  BY <1>2, <1>3, PendingMessages

\* expand_queue, of a ring that is full (head = tail).
LEMMA ExpandedSound ==
  ASSUME NEW k \in Queue, k.head = k.tail, k.head < Cap(k)
  PROVE  /\ Sound(Expanded(k)) /\ QueueLength(Expanded(k)) = Cap(k)
         /\ Expanded(k).st = k.st /\ Expanded(k).release = k.release
         /\ Expanded(k).inGlobal = k.inGlobal
         /\ \A i \in 1..Cap(k) :
               Pending(Expanded(k))[i] = k.ring[Place(Cap(k), k.head, i)]
<1> DEFINE n == Cap(k)
           e == Expanded(k)
           R == [i \in 1..(2 * n) |->
                    IF i <= n THEN k.ring[((k.head + i - 1) % n) + 1] ELSE Nil]
<1>1. /\ n \in Nat \ {0} /\ n = Len(k.ring) /\ k.head \in 0..(n - 1)
      /\ k.ring \in Seq(Msg \cup {Nil})
  BY SoundParts DEF Sound
<1>2. e = [k EXCEPT !.ring = R, !.head = 0, !.tail = n]
  BY DEF Expanded
<1> HIDE DEF n, e
<1>3. ASSUME NEW i \in 1..n
      PROVE  R[i] = k.ring[Place(n, k.head, i)] /\ R[i] \in Msg \cup {Nil}
  <2>1. ((k.head + i - 1) % n) + 1 = Place(n, k.head, i) /\ Place(n, k.head, i) \in 1..Len(k.ring)
    BY <1>1, ModPlace
  <2>2. i \in 1..(2 * n) /\ i <= n
    BY <1>1
  <2>3. R[i] = k.ring[((k.head + i - 1) % n) + 1]
    BY <2>2
  <2>4. k.ring[Place(n, k.head, i)] \in Msg \cup {Nil}
    BY <1>1, <2>1, ElementOfSeq
  <2> QED
    BY <2>1, <2>3, <2>4
<1>4. R \in [1..(2 * n) -> Msg \cup {Nil}]
  <2> SUFFICES ASSUME NEW i \in 1..(2 * n)
               PROVE  R[i] \in Msg \cup {Nil}
    OBVIOUS
  <2>1. CASE i \in 1..n
    BY <1>3, <2>1
  <2>2. CASE i \notin 1..n
    BY <1>1, <2>2
  <2> QED
    BY <2>1, <2>2
<1>5. R \in Seq(Msg \cup {Nil}) /\ Len(R) = 2 * n
  BY <1>1, <1>4, SeqDef
<1> HIDE DEF R
<1>6. /\ e.ring = R /\ e.head = 0 /\ e.tail = n /\ e \in Queue
      /\ e.st = k.st /\ e.release = k.release /\ e.inGlobal = k.inGlobal
  BY <1>1, <1>2, <1>5 DEF Queue
<1>7. Sound(e) /\ QueueLength(e) = n
  BY <1>1, <1>5, <1>6 DEF Sound, Cap, QueueLength
<1>8. ASSUME NEW i \in 1..n
      PROVE  Pending(e)[i] = k.ring[Place(n, k.head, i)]
  <2>1. Place(Cap(e), e.head, i) = i
    BY <1>1, <1>5, <1>6 DEF Place, Cap
  <2>2. Pending(e)[i] = e.ring[Place(Cap(e), e.head, i)]
    BY <1>7, PendingMessages
  <2> QED
    BY <1>3, <1>6, <2>1, <2>2
<1> QED
  BY <1>6, <1>7, <1>8 DEF e, n

-----------------------------------------------------------------------------
\* skynet_mq_push appends to the queue, whether the ring wraps, doubles, or neither.
THEOREM PushAppends ==
  ASSUME NEW k, Sound(k), NEW m \in Msg \cup {Nil}
  PROVE  /\ Sound(Pushed(k, m))
         /\ Pending(Pushed(k, m)) = Append(Pending(k), m)
         /\ Pushed(k, m).st = k.st /\ Pushed(k, m).release = k.release
         /\ Pushed(k, m).inGlobal = k.inGlobal
<1> DEFINE n == Cap(k)
           L == QueueLength(k)
           R == [k.ring EXCEPT ![k.tail + 1] = m]
           put == [k EXCEPT !.ring[k.tail + 1] = m, !.tail = After(k, k.tail)]
           p == Pushed(k, m)
<1>1. /\ n \in Nat \ {0} /\ n = Len(k.ring) /\ k.head \in 0..(n - 1) /\ k.tail \in 0..(n - 1)
      /\ k \in Queue /\ k.ring \in Seq(Msg \cup {Nil})
      /\ L = Distance(n, k.head, k.tail) /\ After(k, k.tail) = NextIndex(n, k.tail)
  BY SoundParts
<1>2. put = [k EXCEPT !.ring = R, !.tail = NextIndex(n, k.tail)]
  BY <1>1 DEF Queue
<1>3. p = IF put.head = put.tail THEN Expanded(put) ELSE put
  BY DEF Pushed
<1>4. /\ Pending(k) \in Seq(Msg \cup {Nil}) /\ Len(Pending(k)) = L
      /\ \A i \in 1..L : Pending(k)[i] = k.ring[Place(n, k.head, i)]
  BY PendingMessages
<1> HIDE DEF n, L, put, p
<1>5. /\ L \in 0..(n - 1) /\ NextIndex(n, k.tail) \in 0..(n - 1)
      /\ k.head = NextIndex(n, k.tail) => L + 1 = n
      /\ k.head # NextIndex(n, k.tail) => Distance(n, k.head, NextIndex(n, k.tail)) = L + 1
      /\ \A i \in 1..L : Place(n, k.head, i) # k.tail + 1
      /\ Place(n, k.head, L + 1) = k.tail + 1
  <2> DEFINE h == k.head
             t == k.tail
  <2>1. n \in Nat \ {0} /\ h \in 0..(n - 1) /\ t \in 0..(n - 1) /\ L = Distance(n, h, t)
    BY <1>1
  <2> HIDE DEF h, t
  <2>2. L \in 0..(n - 1)
    BY <2>1, Distances
  <2>3. /\ NextIndex(n, t) \in 0..(n - 1)
        /\ h = NextIndex(n, t) => L + 1 = n
        /\ h # NextIndex(n, t) => Distance(n, h, NextIndex(n, t)) = L + 1
    BY <2>1, PushIndex
  <2>4. Place(n, h, L + 1) = t + 1
    BY <2>1, PushPlace
  <2>5. \A i \in 1..L : Place(n, h, i) # t + 1
    BY <2>1, OtherPlaces
  <2> QED
    BY <2>2, <2>3, <2>4, <2>5 DEF h, t
<1>6. /\ R \in Seq(Msg \cup {Nil}) /\ Len(R) = n
      /\ \A j \in 1..n : R[j] = IF j = k.tail + 1 THEN m ELSE k.ring[j]
  <2>1. k.tail + 1 \in 1..Len(k.ring)
    BY <1>1
  <2> QED
    BY <1>1, <2>1, ExceptSeq
<1> HIDE DEF R
<1>7. /\ put.ring = R /\ put.head = k.head /\ put.tail = NextIndex(n, k.tail) /\ put \in Queue
      /\ put.st = k.st /\ put.release = k.release /\ put.inGlobal = k.inGlobal
  <2> DEFINE T == NextIndex(n, k.tail)
  <2>1. k \in Queue /\ R \in Seq(Msg \cup {Nil}) /\ T \in Nat
    BY <1>1, <1>5, <1>6
  <2>2. put = [k EXCEPT !.ring = R, !.tail = T]
    BY <1>2
  <2> HIDE DEF T
  <2>3. /\ put.ring = R /\ put.head = k.head /\ put.tail = T /\ put \in Queue
        /\ put.st = k.st /\ put.release = k.release /\ put.inGlobal = k.inGlobal
    BY <2>1, <2>2 DEF Queue
  <2> QED
    BY <2>3 DEF T
<1>8. Cap(put) = n /\ put.head < n /\ put.tail < n
  BY <1>1, <1>5, <1>6, <1>7 DEF Cap
<1>9. /\ Sound(p) /\ QueueLength(p) = L + 1
      /\ p.st = k.st /\ p.release = k.release /\ p.inGlobal = k.inGlobal
      /\ \A i \in 1..(L + 1) : Pending(p)[i] = R[Place(n, k.head, i)]
  <2>1. CASE put.head = put.tail
    <3>1. L + 1 = n /\ p = Expanded(put)
      BY <1>3, <1>5, <1>7, <2>1
    <3> QED
      BY <1>7, <1>8, <2>1, <3>1, ExpandedSound
  <2>2. CASE put.head # put.tail
    <3>1. p = put /\ Sound(p) /\ Distance(n, k.head, NextIndex(n, k.tail)) = L + 1
      BY <1>3, <1>5, <1>7, <1>8, <2>2 DEF Sound
    <3>2. QueueLength(p) = L + 1
      BY <1>7, <1>8, <3>1, SoundParts
    <3> QED
      BY <1>7, <1>8, <3>1, <3>2, PendingMessages
  <2> QED
    BY <2>1, <2>2
<1>10. Pending(p) \in Seq(Msg \cup {Nil}) /\ Len(Pending(p)) = L + 1
  BY <1>9, PendingMessages
<1>11. /\ Append(Pending(k), m) \in Seq(Msg \cup {Nil}) /\ Len(Append(Pending(k), m)) = L + 1
       /\ \A i \in 1..L : Append(Pending(k), m)[i] = Pending(k)[i]
       /\ Append(Pending(k), m)[L + 1] = m
  BY <1>4, AppendProperties
<1>12. ASSUME NEW i \in 1..(L + 1)
       PROVE  Pending(p)[i] = Append(Pending(k), m)[i]
  <2>1. i \in 1..n
    BY <1>1, <1>5
  <2>2. Place(n, k.head, i) \in 1..n
    BY <1>1, <2>1, ModPlace
  <2>3. Pending(p)[i] = IF Place(n, k.head, i) = k.tail + 1 THEN m ELSE k.ring[Place(n, k.head, i)]
    BY <1>6, <1>9, <2>2
  <2>4. CASE i \in 1..L
    <3>1. Place(n, k.head, i) # k.tail + 1
      BY <1>5, <2>4
    <3>2. Append(Pending(k), m)[i] = k.ring[Place(n, k.head, i)]
      BY <1>4, <1>11, <2>4
    <3> QED
      BY <2>3, <3>1, <3>2
  <2>5. CASE i = L + 1
    <3>1. Place(n, k.head, i) = k.tail + 1
      BY <1>5, <2>5
    <3> QED
      BY <1>11, <2>3, <2>5, <3>1
  <2>6. L \in Nat
    BY <1>5
  <2>7. i \in 1..L \/ i = L + 1
    BY <2>6
  <2> QED
    BY <2>4, <2>5, <2>7
<1>13. Pending(p) = Append(Pending(k), m)
  BY <1>10, <1>11, <1>12, SeqEqual
<1> QED
  BY <1>9, <1>13 DEF p

\* skynet_mq_pop takes the oldest message.
THEOREM PopTakesOldest ==
  ASSUME NEW k, Sound(k), ~IsEmpty(k)
  PROVE  /\ Sound(Popped(k))
         /\ Pending(k) # <<>> /\ Oldest(k) = Head(Pending(k))
         /\ Pending(Popped(k)) = Tail(Pending(k))
         /\ Popped(k).st = k.st /\ Popped(k).release = k.release
         /\ Popped(k).inGlobal = k.inGlobal
<1> DEFINE n == Cap(k)
           L == QueueLength(k)
           R == [k.ring EXCEPT ![k.head + 1] = Nil]
           p == Popped(k)
<1>1. /\ n \in Nat \ {0} /\ n = Len(k.ring) /\ k.head \in 0..(n - 1) /\ k.tail \in 0..(n - 1)
      /\ k \in Queue /\ k.ring \in Seq(Msg \cup {Nil})
      /\ L = Distance(n, k.head, k.tail) /\ After(k, k.head) = NextIndex(n, k.head)
      /\ k.head # k.tail
  BY SoundParts DEF IsEmpty
<1>2. p = [k EXCEPT !.ring = R, !.head = NextIndex(n, k.head)]
  BY <1>1 DEF Queue, Popped
<1>3. /\ Pending(k) \in Seq(Msg \cup {Nil}) /\ Len(Pending(k)) = L /\ Pending(k) # <<>>
      /\ \A i \in 1..L : Pending(k)[i] = k.ring[Place(n, k.head, i)]
  BY PendingMessages
<1> HIDE DEF n, L, p
<1>4. /\ L \in 1..(n - 1) /\ NextIndex(n, k.head) \in 0..(n - 1)
      /\ Distance(n, NextIndex(n, k.head), k.tail) = L - 1
      /\ Place(n, k.head, 1) = k.head + 1
      /\ \A i \in 1..(L - 1) :
            /\ Place(n, NextIndex(n, k.head), i) = Place(n, k.head, i + 1)
            /\ Place(n, k.head, i + 1) # k.head + 1
  BY <1>1, PopPlaces
<1>5. /\ R \in Seq(Msg \cup {Nil}) /\ Len(R) = n
      /\ \A j \in 1..n : R[j] = IF j = k.head + 1 THEN Nil ELSE k.ring[j]
  <2>1. k.head + 1 \in 1..Len(k.ring)
    BY <1>1
  <2> QED
    BY <1>1, <2>1, ExceptSeq
<1> HIDE DEF R
<1>6. /\ p.ring = R /\ p.head = NextIndex(n, k.head) /\ p.tail = k.tail /\ p \in Queue
      /\ p.st = k.st /\ p.release = k.release /\ p.inGlobal = k.inGlobal
  <2> DEFINE H == NextIndex(n, k.head)
  <2>1. k \in Queue /\ R \in Seq(Msg \cup {Nil}) /\ H \in Nat
    BY <1>1, <1>4, <1>5
  <2>2. p = [k EXCEPT !.ring = R, !.head = H]
    BY <1>2
  <2> HIDE DEF H
  <2>3. /\ p.ring = R /\ p.head = H /\ p.tail = k.tail /\ p \in Queue
        /\ p.st = k.st /\ p.release = k.release /\ p.inGlobal = k.inGlobal
    BY <2>1, <2>2 DEF Queue
  <2> QED
    BY <2>3 DEF H
<1>7. Cap(p) = n /\ Sound(p)
  BY <1>1, <1>4, <1>5, <1>6 DEF Cap, Sound
<1>8. QueueLength(p) = L - 1
  BY <1>4, <1>6, <1>7, SoundParts
<1>9. /\ Pending(p) \in Seq(Msg \cup {Nil}) /\ Len(Pending(p)) = L - 1
      /\ \A i \in 1..(L - 1) : Pending(p)[i] = R[Place(n, NextIndex(n, k.head), i)]
  BY <1>6, <1>7, <1>8, PendingMessages
<1>10. Oldest(k) = Head(Pending(k))
  <2>1. Head(Pending(k)) = Pending(k)[1] /\ 1 \in 1..L
    BY <1>1, <1>3, <1>4
  <2> QED
    BY <1>3, <1>4, <2>1 DEF Oldest
<1>11. /\ Tail(Pending(k)) \in Seq(Msg \cup {Nil}) /\ Len(Tail(Pending(k))) = L - 1
       /\ \A i \in 1..(L - 1) : Tail(Pending(k))[i] = Pending(k)[i + 1]
  BY <1>3, HeadTailProperties
<1>12. ASSUME NEW i \in 1..(L - 1)
       PROVE  Pending(p)[i] = Tail(Pending(k))[i]
  <2>1. i + 1 \in 1..L /\ i + 1 \in 1..n
    BY <1>1, <1>4
  <2>2. Place(n, k.head, i + 1) \in 1..n
    BY <1>1, <2>1, ModPlace
  <2> QED
    BY <1>3, <1>4, <1>5, <1>9, <1>11, <2>1, <2>2
<1>13. Pending(p) = Tail(Pending(k))
  BY <1>9, <1>11, <1>12, SeqEqual
<1> QED
  BY <1>3, <1>6, <1>7, <1>10, <1>13 DEF p

=============================================================================
