----------------------------- MODULE SocketWire -----------------------------
(* What goes over the wire, for any number of services, connections, packets *)
(* and pieces: WireInv is inductive, and WireIntact and Flushed follow.      *)
EXTENDS SocketProofs

USE FiniteServices, OwnerSends, NilIsNoService, NilIsNoPacket, Bounds

-----------------------------------------------------------------------------
(* Streams of whole packets                                                  *)

\* The packets of a stream come one after the other.
LEMMA StartNext ==
  ASSUME NEW q \in Int
  PROVE  Start(q) \in Int /\ Start(q + 1) = Start(q) + Pieces /\ Start(1) = 0
BY DEF Start

\* A packet is before another when it ends before that one begins.
LEMMA StartLater ==
  ASSUME NEW q \in Int, NEW m \in Int
  PROVE  q < m <=> Start(q) + Pieces <= Start(m)
BY DEF Start

\* Which packet a piece belongs to.
Block(i) == ((i - 1) \div Pieces) + 1

\* A piece is one of the Pieces of its packet, which begins where the packet
\* does.
LEMMA BlockOf ==
  ASSUME NEW i \in Nat \ {0}
  PROVE  /\ Block(i) \in Nat \ {0}
         /\ i - ((i - 1) % Pieces) = Start(Block(i)) + 1
         /\ i - Start(Block(i)) \in 1..Pieces
BY DEF Block, Start

\* Only the pieces of a packet belong to it.
LEMMA BlockUnique ==
  ASSUME NEW q \in Int, NEW r \in 1..Pieces
  PROVE  Block(Start(q) + r) = q
BY DEF Block, Start

\* A stream of m whole packets has m times Pieces pieces.
LEMMA DividedIs ==
  ASSUME NEW m \in Nat
  PROVE  Start(m + 1) \in Nat /\ Start(m + 1) \div Pieces = m /\ Start(m + 1) % Pieces = 0
BY DEF Start

\* A length that is a multiple of Pieces is that of some whole packets.
LEMMA Divides ==
  ASSUME NEW x \in Nat, x % Pieces = 0
  PROVE  \E m \in Nat : x = Start(m + 1)
<1>1. PICK m \in Nat : x = m * Pieces
  OBVIOUS
<1>2. Start(m + 1) = m * Pieces
  BY DEF Start
<1> QED
  BY <1>1, <1>2

\* The packets of a stream can be read off it.
LEMMA PacketsAre ==
  ASSUME NEW w \in Seq(Packet), NEW Q \in Seq(Packet), InBlocks(w, Q)
  PROVE  Packets(w) = Q
<1>1. Len(Q) \in Nat /\ Len(w) \div Pieces = Len(Q) /\ Q = [i \in 1..Len(Q) |-> Q[i]]
  BY LenProperties, DividedIs DEF InBlocks
<1>2. \A q \in 1..Len(Q) : w[Start(q) + 1] = Q[q]
  BY DEF InBlocks
<1> QED
  BY <1>1, <1>2 DEF Packets

\* The packets of a stream in blocks are packets.
LEMMA PacketsTyped ==
  ASSUME NEW w \in Seq(Packet), InBlocks(w, Packets(w))
  PROVE  Packets(w) \in Seq(Packet)
<1> DEFINE n == Len(w) \div Pieces
<1>1. Len(w) \in Nat /\ n \in Nat
  BY LenProperties
<1>2. Len(Packets(w)) = n
  BY <1>1 DEF Packets
<1>3. Len(w) = Start(n + 1)
  BY <1>2 DEF InBlocks
<1> HIDE DEF n
<1>4. \A q \in 1..n : Start(q) + 1 \in 1..Len(w)
  <2> TAKE q \in 1..n
  <2>0. q \in Int /\ n + 1 \in Int /\ q < n + 1
    BY <1>1
  <2>1. Start(q) + Pieces <= Start(n + 1) /\ Start(q) \in Int
    BY <2>0, StartLater, StartNext
  <2>2. Start(q) >= 0
    <3>1. CASE q = 1
      BY <3>1, StartNext
    <3>2. CASE 1 < q
      BY <1>1, <3>2, StartLater, StartNext
    <3> QED
      BY <1>1, <3>1, <3>2
  <2> QED
    BY <1>1, <1>3, <2>1, <2>2
<1>5. \A q \in 1..n : w[Start(q) + 1] \in Packet
  BY <1>4, ElementOfSeq
<1> QED
  BY <1>1, <1>5 DEF Packets, n

\* Each piece is of the packet of its block.
LEMMA PieceOf ==
  ASSUME NEW w \in Seq(Packet), NEW Q \in Seq(Packet), InBlocks(w, Q), NEW i \in 1..Len(w)
  PROVE  Block(i) \in 1..Len(Q) /\ w[i] = Q[Block(i)]
<1>1. i \in Nat \ {0} /\ Len(Q) \in Nat /\ Len(w) = Start(Len(Q) + 1)
  BY LenProperties DEF InBlocks
<1>2. Block(i) \in Nat \ {0} /\ i - Start(Block(i)) \in 1..Pieces /\ Start(Block(i)) \in Int
  BY <1>1, BlockOf, StartNext
<1>3. Block(i) <= Len(Q)
  <2>0. Len(Q) + 1 \in Int /\ Start(Len(Q) + 1) \in Int
    BY <1>1, StartNext
  <2>1. ~(Start(Len(Q) + 1) + Pieces <= Start(Block(i)))
    BY <1>1, <1>2, <2>0
  <2>2. CASE Block(i) = Len(Q) + 1
    BY <1>1, <1>2, <2>1, <2>2
  <2>3. ~(Len(Q) + 1 < Block(i))
    BY <1>1, <1>2, <2>1, StartLater
  <2> QED
    BY <1>1, <1>2, <2>2, <2>3
<1>4. w[Start(Block(i)) + (i - Start(Block(i)))] = Q[Block(i)]
  BY <1>1, <1>2, <1>3 DEF InBlocks
<1> QED
  BY <1>1, <1>2, <1>3, <1>4

\* A packet is put into a stream between the m-th packet and the next.
LEMMA Inserted ==
  ASSUME NEW w \in Seq(Packet), NEW v \in Seq(Packet), NEW Q \in Seq(Packet), InBlocks(w, Q), InOrder(Q),
         NEW m \in 0..Len(Q), NEW p \in Packet, Len(v) = Len(w) + Pieces,
         \A i \in 1..Len(v) : v[i] = IF i <= Start(m + 1) THEN w[i]
                                    ELSE IF i <= Start(m + 1) + Pieces THEN p ELSE w[i - Pieces],
         \A i \in 1..m : Follows(Q[i], p),
         \A i \in (m + 1)..Len(Q) : Follows(p, Q[i])
  PROVE  InBlocks(v, Packets(v)) /\ InOrder(Packets(v))
<1> DEFINE n == Len(Q)
           R == [q \in 1..(n + 1) |-> IF q <= m THEN Q[q] ELSE IF q = m + 1 THEN p ELSE Q[q - 1]]
<1>1. n \in Nat /\ m \in 0..n /\ (\A i \in 1..n : Q[i] \in Packet) /\ Pieces \in Nat \ {0}
  BY LenProperties
<1>2. R \in Seq(Packet) /\ Len(R) = n + 1
  BY <1>1
<1>s. /\ Start(1) = 0 /\ Start(m + 1) \in Int /\ Start(m + 2) = Start(m + 1) + Pieces
      /\ Start(n + 1) \in Int /\ Start(n + 2) = Start(n + 1) + Pieces
      /\ Len(w) = Start(n + 1)
  <2>1. (m + 1) + 1 = m + 2 /\ (n + 1) + 1 = n + 2 /\ m + 1 \in Int /\ n + 1 \in Int
    BY <1>1
  <2>2. \A q \in Int : Start(q) \in Int /\ Start(q + 1) = Start(q) + Pieces /\ Start(1) = 0
    BY StartNext
  <2> QED
    BY <2>1, <2>2 DEF InBlocks
<1>3. InBlocks(v, R)
  <2>1. Len(v) = Start(Len(R) + 1)
    <3>1. Len(R) + 1 = n + 2
      BY <1>1, <1>2
    <3> QED
      BY <1>s, <3>1
  <2>2. ASSUME NEW q \in 1..(n + 1), NEW r \in 1..Pieces
        PROVE  v[Start(q) + r] = R[q]
    <3>0. /\ Start(q) \in Int
          /\ q < m + 1 <=> Start(q) + Pieces <= Start(m + 1)
          /\ m + 1 < q <=> Start(m + 1) + Pieces <= Start(q)
          /\ q < n + 2 <=> Start(q) + Pieces <= Start(n + 2)
          /\ 1 < q => Start(1) + Pieces <= Start(q)
          /\ q = 1 => Start(q) = Start(1)
          /\ q = m + 1 => Start(q) = Start(m + 1)
      <4>1. q \in Int /\ m + 1 \in Int /\ n + 2 \in Int
        BY <1>1
      <4>2. \A x, y \in Int : x < y <=> Start(x) + Pieces <= Start(y)
        BY StartLater
      <4>3. q < m + 1 <=> Start(q) + Pieces <= Start(m + 1)
        BY <4>1, <4>2
      <4>4. m + 1 < q <=> Start(m + 1) + Pieces <= Start(q)
        BY <4>1, <4>2
      <4>5. q < n + 2 <=> Start(q) + Pieces <= Start(n + 2)
        BY <4>1, <4>2
      <4>6. (1 < q => Start(1) + Pieces <= Start(q)) /\ Start(q) \in Int
        BY <4>1, <4>2, StartNext
      <4> QED
        BY <4>3, <4>4, <4>5, <4>6
    <3>q. q <= m => q \in 1..Len(Q) /\ w[Start(q) + r] = Q[q]
      BY <1>1 DEF InBlocks
    <3>2. Start(q) + r \in 1..Len(v)
      <4>1. q = 1 \/ 1 < q
        BY <1>1
      <4>2. Start(q) >= 0 /\ Start(q) \in Int /\ Pieces \in Nat
        BY <1>1, <1>s, <3>0, <4>1
      <4>3. q < n + 2
        BY <1>1
      <4>4. Start(q) + Pieces <= Len(v) /\ Len(v) \in Nat
        <5>1. Len(v) = Start(n + 2) /\ Len(v) \in Nat
          BY <1>s, LenProperties
        <5> QED
          BY <3>0, <4>3, <5>1
      <4> QED
        BY <4>2, <4>4
    <3>3. CASE q <= m
      <4>1. Start(q) + r <= Start(m + 1)
        <5>1. q < m + 1 /\ r <= Pieces /\ r \in Int /\ Pieces \in Int /\ Start(m + 1) \in Int /\ Start(q) \in Int
          BY <1>1, <1>s, <3>0, <3>3
        <5>2. Start(q) + Pieces <= Start(m + 1)
          BY <3>0, <5>1
        <5> QED
          BY <5>1, <5>2
      <4>2. v[Start(q) + r] = w[Start(q) + r]
        BY <3>2, <4>1
      <4> QED
        BY <1>1, <3>3, <4>2, <3>q
    <3>4. CASE q = m + 1
      <4>1. ~(Start(q) + r <= Start(m + 1)) /\ Start(q) + r <= Start(m + 1) + Pieces
        BY <1>1, <1>s, <3>0, <3>4
      <4>2. v[Start(q) + r] = p
        BY <3>2, <4>1
      <4> QED
        BY <1>1, <3>4, <4>2
    <3>5. CASE q > m + 1
      <4>1. /\ ~(Start(q) + r <= Start(m + 1)) /\ ~(Start(q) + r <= Start(m + 1) + Pieces)
            /\ q - 1 \in 1..n
        <5>1. /\ m + 1 < q /\ r >= 1 /\ r \in Int /\ Pieces \in Nat /\ q - 1 \in 1..n
              /\ Start(m + 1) \in Int /\ Start(q) \in Int
          BY <1>1, <1>s, <3>0, <3>5
        <5>2. Start(m + 1) + Pieces <= Start(q)
          BY <3>0, <5>1
        <5> QED
          BY <5>1, <5>2
      <4>2. v[Start(q) + r] = w[(Start(q) + r) - Pieces]
        BY <3>2, <4>1
      <4>x. q - 1 \in Int /\ (q - 1) + 1 = q
        BY <4>1
      <4>y. \A x \in Int : Start(x) \in Int /\ Start(x + 1) = Start(x) + Pieces
        BY StartNext
      <4>3. Start(q) = Start(q - 1) + Pieces /\ Start(q - 1) \in Int
        BY <4>x, <4>y
      <4>4. (Start(q) + r) - Pieces = Start(q - 1) + r
        BY <1>1, <4>3
      <4>5. w[Start(q - 1) + r] = Q[q - 1]
        BY <4>1 DEF InBlocks
      <4> QED
        BY <1>1, <3>5, <4>2, <4>4, <4>5
    <3> QED
      BY <1>1, <3>3, <3>4, <3>5
  <2> QED
    BY <1>2, <2>1, <2>2 DEF InBlocks
<1>4. InOrder(R)
  <2> SUFFICES ASSUME NEW i \in 1..(n + 1), NEW j \in 1..(n + 1), i < j
               PROVE  Follows(R[i], R[j])
    BY <1>2 DEF InOrder
  <2>1. CASE j <= m
    <3>1. i \in 1..n /\ j \in 1..n /\ R[i] = Q[i] /\ R[j] = Q[j]
      BY <1>1, <2>1
    <3> QED
      BY <3>1 DEF InOrder
  <2>2. CASE j = m + 1
    BY <1>1, <2>2
  <2>3. CASE j > m + 1 /\ i <= m
    <3>1. i \in 1..n /\ j - 1 \in 1..n /\ i < j - 1
      BY <1>1, <2>3
    <3> QED
      BY <1>1, <2>3, <3>1 DEF InOrder
  <2>4. CASE j > m + 1 /\ i = m + 1
    <3>1. j - 1 \in (m + 1)..n
      BY <1>1, <2>4
    <3> QED
      BY <1>1, <2>4, <3>1
  <2>5. CASE i > m + 1
    <3>1. i - 1 \in 1..n /\ j - 1 \in 1..n /\ i - 1 < j - 1
      BY <1>1, <2>5
    <3> QED
      BY <1>1, <2>5, <3>1 DEF InOrder
  <2> QED
    BY <1>1, <2>1, <2>2, <2>3, <2>4, <2>5
<1> HIDE DEF R
<1>5. Packets(v) = R
  BY <1>2, <1>3, PacketsAre
<1> QED
  BY <1>3, <1>4, <1>5

\* What WireIntact asks of the pieces that were written to the connection c.
Intact(wr, c) ==
    /\ \A i \in 1..Len(wr) : wr[i].to = c /\ wr[i] = wr[i - ((i - 1) % Pieces)]
    /\ \A i, j \in 1..Len(wr) :
          /\ wr[i] = wr[j] => (i - 1) \div Pieces = (j - 1) \div Pieces
          /\ i < j /\ wr[i].from = wr[j].from /\ ~wr[i].low /\ ~wr[j].low => wr[i].seq <= wr[j].seq

\* WireIntact says of this connection, before and after a step, that its wire
\* is intact.
LEMMA IntactIs ==
  /\ WireIntact <=> (~spoiled => Intact(wire, id))
  /\ WireIntact' <=> (~spoiled' => Intact(wire', id'))
BY DEF WireIntact, Intact

\* What is written of such a stream is so.
LEMMA PrefixIntact ==
  ASSUME NEW w \in Seq(Packet), InBlocks(w, Packets(w)), InOrder(Packets(w)),
         NEW wr \in Seq(Packet), NEW c, Len(wr) <= Len(w), \A i \in 1..Len(wr) : wr[i] = w[i] /\ wr[i].to = c
  PROVE  Intact(wr, c)
<1> DEFINE Q == Packets(w)
<1>q. Q \in Seq(Packet)
  BY PacketsTyped
<1> HIDE DEF Q
<1>0. Len(wr) \in Nat /\ Len(w) \in Nat /\ Len(Q) \in Nat /\ \A q \in 1..Len(Q) : Q[q] \in Packet
  BY <1>q, LenProperties
<1>1. \A i \in 1..Len(wr) : i \in Nat \ {0} /\ Block(i) \in 1..Len(Q) /\ wr[i] = Q[Block(i)]
  <2> TAKE i \in 1..Len(wr)
  <2>1. i \in 1..Len(w) /\ i \in Nat \ {0}
    BY <1>0
  <2> QED
    BY <2>1, <1>q, PieceOf DEF Q
<1>2. ASSUME NEW i \in 1..Len(wr)
      PROVE  wr[i] = wr[i - ((i - 1) % Pieces)]
  <2> DEFINE k == i - ((i - 1) % Pieces)
  <2>1. i \in Nat \ {0} /\ Block(i) \in Nat \ {0}
    BY <1>1
  <2>2. k = Start(Block(i)) + 1 /\ i - Start(Block(i)) \in 1..Pieces /\ Start(Block(i)) \in Int
    BY <2>1, BlockOf, StartNext
  <2>3. Block(k) = Block(i)
    BY <2>1, <2>2, BlockUnique
  <2>4. Start(Block(i)) >= 0
    <3>1. CASE Block(i) = 1
      BY <3>1, StartNext
    <3>2. CASE 1 < Block(i)
      BY <2>1, <2>2, <3>2, StartLater, StartNext
    <3> QED
      BY <2>1, <3>1, <3>2
  <2> HIDE DEF k
  <2>5. k \in 1..Len(wr)
    BY <1>0, <2>2, <2>4
  <2> QED
    BY <1>1, <2>3, <2>5 DEF k
<1>3. ASSUME NEW i \in 1..Len(wr), NEW j \in 1..Len(wr), i < j
      PROVE  Block(i) <= Block(j)
  <2>1. i \in Nat \ {0} /\ j \in Nat \ {0} /\ Block(i) \in Int /\ Block(j) \in Int
    BY <1>1
  <2>2. /\ Start(Block(i)) \in Int /\ i - Start(Block(i)) \in 1..Pieces
        /\ Start(Block(j)) \in Int /\ j - Start(Block(j)) \in 1..Pieces
    BY <2>1, BlockOf, StartNext
  <2>3. Block(j) < Block(i) => Start(Block(j)) + Pieces <= Start(Block(i))
    BY <2>1, StartLater
  <2> QED
    BY <1>3, <2>1, <2>2, <2>3
<1>4. ASSUME NEW i \in 1..Len(wr), NEW j \in 1..Len(wr), wr[i] = wr[j]
      PROVE  (i - 1) \div Pieces = (j - 1) \div Pieces
  <2>1. ~(Block(i) < Block(j)) /\ ~(Block(j) < Block(i))
    BY <1>1, <1>4 DEF InOrder, Follows, Q
  <2>2. Block(i) = Block(j)
    BY <1>0, <1>1, <2>1
  <2>3. (i - 1) \div Pieces \in Int /\ (j - 1) \div Pieces \in Int
    BY <1>1
  <2> QED
    BY <2>2, <2>3 DEF Block
<1>5. ASSUME NEW i \in 1..Len(wr), NEW j \in 1..Len(wr), i < j, wr[i].from = wr[j].from,
             ~wr[i].low, ~wr[j].low
      PROVE  wr[i].seq <= wr[j].seq
  <2>1. wr[i].seq \in Nat /\ wr[j].seq \in Nat
    BY <1>0, <1>1 DEF Packet
  <2>2. CASE Block(i) = Block(j)
    BY <1>1, <2>1, <2>2
  <2>3. CASE Block(i) < Block(j)
    <3>1. Follows(Q[Block(i)], Q[Block(j)])
      BY <1>1, <2>3 DEF InOrder, Q
    <3> QED
      BY <1>1, <1>5, <2>1, <3>1 DEF Follows
  <2> QED
    BY <1>0, <1>1, <1>3, <1>5, <2>2, <2>3
<1> QED
  BY <1>2, <1>4, <1>5 DEF Intact

\* A packet of the stream none of whose pieces is behind what is written was
\* written whole.
LEMMA WrittenWhole ==
  ASSUME NEW w \in Seq(Packet), InBlocks(w, Packets(w)),
         NEW wr \in Seq(Packet), Len(wr) <= Len(w), \A i \in 1..Len(wr) : wr[i] = w[i],
         NEW k \in 1..Len(w), \A i \in (Len(wr) + 1)..Len(w) : w[i] # w[k]
  PROVE  \E i \in 1..Len(wr) : wr[i] = w[k] /\ Len(wr) >= i + Pieces - 1
<1> DEFINE Q == Packets(w)
           q == Block(k)
<1>q. Q \in Seq(Packet)
  BY PacketsTyped
<1>1. q \in 1..Len(Q) /\ w[k] = Q[q] /\ Len(Q) \in Nat
  BY <1>q, PieceOf, LenProperties
<1>2. Len(w) = Start(Len(Q) + 1) /\ \A r \in 1..Pieces : w[Start(q) + r] = Q[q]
  BY <1>1 DEF InBlocks
<1>3. /\ Start(q) \in Int /\ Start(q) >= 0 /\ Start(q) + Pieces <= Start(Len(Q) + 1)
  <2>1. q < Len(Q) + 1 /\ Start(q) \in Int /\ Start(1) = 0 /\ (1 < q => Start(1) + Pieces <= Start(q))
        /\ q \in Int /\ Len(Q) + 1 \in Int
    <3>1. q \in Int /\ Len(Q) + 1 \in Int /\ q < Len(Q) + 1
      BY <1>1
    <3> HIDE DEF q
    <3> QED
      BY <3>1, StartNext, StartLater
  <2>2. Start(q) >= 0
    <3>1. CASE q = 1
      BY <2>1, <3>1
    <3> QED
      BY <1>1, <2>1, <3>1
  <2>3. Start(q) + Pieces <= Start(Len(Q) + 1)
    BY <2>1, StartLater
  <2> QED
    BY <2>1, <2>2, <2>3
<1> HIDE DEF q, Q
<1>4. Len(wr) \in Nat /\ Len(w) \in Nat /\ Pieces \in Nat \ {0}
  BY LenProperties
<1>5. Start(q) + Pieces <= Len(wr)
  <2> SUFFICES ASSUME ~(Start(q) + Pieces <= Len(wr))
               PROVE  FALSE
    OBVIOUS
  <2>1. Start(q) + Pieces \in (Len(wr) + 1)..Len(w)
    BY <1>2, <1>3, <1>4
  <2> QED
    BY <1>1, <1>2, <1>4, <2>1
<1>6. Start(q) + 1 \in 1..Len(wr) /\ wr[Start(q) + 1] = w[Start(q) + 1]
  BY <1>3, <1>4, <1>5
<1>7. w[Start(q) + 1] = w[k]
  BY <1>1, <1>2, <1>4
<1> QED
  BY <1>3, <1>4, <1>5, <1>6, <1>7

-----------------------------------------------------------------------------
(* The numbers of packets                                                    *)

\* What the socket thread and the other end leave alone.
LEMMA ThreadQuiet ==
  ASSUME SocketInv, ThreadStep \/ ReserveId \/ PeerChanges \/ UNCHANGED vars
  PROVE  /\ UNCHANGED <<pc, pk, sent, ended>>
         /\ pipe' = pipe \/ (pipe # <<>> /\ pipe' = Tail(pipe))
<1> DEFINE Goal == /\ UNCHANGED <<pc, pk, sent, ended>>
                   /\ pipe' = pipe \/ (pipe # <<>> /\ pipe' = Tail(pipe))
<1>1. ASSUME NEW c \in Conn, NEW op, Command(op, c), UNCHANGED sent
      PROVE  Goal
  BY <1>1 DEF Command
<1>2. ASSUME NEW c \in Conn, \/ ResumeSocket(c) \/ PauseSocket(c) \/ TriggerWrite(c) \/ SendSocket(c)
                             \/ \E shutdown \in BOOLEAN : CloseSocket(c, shutdown)
      PROVE  Goal
  BY <1>2, <1>1 DEF ResumeSocket, PauseSocket, TriggerWrite, SendSocket, CloseSocket, Command
<1>3. CASE SpWait \/ StaleEvent \/ ReadZero \/ ReadNothing \/ ReportError \/ Eof \/ WriteBlocked
  BY <1>3 DEF SpWait, StaleEvent, ReadZero, ReadNothing, ReportError, Eof, WriteBlocked, Event
<1>4. CASE WriteEvent \/ WriteFails \/ CloseFd \/ NewFd \/ ReserveId \/ PeerChanges
  BY <1>4 DEF WriteEvent, WriteFails, CloseFd, NewFd, ReserveId, PeerChanges
<1>5. ASSUME NEW k \in Nat, SendBuffer(k)
      PROVE  Goal
  BY <1>5 DEF SendBuffer
<1>6. CASE UNCHANGED vars
  BY <1>6 DEF vars
<1>7. \A k \in 1..(Len(high) + Len(low)) : k \in Nat
  BY DEF SocketInv, Typed, TypeOK
<1> QED
  BY <1>2, <1>3, <1>4, <1>5, <1>6, <1>7 DEF ThreadStep, Progress

\* The pipe without its head, and with one command more.
LEMMA PipeTail ==
  ASSUME SocketInv, pipe # <<>>, pipe' = Tail(pipe)
  PROVE  /\ Len(pipe) \in Nat \ {0} /\ Len(pipe') = Len(pipe) - 1 /\ Head(pipe) = pipe[1]
         /\ \A i \in 1..Len(pipe') : i + 1 \in 1..Len(pipe) /\ pipe'[i] = pipe[i + 1]
<1>1. pipe \in Seq(Commands)
  BY DEF SocketInv, Typed
<1> QED
  BY <1>1, HeadTailProperties, LenProperties, EmptySeq

\* A command that is put in comes last.
LEMMA PipeAppend ==
  ASSUME SocketInv, NEW m, m \in Commands, pipe' = Append(pipe, m)
  PROVE  /\ Len(pipe) \in Nat /\ Len(pipe') = Len(pipe) + 1 /\ pipe'[Len(pipe) + 1] = m
         /\ \A i \in 1..Len(pipe) : pipe'[i] = pipe[i]
<1>1. pipe \in Seq(Commands)
  BY DEF SocketInv, Typed
<1> QED
  BY <1>1, AppendProperties, LenProperties

\* What is in the pipe is a command, with a packet when it is to be sent.
LEMMA QueuedTyped ==
  ASSUME SocketInv
  PROVE  /\ Len(pipe) \in Nat
         /\ \A i \in 1..Len(pipe) : pipe[i].to \in Conn
         /\ \A i \in 1..Len(pipe) : Queued(i) =>
              /\ pipe[i].packet \in Packet /\ pipe[i].packet.from \in Svc /\ pipe[i].packet.seq \in Nat
              /\ pipe[i].packet.to \in Conn
<1>1. pipe \in Seq(Commands)
  BY DEF SocketInv, Typed
<1>2. ASSUME NEW i \in 1..Len(pipe)
      PROVE  /\ pipe[i].to \in Conn
             /\ Queued(i) => /\ pipe[i].packet \in Packet /\ pipe[i].packet.from \in Svc
                             /\ pipe[i].packet.seq \in Nat /\ pipe[i].packet.to \in Conn
  <2>1. pipe[i] \in Commands
    BY <1>1, ElementOfSeq
  <2> QED
    BY <2>1 DEF Commands, Queued, Packet
<1> QED
  BY <1>1, <1>2, LenProperties

\* A service that is sending carries a packet.
LEMMA CarriedTyped ==
  ASSUME SocketInv
  PROVE  /\ sent \in [Svc -> Nat] /\ pc \in [Svc -> Steps]
         /\ pk \in [Svc -> Packet \cup {Nil}]
         /\ \A s \in Svc : pc[s] # "idle" =>
               /\ pk[s] \in Packet /\ pk[s].to \in Conn /\ pk[s].from \in Svc /\ pk[s].seq \in Nat
BY DEF SocketInv, Typed, TypeOK, SendsSound, Packet

\* The packets are numbered after every step.
LEMMA NumberedStep ==
  ASSUME SocketInv, Numbered, [Next]_vars
  PROVE  Numbered'
<1> DEFINE First == \A s \in Svc : pc[s] # "idle" => pk[s].from = s /\ pk[s].seq = sent[s]
<1>n. /\ First
      /\ \A i \in 1..Len(pipe) : Queued(i) => pipe[i].packet.to = pipe[i].to /\ Fits(pipe[i].packet)
      /\ \A i, j \in 1..Len(pipe) : i < j /\ Queued(i) /\ Queued(j) => Earlier(pipe[i].packet, pipe[j].packet)
  BY DEF Numbered
<1>g. ASSUME First',
             \A i \in 1..Len(pipe') : Queued(i)' => pipe'[i].packet.to = pipe'[i].to /\ Fits(pipe[i].packet)',
             \A i, j \in 1..Len(pipe') :
                i < j /\ Queued(i)' /\ Queued(j)' => Earlier(pipe'[i].packet, pipe'[j].packet)
      PROVE  Numbered'
  BY <1>g DEF Numbered
<1> HIDE DEF First
<1>t. /\ sent \in [Svc -> Nat] /\ pc \in [Svc -> Steps]
      /\ \A s \in Svc : pc[s] # "idle" => pk[s] \in Packet /\ pk[s].from \in Svc
      /\ \A i \in 1..Len(pipe) : Queued(i) => pipe[i].packet.from \in Svc /\ pipe[i].packet.seq \in Nat
      /\ Len(pipe) \in Nat
  BY CarriedTyped, QueuedTyped
<1>1. CASE ThreadStep \/ ReserveId \/ PeerChanges \/ UNCHANGED vars
  <2>1. UNCHANGED <<pc, pk, sent>> /\ (pipe' = pipe \/ (pipe # <<>> /\ pipe' = Tail(pipe)))
    BY <1>1, ThreadQuiet
  <2>2. First' /\ \A p : Fits(p) => Fits(p)'
    BY <1>n, <2>1 DEF First, Fits, Carries
  <2>3. CASE pipe' = pipe
    BY <1>n, <1>g, <2>2, <2>3 DEF Queued
  <2>4. CASE pipe # <<>> /\ pipe' = Tail(pipe)
    <3>1. Len(pipe') = Len(pipe) - 1 /\ \A i \in 1..Len(pipe') : i + 1 \in 1..Len(pipe) /\ pipe'[i] = pipe[i + 1]
      BY <2>4, PipeTail
    <3>2. \A i \in 1..Len(pipe') : Queued(i)' => pipe'[i].packet.to = pipe'[i].to /\ Fits(pipe[i].packet)'
      BY <1>n, <2>2, <3>1 DEF Queued
    <3>3. ASSUME NEW i \in 1..Len(pipe'), NEW j \in 1..Len(pipe'), i < j, Queued(i)', Queued(j)'
          PROVE  Earlier(pipe'[i].packet, pipe'[j].packet)
      <4>0. i \in Int /\ j \in Int
        BY <1>t, <3>1
      <4>1. i + 1 < j + 1 /\ Queued(i + 1) /\ Queued(j + 1)
        BY <3>1, <3>3, <4>0 DEF Queued
      <4> QED
        BY <1>n, <3>1, <4>1
    <3> QED
      BY <1>g, <2>2, <3>2, <3>3
  <2> QED
    BY <2>1, <2>3, <2>4
<1>2. ASSUME NEW s \in Svc, NEW c \in Conn, Send(s, c) \/ SendLow(s, c)
      PROVE  Numbered'
  <2>1. /\ pipe' = pipe /\ sent' = [sent EXCEPT ![s] = @ + 1]
        /\ \E b \in BOOLEAN :
             pk' = [pk EXCEPT ![s] = [to |-> c, from |-> s, seq |-> sent[s] + 1, low |-> b]]
        /\ \E st : pc' = [pc EXCEPT ![s] = st]
    BY <1>2 DEF Send, SendLow, NewPacket, Moves
  <2>2. First'
    BY <1>n, <1>t, <2>1, CarriedTyped DEF First
  <2>3. \A p : p.from \in Svc /\ p.seq \in Nat /\ Fits(p) => Fits(p)'
    BY <1>t, <2>1 DEF Fits, Carries
  <2> QED
    BY <1>n, <1>g, <1>t, <2>1, <2>2, <2>3 DEF Queued
<1>3. ASSUME NEW s \in Svc, TryLock(s) \/ DoubleCheck(s) \/ IncSending(s)
      PROVE  Numbered'
  <2>1. pipe' = pipe /\ sent' = sent /\ pk' = pk /\ Carries(s)
        /\ \E st : pc' = [pc EXCEPT ![s] = st]
    BY <1>3 DEF TryLock, DoubleCheck, IncSending, Moves, Carries
  <2>2. First'
    BY <1>n, <1>t, <2>1 DEF First, Carries
  <2>3. \A p : p.from \in Svc /\ p.seq \in Nat /\ Fits(p) => Fits(p)'
    BY <1>t, <2>1 DEF Fits, Carries
  <2> QED
    BY <1>n, <1>g, <1>t, <2>1, <2>2, <2>3 DEF Queued
<1>4. ASSUME NEW s \in Svc, NEW k \in 0..Pieces, DirectWrite(s, k)
      PROVE  Numbered'
  <2>1. /\ pipe' = pipe /\ sent' = sent /\ Carries(s)
        /\ \/ pk' = pk /\ pc' = [pc EXCEPT ![s] = "pipeW"]
           \/ pk' = [pk EXCEPT ![s] = Nil] /\ pc' = [pc EXCEPT ![s] = "idle"]
    BY <1>4 DEF DirectWrite, Moves, Done, Carries
  <2>2. First'
    BY <1>n, <1>t, <2>1, CarriedTyped DEF First, Carries
  <2>3. \A p : p.from \in Svc /\ p.seq \in Nat /\ Fits(p) => Fits(p)'
    BY <1>t, <2>1 DEF Fits, Carries
  <2> QED
    BY <1>n, <1>g, <1>t, <2>1, <2>2, <2>3 DEF Queued
<1>a. ASSUME NEW m \in Commands, pipe' = Append(pipe, m), First', \A p : p.from \in Svc /\ Fits(p) => Fits(p)',
             m.op = "D" => /\ m.packet.to = m.to /\ Fits(m.packet)'
                           /\ \A i \in 1..Len(pipe) : Queued(i) => Earlier(pipe[i].packet, m.packet)
      PROVE  Numbered'
  <2>1. Len(pipe') = Len(pipe) + 1 /\ pipe'[Len(pipe) + 1] = m /\ \A i \in 1..Len(pipe) : pipe'[i] = pipe[i]
    BY <1>a, PipeAppend
  <2>2. \A i \in 1..Len(pipe') : i \in 1..Len(pipe) \/ i = Len(pipe) + 1
    BY <1>t, <2>1
  <2>3. ASSUME NEW i \in 1..Len(pipe'), Queued(i)'
        PROVE  pipe'[i].packet.to = pipe'[i].to /\ Fits(pipe[i].packet)'
    <3>1. CASE i \in 1..Len(pipe)
      BY <1>a, <1>n, <1>t, <2>1, <2>3, <3>1 DEF Queued
    <3>2. CASE i = Len(pipe) + 1
      BY <1>a, <2>1, <2>3, <3>2 DEF Queued
    <3> QED
      BY <2>2, <3>1, <3>2
  <2>4. ASSUME NEW i \in 1..Len(pipe'), NEW j \in 1..Len(pipe'), i < j, Queued(i)', Queued(j)'
        PROVE  Earlier(pipe'[i].packet, pipe'[j].packet)
    <3>0. i \in 1..Len(pipe)
      BY <1>t, <2>1, <2>4
    <3>1. CASE j \in 1..Len(pipe)
      BY <1>n, <2>1, <2>4, <3>0, <3>1 DEF Queued
    <3>2. CASE j = Len(pipe) + 1
      BY <1>a, <2>1, <2>4, <3>0, <3>2 DEF Queued
    <3> QED
      BY <2>2, <3>1, <3>2
  <2> QED
    BY <1>a, <1>g, <2>3, <2>4
<1>5. ASSUME NEW s \in Svc, SendRequest(s)
      PROVE  Numbered'
  <2>0. pk[s] \in Packet /\ pk[s].to \in Conn /\ pk[s].from = s /\ pk[s].seq = sent[s] /\ pc[s] \in {"pipeW", "pipeD"}
    BY <1>5, <1>n, CarriedTyped DEF SendRequest, First
  <2>1. /\ sent' = sent /\ pk' = [pk EXCEPT ![s] = Nil] /\ pc' = [pc EXCEPT ![s] = "idle"]
    BY <1>5 DEF SendRequest, Done
  <2>2. First' /\ (\A p : p.from \in Svc /\ Fits(p) => Fits(p)')
    BY <1>n, <1>t, <2>1, CarriedTyped DEF First, Fits, Carries
  <2>3. CASE pc[s] = "pipeW"
    <3>1. /\ pipe' = Append(pipe, [op |-> "W", to |-> pk[s].to])
          /\ [op |-> "W", to |-> pk[s].to] \in Commands
      BY <1>5, <2>0, <2>3 DEF SendRequest, Commands
    <3> QED
      BY <1>a, <2>2, <3>1
  <2>4. CASE pc[s] = "pipeD"
    <3>p. PICK p \in Packet : p = pk[s]
      BY <2>0
    <3> DEFINE m == [op |-> "D", to |-> p.to, packet |-> p]
    <3>1. pipe' = Append(pipe, m) /\ m \in Commands
      BY <1>5, <2>0, <2>4, <3>p DEF SendRequest, Commands
    <3>2. Fits(p)'
      BY <1>t, <2>0, <2>1, <3>p DEF Fits, Carries
    <3>3. \A i \in 1..Len(pipe) : Queued(i) => Earlier(pipe[i].packet, p)
      BY <1>n, <2>0, <2>4, <3>p DEF Fits, Earlier, Carries
    <3> QED
      BY <1>a, <2>2, <3>1, <3>2, <3>3
  <2> QED
    BY <2>0, <2>3, <2>4
<1>6. ASSUME NEW c \in Conn, NEW op \in {"R", "S", "K", "X"}, Ask(c, op)
      PROVE  Numbered'
  <2>1. UNCHANGED <<pc, pk, sent>> /\ pipe' = Append(pipe, [op |-> op, to |-> c])
        /\ [op |-> op, to |-> c] \in Commands
    BY <1>6 DEF Ask, Commands
  <2>2. First' /\ (\A p : p.from \in Svc /\ Fits(p) => Fits(p)')
    BY <1>n, <2>1 DEF First, Fits, Carries
  <2> QED
    BY <1>a, <2>1, <2>2
<1> QED
  BY <1>1, <1>2, <1>3, <1>4, <1>5, <1>6 DEF Next, SenderStep

-----------------------------------------------------------------------------
(* Lost connections                                                          *)

\* That a connection was lost is known after every step.
LEMMA LossStep ==
  ASSUME SocketInv, LossSeen, [Next]_vars
  PROVE  LossSeen'
<1>0. /\ Lost /\ type # "RESERVE" => spoiled
      /\ type = "HALFCLOSE_WRITE" => spoiled
      /\ "eof" \in ready => spoiled \/ type \in {"INVALID", "RESERVE"} \/ (type = "PACCEPT" /\ ~checkctrl)
  BY DEF LossSeen
<1>i. /\ task = "accept" <=> type = "RESERVE"
      /\ task = "send" => type \notin {"INVALID", "RESERVE"}
      /\ type = "RESERVE" => ~checkctrl
  BY DEF SocketInv, SlotSound, ListsEmpty, Alive
<1>1. ASSUME UNCHANGED <<type, ready, checkctrl>>, Lost' => Lost, spoiled => spoiled'
      PROVE  LossSeen'
  BY <1>0, <1>1 DEF LossSeen
<1>2. CASE \/ \E s \in Svc : SenderStep(s) \/ \E c \in Conn : Send(s, c) \/ SendLow(s, c)
           \/ \E c \in Conn, op \in {"R", "S", "K", "X"} : Ask(c, op)
           \/ UNCHANGED vars
  <2>1. UNCHANGED <<type, ready, checkctrl>>
    BY <1>2, Elsewhere
  <2>2. (peer' = peer \/ peer' = SeesError) /\ spoiled' = spoiled
    <3>1. ASSUME NEW s \in Svc, SenderStep(s)
          PROVE  (peer' = peer \/ peer' = SeesError) /\ spoiled' = spoiled
      BY <3>1 DEF SenderStep, TryLock, DoubleCheck, IncSending, SendRequest, DirectWrite, ghosts
    <3>2. ASSUME NEW s \in Svc, NEW c \in Conn, Send(s, c) \/ SendLow(s, c)
          PROVE  (peer' = peer \/ peer' = SeesError) /\ spoiled' = spoiled
      BY <3>2 DEF Send, SendLow, NewPacket
    <3>3. ASSUME NEW c \in Conn, NEW op \in {"R", "S", "K", "X"}, Ask(c, op)
          PROVE  (peer' = peer \/ peer' = SeesError) /\ spoiled' = spoiled
      BY <3>3 DEF Ask, ghosts
    <3> QED
      BY <1>2, <3>1, <3>2, <3>3 DEF vars, ghosts
  <2> QED
    BY <1>1, <2>1, <2>2 DEF Lost, SeesError
<1>3. CASE PeerChanges
  BY <1>0, <1>3 DEF PeerChanges, Spoil, Lost, LossSeen, socketVars, pollVars
<1>4. ASSUME NEW c \in Conn, ResumeSocket(c)
      PROVE  LossSeen'
  <2>1. peer' = peer /\ spoiled' = spoiled /\ checkctrl' = checkctrl /\ checkctrl
        /\ (type' = type \/ (type = "PACCEPT" /\ type' = "CONNECTED"))
        /\ (ready' = ready \/ ready' = {})
    BY <1>4 DEF ResumeSocket, Command, ghosts, Valid
  <2> QED
    BY <1>0, <2>1 DEF LossSeen, Lost
<1>5. ASSUME NEW c \in Conn, PauseSocket(c) \/ TriggerWrite(c) \/ SendSocket(c)
      PROVE  LossSeen'
  <2>1. UNCHANGED <<type, ready, checkctrl, peer, spoiled>>
    BY <1>5 DEF PauseSocket, TriggerWrite, SendSocket, Command, ghosts
  <2> QED
    BY <1>1, <2>1 DEF Lost
<1>6. ASSUME NEW c \in Conn, NEW shutdown \in BOOLEAN, CloseSocket(c, shutdown)
      PROVE  LossSeen'
  <2>1. /\ peer' = peer /\ (spoiled => spoiled') /\ checkctrl' = checkctrl /\ checkctrl /\ ready' = ready
        /\ (type' = type \/ (type # "INVALID" /\ type # "RESERVE" /\ type' = "HALFCLOSE_READ"))
    BY <1>6, <1>i DEF CloseSocket, CloseRead, Command, Spoil, Valid
  <2> QED
    BY <1>0, <2>1 DEF LossSeen, Lost
<1>7. CASE SpWait
  <2>1. UNCHANGED <<type, peer, spoiled>> /\ task = "idle"
    BY <1>7 DEF SpWait, socketVars, ghosts
  <2>2. "eof" \in ready' => type # "INVALID" /\ Lost
    BY <1>7 DEF SpWait
  <2> QED
    BY <1>0, <1>i, <2>1, <2>2 DEF LossSeen, Lost
<1>8. CASE StaleEvent \/ ReadNothing \/ ReportError \/ Eof \/ WriteBlocked
  <2>1. /\ type' = type /\ "eof" \notin ready' /\ spoiled' = spoiled
        /\ (peer' = peer \/ peer' = SeesError)
    BY <1>8 DEF StaleEvent, ReadNothing, ReportError, Eof, WriteBlocked, Event, ghosts
  <2> QED
    BY <1>0, <2>1 DEF LossSeen, Lost, SeesError
<1>9. CASE ReadZero
  <2>1. /\ "eof" \notin ready' /\ spoiled' = spoiled /\ peer' = peer /\ task = "idle"
        /\ (type' = type \/ type' = "HALFCLOSE_READ")
    BY <1>9 DEF ReadZero, Event, CloseRead, FreeLists, ghosts
  <2> QED
    BY <1>0, <1>i, <2>1 DEF LossSeen, Lost
<1>10. CASE WriteEvent
  <2>1. /\ type' = type /\ "eof" \notin ready' /\ spoiled' = spoiled /\ peer' = peer
    BY <1>10 DEF WriteEvent, ghosts
  <2> QED
    BY <1>0, <2>1 DEF LossSeen, Lost
<1>11. ASSUME NEW k \in Nat, SendBuffer(k)
       PROVE  LossSeen'
  <2>1. /\ UNCHANGED <<ready, checkctrl, peer, spoiled>> /\ task = "send"
        /\ (type' = type \/ type' = "INVALID")
    BY <1>11 DEF SendBuffer, CloseLocked, pollVars
  <2> QED
    BY <1>0, <1>i, <2>1 DEF LossSeen, Lost
<1>12. CASE WriteFails
  <2>1. /\ UNCHANGED <<ready, checkctrl, spoiled>> /\ task = "send" /\ Lost
        /\ (type' = type \/ type' = "INVALID" \/ type' = "HALFCLOSE_WRITE")
    BY <1>12 DEF WriteFails, CloseLocked, pollVars, ghosts
  <2> QED
    BY <1>0, <1>i, <2>1 DEF LossSeen
<1>13. CASE CloseFd
  <2>1. UNCHANGED <<peer, spoiled>> /\ type' = "INVALID" /\ task # "accept"
    BY <1>13 DEF CloseFd, ghosts
  <2> QED
    BY <1>0, <1>i, <2>1 DEF LossSeen, Lost
<1>14. CASE ReserveId
  BY <1>14 DEF ReserveId, LossSeen
<1>15. CASE NewFd
  BY <1>0, <1>i, <1>15 DEF NewFd, LossSeen, Lost, pollVars
<1>16. \A k \in 1..(Len(high) + Len(low)) : k \in Nat
  BY DEF SocketInv, Typed, TypeOK
<1> QED
  BY <1>2, <1>3, <1>4, <1>5, <1>6, <1>7, <1>8, <1>9, <1>10, <1>11, <1>12, <1>13, <1>14, <1>15, <1>16
     DEF Next, ThreadStep, Progress

-----------------------------------------------------------------------------
(* The numbers of packets along a step                                       *)

\* A packet that was sent stays so.
LEMMA FitsKept ==
  ASSUME SocketInv, Numbered, [Next]_vars, NEW p \in Packet, Fits(p)
  PROVE  Fits(p)'
<1>t. /\ sent \in [Svc -> Nat] /\ pc \in [Svc -> Steps] /\ p.from \in Svc /\ p.seq \in Nat
  BY CarriedTyped DEF Packet
<1>1. CASE ThreadStep \/ ReserveId \/ PeerChanges \/ UNCHANGED vars
  BY <1>1, ThreadQuiet DEF Fits, Carries
<1>2. ASSUME NEW s \in Svc, NEW c \in Conn, Send(s, c) \/ SendLow(s, c)
      PROVE  Fits(p)'
  <2>1. /\ sent' = [sent EXCEPT ![s] = @ + 1]
        /\ \E st : pc' = [pc EXCEPT ![s] = st]
    BY <1>2 DEF Send, SendLow, NewPacket, Moves
  <2> QED
    BY <1>t, <2>1 DEF Fits, Carries
<1>3. ASSUME NEW s \in Svc, SenderStep(s)
      PROVE  Fits(p)'
  <2>1. sent' = sent /\ (\E st : pc' = [pc EXCEPT ![s] = st]) /\ (Carries(s)' => Carries(s))
    BY <1>3, <1>t DEF SenderStep, TryLock, DoubleCheck, IncSending, SendRequest, DirectWrite, Moves, Done,
                      Carries
  <2> QED
    BY <1>t, <2>1 DEF Fits, Carries
<1>4. ASSUME NEW c \in Conn, NEW op \in {"R", "S", "K", "X"}, Ask(c, op)
      PROVE  Fits(p)'
  BY <1>4 DEF Ask, Fits, Carries
<1> QED
  BY <1>1, <1>2, <1>3, <1>4 DEF Next

\* What is queued after a step was queued, or is what a service carried.
LEMMA QueuedFrom ==
  ASSUME SocketInv, [Next]_vars, NEW i \in 1..Len(pipe'), Queued(i)'
  PROVE  \/ \E j \in 1..Len(pipe) : Queued(j) /\ pipe[j] = pipe'[i]
         \/ \E s \in Svc : /\ pc[s] = "pipeD" /\ pc'[s] = "idle"
                           /\ pipe'[i].packet = pk[s] /\ pipe'[i].to = pk[s].to
<1> DEFINE Goal == \/ \E j \in 1..Len(pipe) : Queued(j) /\ pipe[j] = pipe'[i]
                   \/ \E s \in Svc : /\ pc[s] = "pipeD" /\ pc'[s] = "idle"
                                     /\ pipe'[i].packet = pk[s] /\ pipe'[i].to = pk[s].to
<1>1. CASE pipe' = pipe
  BY <1>1 DEF Queued
<1>2. CASE pipe # <<>> /\ pipe' = Tail(pipe)
  <2>1. i + 1 \in 1..Len(pipe) /\ pipe'[i] = pipe[i + 1]
    BY <1>2, PipeTail
  <2> QED
    BY <2>1 DEF Queued
<1>3. ASSUME NEW m \in Commands, pipe' = Append(pipe, m),
             m.op = "D" => \E s \in Svc : pc[s] = "pipeD" /\ pc'[s] = "idle" /\ m.packet = pk[s] /\ m.to = pk[s].to
      PROVE  Goal
  <2>1. /\ Len(pipe) \in Nat /\ Len(pipe') = Len(pipe) + 1 /\ pipe'[Len(pipe) + 1] = m
        /\ \A j \in 1..Len(pipe) : pipe'[j] = pipe[j]
    BY <1>3, PipeAppend
  <2>2. CASE i = Len(pipe) + 1
    BY <1>3, <2>1, <2>2 DEF Queued
  <2>3. CASE i \in 1..Len(pipe)
    BY <2>1, <2>3 DEF Queued
  <2> QED
    BY <2>1, <2>2, <2>3
<1>4. CASE ThreadStep \/ ReserveId \/ PeerChanges \/ UNCHANGED vars
  BY <1>1, <1>2, <1>4, ThreadQuiet
<1>5. ASSUME NEW s \in Svc, SenderStep(s)
      PROVE  Goal
  <2>1. CASE SendRequest(s)
    <3>0. pk[s] \in Packet /\ pk[s].to \in Conn /\ pc' = [pc EXCEPT ![s] = "idle"] /\ pc \in [Svc -> Steps]
      BY <2>1, CarriedTyped DEF SendRequest, Done
    <3>1. CASE pc[s] = "pipeW"
      <4>1. /\ pipe' = Append(pipe, [op |-> "W", to |-> pk[s].to])
            /\ [op |-> "W", to |-> pk[s].to] \in Commands
        BY <2>1, <3>0, <3>1 DEF SendRequest, Commands
      <4> QED
        BY <1>3, <4>1
    <3>2. CASE pc[s] = "pipeD"
      <4>1. /\ pipe' = Append(pipe, [op |-> "D", to |-> pk[s].to, packet |-> pk[s]])
            /\ [op |-> "D", to |-> pk[s].to, packet |-> pk[s]] \in Commands
        BY <2>1, <3>0, <3>2 DEF SendRequest, Commands
      <4> QED
        BY <1>3, <3>0, <3>2, <4>1
    <3> QED
      BY <2>1, <3>1, <3>2 DEF SendRequest
  <2>2. CASE ~SendRequest(s)
    BY <1>1, <1>5, <2>2 DEF SenderStep, TryLock, DoubleCheck, IncSending, DirectWrite
  <2> QED
    BY <2>1, <2>2
<1>6. ASSUME NEW s \in Svc, NEW c \in Conn, Send(s, c) \/ SendLow(s, c)
      PROVE  Goal
  BY <1>1, <1>6 DEF Send, SendLow, NewPacket
<1>7. ASSUME NEW c \in Conn, NEW op \in {"R", "S", "K", "X"}, Ask(c, op)
      PROVE  Goal
  <2>1. pipe' = Append(pipe, [op |-> op, to |-> c]) /\ [op |-> op, to |-> c] \in Commands
    BY <1>7 DEF Ask, Commands
  <2> QED
    BY <1>3, <2>1
<1> QED
  BY <1>4, <1>5, <1>6, <1>7 DEF Next

-----------------------------------------------------------------------------
(* The stream in parts                                                       *)

\* Four lists, one after the other.
LEMMA FourParts ==
  ASSUME NEW a \in Seq(Packet), NEW b \in Seq(Packet), NEW c \in Seq(Packet), NEW d \in Seq(Packet),
         NEW w, w = a \o b \o c \o d
  PROVE  /\ w \in Seq(Packet)
         /\ Len(a) \in Nat /\ Len(b) \in Nat /\ Len(c) \in Nat /\ Len(d) \in Nat
         /\ Len(w) = Len(a) + Len(b) + Len(c) + Len(d)
         /\ \A i \in 1..Len(w) :
              w[i] = IF i <= Len(a) THEN a[i]
                     ELSE IF i <= Len(a) + Len(b) THEN b[i - Len(a)]
                     ELSE IF i <= Len(a) + Len(b) + Len(c) THEN c[i - (Len(a) + Len(b))]
                     ELSE d[i - (Len(a) + Len(b) + Len(c))]
<1>0. Len(a) \in Nat /\ Len(b) \in Nat /\ Len(c) \in Nat /\ Len(d) \in Nat
  BY LenProperties
<1> DEFINE x == a \o b
           y == x \o c
<1>1. /\ x \in Seq(Packet) /\ Len(x) = Len(a) + Len(b)
      /\ \A i \in 1..(Len(a) + Len(b)) : x[i] = IF i <= Len(a) THEN a[i] ELSE b[i - Len(a)]
  BY ConcatProperties
<1> HIDE DEF x
<1>2. /\ y \in Seq(Packet) /\ Len(y) = Len(x) + Len(c)
      /\ \A i \in 1..(Len(x) + Len(c)) : y[i] = IF i <= Len(x) THEN x[i] ELSE c[i - Len(x)]
  <2>1. x \in Seq(Packet)
    BY <1>1
  <2> QED
    BY <2>1, ConcatProperties
<1> HIDE DEF y
<1>3. /\ w \in Seq(Packet) /\ Len(w) = Len(y) + Len(d)
      /\ \A i \in 1..(Len(y) + Len(d)) : w[i] = IF i <= Len(y) THEN y[i] ELSE d[i - Len(y)]
  BY <1>2, ConcatProperties DEF x, y
<1>4. ASSUME NEW i \in 1..Len(w)
      PROVE  w[i] = IF i <= Len(a) THEN a[i]
                    ELSE IF i <= Len(a) + Len(b) THEN b[i - Len(a)]
                    ELSE IF i <= Len(a) + Len(b) + Len(c) THEN c[i - (Len(a) + Len(b))]
                    ELSE d[i - (Len(a) + Len(b) + Len(c))]
  <2>1. CASE i <= Len(x)
    <3>1. i \in 1..Len(y) /\ w[i] = y[i] /\ y[i] = x[i] /\ i \in 1..Len(x)
      BY <1>0, <1>1, <1>2, <1>3, <2>1
    <3> QED
      BY <1>0, <1>1, <2>1, <3>1
  <2>2. CASE i > Len(x) /\ i <= Len(y)
    <3>1. w[i] = y[i] /\ y[i] = c[i - Len(x)]
      BY <1>0, <1>1, <1>2, <1>3, <2>2
    <3> QED
      BY <1>0, <1>1, <1>2, <2>2, <3>1
  <2>3. CASE i > Len(y)
    <3>1. w[i] = d[i - Len(y)]
      BY <1>0, <1>1, <1>2, <1>3, <2>3
    <3> QED
      BY <1>0, <1>1, <1>2, <2>3, <3>1
  <2> QED
    BY <1>0, <1>1, <1>2, <2>1, <2>2, <2>3
<1> QED
  BY <1>0, <1>1, <1>2, <1>3, <1>4

\* What is in two lists is in one or in the other.
LEMMA ElementsJoin ==
  ASSUME NEW a \in Seq(Packet), NEW b \in Seq(Packet)
  PROVE  Elements(a \o b) = Elements(a) \cup Elements(b)
<1>1. /\ Len(a) \in Nat /\ Len(b) \in Nat /\ Len(a \o b) = Len(a) + Len(b)
      /\ \A i \in 1..(Len(a) + Len(b)) : (a \o b)[i] = IF i <= Len(a) THEN a[i] ELSE b[i - Len(a)]
  BY LenProperties, ConcatProperties
<1>2. ASSUME NEW p, p \in Elements(a \o b)
      PROVE  p \in Elements(a) \cup Elements(b)
  <2>1. PICK i \in 1..(Len(a) + Len(b)) : p = (a \o b)[i]
    BY <1>1, <1>2 DEF Elements
  <2>2. CASE i <= Len(a)
    BY <1>1, <2>1, <2>2 DEF Elements
  <2>3. CASE i > Len(a)
    <3>1. i - Len(a) \in 1..Len(b) /\ p = b[i - Len(a)]
      BY <1>1, <2>1, <2>3
    <3> QED
      BY <3>1 DEF Elements
  <2> QED
    BY <1>1, <2>2, <2>3
<1>3. ASSUME NEW p, p \in Elements(a)
      PROVE  p \in Elements(a \o b)
  <2>1. PICK i \in 1..Len(a) : p = a[i]
    BY <1>3 DEF Elements
  <2>2. i \in 1..(Len(a) + Len(b)) /\ p = (a \o b)[i]
    BY <1>1, <2>1
  <2> QED
    BY <1>1, <2>2 DEF Elements
<1>4. ASSUME NEW p, p \in Elements(b)
      PROVE  p \in Elements(a \o b)
  <2>1. PICK i \in 1..Len(b) : p = b[i]
    BY <1>4 DEF Elements
  <2>2. Len(a) + i \in 1..(Len(a) + Len(b)) /\ p = (a \o b)[Len(a) + i]
    BY <1>1, <2>1
  <2> QED
    BY <1>1, <2>2 DEF Elements
<1> QED
  BY <1>2, <1>3, <1>4

\* The pieces of one packet are all that packet.
LEMMA ElementsWhole ==
  ASSUME NEW p \in Packet
  PROVE  Elements(Whole(p)) = {p} /\ Elements(<<>>) = {}
<1>1. Len(Whole(p)) = Pieces /\ 1 \in 1..Pieces /\ \A i \in 1..Pieces : Whole(p)[i] = p
  BY WholePacket DEF Whole
<1> QED
  BY <1>1 DEF Elements

\* Where the packets of a stream are.
LEMMA PacketAt ==
  ASSUME NEW w \in Seq(Packet), NEW Q \in Seq(Packet), InBlocks(w, Q), NEW m \in 0..Len(Q), NEW q \in 1..Len(Q)
  PROVE  /\ Start(q) + 1 \in 1..Len(w) /\ w[Start(q) + 1] = Q[q]
         /\ Start(m + 1) \in 0..Len(w)
         /\ q <= m => Start(q) + 1 \in 1..Start(m + 1)
         /\ q > m => Start(q) + 1 \in (Start(m + 1) + 1)..Len(w)
<1>1. Len(Q) \in Nat /\ Len(w) \in Nat /\ Len(w) = Start(Len(Q) + 1) /\ Pieces \in Nat \ {0}
  BY LenProperties DEF InBlocks
<1>2. /\ q \in Int /\ m \in Int /\ m + 1 \in Int /\ Len(Q) + 1 \in Int /\ q - 1 \in Nat
  BY <1>1
<1>3. \A x, y \in Int : x < y <=> Start(x) + Pieces <= Start(y)
  BY StartLater
<1>4. \A x \in Int : Start(x) \in Int /\ Start(1) = 0
  BY StartNext
<1>5. /\ q < m + 1 <=> Start(q) + Pieces <= Start(m + 1)
      /\ m + 1 < q <=> Start(m + 1) + Pieces <= Start(q)
      /\ q < Len(Q) + 1 <=> Start(q) + Pieces <= Start(Len(Q) + 1)
      /\ m + 1 < Len(Q) + 1 <=> Start(m + 1) + Pieces <= Start(Len(Q) + 1)
      /\ Start(q) \in Int /\ Start(m + 1) \in Int
  BY <1>2, <1>3, <1>4
<1>6. Start(q) >= 0 /\ Start(m + 1) >= 0
  <2>1. 1 < q => 0 + Pieces <= Start(q)
    BY <1>2, <1>3, <1>4
  <2>2. 1 < m + 1 => 0 + Pieces <= Start(m + 1)
    BY <1>2, <1>3, <1>4
  <2>3. (q = 1 => Start(q) = 0) /\ (m + 1 = 1 => Start(m + 1) = 0)
    BY <1>2, <1>4
  <2> QED
    BY <1>1, <1>2, <1>5, <2>1, <2>2, <2>3
<1>7. (q = m + 1 => Start(q) = Start(m + 1)) /\ (m = Len(Q) => Start(m + 1) = Start(Len(Q) + 1))
  OBVIOUS
<1>8. w[Start(q) + 1] = Q[q]
  BY <1>1 DEF InBlocks
<1> QED
  BY <1>1, <1>2, <1>5, <1>6, <1>7, <1>8

\* A packet is put into a stream where another ends.
LEMMA InsertedAt ==
  ASSUME NEW w \in Seq(Packet), NEW v \in Seq(Packet), InBlocks(w, Packets(w)), InOrder(Packets(w)),
         NEW x \in 0..Len(w), x % Pieces = 0, NEW p \in Packet, Len(v) = Len(w) + Pieces,
         \A i \in 1..Len(v) : v[i] = IF i <= x THEN w[i] ELSE IF i <= x + Pieces THEN p ELSE w[i - Pieces],
         \A i \in 1..x : Follows(w[i], p),
         \A i \in (x + 1)..Len(w) : Follows(p, w[i])
  PROVE  InBlocks(v, Packets(v)) /\ InOrder(Packets(v))
<1> DEFINE Q == Packets(w)
<1>1. Q \in Seq(Packet) /\ InBlocks(w, Q) /\ InOrder(Q)
  BY PacketsTyped
<1> HIDE DEF Q
<1>2. Len(Q) \in Nat /\ Len(w) \in Nat /\ Len(w) = Start(Len(Q) + 1) /\ x \in Nat
  BY <1>1, LenProperties DEF InBlocks
<1>3. PICK m \in Nat : x = Start(m + 1)
  BY <1>2, Divides
<1>4. m \in 0..Len(Q)
  <2>1. Len(Q) + 1 < m + 1 <=> Start(Len(Q) + 1) + Pieces <= Start(m + 1)
    <3>1. Len(Q) + 1 \in Int /\ m + 1 \in Int
      BY <1>2, <1>3
    <3> QED
      BY <3>1, StartLater
  <2> QED
    BY <1>2, <1>3, <2>1
<1>5. \A i \in 1..m : Follows(Q[i], p)
  <2> TAKE i \in 1..m
  <2>1. i \in 1..Len(Q) /\ i <= m
    BY <1>2, <1>4
  <2>2. (i <= m => Start(i) + 1 \in 1..Start(m + 1)) /\ w[Start(i) + 1] = Q[i]
    BY <1>1, <1>4, <2>1, PacketAt
  <2>3. Start(i) + 1 \in 1..x
    BY <1>3, <2>1, <2>2
  <2> QED
    BY <2>2, <2>3
<1>6. \A i \in (m + 1)..Len(Q) : Follows(p, Q[i])
  <2> TAKE i \in (m + 1)..Len(Q)
  <2>1. i \in 1..Len(Q) /\ i > m
    BY <1>2, <1>4
  <2>2. Start(i) + 1 \in (x + 1)..Len(w) /\ w[Start(i) + 1] = Q[i]
    BY <1>1, <1>3, <1>4, <2>1, PacketAt
  <2> QED
    BY <2>2
<1>7. \A i \in 1..Len(v) : v[i] = IF i <= Start(m + 1) THEN w[i]
                               ELSE IF i <= Start(m + 1) + Pieces THEN p ELSE w[i - Pieces]
  BY <1>3
<1> QED
  BY <1>1, <1>4, <1>5, <1>6, <1>7, Inserted

-----------------------------------------------------------------------------
(* What a step does to the lists of a connection in use                      *)

\* A packet of the stream stays in its place.
LEMMA PlaceKept ==
  ASSUME SocketInv, Numbered, [Next]_vars, id' = id, NEW p \in Packet, InPlace(p)
  PROVE  InPlace(p)'
<1>1. Fits(p)' /\ Fits(p) /\ p.to = id
  BY FitsKept DEF InPlace
<1>2. ASSUME NEW i \in 1..Len(pipe'), Queued(i)', pipe'[i].to = id
      PROVE  Earlier(p, pipe'[i].packet)
  <2>1. CASE \E j \in 1..Len(pipe) : Queued(j) /\ pipe[j] = pipe'[i]
    BY <1>2, <2>1 DEF InPlace
  <2>2. CASE \E s \in Svc : /\ pc[s] = "pipeD" /\ pc'[s] = "idle"
                           /\ pipe'[i].packet = pk[s] /\ pipe'[i].to = pk[s].to
    <3>1. PICK s \in Svc : pc[s] = "pipeD" /\ pipe'[i].packet = pk[s]
      BY <2>2
    <3>2. pk[s].from = s /\ pk[s].seq = sent[s]
      BY <3>1 DEF Numbered
    <3> QED
      BY <1>1, <3>1, <3>2 DEF Earlier, Fits, Carries
  <2> QED
    BY <1>2, <2>1, <2>2, QueuedFrom
<1> QED
  BY <1>1, <1>2 DEF InPlace

\* How what is written, or will be, changes while a connection is in use.
LEMMA WireChanges ==
  ASSUME SocketInv, LossSeen, [Next]_vars, type # "INVALID", type' # "INVALID", ~spoiled'
  PROVE  /\ id' = id /\ ~spoiled
         /\ \/ UNCHANGED <<wire, dw, high, low>>
            \/ \E c \in Conn : SendSocket(c)
            \/ \E s \in Svc, k \in 0..Pieces : DirectWrite(s, k)
            \/ WriteEvent
            \/ \E k \in Nat : SendBuffer(k)
<1> DEFINE Same == id' = id /\ ~spoiled /\ UNCHANGED <<wire, dw, high, low>>
           Goal == /\ id' = id /\ ~spoiled
                   /\ \/ UNCHANGED <<wire, dw, high, low>>
                      \/ \E c \in Conn : SendSocket(c)
                      \/ \E s \in Svc, k \in 0..Pieces : DirectWrite(s, k)
                      \/ WriteEvent
                      \/ \E k \in Nat : SendBuffer(k)
<1> SUFFICES Goal
  OBVIOUS
<1>0. /\ Lost /\ type # "RESERVE" => spoiled
      /\ type = "HALFCLOSE_WRITE" => spoiled
      /\ "eof" \in ready => spoiled \/ type \in {"INVALID", "RESERVE"} \/ (type = "PACCEPT" /\ ~checkctrl)
      /\ task = "accept" <=> type = "RESERVE"
      /\ task = "send" => type \notin {"INVALID", "RESERVE"}
      /\ type = "PACCEPT" => BufferEmpty
      /\ type = "RESERVE" => dw = <<>>
  BY DEF LossSeen, SocketInv, SlotSound, ListsEmpty, ListsSound, Alive
<1>1. ASSUME NEW s \in Svc, SenderStep(s)
      PROVE  Goal
  <2>1. CASE \E k \in 0..Pieces : DirectWrite(s, k)
    <3>1. PICK k \in 0..Pieces : DirectWrite(s, k)
      BY <2>1
    <3>2. id' = id /\ spoiled' = spoiled
      BY <3>1 DEF DirectWrite
    <3> QED
      BY <2>1, <3>2
  <2>2. CASE ~\E k \in 0..Pieces : DirectWrite(s, k)
    BY <1>1, <2>2 DEF SenderStep, TryLock, DoubleCheck, IncSending, SendRequest, socketVars, ghosts
  <2> QED
    BY <2>1, <2>2
<1>2. ASSUME NEW s \in Svc, NEW c \in Conn, Send(s, c) \/ SendLow(s, c)
      PROVE  Same
  BY <1>2 DEF Send, SendLow, NewPacket, socketVars
<1>3. ASSUME NEW c \in Conn, NEW op \in {"R", "S", "K", "X"}, Ask(c, op)
      PROVE  Same
  BY <1>3 DEF Ask, socketVars, ghosts
<1>4. ASSUME NEW c \in Conn, ResumeSocket(c) \/ PauseSocket(c) \/ TriggerWrite(c)
      PROVE  Same
  <2>1. UNCHANGED <<id, dw, high, low, ghosts>>
    BY <1>4 DEF ResumeSocket, PauseSocket, TriggerWrite, Command
  <2> QED
    BY <2>1 DEF ghosts
<1>5. ASSUME NEW c \in Conn, SendSocket(c)
      PROVE  Goal
  BY <1>5 DEF SendSocket, Command
<1>6. ASSUME NEW c \in Conn, NEW shutdown \in BOOLEAN, CloseSocket(c, shutdown)
      PROVE  Same
  <2>1. id' = id /\ dw' = dw /\ spoiled' = (spoiled \/ (shutdown /\ Valid(c))) /\ wire' = wire /\ ~spoiled
    BY <1>6 DEF CloseSocket, Command, Spoil
  <2>2. CASE Valid(c) /\ NomoreSendingData
    <3>1. high = <<>> /\ low = <<>>
      BY <1>0, <2>1, <2>2 DEF NomoreSendingData, BufferEmpty
    <3>2. high' = <<>> /\ low' = <<>>
      BY <1>6, <2>2 DEF CloseSocket, FreeLists
    <3> QED
      BY <2>1, <3>1, <3>2
  <2>3. CASE ~(Valid(c) /\ NomoreSendingData)
    BY <1>6, <2>1, <2>3 DEF CloseSocket, FreeLists
  <2> QED
    BY <2>2, <2>3
<1>7. CASE SpWait \/ StaleEvent \/ ReadNothing \/ ReportError \/ WriteBlocked
  BY <1>7 DEF SpWait, StaleEvent, ReadNothing, ReportError, WriteBlocked, Event, socketVars, ghosts
<1>8. CASE ReadZero
  <2>1. id' = id /\ dw' = dw /\ spoiled' = spoiled /\ wire' = wire
    BY <1>8 DEF ReadZero, Event, ghosts
  <2>2. CASE closing /\ NomoreSendingData
    <3>1. high = <<>> /\ low = <<>>
      BY <1>0, <2>1, <2>2 DEF NomoreSendingData, BufferEmpty
    <3>2. high' = <<>> /\ low' = <<>>
      BY <1>8, <2>2 DEF ReadZero, FreeLists
    <3> QED
      BY <2>1, <3>1, <3>2
  <2>3. CASE ~(closing /\ NomoreSendingData)
    BY <1>0, <1>8, <2>1, <2>3 DEF ReadZero
  <2> QED
    BY <2>2, <2>3
<1>9. CASE Eof
  <2>1. id' = id /\ dw' = dw /\ spoiled' = spoiled /\ wire' = wire /\ high' = <<>> /\ low' = <<>>
        /\ "eof" \in ready /\ task = "idle"
    BY <1>9 DEF Eof, Event, FreeLists, ghosts
  <2>2. high = <<>> /\ low = <<>>
    BY <1>0, <2>1 DEF BufferEmpty
  <2> QED
    BY <2>1, <2>2
<1>10. CASE WriteEvent
  BY <1>10 DEF WriteEvent, ghosts
<1>11. ASSUME NEW k \in Nat, SendBuffer(k)
       PROVE  Goal
  BY <1>11 DEF SendBuffer
<1>12. CASE WriteFails
  BY <1>0, <1>12 DEF WriteFails, ghosts
<1>13. CASE CloseFd \/ ReserveId
  BY <1>13 DEF CloseFd, ReserveId
<1>14. CASE NewFd
  BY <1>0, <1>14 DEF NewFd, ghosts
<1>15. CASE PeerChanges
  BY <1>15 DEF PeerChanges, Spoil, socketVars
<1>16. CASE UNCHANGED vars
  BY <1>16 DEF vars, socketVars, ghosts
<1>17. \A k \in 1..(Len(high) + Len(low)) : k \in Nat
  BY DEF SocketInv, Typed, TypeOK
<1>18. Same => Goal
  OBVIOUS
<1> HIDE DEF Same, Goal
<1>19. CASE ThreadStep
  <2>1. ASSUME NEW c \in Conn,
               \/ ResumeSocket(c) \/ PauseSocket(c) \/ TriggerWrite(c) \/ SendSocket(c)
               \/ \E shutdown \in BOOLEAN : CloseSocket(c, shutdown)
        PROVE  Goal
    BY <2>1, <1>4, <1>5, <1>6, <1>18
  <2>2. CASE SendBuffer(0) \/ Progress
    <3>1. CASE SendBuffer(0)
      BY <3>1, <1>11
    <3> QED
      BY <2>2, <3>1, <1>11, <1>17 DEF Progress
  <2>3. CASE \/ SpWait \/ StaleEvent \/ ReadZero \/ ReadNothing \/ ReportError \/ Eof
             \/ WriteBlocked \/ WriteEvent \/ WriteFails \/ CloseFd \/ NewFd
    BY <2>3, <1>7, <1>8, <1>9, <1>10, <1>12, <1>13, <1>14, <1>18
  <2> QED
    BY <1>19, <2>1, <2>2, <2>3 DEF ThreadStep
<1> QED
  <2>1. CASE \E s \in Svc : SenderStep(s) \/ \E c \in Conn : Send(s, c) \/ SendLow(s, c)
    BY <2>1, <1>1, <1>2, <1>18
  <2>2. CASE \E c \in Conn, op \in {"R", "S", "K", "X"} : Ask(c, op)
    BY <2>2, <1>3, <1>18
  <2> QED
    BY <2>1, <2>2, <1>13, <1>15, <1>16, <1>18, <1>19 DEF Next

\* A list with one packet more.
LEMMA WholeAdded ==
  ASSUME NEW l \in Seq(Packet), NEW p \in Packet
  PROVE  /\ l \o Whole(p) \in Seq(Packet) /\ Len(l \o Whole(p)) = Len(l) + Pieces
         /\ \A i \in 1..(Len(l) + Pieces) : (l \o Whole(p))[i] = IF i <= Len(l) THEN l[i] ELSE p
<1> DEFINE v == Whole(p)
<1>1. v \in Seq(Packet) /\ Len(v) = Pieces /\ \A i \in 1..Pieces : v[i] = p
  BY WholePacket DEF Whole
<1> HIDE DEF v
<1>2. /\ l \o v \in Seq(Packet) /\ Len(l \o v) = Len(l) + Len(v)
      /\ \A i \in 1..(Len(l) + Len(v)) : (l \o v)[i] = IF i <= Len(l) THEN l[i] ELSE v[i - Len(l)]
  <2>1. PICK u \in Seq(Packet) : u = v
    BY <1>1
  <2>2. /\ l \o u \in Seq(Packet) /\ Len(l \o u) = Len(l) + Len(u)
        /\ \A i \in 1..(Len(l) + Len(u)) : (l \o u)[i] = IF i <= Len(l) THEN l[i] ELSE u[i - Len(l)]
    BY ConcatProperties
  <2> QED
    BY <2>1, <2>2
<1>3. Len(l) \in Nat
  BY LenProperties
<1>4. /\ l \o v \in Seq(Packet) /\ Len(l \o v) = Len(l) + Pieces
      /\ \A i \in 1..(Len(l) + Pieces) : (l \o v)[i] = IF i <= Len(l) THEN l[i] ELSE p
  BY <1>1, <1>2, <1>3
<1> QED
  BY <1>4 DEF v

\* The packet that the socket thread takes from the pipe goes to one list.
LEMMA Received ==
  ASSUME SocketInv, NEW c \in Conn, SendSocket(c)
  PROVE  /\ Queued(1) /\ pipe[1].to = c /\ 1 \in 1..Len(pipe) /\ pipe' = Tail(pipe)
         /\ UNCHANGED <<id, type, wire, dw, pc, pk>>
         /\ \/ ~Accepts(c) /\ UNCHANGED <<high, low>>
            \/ /\ c = id
               /\ \/ /\ high = <<>> /\ low = <<>> /\ low' = low
                     /\ high' = high \o Whole(pipe[1].packet)
                  \/ /\ pipe[1].packet.low /\ high' = high
                     /\ low' = low \o Whole(pipe[1].packet)
                  \/ /\ ~pipe[1].packet.low /\ low' = low
                     /\ high' = high \o Whole(pipe[1].packet)
<1>1. /\ pipe # <<>> /\ pipe \in Seq(Commands) /\ Head(pipe).op = "D" /\ Head(pipe).to = c /\ pipe' = Tail(pipe)
      /\ UNCHANGED <<id, type, wire, dw, pc, pk>>
  BY DEF SocketInv, Typed, SendSocket, Command
<1>2. Head(pipe) = pipe[1] /\ 1 \in 1..Len(pipe)
  BY <1>1, PipeTail
<1> DEFINE p == Head(pipe).packet
<1>3. p \in Packet
  BY <1>1, <1>2, QueuedTyped DEF Queued
<1>4. Whole(p) = <<>> \o Whole(p)
  <2>1. Whole(p) \in Seq(Packet)
    BY <1>3, WholePacket
  <2> HIDE DEF p
  <2> QED
    BY <2>1, ConcatEmptySeq
<1>5. IF ~Accepts(c)
      THEN UNCHANGED <<high, low, writing>>
      ELSE IF BufferEmpty
      THEN high' = Whole(p) /\ writing' = TRUE /\ UNCHANGED low
      ELSE IF p.low
      THEN low' = low \o Whole(p) /\ UNCHANGED <<high, writing>>
      ELSE high' = high \o Whole(p) /\ UNCHANGED <<low, writing>>
  BY DEF SendSocket
<1>6. Accepts(c) => c = id
  BY DEF Accepts, Valid
<1>7. Queued(1) /\ pipe[1].to = c /\ p = pipe[1].packet
  BY <1>1, <1>2 DEF Queued
<1> HIDE DEF p
<1>8. \/ ~Accepts(c) /\ UNCHANGED <<high, low>>
      \/ /\ c = id
         /\ \/ /\ high = <<>> /\ low = <<>> /\ low' = low
               /\ high' = high \o Whole(p)
            \/ /\ p.low /\ high' = high
               /\ low' = low \o Whole(p)
            \/ /\ ~p.low /\ low' = low
               /\ high' = high \o Whole(p)
  BY <1>4, <1>5, <1>6 DEF BufferEmpty
<1> QED
  BY <1>1, <1>2, <1>7, <1>8

-----------------------------------------------------------------------------
(* Direct writes                                                             *)

\* A service that writes under dw_lock is about to write the next packet.
LEMMA AloneStep ==
  ASSUME SocketInv, SocketInv', Numbered, LossSeen, StreamSound, [Next]_vars,
         type # "INVALID", type' # "INVALID", ~spoiled', NEW s \in Svc, pc'[s] = "write"
  PROVE  WritesNext(s)'
<1>t. /\ pc \in [Svc -> Steps] /\ lock \in Svc \cup {Nil, "socket"}
      /\ high \in Seq(Packet) /\ low \in Seq(Packet) /\ dw \in Seq(Packet) /\ wire \in Seq(Packet)
      /\ type \in Types
  BY DEF SocketInv, Typed, TypeOK
<1>1. CASE pc[s] = "write"
  <2>1. lock = s /\ task # "send" /\ WritesNext(s)
    BY <1>1 DEF SocketInv, LockSound, StreamSound
  <2>2. ASSUME NEW t \in Svc, SenderStep(t)
        PROVE  t # s /\ UNCHANGED <<wire, dw, high, low>>
    <3>1. t # s
      <4>1. SUFFICES ASSUME t = s
                     PROVE  FALSE
        OBVIOUS
      <4> QED
        BY <1>t, <1>1, <2>2, <4>1 DEF SenderStep, TryLock, DoubleCheck, IncSending, SendRequest, DirectWrite,
                                      Moves, Done
    <3>2. \A k \in 0..Pieces : ~DirectWrite(t, k)
      BY <2>1, <3>1, <1>t DEF DirectWrite, SocketInv, LockSound
    <3> QED
      BY <2>2, <3>1, <3>2 DEF SenderStep, TryLock, DoubleCheck, IncSending, SendRequest, socketVars, ghosts
  <2>3. id' = id /\ (UNCHANGED <<wire, high, low>> \/ \E c \in Conn : SendSocket(c))
    <3>1. \A t \in Svc, k \in 0..Pieces : ~DirectWrite(t, k)
      BY <1>t, <2>1 DEF DirectWrite, SocketInv, LockSound
    <3>2. ~WriteEvent /\ \A k \in Nat : ~SendBuffer(k)
      BY <2>1 DEF WriteEvent, SendBuffer
    <3> QED
      BY <3>1, <3>2, WireChanges
  <2>4. ASSUME NEW i \in 1..Len(pipe'), Queued(i)', pipe'[i].to = id
        PROVE  pipe'[i].packet.from # s
    <3>1. CASE \E j \in 1..Len(pipe) : Queued(j) /\ pipe[j] = pipe'[i]
      BY <2>1, <2>4, <3>1 DEF WritesNext
    <3>2. CASE \E t \in Svc : /\ pc[t] = "pipeD" /\ pc'[t] = "idle"
                             /\ pipe'[i].packet = pk[t] /\ pipe'[i].to = pk[t].to
      BY <1>1, <3>2 DEF Numbered
    <3> QED
      BY <2>4, <3>1, <3>2, QueuedFrom
  <2>5. CASE UNCHANGED <<wire, high, low>>
    BY <2>1, <2>3, <2>4, <2>5 DEF WritesNext
  <2>6. ASSUME NEW c \in Conn, SendSocket(c)
        PROVE  WritesNext(s)'
    <3>1. CASE UNCHANGED <<high, low>>
      BY <2>5, <2>6, <3>1, Received
    <3>2. CASE ~UNCHANGED <<high, low>>
      <4>1. PICK p : p = pipe[1].packet
        OBVIOUS
      <4>2. /\ p \in Packet /\ p.from # s /\ wire' = wire
            /\ \/ low' = low /\ high' = high \o Whole(p)
               \/ high' = high /\ low' = low \o Whole(p)
        BY <2>1, <2>6, <3>2, <4>1, Received, QueuedTyped DEF WritesNext
      <4>3. Elements(Whole(p)) = {p} /\ Whole(p) \in Seq(Packet)
        BY <4>2, ElementsWhole, WholePacket
      <4>4. Elements(high') \cup Elements(low') \subseteq (Elements(high) \cup Elements(low)) \cup {p}
        <5>1. CASE low' = low /\ high' = high \o Whole(p)
          <6>1. Elements(high \o Whole(p)) = Elements(high) \cup Elements(Whole(p))
            BY <1>t, <4>3, ElementsJoin
          <6> QED
            BY <4>3, <5>1, <6>1
        <5>2. CASE high' = high /\ low' = low \o Whole(p)
          <6>1. Elements(low \o Whole(p)) = Elements(low) \cup Elements(Whole(p))
            BY <1>t, <4>3, ElementsJoin
          <6> QED
            BY <4>3, <5>2, <6>1
        <5> QED
          BY <4>2, <5>1, <5>2
      <4>5. \A q \in Elements(high) \cup Elements(low) : q.from # s
        BY <2>1 DEF WritesNext
      <4>6. \A q \in Elements(high)' \cup Elements(low)' : q.from # s
        BY <4>2, <4>4, <4>5 DEF Elements
      <4>7. Len(wire') % Pieces = 0
        BY <2>1, <4>2 DEF WritesNext
      <4> QED
        BY <2>3, <2>4, <4>6, <4>7 DEF WritesNext
    <3> QED
      BY <3>1, <3>2
  <2> QED
    BY <2>3, <2>5, <2>6
<1>2. CASE pc[s] # "write"
  <2>1. DoubleCheck(s) /\ CanDirectWrite(pk[s].to)
    <3>1. ASSUME NEW t \in Svc, SenderStep(t)
          PROVE  DoubleCheck(s) /\ CanDirectWrite(pk[s].to)
      <4>1. t = s
        BY <1>t, <1>2, <3>1 DEF SenderStep, TryLock, DoubleCheck, IncSending, SendRequest, DirectWrite,
                                Moves, Done
      <4> QED
        BY <1>t, <1>2, <3>1, <4>1 DEF SenderStep, TryLock, DoubleCheck, IncSending, SendRequest, DirectWrite,
                                Moves, Done
    <3>2. ASSUME NEW t \in Svc, NEW c \in Conn, Send(t, c) \/ SendLow(t, c)
          PROVE  FALSE
      BY <1>t, <1>2, <3>2 DEF Send, SendLow, Moves
    <3>3. ASSUME NEW c \in Conn, NEW op \in {"R", "S", "K", "X"}, Ask(c, op)
          PROVE  FALSE
      BY <1>2, <3>3 DEF Ask
    <3>4. CASE ThreadStep \/ ReserveId \/ PeerChanges \/ UNCHANGED vars
      BY <1>2, <3>4, ThreadQuiet
    <3> QED
      BY <3>1, <3>2, <3>3, <3>4 DEF Next
  <2>2. /\ UNCHANGED <<id, high, low, dw, wire, pipe>>
        /\ high = <<>> /\ low = <<>> /\ dw = <<>> /\ sending.n = 0 /\ type = "CONNECTED"
    BY <2>1 DEF DoubleCheck, CanDirectWrite, NomoreSendingData, BufferEmpty, ghosts
  <2>3. \A i \in 1..Len(pipe) : ~(pipe[i].op = "D" /\ pipe[i].to = id)
    <3>1. Cardinality(InFlight(id)) + Cardinality(QueuedIn(pipe, id)) = 0
      BY <2>2, Exact DEF SocketInv
    <3>2. pipe \in Seq(Commands)
      BY DEF SocketInv, Typed
    <3>3. IsFiniteSet(QueuedIn(pipe, id)) /\ Cardinality(QueuedIn(pipe, id)) = 0
      BY <3>1, <3>2, QueuedFinite, FlightFinite
    <3>4. QueuedIn(pipe, id) = {}
      BY <3>3, FS_EmptySet
    <3> QED
      BY <3>4 DEF QueuedIn
  <2>4. Len(wire) % Pieces = 0
    <3>1. /\ Stream \in Seq(Packet) /\ Len(Stream) = Len(wire) + Len(dw) + Len(high) + Len(low)
          /\ Len(wire) \in Nat
      BY <1>t, FourParts DEF Stream
    <3>2. Len(dw) = 0 /\ Len(high) = 0 /\ Len(low) = 0
      BY <2>2
    <3>3. InBlocks(Stream, Packets(Stream))
      BY DEF StreamSound
    <3>4. Packets(Stream) \in Seq(Packet)
      BY <3>1, <3>3, PacketsTyped
    <3>5. Len(Stream) = Start(Len(Packets(Stream)) + 1) /\ Len(Packets(Stream)) \in Nat
      BY <3>3, <3>4, LenProperties DEF InBlocks
    <3>6. Start(Len(Packets(Stream)) + 1) % Pieces = 0
      BY <3>5, DividedIs
    <3> QED
      BY <3>1, <3>2, <3>5, <3>6
  <2>5. Elements(high)' = {} /\ Elements(low)' = {}
    BY <2>2 DEF Elements
  <2> QED
    BY <2>2, <2>3, <2>4, <2>5 DEF WritesNext, Queued
<1> QED
  BY <1>1, <1>2

-----------------------------------------------------------------------------
(* Streams, cut and joined                                                   *)

\* Lists, one after the other.
LEMMA Joined ==
  ASSUME NEW a \in Seq(Packet), NEW b \in Seq(Packet), NEW c \in Seq(Packet)
  PROVE  a \o <<>> = a /\ <<>> \o a = a /\ a \o b \in Seq(Packet) /\ (a \o b) \o c = a \o (b \o c)
BY ConcatEmptySeq, ConcatAssociative, ConcatProperties

\* Three lists are joined in either order.
LEMMA Regrouped ==
  ASSUME NEW a \in Seq(Packet), NEW b \in Seq(Packet), NEW c \in Seq(Packet)
  PROVE  (a \o b) \o c = a \o (b \o c)
BY Joined

\* A list is what is taken from its front and the rest.
LEMMA SplitAt ==
  ASSUME NEW l \in Seq(Packet), NEW k \in 0..Len(l)
  PROVE  /\ SubSeq(l, 1, k) \in Seq(Packet) /\ SubSeq(l, k + 1, Len(l)) \in Seq(Packet)
         /\ SubSeq(l, 1, k) \o SubSeq(l, k + 1, Len(l)) = l
         /\ \A i \in 1..Len(SubSeq(l, k + 1, Len(l))) :
               k + i \in 1..Len(l) /\ SubSeq(l, k + 1, Len(l))[i] = l[k + i]
<1>1. Len(l) \in Nat /\ k \in Nat /\ \A i \in 1..Len(l) : l[i] \in Packet
  BY LenProperties, ElementOfSeq
<1>2. /\ 1 \in 1..(Len(l) + 1) /\ k \in (1 - 1)..Len(l) /\ Len(l) \in k..Len(l)
  BY <1>1
<1>3. SubSeq(l, 1, k) \o SubSeq(l, k + 1, Len(l)) = SubSeq(l, 1, Len(l))
  BY <1>2, ConcatAdjacentSubSeq
<1>4. SubSeq(l, 1, Len(l)) = l
  BY SubSeqFull
<1>5. /\ 1 \in Int /\ k \in Int /\ k + 1 \in Int /\ Len(l) \in Int
      /\ \A i \in 1..k : l[i] \in Packet
      /\ \A i \in (k + 1)..Len(l) : l[i] \in Packet
  BY <1>1
<1>6. SubSeq(l, 1, k) \in Seq(Packet)
  BY <1>5, SubSeqProperties
<1>7. /\ SubSeq(l, k + 1, Len(l)) \in Seq(Packet)
      /\ Len(SubSeq(l, k + 1, Len(l))) = IF k + 1 <= Len(l) THEN Len(l) - (k + 1) + 1 ELSE 0
      /\ \A i \in 1..(Len(l) - (k + 1) + 1) : SubSeq(l, k + 1, Len(l))[i] = l[(k + 1) + i - 1]
  BY <1>5, SubSeqProperties
<1>8. \A i \in 1..Len(SubSeq(l, k + 1, Len(l))) :
               k + i \in 1..Len(l) /\ SubSeq(l, k + 1, Len(l))[i] = l[k + i]
  <2> TAKE i \in 1..Len(SubSeq(l, k + 1, Len(l)))
  <2>1. i \in 1..(Len(l) - (k + 1) + 1) /\ k + i \in 1..Len(l) /\ (k + 1) + i - 1 = k + i
    BY <1>1, <1>7
  <2> QED
    BY <1>7, <2>1
<1> QED
  BY <1>3, <1>4, <1>6, <1>7, <1>8

\* What is taken from the front of two lists.
LEMMA SplitTwo ==
  ASSUME NEW a \in Seq(Packet), NEW b \in Seq(Packet), NEW k \in 0..(Len(a) + Len(b))
  PROVE  /\ k < Len(a) => SubSeq(a \o b, 1, k) \o (SubSeq(a, k + 1, Len(a)) \o b) = a \o b
         /\ k >= Len(a) =>
              SubSeq(a \o b, 1, k) \o SubSeq(b, k - Len(a) + 1, Len(b)) = a \o b
         /\ SubSeq(a \o b, 1, k) \in Seq(Packet)
<1> DEFINE all == a \o b
<1>1. /\ Len(a) \in Nat /\ Len(b) \in Nat /\ all \in Seq(Packet) /\ Len(all) = Len(a) + Len(b)
      /\ k \in 0..Len(all)
      /\ \A i \in 1..(Len(a) + Len(b)) : all[i] = IF i <= Len(a) THEN a[i] ELSE b[i - Len(a)]
  BY LenProperties, ConcatProperties
<1>2. /\ SubSeq(all, 1, k) \in Seq(Packet) /\ SubSeq(all, k + 1, Len(all)) \in Seq(Packet)
      /\ SubSeq(all, 1, k) \o SubSeq(all, k + 1, Len(all)) = all
  BY <1>1, SplitAt
<1>e. all = a \o b
  OBVIOUS
<1> HIDE DEF all
<1>3. ASSUME k < Len(a)
      PROVE  SubSeq(all, 1, k) \o (SubSeq(a, k + 1, Len(a)) \o b) = all
  <2>1. k \in 0..Len(a)
    BY <1>1, <1>3
  <2>2. /\ SubSeq(a, 1, k) \in Seq(Packet) /\ SubSeq(a, k + 1, Len(a)) \in Seq(Packet)
        /\ SubSeq(a, 1, k) \o SubSeq(a, k + 1, Len(a)) = a
    BY <2>1, SplitAt
  <2>3. SubSeq(all, 1, k) = SubSeq(a, 1, k)
    <3>1. CASE k = 0
      <4>1. SubSeq(all, 1, 0) = <<>> /\ SubSeq(a, 1, 0) = <<>>
        BY SubSeqEmpty
      <4> QED
        BY <3>1, <4>1
    <3>2. CASE k # 0
      <4>1. 1 \in 1..Len(a) /\ k \in 1..Len(a)
        BY <1>1, <1>3, <3>2
      <4> QED
        BY <1>e, <4>1, SubSeqOfConcat1
    <3> QED
      BY <3>1, <3>2
  <2>4. (SubSeq(a, 1, k) \o SubSeq(a, k + 1, Len(a))) \o b = SubSeq(a, 1, k) \o (SubSeq(a, k + 1, Len(a)) \o b)
    <3>1. PICK x \in Seq(Packet) : x = SubSeq(a, 1, k)
      BY <2>2
    <3>2. PICK y \in Seq(Packet) : y = SubSeq(a, k + 1, Len(a))
      BY <2>2
    <3>3. (x \o y) \o b = x \o (y \o b)
      BY Regrouped, ZenonT(30)
    <3> QED
      BY <3>1, <3>2, <3>3
  <2> QED
    BY <1>e, <2>2, <2>3, <2>4
<1>4. ASSUME k >= Len(a)
      PROVE  SubSeq(all, 1, k) \o SubSeq(b, k - Len(a) + 1, Len(b)) = all
  <2>1. SubSeq(all, k + 1, Len(all)) = SubSeq(b, k - Len(a) + 1, Len(b))
    <3>1. CASE k = Len(all)
      <4>1. SubSeq(all, k + 1, Len(all)) = <<>>
        BY <1>1, <3>1, SubSeqEmpty
      <4>2. SubSeq(b, k - Len(a) + 1, Len(b)) = <<>>
        BY <1>1, <3>1, SubSeqEmpty
      <4> QED
        BY <4>1, <4>2
    <3>2. CASE k # Len(all)
      <4>0. k \in Nat /\ k < Len(a) + Len(b) /\ Len(all) = Len(a) + Len(b)
        BY <1>1, <3>2
      <4>1. k + 1 \in (Len(a) + 1)..(Len(a) + Len(b)) /\ Len(all) \in (Len(a) + 1)..(Len(a) + Len(b))
        BY <1>1, <1>4, <4>0
      <4>2. SubSeq(all, k + 1, Len(all)) = SubSeq(b, (k + 1) - Len(a), Len(all) - Len(a))
        BY <4>1, SubSeqOfConcat2, <1>e
      <4>3. (k + 1) - Len(a) = k - Len(a) + 1 /\ Len(all) - Len(a) = Len(b)
        BY <1>1
      <4> QED
        BY <4>2, <4>3
    <3> QED
      BY <3>1, <3>2
  <2> QED
    BY <1>2, <2>1
<1> QED
  BY <1>2, <1>3, <1>4, <1>e

\* Writing from the lists moves nothing.
LEMMA SentOff ==
  ASSUME SocketInv, NEW k \in Nat, SendBuffer(k)
  PROVE  /\ Stream' = Stream /\ dw = <<>> /\ dw' = <<>>
         /\ Elements(low)' \subseteq Elements(low)
<1> DEFINE all == high \o low
           rest == SubSeq(low, k - Len(high) + 1, Len(low))
           begun == Len(rest) % Pieces
           taken == SubSeq(all, 1, k)
<1>1. /\ high \in Seq(Packet) /\ low \in Seq(Packet) /\ dw \in Seq(Packet) /\ wire \in Seq(Packet)
      /\ task = "send" /\ dw = <<>> /\ dw' = <<>> /\ k <= Len(all)
      /\ wire' = wire \o taken
  BY DEF SocketInv, Typed, TypeOK, LockSound, SendBuffer
<1>2. Len(high) \in Nat /\ Len(low) \in Nat /\ Len(all) = Len(high) + Len(low) /\ all \in Seq(Packet)
  BY <1>1, LenProperties, ConcatProperties
<1>3. k \in 0..(Len(high) + Len(low))
  BY <1>1, <1>2
<1>4. \/ /\ k < Len(high) /\ high' = SubSeq(high, k + 1, Len(high)) /\ low' = low
      \/ /\ k >= Len(high) /\ rest # <<>>
         /\ high' = SubSeq(rest, 1, begun) /\ low' = SubSeq(rest, begun + 1, Len(rest))
      \/ /\ k >= Len(high) /\ rest = <<>> /\ high' = <<>> /\ low' = <<>>
  <2>1. IF k < Len(high)
           THEN high' = SubSeq(high, k + 1, Len(high)) /\ UNCHANGED <<type, writing, low>>
           ELSE IF rest # <<>>
           THEN /\ high' = SubSeq(rest, 1, begun)
                /\ low' = SubSeq(rest, begun + 1, Len(rest))
                /\ UNCHANGED <<type, writing>>
           ELSE IF closing
           THEN CloseLocked /\ UNCHANGED writing
           ELSE high' = <<>> /\ low' = <<>> /\ writing' = FALSE /\ UNCHANGED type
    BY DEF SendBuffer
  <2> HIDE DEF rest, begun
  <2> QED
    BY <1>2, <2>1 DEF CloseLocked
<1>5. taken \in Seq(Packet) /\ (k < Len(high) => taken \o (SubSeq(high, k + 1, Len(high)) \o low) = all)
      /\ (k >= Len(high) => taken \o rest = all)
  BY <1>1, <1>3, SplitTwo
<1>6. k >= Len(high) => k - Len(high) \in 0..Len(low)
  BY <1>1, <1>2
<1>7. k >= Len(high) =>
        /\ rest \in Seq(Packet)
        /\ \A i \in 1..Len(rest) : \E j \in 1..Len(low) : rest[i] = low[j]
  <2> SUFFICES ASSUME k >= Len(high)
               PROVE  /\ rest \in Seq(Packet)
                      /\ \A i \in 1..Len(rest) : \E j \in 1..Len(low) : rest[i] = low[j]
    OBVIOUS
  <2>1. low \in Seq(Packet) /\ k - Len(high) \in 0..Len(low)
    BY <1>1, <1>6
  <2>2. PICK x \in 0..Len(low) : x = k - Len(high)
    BY <2>1
  <2>3. rest = SubSeq(low, x + 1, Len(low))
    BY <2>2
  <2> HIDE DEF rest
  <2> QED
    BY <2>1, <2>3, SplitAt
<1> HIDE DEF rest, taken
<1>8. k >= Len(high) => begun \in 0..Len(rest)
  BY <1>7, LenProperties, BegunRest
<1> HIDE DEF begun
<1>9. k >= Len(high) =>
        /\ SubSeq(rest, 1, begun) \o SubSeq(rest, begun + 1, Len(rest)) = rest
        /\ \A i \in 1..Len(SubSeq(rest, begun + 1, Len(rest))) :
              \E j \in 1..Len(rest) : SubSeq(rest, begun + 1, Len(rest))[i] = rest[j]
  <2> SUFFICES ASSUME k >= Len(high)
               PROVE  /\ SubSeq(rest, 1, begun) \o SubSeq(rest, begun + 1, Len(rest)) = rest
                      /\ \A i \in 1..Len(SubSeq(rest, begun + 1, Len(rest))) :
                            \E j \in 1..Len(rest) : SubSeq(rest, begun + 1, Len(rest))[i] = rest[j]
    OBVIOUS
  <2>1. rest \in Seq(Packet) /\ begun \in 0..Len(rest)
    BY <1>7, <1>8
  <2>2. SubSeq(rest, 1, begun) \o SubSeq(rest, begun + 1, Len(rest)) = rest
    BY <2>1, SplitAt
  <2>3. \A i \in 1..Len(SubSeq(rest, begun + 1, Len(rest))) :
               begun + i \in 1..Len(rest) /\ SubSeq(rest, begun + 1, Len(rest))[i] = rest[begun + i]
    BY <2>1, SplitAt
  <2> QED
    BY <2>2, <2>3
<1>10. <<>> \o <<>> = <<>> /\ <<>> \in Seq(Packet)
  BY ConcatEmptySeq, EmptySeq
<1>11. taken \o (high' \o low') = all
  BY <1>4, <1>5, <1>9, <1>10
<1>12. high' \in Seq(Packet) /\ low' \in Seq(Packet)
  <2>1. CASE k < Len(high)
    <3>1. k \in 0..Len(high)
      BY <1>2, <1>3, <2>1
    <3>2. SubSeq(high, k + 1, Len(high)) \in Seq(Packet)
      BY <1>1, <3>1, SplitAt
    <3>3. high' = SubSeq(high, k + 1, Len(high)) /\ low' = low
      BY <1>2, <1>3, <1>4, <2>1
    <3> QED
      BY <1>1, <3>2, <3>3
  <2>2. CASE k >= Len(high)
    <3>1. SubSeq(rest, 1, begun) \in Seq(Packet) /\ SubSeq(rest, begun + 1, Len(rest)) \in Seq(Packet)
      BY <1>7, <1>8, <2>2, SplitAt
    <3>2. \/ high' = SubSeq(rest, 1, begun) /\ low' = SubSeq(rest, begun + 1, Len(rest))
          \/ high' = <<>> /\ low' = <<>>
      BY <1>2, <1>3, <1>4, <2>2
    <3> QED
      BY <1>10, <3>1, <3>2
  <2> QED
    BY <1>2, <2>1, <2>2
<1>13. \A i \in 1..Len(low') : \E j \in 1..Len(low) : low'[i] = low[j]
  <2>1. CASE k < Len(high)
    BY <1>2, <1>4, <2>1
  <2>2. CASE k >= Len(high) /\ low' = <<>>
    BY <2>2
  <2>3. CASE k >= Len(high) /\ low' # <<>>
    BY <1>2, <1>4, <1>7, <1>9, <2>3
  <2> QED
    BY <1>2, <2>1, <2>2, <2>3
<1>14. Stream = wire \o all
  <2>1. wire \o <<>> = wire /\ (wire \o high) \o low = wire \o (high \o low)
    BY <1>1, Joined
  <2> QED
    BY <1>1, <2>1 DEF Stream
<1>15. Stream' = wire \o all
  <2>1. wire' \in Seq(Packet) /\ high' \o low' \in Seq(Packet)
    BY <1>1, <1>5, <1>12, Joined
  <2>2. (wire \o taken) \o (high' \o low') = wire \o (taken \o (high' \o low'))
    <3>1. PICK r \in Seq(Packet) : r = high' \o low'
      BY <2>1
    <3>0. wire \in Seq(Packet) /\ taken \in Seq(Packet)
      BY <1>1, <1>5
    <3>2. (wire \o taken) \o r = wire \o (taken \o r)
      <4>1. PICK a \in Seq(Packet), b \in Seq(Packet) : a = wire /\ b = taken
        BY <3>0
      <4>2. (a \o b) \o r = a \o (b \o r)
        BY Regrouped, ZenonT(30)
      <4> QED
        BY <4>1, <4>2
    <3> QED
      BY <3>1, <3>2
  <2>3. wire' \o <<>> = wire' /\ (wire' \o high') \o low' = wire' \o (high' \o low')
    BY <1>12, <2>1, Joined
  <2>4. Stream' = ((wire' \o <<>>) \o high') \o low'
    BY <1>1 DEF Stream
  <2> HIDE DEF all
  <2> QED
    BY <1>1, <1>11, <2>2, <2>3, <2>4
<1>16. Elements(low)' \subseteq Elements(low)
  BY <1>13 DEF Elements
<1> QED
  BY <1>1, <1>14, <1>15, <1>16

\* When a write event begins, what a direct write left goes before the high
\* list.
LEMMA Gathered ==
  ASSUME SocketInv, WriteEvent
  PROVE  Stream' = Stream /\ low' = low /\ dw' = <<>>
<1>1. /\ high \in Seq(Packet) /\ low \in Seq(Packet) /\ dw \in Seq(Packet) /\ wire \in Seq(Packet)
      /\ wire' = wire /\ high' = dw \o high /\ dw' = <<>> /\ low' = low
  BY DEF SocketInv, Typed, TypeOK, WriteEvent, ghosts
<1>2. wire \o <<>> = wire /\ (wire \o dw) \o high = wire \o (dw \o high)
  <2>1. PICK a \in Seq(Packet), b \in Seq(Packet), c \in Seq(Packet) : a = wire /\ b = dw /\ c = high
    BY <1>1
  <2>2. a \o <<>> = a
    BY Joined
  <2>3. (a \o b) \o c = a \o (b \o c)
    BY Regrouped, ZenonT(30)
  <2> QED
    BY <2>1, <2>2, <2>3
<1>3. Stream' = ((wire' \o dw') \o high') \o low'
  BY DEF Stream
<1> QED
  BY <1>1, <1>2, <1>3 DEF Stream

\* The difference of two multiples of Pieces is one.
LEMMA ModSub ==
  ASSUME NEW x \in Nat, NEW y \in Nat, y <= x, x % Pieces = 0, y % Pieces = 0
  PROVE  (x - y) % Pieces = 0
<1>1. PICK a \in Nat : x = Start(a + 1)
  BY Divides
<1>2. PICK b \in Nat : y = Start(b + 1)
  BY Divides
<1>3. x - y = Start((a - b) + 1)
  BY <1>1, <1>2 DEF Start
<1>4. a - b \in Nat
  <2>1. x = a * Pieces /\ y = b * Pieces
    BY <1>1, <1>2 DEF Start
  <2> QED
    BY <2>1
<1>5. Start((a - b) + 1) % Pieces = 0
  BY <1>4, DividedIs
<1> QED
  BY <1>3, <1>5

\* A packet put between two lists that make a stream.
LEMMA PutBetween ==
  ASSUME NEW y \in Seq(Packet), NEW d \in Seq(Packet), NEW p \in Packet,
         InBlocks(y \o d, Packets(y \o d)), InOrder(Packets(y \o d)), Len(y) % Pieces = 0,
         \A x \in Elements(y) : Follows(x, p),
         \A x \in Elements(d) : Follows(p, x)
  PROVE  /\ InBlocks((y \o Whole(p)) \o d, Packets((y \o Whole(p)) \o d))
         /\ InOrder(Packets((y \o Whole(p)) \o d))
         /\ Elements((y \o Whole(p)) \o d) = Elements(y \o d) \cup {p}
<1> DEFINE w == y \o d
           v == (y \o Whole(p)) \o d
           z == y \o Whole(p)
           x == Len(y)
<1>1. /\ z \in Seq(Packet) /\ Len(z) = x + Pieces
      /\ \A i \in 1..(x + Pieces) : z[i] = IF i <= x THEN y[i] ELSE p
  BY WholeAdded
<1>2. /\ x \in Nat /\ Len(d) \in Nat /\ w \in Seq(Packet) /\ Len(w) = x + Len(d)
      /\ \A i \in 1..(x + Len(d)) : w[i] = IF i <= x THEN y[i] ELSE d[i - x]
  BY ConcatProperties, LenProperties
<1> HIDE DEF z, x, w
<1>3. /\ v \in Seq(Packet) /\ Len(v) = Len(z) + Len(d)
      /\ \A i \in 1..(Len(z) + Len(d)) : v[i] = IF i <= Len(z) THEN z[i] ELSE d[i - Len(z)]
  BY <1>1, ConcatProperties DEF z
<1> HIDE DEF v
<1>4. x \in 0..Len(w) /\ Len(v) = Len(w) + Pieces /\ x % Pieces = 0
  BY <1>1, <1>2, <1>3 DEF x
<1>5. \A i \in 1..Len(v) : v[i] = IF i <= x THEN w[i] ELSE IF i <= x + Pieces THEN p ELSE w[i - Pieces]
  <2> TAKE i \in 1..Len(v)
  <2>1. CASE i <= x
    BY <1>1, <1>2, <1>3, <2>1
  <2>2. CASE i > x /\ i <= x + Pieces
    BY <1>1, <1>2, <1>3, <2>2
  <2>3. CASE i > x + Pieces
    <3>1. v[i] = d[i - (x + Pieces)]
      BY <1>1, <1>2, <1>3, <2>3
    <3>2. i - Pieces \in 1..(x + Len(d)) /\ ~(i - Pieces <= x) /\ (i - Pieces) - x = i - (x + Pieces)
      BY <1>1, <1>2, <1>3, <2>3
    <3>3. w[i - Pieces] = d[(i - Pieces) - x]
      BY <1>2, <3>2
    <3> QED
      BY <1>2, <2>3, <3>1, <3>2, <3>3
  <2>4. i <= x \/ (i > x /\ i <= x + Pieces) \/ i > x + Pieces
    BY <1>2
  <2> QED
    BY <2>1, <2>2, <2>3, <2>4
<1>6. \A i \in 1..x : Follows(w[i], p)
  <2> TAKE i \in 1..x
  <2>1. i \in 1..Len(y) /\ w[i] = y[i]
    BY <1>2 DEF x
  <2> QED
    BY <2>1 DEF Elements
<1>7. \A i \in (x + 1)..Len(w) : Follows(p, w[i])
  <2> TAKE i \in (x + 1)..Len(w)
  <2>1. i - x \in 1..Len(d) /\ w[i] = d[i - x]
    BY <1>2
  <2> QED
    BY <2>1 DEF Elements
<1>8. InBlocks(v, Packets(v)) /\ InOrder(Packets(v))
  <2>1. InBlocks(w, Packets(w)) /\ InOrder(Packets(w))
    BY DEF w
  <2> QED
    BY <1>2, <1>3, <1>4, <1>5, <1>6, <1>7, <2>1, InsertedAt
<1>9. Elements(v) = Elements(w) \cup {p}
  <2>1. Elements(z) = Elements(y) \cup Elements(Whole(p))
    BY WholePacket, ElementsJoin DEF z
  <2>2. Elements(v) = Elements(z) \cup Elements(d) /\ Elements(w) = Elements(y) \cup Elements(d)
    <3>1. v = z \o d /\ w = y \o d
      BY DEF z, v, w
    <3> QED
      BY <1>1, <3>1, ElementsJoin
  <2> QED
    BY <2>1, <2>2, ElementsWhole
<1> QED
  BY <1>8, <1>9 DEF v, w

-----------------------------------------------------------------------------
(* What a step does to the stream                                            *)

\* What the stream is made of.
LEMMA StreamIs ==
  ASSUME SocketInv
  PROVE  /\ wire \in Seq(Packet) /\ dw \in Seq(Packet) /\ high \in Seq(Packet) /\ low \in Seq(Packet)
         /\ Len(wire) \in Nat /\ Len(dw) \in Nat /\ Len(high) \in Nat /\ Len(low) \in Nat
         /\ Stream \in Seq(Packet) /\ Len(Stream) = Len(wire) + Len(dw) + Len(high) + Len(low)
         /\ Contents \subseteq Packet
         /\ Contents = Elements(wire) \cup Elements(dw) \cup Elements(high) \cup Elements(low)
<1>1. wire \in Seq(Packet) /\ dw \in Seq(Packet) /\ high \in Seq(Packet) /\ low \in Seq(Packet)
  BY DEF SocketInv, Typed, TypeOK
<1>2. /\ Len(wire) \in Nat /\ Len(dw) \in Nat /\ Len(high) \in Nat /\ Len(low) \in Nat
      /\ Stream \in Seq(Packet) /\ Len(Stream) = Len(wire) + Len(dw) + Len(high) + Len(low)
  BY <1>1, FourParts DEF Stream
<1>3. Contents \subseteq Packet
  BY <1>2, ElementOfSeq DEF Contents, Elements
<1>4. Elements(wire \o dw \o high \o low) = Elements(wire) \cup Elements(dw) \cup Elements(high) \cup Elements(low)
  <2>1. PICK x \in Seq(Packet) : x = wire \o dw
    BY <1>1, Joined
  <2>2. PICK y \in Seq(Packet) : y = x \o high
    BY <1>1, Joined
  <2>3. Elements(y \o low) = Elements(y) \cup Elements(low)
    BY <1>1, ElementsJoin
  <2>4. Elements(x \o high) = Elements(x) \cup Elements(high)
    BY <1>1, ElementsJoin
  <2>5. Elements(wire \o dw) = Elements(wire) \cup Elements(dw)
    BY <1>1, ElementsJoin
  <2> QED
    BY <2>1, <2>2, <2>3, <2>4, <2>5
<1> QED
  BY <1>1, <1>2, <1>3, <1>4 DEF Contents, Stream

\* A packet from the pipe comes behind those that its service sent before.
LEMMA ReceiveStream ==
  ASSUME SocketInv, Numbered, StreamSound, NEW c \in Conn, SendSocket(c)
  PROVE  /\ InBlocks(Stream', Packets(Stream')) /\ InOrder(Packets(Stream'))
         /\ \A p \in Elements(low)' : p.low
         /\ \/ ~Accepts(c) /\ UNCHANGED <<wire, dw, high, low>>
            \/ c = id /\ Contents' = Contents \cup {pipe[1].packet}
<1> DEFINE q == pipe[1].packet
           Goal == /\ InBlocks(Stream', Packets(Stream')) /\ InOrder(Packets(Stream'))
                   /\ \A p \in Elements(low)' : p.low
                   /\ \/ ~Accepts(c) /\ UNCHANGED <<wire, dw, high, low>>
                      \/ c = id /\ Contents' = Contents \cup {q}
<1> SUFFICES Goal
  OBVIOUS
<1>1. /\ Queued(1) /\ pipe[1].to = c /\ 1 \in 1..Len(pipe) /\ UNCHANGED <<wire, dw>>
      /\ \/ ~Accepts(c) /\ UNCHANGED <<high, low>>
         \/ /\ c = id
            /\ \/ /\ high = <<>> /\ low = <<>> /\ low' = low
                  /\ high' = high \o Whole(q)
               \/ /\ q.low /\ high' = high
                  /\ low' = low \o Whole(q)
               \/ /\ ~q.low /\ low' = low
                  /\ high' = high \o Whole(q)
  BY Received
<1>2. q \in Packet
  BY <1>1, QueuedTyped
<1>3. /\ wire \in Seq(Packet) /\ dw \in Seq(Packet) /\ high \in Seq(Packet) /\ low \in Seq(Packet)
      /\ Stream \in Seq(Packet) /\ Contents \subseteq Packet
      /\ Contents = Elements(wire) \cup Elements(dw) \cup Elements(high) \cup Elements(low)
      /\ Len(high) \in Nat /\ Len(low) \in Nat /\ Len(wire) \in Nat /\ Len(dw) \in Nat
      /\ Len(Stream) = Len(wire) + Len(dw) + Len(high) + Len(low)
  BY StreamIs
<1>y. wire \in Seq(Packet) /\ dw \in Seq(Packet) /\ high \in Seq(Packet) /\ low \in Seq(Packet)
  BY <1>3
<1>4. /\ InBlocks(Stream, Packets(Stream)) /\ InOrder(Packets(Stream))
      /\ \A p \in Elements(low) : p.low
  BY DEF StreamSound
<1>5. c = id => \A x \in Contents : Follows(x, q)
  <2> SUFFICES ASSUME c = id, NEW x \in Contents
               PROVE  Follows(x, q)
    OBVIOUS
  <2>1. Earlier(x, q)
    BY <1>1 DEF StreamSound, InPlace
  <2>2. x.seq \in Nat /\ q.seq \in Nat
    BY <1>2, <1>3 DEF Packet
  <2> HIDE DEF q
  <2> QED
    BY <2>1, <2>2 DEF Earlier, Follows
<1>6. Whole(q) \in Seq(Packet) /\ Elements(Whole(q)) = {q}
  BY <1>2, WholePacket, ElementsWhole
<1> HIDE DEF q
<1>7. Len(Stream) % Pieces = 0 /\ Len(low) % Pieces = 0
  <2>1. Packets(Stream) \in Seq(Packet)
    BY <1>3, <1>4, PacketsTyped
  <2>2. Len(Stream) = Start(Len(Packets(Stream)) + 1) /\ Len(Packets(Stream)) \in Nat
    BY <1>4, <2>1, LenProperties DEF InBlocks
  <2>3. Start(Len(Packets(Stream)) + 1) % Pieces = 0
    BY <2>2, DividedIs
  <2> QED
    BY <2>2, <2>3 DEF SocketInv, ListsSound
<1>8. CASE ~Accepts(c) /\ UNCHANGED <<high, low>>
  <2>1. Stream' = Stream /\ Elements(low)' = Elements(low)
    BY <1>1, <1>8 DEF Stream, Elements
  <2> QED
    BY <1>1, <1>4, <1>8, <2>1
<1>9. CASE c = id /\ (low = <<>> \/ ~q.low) /\ low' = low /\ high' = high \o Whole(q)
  <2>1. PICK x \in Seq(Packet) : x = wire \o dw
    BY <1>3, Joined
  <2>2. PICK y \in Seq(Packet) : y = x \o high
    BY <1>3, Joined
  <2>3. Stream = y \o low /\ Len(y) = Len(Stream) - Len(low) /\ Len(y) \in Nat
    <3>1. Len(y) = Len(x) + Len(high) /\ Len(x) = Len(wire) + Len(dw)
      BY <1>3, <2>1, <2>2, ConcatProperties
    <3> QED
      BY <1>3, <2>1, <2>2, <3>1 DEF Stream
  <2>4. Stream' = (y \o Whole(q)) \o low
    <3>0. PICK l \in Seq(Packet) : l = Whole(q)
      BY <1>6
    <3>1. (x \o high) \o l = x \o (high \o l)
      BY <1>y, Regrouped, ZenonT(30)
    <3>2. Stream' = ((wire' \o dw') \o high') \o low'
      BY DEF Stream
    <3> QED
      BY <1>1, <1>9, <2>1, <2>2, <3>0, <3>1, <3>2
  <2>5. Len(y) % Pieces = 0
    BY <1>3, <1>7, <2>3, ModSub
  <2>6. \A z \in Elements(y) : Follows(z, q)
    <3>1. Elements(x \o high) = Elements(x) \cup Elements(high)
      BY <1>3, ElementsJoin
    <3>2. Elements(wire \o dw) = Elements(wire) \cup Elements(dw)
      BY <1>3, ElementsJoin
    <3> QED
      BY <1>3, <1>5, <1>9, <2>1, <2>2, <3>1, <3>2
  <2>7. \A z \in Elements(low) : Follows(q, z)
    <3>1. CASE low = <<>>
      BY <3>1 DEF Elements
    <3>2. CASE ~q.low
      BY <1>4, <3>2 DEF Follows
    <3> QED
      BY <1>9, <3>1, <3>2
  <2>8. /\ InBlocks(Stream', Packets(Stream')) /\ InOrder(Packets(Stream'))
        /\ Elements(Stream') = Elements(Stream) \cup {q}
    <3>1. InBlocks(y \o low, Packets(y \o low)) /\ InOrder(Packets(y \o low))
      BY <1>4, <2>3
    <3>2. /\ InBlocks((y \o Whole(q)) \o low, Packets((y \o Whole(q)) \o low))
          /\ InOrder(Packets((y \o Whole(q)) \o low))
          /\ Elements((y \o Whole(q)) \o low) = Elements(y \o low) \cup {q}
      BY <1>2, <1>y, <2>5, <2>6, <2>7, <3>1, PutBetween
    <3> QED
      BY <2>3, <2>4, <3>2
  <2>9. Contents' = Contents \cup {q} /\ Elements(low)' = Elements(low)
    BY <1>9, <2>8 DEF Contents, Elements
  <2> QED
    BY <1>4, <1>9, <2>8, <2>9
<1>10. CASE c = id /\ q.low /\ high' = high /\ low' = low \o Whole(q)
  <2>1. PICK x \in Seq(Packet) : x = wire \o dw \o high
    BY <1>3, Joined
  <2>2. Stream = Stream \o <<>> /\ Elements(<<>>) = {} /\ <<>> \in Seq(Packet)
    BY <1>2, <1>3, Joined, ElementsWhole, EmptySeq
  <2>3. Stream' = (Stream \o Whole(q)) \o <<>>
    <3>0. PICK l \in Seq(Packet) : l = Whole(q)
      BY <1>6
    <3>1. (x \o low) \o l = x \o (low \o l)
      BY <1>y, Regrouped, ZenonT(30)
    <3>2. Stream' = ((wire' \o dw') \o high') \o low' /\ Stream = x \o low
      BY <2>1 DEF Stream
    <3>3. Stream' = Stream \o Whole(q)
      BY <1>1, <1>10, <2>1, <3>0, <3>1, <3>2
    <3>4. Stream \o Whole(q) \in Seq(Packet)
      BY <1>3, <1>6, Joined
    <3>5. PICK y \in Seq(Packet) : y = Stream \o Whole(q)
      BY <3>4
    <3>6. y \o <<>> = y
      BY Joined
    <3> QED
      BY <3>3, <3>5, <3>6
  <2>4. \A z \in Elements(Stream) : Follows(z, q)
    BY <1>5, <1>10 DEF Contents
  <2>5. /\ InBlocks(Stream', Packets(Stream')) /\ InOrder(Packets(Stream'))
        /\ Elements(Stream') = Elements(Stream) \cup {q}
    <3>1. InBlocks(Stream \o <<>>, Packets(Stream \o <<>>)) /\ InOrder(Packets(Stream \o <<>>))
      BY <1>4, <2>2
    <3>2. /\ Stream \in Seq(Packet) /\ <<>> \in Seq(Packet) /\ Len(Stream) % Pieces = 0
          /\ \A z \in Elements(<<>>) : Follows(q, z)
      BY <1>3, <1>7, <2>2
    <3>3. PICK r \in Seq(Packet), e \in Seq(Packet) : r = Stream /\ e = <<>>
      BY <3>2
    <3>4. /\ InBlocks(r \o e, Packets(r \o e)) /\ InOrder(Packets(r \o e)) /\ Len(r) % Pieces = 0
          /\ (\A z \in Elements(r) : Follows(z, q)) /\ (\A z \in Elements(e) : Follows(q, z))
      BY <2>4, <3>1, <3>2, <3>3
    <3>5. /\ InBlocks((r \o Whole(q)) \o e, Packets((r \o Whole(q)) \o e))
          /\ InOrder(Packets((r \o Whole(q)) \o e))
          /\ Elements((r \o Whole(q)) \o e) = Elements(r \o e) \cup {q}
      BY <1>2, <3>4, PutBetween
    <3> QED
      BY <2>2, <2>3, <3>3, <3>5
  <2>6. Elements(low)' = Elements(low) \cup {q}
    <3>1. Elements(low \o Whole(q)) = Elements(low) \cup Elements(Whole(q))
      BY <1>3, <1>6, ElementsJoin
    <3>2. Elements(low)' = Elements(low \o Whole(q))
      BY <1>10 DEF Elements
    <3>3. Elements(Whole(q)) = {q}
      BY <1>6
    <3> QED
      BY <3>1, <3>2, <3>3
  <2>7. Contents' = Contents \cup {q}
    BY <2>5 DEF Contents
  <2> QED
    BY <1>4, <1>10, <2>5, <2>6, <2>7
<1> QED
  BY <1>1, <1>8, <1>9, <1>10

\* A direct write comes behind what was written and before the lists.
LEMMA DirectStream ==
  ASSUME SocketInv, Numbered, StreamSound, NEW s \in Svc, NEW k \in 0..Pieces, DirectWrite(s, k)
  PROVE  /\ InBlocks(Stream', Packets(Stream')) /\ InOrder(Packets(Stream'))
         /\ Contents' = Contents \cup {pk[s]} /\ low' = low
         /\ dw' # <<>> => (Len(wire') + Len(dw')) % Pieces = 0
<1>1. /\ pc[s] = "write" /\ UNCHANGED <<high, low>>
      /\ wire' = wire \o SubSeq(Whole(pk[s]), 1, k)
      /\ dw' = SubSeq(Whole(pk[s]), k + 1, Pieces)
  BY DEF DirectWrite
<1>2. PICK q \in Packet : q = pk[s]
  BY <1>1, CarriedTyped
<1>3. /\ wire \in Seq(Packet) /\ dw \in Seq(Packet) /\ high \in Seq(Packet) /\ low \in Seq(Packet)
      /\ Stream \in Seq(Packet) /\ Contents \subseteq Packet
      /\ Contents = Elements(wire) \cup Elements(dw) \cup Elements(high) \cup Elements(low)
      /\ Len(wire) \in Nat
  BY StreamIs
<1>y. wire \in Seq(Packet) /\ dw \in Seq(Packet) /\ high \in Seq(Packet) /\ low \in Seq(Packet)
  BY <1>3
<1>4. dw = <<>> /\ WritesNext(s)
  BY <1>1 DEF SocketInv, LockSound, StreamSound
<1>5. q.from = s /\ q.seq = sent[s] /\ \A x \in Contents : Fits(x)
  BY <1>1, <1>2 DEF Numbered, StreamSound, InPlace
<1>6. \A x \in Elements(wire) : Follows(x, q)
  <2> TAKE x \in Elements(wire)
  <2>1. x \in Contents /\ x \in Packet /\ Fits(x) /\ x.seq \in Nat /\ q.seq \in Nat
    BY <1>2, <1>3, <1>5 DEF Packet
  <2>2. Carries(s)
    BY <1>1 DEF Carries
  <2>3. x.from = s => x.seq < q.seq
    BY <1>5, <2>1, <2>2 DEF Fits
  <2> QED
    BY <1>5, <2>1, <2>3 DEF Follows
<1>7. PICK d \in Seq(Packet) : d = high \o low
  BY <1>3, Joined
<1>8. \A x \in Elements(d) : Follows(q, x)
  <2>1. Elements(d) = Elements(high) \cup Elements(low)
    BY <1>3, <1>7, ElementsJoin
  <2> QED
    BY <1>4, <1>5, <2>1 DEF WritesNext, Follows
<1>9. Len(wire) % Pieces = 0
  BY <1>4 DEF WritesNext
<1>10. Stream = wire \o d
  <2>1. PICK a \in Seq(Packet), b \in Seq(Packet), c \in Seq(Packet) : a = wire /\ b = high /\ c = low
    BY <1>y
  <2>2. a \o <<>> = a /\ (a \o b) \o c = a \o (b \o c)
    BY Joined
  <2>3. wire \o <<>> = wire /\ (wire \o high) \o low = wire \o (high \o low)
    BY <2>1, <2>2
  <2> QED
    BY <1>4, <1>7, <2>3 DEF Stream
<1>11. /\ Whole(q) \in Seq(Packet) /\ Len(Whole(q)) = Pieces
  BY WholePacket
<1>12. PICK l \in Seq(Packet) : l = Whole(q)
  BY <1>11
<1>13. /\ SubSeq(l, 1, k) \in Seq(Packet) /\ SubSeq(l, k + 1, Len(l)) \in Seq(Packet)
       /\ SubSeq(l, 1, k) \o SubSeq(l, k + 1, Len(l)) = l /\ Len(l) = Pieces
  BY <1>11, <1>12, SplitAt
<1>14. PICK a \in Seq(Packet), b \in Seq(Packet) : a = SubSeq(l, 1, k) /\ b = SubSeq(l, k + 1, Len(l))
  BY <1>13
<1>15. a \o b = l /\ wire' = wire \o a /\ dw' = b
  BY <1>1, <1>2, <1>12, <1>13, <1>14
<1>16. wire' \o dw' = wire \o l
  <2>1. PICK u \in Seq(Packet) : u = wire
    BY <1>y
  <2>2. (u \o a) \o b = u \o (a \o b)
    BY Regrouped
  <2> QED
    BY <1>15, <2>1, <2>2
<1>17. Stream' = (wire \o l) \o d
  <2>1. PICK y \in Seq(Packet) : y = wire \o l
    BY <1>3, Joined
  <2>2. (y \o high) \o low = y \o (high \o low)
    BY <1>y, Regrouped, ZenonT(30)
  <2>3. Stream' = ((wire' \o dw') \o high') \o low'
    BY DEF Stream
  <2> QED
    BY <1>1, <1>7, <1>16, <2>1, <2>2, <2>3
<1>18. /\ InBlocks(Stream', Packets(Stream')) /\ InOrder(Packets(Stream'))
       /\ Elements(Stream') = Elements(Stream) \cup {q}
  <2>1. InBlocks(Stream, Packets(Stream)) /\ InOrder(Packets(Stream))
    BY DEF StreamSound
  <2> QED
    <3>1. InBlocks(wire \o d, Packets(wire \o d)) /\ InOrder(Packets(wire \o d))
      BY <1>10, <2>1
    <3>2. /\ InBlocks((wire \o Whole(q)) \o d, Packets((wire \o Whole(q)) \o d))
          /\ InOrder(Packets((wire \o Whole(q)) \o d))
          /\ Elements((wire \o Whole(q)) \o d) = Elements(wire \o d) \cup {q}
      <4>1. PICK u \in Seq(Packet) : u = wire
        BY <1>y
      <4>2. /\ InBlocks((u \o Whole(q)) \o d, Packets((u \o Whole(q)) \o d))
            /\ InOrder(Packets((u \o Whole(q)) \o d))
            /\ Elements((u \o Whole(q)) \o d) = Elements(u \o d) \cup {q}
        BY <1>6, <1>8, <1>9, <3>1, <4>1, PutBetween
      <4> QED
        BY <4>1, <4>2
    <3> QED
      BY <1>10, <1>12, <1>17, <3>2
<1>19. (Len(wire') + Len(dw')) % Pieces = 0
  <2>1. Len(wire \o a) = Len(wire) + Len(a) /\ Len(a \o b) = Len(a) + Len(b) /\ Len(a) \in Nat /\ Len(b) \in Nat
    BY <1>y, ConcatProperties, LenProperties
  <2>3. Len(wire') = Len(wire) + Len(a) /\ Len(dw') = Len(b) /\ Len(a) + Len(b) = Pieces
    BY <1>13, <1>15, <2>1
  <2>4. PICK m \in Nat : m = Len(wire)
    BY <1>3
  <2>6. PICK x \in Nat, z \in Nat : x = Len(a) /\ z = Len(b)
    BY <2>1
  <2>7. x + z = Pieces /\ Len(wire') = m + x /\ Len(dw') = z
    BY <2>3, <2>4, <2>6
  <2>5. Len(wire') + Len(dw') = m + Pieces
    BY <2>7
  <2>2. Len(wire') + Len(dw') = Len(wire) + Pieces
    BY <2>4, <2>5
  <2> QED
    BY <1>3, <1>9, <2>2, ModAdd
<1> QED
  BY <1>1, <1>2, <1>18, <1>19 DEF Contents

\* Only report_accept takes a slot that is free.
LEMMA Reserved ==
  ASSUME SocketInv, [Next]_vars, type = "INVALID", type' # "INVALID"
  PROVE  ReserveId
<1>0. task # "accept" /\ task # "send"
  BY DEF SocketInv, SlotSound, Alive
<1>1. CASE \/ \E s \in Svc : SenderStep(s) \/ \E c \in Conn : Send(s, c) \/ SendLow(s, c)
           \/ \E c \in Conn, op \in {"R", "S", "K", "X"} : Ask(c, op)
           \/ PeerChanges
           \/ UNCHANGED vars
  BY <1>1, Elsewhere
<1>2. ASSUME NEW c \in Conn, \/ ResumeSocket(c) \/ PauseSocket(c) \/ TriggerWrite(c) \/ SendSocket(c)
                             \/ \E shutdown \in BOOLEAN : CloseSocket(c, shutdown)
      PROVE  FALSE
  BY <1>2 DEF ResumeSocket, PauseSocket, TriggerWrite, SendSocket, CloseSocket, Valid
<1>3. CASE SpWait \/ StaleEvent \/ ReadZero \/ ReadNothing \/ ReportError \/ Eof \/ WriteBlocked
  BY <1>3 DEF SpWait, StaleEvent, ReadZero, ReadNothing, ReportError, Eof, WriteBlocked, socketVars
<1>4. CASE WriteEvent \/ WriteFails \/ CloseFd \/ NewFd
  BY <1>0, <1>4 DEF WriteEvent, WriteFails, CloseFd, NewFd
<1>5. ASSUME NEW k \in Nat, SendBuffer(k)
      PROVE  FALSE
  BY <1>0, <1>5 DEF SendBuffer
<1>6. \A k \in 1..(Len(high) + Len(low)) : k \in Nat
  BY DEF SocketInv, Typed, TypeOK
<1> QED
  BY <1>1, <1>2, <1>3, <1>4, <1>5, <1>6 DEF Next, ThreadStep, Progress

\* Nothing makes a stream.
LEMMA EmptyStream == InBlocks(<<>>, Packets(<<>>)) /\ InOrder(Packets(<<>>))
<1>1. Start(0 + 1) = 0 /\ Start(0 + 1) \div Pieces = 0
  BY DividedIs, StartNext
<1>2. Len(<<>>) = 0 /\ Packets(<<>>) = [q \in 1..0 |-> <<>>[Start(q) + 1]]
  BY <1>1 DEF Packets
<1>3. Len(Packets(<<>>)) = 0
  BY <1>2
<1> QED
  BY <1>1, <1>2, <1>3 DEF InBlocks, InOrder

\* What is written, and will be, stays packets in order.
LEMMA StreamStep ==
  ASSUME SocketInv, SocketInv', Numbered, LossSeen, [Next]_vars,
         ~spoiled /\ type # "INVALID" => StreamSound, ~spoiled', type' # "INVALID"
  PROVE  StreamSound'
<1>1. CASE type = "INVALID"
  <2>1. ReserveId
    BY <1>1, Reserved
  <2>2. wire' = <<>> /\ dw' = <<>> /\ high' = <<>> /\ low' = <<>> /\ type' = "RESERVE"
    BY <1>1, <2>1 DEF ReserveId, SocketInv, ListsSound, BufferEmpty
  <2>3. <<>> \in Seq(Packet) /\ <<>> \o <<>> = <<>>
    BY EmptySeq, ConcatEmptySeq
  <2>4. Stream' = <<>>
    BY <2>2, <2>3 DEF Stream
  <2>5. Contents' = {} /\ Elements(low)' = {}
    BY <2>2, <2>4 DEF Contents, Elements
  <2>6. \A s \in Svc : pc'[s] # "write"
    BY <2>2 DEF SocketInv, LockSound
  <2> QED
    BY <2>2, <2>4, <2>5, <2>6, EmptyStream DEF StreamSound
<1>2. CASE type # "INVALID"
  <2>0. id' = id /\ ~spoiled /\ StreamSound
    BY <1>2, WireChanges
  <2>1. \A s \in Svc : pc'[s] = "write" => WritesNext(s)'
    BY <1>2, <2>0, AloneStep
  <2>2. \A p \in Contents : InPlace(p)'
    <3>1. \A p \in Contents : InPlace(p) /\ p \in Packet
      BY <2>0, StreamIs DEF StreamSound
    <3> QED
      BY <2>0, <3>1, PlaceKept
  <2>g. ASSUME InBlocks(Stream', Packets(Stream')), InOrder(Packets(Stream')),
               dw' # <<>> => (Len(wire') + Len(dw')) % Pieces = 0,
               \A p \in Elements(low)' : p.low,
               \A p \in Contents' : InPlace(p)'
        PROVE  StreamSound'
    BY <2>1, <2>g DEF StreamSound
  <2>3. ASSUME Stream' = Stream, dw' # <<>> => wire' = wire /\ dw' = dw, Elements(low)' \subseteq Elements(low)
        PROVE  StreamSound'
    <3>1. InBlocks(Stream', Packets(Stream')) /\ InOrder(Packets(Stream'))
      BY <2>0, <2>3 DEF StreamSound
    <3>2. dw' # <<>> => (Len(wire') + Len(dw')) % Pieces = 0
      BY <2>0, <2>3 DEF StreamSound
    <3>3. \A p \in Elements(low)' : p.low
      BY <2>0, <2>3 DEF StreamSound
    <3>4. Contents' = Contents
      BY <2>3 DEF Contents
    <3> QED
      BY <2>2, <2>g, <3>1, <3>2, <3>3, <3>4
  <2>4. CASE UNCHANGED <<wire, dw, high, low>>
    BY <2>3, <2>4 DEF Stream, Elements
  <2>5. ASSUME NEW c \in Conn, SendSocket(c)
        PROVE  StreamSound'
    <3>1. /\ InBlocks(Stream', Packets(Stream')) /\ InOrder(Packets(Stream'))
          /\ \A p \in Elements(low)' : p.low
          /\ \/ UNCHANGED <<wire, dw, high, low>>
             \/ c = id /\ Contents' = Contents \cup {pipe[1].packet}
      BY <2>0, <2>5, ReceiveStream
    <3>2. CASE c = id /\ Contents' = Contents \cup {pipe[1].packet}
      <4>1. Queued(1) /\ pipe[1].to = c /\ 1 \in 1..Len(pipe) /\ UNCHANGED <<wire, dw>> /\ pipe' = Tail(pipe)
        BY <2>5, Received
      <4>2. PICK p \in Packet : p = pipe[1].packet
        BY <4>1, QueuedTyped
      <4>3. InPlace(p)'
        <5>1. p.to = id /\ Fits(p)
          BY <3>2, <4>1, <4>2 DEF Numbered
        <5>2. Fits(p)'
          BY <5>1, FitsKept
        <5>3. ASSUME NEW i \in 1..Len(pipe'), Queued(i)'
              PROVE  Earlier(p, pipe'[i].packet)
          <6>1. i + 1 \in 1..Len(pipe) /\ pipe'[i] = pipe[i + 1] /\ 1 < i + 1
            <7>1. pipe # <<>>
              BY <4>1
            <7> QED
              BY <4>1, <7>1, PipeTail
          <6>2. Queued(i + 1)
            BY <5>3, <6>1 DEF Queued
          <6> QED
            BY <4>1, <4>2, <6>1, <6>2 DEF Numbered
        <5> QED
          BY <2>0, <5>1, <5>2, <5>3 DEF InPlace
      <4>4. dw' # <<>> => (Len(wire') + Len(dw')) % Pieces = 0
        BY <2>0, <4>1 DEF StreamSound
      <4>5. \A x \in Contents' : InPlace(x)'
        BY <2>2, <3>2, <4>2, <4>3
      <4> QED
        BY <2>g, <3>1, <4>4, <4>5
    <3> QED
      BY <2>4, <3>1, <3>2
  <2>6. ASSUME NEW s \in Svc, NEW k \in 0..Pieces, DirectWrite(s, k)
        PROVE  StreamSound'
    <3>1. /\ InBlocks(Stream', Packets(Stream')) /\ InOrder(Packets(Stream'))
          /\ Contents' = Contents \cup {pk[s]} /\ low' = low
          /\ dw' # <<>> => (Len(wire') + Len(dw')) % Pieces = 0
      BY <2>0, <2>6, DirectStream
    <3>2. /\ pc[s] = "write" /\ pipe' = pipe /\ sent' = sent
          /\ pc' = [pc EXCEPT ![s] = IF k = Pieces THEN "idle" ELSE "pipeW"]
      BY <2>6 DEF DirectWrite, Done, Moves
    <3>3. PICK p \in Packet : p = pk[s]
      BY <3>2, CarriedTyped
    <3>4. p.to = id /\ p.from = s /\ p.seq = sent[s] /\ WritesNext(s)
      BY <2>0, <3>2, <3>3 DEF SocketInv, LockSound, Numbered, StreamSound
    <3>5. InPlace(p)'
      <4>1. Fits(p)'
        BY <3>2, <3>4, CarriedTyped DEF Fits, Carries
      <4>2. \A i \in 1..Len(pipe) : Queued(i) /\ pipe[i].to = id => Earlier(p, pipe[i].packet)
        BY <3>4 DEF WritesNext, Earlier
      <4> QED
        BY <2>0, <3>2, <3>4, <4>1, <4>2 DEF InPlace, Queued
    <3>6. \A x \in Contents' : InPlace(x)'
      BY <2>2, <3>1, <3>3, <3>5
    <3>7. \A x \in Elements(low)' : x.low
      BY <2>0, <3>1 DEF StreamSound, Elements
    <3> QED
      BY <2>g, <3>1, <3>6, <3>7
  <2>7. CASE WriteEvent
    <3>1. Stream' = Stream /\ low' = low /\ dw' = <<>>
      BY <2>7, Gathered
    <3> QED
      BY <2>3, <3>1 DEF Elements
  <2>8. ASSUME NEW k \in Nat, SendBuffer(k)
        PROVE  StreamSound'
    BY <2>3, <2>8, SentOff
  <2> QED
    BY <1>2, <2>4, <2>5, <2>6, <2>7, <2>8, WireChanges
<1> QED
  BY <1>1, <1>2

-----------------------------------------------------------------------------
(* What the owner has sent                                                   *)

\* A command that is taken or put in: what the pipe holds then.
LEMMA PipeFrom ==
  ASSUME SocketInv, [Next]_vars, NEW i \in 1..Len(pipe')
  PROVE  \/ pipe' = pipe /\ i \in 1..Len(pipe)
         \/ /\ pipe # <<>> /\ pipe' = Tail(pipe)
            /\ i + 1 \in 1..Len(pipe) /\ pipe'[i] = pipe[i + 1]
         \/ /\ i \in 1..Len(pipe) /\ pipe'[i] = pipe[i]
            /\ Len(pipe') = Len(pipe) + 1
         \/ /\ i = Len(pipe) + 1 /\ Len(pipe') = Len(pipe) + 1
            /\ \/ \E s \in Svc : /\ pc[s] = "pipeD" /\ Queued(i)' /\ pipe'[i].packet = pk[s]
                                 /\ ended' = ended
               \/ pipe'[i].op \in {"R", "S", "W"} /\ ended' = ended
               \/ \E op \in {"K", "X"}, c \in Conn :
                     /\ pipe'[i].op = op /\ pipe'[i].to = c /\ ended' = [ended EXCEPT ![c] = op]
<1> DEFINE Last == \/ \E s \in Svc : /\ pc[s] = "pipeD" /\ Queued(i)' /\ pipe'[i].packet = pk[s]
                                     /\ ended' = ended
                   \/ pipe'[i].op \in {"R", "S", "W"} /\ ended' = ended
                   \/ \E op \in {"K", "X"}, c \in Conn :
                         /\ pipe'[i].op = op /\ pipe'[i].to = c /\ ended' = [ended EXCEPT ![c] = op]
           Goal == \/ pipe' = pipe /\ i \in 1..Len(pipe)
                   \/ /\ pipe # <<>> /\ pipe' = Tail(pipe)
                      /\ i + 1 \in 1..Len(pipe) /\ pipe'[i] = pipe[i + 1]
                   \/ /\ i \in 1..Len(pipe) /\ pipe'[i] = pipe[i]
                      /\ Len(pipe') = Len(pipe) + 1
                   \/ i = Len(pipe) + 1 /\ Len(pipe') = Len(pipe) + 1 /\ Last
<1> SUFFICES Goal
  OBVIOUS
<1>1. CASE pipe' = pipe
  BY <1>1
<1>2. CASE pipe # <<>> /\ pipe' = Tail(pipe)
  BY <1>2, PipeTail
<1>3. ASSUME NEW m \in Commands, pipe' = Append(pipe, m), pipe'[i] = m => Last
      PROVE  Goal
  <2> HIDE DEF Last
  <2>1. /\ Len(pipe) \in Nat /\ Len(pipe') = Len(pipe) + 1 /\ pipe'[Len(pipe) + 1] = m
        /\ \A j \in 1..Len(pipe) : pipe'[j] = pipe[j]
    BY <1>3, PipeAppend
  <2>2. i = Len(pipe) + 1 \/ i \in 1..Len(pipe)
    BY <2>1
  <2> QED
    BY <1>3, <2>1, <2>2
<1>4. CASE ThreadStep \/ ReserveId \/ PeerChanges \/ UNCHANGED vars
  BY <1>1, <1>2, <1>4, ThreadQuiet
<1>5. ASSUME NEW s \in Svc, SenderStep(s)
      PROVE  Goal
  <2>1. CASE SendRequest(s)
    <3>0. pk[s] \in Packet /\ pk[s].to \in Conn /\ ended' = ended
      BY <2>1, CarriedTyped DEF SendRequest
    <3>1. CASE pc[s] = "pipeW"
      <4>1. /\ pipe' = Append(pipe, [op |-> "W", to |-> pk[s].to])
            /\ [op |-> "W", to |-> pk[s].to] \in Commands
        BY <2>1, <3>0, <3>1 DEF SendRequest, Commands
      <4> QED
        BY <1>3, <3>0, <4>1
    <3>2. CASE pc[s] = "pipeD"
      <4>1. /\ pipe' = Append(pipe, [op |-> "D", to |-> pk[s].to, packet |-> pk[s]])
            /\ [op |-> "D", to |-> pk[s].to, packet |-> pk[s]] \in Commands
        BY <2>1, <3>0, <3>2 DEF SendRequest, Commands
      <4> QED
        BY <1>3, <3>0, <3>2, <4>1 DEF Queued
    <3> QED
      BY <2>1, <3>1, <3>2 DEF SendRequest
  <2>2. CASE ~SendRequest(s)
    BY <1>1, <1>5, <2>2 DEF SenderStep, TryLock, DoubleCheck, IncSending, DirectWrite
  <2> QED
    BY <2>1, <2>2
<1>6. ASSUME NEW s \in Svc, NEW c \in Conn, Send(s, c) \/ SendLow(s, c)
      PROVE  Goal
  BY <1>1, <1>6 DEF Send, SendLow, NewPacket
<1>7. ASSUME NEW c \in Conn, NEW op \in {"R", "S", "K", "X"}, Ask(c, op)
      PROVE  Goal
  <2>1. /\ pipe' = Append(pipe, [op |-> op, to |-> c]) /\ [op |-> op, to |-> c] \in Commands
        /\ \/ op \in {"K", "X"} /\ ended' = [ended EXCEPT ![c] = op]
           \/ op \in {"R", "S"} /\ ended' = ended
    BY <1>7 DEF Ask, Commands
  <2>2. pipe'[i] = [op |-> op, to |-> c] => Last
    BY <2>1
  <2> QED
    BY <1>3, <2>1, <2>2
<1> QED
  BY <1>4, <1>5, <1>6, <1>7 DEF Next

\* How what the owner has sent changes.
LEMMA OwedChanges ==
  ASSUME SocketInv, [Next]_vars
  PROVE  \/ owed' = {}
         \/ owed' = owed /\ id' = id
         \/ /\ UNCHANGED <<id, type, ended, pipe, spoiled, told>>
            /\ pc[Owner] = "idle" /\ Carries(Owner)' /\ told[id].open /\ ended[id] = "no" /\ ~spoiled
            /\ type # "INVALID"
            /\ owed' = owed \cup {pk'[Owner]}
            /\ pk'[Owner].to = id /\ pk'[Owner].from = Owner /\ pk'[Owner].seq = sent[Owner] + 1
            /\ sent' = [sent EXCEPT ![Owner] = @ + 1]
<1> DEFINE New == /\ UNCHANGED <<id, type, ended, pipe, spoiled, told>>
                  /\ pc[Owner] = "idle" /\ Carries(Owner)' /\ told[id].open /\ ended[id] = "no" /\ ~spoiled
                  /\ type # "INVALID"
                  /\ owed' = owed \cup {pk'[Owner]}
                  /\ pk'[Owner].to = id /\ pk'[Owner].from = Owner /\ pk'[Owner].seq = sent[Owner] + 1
                  /\ sent' = [sent EXCEPT ![Owner] = @ + 1]
           Goal == owed' = {} \/ (owed' = owed /\ id' = id) \/ New
<1> SUFFICES Goal
  OBVIOUS
<1>1. CASE UNCHANGED <<owed, id>>
  BY <1>1
<1>2. ASSUME NEW s \in Svc, SenderStep(s)
      PROVE  Goal
  BY <1>2 DEF SenderStep, TryLock, DoubleCheck, IncSending, SendRequest, DirectWrite, ghosts, socketVars
<1>3. ASSUME NEW s \in Svc, NEW c \in Conn, Send(s, c) \/ SendLow(s, c)
      PROVE  Goal
  <2>1. PICK prio \in BOOLEAN : NewPacket(s, c, prio)
    BY <1>3 DEF Send, SendLow
  <2>2. /\ pc[s] = "idle" /\ \E st \in {"try", "inc"} : pc' = [pc EXCEPT ![s] = st]
    BY <1>3 DEF Send, SendLow, Moves
  <2>3. CASE s = Owner /\ ended[c] = "no" /\ ~spoiled
    <3>1. pk' = [pk EXCEPT ![s] = [to |-> c, from |-> s, seq |-> sent[s] + 1, low |-> prio]]
          /\ owed' = owed \cup {[to |-> c, from |-> s, seq |-> sent[s] + 1, low |-> prio]}
          /\ c = id /\ type # "INVALID" /\ told[c].open /\ sent' = [sent EXCEPT ![s] = @ + 1]
          /\ UNCHANGED <<id, type, ended, pipe, spoiled, told>>
      BY <2>1, <2>3 DEF NewPacket, Valid, socketVars
    <3>2. pk'[Owner] = [to |-> c, from |-> s, seq |-> sent[s] + 1, low |-> prio]
      BY <2>3, <3>1, CarriedTyped
    <3>3. Carries(Owner)'
      BY <2>2, <2>3, CarriedTyped DEF Carries
    <3> QED
      BY <2>2, <2>3, <3>1, <3>2, <3>3
  <2>4. CASE ~(s = Owner /\ ended[c] = "no" /\ ~spoiled)
    BY <2>1, <2>4 DEF NewPacket, socketVars
  <2> QED
    BY <2>3, <2>4
<1>4. ASSUME NEW c \in Conn, NEW op \in {"R", "S", "K", "X"}, Ask(c, op)
      PROVE  Goal
  BY <1>4 DEF Ask, ghosts, socketVars
<1>5. ASSUME NEW c \in Conn, \/ ResumeSocket(c) \/ PauseSocket(c) \/ TriggerWrite(c) \/ SendSocket(c)
                             \/ \E shutdown \in BOOLEAN : CloseSocket(c, shutdown)
      PROVE  Goal
  <2>1. id' = id
    BY <1>5 DEF ResumeSocket, PauseSocket, TriggerWrite, SendSocket, CloseSocket, Command
  <2>2. owed' = owed \/ owed' = {}
    BY <1>5 DEF ResumeSocket, PauseSocket, TriggerWrite, SendSocket, CloseSocket, Spoil, ghosts
  <2> QED
    BY <2>1, <2>2
<1>6. CASE SpWait \/ StaleEvent \/ ReadZero \/ ReadNothing \/ ReportError \/ Eof \/ WriteBlocked
  BY <1>6 DEF SpWait, StaleEvent, ReadZero, ReadNothing, ReportError, Eof, WriteBlocked, Event, ghosts, socketVars
<1>7. CASE WriteEvent \/ WriteFails \/ CloseFd \/ NewFd
  BY <1>7 DEF WriteEvent, WriteFails, CloseFd, NewFd, ghosts
<1>8. ASSUME NEW k \in Nat, SendBuffer(k)
      PROVE  Goal
  BY <1>8 DEF SendBuffer
<1>9. CASE ReserveId
  BY <1>9 DEF ReserveId
<1>10. CASE PeerChanges
  BY <1>10 DEF PeerChanges, Spoil, socketVars
<1>11. CASE UNCHANGED vars
  BY <1>11 DEF vars, socketVars, ghosts
<1>12. \A k \in 1..(Len(high) + Len(low)) : k \in Nat
  BY DEF SocketInv, Typed, TypeOK
<1> HIDE DEF Goal
<1>13. CASE ThreadStep
  <2>1. CASE SendBuffer(0) \/ Progress
    <3>1. CASE SendBuffer(0)
      BY <3>1, <1>8
    <3> QED
      BY <2>1, <3>1, <1>8, <1>12 DEF Progress
  <2>2. CASE \/ SpWait \/ StaleEvent \/ ReadZero \/ ReadNothing \/ ReportError \/ Eof
             \/ WriteBlocked \/ WriteEvent \/ WriteFails \/ CloseFd \/ NewFd
    BY <2>2, <1>6, <1>7
  <2> QED
    BY <1>5, <1>13, <2>1, <2>2 DEF ThreadStep
<1>14. CASE \E s \in Svc : SenderStep(s) \/ \E c \in Conn : Send(s, c) \/ SendLow(s, c)
  BY <1>2, <1>3, <1>14
<1>15. CASE \E c \in Conn, op \in {"R", "S", "K", "X"} : Ask(c, op)
  BY <1>4, <1>15
<1> QED
  BY <1>9, <1>10, <1>11, <1>13, <1>14, <1>15 DEF Next

\* The owner ends a connection for good, and none while it sends; and the
\* number of packets it has sent only grows.
LEMMA EndedStays ==
  ASSUME SocketInv, ended \in [Conn -> {"no", "K", "X"}], [Next]_vars
  PROVE  /\ ended' \in [Conn -> {"no", "K", "X"}]
         /\ \A c \in Conn : ended[c] # "no" => ended'[c] # "no"
         /\ pc[Owner] # "idle" => ended' = ended
         /\ sent'[Owner] >= sent[Owner] /\ sent'[Owner] \in Nat
<1> DEFINE Goal == /\ ended' \in [Conn -> {"no", "K", "X"}]
                   /\ \A c \in Conn : ended[c] # "no" => ended'[c] # "no"
                   /\ pc[Owner] # "idle" => ended' = ended
                   /\ sent'[Owner] >= sent[Owner] /\ sent'[Owner] \in Nat
<1> SUFFICES Goal
  OBVIOUS
<1>t. sent \in [Svc -> Nat] /\ Owner \in Svc
  BY OwnerSends DEF SocketInv, Typed
<1>1. ASSUME ended' = ended, sent' = sent \/ \E s \in Svc : sent' = [sent EXCEPT ![s] = @ + 1]
      PROVE  Goal
  BY <1>t, <1>1
<1>2. ASSUME NEW s \in Svc, SenderStep(s)
      PROVE  ended' = ended /\ sent' = sent
  BY <1>2 DEF SenderStep, TryLock, DoubleCheck, IncSending, SendRequest, DirectWrite
<1>3. ASSUME NEW s \in Svc, NEW c \in Conn, Send(s, c) \/ SendLow(s, c)
      PROVE  ended' = ended /\ sent' = [sent EXCEPT ![s] = @ + 1]
  BY <1>3 DEF Send, SendLow, NewPacket
<1>4. ASSUME NEW c \in Conn, NEW op \in {"R", "S", "K", "X"}, Ask(c, op)
      PROVE  Goal
  <2>1. /\ sent' = sent /\ pc[Owner] = "idle"
        /\ ended' = ended \/ ended' = [ended EXCEPT ![c] = "K"] \/ ended' = [ended EXCEPT ![c] = "X"]
    BY <1>4 DEF Ask
  <2> QED
    BY <1>t, <2>1
<1> HIDE DEF Goal
<1>5. CASE ThreadStep \/ ReserveId \/ PeerChanges \/ UNCHANGED vars
  BY <1>1, <1>5, ThreadQuiet
<1>6. CASE \E s \in Svc : SenderStep(s) \/ \E c \in Conn : Send(s, c) \/ SendLow(s, c)
  BY <1>1, <1>2, <1>3, <1>6
<1> QED
  BY <1>4, <1>5, <1>6 DEF Next

\* A service that was told that a connection is open stays so.
LEMMA ToldStays ==
  ASSUME SocketInv, [Next]_vars
  PROVE  \A c \in Conn : told[c].open => told'[c].open
<1>t. /\ told \in [Conn -> [open: BOOLEAN, close: Nat, err: BOOLEAN]]
      /\ type # "INVALID" => id \in Conn
  BY DEF SocketInv, Typed, TypeOK, SlotSound
<1> DEFINE T == \A c \in Conn : told[c].open => told'[c].open
<1> SUFFICES T
  OBVIOUS
<1>1. ASSUME NEW c \in Conn, NEW what \in {"open", "close", "err", "nothing"}, Raise(c, what)
      PROVE  T
  BY <1>t, <1>1, Raised
<1>2. ASSUME told' = told
      PROVE  T
  BY <1>2
<1> HIDE DEF T
<1>3. ASSUME NEW c \in Conn, ResumeSocket(c)
      PROVE  T
  <2>1. Raise(c, "open") \/ Raise(c, "nothing") \/ Raise(c, "err")
    BY <1>3 DEF ResumeSocket
  <2> QED
    BY <1>1, <2>1
<1>4. ASSUME NEW c \in Conn, NEW shutdown \in BOOLEAN, CloseSocket(c, shutdown)
      PROVE  T
  <2>1. Raise(c, "close") \/ told' = told
    BY <1>4 DEF CloseSocket, CloseRead
  <2> QED
    BY <1>1, <1>2, <2>1
<1>5. CASE ReadZero
  <2>1. (Raise(id, "close") \/ told' = told) /\ id \in Conn
    BY <1>t, <1>5 DEF ReadZero, CloseRead
  <2> QED
    BY <1>1, <1>2, <2>1
<1>6. CASE ReportError
  <2>1. Raise(id, "err") /\ id \in Conn
    BY <1>t, <1>6 DEF ReportError
  <2> QED
    BY <1>1, <2>1
<1>7. CASE WriteFails
  <2>1. (Raise(id, "err") \/ told' = told) /\ id \in Conn
    BY <1>t, <1>7 DEF WriteFails, SocketInv, SlotSound, Alive
  <2> QED
    BY <1>1, <1>2, <2>1
<1>8. CASE CloseFd
  <2>1. (Raise(id, "nothing") \/ Raise(id, "close")) /\ id \in Conn
    BY <1>t, <1>8 DEF CloseFd, SocketInv, SlotSound
  <2> QED
    BY <1>1, <2>1
<1>9. ASSUME NEW c \in Conn, PauseSocket(c) \/ TriggerWrite(c) \/ SendSocket(c)
      PROVE  T
  BY <1>2, <1>9 DEF PauseSocket, TriggerWrite, SendSocket
<1>10. CASE SpWait \/ StaleEvent \/ ReadNothing \/ Eof \/ WriteBlocked \/ WriteEvent \/ NewFd
  BY <1>2, <1>10 DEF SpWait, StaleEvent, ReadNothing, Eof, WriteBlocked, WriteEvent, NewFd
<1>11. ASSUME NEW k \in Nat, SendBuffer(k)
       PROVE  T
  BY <1>2, <1>11 DEF SendBuffer
<1>12. CASE ReserveId \/ PeerChanges \/ UNCHANGED vars
  BY <1>2, <1>12 DEF ReserveId, PeerChanges, vars
<1>13. \A k \in 1..(Len(high) + Len(low)) : k \in Nat
  BY DEF SocketInv, Typed, TypeOK
<1>14. CASE ThreadStep
  BY <1>3, <1>4, <1>5, <1>6, <1>7, <1>8, <1>9, <1>10, <1>11, <1>13, <1>14 DEF ThreadStep, Progress
<1>15. CASE \E s \in Svc : SenderStep(s) \/ \E c \in Conn : Send(s, c) \/ SendLow(s, c)
  BY <1>2, <1>15 DEF SenderStep, TryLock, DoubleCheck, IncSending, SendRequest, DirectWrite, Send, SendLow, NewPacket
<1>16. CASE \E c \in Conn, op \in {"R", "S", "K", "X"} : Ask(c, op)
  BY <1>2, <1>16 DEF Ask
<1> QED
  BY <1>12, <1>14, <1>15, <1>16 DEF Next

\* What the owner carries after a step it carried, or has just begun to send.
LEMMA CarryFrom ==
  ASSUME SocketInv, [Next]_vars, Carries(Owner)'
  PROVE  \/ Carries(Owner) /\ pk'[Owner] = pk[Owner]
         \/ pc[Owner] = "idle" /\ pk'[Owner].seq = sent[Owner] + 1
<1>t. /\ sent \in [Svc -> Nat] /\ pc \in [Svc -> Steps] /\ pk \in [Svc -> Packet \cup {Nil}]
  BY CarriedTyped
<1>1. CASE UNCHANGED <<pc, pk>>
  BY <1>1 DEF Carries
<1>2. ASSUME NEW s \in Svc, SenderStep(s)
      PROVE  Carries(Owner) /\ pk'[Owner] = pk[Owner]
  <2>1. CASE s = Owner
    BY <1>t, <1>2, <2>1 DEF SenderStep, TryLock, DoubleCheck, IncSending, SendRequest, DirectWrite, Moves, Done,
                      Carries
  <2>2. CASE s # Owner
    BY <1>t, <1>2, <2>2 DEF SenderStep, TryLock, DoubleCheck, IncSending, SendRequest, DirectWrite, Moves, Done,
                      Carries
  <2> QED
    BY <2>1, <2>2
<1>3. ASSUME NEW s \in Svc, NEW c \in Conn, Send(s, c) \/ SendLow(s, c)
      PROVE  \/ Carries(Owner) /\ pk'[Owner] = pk[Owner]
             \/ pc[Owner] = "idle" /\ pk'[Owner].seq = sent[Owner] + 1
  <2>1. PICK prio \in BOOLEAN : pk' = [pk EXCEPT ![s] = [to |-> c, from |-> s, seq |-> sent[s] + 1, low |-> prio]]
    BY <1>3 DEF Send, SendLow, NewPacket
  <2>2. pc[s] = "idle" /\ \E st : pc' = [pc EXCEPT ![s] = st]
    BY <1>3 DEF Send, SendLow, Moves
  <2>3. CASE s = Owner
    BY <1>t, <2>1, <2>2, <2>3
  <2>4. CASE s # Owner
    BY <1>t, <2>1, <2>2, <2>4 DEF Carries
  <2> QED
    BY <2>3, <2>4
<1>4. ASSUME NEW c \in Conn, NEW op \in {"R", "S", "K", "X"}, Ask(c, op)
      PROVE  UNCHANGED <<pc, pk>>
  BY <1>4 DEF Ask
<1>5. CASE ThreadStep \/ ReserveId \/ PeerChanges \/ UNCHANGED vars
  BY <1>1, <1>5, ThreadQuiet
<1> QED
  BY <1>1, <1>2, <1>3, <1>4, <1>5 DEF Next

\* What is under way was before.
LEMMA UnderWayFrom ==
  ASSUME SocketInv, Numbered, [Next]_vars, NEW p \in Packet, p.from = Owner, p.seq <= sent[Owner], UnderWay(p)'
  PROVE  UnderWay(p)
<1>t. sent[Owner] \in Nat /\ p.seq \in Nat
  BY CarriedTyped DEF Packet
<1>1. CASE Carries(Owner)' /\ pk'[Owner] = p
  <2>1. ~(pk'[Owner].seq = sent[Owner] + 1)
    BY <1>t, <1>1
  <2> QED
    BY <1>1, <2>1, CarryFrom DEF UnderWay
<1>2. ASSUME NEW i \in 1..Len(pipe'), Queued(i)', pipe'[i].packet = p
      PROVE  UnderWay(p)
  <2>1. CASE \E j \in 1..Len(pipe) : Queued(j) /\ pipe[j] = pipe'[i]
    BY <1>2, <2>1 DEF UnderWay
  <2>2. ASSUME NEW s \in Svc, pc[s] = "pipeD", pipe'[i].packet = pk[s]
        PROVE  UnderWay(p)
    <3>1. s = Owner
      BY <1>2, <2>2 DEF Numbered
    <3> QED
      BY <1>2, <2>2, <3>1 DEF UnderWay, Carries
  <2> QED
    BY <1>2, <2>1, <2>2, QueuedFrom
<1> QED
  BY <1>1, <1>2 DEF UnderWay

\* The next command is the first one in the pipe.
LEMMA Head1 ==
  ASSUME SocketInv, pipe # <<>>
  PROVE  Head(pipe) = pipe[1]
BY HeadTailProperties

\* A command leaves the pipe only when it is carried out.
LEMMA PipeSame ==
  ASSUME SocketInv, ThreadStep \/ ReserveId \/ PeerChanges \/ UNCHANGED vars,
         ~\E c \in Conn : SendSocket(c), \A op, c : Command(op, c) => op = "D"
  PROVE  pipe' = pipe
<1>1. ASSUME NEW c \in Conn, ResumeSocket(c) \/ PauseSocket(c) \/ TriggerWrite(c)
      PROVE  FALSE
  BY <1>1 DEF ResumeSocket, PauseSocket, TriggerWrite
<1>2. ASSUME NEW c \in Conn, NEW shutdown \in BOOLEAN, CloseSocket(c, shutdown)
      PROVE  FALSE
  <2>1. Command("K", c) \/ Command("X", c)
    BY <1>2 DEF CloseSocket
  <2> QED
    BY <2>1
<1>3. CASE SpWait \/ StaleEvent \/ ReadZero \/ ReadNothing \/ ReportError \/ Eof \/ WriteBlocked
  BY <1>3 DEF SpWait, StaleEvent, ReadZero, ReadNothing, ReportError, Eof, WriteBlocked, Event
<1>4. CASE WriteEvent \/ WriteFails \/ CloseFd \/ NewFd \/ ReserveId \/ PeerChanges
  BY <1>4 DEF WriteEvent, WriteFails, CloseFd, NewFd, ReserveId, PeerChanges
<1>5. ASSUME NEW k \in Nat, SendBuffer(k)
      PROVE  pipe' = pipe
  BY <1>5 DEF SendBuffer
<1>6. CASE UNCHANGED vars
  BY <1>6 DEF vars
<1>7. \A k \in 1..(Len(high) + Len(low)) : k \in Nat
  BY DEF SocketInv, Typed, TypeOK
<1> QED
  BY <1>1, <1>2, <1>3, <1>4, <1>5, <1>6, <1>7 DEF ThreadStep, Progress

\* What was under way still is, or is written, or comes out of the pipe.
LEMMA UnderWayTo ==
  ASSUME SocketInv, Numbered, [Next]_vars, NEW p, UnderWay(p)
  PROVE  \/ UnderWay(p)'
         \/ \E k \in 0..Pieces : DirectWrite(Owner, k) /\ pk[Owner] = p
         \/ \E c \in Conn : SendSocket(c) /\ pipe[1].packet = p
<1> DEFINE Goal == \/ UnderWay(p)'
                   \/ \E k \in 0..Pieces : DirectWrite(Owner, k) /\ pk[Owner] = p
                   \/ \E c \in Conn : SendSocket(c) /\ pipe[1].packet = p
<1>t. /\ pc \in [Svc -> Steps] /\ pk \in [Svc -> Packet \cup {Nil}]
  BY CarriedTyped
<1>1. CASE Carries(Owner) /\ pk[Owner] = p
  <2>1. ASSUME NEW s \in Svc, SenderStep(s), s # Owner
        PROVE  UnderWay(p)'
    <3>1. pc'[Owner] = pc[Owner] /\ pk'[Owner] = pk[Owner]
      BY <1>t, <2>1 DEF SenderStep, TryLock, DoubleCheck, IncSending, SendRequest, DirectWrite, Moves, Done
    <3> QED
      BY <1>1, <3>1 DEF UnderWay, Carries
  <2>2. CASE TryLock(Owner) \/ DoubleCheck(Owner) \/ IncSending(Owner)
    <3>1. Carries(Owner)' /\ pk'[Owner] = pk[Owner]
      BY <1>t, <2>2 DEF TryLock, DoubleCheck, IncSending, Moves, Carries
    <3> QED
      BY <1>1, <3>1 DEF UnderWay
  <2>3. CASE SendRequest(Owner)
    <3>1. pk[Owner] \in Packet /\ pc[Owner] = "pipeD"
          /\ pipe' = Append(pipe, [op |-> "D", to |-> pk[Owner].to, packet |-> pk[Owner]])
      BY <1>1, <2>3, CarriedTyped DEF SendRequest, Carries
    <3>2. [op |-> "D", to |-> pk[Owner].to, packet |-> pk[Owner]] \in Commands
      BY <3>1 DEF Commands, Packet
    <3>3. Len(pipe) \in Nat /\ Len(pipe') = Len(pipe) + 1
          /\ pipe'[Len(pipe) + 1] = [op |-> "D", to |-> pk[Owner].to, packet |-> pk[Owner]]
      BY <3>1, <3>2, PipeAppend
    <3>4. PICK n \in 1..Len(pipe') : pipe'[n] = [op |-> "D", to |-> pk[Owner].to, packet |-> pk[Owner]]
      BY <3>3
    <3>5. Queued(n)' /\ pipe'[n].packet = p
      BY <1>1, <3>4 DEF Queued
    <3> QED
      BY <3>5 DEF UnderWay
  <2>4. CASE \E k \in 0..Pieces : DirectWrite(Owner, k)
    BY <1>1, <2>4
  <2>5. ASSUME NEW s \in Svc, NEW c \in Conn, Send(s, c) \/ SendLow(s, c)
        PROVE  UnderWay(p)'
    <3>1. s # Owner
      BY <1>1, <2>5 DEF Send, SendLow, Moves, Carries
    <3>2. pc'[Owner] = pc[Owner] /\ pk'[Owner] = pk[Owner]
      BY <1>t, <2>5, <3>1 DEF Send, SendLow, NewPacket, Moves
    <3> QED
      BY <1>1, <3>2 DEF UnderWay, Carries
  <2>6. ASSUME NEW c \in Conn, NEW op \in {"R", "S", "K", "X"}, Ask(c, op)
        PROVE  UnderWay(p)'
    BY <1>1, <2>6 DEF Ask, UnderWay, Carries
  <2>7. CASE ThreadStep \/ ReserveId \/ PeerChanges \/ UNCHANGED vars
    BY <1>1, <2>7, ThreadQuiet DEF UnderWay, Carries
  <2>8. CASE \E s \in Svc : SenderStep(s) \/ \E c \in Conn : Send(s, c) \/ SendLow(s, c)
    BY <2>1, <2>2, <2>3, <2>4, <2>5, <2>8 DEF SenderStep
  <2> QED
    BY <2>6, <2>7, <2>8 DEF Next
<1>2. ASSUME NEW i \in 1..Len(pipe), Queued(i), pipe[i].packet = p
      PROVE  Goal
  <2>1. CASE pipe' = pipe
    BY <1>2, <2>1 DEF UnderWay, Queued
  <2>2. ASSUME NEW m \in Commands, pipe' = Append(pipe, m)
        PROVE  UnderWay(p)'
    <3>1. i \in 1..Len(pipe') /\ pipe'[i] = pipe[i]
      BY <1>2, <2>2, PipeAppend
    <3> QED
      BY <1>2, <3>1 DEF UnderWay, Queued
  <2>3. CASE pipe # <<>> /\ pipe' = Tail(pipe) /\ i # 1
    <3>1. Len(pipe) \in Nat /\ Len(pipe') = Len(pipe) - 1 /\ \A j \in 1..Len(pipe') : pipe'[j] = pipe[j + 1]
      BY <2>3, PipeTail
    <3>2. i - 1 \in 1..Len(pipe') /\ (i - 1) + 1 = i
      BY <2>3, <3>1
    <3>3. pipe'[i - 1] = pipe[i]
      BY <3>1, <3>2
    <3> QED
      BY <1>2, <3>2, <3>3 DEF UnderWay, Queued
  <2>4. CASE ThreadStep \/ ReserveId \/ PeerChanges \/ UNCHANGED vars
    <3>1. CASE \E c \in Conn : SendSocket(c)
      <4>1. CASE i = 1
        BY <1>2, <3>1, <4>1
      <4>2. CASE i # 1
        BY <2>1, <2>3, <2>4, <4>2, ThreadQuiet
      <4> QED
        BY <4>1, <4>2
    <3>2. CASE ~\E c \in Conn : SendSocket(c)
      <4>1. CASE i = 1
        <5>1. \A op, c : Command(op, c) => op = "D"
          <6>1. pipe # <<>> => Head(pipe) = pipe[1]
            BY Head1
          <6> QED
            BY <1>2, <4>1, <6>1 DEF Command, Queued
        <5>2. pipe' = pipe
          BY <2>4, <3>2, <5>1, PipeSame
        <5> QED
          BY <2>1, <5>2
      <4>2. CASE i # 1
        BY <2>1, <2>3, <2>4, <4>2, ThreadQuiet
      <4> QED
        BY <4>1, <4>2
    <3> QED
      BY <3>1, <3>2
  <2>5. ASSUME NEW s \in Svc, SenderStep(s)
        PROVE  Goal
    <3>1. CASE SendRequest(s)
      <4>1. pk[s] \in Packet /\ pk[s].to \in Conn
        BY <3>1, CarriedTyped DEF SendRequest
      <4>2. \E m \in Commands : pipe' = Append(pipe, m)
        BY <3>1, <4>1 DEF SendRequest, Commands
      <4> QED
        BY <2>2, <4>2
    <3>2. CASE ~SendRequest(s)
      BY <2>1, <2>5, <3>2 DEF SenderStep, TryLock, DoubleCheck, IncSending, DirectWrite
    <3> QED
      BY <3>1, <3>2
  <2>6. ASSUME NEW s \in Svc, NEW c \in Conn, Send(s, c) \/ SendLow(s, c)
        PROVE  Goal
    BY <2>1, <2>6 DEF Send, SendLow, NewPacket
  <2>7. ASSUME NEW c \in Conn, NEW op \in {"R", "S", "K", "X"}, Ask(c, op)
        PROVE  Goal
    <3>1. pipe' = Append(pipe, [op |-> op, to |-> c]) /\ [op |-> op, to |-> c] \in Commands
      BY <2>7 DEF Ask, Commands
    <3> QED
      BY <2>2, <3>1
  <2> QED
    BY <2>4, <2>5, <2>6, <2>7 DEF Next
<1> QED
  BY <1>1, <1>2 DEF UnderWay

\* What is in the stream stays in it.
LEMMA ContentsGrow ==
  ASSUME SocketInv, LossSeen, Numbered, StreamSound, [Next]_vars,
         type # "INVALID", type' # "INVALID", ~spoiled'
  PROVE  Contents \subseteq Contents'
<1>1. CASE UNCHANGED <<wire, dw, high, low>>
  BY <1>1 DEF Contents, Stream, Elements
<1>2. ASSUME NEW c \in Conn, SendSocket(c)
      PROVE  Contents \subseteq Contents'
  <2>1. UNCHANGED <<wire, dw, high, low>> \/ Contents' = Contents \cup {pipe[1].packet}
    BY <1>2, ReceiveStream
  <2> QED
    BY <1>1, <2>1
<1>3. ASSUME NEW s \in Svc, NEW k \in 0..Pieces, DirectWrite(s, k)
      PROVE  Contents \subseteq Contents'
  BY <1>3, DirectStream
<1>4. CASE WriteEvent
  BY <1>4, Gathered DEF Contents
<1>5. ASSUME NEW k \in Nat, SendBuffer(k)
      PROVE  Contents \subseteq Contents'
  BY <1>5, SentOff DEF Contents
<1> QED
  BY <1>1, <1>2, <1>3, <1>4, <1>5, WireChanges

\* How a connection comes to be closed: by the owner's command, or at once
\* when it was lost before it was started.
LEMMA EndsFrom ==
  ASSUME SocketInv, SocketInv', LossSeen, [Next]_vars, ~spoiled', Ends'
  PROVE  /\ type # "INVALID" /\ type' # "INVALID" /\ id' = id /\ ~spoiled /\ task' # "accept"
         /\ \/ Ends /\ (type = "PACCEPT" => type' = "PACCEPT")
            \/ \E c \in Conn : CloseSocket(c, FALSE) /\ Valid(c)
            \/ Eof /\ type = "PACCEPT"
         /\ task' \in {"close", "tell"} => \/ task \in {"close", "tell"} /\ task' = task
                                           \/ dw = <<>> /\ dw' = <<>>
<1> DEFINE Way == \/ Ends /\ (type = "PACCEPT" => type' = "PACCEPT")
                  \/ \E c \in Conn : CloseSocket(c, FALSE) /\ Valid(c)
                  \/ Eof /\ type = "PACCEPT"
           Over == task' \in {"close", "tell"} => \/ task \in {"close", "tell"} /\ task' = task
                                                  \/ dw = <<>> /\ dw' = <<>>
           Goal == Way /\ Over
<1>0. /\ task = "accept" <=> type = "RESERVE"
      /\ task = "send" => type \notin {"INVALID", "RESERVE"}
      /\ closing /\ type \notin {"INVALID", "RESERVE"} => type = "HALFCLOSE_READ"
      /\ type = "HALFCLOSE_WRITE" => spoiled
      /\ "eof" \in ready => spoiled \/ type \in {"INVALID", "RESERVE"} \/ (type = "PACCEPT" /\ ~checkctrl)
      /\ type = "PACCEPT" => dw = <<>>
  BY DEF SocketInv, SlotSound, ListsEmpty, Alive, LossSeen
<1>1. type' \notin {"INVALID", "RESERVE"} /\ task' # "accept"
  BY DEF SocketInv, SlotSound, Ends, Closing
<1>2. type # "INVALID"
  <2> SUFFICES ASSUME type = "INVALID"
               PROVE  FALSE
    OBVIOUS
  <2>1. ReserveId
    BY <1>1, Reserved
  <2> QED
    BY <1>1, <2>1 DEF ReserveId
<1>3. id' = id /\ ~spoiled
  BY <1>1, <1>2, WireChanges
<1> SUFFICES Goal
  BY <1>1, <1>2, <1>3
<1>4. ASSUME UNCHANGED <<type, closing, task>>
      PROVE  Goal
  BY <1>4 DEF Ends, Closing
<1>5. ASSUME NEW s \in Svc, SenderStep(s)
      PROVE  UNCHANGED <<type, closing, task>>
  BY <1>5 DEF SenderStep, TryLock, DoubleCheck, IncSending, SendRequest, DirectWrite, socketVars
<1>6. ASSUME NEW s \in Svc, NEW c \in Conn, Send(s, c) \/ SendLow(s, c)
      PROVE  UNCHANGED <<type, closing, task>>
  BY <1>6 DEF Send, SendLow, NewPacket, socketVars
<1>7. ASSUME NEW c \in Conn, NEW op \in {"R", "S", "K", "X"}, Ask(c, op)
      PROVE  UNCHANGED <<type, closing, task>>
  BY <1>7 DEF Ask, socketVars
<1>8. ASSUME NEW c \in Conn, PauseSocket(c) \/ TriggerWrite(c) \/ SendSocket(c)
      PROVE  UNCHANGED <<type, closing, task>>
  BY <1>8 DEF PauseSocket, TriggerWrite, SendSocket
<1>9. CASE SpWait \/ StaleEvent \/ ReadNothing \/ ReportError \/ WriteBlocked \/ PeerChanges \/ UNCHANGED vars
  <2>1. UNCHANGED <<type, closing, task>>
    BY <1>9 DEF SpWait, StaleEvent, ReadNothing, ReportError, WriteBlocked, Event, PeerChanges, socketVars, vars
  <2> QED
    BY <1>4, <2>1
<1>10. ASSUME NEW c \in Conn, ResumeSocket(c)
       PROVE  Goal
  <2>1. closing' = closing /\ task = "idle" /\ task' = "idle"
    BY <1>10 DEF ResumeSocket, Command
  <2>2. closing /\ type = "HALFCLOSE_READ"
    BY <1>0, <1>2, <2>1 DEF Ends, Closing
  <2> QED
    BY <2>1, <2>2 DEF Ends, Closing
<1>11. ASSUME NEW c \in Conn, NEW shutdown \in BOOLEAN, CloseSocket(c, shutdown)
       PROVE  Goal
  <2>1. /\ task = "idle" /\ dw' = dw /\ spoiled' = (spoiled \/ (shutdown /\ Valid(c)))
    BY <1>11 DEF CloseSocket, Command, Spoil
  <2>2. CASE ~Valid(c)
    BY <1>4, <1>11, <2>2 DEF CloseSocket
  <2>3. CASE Valid(c)
    <3>1. shutdown = FALSE
      BY <2>1, <2>3
    <3>2. CASE NomoreSendingData
      BY <1>0, <1>3, <1>11, <2>1, <2>3, <3>1, <3>2 DEF NomoreSendingData
    <3>3. CASE ~NomoreSendingData
      <4>1. task' = "idle"
        BY <1>11, <2>1, <2>3, <3>1, <3>3 DEF CloseSocket
      <4> QED
        BY <1>11, <2>3, <3>1, <4>1
    <3> QED
      BY <3>2, <3>3
  <2> QED
    BY <2>2, <2>3
<1>12. CASE ReadZero
  <2>1. task = "idle" /\ closing' = closing /\ dw' = dw
    BY <1>12 DEF ReadZero, Event
  <2>2. CASE closing /\ NomoreSendingData
    <3>1. dw = <<>>
      BY <1>0, <1>3, <2>2 DEF NomoreSendingData
    <3>2. Ends /\ type # "PACCEPT"
      BY <1>0, <1>2, <2>1, <2>2 DEF Ends, Closing
    <3> QED
      BY <2>1, <3>1, <3>2
  <2>3. CASE ~(closing /\ NomoreSendingData)
    <3>1. task' = task
      BY <1>0, <1>3, <1>12, <2>3 DEF ReadZero
    <3>2. closing /\ type \notin {"INVALID", "RESERVE", "PACCEPT"}
      BY <1>0, <1>2, <2>1, <3>1 DEF Ends, Closing
    <3> QED
      BY <2>1, <3>1, <3>2 DEF Ends, Closing
  <2> QED
    BY <2>2, <2>3
<1>13. CASE Eof
  <2>1. "eof" \in ready /\ task = "idle" /\ dw' = dw
    BY <1>13 DEF Eof, Event
  <2>2. type = "PACCEPT"
    BY <1>0, <1>2, <1>3, <2>1
  <2> QED
    BY <1>0, <1>13, <2>1, <2>2
<1>14. CASE WriteEvent
  <2>1. task' = "send" /\ closing' = closing /\ type' = type
    BY <1>14 DEF WriteEvent
  <2> QED
    BY <2>1 DEF Ends, Closing
<1>15. ASSUME task = "send", task' = "idle", closing' = closing
       PROVE  Goal
  <2>1. closing /\ type \notin {"INVALID", "RESERVE", "PACCEPT"}
    BY <1>0, <1>15 DEF Ends, Closing
  <2> QED
    BY <1>15, <2>1 DEF Ends, Closing
<1>16. ASSUME NEW k \in Nat, SendBuffer(k)
       PROVE  Goal
  <2>1. task = "send" /\ task' = "idle" /\ closing' = closing
    BY <1>16 DEF SendBuffer
  <2> QED
    BY <1>15, <2>1
<1>17. CASE WriteFails
  <2>1. task = "send" /\ task' = "idle" /\ closing' = closing
    BY <1>17 DEF WriteFails
  <2> QED
    BY <1>15, <2>1
<1>18. ~(CloseFd \/ NewFd \/ ReserveId)
  BY <1>1 DEF CloseFd, NewFd, ReserveId, Ends, Closing
<1>19. \A k \in 1..(Len(high) + Len(low)) : k \in Nat
  BY DEF SocketInv, Typed, TypeOK
<1>20. \A s \in Svc : SenderStep(s) => Goal
  BY <1>4, <1>5
<1>21. \A s \in Svc, c \in Conn : Send(s, c) \/ SendLow(s, c) => Goal
  BY <1>4, <1>6
<1>22. \A c \in Conn, op \in {"R", "S", "K", "X"} : Ask(c, op) => Goal
  BY <1>4, <1>7
<1>23. \A c \in Conn : PauseSocket(c) \/ TriggerWrite(c) \/ SendSocket(c) => Goal
  BY <1>4, <1>8
<1> HIDE DEF Goal
<1>24. CASE ThreadStep
  BY <1>9, <1>10, <1>11, <1>12, <1>13, <1>14, <1>16, <1>17, <1>18, <1>19, <1>23, <1>24 DEF ThreadStep, Progress
<1> QED
  BY <1>9, <1>18, <1>20, <1>21, <1>22, <1>24 DEF Next

\* A connection that is being closed has nothing of the owner under way, from
\* the step in which that begins.
LEMMA EmptiedStep ==
  ASSUME SocketInv, SocketInv', Numbered, LossSeen, OwedSound, [Next]_vars, ~spoiled', Ends'
  PROVE  Emptied'
<1>1. /\ type # "INVALID" /\ type' # "INVALID" /\ id' = id /\ ~spoiled /\ task' # "accept"
      /\ \/ Ends /\ (type = "PACCEPT" => type' = "PACCEPT")
         \/ \E c \in Conn : CloseSocket(c, FALSE) /\ Valid(c)
         \/ Eof /\ type = "PACCEPT"
      /\ task' \in {"close", "tell"} => \/ task \in {"close", "tell"} /\ task' = task
                                        \/ dw = <<>> /\ dw' = <<>>
  BY EndsFrom
<1>2. /\ ended \in [Conn -> {"no", "K", "X"}] /\ id \in Conn
      /\ \A p \in owed : p \in Packet /\ p.to = id /\ p.from = Owner /\ p.seq <= sent[Owner] /\ told[id].open
      /\ \A p \in owed : p \in Contents \/ UnderWay(p)
      /\ Carries(Owner) /\ pk[Owner] \in owed => ended[id] = "no"
      /\ Ends => Emptied
  BY <1>1 DEF OwedSound, Emptied, SocketInv, SlotSound, Typed, TypeOK
<1>3. \A c \in Conn : ended[c] # "no" => ended'[c] # "no"
  BY <1>2, EndedStays
<1>4. \A p \in owed : UnderWay(p)' => UnderWay(p)
  BY <1>2, UnderWayFrom
<1>5. task' \in {"idle", "send", "close", "tell"}
  BY <1>1 DEF SocketInv, Typed, TypeOK
<1>6. told[id].open => type # "PACCEPT"
  <2>1. id \in Int
    BY <1>2, Bounds DEF Conn
  <2> QED
    BY <1>2, <2>1 DEF SocketInv, SendsSound
<1>n. Elements(<<>>) = {}
  BY DEF Elements
<1>7. CASE Ends /\ (type = "PACCEPT" => type' = "PACCEPT")
  <2>1. Emptied
    BY <1>2, <1>7
  <2>2. owed' = {} \/ owed' = owed
    <3>1. ended[id] = "no" /\ told[id].open => FALSE
      BY <1>6, <2>1 DEF Emptied
    <3> QED
      BY <3>1, OwedChanges
  <2>3. ended'[id'] # "no" \/ type' = "PACCEPT"
    BY <1>1, <1>2, <1>3, <1>7, <2>1 DEF Emptied
  <2>4. \A p \in owed' : ~UnderWay(p)'
    BY <1>4, <2>1, <2>2 DEF Emptied
  <2>5. ASSUME task' \in {"close", "tell"}, owed' = owed
        PROVE  Elements(dw') \cap owed' = {}
    <3>1. CASE dw = <<>> /\ dw' = <<>>
      BY <1>n, <3>1
    <3>2. CASE task \in {"close", "tell"} /\ task' = task
      <4>1. Elements(dw) \cap owed = {}
        BY <2>1, <3>2 DEF Emptied
      <4>2. CASE dw' = dw
        BY <2>5, <4>1, <4>2
      <4>3. ASSUME NEW s \in Svc, NEW k \in 0..Pieces, DirectWrite(s, k)
            PROVE  Elements(dw') \cap owed' = {}
        <5>1. pc[s] = "write" /\ dw' = SubSeq(Whole(pk[s]), k + 1, Pieces)
          BY <4>3 DEF DirectWrite
        <5>2. Carries(s) /\ pk[s] \in Packet /\ pk[s].from = s
          BY <5>1, CarriedTyped DEF Carries, Numbered
        <5>3. pk[s] \notin owed
          <6> SUFFICES ASSUME pk[s] \in owed
                       PROVE  FALSE
            OBVIOUS
          <6>1. s = Owner
            BY <1>2, <5>2
          <6>2. UnderWay(pk[s])
            BY <5>2, <6>1 DEF UnderWay
          <6> QED
            BY <2>1, <6>2 DEF Emptied
        <5>4. Elements(dw') \subseteq {pk[s]}
          <6>1. PICK q \in Packet : q = pk[s]
            BY <5>2
          <6>2. PICK l \in Seq(Packet) : l = Whole(q) /\ Len(l) = Pieces
            BY WholePacket
          <6>3. /\ SubSeq(l, 1, k) \in Seq(Packet) /\ SubSeq(l, k + 1, Len(l)) \in Seq(Packet)
                /\ SubSeq(l, 1, k) \o SubSeq(l, k + 1, Len(l)) = l
            BY <6>2, SplitAt
          <6>4. PICK a \in Seq(Packet), b \in Seq(Packet) : a = SubSeq(l, 1, k) /\ b = SubSeq(l, k + 1, Len(l))
            BY <6>3
          <6>5. Elements(a \o b) = Elements(a) \cup Elements(b) /\ a \o b = l
            BY <6>3, <6>4, ElementsJoin
          <6>6. Elements(l) = {q}
            BY <6>2, ElementsWhole
          <6>7. dw' = b
            BY <5>1, <6>1, <6>2, <6>4
          <6> QED
            BY <6>1, <6>5, <6>6, <6>7
        <5> QED
          BY <2>5, <5>3, <5>4
      <4>4. ASSUME NEW c \in Conn, SendSocket(c)
            PROVE  dw' = dw
        BY <4>4, Received
      <4>5. CASE WriteEvent
        BY <2>5, <4>5 DEF WriteEvent
      <4>6. ASSUME NEW k \in Nat, SendBuffer(k)
            PROVE  FALSE
        BY <2>5, <4>6 DEF SendBuffer
      <4> QED
        BY <1>1, <4>2, <4>3, <4>4, <4>5, <4>6, WireChanges
    <3> QED
      BY <1>1, <2>5, <3>1, <3>2
  <2> QED
    BY <1>5, <2>2, <2>3, <2>4, <2>5 DEF Emptied
<1>8. ASSUME NEW c \in Conn, CloseSocket(c, FALSE), Valid(c)
      PROVE  Emptied'
  <2>1. /\ c = id /\ pipe # <<>> /\ Head(pipe).op = "K" /\ Head(pipe).to = c /\ task = "idle"
        /\ dw' = dw /\ owed' = owed /\ ended' = ended
    BY <1>1, <1>8 DEF CloseSocket, Command, Spoil, Valid
  <2>2. 1 \in 1..Len(pipe) /\ pipe[1].op = "K" /\ pipe[1].to = id
    <3>1. pipe \in Seq(Commands)
      BY DEF SocketInv, Typed
    <3> QED
      BY <2>1, <3>1, Head1
  <2>3. ended[id] # "no"
    BY <2>2 DEF OwedSound
  <2>4. \A p \in owed : ~UnderWay(p)
    <3> SUFFICES ASSUME NEW p \in owed, UnderWay(p)
                 PROVE  FALSE
      OBVIOUS
    <3>1. PICK i \in 1..Len(pipe) : Queued(i) /\ pipe[i].packet = p
      BY <1>2, <2>3 DEF UnderWay
    <3>2. i # 1
      BY <2>2, <3>1 DEF Queued
    <3>3. 1 < i
      BY <3>2
    <3> QED
      BY <2>2, <3>1, <3>3 DEF OwedSound
  <2>5. task' \in {"close", "tell"} => dw' = <<>>
    BY <1>1, <2>1
  <2> QED
    BY <1>1, <1>2, <1>4, <1>5, <1>n, <2>1, <2>3, <2>4, <2>5 DEF Emptied
<1>9. CASE Eof /\ type = "PACCEPT"
  <2>1. type' = type /\ owed' = owed
    BY <1>9 DEF Eof, Event, ghosts
  <2>2. owed = {}
    BY <1>2, <1>6, <1>9
  <2> QED
    BY <1>9, <2>1, <2>2 DEF Emptied
<1> QED
  BY <1>1, <1>7, <1>8, <1>9

\* What the owner sent to a connection is under way or in the stream.
LEMMA OwedKept ==
  ASSUME SocketInv, SocketInv', Numbered, LossSeen, OwedSound, [Next]_vars,
         ~spoiled /\ type # "INVALID" => StreamSound, ~spoiled', type' # "INVALID", NEW p \in owed'
  PROVE  p \in Contents' \/ UnderWay(p)'
<1>1. CASE type = "INVALID"
  <2>1. ReserveId
    BY <1>1, Reserved
  <2> QED
    BY <2>1 DEF ReserveId
<1>2. CASE type # "INVALID"
  <2>1. id' = id /\ ~spoiled /\ StreamSound
    BY <1>2, WireChanges
  <2>2. Contents \subseteq Contents'
    BY <1>2, <2>1, ContentsGrow
  <2>3. CASE p \in owed
    <3>1. p \in Contents \/ UnderWay(p)
      BY <1>2, <2>1, <2>3 DEF OwedSound
    <3>2. p.to = id /\ told[id].open
      BY <2>3 DEF OwedSound
    <3>3. CASE UnderWay(p)
      <4>1. ASSUME NEW k \in 0..Pieces, DirectWrite(Owner, k), pk[Owner] = p
            PROVE  p \in Contents'
        <5>1. Owner \in Svc
          BY OwnerSends
        <5> QED
          BY <2>1, <4>1, <5>1, DirectStream
      <4>2. ASSUME NEW c \in Conn, SendSocket(c), pipe[1].packet = p
            PROVE  p \in Contents'
        <5>1. \/ ~Accepts(c) /\ UNCHANGED <<wire, dw, high, low>>
              \/ c = id /\ Contents' = Contents \cup {pipe[1].packet}
          BY <2>1, <4>2, ReceiveStream
        <5>2. c = id
          <6>1. Queued(1) /\ pipe[1].to = c /\ 1 \in 1..Len(pipe)
            BY <4>2, Received
          <6> QED
            BY <3>2, <4>2, <6>1 DEF Numbered
        <5>3. type # "HALFCLOSE_WRITE"
          BY <2>1 DEF LossSeen
        <5>4. type \notin {"PACCEPT", "RESERVE"}
          <6>1. id \in Int
            BY Bounds DEF SocketInv, Typed, TypeOK, Conn
          <6> QED
            BY <3>2, <5>2, <6>1 DEF SocketInv, SendsSound
        <5>5. ~closing
          <6>1. ~Ends
            BY <2>1, <2>3, <3>3 DEF OwedSound, Emptied
          <6> QED
            BY <1>2, <5>4, <6>1 DEF Ends, Closing
        <5>6. Accepts(c)
          BY <1>2, <5>2, <5>3, <5>4, <5>5 DEF Accepts, Valid
        <5> QED
          BY <4>2, <5>1, <5>6
      <4> QED
        BY <3>3, <4>1, <4>2, UnderWayTo
    <3> QED
      BY <2>2, <3>1, <3>3
  <2>4. CASE p \notin owed
    <3>1. Carries(Owner)' /\ p = pk'[Owner]
      BY <2>1, <2>4, OwedChanges
    <3> QED
      BY <3>1 DEF UnderWay
  <2> QED
    BY <2>3, <2>4
<1> QED
  BY <1>1, <1>2

\* The owner's command to close stays behind its packets.
LEMMA BehindStep ==
  ASSUME SocketInv, Numbered, OwedSound, [Next]_vars
  PROVE  /\ \A i \in 1..Len(pipe') : pipe'[i].op \in {"K", "X"} => ended'[pipe'[i].to] # "no"
         /\ \A i, j \in 1..Len(pipe') :
               pipe'[i].op = "K" /\ pipe'[i].to = id' /\ i < j /\ Queued(j)' => pipe'[j].packet \notin owed'
         /\ Carries(Owner)' /\ pk'[Owner] \in owed' => ended'[id'] = "no"
<1>1. /\ ended \in [Conn -> {"no", "K", "X"}] /\ pipe \in Seq(Commands) /\ Owner \in Svc
      /\ \A i \in 1..Len(pipe) : pipe[i].op \in {"K", "X"} => ended[pipe[i].to] # "no"
      /\ \A i, j \in 1..Len(pipe) :
               pipe[i].op = "K" /\ pipe[i].to = id /\ i < j /\ Queued(j) => pipe[j].packet \notin owed
      /\ Carries(Owner) /\ pk[Owner] \in owed => ended[id] = "no"
      /\ \A p \in owed : p.to = id /\ p.from = Owner /\ p.seq <= sent[Owner] /\ p \in Packet
      /\ sent[Owner] \in Nat
  BY OwnerSends DEF OwedSound, SocketInv, Typed, TypeOK
<1>2. \A c \in Conn : ended[c] # "no" => ended'[c] # "no"
  BY <1>1, EndedStays
<1>3. \A i \in 1..Len(pipe) : pipe[i].to \in Conn
  BY QueuedTyped
<1>4. ASSUME NEW i \in 1..Len(pipe'), pipe'[i].op \in {"K", "X"}
      PROVE  ended'[pipe'[i].to] # "no"
  <2>1. CASE \E j \in 1..Len(pipe) : pipe'[i] = pipe[j]
    BY <1>1, <1>2, <1>3, <1>4, <2>1
  <2>2. ASSUME NEW op \in {"K", "X"}, NEW c \in Conn, pipe'[i].to = c, ended' = [ended EXCEPT ![c] = op]
        PROVE  ended'[pipe'[i].to] # "no"
    BY <1>1, <2>2
  <2>3. pipe'[i].op \notin {"R", "S", "W"} /\ ~Queued(i)'
    BY <1>4 DEF Queued
  <2> QED
    BY <2>1, <2>2, <2>3, PipeFrom
<1>5. ASSUME NEW i \in 1..Len(pipe'), NEW j \in 1..Len(pipe'),
             pipe'[i].op = "K", pipe'[i].to = id', i < j, Queued(j)'
      PROVE  pipe'[j].packet \notin owed'
  <2> SUFFICES ASSUME pipe'[j].packet \in owed'
               PROVE  FALSE
    OBVIOUS
  <2>1. owed' = owed /\ id' = id
    <3>1. CASE pc[Owner] = "idle" /\ owed' = owed \cup {pk'[Owner]} /\ UNCHANGED <<id, pipe>>
               /\ pk'[Owner].from = Owner /\ pk'[Owner].seq = sent[Owner] + 1
      <4>1. pipe'[j].packet \notin owed
        BY <1>1, <1>5, <3>1 DEF Queued
      <4>2. j \in 1..Len(pipe) /\ Queued(j) /\ pipe[j].packet = pk'[Owner]
        BY <1>5, <3>1, <4>1 DEF Queued
      <4>3. pipe[j].packet.seq <= sent[Owner]
        BY <3>1, <4>2 DEF Numbered, Fits
      <4> QED
        BY <1>1, <3>1, <4>2, <4>3
    <3> QED
      BY <3>1, OwedChanges
  <2>2. pipe'[i].op \notin {"R", "S", "W", "X"} /\ ~Queued(i)' /\ pipe'[j].op \notin {"K", "X", "R", "S", "W"}
    BY <1>5 DEF Queued
  <2>3. CASE pipe' = pipe
    BY <1>1, <1>5, <2>1, <2>3 DEF Queued
  <2>4. CASE pipe # <<>> /\ pipe' = Tail(pipe)
    <3>1. /\ i + 1 \in 1..Len(pipe) /\ pipe'[i] = pipe[i + 1]
          /\ j + 1 \in 1..Len(pipe) /\ pipe'[j] = pipe[j + 1]
      BY <2>4, PipeTail
    <3>2. i + 1 < j + 1
      BY <1>5
    <3> QED
      BY <1>1, <1>5, <2>1, <3>1, <3>2 DEF Queued
  <2>5. CASE Len(pipe') = Len(pipe) + 1
    <3>0. Len(pipe) \in Nat
      BY <1>1, LenProperties
    <3>1. i \in 1..Len(pipe) /\ pipe'[i] = pipe[i]
      <4>1. i # Len(pipe) + 1
        BY <1>5, <2>5, <3>0
      <4>2. ~(pipe # <<>> /\ pipe' = Tail(pipe)) /\ pipe' # pipe
        BY <2>5, <3>0, PipeTail
      <4> QED
        BY <4>1, <4>2, PipeFrom
    <3>2. CASE j \in 1..Len(pipe) /\ pipe'[j] = pipe[j]
      BY <1>1, <1>5, <2>1, <3>1, <3>2 DEF Queued
    <3>3. CASE \E s \in Svc : pc[s] = "pipeD" /\ pipe'[j].packet = pk[s]
      <4>1. PICK s \in Svc : pc[s] = "pipeD" /\ pipe'[j].packet = pk[s]
        BY <3>3
      <4>2. pk[s] \in owed /\ pk[s].from = s
        BY <2>1, <4>1 DEF Numbered
      <4>3. s = Owner
        BY <1>1, <4>2
      <4>4. ended[id] = "no"
        BY <1>1, <4>1, <4>2, <4>3 DEF Carries
      <4>5. pipe[i].op = "K" /\ pipe[i].to = id
        BY <1>5, <2>1, <3>1
      <4> QED
        BY <1>1, <3>1, <4>4, <4>5
    <3>4. ~(pipe # <<>> /\ pipe' = Tail(pipe)) /\ pipe' # pipe
      BY <2>5, <3>0, PipeTail
    <3> QED
      BY <2>2, <3>2, <3>3, <3>4, PipeFrom
  <2> QED
    BY <2>3, <2>4, <2>5, PipeFrom
<1>6. ASSUME Carries(Owner)', pk'[Owner] \in owed'
      PROVE  ended'[id'] = "no"
  <2>1. CASE owed' = owed /\ id' = id
    <3>1. Carries(Owner) /\ pk'[Owner] = pk[Owner]
      <4>1. ~(pk'[Owner].seq = sent[Owner] + 1)
        BY <1>1, <1>6, <2>1 DEF Packet
      <4> QED
        BY <1>6, <4>1, CarryFrom
    <3>2. ended' = ended
      BY <1>1, <3>1, EndedStays DEF Carries
    <3> QED
      BY <1>1, <1>6, <2>1, <3>1, <3>2
  <2> QED
    BY <1>6, <2>1, OwedChanges
<1> QED
  BY <1>4, <1>5, <1>6

\* What the owner has sent is accounted for after every step.
LEMMA OwedStep ==
  ASSUME SocketInv, SocketInv', Numbered, LossSeen, OwedSound, [Next]_vars,
         ~spoiled /\ type # "INVALID" => StreamSound
  PROVE  OwedSound'
<1>1. \A p \in owed' : p.to = id' /\ p.from = Owner /\ p.seq <= sent'[Owner] /\ told'[id'].open
  <2> TAKE p \in owed'
  <2>0. /\ sent[Owner] \in Nat /\ ended \in [Conn -> {"no", "K", "X"}]
        /\ \A x \in owed : x.to = id /\ x.from = Owner /\ x.seq <= sent[Owner] /\ told[id].open
                           /\ x \in Packet /\ x.to \in Conn /\ x.seq \in Nat
        /\ sent \in [Svc -> Nat] /\ Owner \in Svc /\ (type # "INVALID" => id \in Conn)
    BY OwnerSends DEF OwedSound, SocketInv, SlotSound, Typed, TypeOK, Packet
  <2>1. sent'[Owner] >= sent[Owner] /\ sent'[Owner] \in Nat
    BY <2>0, EndedStays
  <2>2. \A c \in Conn : told[c].open => told'[c].open
    BY ToldStays
  <2>3. CASE owed' = owed /\ id' = id
    <3>1. p.seq <= sent'[Owner]
      BY <2>0, <2>1, <2>3
    <3> QED
      BY <2>0, <2>2, <2>3, <3>1
  <2>4. CASE /\ UNCHANGED <<id, told>> /\ told[id].open /\ owed' = owed \cup {pk'[Owner]}
             /\ pk'[Owner].to = id /\ pk'[Owner].from = Owner /\ pk'[Owner].seq = sent[Owner] + 1
             /\ sent' = [sent EXCEPT ![Owner] = @ + 1]
    <3>1. sent'[Owner] = sent[Owner] + 1
      BY <2>0, <2>4
    <3>2. CASE p \in owed
      <4>1. p.seq <= sent'[Owner]
        BY <2>0, <3>1, <3>2
      <4> QED
        BY <2>0, <2>4, <3>2, <4>1
    <3>3. CASE p = pk'[Owner]
      <4>1. p.seq <= sent'[Owner]
        BY <2>0, <2>4, <3>1, <3>3
      <4> QED
        BY <2>4, <3>3, <4>1
    <3> QED
      BY <2>4, <3>2, <3>3
  <2> QED
    BY <2>3, <2>4, OwedChanges
<1>2. ended' \in [Conn -> {"no", "K", "X"}]
  BY EndedStays DEF OwedSound
<1>3. type' # "INVALID" /\ ~spoiled' => \A p \in owed' : p \in Contents' \/ UnderWay(p)'
  BY OwedKept
<1>4. Ends' /\ ~spoiled' => Emptied'
  BY EmptiedStep
<1> QED
  BY <1>1, <1>2, <1>3, <1>4, BehindStep DEF OwedSound, Emptied, Queued

\* When the slot is given back, what was written is a beginning of the stream.
LEMMA Finished ==
  ASSUME SocketInv, SocketInv', StreamSound, id' = id, owed' = owed, owed \subseteq Contents,
         Len(wire') <= Len(Stream), \A i \in 1..Len(wire') : wire'[i] = Stream[i],
         \A i \in (Len(wire') + 1)..Len(Stream) : Stream[i] \notin owed
  PROVE  WireIntact' /\ Flushed'
<1>1. PICK w \in Seq(Packet) : w = Stream
  BY StreamIs
<1>2. PICK wr \in Seq(Packet) : wr = wire'
  BY DEF SocketInv, Typed, TypeOK
<1>3. /\ InBlocks(w, Packets(w)) /\ InOrder(Packets(w)) /\ Len(wr) <= Len(w)
      /\ \A i \in 1..Len(wr) : wr[i] = w[i]
      /\ \A i \in (Len(wr) + 1)..Len(w) : w[i] \notin owed
  BY <1>1, <1>2 DEF StreamSound
<1>4. Len(wr) \in Nat /\ Len(w) \in Nat
  BY LenProperties
<1>5. \A i \in 1..Len(wr) : wr[i].to = id
  <2> TAKE i \in 1..Len(wr)
  <2>1. i \in 1..Len(w)
    BY <1>3, <1>4
  <2>2. w[i] \in Contents
    BY <1>1, <2>1 DEF Contents, Elements
  <2> QED
    BY <1>3, <2>2 DEF StreamSound, InPlace
<1>6. Intact(wr, id)
  BY <1>3, <1>5, PrefixIntact
<1>7. ASSUME NEW p \in owed
      PROVE  \E i \in 1..Len(wr) : wr[i] = p /\ Len(wr) >= i + Pieces - 1
  <2>1. PICK k \in 1..Len(w) : w[k] = p
    BY <1>1 DEF Contents, Elements
  <2>2. \A i \in (Len(wr) + 1)..Len(w) : w[i] # w[k]
    BY <1>3, <2>1
  <2>3. \E i \in 1..Len(wr) : wr[i] = w[k] /\ Len(wr) >= i + Pieces - 1
    BY <1>3, <2>2, WrittenWhole
  <2> QED
    BY <2>1, <2>3
<1> QED
  BY <1>2, <1>6, <1>7, IntactIs DEF Flushed

\* What happens when the slot is free concerns no connection.
LEMMA FreeStays ==
  ASSUME SocketInv, [Next]_vars, type = "INVALID", type' = "INVALID", ~spoiled'
  PROVE  UNCHANGED <<wire, owed, id, spoiled>>
<1> DEFINE Goal == UNCHANGED <<wire, owed, id, spoiled>>
<1> SUFFICES Goal
  OBVIOUS
<1>0. task # "accept" /\ task # "send" /\ \A s \in Svc : pc[s] # "write"
  BY DEF SocketInv, SlotSound, LockSound, Alive
<1>1. ASSUME NEW s \in Svc, SenderStep(s)
      PROVE  Goal
  BY <1>0, <1>1 DEF SenderStep, TryLock, DoubleCheck, IncSending, SendRequest, DirectWrite, socketVars, ghosts
<1>2. ASSUME NEW s \in Svc, NEW c \in Conn, Send(s, c) \/ SendLow(s, c)
      PROVE  FALSE
  BY <1>2 DEF Send, SendLow, NewPacket, Valid
<1>3. ASSUME NEW c \in Conn, NEW op \in {"R", "S", "K", "X"}, Ask(c, op)
      PROVE  Goal
  BY <1>3 DEF Ask, socketVars, ghosts
<1>4. ASSUME NEW c \in Conn, ResumeSocket(c) \/ PauseSocket(c) \/ TriggerWrite(c)
      PROVE  Goal
  BY <1>4 DEF ResumeSocket, PauseSocket, TriggerWrite, Command, ghosts
<1>5. ASSUME NEW c \in Conn, SendSocket(c)
      PROVE  Goal
  BY <1>5 DEF SendSocket, Command
<1>6. ASSUME NEW c \in Conn, NEW shutdown \in BOOLEAN, CloseSocket(c, shutdown)
      PROVE  Goal
  <2>1. id' = id /\ ~Valid(c) /\ spoiled' = (spoiled \/ (shutdown /\ Valid(c))) /\ spoiled \in BOOLEAN
    BY <1>6 DEF CloseSocket, Command, Spoil, Valid, SocketInv, Typed, TypeOK
  <2>2. spoiled' = spoiled
    BY <2>1
  <2>3. wire' = wire /\ owed' = owed
    BY <1>6 DEF CloseSocket, Spoil
  <2> QED
    BY <2>1, <2>2, <2>3
<1>7. CASE SpWait \/ StaleEvent \/ ReadZero \/ ReadNothing \/ ReportError \/ Eof \/ WriteBlocked
  BY <1>7 DEF SpWait, StaleEvent, ReadZero, ReadNothing, ReportError, Eof, WriteBlocked, Event, ghosts, socketVars
<1>8. CASE WriteEvent \/ WriteFails \/ CloseFd \/ NewFd
  BY <1>8 DEF WriteEvent, WriteFails, CloseFd, NewFd, ghosts
<1>9. ASSUME NEW k \in Nat, SendBuffer(k)
      PROVE  Goal
  BY <1>0, <1>9 DEF SendBuffer
<1>10. CASE ReserveId \/ PeerChanges
  BY <1>10 DEF ReserveId, PeerChanges
<1>11. CASE UNCHANGED vars
  BY <1>11 DEF vars, socketVars, ghosts
<1>12. \A k \in 1..(Len(high) + Len(low)) : k \in Nat
  BY DEF SocketInv, Typed, TypeOK
<1> HIDE DEF Goal
<1>13. CASE ThreadStep
  BY <1>4, <1>5, <1>6, <1>7, <1>8, <1>9, <1>12, <1>13 DEF ThreadStep, Progress
<1> QED
  BY <1>1, <1>2, <1>3, <1>10, <1>11, <1>13 DEF Next

\* Three actions give the slot back.
LEMMA FreedBy ==
  ASSUME SocketInv, [Next]_vars, type # "INVALID", type' = "INVALID"
  PROVE  CloseFd \/ WriteFails \/ \E k \in Nat : SendBuffer(k)
<1> DEFINE Goal == CloseFd \/ WriteFails \/ \E k \in Nat : SendBuffer(k)
<1> SUFFICES Goal
  OBVIOUS
<1>1. ASSUME NEW s \in Svc, SenderStep(s)
      PROVE  type' = type
  BY <1>1 DEF SenderStep, TryLock, DoubleCheck, IncSending, SendRequest, DirectWrite, socketVars
<1>2. ASSUME NEW s \in Svc, NEW c \in Conn, Send(s, c) \/ SendLow(s, c)
      PROVE  type' = type
  BY <1>2 DEF Send, SendLow, NewPacket, socketVars
<1>3. ASSUME NEW c \in Conn, NEW op \in {"R", "S", "K", "X"}, Ask(c, op)
      PROVE  type' = type
  BY <1>3 DEF Ask, socketVars
<1>4. ASSUME NEW c \in Conn, ResumeSocket(c) \/ PauseSocket(c) \/ TriggerWrite(c)
      PROVE  FALSE
  BY <1>4 DEF ResumeSocket, PauseSocket, TriggerWrite
<1>5. ASSUME NEW c \in Conn, SendSocket(c)
      PROVE  FALSE
  BY <1>5 DEF SendSocket
<1>6. ASSUME NEW c \in Conn, NEW shutdown \in BOOLEAN, CloseSocket(c, shutdown)
      PROVE  FALSE
  BY <1>6 DEF CloseSocket, CloseRead
<1>7. CASE SpWait \/ StaleEvent \/ ReadZero \/ ReadNothing \/ ReportError \/ Eof \/ WriteBlocked
  BY <1>7 DEF SpWait, StaleEvent, ReadZero, ReadNothing, ReportError, Eof, WriteBlocked, CloseRead, socketVars
<1>8. ~(WriteEvent \/ NewFd \/ ReserveId \/ PeerChanges)
  BY DEF WriteEvent, NewFd, ReserveId, PeerChanges, socketVars
<1>9. ~UNCHANGED vars
  BY DEF vars, socketVars
<1>10. \A k \in 1..(Len(high) + Len(low)) : k \in Nat
  BY DEF SocketInv, Typed, TypeOK
<1>11. CASE ThreadStep
  BY <1>4, <1>5, <1>6, <1>7, <1>8, <1>10, <1>11 DEF ThreadStep, Progress
<1> QED
  BY <1>1, <1>2, <1>3, <1>8, <1>9, <1>11 DEF Next

\* When the slot is given back, what was written is intact, and all of it.
LEMMA FreedStep ==
  ASSUME SocketInv, SocketInv', LossSeen, OwedSound, [Next]_vars, ~spoiled /\ type # "INVALID" => StreamSound,
         type = "INVALID" => WireIntact /\ Flushed, type' = "INVALID"
  PROVE  WireIntact' /\ Flushed'
<1>1. CASE spoiled'
  BY <1>1, IntactIs DEF Flushed
<1>2. CASE type = "INVALID" /\ ~spoiled'
  <2>1. UNCHANGED <<wire, owed, id, spoiled>>
    BY <1>2, FreeStays
  <2>2. Intact(wire, id)
    BY <1>2, <2>1, IntactIs
  <2>3. WireIntact'
    BY <2>1, <2>2, IntactIs
  <2>4. Flushed'
    BY <1>2, <2>1 DEF Flushed
  <2> QED
    BY <2>3, <2>4
<1>3. CASE type # "INVALID" /\ ~spoiled'
  <2>1. CASE CloseFd
    <3>1. UNCHANGED <<id, wire, owed, spoiled>> /\ task \in {"close", "tell"}
      BY <2>1 DEF CloseFd, ghosts
    <3>2. StreamSound /\ Ends
      BY <1>3, <3>1 DEF Ends
    <3>3. high = <<>> /\ low = <<>>
      BY <3>1 DEF SocketInv, ListsEmpty, BufferEmpty
    <3>4. (\A p \in owed : ~UnderWay(p)) /\ Elements(dw) \cap owed = {} /\ \A p \in owed : p \in Contents \/ UnderWay(p)
      BY <1>3, <3>1, <3>2 DEF OwedSound, Emptied
    <3>5. PICK a \in Seq(Packet), b \in Seq(Packet) : a = wire /\ b = dw
      BY DEF SocketInv, Typed, TypeOK
    <3>6. Stream = a \o b
      <4>1. PICK x \in Seq(Packet) : x = a \o b
        BY Joined
      <4>2. x \o <<>> = x
        BY Joined
      <4> QED
        BY <3>3, <3>5, <4>1, <4>2 DEF Stream
    <3>7. /\ Len(a) \in Nat /\ Len(b) \in Nat /\ Len(a \o b) = Len(a) + Len(b)
          /\ \A i \in 1..(Len(a) + Len(b)) : (a \o b)[i] = IF i <= Len(a) THEN a[i] ELSE b[i - Len(a)]
      BY ConcatProperties, LenProperties
    <3>8. Len(wire') <= Len(Stream) /\ \A i \in 1..Len(wire') : wire'[i] = Stream[i]
      BY <3>1, <3>5, <3>6, <3>7
    <3>9. \A i \in (Len(wire') + 1)..Len(Stream) : Stream[i] \notin owed
      <4> TAKE i \in (Len(wire') + 1)..Len(Stream)
      <4>1. i - Len(a) \in 1..Len(b) /\ Stream[i] = b[i - Len(a)]
        BY <3>1, <3>5, <3>6, <3>7
      <4>2. Stream[i] \in Elements(dw)
        BY <3>5, <4>1 DEF Elements
      <4> QED
        BY <3>4, <4>2
    <3> QED
      BY <3>1, <3>2, <3>4, <3>8, <3>9, Finished
  <2>2. ASSUME NEW k \in Nat, SendBuffer(k)
        PROVE  WireIntact' /\ Flushed'
    <3>1. UNCHANGED <<id, owed, spoiled>>
      BY <2>2 DEF SendBuffer
    <3>2. closing /\ task = "send"
      BY <1>3, <2>2 DEF SendBuffer
    <3>3. StreamSound /\ Ends
      BY <1>3, <3>1, <3>2 DEF Ends, Closing, SocketInv, SlotSound, Alive
    <3>4. \A p \in owed : p \in Contents
      BY <1>3, <3>1, <3>3 DEF OwedSound, Emptied
    <3>5. high' = <<>> /\ low' = <<>> /\ dw' = <<>>
      BY DEF SocketInv, ListsSound, BufferEmpty
    <3>6. PICK w \in Seq(Packet) : w = wire'
      BY DEF SocketInv, Typed, TypeOK
    <3>7. Stream = w
      <4>1. Stream' = Stream
        BY <2>2, SentOff
      <4>2. w \o <<>> = w
        BY Joined
      <4>3. Stream' = ((wire' \o dw') \o high') \o low'
        BY DEF Stream
      <4> QED
        BY <3>5, <3>6, <4>1, <4>2, <4>3
    <3>8. Len(w) \in Nat
      BY LenProperties
    <3> QED
      BY <3>1, <3>3, <3>4, <3>6, <3>7, <3>8, Finished
  <2>3. CASE WriteFails
    <3>1. Lost /\ task = "send" /\ spoiled' = spoiled
      BY <2>3 DEF WriteFails, ghosts
    <3>2. type # "RESERVE"
      BY <3>1 DEF SocketInv, SlotSound, Alive
    <3> QED
      BY <1>3, <3>1, <3>2 DEF LossSeen
  <2> QED
    BY <1>3, <2>1, <2>2, <2>3, FreedBy
<1> QED
  BY <1>1, <1>2, <1>3

\* The packets and what the owner is owed, from the start and in every step.
THEOREM WireInvariant == Spec => []WireInv
<1>1. Init => WireInv
  <2> SUFFICES ASSUME Init
               PROVE  WireInv
    OBVIOUS
  <2>1. SocketInv
    BY InitInv
  <2>2. /\ type = "INVALID" /\ task = "idle" /\ ready = {} /\ pipe = <<>> /\ owed = {} /\ wire = <<>> /\ ~spoiled
        /\ pc = [s \in Svc |-> "idle"] /\ ended = [c \in Conn |-> "no"] /\ peer = "up"
    BY DEF Init
  <2>3. Numbered
    BY <2>2 DEF Numbered
  <2>4. LossSeen
    BY <2>2 DEF LossSeen, Lost
  <2>5. ~Ends
    BY <2>2 DEF Ends, Closing
  <2>6. OwedSound
    BY <2>2, <2>5 DEF OwedSound
  <2>7. WireIntact /\ Flushed
    BY <2>2 DEF WireIntact, Flushed
  <2> QED
    BY <2>1, <2>2, <2>3, <2>4, <2>6, <2>7 DEF WireInv
<1>2. WireInv /\ [Next]_vars => WireInv'
  <2> SUFFICES ASSUME WireInv, [Next]_vars
               PROVE  WireInv'
    OBVIOUS
  <2>1. /\ SocketInv /\ Numbered /\ LossSeen /\ OwedSound
        /\ ~spoiled /\ type # "INVALID" => StreamSound
        /\ type = "INVALID" => WireIntact /\ Flushed
    BY DEF WireInv
  <2>2. SocketInv'
    BY <2>1, TypedStep, SlotStep, LockStep, SendsStep, ListsStep, CountStep, CloseStep DEF SocketInv
  <2>3. Numbered' /\ LossSeen'
    BY <2>1, NumberedStep, LossStep
  <2>4. ~spoiled' /\ type' # "INVALID" => StreamSound'
    BY <2>1, <2>2, StreamStep
  <2>5. OwedSound'
    BY <2>1, <2>2, OwedStep
  <2>6. type' = "INVALID" => WireIntact' /\ Flushed'
    BY <2>1, <2>2, FreedStep
  <2> QED
    BY <2>2, <2>3, <2>4, <2>5, <2>6 DEF WireInv
<1> QED
  BY <1>1, <1>2, PTL DEF Spec

\* What the other end reads of a connection that was neither lost nor shut down
\* is packets sent to it, each in one piece and the high ones of a service in
\* the order in which it sent them: whatever was written directly under dw_lock
\* (socket_server_send), left over in dw_buffer, queued by send_socket or moved
\* from the low list to the high one (raise_uncomplete).
THEOREM WirePiecesIntact == Spec => []WireIntact
<1>1. WireInv => WireIntact
  <2> SUFFICES ASSUME WireInv
               PROVE  WireIntact
    OBVIOUS
  <2>1. CASE spoiled
    BY <2>1, IntactIs
  <2>2. CASE type = "INVALID"
    BY <2>2 DEF WireInv
  <2>3. CASE ~spoiled /\ type # "INVALID"
    <3>1. SocketInv /\ StreamSound
      BY <2>3 DEF WireInv
    <3>2. /\ wire \in Seq(Packet) /\ dw \in Seq(Packet) /\ high \in Seq(Packet) /\ low \in Seq(Packet)
          /\ Stream \in Seq(Packet)
      BY <3>1, StreamIs
    <3>3. PICK w \in Seq(Packet), wr \in Seq(Packet) : w = Stream /\ wr = wire
      BY <3>2
    <3>4. PICK b \in Seq(Packet), c \in Seq(Packet), d \in Seq(Packet) : b = dw /\ c = high /\ d = low
      BY <3>2
    <3>5. w = wr \o b \o c \o d
      BY <3>3, <3>4 DEF Stream
    <3>6. /\ Len(wr) \in Nat /\ Len(b) \in Nat /\ Len(c) \in Nat /\ Len(d) \in Nat
          /\ Len(w) = Len(wr) + Len(b) + Len(c) + Len(d)
          /\ \A i \in 1..Len(w) :
               w[i] = IF i <= Len(wr) THEN wr[i]
                      ELSE IF i <= Len(wr) + Len(b) THEN b[i - Len(wr)]
                      ELSE IF i <= Len(wr) + Len(b) + Len(c) THEN c[i - (Len(wr) + Len(b))]
                      ELSE d[i - (Len(wr) + Len(b) + Len(c))]
      BY <3>5, FourParts
    <3>7. Len(wr) <= Len(w) /\ \A i \in 1..Len(wr) : i \in 1..Len(w) /\ wr[i] = w[i]
      BY <3>6
    <3>8. InBlocks(w, Packets(w)) /\ InOrder(Packets(w)) /\ \A p \in Contents : p.to = id
      BY <3>1, <3>3 DEF StreamSound, InPlace
    <3>9. \A i \in 1..Len(wr) : wr[i] = w[i] /\ wr[i].to = id
      BY <3>3, <3>7, <3>8 DEF Contents, Elements
    <3>10. Intact(wr, id)
      BY <3>7, <3>8, <3>9, PrefixIntact
    <3> QED
      BY <3>3, <3>10, IntactIs
  <2> QED
    BY <2>1, <2>2, <2>3
<1> QED
  BY <1>1, WireInvariant, PTL

\* What the owner has sent before it closed the connection was written, whole,
\* when the slot is given back, if the connection was neither lost nor shut
\* down (close_socket waits until nomore_sending_data; the pipe keeps the order
\* of the owner's commands).
THEOREM OwnerFlushed == Spec => []Flushed
<1>1. WireInv => Flushed
  BY DEF WireInv, Flushed
<1> QED
  BY <1>1, WireInvariant, PTL

=============================================================================
