---------------------------- MODULE SocketProofs ----------------------------
(* The safety of a slot of the socket server, for any number of services,    *)
(* packets and connections: SocketInv is inductive, and SendingExact,        *)
(* ListsSound and CloseExact follow from it.                                 *)
EXTENDS SocketInv, SequenceTheorems, FiniteSetTheorems, TLAPS

USE FiniteServices, OwnerSends, NilIsNoService, NilIsNoPacket, Bounds

-----------------------------------------------------------------------------
(* Types                                                                     *)

\* What is raised for a connection touches only the messages of that one.
LEMMA Raised ==
  ASSUME NEW c \in Conn, NEW what \in {"open", "close", "err", "nothing"},
         told \in [Conn -> [open: BOOLEAN, close: Nat, err: BOOLEAN]], Raise(c, what)
  PROVE  /\ told' \in [Conn -> [open: BOOLEAN, close: Nat, err: BOOLEAN]]
         /\ \A d \in Conn : told'[d].open <=> told[d].open \/ (d = c /\ what = "open")
         /\ \A d \in Conn :
              told'[d].close = IF d = c /\ what = "close" THEN told[d].close + 1 ELSE told[d].close
<1>1. told' \in [Conn -> [open: BOOLEAN, close: Nat, err: BOOLEAN]]
  BY DEF Raise
<1>2. ASSUME NEW d \in Conn
      PROVE  told'[d].open <=> told[d].open \/ (d = c /\ what = "open")
  BY DEF Raise
<1>3. ASSUME NEW d \in Conn
      PROVE  told'[d].close = IF d = c /\ what = "close" THEN told[d].close + 1 ELSE told[d].close
  BY DEF Raise
<1> QED
  BY <1>1, <1>2, <1>3

\* A packet that is whole is Pieces pieces.
LEMMA WholePacket ==
  ASSUME NEW p \in Packet
  PROVE  Whole(p) \in Seq(Packet) /\ Len(Whole(p)) = Pieces
BY DEF Whole

\* The count keeps its type, if there is something to take away from it.
LEMMA Counted ==
  ASSUME sending \in [tag: 0..MaxConn, n: Nat]
  PROVE  /\ Sending(1) \in [tag: 0..MaxConn, n: Nat]
         /\ sending.n > 0 => Sending(-1) \in [tag: 0..MaxConn, n: Nat]
BY DEF Sending

\* A command that is appended to the pipe.
LEMMA Requested ==
  ASSUME NEW m \in Commands, pipe \in Seq(Commands)
  PROVE  Append(pipe, m) \in Seq(Commands)
BY AppendProperties

\* The two halves of a packet of which k pieces are written.
LEMMA Halves ==
  ASSUME NEW p \in Packet, NEW k \in 0..Pieces
  PROVE  /\ SubSeq(Whole(p), 1, k) \in Seq(Packet)
         /\ SubSeq(Whole(p), k + 1, Pieces) \in Seq(Packet)
         /\ k = Pieces => SubSeq(Whole(p), k + 1, Pieces) = <<>>
<1>1. \A i \in 1..k : Whole(p)[i] \in Packet
  BY DEF Whole
<1>2. \A i \in (k + 1)..Pieces : Whole(p)[i] \in Packet
  BY DEF Whole
<1> QED
  BY <1>1, <1>2, SubSeqProperties, SubSeqEmpty

\* A packet that a service makes.
LEMMA NewP ==
  ASSUME NEW c \in Conn, NEW s \in Svc, NEW n \in Nat, NEW prio \in BOOLEAN
  PROVE  [to |-> c, from |-> s, seq |-> n, low |-> prio] \in Packet
BY DEF Packet

\* A command without a packet.
LEMMA Asked ==
  ASSUME NEW op \in {"R", "S", "K", "X", "W"}, NEW c \in Conn
  PROVE  [op |-> op, to |-> c] \in Commands
BY DEF Commands

\* A step of a service keeps the types.
LEMMA SenderTyped ==
  ASSUME Typed, NEW s \in Svc, SenderStep(s), pc[s] # "idle" => pk[s] # Nil
  PROVE  Typed'
<1> USE DEF Steps, Typed, TypeOK, Moves, Done, socketVars, pollVars, ghosts
<1>1. CASE TryLock(s)
  BY <1>1 DEF TryLock
<1>2. CASE DoubleCheck(s)
  BY <1>2 DEF DoubleCheck
<1>3. CASE IncSending(s)
  <2>1. sending' \in [tag: 0..MaxConn, n: Nat]
    BY <1>3, Counted DEF IncSending
  <2> QED
    BY <1>3, <2>1 DEF IncSending
<1>4. CASE SendRequest(s)
  <2>1. pk[s] \in Packet /\ pk[s].to \in Conn
    BY <1>4 DEF SendRequest, Packet
  <2>2. [op |-> "W", to |-> pk[s].to] \in Commands
    BY <2>1 DEF Commands
  <2>3. [op |-> "D", to |-> pk[s].to, packet |-> pk[s]] \in Commands
    BY <2>1 DEF Commands
  <2>4. PICK m \in Commands : pipe' = Append(pipe, m)
    BY <1>4, <2>2, <2>3 DEF SendRequest
  <2>5. pipe' \in Seq(Commands)
    BY <2>4, Requested
  <2>6. pc' \in [Svc -> Steps]
        /\ pk' \in [Svc -> Packet \cup {Nil}]
    BY <1>4 DEF SendRequest
  <2> QED
    BY <1>4, <2>5, <2>6 DEF SendRequest
<1>5. ASSUME NEW k \in 0..Pieces, DirectWrite(s, k)
      PROVE  Typed'
  <2>1. pk[s] \in Packet
    BY <1>5 DEF DirectWrite
  <2>2. SubSeq(Whole(pk[s]), 1, k) \in Seq(Packet) /\ SubSeq(Whole(pk[s]), k + 1, Pieces) \in Seq(Packet)
    BY <2>1, Halves
  <2>4. wire' \in Seq(Packet) /\ dw' \in Seq(Packet)
    BY <1>5, <2>2, ConcatProperties DEF DirectWrite
  <2>5. pc' \in [Svc -> Steps]
        /\ pk' \in [Svc -> Packet \cup {Nil}]
    BY <1>5 DEF DirectWrite
  <2> QED
    BY <1>5, <2>4, <2>5 DEF DirectWrite
<1> QED
  BY <1>1, <1>2, <1>3, <1>4, <1>5 DEF SenderStep

\* So does what a service asks for.
LEMMA AskTyped ==
  ASSUME Typed, NEW c \in Conn,
         \/ \E s \in Svc : Send(s, c) \/ SendLow(s, c)
         \/ \E op \in {"R", "S", "K", "X"} : Ask(c, op)
  PROVE  Typed'
<1> USE DEF Steps, Moves, Works, socketVars, pollVars, ghosts
<1>1. ASSUME NEW s \in Svc, Send(s, c) \/ SendLow(s, c)
      PROVE  Typed'
  <2>1. PICK prio \in BOOLEAN : NewPacket(s, c, prio)
    BY <1>1 DEF Send, SendLow
  <2> DEFINE p == [to |-> c, from |-> s, seq |-> sent[s] + 1, low |-> prio]
  <2>2. pk' = [pk EXCEPT ![s] = p] /\ (owed' = owed \/ owed' = owed \cup {p})
    BY <2>1 DEF NewPacket
  <2>3. p \in Packet
    <3>1. sent[s] + 1 \in Nat
      BY DEF Typed
    <3> QED
      BY <3>1, NewP
  <2> HIDE DEF p
  <2>4. pk' \in [Svc -> Packet \cup {Nil}]
    BY <2>2, <2>3 DEF Typed, TypeOK
  <2>5. owed' \subseteq Packet
    BY <2>2, <2>3 DEF Typed, TypeOK
  <2>6. sent' \in [Svc -> Nat] /\ work' \in Nat
    BY <2>1 DEF NewPacket, Typed
  <2>7. pc' \in [Svc -> Steps]
    BY <1>1 DEF Send, SendLow, Typed
  <2>8. UNCHANGED <<socketVars, task, pollVars, pipe, told, wire, spoiled, late>>
    BY <2>1 DEF NewPacket
  <2> QED
    BY <2>4, <2>5, <2>6, <2>7, <2>8 DEF Typed, TypeOK
<1>2. ASSUME NEW op \in {"R", "S", "K", "X"}, Ask(c, op)
      PROVE  Typed'
  <2>1. [op |-> op, to |-> c] \in Commands
    BY Asked
  <2>2. pipe' \in Seq(Commands)
    BY <1>2, <2>1, Requested DEF Ask, Typed
  <2>3. work' \in Nat
    BY <1>2 DEF Ask, Typed
  <2>4. UNCHANGED <<socketVars, task, pollVars, pc, pk, told, sent, ghosts>>
    BY <1>2 DEF Ask
  <2> QED
    BY <2>2, <2>3, <2>4 DEF Typed, TypeOK
<1> QED
  BY <1>1, <1>2

\* send_buffer_ writes and keeps pieces of packets.
LEMMA BufferTyped ==
  ASSUME Typed, SlotSound, NEW k \in Nat, SendBuffer(k)
  PROVE  Typed'
<1> DEFINE all == high \o low
           rest == SubSeq(low, k - Len(high) + 1, Len(low))
           begun == Len(rest) % Pieces
<1>0. /\ high \in Seq(Packet) /\ low \in Seq(Packet) /\ wire \in Seq(Packet) /\ <<>> \in Seq(Packet)
      /\ Len(high) \in Nat /\ Len(low) \in Nat
  BY LenProperties, EmptySeq DEF Typed, TypeOK
<1>1. all \in Seq(Packet) /\ Len(all) = Len(high) + Len(low)
  BY <1>0, ConcatProperties
<1>2. SubSeq(all, 1, k) \in Seq(Packet)
  <2>1. k <= Len(all)
    BY DEF SendBuffer
  <2>2. \A i \in 1..k : all[i] \in Packet
    BY <1>1, <2>1, ElementOfSeq
  <2> HIDE DEF all
  <2>3. 1 \in Int /\ k \in Int
    OBVIOUS
  <2> QED
    BY <2>2, <2>3, SubSeqProperties
<1>3. wire' \in Seq(Packet)
  BY <1>0, <1>2, ConcatProperties DEF SendBuffer
<1>4. CASE k < Len(high)
  <2>1. high' = SubSeq(high, k + 1, Len(high)) /\ UNCHANGED <<type, writing, low>>
    BY <1>4 DEF SendBuffer
  <2>2. \A i \in (k + 1)..Len(high) : high[i] \in Packet
    BY <1>0, ElementOfSeq
  <2>3. high' \in Seq(Packet)
    BY <1>0, <2>1, <2>2, SubSeqProperties
  <2> QED
    BY <1>3, <2>1, <2>3 DEF SendBuffer, Typed, TypeOK, pollVars
<1>5. CASE k >= Len(high)
  <2>0. ~(k < Len(high))
    BY <1>0, <1>5
  <2>1. \A i \in (k - Len(high) + 1)..Len(low) : low[i] \in Packet
    BY <1>0, <1>5, ElementOfSeq
  <2>2. rest \in Seq(Packet)
    BY <1>0, <2>1, SubSeqProperties
  <2>3. Len(rest) \in Nat
    BY <2>2, LenProperties
  <2> HIDE DEF rest
  <2>4. \A i \in 1..begun : rest[i] \in Packet
    BY <2>2, <2>3, ElementOfSeq, Bounds
  <2>5. \A i \in (begun + 1)..Len(rest) : rest[i] \in Packet
    BY <2>2, <2>3, ElementOfSeq, Bounds
  <2>6. SubSeq(rest, 1, begun) \in Seq(Packet) /\ SubSeq(rest, begun + 1, Len(rest)) \in Seq(Packet)
    BY <2>3, <2>4, <2>5, SubSeqProperties
  <2>7. high' \in Seq(Packet) /\ low' \in Seq(Packet) /\ type' \in {type, "INVALID"}
        /\ writing' \in {writing, FALSE}
    BY <1>0, <2>0, <2>6 DEF SendBuffer, CloseLocked, rest
  <2> QED
    BY <1>3, <2>7 DEF SendBuffer, Typed, TypeOK, Types, pollVars
<1> QED
  BY <1>0, <1>4, <1>5

\* The steps of the socket thread; dec_sending_ref takes away what is there.
LEMMA ThreadTyped ==
  ASSUME Typed, SlotSound, ThreadStep, SendSocket(id) => sending.n > 0
  PROVE  Typed'
<1>17. ASSUME NEW k \in Nat, SendBuffer(k)
       PROVE  Typed'
  BY <1>17, BufferTyped
<1> DEFINE Told == [Conn -> [open: BOOLEAN, close: Nat, err: BOOLEAN]]
<1>0. <<>> \in Seq(Packet)
  BY EmptySeq
<1> USE DEF Typed, TypeOK, Types, SlotSound, Alive, socketVars, pollVars, ghosts
<1>1. CASE SpWait
  BY <1>1 DEF SpWait
<1>2. ASSUME NEW c \in Conn, ResumeSocket(c)
      PROVE  Typed'
  BY <1>2, Raised, HeadTailProperties DEF ResumeSocket, Command
<1>3. ASSUME NEW c \in Conn, PauseSocket(c)
      PROVE  Typed'
  BY <1>3, HeadTailProperties DEF PauseSocket, Command
<1>4. ASSUME NEW c \in Conn, TriggerWrite(c)
      PROVE  Typed'
  BY <1>4, HeadTailProperties DEF TriggerWrite, Command, Valid
<1>5. ASSUME NEW c \in Conn, SendSocket(c)
      PROVE  Typed'
  <2>1. Head(pipe) \in Commands /\ Head(pipe).op = "D" /\ pipe' \in Seq(Commands)
    BY <1>5, HeadTailProperties DEF SendSocket, Command
  <2>2. Head(pipe).packet \in Packet
    BY <2>1 DEF Commands
  <2>3. Whole(Head(pipe).packet) \in Seq(Packet)
    BY <2>2, WholePacket
  <2>4. high' \in Seq(Packet) /\ low' \in Seq(Packet)
    <3> DEFINE w == Whole(Head(pipe).packet)
    <3>1. high' \in {high, w, high \o w} /\ low' \in {low, low \o w}
      BY <1>5 DEF SendSocket
    <3>2. high \o w \in Seq(Packet) /\ low \o w \in Seq(Packet)
      BY <2>3, ConcatProperties
    <3> QED
      BY <2>3, <3>1, <3>2
  <2>5. sending' \in [tag: 0..MaxConn, n: Nat]
    BY <1>5, Counted DEF SendSocket
  <2>6. writing' \in BOOLEAN /\ late' \in BOOLEAN
    BY <1>5 DEF SendSocket, Valid
  <2> QED
    BY <1>5, <2>1, <2>4, <2>5, <2>6 DEF SendSocket, Command
<1>6. ASSUME NEW c \in Conn, NEW shutdown \in BOOLEAN, CloseSocket(c, shutdown)
      PROVE  Typed'
  <2>1. told' \in Told
    BY <1>6, Raised DEF CloseSocket, CloseRead
  <2>2. pipe' \in Seq(Commands)
    BY <1>6, HeadTailProperties DEF CloseSocket, Command
  <2>3. spoiled' \in BOOLEAN /\ wire' \in Seq(Packet) /\ owed' \subseteq Packet
    BY <1>0, <1>6 DEF CloseSocket, Spoil, Valid
  <2>4. high' \in Seq(Packet) /\ low' \in Seq(Packet)
    BY <1>0, <1>6 DEF CloseSocket, FreeLists
  <2>5. UNCHANGED <<id, tcp, dw, lock, checkctrl, pc, pk, work, sent, sending, writing, ready, late>>
    BY <1>6 DEF CloseSocket, Command
  <2>6. type' \in Types /\ reading' \in BOOLEAN /\ closing' \in BOOLEAN
    BY <1>6 DEF CloseSocket, CloseRead, FreeLists
  <2>7. task' \in {"idle", "send", "close", "tell", "accept"}
    BY <1>6 DEF CloseSocket, FreeLists
  <2> QED
    BY <2>1, <2>2, <2>3, <2>4, <2>5, <2>6, <2>7
<1>7. CASE StaleEvent
  BY <1>7 DEF StaleEvent, Event
<1>8. CASE ReadZero
  <2>1. told' \in Told
    BY <1>8, Raised DEF ReadZero, CloseRead
  <2>2. high' \in Seq(Packet) /\ low' \in Seq(Packet)
    BY <1>0, <1>8 DEF ReadZero, FreeLists
  <2>3. type' \in Types /\ reading' \in BOOLEAN
    BY <1>8 DEF ReadZero, CloseRead
  <2>4. ready' \subseteq {"read", "write", "error", "eof"} /\ checkctrl' \in BOOLEAN
    BY <1>8 DEF ReadZero, Event
  <2>5. task' \in {"idle", "send", "close", "tell", "accept"}
    BY <1>8 DEF ReadZero, FreeLists
  <2>6. UNCHANGED <<id, tcp, sending, writing, closing, dw, pipe, pc, pk, work, sent, ghosts, lock>>
    BY <1>8 DEF ReadZero, Event
  <2> QED
    BY <2>1, <2>2, <2>3, <2>4, <2>5, <2>6
<1>9. CASE ReadNothing
  BY <1>9 DEF ReadNothing, Event
<1>10. CASE ReportError
  <2>1. told' \in Told
    BY <1>10, Raised DEF ReportError
  <2> QED
    BY <1>10, <2>1 DEF ReportError, Event
<1>11. CASE Eof
  BY <1>0, <1>11 DEF Eof, Event, FreeLists
<1>12. CASE WriteBlocked
  BY <1>12 DEF WriteBlocked, Event
<1>13. CASE WriteEvent
  BY <1>13, EmptySeq, ConcatProperties DEF WriteEvent
<1>14. CASE WriteFails
  <2>1. told' \in Told
    BY <1>14, Raised DEF WriteFails
  <2> QED
    BY <1>0, <1>14, <2>1 DEF WriteFails, CloseLocked
<1>15. CASE CloseFd
  BY <1>15, Raised, EmptySeq DEF CloseFd
<1>16. CASE NewFd
  BY <1>16, EmptySeq DEF NewFd
<1>18. \A k \in 1..(Len(high) + Len(low)) : k \in Nat
  BY LenProperties
<1> HIDE DEF Typed, TypeOK, Types, SlotSound, Alive, socketVars, pollVars, ghosts
<1> QED
  BY <1>1, <1>2, <1>3, <1>4, <1>5, <1>6, <1>7, <1>8, <1>9, <1>10, <1>11, <1>12, <1>13, <1>14, <1>15, <1>16,
     <1>17, <1>18 DEF ThreadStep, Progress

\* A new connection, and what happens at the other end.
LEMMA OtherTyped ==
  ASSUME Typed, ReserveId \/ PeerChanges \/ UNCHANGED vars
  PROVE  Typed'
<1> USE DEF Typed, TypeOK, Types, socketVars, pollVars, ghosts
<1>1. CASE ReserveId
  <2>1. id' \in 0..MaxConn
    BY <1>1 DEF ReserveId
  <2> QED
    BY <1>1, <2>1, EmptySeq DEF ReserveId
<1>2. CASE PeerChanges
  <2>1. PICK b \in BOOLEAN : Spoil(b)
    BY <1>2 DEF PeerChanges
  <2>2. spoiled' \in BOOLEAN /\ wire' \in Seq(Packet) /\ owed' \subseteq Packet
    BY <2>1, EmptySeq DEF Spoil
  <2> QED
    BY <1>2, <2>2 DEF PeerChanges
<1>3. CASE UNCHANGED vars
  BY <1>3 DEF vars
<1> QED
  BY <1>1, <1>2, <1>3

-----------------------------------------------------------------------------
(* The count of sends                                                        *)

QueuedIn(q, c) == {i \in 1..Len(q) : q[i].op = "D" /\ q[i].to = c}

\* The packets of a connection in a pipe can be counted.
LEMMA QueuedFinite ==
  ASSUME NEW q \in Seq(Commands), NEW c
  PROVE  IsFiniteSet(QueuedIn(q, c)) /\ Cardinality(QueuedIn(q, c)) \in Nat
<1>1. IsFiniteSet(1..Len(q))
  BY FS_Interval, LenProperties
<1>2. QueuedIn(q, c) \in SUBSET (1..Len(q))
  BY DEF QueuedIn
<1> QED
  BY <1>1, <1>2, FS_Subset, FS_CardinalityType

\* A packet of the connection that is appended is one more,
LEMMA QueuedAppend ==
  ASSUME NEW q \in Seq(Commands), NEW c, NEW m \in Commands
  PROVE  Cardinality(QueuedIn(Append(q, m), c)) =
           Cardinality(QueuedIn(q, c)) + (IF m.op = "D" /\ m.to = c THEN 1 ELSE 0)
<1> DEFINE n == Len(q) + 1
<1>1. Len(q) \in Nat /\ Len(Append(q, m)) = n
      /\ (\A i \in 1..Len(q) : Append(q, m)[i] = q[i]) /\ Append(q, m)[n] = m
  BY AppendProperties, LenProperties
<1>2. CASE m.op = "D" /\ m.to = c
  <2>1. QueuedIn(Append(q, m), c) = QueuedIn(q, c) \cup {n}
    BY <1>1, <1>2 DEF QueuedIn
  <2>2. n \notin QueuedIn(q, c)
    BY <1>1 DEF QueuedIn
  <2> QED
    BY <1>2, <2>1, <2>2, QueuedFinite, FS_AddElement
<1>3. CASE ~(m.op = "D" /\ m.to = c)
  <2>1. QueuedIn(Append(q, m), c) = QueuedIn(q, c)
    BY <1>1, <1>3 DEF QueuedIn
  <2> QED
    BY <1>3, <2>1, QueuedFinite
<1> QED
  BY <1>2, <1>3

\* and one that is taken is one less.
LEMMA QueuedTail ==
  ASSUME NEW q \in Seq(Commands), q # <<>>, NEW c
  PROVE  Cardinality(QueuedIn(q, c)) =
           Cardinality(QueuedIn(Tail(q), c)) + (IF Head(q).op = "D" /\ Head(q).to = c THEN 1 ELSE 0)
<1> DEFINE S == QueuedIn(Tail(q), c)
           T == QueuedIn(q, c) \ {1}
           f == [i \in S |-> i + 1]
<1>1. Tail(q) \in Seq(Commands) /\ Head(q) = q[1]
      /\ Len(q) \in Nat /\ Len(Tail(q)) = Len(q) - 1 /\ Len(q) > 0
      /\ \A i \in 1..Len(Tail(q)) : Tail(q)[i] = q[i + 1]
  BY HeadTailProperties, LenProperties, EmptySeq
<1>2. f \in [S -> T]
  BY <1>1 DEF QueuedIn
<1>3. \A i, j \in S : f[i] = f[j] => i = j
  BY DEF QueuedIn
<1>4. \A j \in T : \E i \in S : f[i] = j
  <2> SUFFICES ASSUME NEW j \in T
               PROVE  j - 1 \in S /\ f[j - 1] = j
    OBVIOUS
  <2>1. j \in 2..Len(q) /\ Tail(q)[j - 1] = q[j]
    BY <1>1 DEF QueuedIn
  <2>2. j - 1 \in S
    BY <1>1, <2>1 DEF QueuedIn
  <2> QED
    BY <2>1, <2>2
<1>5. ExistsBijection(S, T)
  BY <1>2, <1>3, <1>4 DEF ExistsBijection, Bijection, Injection, Surjection, IsInjective
<1>6. Cardinality(T) = Cardinality(S)
  BY <1>1, <1>5, QueuedFinite, FS_Bijection
<1>7. 1 \in QueuedIn(q, c) <=> Head(q).op = "D" /\ Head(q).to = c
  BY <1>1 DEF QueuedIn
<1>8. Cardinality(T) = IF 1 \in QueuedIn(q, c) THEN Cardinality(QueuedIn(q, c)) - 1
                       ELSE Cardinality(QueuedIn(q, c))
  BY QueuedFinite, FS_RemoveElement
<1> QED
  BY <1>1, <1>6, <1>7, <1>8, QueuedFinite

InFlight(c) == {s \in Svc : pc[s] = "pipeD" /\ pk[s].to = c}

\* So can the services that are between the count and the pipe.
LEMMA FlightFinite ==
  ASSUME NEW c
  PROVE  IsFiniteSet(InFlight(c)) /\ Cardinality(InFlight(c)) \in Nat
BY FiniteServices, FS_Subset, FS_CardinalityType DEF InFlight

\* SendingExact in these words.
LEMMA Exact ==
  SendingExact <=>
    (type # "RESERVE" => sending.n = Cardinality(InFlight(id)) + Cardinality(QueuedIn(pipe, id)))
BY DEF SendingExact, InFlight, QueuedIn

\* The same of the next state.
LEMMA ExactNext ==
  SendingExact' <=>
    (type' # "RESERVE" => sending'.n = Cardinality(InFlight(id)') + Cardinality(QueuedIn(pipe', id')))
BY DEF SendingExact, InFlight, QueuedIn

\* dec_sending_ref finds something to take away: its assertion holds.
LEMMA DecSafe ==
  ASSUME SocketInv, SendSocket(id)
  PROVE  sending.n > 0
<1> USE DEF SocketInv, Typed, SlotSound, SendsSound, Alive
<1>1. pipe # <<>> /\ pipe \in Seq(Commands) /\ Head(pipe).op = "D" /\ Head(pipe).to = id /\ task = "idle"
  BY DEF SendSocket, Command
<1>2. Cardinality(QueuedIn(pipe, id)) = Cardinality(QueuedIn(Tail(pipe), id)) + 1
  BY <1>1, QueuedTail
<1>3. Tail(pipe) \in Seq(Commands)
  BY <1>1, HeadTailProperties
<1>4. type # "RESERVE"
  BY <1>1
<1>5. sending.n = Cardinality(InFlight(id)) + Cardinality(QueuedIn(pipe, id))
  BY <1>4, Exact
<1>6. Cardinality(InFlight(id)) \in Nat /\ Cardinality(QueuedIn(Tail(pipe), id)) \in Nat
  BY <1>3, QueuedFinite, FlightFinite
<1> QED
  BY <1>2, <1>5, <1>6

\* A step that leaves the pipe and the sends alone.
LEMMA CountFrame ==
  ASSUME SocketInv, UNCHANGED <<id, sending, pipe>>, type' # "RESERVE" => type # "RESERVE",
         \A s \in Svc : pc'[s] = "pipeD" <=> pc[s] = "pipeD",
         \A s \in Svc : pc[s] = "pipeD" => pk'[s] = pk[s]
  PROVE  SendingExact'
<1>1. InFlight(id)' = InFlight(id)
  BY DEF InFlight
<1> QED
  BY <1>1, Exact, ExactNext DEF SocketInv

\* A send under way becomes one more, and is counted.
LEMMA IncCounted ==
  ASSUME SocketInv, NEW s \in Svc, IncSending(s)
  PROVE  SendingExact'
<1> SUFFICES ASSUME type' # "RESERVE"
             PROVE  sending'.n = Cardinality(InFlight(id)') + Cardinality(QueuedIn(pipe', id'))
  BY ExactNext
<1>1. /\ type # "RESERVE" /\ sending.tag = id /\ (id \in Conn => tcp)
      /\ id' = id /\ pipe' = pipe /\ pk' = pk
      /\ pc[s] = "inc" /\ pc' = [pc EXCEPT ![s] = "pipeD"] /\ pc \in [Svc -> Steps]
      /\ pk[s] \in Packet /\ sending.n \in Nat
      /\ sending' = IF tcp /\ sending.tag = pk[s].to THEN Sending(1) ELSE sending
  <2>1. type # "RESERVE" /\ sending.tag = id /\ (id \in Conn => tcp)
    BY DEF SocketInv, SlotSound, IncSending
  <2>2. id' = id /\ pipe' = pipe /\ pk' = pk /\ pc[s] = "inc" /\ pc' = [pc EXCEPT ![s] = "pipeD"]
    BY DEF IncSending, Moves
  <2>3. sending' = IF tcp /\ sending.tag = pk[s].to THEN Sending(1) ELSE sending
    BY DEF IncSending
  <2>4. pc \in [Svc -> Steps] /\ pk[s] \in Packet /\ sending.n \in Nat
    BY <2>2 DEF SocketInv, Typed, TypeOK, SendsSound
  <2> QED
    BY <2>1, <2>2, <2>3, <2>4
<1>2. sending.n = Cardinality(InFlight(id)) + Cardinality(QueuedIn(pipe, id))
  BY <1>1, Exact DEF SocketInv
<1>f. IsFiniteSet(InFlight(id)) /\ Cardinality(InFlight(id)) \in Nat
      /\ Cardinality(QueuedIn(pipe, id)) \in Nat
  BY FlightFinite, QueuedFinite DEF SocketInv, Typed
<1>3. CASE pk[s].to = id
  <2>1. id \in Conn /\ tcp
    BY <1>1, <1>3 DEF Packet
  <2>2. sending'.n = sending.n + 1
    BY <1>1, <1>3, <2>1 DEF Sending
  <2>3. InFlight(id)' = InFlight(id) \cup {s} /\ s \notin InFlight(id)
    BY <1>1, <1>3 DEF InFlight
  <2>4. Cardinality(InFlight(id)') = Cardinality(InFlight(id)) + 1
    BY <1>f, <2>3, FS_AddElement
  <2> QED
    BY <1>1, <1>2, <1>f, <2>2, <2>4
<1>4. CASE pk[s].to # id
  <2>1. sending' = sending
    BY <1>1, <1>4
  <2>2. InFlight(id)' = InFlight(id)
    BY <1>1, <1>4 DEF InFlight
  <2> QED
    BY <1>1, <1>2, <2>1, <2>2
<1> QED
  BY <1>1, <1>3, <1>4

\* A send that reaches the pipe is counted there.
LEMMA RequestCounted ==
  ASSUME SocketInv, NEW s \in Svc, SendRequest(s)
  PROVE  SendingExact'
<1> SUFFICES ASSUME type' # "RESERVE"
             PROVE  sending'.n = Cardinality(InFlight(id)') + Cardinality(QueuedIn(pipe', id'))
  BY ExactNext
<1>1. /\ type # "RESERVE" /\ id' = id /\ sending' = sending /\ pk[s] \in Packet /\ pk[s].to \in Conn
      /\ pc' = [pc EXCEPT ![s] = "idle"] /\ pk' = [pk EXCEPT ![s] = Nil]
      /\ pc \in [Svc -> Steps] /\ pk \in [Svc -> Packet \cup {Nil}] /\ pipe \in Seq(Commands)
      /\ pc[s] \in {"pipeD", "pipeW"}
  <2>1. type # "RESERVE" /\ id' = id /\ sending' = sending
    BY DEF SendRequest, socketVars
  <2>2. pc' = [pc EXCEPT ![s] = "idle"] /\ pk' = [pk EXCEPT ![s] = Nil] /\ pc[s] \in {"pipeD", "pipeW"}
    BY DEF SendRequest, Done
  <2>3. pc \in [Svc -> Steps] /\ pk \in [Svc -> Packet \cup {Nil}] /\ pipe \in Seq(Commands)
    BY DEF SocketInv, Typed, TypeOK
  <2>4. pk[s] \in Packet /\ pk[s].to \in Conn
    BY <2>2, <2>3 DEF SocketInv, SendsSound, Packet
  <2> QED
    BY <2>1, <2>2, <2>3, <2>4
<1>2. sending.n = Cardinality(InFlight(id)) + Cardinality(QueuedIn(pipe, id))
  BY <1>1, Exact DEF SocketInv
<1>f. IsFiniteSet(InFlight(id)) /\ Cardinality(InFlight(id)) \in Nat
      /\ Cardinality(QueuedIn(pipe, id)) \in Nat
  BY FlightFinite, QueuedFinite DEF SocketInv, Typed
<1>3. CASE pc[s] = "pipeW"
  <2>1. InFlight(id)' = InFlight(id)
    BY <1>1, <1>3 DEF InFlight
  <2> DEFINE m == [op |-> "W", to |-> pk[s].to]
  <2>2. m \in Commands /\ pipe' = Append(pipe, m) /\ m.op = "W"
    BY <1>1, <1>3, Asked DEF SendRequest
  <2> HIDE DEF m
  <2>3. Cardinality(QueuedIn(pipe', id)) = Cardinality(QueuedIn(pipe, id))
    BY <1>1, <1>f, <2>2, QueuedAppend
  <2> QED
    BY <1>1, <1>2, <2>1, <2>3
<1>4. CASE pc[s] = "pipeD"
  <2> DEFINE m == [op |-> "D", to |-> pk[s].to, packet |-> pk[s]]
  <2>1. m \in Commands /\ pipe' = Append(pipe, m) /\ m.op = "D" /\ m.to = pk[s].to
    BY <1>1, <1>4 DEF Commands, SendRequest
  <2> HIDE DEF m
  <2>2. Cardinality(QueuedIn(pipe', id)) = Cardinality(QueuedIn(pipe, id)) + (IF pk[s].to = id THEN 1 ELSE 0)
    BY <1>1, <2>1, QueuedAppend
  <2>3. InFlight(id)' = InFlight(id) \ {s} /\ (s \in InFlight(id) <=> pk[s].to = id)
    BY <1>1, <1>4 DEF InFlight
  <2>4. Cardinality(InFlight(id)') = IF s \in InFlight(id) THEN Cardinality(InFlight(id)) - 1
                                   ELSE Cardinality(InFlight(id))
    BY <1>f, <2>3, FS_RemoveElement
  <2> QED
    BY <1>1, <1>2, <1>f, <2>2, <2>3, <2>4
<1> QED
  BY <1>1, <1>3, <1>4

\* A command that the socket thread takes is no longer counted in the pipe.
LEMMA CommandCounted ==
  ASSUME SocketInv, NEW c \in Conn, NEW op, Command(op, c),
         sending'.n = sending.n - (IF op = "D" /\ c = id THEN 1 ELSE 0)
  PROVE  SendingExact'
<1>1. /\ type # "RESERVE" /\ id' = id /\ pc' = pc /\ pk' = pk
      /\ pipe \in Seq(Commands) /\ pipe # <<>> /\ pipe' = Tail(pipe)
      /\ Head(pipe).op = op /\ Head(pipe).to = c
  BY DEF SocketInv, SlotSound, Typed, Command
<1>2. sending.n = Cardinality(InFlight(id)) + Cardinality(QueuedIn(pipe, id))
  BY <1>1, Exact DEF SocketInv
<1>3. Cardinality(QueuedIn(pipe, id)) =
        Cardinality(QueuedIn(pipe', id)) + (IF op = "D" /\ c = id THEN 1 ELSE 0)
  BY <1>1, QueuedTail
<1>4. Cardinality(InFlight(id)) \in Nat /\ Cardinality(QueuedIn(pipe', id)) \in Nat
  BY <1>1, FlightFinite, QueuedFinite, HeadTailProperties
<1>5. InFlight(id)' = InFlight(id)
  BY <1>1 DEF InFlight
<1>6. CASE op = "D" /\ c = id
  BY <1>1, <1>2, <1>3, <1>4, <1>5, <1>6, ExactNext
<1>7. CASE ~(op = "D" /\ c = id)
  BY <1>1, <1>2, <1>3, <1>4, <1>5, <1>7, ExactNext
<1> QED
  BY <1>6, <1>7

\* The count is exact after every step.
LEMMA CountStep ==
  ASSUME SocketInv, [Next]_vars
  PROVE  SendingExact'
<1>1. ASSUME NEW s \in Svc, SenderStep(s)
      PROVE  SendingExact'
  <2>1. CASE TryLock(s)
    BY <2>1, CountFrame DEF TryLock, Moves, SocketInv, Typed
  <2>2. CASE DoubleCheck(s)
    BY <2>2, CountFrame DEF DoubleCheck, Moves, SocketInv, Typed
  <2>3. ASSUME NEW k \in 0..Pieces, DirectWrite(s, k)
        PROVE  SendingExact'
    <3>1. UNCHANGED <<id, sending, pipe, type>> /\ pc[s] = "write"
      BY <2>3 DEF DirectWrite
    <3>2. (\E w \in {"idle", "pipeW"} : pc' = [pc EXCEPT ![s] = w])
          /\ (pk' = pk \/ pk' = [pk EXCEPT ![s] = Nil])
      BY <2>3 DEF DirectWrite, Done, Moves
    <3> QED
      BY <3>1, <3>2, CountFrame DEF SocketInv, Typed, TypeOK
  <2> QED
    BY <1>1, <2>1, <2>2, <2>3, IncCounted, RequestCounted DEF SenderStep
<1>2. ASSUME NEW s \in Svc, NEW c \in Conn, Send(s, c) \/ SendLow(s, c)
      PROVE  SendingExact'
  <2>1. PICK prio \in BOOLEAN : NewPacket(s, c, prio)
    BY <1>2 DEF Send, SendLow
  <2>2. UNCHANGED <<id, sending, pipe, type>> /\ \A t \in Svc \ {s} : pk'[t] = pk[t]
    BY <2>1 DEF NewPacket, socketVars, SocketInv, Typed, TypeOK
  <2>3. pc[s] = "idle" /\ \E w \in {"try", "inc"} : pc' = [pc EXCEPT ![s] = w]
    BY <1>2 DEF Send, SendLow, Moves
  <2> QED
    BY <2>2, <2>3, CountFrame DEF SocketInv, Typed
<1>3. ASSUME NEW c \in Conn, NEW op \in {"R", "S", "K", "X"}, Ask(c, op)
      PROVE  SendingExact'
  <2>1. UNCHANGED <<id, sending, type, pc, pk>>
    BY <1>3 DEF Ask, socketVars
  <2> DEFINE m == [op |-> op, to |-> c]
  <2>2. m \in Commands /\ m.op # "D" /\ pipe' = Append(pipe, m) /\ pipe \in Seq(Commands)
    BY <1>3, Asked DEF Ask, SocketInv, Typed
  <2> HIDE DEF m
  <2>3. Cardinality(QueuedIn(pipe', id)) = Cardinality(QueuedIn(pipe, id))
    BY <2>2, QueuedAppend, QueuedFinite
  <2>4. InFlight(id)' = InFlight(id)
    BY <2>1 DEF InFlight
  <2> QED
    BY <2>1, <2>3, <2>4, Exact, ExactNext DEF SocketInv
<1>4. ASSUME NEW c \in Conn, \/ ResumeSocket(c) \/ PauseSocket(c) \/ TriggerWrite(c)
                             \/ \E shutdown \in BOOLEAN : CloseSocket(c, shutdown)
      PROVE  SendingExact'
  <2>1. PICK op \in {"R", "S", "W", "K", "X"} : Command(op, c)
    BY <1>4 DEF ResumeSocket, PauseSocket, TriggerWrite, CloseSocket
  <2>2. sending' = sending /\ sending.n \in Nat
    BY <1>4 DEF ResumeSocket, PauseSocket, TriggerWrite, CloseSocket, SocketInv, Typed, TypeOK
  <2> QED
    BY <2>1, <2>2, CommandCounted
<1>5. ASSUME NEW c \in Conn, SendSocket(c)
      PROVE  SendingExact'
  <2>1. Command("D", c) /\ sending' = IF id = c /\ tcp THEN Sending(-1) ELSE sending
    BY <1>5 DEF SendSocket
  <2>2. sending.n \in Nat /\ (id = c => tcp)
    BY <2>1 DEF SocketInv, Typed, TypeOK, SlotSound, Command
  <2>3. sending'.n = sending.n - (IF c = id THEN 1 ELSE 0)
    BY <2>1, <2>2 DEF Sending
  <2> QED
    BY <2>1, <2>3, CommandCounted
<1>6. CASE NewFd
  <2>1. task = "accept" /\ type = "RESERVE" /\ id' = id /\ pipe' = pipe /\ pc' = pc /\ pk' = pk
        /\ sending' = [tag |-> id, n |-> 0] /\ id \in Conn
    BY <1>6 DEF NewFd, SocketInv, SlotSound
  <2>2. ~told[id].open
    BY <2>1 DEF SocketInv, SendsSound, Conn
  <2>3. InFlight(id)' = {} /\ QueuedIn(pipe', id) = {}
    BY <2>1, <2>2 DEF SocketInv, SendsSound, InFlight, QueuedIn
  <2> QED
    BY <2>1, <2>3, FS_EmptySet, ExactNext
<1>7. CASE ReserveId
  BY <1>7 DEF ReserveId, SendingExact
<1>8. CASE \/ SpWait \/ StaleEvent \/ ReadZero \/ ReadNothing \/ ReportError \/ Eof \/ WriteBlocked
           \/ WriteEvent \/ WriteFails \/ CloseFd \/ PeerChanges
  <2>1. UNCHANGED <<id, sending, pipe, pc, pk>>
    BY <1>8 DEF SpWait, StaleEvent, ReadZero, ReadNothing, ReportError, Eof, WriteBlocked, WriteEvent,
                WriteFails, CloseFd, PeerChanges, Event, socketVars
  <2>2. type' # "RESERVE" => type # "RESERVE"
    BY <1>8 DEF SpWait, StaleEvent, ReadZero, ReadNothing, ReportError, Eof, WriteBlocked, WriteEvent,
                WriteFails, CloseFd, PeerChanges, Event, socketVars, SocketInv, SlotSound
  <2> QED
    BY <2>1, <2>2, CountFrame
<1>9. ASSUME NEW k \in Nat, SendBuffer(k)
      PROVE  SendingExact'
  <2>1. UNCHANGED <<id, sending, pipe, pc, pk>> /\ task = "send"
    BY <1>9 DEF SendBuffer
  <2> QED
    BY <2>1, CountFrame DEF SocketInv, SlotSound, Alive
<1>10. CASE UNCHANGED vars
  BY <1>10, CountFrame DEF vars, socketVars
<1>11. \A k \in 1..(Len(high) + Len(low)) : k \in Nat
  BY DEF SocketInv, Typed, TypeOK
<1> QED
  BY <1>1, <1>2, <1>3, <1>4, <1>5, <1>6, <1>7, <1>8, <1>9, <1>10, <1>11 DEF Next, ThreadStep, Progress

-----------------------------------------------------------------------------
(* The slot, its lock, what was told and the lists                           *)

\* What a step of a service, or of the other end, leaves alone.
LEMMA Elsewhere ==
  ASSUME SocketInv,
         \/ \E s \in Svc : SenderStep(s) \/ \E c \in Conn : Send(s, c) \/ SendLow(s, c)
         \/ \E c \in Conn, op \in {"R", "S", "K", "X"} : Ask(c, op)
         \/ PeerChanges
         \/ UNCHANGED vars
  PROVE  /\ UNCHANGED <<type, id, tcp, reading, writing, closing, high, low, task, ready, checkctrl, told>>
         /\ sending'.tag = sending.tag
<1>1. ASSUME NEW s \in Svc, SenderStep(s)
      PROVE  /\ UNCHANGED <<type, id, tcp, reading, writing, closing, high, low, task, ready,
                             checkctrl, told>>
             /\ sending'.tag = sending.tag
  BY <1>1 DEF SenderStep, TryLock, DoubleCheck, IncSending, SendRequest, DirectWrite, Sending, socketVars,
              pollVars, SocketInv, Typed, TypeOK
<1>2. ASSUME NEW s \in Svc, NEW c \in Conn, Send(s, c) \/ SendLow(s, c)
      PROVE  /\ UNCHANGED <<type, id, tcp, reading, writing, closing, high, low, task, ready,
                             checkctrl, told>>
             /\ sending'.tag = sending.tag
  BY <1>2 DEF Send, SendLow, NewPacket, socketVars, pollVars
<1>3. ASSUME NEW c \in Conn, NEW op \in {"R", "S", "K", "X"}, Ask(c, op)
      PROVE  /\ UNCHANGED <<type, id, tcp, reading, writing, closing, high, low, task, ready,
                             checkctrl, told>>
             /\ sending'.tag = sending.tag
  BY <1>3 DEF Ask, socketVars, pollVars
<1>4. CASE PeerChanges
  BY <1>4 DEF PeerChanges, socketVars, pollVars
<1>5. CASE UNCHANGED vars
  BY <1>5 DEF vars, socketVars, pollVars
<1> QED
  BY <1>1, <1>2, <1>3, <1>4, <1>5

\* The slot is sound after every step.
LEMMA SlotStep ==
  ASSUME SocketInv, [Next]_vars
  PROVE  SlotSound'
<1> USE DEF SlotSound, Alive
<1>1. CASE \/ \E s \in Svc : SenderStep(s) \/ \E c \in Conn : Send(s, c) \/ SendLow(s, c)
           \/ \E c \in Conn, op \in {"R", "S", "K", "X"} : Ask(c, op)
           \/ PeerChanges
           \/ UNCHANGED vars
  BY <1>1, Elsewhere DEF SocketInv
<1>2. ASSUME NEW c \in Conn, ResumeSocket(c)
      PROVE  SlotSound'
  BY <1>2 DEF SocketInv, ResumeSocket, Command
<1>3. ASSUME NEW c \in Conn, PauseSocket(c) \/ TriggerWrite(c)
      PROVE  SlotSound'
  <2>1. UNCHANGED <<type, id, task, closing, sending, tcp>>
    BY <1>3 DEF PauseSocket, TriggerWrite, Command
  <2> QED
    BY <2>1 DEF SocketInv
<1>4. ASSUME NEW c \in Conn, SendSocket(c)
      PROVE  SlotSound'
  <2>1. sending'.tag = sending.tag
    BY <1>4 DEF SendSocket, Sending
  <2> QED
    BY <1>4, <2>1 DEF SocketInv, SendSocket, Command
<1>5. ASSUME NEW c \in Conn, NEW shutdown \in BOOLEAN, CloseSocket(c, shutdown)
      PROVE  SlotSound'
  <2>1. type \in Types
    BY DEF SocketInv, Typed, TypeOK
  <2> QED
    BY <1>5, <2>1 DEF SocketInv, CloseSocket, CloseRead, FreeLists, Command, Valid, Types
<1>6. CASE SpWait \/ StaleEvent \/ ReadNothing \/ ReportError \/ WriteBlocked \/ WriteEvent
  BY <1>6 DEF SocketInv, SpWait, StaleEvent, ReadNothing, ReportError, WriteBlocked, WriteEvent, Event,
     socketVars
<1>7. CASE ReadZero
  BY <1>7 DEF SocketInv, ReadZero, Event, FreeLists, CloseRead
<1>8. CASE Eof
  <2>1. type \in Types
    BY DEF SocketInv, Typed, TypeOK
  <2> QED
    BY <1>8, <2>1 DEF SocketInv, Eof, Event, FreeLists, Types
<1>9. ASSUME NEW k \in Nat, SendBuffer(k)
      PROVE  SlotSound'
  BY <1>9 DEF SocketInv, SendBuffer, CloseLocked
<1>10. CASE WriteFails
  BY <1>10 DEF SocketInv, WriteFails, CloseLocked
<1>11. CASE CloseFd
  BY <1>11 DEF SocketInv, CloseFd
<1>12. CASE ReserveId
  <2>1. id \in Nat /\ MaxConn \in Nat
    BY DEF SocketInv, Typed, TypeOK
  <2>2. id' \in Conn /\ type' = "RESERVE" /\ task' = "accept"
    BY <1>12, <2>1 DEF ReserveId, Conn
  <2> QED
    BY <2>2
<1>13. CASE NewFd
  BY <1>13 DEF SocketInv, NewFd
<1>14. \A k \in 1..(Len(high) + Len(low)) : k \in Nat
  BY DEF SocketInv, Typed, TypeOK
<1> QED
  BY <1>1, <1>2, <1>3, <1>4, <1>5, <1>6, <1>7, <1>8, <1>9, <1>10, <1>11, <1>12, <1>13, <1>14
     DEF Next, ThreadStep, Progress

\* Between any two steps every connection has had the messages that are due.
LEMMA CloseStep ==
  ASSUME SocketInv, [Next]_vars
  PROVE  CloseExact'
<1> DEFINE Due(c) == c < id \/ (c = id /\ type \in {"INVALID", "HALFCLOSE_READ"})
           Same == \A c \in Conn : told'[c].close = told[c].close
<1>0. /\ \A c \in Conn : told[c].close = IF Due(c) THEN 1 ELSE 0
      /\ told \in [Conn -> [open: BOOLEAN, close: Nat, err: BOOLEAN]]
      /\ type \in Types /\ (type # "INVALID" => id \in Conn) /\ id \in 0..MaxConn
  BY DEF SocketInv, CloseExact, SlotSound, Typed, TypeOK
<1>f. ASSUME Same, id' = id,
             type' \in {"INVALID", "HALFCLOSE_READ"} <=> type \in {"INVALID", "HALFCLOSE_READ"}
      PROVE  CloseExact'
  BY <1>0, <1>f DEF CloseExact
<1>r. ASSUME Raise(id, "close"), id' = id, id \in Conn,
             type' \in {"INVALID", "HALFCLOSE_READ"}, type \notin {"INVALID", "HALFCLOSE_READ"}
      PROVE  CloseExact'
  <2>1. \A c \in Conn : told'[c].close = IF c = id THEN told[c].close + 1 ELSE told[c].close
    <3>1. \A c \in Conn :
            told'[c].close = IF c = id /\ "close" = "close" THEN told[c].close + 1 ELSE told[c].close
      BY <1>0, <1>r, Raised
    <3> QED
      BY <3>1
  <2> QED
    BY <1>0, <1>r, <2>1 DEF CloseExact, Conn
<1>1. CASE \/ \E s \in Svc : SenderStep(s) \/ \E c \in Conn : Send(s, c) \/ SendLow(s, c)
           \/ \E c \in Conn, op \in {"R", "S", "K", "X"} : Ask(c, op)
           \/ PeerChanges
           \/ UNCHANGED vars
  BY <1>1, <1>f, Elsewhere
<1>2. ASSUME NEW c \in Conn, ResumeSocket(c)
      PROVE  CloseExact'
  <2>1. Same
    BY <1>0, <1>2, Raised DEF ResumeSocket
  <2> QED
    BY <1>2, <1>f, <2>1 DEF ResumeSocket, Command
<1>3. ASSUME NEW c \in Conn, PauseSocket(c) \/ TriggerWrite(c) \/ SendSocket(c)
      PROVE  CloseExact'
  BY <1>3, <1>f DEF PauseSocket, TriggerWrite, SendSocket, Command
<1>4. ASSUME NEW c \in Conn, NEW shutdown \in BOOLEAN, CloseSocket(c, shutdown)
      PROVE  CloseExact'
  <2>1. id' = id
    BY <1>4 DEF CloseSocket, Command
  <2>2. CASE UNCHANGED <<type, told>>
    BY <1>f, <2>1, <2>2
  <2>3. CASE Valid(c) /\ type # "HALFCLOSE_READ" /\ CloseRead(c)
    BY <1>0, <1>r, <2>1, <2>3 DEF CloseRead, Valid
  <2> QED
    BY <1>4, <2>2, <2>3 DEF CloseSocket
<1>5. CASE SpWait \/ StaleEvent \/ ReadNothing \/ WriteBlocked \/ WriteEvent \/ Eof
  BY <1>5, <1>f DEF SpWait, StaleEvent, ReadNothing, WriteBlocked, WriteEvent, Eof, Event, socketVars
<1>6. CASE ReportError
  <2>1. Raise(id, "err") /\ type # "INVALID" /\ id' = id /\ type' = type
    BY <1>6 DEF ReportError, Event
  <2>2. Same
    BY <1>0, <2>1, Raised
  <2> QED
    BY <1>f, <2>1, <2>2
<1>7. CASE ReadZero
  <2>1. id' = id /\ type # "INVALID"
    BY <1>7 DEF ReadZero, Event
  <2>2. CASE UNCHANGED <<type, told>>
    BY <1>f, <2>1, <2>2
  <2>3. CASE type # "HALFCLOSE_READ" /\ CloseRead(id)
    BY <1>0, <1>r, <2>1, <2>3 DEF CloseRead
  <2> QED
    BY <1>7, <2>2, <2>3 DEF ReadZero
<1>8. CASE WriteFails
  <2>1. id' = id /\ task = "send" /\ type \notin {"INVALID", "RESERVE"}
    BY <1>8 DEF WriteFails, SocketInv, SlotSound, Alive
  <2>2. CASE closing \/ type = "HALFCLOSE_READ"
    <3>1. type = "HALFCLOSE_READ" /\ type' = "INVALID" /\ told' = told
      BY <1>8, <2>1, <2>2 DEF WriteFails, CloseLocked, SocketInv, SlotSound, Alive
    <3> QED
      BY <1>f, <2>1, <3>1
  <2>3. CASE ~closing /\ type # "HALFCLOSE_READ"
    <3>1. Same
      BY <1>0, <1>8, <2>1, <2>3, Raised DEF WriteFails
    <3> QED
      BY <1>8, <1>f, <2>1, <2>3, <3>1 DEF WriteFails
  <2> QED
    BY <2>2, <2>3
<1>9. ASSUME NEW k \in Nat, SendBuffer(k)
      PROVE  CloseExact'
  <2>1. UNCHANGED <<id, told>> /\ (type' = type \/ (type' = "INVALID" /\ closing)) /\ task = "send"
    BY <1>9 DEF SendBuffer, CloseLocked
  <2> QED
    BY <1>f, <2>1 DEF SocketInv, SlotSound, Alive
<1>10. CASE CloseFd
  <2>1. id' = id /\ type' = "INVALID"
    BY <1>10 DEF CloseFd
  <2>2. CASE task = "close"
    <3>1. Raise(id, "nothing") /\ type = "HALFCLOSE_READ"
      BY <1>10, <2>2 DEF CloseFd, SocketInv, SlotSound
    <3>2. Same
      BY <1>0, <3>1, Raised
    <3> QED
      BY <1>f, <2>1, <3>1, <3>2
  <2>3. CASE task = "tell"
    BY <1>0, <1>10, <1>r, <2>1, <2>3 DEF CloseFd, SocketInv, SlotSound
  <2> QED
    BY <1>10, <2>2, <2>3 DEF CloseFd
<1>11. CASE ReserveId
  <2>1. id' = id + 1 /\ type = "INVALID" /\ type' = "RESERVE" /\ told' = told
    BY <1>11 DEF ReserveId
  <2> QED
    BY <1>0, <2>1 DEF CloseExact, Conn
<1>12. CASE NewFd
  <2>1. type = "RESERVE" /\ type' = "PACCEPT" /\ UNCHANGED <<id, told>>
    BY <1>12 DEF NewFd, SocketInv, SlotSound
  <2> QED
    BY <1>f, <2>1
<1>13. \A k \in 1..(Len(high) + Len(low)) : k \in Nat
  BY DEF SocketInv, Typed, TypeOK
<1> QED
  BY <1>1, <1>2, <1>3, <1>4, <1>5, <1>6, <1>7, <1>8, <1>9, <1>10, <1>11, <1>12, <1>13
     DEF Next, ThreadStep, Progress

\* The lock has the holder that the program counters say, and nothing is left
\* over where it is about to be written, after every step.
LEMMA LockStep ==
  ASSUME SocketInv, [Next]_vars
  PROVE  LockSound'
<1> USE DEF LockSound
<1>0. pc \in [Svc -> Steps] /\ pk \in [Svc -> Packet \cup {Nil}] /\ lock \in Svc \cup {Nil, "socket"}
      /\ task \in {"idle", "send", "close", "tell", "accept"}
  BY DEF SocketInv, Typed, TypeOK
<1>1. ASSUME NEW s \in Svc, SenderStep(s)
      PROVE  LockSound'
  <2> USE <1>0 DEF SocketInv, Moves, pollVars, socketVars
  <2>1. CASE TryLock(s)
    BY <2>1 DEF TryLock
  <2>2. CASE DoubleCheck(s)
    BY <2>2 DEF DoubleCheck, CanDirectWrite, NomoreSendingData
  <2>3. ASSUME NEW k \in 0..Pieces, DirectWrite(s, k)
        PROVE  LockSound'
    <3>1. pc[s] = "write" /\ lock' = Nil /\ UNCHANGED <<type, task, ready>>
      BY <2>3 DEF DirectWrite
    <3>2. \E w \in {"idle", "pipeW"} : pc' = [pc EXCEPT ![s] = w]
      BY <2>3 DEF DirectWrite, Done
    <3> QED
      BY <3>1, <3>2
  <2>4. CASE IncSending(s)
    BY <2>4 DEF IncSending
  <2>5. CASE SendRequest(s)
    BY <2>5 DEF SendRequest, Done, socketVars, pollVars
  <2> QED
    BY <1>1, <2>1, <2>2, <2>3, <2>4, <2>5 DEF SenderStep
<1>2. ASSUME NEW s \in Svc, NEW c \in Conn, Send(s, c) \/ SendLow(s, c)
      PROVE  LockSound'
  <2>1. UNCHANGED <<type, id, lock, dw, task, ready>> /\ \A t \in Svc \ {s} : pk'[t] = pk[t]
    BY <1>0, <1>2 DEF Send, SendLow, NewPacket, socketVars, pollVars
  <2>2. pc[s] = "idle" /\ \E w \in {"try", "inc"} : pc' = [pc EXCEPT ![s] = w]
    BY <1>2 DEF Send, SendLow, Moves
  <2> QED
    BY <1>0, <2>1, <2>2 DEF SocketInv
<1>f. ASSUME UNCHANGED <<lock, dw, pc, pk, id>>,
             type' = type \/ (type' = "HALFCLOSE_READ" /\ type # "INVALID"),
             task' # "send", task # "send"
      PROVE  LockSound'
  BY <1>f DEF SocketInv
<1>3. ASSUME NEW c \in Conn, NEW op \in {"R", "S", "K", "X"}, Ask(c, op)
      PROVE  LockSound'
  BY <1>3 DEF Ask, socketVars, pollVars, SocketInv
<1>4. ASSUME NEW c \in Conn, ResumeSocket(c)
      PROVE  LockSound'
  <2>1. UNCHANGED <<lock, dw, pc, pk, id, task>> /\ task = "idle"
        /\ (type \in {"CONNECTED", "HALFCLOSE_READ"} => type' = type)
    BY <1>4 DEF ResumeSocket, Command
  <2> QED
    BY <2>1 DEF SocketInv
<1>5. ASSUME NEW c \in Conn, PauseSocket(c) \/ TriggerWrite(c) \/ SendSocket(c)
      PROVE  LockSound'
  BY <1>5, <1>f DEF PauseSocket, TriggerWrite, SendSocket, Command
<1>6. ASSUME NEW c \in Conn, NEW shutdown \in BOOLEAN, CloseSocket(c, shutdown)
      PROVE  LockSound'
  <2>1. UNCHANGED <<lock, dw, pc, pk, id>> /\ task = "idle" /\ task' # "send"
    BY <1>6 DEF CloseSocket, Command, FreeLists
  <2>2. type' = type \/ (type' = "HALFCLOSE_READ" /\ type # "INVALID")
    BY <1>6 DEF CloseSocket, CloseRead, Valid
  <2> QED
    BY <1>f, <2>1, <2>2
<1>7. CASE SpWait \/ StaleEvent \/ ReadNothing \/ ReportError \/ WriteBlocked \/ Eof
  BY <1>7, <1>f DEF SpWait, StaleEvent, ReadNothing, ReportError, WriteBlocked, Eof, FreeLists, Event,
     socketVars
<1>8. CASE ReadZero
  BY <1>8, <1>f DEF ReadZero, Event, FreeLists, CloseRead
<1>9. CASE WriteEvent
  <2>1. \A s \in Svc : pc[s] \notin {"locked", "write"}
    BY <1>9 DEF WriteEvent, SocketInv
  <2> QED
    BY <1>9, <2>1 DEF WriteEvent
<1>10. ASSUME task = "send", lock' = Nil, task' = "idle", UNCHANGED <<pc, dw>>
       PROVE  LockSound'
  BY <1>10 DEF SocketInv
<1>11. ASSUME NEW k \in Nat, SendBuffer(k)
       PROVE  LockSound'
  BY <1>10, <1>11 DEF SendBuffer
<1>12. CASE WriteFails
  BY <1>10, <1>12 DEF WriteFails
<1>13. CASE CloseFd
  <2>1. \A s \in Svc : pc[s] \notin {"locked", "write"}
    BY <1>13 DEF CloseFd, SocketInv
  <2> QED
    BY <1>13, <2>1 DEF CloseFd, SocketInv
<1>14. CASE ReserveId \/ NewFd
  <2>1. type \in {"INVALID", "RESERVE"} /\ UNCHANGED <<lock, pc>> /\ task # "send" /\ task' # "send"
    BY <1>14 DEF ReserveId, NewFd, SocketInv, SlotSound
  <2> QED
    BY <2>1 DEF SocketInv
<1>15. CASE PeerChanges \/ UNCHANGED vars
  BY <1>15 DEF PeerChanges, vars, socketVars, pollVars, SocketInv
<1>16. \A k \in 1..(Len(high) + Len(low)) : k \in Nat
  BY DEF SocketInv, Typed, TypeOK
<1> QED
  BY <1>1, <1>2, <1>3, <1>4, <1>5, <1>6, <1>7, <1>8, <1>9, <1>11, <1>12, <1>13, <1>14, <1>15, <1>16
     DEF Next, ThreadStep, Progress

\* Sends are under way only to connections that have been open, after every step.
LEMMA SendsStep ==
  ASSUME SocketInv, [Next]_vars
  PROVE  SendsSound'
<1> DEFINE Told == [Conn -> [open: BOOLEAN, close: Nat, err: BOOLEAN]]
           Opens == \A c \in Conn :
             told'[c].open => c < id' \/ (c = id' /\ type' \notin {"RESERVE", "PACCEPT"})
           Stays == \A c \in Conn : told[c].open => told'[c].open
           Queue == \A i \in 1..Len(pipe') : pipe'[i].op = "D" => told'[pipe'[i].to].open
           Under == \A s \in Svc : pc'[s] # "idle" => pk'[s] # Nil /\ told'[pk'[s].to].open
<1>0. /\ told \in Told /\ pipe \in Seq(Commands) /\ id \in 0..MaxConn
      /\ pc \in [Svc -> Steps] /\ pk \in [Svc -> Packet \cup {Nil}]
      /\ \A p \in Packet : p.to \in Conn
      /\ \A m \in Commands : m.to \in Conn /\ (m.op = "D" => m.packet \in Packet)
  BY DEF SocketInv, Typed, TypeOK, Packet, Commands
<1>d. told \in [Conn -> [open: BOOLEAN, close: Nat, err: BOOLEAN]]
  BY <1>0
<1>q. ASSUME Stays, pipe' = pipe \/ (pipe # <<>> /\ pipe' = Tail(pipe))
      PROVE  Queue
  <2>1. ASSUME NEW i \in 1..Len(pipe'), pipe'[i].op = "D"
        PROVE  told'[pipe'[i].to].open
    <3>1. PICK j \in 1..Len(pipe) : pipe'[i] = pipe[j]
      <4>1. CASE pipe' = pipe
        BY <2>1, <4>1
      <4>2. CASE pipe # <<>> /\ pipe' = Tail(pipe)
        <5>1. Len(pipe) \in Nat /\ Len(pipe') = Len(pipe) - 1 /\ pipe'[i] = pipe[i + 1]
          BY <1>0, <2>1, <4>2, HeadTailProperties, LenProperties
        <5> QED
          BY <2>1, <5>1
      <4> QED
        BY <1>q, <4>1, <4>2
    <3>2. pipe[j] \in Commands
      BY <1>0, ElementOfSeq
    <3> QED
      BY <1>0, <1>q, <2>1, <3>1, <3>2 DEF SocketInv, SendsSound
  <2> QED
    BY <2>1
<1>u. ASSUME Stays, UNCHANGED <<pc, pk>>
      PROVE  Under
  BY <1>0, <1>u DEF SocketInv, SendsSound
<1>n. ASSUME Opens, Queue, Under
      PROVE  SendsSound'
  BY <1>n DEF SendsSound
<1>o. ASSUME id' = id, \A c \in Conn : told'[c].open <=> told[c].open,
             type' \in {"RESERVE", "PACCEPT"} => type \in {"RESERVE", "PACCEPT"}
      PROVE  Opens /\ Stays
  BY <1>o DEF SocketInv, SendsSound
<1>r. ASSUME NEW what \in {"close", "err", "nothing"}, id \in Conn, Raise(id, what)
      PROVE  \A c \in Conn : told'[c].open <=> told[c].open
  <2>1. \A c \in Conn : told'[c].open <=> told[c].open \/ (c = id /\ what = "open")
    BY <1>d, <1>r, Raised
  <2> QED
    BY <1>r, <2>1
<1>t. ASSUME UNCHANGED <<pc, pk>>, pipe' = pipe \/ (pipe # <<>> /\ pipe' = Tail(pipe)),
             id' = id, \A c \in Conn : told'[c].open <=> told[c].open,
             type' \in {"RESERVE", "PACCEPT"} => type \in {"RESERVE", "PACCEPT"}
      PROVE  SendsSound'
  <2>1. Opens /\ Stays
    BY <1>o, <1>t
  <2> QED
    BY <1>n, <1>q, <1>t, <1>u, <2>1
<1>1. ASSUME NEW s \in Svc, SenderStep(s)
      PROVE  SendsSound'
  <2>1. UNCHANGED <<id, type, told>>
    BY <1>1, Elsewhere
  <2>2. Opens /\ Stays
    BY <1>o, <2>1
  <2>3. ASSUME pc[s] # "idle", pk' = pk, \E w \in Steps : pc' = [pc EXCEPT ![s] = w], pipe' = pipe
        PROVE  SendsSound'
    <3>1. Under
      BY <1>0, <2>1, <2>3 DEF SocketInv, SendsSound
    <3> QED
      BY <1>n, <1>q, <2>2, <2>3, <3>1
  <2>4. CASE TryLock(s) \/ DoubleCheck(s) \/ IncSending(s)
    BY <2>3, <2>4 DEF TryLock, DoubleCheck, IncSending, Moves, Steps
  <2>5. ASSUME Done(s) PROVE Under
    BY <1>0, <2>1, <2>5 DEF SocketInv, SendsSound, Done
  <2>6. ASSUME NEW k \in 0..Pieces, DirectWrite(s, k)
        PROVE  SendsSound'
    <3>1. pipe' = pipe /\ pc[s] = "write"
      BY <2>6 DEF DirectWrite
    <3>2. CASE Done(s)
      BY <1>n, <1>q, <2>2, <2>5, <3>1, <3>2
    <3>3. CASE Moves(s, "write", "pipeW") /\ pk' = pk
      BY <2>3, <3>1, <3>3 DEF Moves, Steps
    <3> QED
      BY <2>6, <3>2, <3>3 DEF DirectWrite
  <2>7. CASE SendRequest(s)
    <3>1. pc[s] # "idle" /\ Done(s)
      BY <2>7 DEF SendRequest
    <3>2. pk[s] \in Packet /\ told[pk[s].to].open
      BY <1>0, <3>1 DEF SocketInv, SendsSound
    <3>3. PICK m \in Commands : m.to = pk[s].to /\ pipe' = Append(pipe, m)
      <4>1. CASE pc[s] = "pipeW"
        BY <1>0, <2>7, <3>2, <4>1, Asked DEF SendRequest
      <4>2. CASE pc[s] = "pipeD"
        BY <1>0, <2>7, <3>2, <4>2 DEF SendRequest, Commands
      <4> QED
        BY <2>7, <4>1, <4>2 DEF SendRequest
    <3>4. Queue
      <4>1. Len(pipe') = Len(pipe) + 1 /\ Len(pipe) \in Nat /\ pipe'[Len(pipe) + 1] = m
            /\ \A i \in 1..Len(pipe) : pipe'[i] = pipe[i]
        BY <1>0, <3>3, AppendProperties, LenProperties
      <4> QED
        BY <2>1, <3>2, <3>3, <4>1 DEF SocketInv, SendsSound
    <3> QED
      BY <1>n, <2>2, <2>5, <3>1, <3>4
  <2> QED
    BY <1>1, <2>4, <2>6, <2>7 DEF SenderStep
<1>2. ASSUME NEW s \in Svc, NEW c \in Conn, Send(s, c) \/ SendLow(s, c)
      PROVE  SendsSound'
  <2>1. PICK prio \in BOOLEAN : NewPacket(s, c, prio)
    BY <1>2 DEF Send, SendLow
  <2> DEFINE p == [to |-> c, from |-> s, seq |-> sent[s] + 1, low |-> prio]
  <2>2. UNCHANGED <<id, type, told, pipe>> /\ told[c].open /\ pk' = [pk EXCEPT ![s] = p]
    BY <2>1 DEF NewPacket, socketVars
  <2>3. p \in Packet /\ p.to = c
    <3>1. sent[s] + 1 \in Nat
      BY DEF SocketInv, Typed
    <3>2. p \in Packet
      BY <3>1, NewP
    <3> QED
      BY <3>2
  <2>4. \E w \in Steps : pc' = [pc EXCEPT ![s] = w]
    BY <1>2 DEF Send, SendLow, Moves, Steps
  <2> HIDE DEF p
  <2>5. p # Nil \/ Nil \in Packet
    BY <2>3
  <2>6. Under
    BY <1>0, <2>2, <2>3, <2>4 DEF SocketInv, SendsSound
  <2> QED
    BY <1>n, <1>o, <1>q, <2>2, <2>6
<1>3. ASSUME NEW c \in Conn, NEW op \in {"R", "S", "K", "X"}, Ask(c, op)
      PROVE  SendsSound'
  <2>1. UNCHANGED <<id, type, told, pc, pk>> /\ pipe' = Append(pipe, [op |-> op, to |-> c])
    BY <1>3 DEF Ask, socketVars
  <2> DEFINE m == [op |-> op, to |-> c]
  <2>2. m \in Commands /\ m.op # "D"
    BY Asked
  <2>3. Queue
    <3> HIDE DEF m
    <3>1. Len(pipe') = Len(pipe) + 1 /\ Len(pipe) \in Nat /\ pipe'[Len(pipe) + 1] = m
          /\ \A i \in 1..Len(pipe) : pipe'[i] = pipe[i]
      BY <1>0, <2>1, <2>2, AppendProperties, LenProperties DEF m
    <3> QED
      BY <2>1, <2>2, <3>1 DEF SocketInv, SendsSound
  <2> QED
    BY <1>n, <1>o, <1>u, <2>1, <2>3
<1>4. ASSUME NEW c \in Conn, ResumeSocket(c)
      PROVE  SendsSound'
  <2>1. UNCHANGED <<id, pc, pk>> /\ pipe # <<>> /\ pipe' = Tail(pipe) /\ type # "RESERVE"
    BY <1>4 DEF ResumeSocket, Command, SocketInv, SlotSound
  <2>2. Stays
    BY <1>0, <1>4, Raised DEF ResumeSocket
  <2>3. CASE c = id /\ type \in {"PACCEPT", "CONNECTED"}
    <3>1. Raise(id, "open") /\ type' = "CONNECTED"
      BY <1>4, <2>3 DEF ResumeSocket, Valid
    <3>2. \A d \in Conn : told'[d].open <=> told[d].open \/ (d = id /\ "open" = "open")
      BY <1>0, <2>3, <3>1, Raised
    <3>3. Opens
      BY <2>1, <3>1, <3>2 DEF SocketInv, SendsSound
    <3> QED
      BY <1>n, <1>q, <1>u, <2>1, <2>2, <3>3
  <2>4. CASE ~(c = id /\ type \in {"PACCEPT", "CONNECTED"})
    <3>1. (Raise(c, "nothing") \/ Raise(c, "err")) /\ (type' \in {"RESERVE", "PACCEPT"} => type' = type)
      BY <1>4, <2>4 DEF ResumeSocket, Valid
    <3>2. \A d \in Conn : told'[d].open <=> told[d].open
      <4>1. CASE Raise(c, "nothing")
        BY <1>0, <4>1, Raised
      <4>2. CASE Raise(c, "err")
        BY <1>0, <4>2, Raised
      <4> QED
        BY <3>1, <4>1, <4>2
    <3> QED
      BY <1>t, <2>1, <3>1, <3>2
  <2> QED
    BY <2>3, <2>4
<1>5. ASSUME NEW c \in Conn, PauseSocket(c) \/ TriggerWrite(c) \/ SendSocket(c)
      PROVE  SendsSound'
  BY <1>5, <1>t DEF PauseSocket, TriggerWrite, SendSocket, Command
<1>6. ASSUME NEW c \in Conn, NEW shutdown \in BOOLEAN, CloseSocket(c, shutdown)
      PROVE  SendsSound'
  <2>1. UNCHANGED <<id, pc, pk>> /\ pipe # <<>> /\ pipe' = Tail(pipe)
    BY <1>6 DEF CloseSocket, Command
  <2>2. CASE UNCHANGED <<type, told>>
    BY <1>t, <2>1, <2>2
  <2>3. CASE Valid(c) /\ CloseRead(c)
    BY <1>r, <1>t, <2>1, <2>3 DEF CloseRead, Valid
  <2> QED
    BY <1>6, <2>2, <2>3 DEF CloseSocket
<1>7. CASE SpWait \/ StaleEvent \/ ReadNothing \/ WriteBlocked \/ Eof \/ WriteEvent
  BY <1>7, <1>t DEF SpWait, StaleEvent, ReadNothing, WriteBlocked, Eof, WriteEvent, Event, socketVars
<1>8. CASE ReadZero \/ ReportError
  <2>1. UNCHANGED <<id, pc, pk, pipe>> /\ id \in Conn
    BY <1>8 DEF ReadZero, ReportError, Event, SocketInv, SlotSound
  <2>2. \/ UNCHANGED <<type, told>>
        \/ Raise(id, "err") /\ type' = type
        \/ Raise(id, "close") /\ type' = "HALFCLOSE_READ"
    BY <1>8 DEF ReadZero, ReportError, CloseRead, Event
  <2> QED
    BY <1>r, <1>t, <2>1, <2>2
<1>9. ASSUME NEW k \in Nat, SendBuffer(k)
      PROVE  SendsSound'
  BY <1>9, <1>t DEF SendBuffer, CloseLocked
<1>10. CASE WriteFails \/ CloseFd
  <2>1. UNCHANGED <<id, pc, pk, pipe>> /\ id \in Conn
    BY <1>10 DEF WriteFails, CloseFd, SocketInv, SlotSound, Alive
  <2>2. (type' = type \/ type' \in {"INVALID", "HALFCLOSE_WRITE"})
        /\ (told' = told \/ Raise(id, "err") \/ Raise(id, "close") \/ Raise(id, "nothing"))
    BY <1>10 DEF WriteFails, CloseFd, CloseLocked
  <2> QED
    BY <1>r, <1>t, <2>1, <2>2
<1>11. CASE ReserveId
  <2>1. id' = id + 1 /\ type = "INVALID" /\ UNCHANGED <<told, pipe, pc, pk>>
    BY <1>11 DEF ReserveId
  <2>2. Opens
    BY <1>0, <2>1 DEF SocketInv, SendsSound, Conn
  <2> QED
    BY <1>n, <1>q, <1>u, <2>1, <2>2
<1>12. CASE NewFd
  BY <1>12, <1>t DEF NewFd, SocketInv, SlotSound
<1>13. CASE PeerChanges \/ UNCHANGED vars
  BY <1>13, <1>t DEF PeerChanges, vars, socketVars
<1>14. \A k \in 1..(Len(high) + Len(low)) : k \in Nat
  BY DEF SocketInv, Typed, TypeOK
<1> QED
  BY <1>1, <1>2, <1>3, <1>4, <1>5, <1>6, <1>7, <1>8, <1>9, <1>10, <1>11, <1>12, <1>13, <1>14
     DEF Next, ThreadStep, Progress

\* What Pieces divides.
LEMMA ModRest ==
  ASSUME NEW x \in Nat
  PROVE  x % Pieces \in 0..x /\ (x - (x % Pieces)) % Pieces = 0
OBVIOUS

\* What is left of a list when its whole packets are taken away.
LEMMA BegunRest ==
  ASSUME NEW q, Len(q) \in Nat
  PROVE  Len(q) % Pieces \in 0..Len(q) /\ (Len(q) - (Len(q) % Pieces)) % Pieces = 0
BY ModRest

\* A whole packet more leaves whole packets.
LEMMA ModAdd ==
  ASSUME NEW x \in Nat, x % Pieces = 0
  PROVE  (x + Pieces) % Pieces = 0
<1>1. PICK q \in Nat : x = Pieces * q
  OBVIOUS
<1>2. (Pieces * q + Pieces) % Pieces = 0
  OBVIOUS
<1> QED
  BY <1>1, <1>2

\* The event that would write what a direct write has left is being asked for.
Pending ==
  \/ \E s \in Svc : pc[s] = "pipeW" /\ pk[s].to = id
  \/ \E i \in 1..Len(pipe) : pipe[i].op = "W" /\ pipe[i].to = id

\* ListsSound in these words.
LEMMA Sound ==
  ListsSound <=>
    /\ type \in {"INVALID", "RESERVE"} => BufferEmpty /\ dw = <<>>
    /\ Len(low) % Pieces = 0
    /\ ~BufferEmpty => writing \/ type = "HALFCLOSE_WRITE"
    /\ dw # <<>> => writing \/ type = "HALFCLOSE_WRITE" \/ Pending
BY DEF ListsSound, Pending

\* The same of the next state.
LEMMA SoundNext ==
  ListsSound' <=>
    /\ type' \in {"INVALID", "RESERVE"} => BufferEmpty' /\ dw' = <<>>
    /\ Len(low') % Pieces = 0
    /\ ~BufferEmpty' => writing' \/ type' = "HALFCLOSE_WRITE"
    /\ dw' # <<>> => writing' \/ type' = "HALFCLOSE_WRITE" \/ Pending'
BY DEF ListsSound, Pending

\* A command that is taken from the pipe leaves the others in it.
LEMMA PendingTail ==
  ASSUME SocketInv, NEW c \in Conn, NEW op, Command(op, c), op # "W" \/ c # id, Pending
  PROVE  Pending'
<1>1. pipe \in Seq(Commands) /\ pipe # <<>> /\ pipe' = Tail(pipe) /\ UNCHANGED <<pc, pk, id>>
      /\ Head(pipe).op = op /\ Head(pipe).to = c
  BY DEF SocketInv, Typed, Command
<1>2. /\ Len(pipe) \in Nat /\ Len(pipe') = Len(pipe) - 1 /\ Head(pipe) = pipe[1]
      /\ \A i \in 1..Len(pipe') : pipe'[i] = pipe[i + 1]
  BY <1>1, HeadTailProperties, LenProperties
<1>3. CASE \E s \in Svc : pc[s] = "pipeW" /\ pk[s].to = id
  BY <1>1, <1>3 DEF Pending
<1>4. ASSUME NEW i \in 1..Len(pipe), pipe[i].op = "W", pipe[i].to = id
      PROVE  Pending'
  <2>1. i # 1
    BY <1>1, <1>2, <1>4
  <2>2. i - 1 \in 1..Len(pipe') /\ pipe'[i - 1] = pipe[i]
    BY <1>2, <2>1
  <2> QED
    BY <1>1, <1>4, <2>2 DEF Pending
<1> QED
  BY <1>3, <1>4 DEF Pending

\* So does one that is put into it.
LEMMA PendingAppend ==
  ASSUME SocketInv, NEW m \in Commands, pipe' = Append(pipe, m), id' = id,
         \/ UNCHANGED <<pc, pk>>
         \/ \E s \in Svc : /\ \A t \in Svc \ {s} : pc'[t] = pc[t] /\ pk'[t] = pk[t]
                           /\ pc[s] = "pipeW" => m.op = "W" /\ m.to = pk[s].to,
         Pending
  PROVE  Pending'
<1>1. /\ Len(pipe) \in Nat /\ Len(pipe') = Len(pipe) + 1 /\ pipe'[Len(pipe) + 1] = m
      /\ \A i \in 1..Len(pipe) : pipe'[i] = pipe[i]
  BY AppendProperties, LenProperties DEF SocketInv, Typed
<1>2. ASSUME NEW i \in 1..Len(pipe), pipe[i].op = "W", pipe[i].to = id
      PROVE  Pending'
  BY <1>1, <1>2 DEF Pending
<1>3. ASSUME NEW s \in Svc, pc[s] = "pipeW", pk[s].to = id
      PROVE  Pending'
  <2>1. CASE pc'[s] = pc[s] /\ pk'[s] = pk[s]
    BY <1>3, <2>1 DEF Pending
  <2>2. CASE m.op = "W" /\ m.to = pk[s].to
    <3>1. Len(pipe) + 1 \in 1..Len(pipe')
      BY <1>1
    <3> QED
      BY <1>1, <1>3, <2>2, <3>1 DEF Pending
  <2> QED
    BY <1>3, <2>1, <2>2
<1> QED
  BY <1>2, <1>3 DEF Pending

\* The lists are sound after every step.
LEMMA ListsStep ==
  ASSUME SocketInv, [Next]_vars
  PROVE  ListsEmpty' /\ ListsSound'
<1> DEFINE Goal == ListsEmpty' /\ ListsSound'
<1>0. /\ high \in Seq(Packet) /\ low \in Seq(Packet) /\ dw \in Seq(Packet) /\ pipe \in Seq(Commands)
      /\ pc \in [Svc -> Steps] /\ pk \in [Svc -> Packet \cup {Nil}] /\ Len(low) \in Nat /\ Len(high) \in Nat
      /\ \A s \in Svc : pc[s] # "idle" => pk[s] \in Packet /\ pk[s].to \in Conn
  BY LenProperties DEF SocketInv, Typed, TypeOK, SendsSound, Packet
<1>e. /\ type = "PACCEPT" => BufferEmpty /\ dw = <<>>
      /\ task \in {"close", "tell"} => BufferEmpty
      /\ type = "RESERVE" => ~checkctrl
      /\ "write" \in ready => \/ writing
                              \/ type \in {"INVALID", "RESERVE", "HALFCLOSE_WRITE"}
                              \/ type = "PACCEPT" /\ ~checkctrl
  BY DEF SocketInv, ListsEmpty
<1>l. /\ type \in {"INVALID", "RESERVE"} => BufferEmpty /\ dw = <<>>
      /\ Len(low) % Pieces = 0
      /\ ~BufferEmpty => writing \/ type = "HALFCLOSE_WRITE"
      /\ dw # <<>> => writing \/ type = "HALFCLOSE_WRITE" \/ Pending
  BY Sound DEF SocketInv
<1>n. Len(<<>>) % Pieces = 0
  OBVIOUS
\* Where the lists, and what is left over, are not touched.
<1>f. ASSUME UNCHANGED <<type, high, low, dw, writing, task, ready, checkctrl>>, Pending => Pending'
      PROVE  Goal
  BY <1>e, <1>f, <1>l, SoundNext DEF ListsEmpty, BufferEmpty
<1>1. ASSUME NEW s \in Svc, SenderStep(s)
      PROVE  Goal
  <2>0. UNCHANGED <<type, id, high, low, writing, task, ready, checkctrl>>
    BY <1>1, Elsewhere
  <2>1. CASE TryLock(s) \/ DoubleCheck(s) \/ IncSending(s)
    <3>1. UNCHANGED <<dw, pk, pipe>> /\ pc[s] # "pipeW" /\ \A t \in Svc \ {s} : pc'[t] = pc[t]
      BY <1>0, <2>1 DEF TryLock, DoubleCheck, IncSending, Moves
    <3>2. Pending => Pending'
      BY <2>0, <3>1 DEF Pending
    <3> QED
      BY <1>f, <2>0, <3>1, <3>2
  <2>2. CASE SendRequest(s)
    <3>1. PICK m \in Commands : m.to = pk[s].to /\ pipe' = Append(pipe, m) /\ (pc[s] = "pipeW" => m.op = "W")
      <4>1. CASE pc[s] = "pipeW"
        BY <1>0, <2>2, <4>1, Asked DEF SendRequest
      <4>2. CASE pc[s] = "pipeD"
        BY <1>0, <2>2, <4>2 DEF SendRequest, Commands
      <4> QED
        BY <2>2, <4>1, <4>2 DEF SendRequest
    <3>2. dw' = dw /\ \A t \in Svc \ {s} : pc'[t] = pc[t] /\ pk'[t] = pk[t]
      BY <1>0, <2>2 DEF SendRequest, Done, socketVars
    <3>3. Pending => Pending'
      BY <2>0, <3>1, <3>2, PendingAppend
    <3> QED
      BY <1>f, <2>0, <3>2, <3>3
  <2>3. ASSUME NEW k \in 0..Pieces, DirectWrite(s, k)
        PROVE  Goal
    <3>1. type \in {"CONNECTED", "HALFCLOSE_READ"} /\ pk[s].to = id /\ pk[s] \in Packet /\ dw = <<>>
      BY <1>0, <2>3 DEF DirectWrite, SocketInv, LockSound
    <3>2. CASE k = Pieces
      <4>1. dw' = <<>>
        BY <2>3, <3>1, <3>2, Halves DEF DirectWrite
      <4> QED
        BY <1>e, <1>l, <2>0, <3>1, <4>1, SoundNext DEF ListsEmpty, BufferEmpty
    <3>3. CASE k # Pieces
      <4>1. pc' = [pc EXCEPT ![s] = "pipeW"] /\ pk' = pk
        BY <2>3, <3>3 DEF DirectWrite, Moves
      <4>2. Pending'
        BY <1>0, <2>0, <3>1, <4>1 DEF Pending
      <4> QED
        BY <1>e, <1>l, <2>0, <3>1, <4>2, SoundNext DEF ListsEmpty, BufferEmpty
    <3> QED
      BY <3>2, <3>3
  <2> QED
    BY <1>1, <2>1, <2>2, <2>3 DEF SenderStep
<1>2. ASSUME NEW s \in Svc, NEW c \in Conn, Send(s, c) \/ SendLow(s, c)
      PROVE  Goal
  <2>1. UNCHANGED <<type, id, high, low, dw, writing, task, ready, checkctrl, pipe>>
    BY <1>2 DEF Send, SendLow, NewPacket, socketVars, pollVars
  <2>2. pc[s] = "idle" /\ \A t \in Svc \ {s} : pc'[t] = pc[t] /\ pk'[t] = pk[t]
    BY <1>0, <1>2 DEF Send, SendLow, NewPacket, Moves
  <2>3. Pending => Pending'
    BY <2>1, <2>2 DEF Pending
  <2> QED
    BY <1>f, <2>1, <2>3
<1>3. ASSUME NEW c \in Conn, NEW op \in {"R", "S", "K", "X"}, Ask(c, op)
      PROVE  Goal
  <2>1. UNCHANGED <<type, id, high, low, dw, writing, task, ready, checkctrl, pc, pk>>
        /\ pipe' = Append(pipe, [op |-> op, to |-> c])
    BY <1>3 DEF Ask, socketVars, pollVars
  <2>2. [op |-> op, to |-> c] \in Commands
    BY Asked
  <2>3. Pending => Pending'
    BY <2>1, <2>2, PendingAppend
  <2> QED
    BY <1>f, <2>1, <2>3
\* Commands that touch neither the lists nor the write event.
<1>c. ASSUME NEW c \in Conn, NEW op \in {"R", "S", "K", "X"}, Command(op, c), writing' = writing,
             UNCHANGED <<high, low>> \/ (high' = <<>> /\ low' = <<>>),
             task' = "idle" \/ (high' = <<>> /\ low' = <<>>),
             \/ type' = type
             \/ type' \in {"CONNECTED", "HALFCLOSE_READ"} /\ type \notin {"INVALID", "HALFCLOSE_WRITE"},
             ready' \subseteq ready
      PROVE  Goal
  <2>1. UNCHANGED <<dw, checkctrl>> /\ task = "idle" /\ type # "RESERVE" /\ checkctrl
    BY <1>c DEF Command, SocketInv, SlotSound
  <2>2. Pending => Pending'
    BY <1>c, PendingTail
  <2>3. ListsEmpty'
    BY <1>c, <1>e, <1>l, <2>1 DEF ListsEmpty, BufferEmpty
  <2>4. ListsSound'
    BY <1>c, <1>e, <1>l, <1>n, <2>1, <2>2, SoundNext DEF BufferEmpty
  <2> QED
    BY <2>3, <2>4
<1>4. ASSUME NEW c \in Conn, ResumeSocket(c)
      PROVE  Goal
  <2>1. type' = type \/ (type' = "CONNECTED" /\ type = "PACCEPT")
    BY <1>4 DEF ResumeSocket
  <2>2. Command("R", c) /\ UNCHANGED <<writing, high, low, task>> /\ task = "idle" /\ ready' \subseteq ready
    BY <1>4 DEF ResumeSocket, Command
  <2> QED
    BY <1>c, <2>1, <2>2
<1>5. ASSUME NEW c \in Conn, PauseSocket(c)
      PROVE  Goal
  BY <1>5, <1>c DEF PauseSocket, Command
<1>6. ASSUME NEW c \in Conn, NEW shutdown \in BOOLEAN, CloseSocket(c, shutdown)
      PROVE  Goal
  <2>1. \E op \in {"K", "X"} : Command(op, c)
    BY <1>6 DEF CloseSocket
  <2>2. UNCHANGED <<writing, ready>> /\ task = "idle"
    BY <1>6 DEF CloseSocket, Command
  <2>3. CASE UNCHANGED <<type, high, low, task>>
    BY <1>c, <2>1, <2>2, <2>3
  <2>4. CASE high' = <<>> /\ low' = <<>> /\ type' = type
    BY <1>c, <2>1, <2>2, <2>4
  <2>5. CASE Valid(c) /\ ~NomoreSendingData /\ CloseRead(c) /\ UNCHANGED <<high, low, task>>
    <3>1. type' = "HALFCLOSE_READ" /\ type \notin {"INVALID", "HALFCLOSE_WRITE"}
      BY <2>5 DEF CloseRead, Valid, NomoreSendingData
    <3> QED
      BY <1>c, <2>1, <2>2, <2>5, <3>1
  <2> QED
    BY <1>6, <2>3, <2>4, <2>5 DEF CloseSocket, FreeLists
<1>7. ASSUME NEW c \in Conn, TriggerWrite(c)
      PROVE  Goal
  <2>1. Command("W", c) /\ UNCHANGED <<type, high, low, task, ready, dw, checkctrl>>
    BY <1>7 DEF TriggerWrite, Command
  <2>2. CASE Valid(c)
    <3>1. writing'
      BY <1>7, <2>2 DEF TriggerWrite
    <3> QED
      BY <1>e, <1>l, <2>1, <2>2, <3>1, SoundNext DEF ListsEmpty, BufferEmpty, Valid
  <2>3. CASE ~Valid(c)
    <3>1. writing' = writing
      BY <1>7, <2>3 DEF TriggerWrite, SocketInv, Typed, TypeOK
    <3>2. c # id \/ dw = <<>>
      BY <1>l, <2>3 DEF Valid
    <3>3. dw # <<>> /\ Pending => Pending'
      BY <2>1, <3>2, PendingTail
    <3> QED
      BY <1>e, <1>l, <2>1, <3>1, <3>3, SoundNext DEF ListsEmpty, BufferEmpty
  <2> QED
    BY <2>2, <2>3
<1>8. ASSUME NEW c \in Conn, SendSocket(c)
      PROVE  Goal
  <2> DEFINE w == Whole(Head(pipe).packet)
  <2>1. Command("D", c) /\ UNCHANGED <<type, task, ready, dw, checkctrl>> /\ task = "idle"
    BY <1>8 DEF SendSocket, Command
  <2>2. Pending => Pending'
    BY <2>1, PendingTail
  <2>3. CASE ~Accepts(c)
    BY <1>8, <1>f, <2>1, <2>2, <2>3 DEF SendSocket
  <2>4. CASE Accepts(c)
    <3>1. type \notin {"INVALID", "RESERVE", "PACCEPT", "HALFCLOSE_WRITE"}
      BY <2>1, <2>4 DEF Accepts, Valid, SocketInv, SlotSound
    <3>2. w \in Seq(Packet) /\ Len(w) = Pieces
      <4>1. Head(pipe) \in Commands /\ Head(pipe).op = "D"
        BY <1>0, <2>1, HeadTailProperties DEF Command
      <4>2. Head(pipe).packet \in Packet
        BY <4>1 DEF Commands
      <4> QED
        BY <4>2, WholePacket
    <3>3. \/ low' = low
          \/ low' = low \o w
      BY <1>8, <2>4 DEF SendSocket
    <3>4. Len(low') % Pieces = 0
      <4>1. Len(low \o w) = Len(low) + Pieces
        BY <1>0, <3>2, ConcatProperties
      <4> QED
        BY <1>0, <1>l, <3>3, <4>1, ModAdd
    <3>5. writing'
      BY <1>8, <1>l, <2>4, <3>1 DEF SendSocket
    <3> QED
      BY <1>e, <2>1, <3>1, <3>4, <3>5, SoundNext DEF ListsEmpty
  <2> QED
    BY <2>3, <2>4
<1>9. CASE SpWait
  <2>1. UNCHANGED <<type, id, high, low, dw, writing, task, pipe, pc, pk>> /\ checkctrl' /\ task = "idle"
    BY <1>9 DEF SpWait, socketVars
  <2>2. "write" \in ready' => writing
    BY <1>9 DEF SpWait
  <2>3. type # "RESERVE" /\ (Pending => Pending')
    BY <2>1 DEF SocketInv, SlotSound, Pending
  <2> QED
    BY <1>e, <1>l, <2>1, <2>2, <2>3, SoundNext DEF ListsEmpty, BufferEmpty
\* Events that enable or write nothing.
<1>v. ASSUME UNCHANGED <<id, dw, writing, pipe, pc, pk>>, task = "idle", ~checkctrl',
             type \notin {"INVALID", "RESERVE"},
             UNCHANGED <<high, low>> \/ (high' = <<>> /\ low' = <<>>),
             task' = "idle" \/ (high' = <<>> /\ low' = <<>>),
             \/ ready' \subseteq ready /\ type' = type
             \/ ready' = {} /\ type' = "HALFCLOSE_READ" /\ type # "HALFCLOSE_WRITE"
      PROVE  Goal
  <2>1. Pending => Pending'
    BY <1>v DEF Pending
  <2>2. ListsEmpty'
    BY <1>v, <1>e, <1>l DEF ListsEmpty, BufferEmpty
  <2>3. ListsSound'
    BY <1>v, <1>l, <1>n, <2>1, SoundNext DEF BufferEmpty
  <2> QED
    BY <2>2, <2>3
<1>10. CASE StaleEvent
  <2>1. UNCHANGED <<id, type, dw, writing, pipe, pc, pk, high, low, task>> /\ ready' = {} /\ type = "INVALID"
    BY <1>10 DEF StaleEvent, Event
  <2>2. Pending => Pending'
    BY <2>1 DEF Pending
  <2> QED
    BY <1>e, <1>l, <2>1, <2>2, SoundNext DEF ListsEmpty, BufferEmpty
<1>11. CASE ReadNothing \/ ReportError \/ WriteBlocked \/ Eof
  <2>1. UNCHANGED <<id, dw, writing, pipe, pc, pk, type>> /\ task = "idle" /\ ~checkctrl'
        /\ type \notin {"INVALID", "RESERVE"}
    BY <1>11 DEF ReadNothing, ReportError, WriteBlocked, Eof, Event, SocketInv, SlotSound
  <2>2. ready' \subseteq ready
    BY <1>11 DEF ReadNothing, ReportError, WriteBlocked, Eof
  <2>3. UNCHANGED <<high, low, task>> \/ (high' = <<>> /\ low' = <<>>)
    BY <1>11 DEF ReadNothing, ReportError, WriteBlocked, Eof, FreeLists
  <2> QED
    BY <1>v, <2>1, <2>2, <2>3
<1>12. CASE ReadZero
  <2>1. UNCHANGED <<id, dw, writing, pipe, pc, pk>> /\ task = "idle" /\ ~checkctrl'
        /\ type \notin {"INVALID", "RESERVE"}
    BY <1>12 DEF ReadZero, Event, SocketInv, SlotSound
  <2>2. \/ ready' \subseteq ready /\ type' = type
        \/ ready' = {} /\ type' = "HALFCLOSE_READ" /\ type # "HALFCLOSE_WRITE"
    BY <1>12 DEF ReadZero, CloseRead
  <2>3. UNCHANGED <<high, low, task>> \/ (high' = <<>> /\ low' = <<>>)
    BY <1>12 DEF ReadZero, FreeLists
  <2> QED
    BY <1>v, <2>1, <2>2, <2>3
<1>13. CASE WriteEvent
  <2>1. UNCHANGED <<id, type, writing, low, pipe, pc, pk>> /\ high' = dw \o high /\ dw' = <<>>
        /\ task = "idle" /\ task' = "send" /\ ready' = {} /\ "write" \in ready /\ type \notin {"INVALID", "RESERVE"}
    BY <1>13 DEF WriteEvent, SocketInv, SlotSound
  <2>2. type = "PACCEPT" => high' = <<>> /\ low' = <<>>
    BY <1>e, <2>1, ConcatEmptySeq, EmptySeq DEF BufferEmpty
  <2> QED
    BY <1>e, <1>l, <2>1, <2>2, SoundNext DEF ListsEmpty, BufferEmpty
<1>14. ASSUME NEW k \in Nat, SendBuffer(k)
       PROVE  Goal
  <2> DEFINE rest == SubSeq(low, k - Len(high) + 1, Len(low))
             begun == Len(rest) % Pieces
  <2>1. /\ UNCHANGED <<dw, pipe, pc, pk, id, ready, checkctrl>> /\ task' = "idle"
        /\ dw = <<>> /\ ready = {} /\ type \notin {"INVALID", "RESERVE"}
    BY <1>14 DEF SendBuffer, pollVars, SocketInv, LockSound, SlotSound, Alive
  <2>2. CASE k < Len(high)
    <3>1. UNCHANGED <<type, writing, low>> /\ high # <<>>
      BY <1>0, <1>14, <2>2, EmptySeq DEF SendBuffer
    <3> QED
      BY <1>e, <1>l, <2>1, <3>1, SoundNext DEF ListsEmpty, BufferEmpty
  <2>3. CASE k >= Len(high) /\ rest # <<>>
    <3>0. ~(k < Len(high))
      BY <1>0, <2>3
    <3>1. UNCHANGED <<type, writing>> /\ low' = SubSeq(rest, begun + 1, Len(rest))
      BY <1>14, <2>3, <3>0 DEF SendBuffer
    <3>2. rest \in Seq(Packet) /\ Len(rest) \in Nat
      <4>1. \A i \in (k - Len(high) + 1)..Len(low) : low[i] \in Packet
        BY <1>0, <2>3, ElementOfSeq
      <4>2. rest \in Seq(Packet)
        BY <1>0, <4>1, SubSeqProperties
      <4> QED
        BY <4>2, LenProperties
    <3>3. low # <<>>
      <4> SUFFICES ASSUME low = <<>> PROVE FALSE
        OBVIOUS
      <4>1. Len(low) = 0
        OBVIOUS
      <4>2. rest = <<>>
        BY <1>0, <2>3, <4>1, SubSeqEmpty
      <4> QED
        BY <2>3, <4>2
    <3> HIDE DEF rest
    <3>4. begun \in 0..Len(rest) /\ (Len(rest) - begun) % Pieces = 0
      <4>1. Len(rest) % Pieces \in 0..Len(rest) /\ (Len(rest) - (Len(rest) % Pieces)) % Pieces = 0
        BY <3>2, BegunRest
      <4> QED
        BY <4>1
    <3>5. Len(low') = Len(rest) - begun
      <4> HIDE DEF begun
      <4>1. \A i \in (begun + 1)..Len(rest) : rest[i] \in Packet
        BY <3>2, <3>4, ElementOfSeq
      <4> QED
        BY <3>1, <3>2, <3>4, <4>1, SubSeqProperties
    <3> QED
      BY <1>e, <1>l, <2>1, <3>1, <3>3, <3>4, <3>5, SoundNext DEF ListsEmpty, BufferEmpty
  <2>4. CASE k >= Len(high) /\ rest = <<>>
    <3>0. ~(k < Len(high))
      BY <1>0, <2>4
    <3>1. high' = <<>> /\ low' = <<>> /\ type' \in {type, "INVALID"}
      BY <1>14, <2>4, <3>0 DEF SendBuffer, CloseLocked
    <3> QED
      BY <1>n, <2>1, <3>1, SoundNext DEF ListsEmpty, BufferEmpty
  <2> QED
    BY <1>0, <2>2, <2>3, <2>4
<1>15. CASE WriteFails
  <2>1. /\ UNCHANGED <<dw, pipe, pc, pk, id, ready, checkctrl>> /\ task' = "idle"
        /\ dw = <<>> /\ ready = {} /\ type \notin {"INVALID", "RESERVE"} /\ ~BufferEmpty
    BY <1>15 DEF WriteFails, pollVars, SocketInv, LockSound, SlotSound, Alive
  <2>2. \/ high' = <<>> /\ low' = <<>> /\ type' = "INVALID"
        \/ UNCHANGED <<high, low>> /\ type' = "HALFCLOSE_WRITE"
    BY <1>15 DEF WriteFails, CloseLocked
  <2> QED
    BY <1>l, <1>n, <2>1, <2>2, SoundNext DEF ListsEmpty, BufferEmpty
<1>16. CASE CloseFd
  <2>1. UNCHANGED <<high, low>> /\ dw' = <<>> /\ type' = "INVALID" /\ task' = "idle" /\ BufferEmpty
    BY <1>16, <1>e DEF CloseFd
  <2> QED
    BY <1>l, <2>1, SoundNext DEF ListsEmpty, BufferEmpty
<1>17. CASE ReserveId
  <2>1. UNCHANGED <<high, low, dw>> /\ type = "INVALID" /\ type' = "RESERVE" /\ task' = "accept"
        /\ ~checkctrl'
    BY <1>17 DEF ReserveId
  <2> QED
    BY <1>l, <2>1, SoundNext DEF ListsEmpty, BufferEmpty
<1>18. CASE NewFd
  <2>1. UNCHANGED <<high, low, checkctrl>> /\ dw' = <<>> /\ type' = "PACCEPT" /\ type = "RESERVE"
        /\ task' = "idle"
    BY <1>18 DEF NewFd, pollVars, SocketInv, SlotSound
  <2> QED
    BY <1>e, <1>l, <2>1, SoundNext DEF ListsEmpty, BufferEmpty
<1>19. CASE PeerChanges \/ UNCHANGED vars
  <2>1. UNCHANGED <<type, id, high, low, dw, writing, task, ready, checkctrl, pipe, pc, pk>>
    BY <1>19 DEF PeerChanges, vars, socketVars, pollVars
  <2>2. Pending => Pending'
    BY <2>1 DEF Pending
  <2> QED
    BY <1>f, <2>1, <2>2
<1>20. \A k \in 1..(Len(high) + Len(low)) : k \in Nat
  BY <1>0
<1> QED
  BY <1>1, <1>2, <1>3, <1>4, <1>5, <1>6, <1>7, <1>8, <1>9, <1>10, <1>11, <1>12, <1>13, <1>14, <1>15, <1>16,
     <1>17, <1>18, <1>19, <1>20 DEF Next, ThreadStep, Progress

\* Every part of the state keeps its type.
LEMMA TypedStep ==
  ASSUME SocketInv, [Next]_vars
  PROVE  Typed'
<1>0. Typed /\ SlotSound
  BY DEF SocketInv
<1>1. ASSUME NEW s \in Svc, SenderStep(s)
      PROVE  Typed'
  <2>1. pc[s] # "idle" => pk[s] # Nil
    BY DEF SocketInv, SendsSound
  <2> QED
    BY <1>0, <1>1, <2>1, SenderTyped
<1>2. ASSUME NEW c \in Conn, \/ \E s \in Svc : Send(s, c) \/ SendLow(s, c)
                             \/ \E op \in {"R", "S", "K", "X"} : Ask(c, op)
      PROVE  Typed'
  BY <1>0, <1>2, AskTyped
<1>3. CASE ThreadStep
  BY <1>0, <1>3, DecSafe, ThreadTyped
<1>4. CASE ReserveId \/ PeerChanges \/ UNCHANGED vars
  BY <1>0, <1>4, OtherTyped
<1> QED
  BY <1>1, <1>2, <1>3, <1>4 DEF Next

\* The slot is free, nothing is under way, and nobody was told of anything.
LEMMA InitInv ==
  ASSUME Init
  PROVE  SocketInv
<1>1. <<>> \in Seq(Packet) /\ <<>> \in Seq(Commands) /\ Len(<<>>) = 0 /\ 0 % Pieces = 0
  BY EmptySeq
<1>2. Typed
  <2>1. /\ type \in Types /\ id \in 0..MaxConn /\ sending \in [tag: 0..MaxConn, n: Nat]
        /\ task \in {"idle", "send", "close", "tell", "accept"}
        /\ lock \in Svc \cup {Nil, "socket"}
        /\ ready \subseteq {"read", "write", "error", "eof"} /\ owed \subseteq Packet
    BY DEF Init, Types
  <2>2. /\ tcp \in BOOLEAN /\ reading \in BOOLEAN /\ writing \in BOOLEAN /\ closing \in BOOLEAN
        /\ spoiled \in BOOLEAN /\ late \in BOOLEAN /\ checkctrl \in BOOLEAN
    BY DEF Init
  <2>3. /\ high \in Seq(Packet) /\ low \in Seq(Packet) /\ dw \in Seq(Packet) /\ wire \in Seq(Packet)
        /\ pipe \in Seq(Commands) /\ work \in Nat
    BY <1>1 DEF Init
  <2>4. /\ pk \in [Svc -> Packet \cup {Nil}] /\ pc \in [Svc -> Steps] /\ sent \in [Svc -> Nat]
        /\ told \in [Conn -> [open: BOOLEAN, close: Nat, err: BOOLEAN]]
    BY DEF Init, Steps
  <2> QED
    BY <2>1, <2>2, <2>3, <2>4 DEF Typed, TypeOK
<1>3. SlotSound /\ LockSound /\ ListsEmpty
  BY DEF Init, SlotSound, LockSound, ListsEmpty, Alive, BufferEmpty, Conn
<1>4. SendsSound /\ CloseExact
  BY <1>1 DEF Init, SendsSound, CloseExact, Conn
<1>5. ListsSound
  BY <1>1 DEF Init, ListsSound, BufferEmpty
<1>6. SendingExact
  <2>1. InFlight(id) = {} /\ QueuedIn(pipe, id) = {} /\ sending.n = 0
    BY <1>1 DEF Init, InFlight, QueuedIn
  <2> QED
    BY <2>1, FS_EmptySet, Exact
<1> QED
  BY <1>2, <1>3, <1>4, <1>5, <1>6 DEF SocketInv

\* The slot, its lock, its lists, the pipe and what the services were told
\* stay sound whatever the threads and the other end do, for any number of
\* services, connections, packets and pieces.
THEOREM SocketInvariant == Spec => []SocketInv
<1>1. Init => SocketInv
  BY InitInv
<1>2. SocketInv /\ [Next]_vars => SocketInv'
  BY TypedStep, SlotStep, LockStep, SendsStep, ListsStep, CountStep, CloseStep DEF SocketInv
<1> QED
  BY <1>1, <1>2, PTL DEF Spec

\* Every variable of a slot keeps its type.
THEOREM SocketTypeOK == Spec => []TypeOK
<1>1. SocketInv => TypeOK
  BY DEF SocketInv, Typed
<1> QED
  BY <1>1, SocketInvariant, PTL

\* s->sending counts exactly the packets of the connection that are on the way
\* to the socket thread (inc_sending_ref, dec_sending_ref): a slot that is used
\* again inherits no count, and none is lost.
THEOREM SendingCounted == Spec => []SendingExact
<1>1. SocketInv => SendingExact
  BY DEF SocketInv
<1> QED
  BY <1>1, SocketInvariant, PTL

\* The write buffers satisfy the assertions of new_fd, send_buffer_ and
\* raise_uncomplete, and no data are left without a write event to come.
THEOREM WriteBuffersSound == Spec => []ListsSound
<1>1. SocketInv => ListsSound
  BY DEF SocketInv
<1> QED
  BY <1>1, SocketInvariant, PTL

\* SOCKET_CLOSE is raised once, and only once, for every connection
\* (close_socket, forward_message_tcp, socket_server_poll).
THEOREM CloseRaisedOnce == Spec => []CloseExact
<1>1. SocketInv => CloseExact
  BY DEF SocketInv
<1> QED
  BY <1>1, SocketInvariant, PTL

\* A service that writes under dw_lock writes to its own connection, of which
\* nothing is left over: no direct write throws away the rest of another
\* (socket_server_send stores into dw_buffer without looking, line 1924), even
\* when the socket thread closes the slot or opens another one meanwhile.
THEOREM DirectWriteAlone ==
  Spec => [][\A s \in Svc, k \in 0..Pieces : DirectWrite(s, k) => pk[s].to = id /\ dw = <<>>]_vars
<1>1. SocketInv /\ [Next]_vars
      => [\A s \in Svc, k \in 0..Pieces : DirectWrite(s, k) => pk[s].to = id /\ dw = <<>>]_vars
  BY DEF SocketInv, LockSound, DirectWrite
<1> QED
  BY <1>1, SocketInvariant, PTL DEF Spec

\* The assertion of dec_sending_ref (socket_server.c:1392) never fails: a packet
\* that the socket thread takes for this connection was counted.
THEOREM DecSendingAsserts == Spec => [][SendSocket(id) => sending.n > 0]_vars
<1>1. SocketInv /\ [Next]_vars => [SendSocket(id) => sending.n > 0]_vars
  BY DecSafe
<1> QED
  BY <1>1, SocketInvariant, PTL DEF Spec

=============================================================================
