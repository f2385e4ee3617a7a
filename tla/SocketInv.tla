----------------------------- MODULE SocketInv ------------------------------
(* The inductive invariant of SocketServer: what is true of the slot, its    *)
(* lock, its lists and the sends between any two steps.  The properties that *)
(* SocketProofs proves follow from it.                                       *)
EXTENDS SocketServer

Alive == type \notin {"INVALID", "RESERVE"}

Commands == [op: {"R", "S", "K", "X", "W"}, to: Conn] \cup [op: {"D"}, to: Conn, packet: Packet]

Steps == {"idle", "try", "locked", "write", "inc", "pipeD", "pipeW"}

Typed ==
    /\ TypeOK
    /\ pc \in [Svc -> Steps]
    /\ pipe \in Seq(Commands)
    /\ sent \in [Svc -> Nat]
    /\ work \in Nat

\* The life of the slot, and what the socket thread is in the middle of.
SlotSound ==
    /\ type # "INVALID" => id \in Conn
    /\ task = "accept" <=> type = "RESERVE"
    /\ task = "send" => Alive
    /\ task = "close" => type = "HALFCLOSE_READ"
    /\ task = "tell" => type \in {"PACCEPT", "CONNECTED", "HALFCLOSE_WRITE"}
    /\ closing /\ Alive => type = "HALFCLOSE_READ"
    /\ type # "RESERVE" => sending.tag = id /\ (id \in Conn => tcp)

\* dw_lock has the holder that the program counters say, and whoever writes
\* under it writes to a connection of which nothing is left over.
LockSound ==
    /\ \A s \in Svc : lock = s <=> pc[s] \in {"locked", "write"}
    /\ lock = "socket" <=> task = "send"
    /\ \A s \in Svc : pc[s] = "write" =>
          type \in {"CONNECTED", "HALFCLOSE_READ"} /\ pk[s].to = id /\ dw = <<>>
    /\ task = "send" => dw = <<>> /\ ready = {}

\* Only a connection that is open, or was, has packets under way.
SendsSound ==
    /\ \A c \in Conn : told[c].open => c < id \/ (c = id /\ type \notin {"RESERVE", "PACCEPT"})
    /\ \A s \in Svc : pc[s] # "idle" => pk[s] # Nil /\ told[pk[s].to].open
    /\ \A i \in 1..Len(pipe) : pipe[i].op = "D" => told[pipe[i].to].open

\* A connection that nobody has started, or that is being closed, has no data;
\* and a write event that is still to come finds the event enabled.
ListsEmpty ==
    /\ type = "PACCEPT" => BufferEmpty /\ dw = <<>>
    /\ task \in {"close", "tell"} => BufferEmpty
    /\ type = "RESERVE" => ~checkctrl
    /\ "write" \in ready => \/ writing
                            \/ type \in {"INVALID", "RESERVE", "HALFCLOSE_WRITE"}
                            \/ type = "PACCEPT" /\ ~checkctrl

SocketInv ==
    /\ Typed
    /\ SlotSound
    /\ LockSound
    /\ SendsSound
    /\ ListsEmpty
    /\ ListsSound
    /\ SendingExact
    /\ CloseExact

-----------------------------------------------------------------------------
(* What WireIntact and Flushed rest on.                                      *)

\* What is written to the connection, and what will be, in this order.
Stream == wire \o dw \o high \o low

Elements(l) == {l[i] : i \in 1..Len(l)}

Contents == Elements(Stream)

\* Where the q-th packet of a stream begins, less one.
Start(q) == (q - 1) * Pieces

\* The stream w is the packets of Q, each in one piece.
InBlocks(w, Q) ==
    /\ Len(w) = Start(Len(Q) + 1)
    /\ \A q \in 1..Len(Q), r \in 1..Pieces : w[Start(q) + r] = Q[q]

Packets(w) == [q \in 1..(Len(w) \div Pieces) |-> w[Start(q) + 1]]

Follows(p, q) ==
    /\ p # q
    /\ p.from = q.from /\ ~p.low /\ ~q.low => p.seq < q.seq

InOrder(Q) == \A i, j \in 1..Len(Q) : i < j => Follows(Q[i], Q[j])

\* s is in the middle of sending a packet that is not in the stream yet.
Carries(s) == pc[s] \in {"try", "locked", "write", "inc", "pipeD"}

Queued(i) == pipe[i].op = "D"

\* The packet p was sent, before the one that its service carries.
Fits(p) == p.seq <= sent[p.from] /\ (Carries(p.from) => p.seq < sent[p.from])

Earlier(p, q) == p.from = q.from => p.seq < q.seq

\* The packets of a service are numbered in the order in which it sends them.
Numbered ==
    /\ \A s \in Svc : pc[s] # "idle" => pk[s].from = s /\ pk[s].seq = sent[s]
    /\ \A i \in 1..Len(pipe) : Queued(i) => pipe[i].packet.to = pipe[i].to /\ Fits(pipe[i].packet)
    /\ \A i, j \in 1..Len(pipe) :
          i < j /\ Queued(i) /\ Queued(j) => Earlier(pipe[i].packet, pipe[j].packet)

\* p is before the packets that its service sent later.
InPlace(p) ==
    /\ p.to = id
    /\ Fits(p)
    /\ \A i \in 1..Len(pipe) : Queued(i) /\ pipe[i].to = id => Earlier(p, pipe[i].packet)

\* A direct write of s comes where a packet ends, and before no packet of s.
WritesNext(s) ==
    /\ Len(wire) % Pieces = 0
    /\ \A p \in Elements(high) \cup Elements(low) : p.from # s
    /\ \A i \in 1..Len(pipe) : Queued(i) /\ pipe[i].to = id => pipe[i].packet.from # s

StreamSound ==
    /\ InBlocks(Stream, Packets(Stream)) /\ InOrder(Packets(Stream))
    /\ dw # <<>> => (Len(wire) + Len(dw)) % Pieces = 0
    /\ \A p \in Elements(low) : p.low
    /\ \A p \in Contents : InPlace(p)
    /\ \A s \in Svc : pc[s] = "write" => WritesNext(s)

\* A connection that is lost is not expected to work, nor is one that could
\* not be written to; an event that says so may be about the one before.
LossSeen ==
    /\ Lost /\ type # "RESERVE" => spoiled
    /\ type = "HALFCLOSE_WRITE" => spoiled
    /\ "eof" \in ready => \/ spoiled
                          \/ type \in {"INVALID", "RESERVE"}
                          \/ type = "PACCEPT" /\ ~checkctrl

UnderWay(p) ==
    \/ Carries(Owner) /\ pk[Owner] = p
    \/ \E i \in 1..Len(pipe) : Queued(i) /\ pipe[i].packet = p

\* The connection is being closed, or will be once its data are out.
Ends == Closing \/ task \in {"close", "tell"}

\* The owner has ended the connection, or it was not started; nothing that the
\* owner sent is to come, nor is it in dw when the slot is about to be free.
Emptied ==
    /\ ended[id] # "no" \/ type = "PACCEPT"
    /\ \A p \in owed : ~UnderWay(p)
    /\ task # "idle" /\ task # "send" => Elements(dw) \cap owed = {}

\* The owner closes when it has sent, and its command comes behind its packets.
OwedSound ==
    /\ ended \in [Conn -> {"no", "K", "X"}]
    /\ \A p \in owed : p.to = id /\ p.from = Owner /\ p.seq <= sent[Owner] /\ told[id].open
    /\ \A i \in 1..Len(pipe) : pipe[i].op \in {"K", "X"} => ended[pipe[i].to] # "no"
    /\ \A i, j \in 1..Len(pipe) :
          pipe[i].op = "K" /\ pipe[i].to = id /\ i < j /\ Queued(j) => pipe[j].packet \notin owed
    /\ Carries(Owner) /\ pk[Owner] \in owed => ended[id] = "no"
    /\ type # "INVALID" /\ ~spoiled =>
          \A p \in owed : p \in Contents \/ UnderWay(p)
    /\ Ends /\ ~spoiled => Emptied

WireInv ==
    /\ SocketInv
    /\ Numbered
    /\ ~spoiled /\ type # "INVALID" => StreamSound
    /\ LossSeen
    /\ OwedSound
    /\ type = "INVALID" => WireIntact /\ Flushed

=============================================================================
