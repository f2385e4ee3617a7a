---------------------------- MODULE SocketServer ----------------------------
(* One slot of the socket server of the skynet core (socket_server.c): TCP   *)
(* connections that are accepted one after the other in the same slot, the   *)
(* services that send to them from worker threads, by a direct write under   *)
(* the slot's lock or through the pipe, and the socket thread, which handles *)
(* the commands of the pipe and the events of the poll.                      *)
(*                                                                           *)
(* A buffer is a sequence of pieces, Pieces of each packet; a kernel buffer  *)
(* takes any number of them.  A packet is sent high (socket.write) or low    *)
(* (socket.lwrite).                                                          *)
EXTENDS Integers, Sequences, FiniteSets

CONSTANTS
    Svc,          \* services that send
    Owner,        \* the one that starts and closes the connections
    Pieces,       \* in how many pieces a packet may be written
    MaxConn,      \* how many connections the slot has, one after the other
    MaxSent,      \* how many packets each service sends
    SendTo,       \* to which connections
    MaxWork,      \* how many packets are sent and connections started or paused, in all
    Nil

ASSUME FiniteServices == IsFiniteSet(Svc)
ASSUME OwnerSends == Owner \in Svc
ASSUME NilIsNoService == Nil \notin Svc \cup {"socket"} /\ "socket" \notin Svc

Conn == 1..MaxConn

ASSUME Bounds ==
    /\ Pieces \in Nat \ {0} /\ MaxConn \in Nat
    /\ MaxSent \in [Svc -> Nat] /\ MaxWork \in Nat /\ SendTo \subseteq Conn

VARIABLES
    type, id,                     \* struct socket; ids grow with each reuse
    tcp,                          \* protocol is PROTOCOL_TCP
    sending,                      \* tag of an id, and how many sends are under way
    reading, writing, closing,
    high, low,                    \* the two lists of write buffers
    dw,                           \* dw_buffer from dw_offset on
    lock,                         \* holder of dw_lock
    task,                         \* what the socket thread is in the middle of
    ready,                        \* the event of the slot that sp_wait has returned
    checkctrl,                    \* commands come before the next event
    pipe,                         \* commands for the socket thread
    pc, pk,                       \* where each service is in its send, and its packet
    told,                         \* messages raised for each connection
    ended,                        \* the connections the owner has closed ("K") or shut down ("X")
    work,                         \* what has been done of MaxWork
    peer,                         \* the other end: see PeerChanges
    sent,                         \* how many packets each service has sent
    wire,                         \* pieces written to this connection
    owed,                         \* packets the owner has sent to this connection
    spoiled,                      \* the connection was shut down or lost
    late                          \* a packet came behind the close

socketVars == <<type, id, tcp, sending, reading, writing, closing, high, low, dw, lock>>
ghosts == <<wire, owed, spoiled, late>>
pollVars == <<ready, checkctrl>>
vars == <<socketVars, task, pollVars, pipe, pc, pk, told, ended, work, peer, sent, ghosts>>

Packet == [to: Conn, from: Svc, seq: Nat, low: BOOLEAN]

ASSUME NilIsNoPacket == Nil \notin Packet

Whole(p) == [i \in 1..Pieces |-> p]

Init ==
    /\ type = "INVALID" /\ id = 0 /\ tcp = FALSE
    /\ sending = [tag |-> 0, n |-> 0]
    /\ reading = FALSE /\ writing = FALSE /\ closing = FALSE
    /\ high = <<>> /\ low = <<>> /\ dw = <<>>
    /\ lock = Nil
    /\ task = "idle"
    /\ ready = {} /\ checkctrl = FALSE
    /\ pipe = <<>>
    /\ pc = [s \in Svc |-> "idle"]
    /\ pk = [s \in Svc |-> Nil]
    /\ told = [c \in Conn |-> [open |-> FALSE, close |-> 0, err |-> FALSE]]
    /\ ended = [c \in Conn |-> "no"]
    /\ work = 0
    /\ peer = "up"
    /\ sent = [s \in Svc |-> 0]
    /\ wire = <<>> /\ owed = {} /\ spoiled = FALSE /\ late = FALSE

-----------------------------------------------------------------------------
Valid(c) == id = c /\ type # "INVALID"

BufferEmpty == high = <<>> /\ low = <<>>

NomoreIgnoresDw ==
    \/ BufferEmpty /\ sending.n = 0
    \/ type = "HALFCLOSE_WRITE"

NomoreSendingData ==
    \/ BufferEmpty /\ dw = <<>> /\ sending.n = 0
    \/ type = "HALFCLOSE_WRITE"

Lost == peer \in {"reset", "gone"}

\* A call that fails takes the error of the connection with it.
SeesError == IF peer = "reset" THEN "gone" ELSE peer

CanDirectWriteAhead(c) == id = c /\ BufferEmpty /\ dw = <<>> /\ type = "CONNECTED"

CanDirectWrite(c) == id = c /\ NomoreSendingData /\ type = "CONNECTED"

Raise(c, what) ==
    told' = [told EXCEPT ![c] = [open |-> @.open \/ what = "open",
                                 close |-> IF what = "close" THEN @.close + 1 ELSE @.close,
                                 err |-> @.err \/ what = "err"]]

\* Nothing is expected of what is written to a connection that is lost.
Spoil(b) ==
    /\ spoiled' = (spoiled \/ b)
    /\ wire' = IF spoiled' THEN <<>> ELSE wire
    /\ owed' = IF spoiled' THEN {} ELSE owed

(* force_close: the lists are freed, then, under the lock, the fd is closed  *)
(* and the slot given back.  A caller without the lock may have to wait for  *)
(* it between the two; what is raised comes last, and with it (when it was a *)
(* command that closed) clear_closed_event forgets the event of the slot.    *)
FreeLists(raise) ==
    /\ high' = <<>> /\ low' = <<>>
    /\ task' = IF raise THEN "tell" ELSE "close"

CloseFd ==
    /\ task \in {"close", "tell"}
    /\ lock = Nil
    /\ type' = "INVALID"
    /\ dw' = <<>>
    /\ task' = "idle"
    /\ Raise(id, IF task = "close" THEN "nothing" ELSE "close")
    /\ ready' = IF task = "close" THEN ready ELSE {}
    /\ UNCHANGED <<id, tcp, sending, reading, writing, closing, high, low, lock, checkctrl, pipe, pc, pk,
                   ended, work, peer, sent, ghosts>>

-----------------------------------------------------------------------------
(* Sending, on the thread of the service                                     *)

Moves(s, from, to) == pc[s] = from /\ pc' = [pc EXCEPT ![s] = to]

Done(s) == pc' = [pc EXCEPT ![s] = "idle"] /\ pk' = [pk EXCEPT ![s] = Nil]

Works == work < MaxWork /\ work' = work + 1

NewPacket(s, c, prio) ==
    LET p == [to |-> c, from |-> s, seq |-> sent[s] + 1, low |-> prio]
    IN  /\ sent[s] < MaxSent[s]
        /\ Works
        /\ told[c].open /\ c \in SendTo
        /\ Valid(c)
        /\ sent' = [sent EXCEPT ![s] = @ + 1]
        /\ pk' = [pk EXCEPT ![s] = p]
        /\ owed' = IF s = Owner /\ ended[c] = "no" /\ ~spoiled
                   THEN owed \cup {p}
                   ELSE owed
        /\ UNCHANGED <<socketVars, task, pollVars, pipe, told, ended, peer, wire, spoiled, late>>

\* socket_server_send
Send(s, c) ==
    /\ NewPacket(s, c, FALSE)
    /\ ~closing
    /\ Moves(s, "idle", IF CanDirectWrite(c) THEN "try" ELSE "inc")

\* socket_server_send_lowpriority
SendLow(s, c) == NewPacket(s, c, TRUE) /\ Moves(s, "idle", "inc")

TryLock(s) ==
    /\ Moves(s, "try", IF lock = Nil THEN "locked" ELSE "inc")
    /\ lock' = IF lock = Nil THEN s ELSE lock
    /\ UNCHANGED <<type, id, tcp, sending, reading, writing, closing, high, low, dw, task, pollVars, pipe, pk,
                   told, ended, work, peer, sent, ghosts>>

DoubleCheck(s) ==
    /\ Moves(s, "locked", IF CanDirectWrite(pk[s].to) THEN "write" ELSE "inc")
    /\ lock' = IF CanDirectWrite(pk[s].to) THEN lock ELSE Nil
    /\ UNCHANGED <<type, id, tcp, sending, reading, writing, closing, high, low, dw, task, pollVars, pipe, pk,
                   told, ended, work, peer, sent, ghosts>>

\* k pieces are written; the rest is left for the socket thread.
DirectWrite(s, k) ==
    /\ pc[s] = "write"
    /\ k > 0 => ~Lost
    /\ peer' = SeesError
    /\ wire' = wire \o SubSeq(Whole(pk[s]), 1, k)
    /\ dw' = SubSeq(Whole(pk[s]), k + 1, Pieces)
    /\ lock' = Nil
    /\ IF k = Pieces THEN Done(s) ELSE Moves(s, "write", "pipeW") /\ UNCHANGED pk
    /\ UNCHANGED <<type, id, tcp, sending, reading, writing, closing, high, low, task, pollVars, pipe,
                   told, ended, work, sent, owed, spoiled, late>>

Sending(change) == [tag |-> sending.tag, n |-> sending.n + change]

IncSendingUntagged(s) ==
    /\ Moves(s, "inc", "pipeD")
    /\ sending' = IF tcp THEN Sending(1) ELSE sending
    /\ UNCHANGED <<type, id, tcp, reading, writing, closing, high, low, dw, lock, task, pollVars,
                   pipe, pk, told, ended, work, peer, sent, ghosts>>

\* inc_sending_ref, of the same connection only.
IncSending(s) ==
    /\ Moves(s, "inc", "pipeD")
    /\ sending' = IF tcp /\ sending.tag = pk[s].to THEN Sending(1) ELSE sending
    /\ UNCHANGED <<type, id, tcp, reading, writing, closing, high, low, dw, lock, task, pollVars, pipe, pk,
                   told, ended, work, peer, sent, ghosts>>

SendRequest(s) ==
    /\ \/ /\ pc[s] = "pipeW"
          /\ pipe' = Append(pipe, [op |-> "W", to |-> pk[s].to])
       \/ /\ pc[s] = "pipeD"
          /\ pipe' = Append(pipe, [op |-> "D", to |-> pk[s].to, packet |-> pk[s]])
    /\ Done(s)
    /\ UNCHANGED <<socketVars, task, pollVars, told, ended, work, peer, sent, ghosts>>

(* The owner starts a connection ("R", until it is told that it is open),    *)
(* pauses it ("S") and closes it ("K"), which comes last, but for a shutdown *)
(* ("X": "K" with shutdown set) when it was told of an error.                *)
Ask(c, op) ==
    /\ pc[Owner] = "idle"
    /\ c < id \/ (c = id /\ type # "RESERVE")
    /\ \/ /\ op = "K" /\ ended[c] = "no"
          /\ ended' = [ended EXCEPT ![c] = "K"]
          /\ UNCHANGED work
       \/ /\ op = "X" /\ told[c].err /\ ended[c] # "X"
          /\ ended' = [ended EXCEPT ![c] = "X"]
          /\ UNCHANGED work
       \/ /\ op \in {"R", "S"} /\ ended[c] = "no"
          /\ op = "R" => ~told[c].open
          /\ Works
          /\ UNCHANGED ended
    /\ pipe' = Append(pipe, [op |-> op, to |-> c])
    /\ UNCHANGED <<socketVars, task, pollVars, pc, pk, told, peer, sent, ghosts>>

-----------------------------------------------------------------------------
(* ctrl_cmd: the socket thread takes a command from the pipe                 *)

Command(op, c) ==
    /\ task = "idle"
    /\ checkctrl
    /\ pipe # <<>>
    /\ Head(pipe).op = op
    /\ Head(pipe).to = c
    /\ pipe' = Tail(pipe)
    /\ UNCHANGED <<id, tcp, dw, lock, checkctrl, pc, pk, ended, work, peer, sent>>

ResumeSocket(c) ==
    /\ Command("R", c)
    /\ IF Valid(c) /\ type # "HALFCLOSE_READ"
       THEN /\ reading' = TRUE
            /\ type' = IF type = "PACCEPT" THEN "CONNECTED" ELSE type
            /\ Raise(c, IF type \in {"PACCEPT", "CONNECTED"} THEN "open" ELSE "nothing")
       ELSE Raise(c, "err") /\ UNCHANGED <<reading, type>>
    /\ ready' = IF id = c /\ type = "INVALID" THEN {} ELSE ready
    /\ UNCHANGED <<sending, writing, closing, high, low, task, ghosts>>

PauseSocket(c) ==
    /\ Command("S", c)
    /\ reading' = IF Valid(c) THEN FALSE ELSE reading
    /\ UNCHANGED <<type, sending, writing, closing, high, low, task, ready, told, ghosts>>

\* close_read: nothing is read any more, and CLOSE is raised.
CloseRead(c) ==
    /\ type' = "HALFCLOSE_READ"
    /\ reading' = FALSE
    /\ Raise(c, "close")

\* A connection with data to write is closed when these are out.
CloseSocket(c, shutdown) ==
    /\ Command(IF shutdown THEN "X" ELSE "K", c)
    /\ Spoil(shutdown /\ Valid(c))
    /\ IF ~Valid(c)
       THEN UNCHANGED <<type, reading, closing, high, low, task, told>>
       ELSE IF shutdown \/ NomoreSendingData
       THEN /\ FreeLists(type # "HALFCLOSE_READ")
            /\ UNCHANGED <<type, reading, closing, told>>
       ELSE /\ closing' = TRUE
            /\ IF type = "HALFCLOSE_READ" THEN UNCHANGED <<type, reading, told>> ELSE CloseRead(c)
            /\ UNCHANGED <<high, low, task>>
    /\ UNCHANGED <<sending, writing, ready, late>>

TriggerWrite(c) ==
    /\ Command("W", c)
    /\ writing' = (writing \/ Valid(c))
    /\ UNCHANGED <<type, sending, reading, closing, high, low, task, ready, told, ghosts>>

Accepts(c) == Valid(c) /\ type \notin {"HALFCLOSE_WRITE", "PACCEPT"} /\ ~closing

SendSocketUnmatched(c) ==
    /\ Command("D", c)
    /\ LET p == Head(pipe).packet
       IN  IF ~Accepts(c)
           THEN UNCHANGED <<high, low, writing>>
           ELSE IF BufferEmpty
           THEN high' = Whole(p) /\ writing' = TRUE /\ UNCHANGED low
           ELSE IF p.low
           THEN low' = low \o Whole(p) /\ UNCHANGED <<high, writing>>
           ELSE high' = high \o Whole(p) /\ UNCHANGED <<low, writing>>
    /\ sending' = IF tcp THEN Sending(-1) ELSE sending
    /\ late' = (late \/ (Valid(c) /\ closing))
    /\ UNCHANGED <<type, reading, closing, task, ready, told, wire, owed, spoiled>>

\* send_socket, then dec_sending_ref.
SendSocket(c) ==
    /\ Command("D", c)
    /\ LET p == Head(pipe).packet
       IN  IF ~Accepts(c)
           THEN UNCHANGED <<high, low, writing>>
           ELSE IF BufferEmpty
           THEN high' = Whole(p) /\ writing' = TRUE /\ UNCHANGED low
           ELSE IF p.low
           THEN low' = low \o Whole(p) /\ UNCHANGED <<high, writing>>
           ELSE high' = high \o Whole(p) /\ UNCHANGED <<low, writing>>
    /\ sending' = IF id = c /\ tcp THEN Sending(-1) ELSE sending
    /\ late' = (late \/ (Valid(c) /\ closing))
    /\ UNCHANGED <<type, reading, closing, task, ready, told, wire, owed, spoiled>>

-----------------------------------------------------------------------------
(* socket_server_poll: when the events that sp_wait returned are handled, it *)
(* is called again; then come the commands, and then, when there are none,   *)
(* the new events.  An event may so be out of date when it is handled.       *)

SpWait ==
    /\ task = "idle"
    /\ ready = {}
    /\ checkctrl => pipe = <<>>
    /\ ready' = IF type = "INVALID" THEN {}
                ELSE (IF reading /\ peer # "up" THEN {"read"} ELSE {})
                     \cup (IF writing THEN {"write"} ELSE {})
                     \cup (IF peer = "reset" THEN {"error"} ELSE {})
                     \cup (IF Lost THEN {"eof"} ELSE {})
    /\ checkctrl' = TRUE
    /\ UNCHANGED <<socketVars, task, pipe, pc, pk, told, ended, work, peer, sent, ghosts>>

\* The next event; none is left of it, or a write is to come next.
Event(flag) ==
    /\ task = "idle"
    /\ checkctrl => pipe = <<>>
    /\ checkctrl' = FALSE
    /\ flag \in ready
    /\ UNCHANGED <<id, tcp, sending, writing, closing, dw, pipe, pc, pk, ended, work, sent, ghosts>>

\* An event of a slot that was given back meanwhile.
StaleEvent ==
    /\ \E flag \in ready : Event(flag)
    /\ type = "INVALID"
    /\ ready' = {}
    /\ UNCHANGED <<type, reading, high, low, lock, task, told, peer>>

\* forward_message_tcp reads 0: the other end sends no more.
ReadZero ==
    /\ Event("read")
    /\ type # "INVALID"
    /\ peer \in {"fin", "gone"}
    /\ \/ /\ closing /\ NomoreSendingData
          /\ FreeLists(FALSE)
          /\ ready' = {}
          /\ UNCHANGED <<type, reading, told>>
       \/ /\ IF closing THEN ~NomoreSendingData ELSE type = "HALFCLOSE_READ"
          /\ ready' = ready \cap {"write"}
          /\ UNCHANGED <<type, reading, high, low, task, told>>
       \/ /\ ~closing /\ type # "HALFCLOSE_READ"
          /\ ready' = {}
          /\ IF type = "HALFCLOSE_WRITE"
             THEN FreeLists(TRUE) /\ UNCHANGED <<type, reading, told>>
             ELSE CloseRead(id) /\ UNCHANGED <<high, low, task>>
    /\ UNCHANGED <<lock, peer>>

\* There is nothing to read: the event was another connection's.
ReadNothing ==
    /\ Event("read")
    /\ type # "INVALID"
    /\ peer = "up"
    /\ ready' = ready \cap {"write"}
    /\ UNCHANGED <<type, reading, high, low, lock, task, told, peer>>

\* A read error, or an error event, changes nothing but is reported.
ReportError ==
    /\ \/ Event("read") /\ peer = "reset"
       \/ Event("error") /\ ready \cap {"read", "write"} = {}
    /\ type # "INVALID"
    /\ ready' = {}
    /\ Raise(id, "err")
    /\ peer' = SeesError
    /\ UNCHANGED <<type, reading, high, low, lock, task>>

EofAlwaysTells ==
    /\ Event("eof") /\ ready = {"eof"}
    /\ type # "INVALID"
    /\ ready' = {}
    /\ FreeLists(TRUE)
    /\ UNCHANGED <<type, reading, lock, told, peer>>

\* Both directions are shut, and nobody reads or writes.
Eof ==
    /\ Event("eof") /\ ready = {"eof"}
    /\ type # "INVALID"
    /\ ready' = {}
    /\ FreeLists(type # "HALFCLOSE_READ")
    /\ UNCHANGED <<type, reading, lock, told, peer>>

\* A direct write holds the lock: send later.
WriteBlocked ==
    /\ Event("write") /\ "read" \notin ready
    /\ type # "INVALID"
    /\ lock # Nil
    /\ ready' = {}
    /\ UNCHANGED <<type, reading, high, low, lock, task, told, peer>>

WriteEventAppends ==
    /\ task = "idle"
    /\ checkctrl => pipe = <<>>
    /\ checkctrl' = FALSE
    /\ "write" \in ready /\ "read" \notin ready
    /\ type # "INVALID"
    /\ lock = Nil
    /\ ready' = {}
    /\ lock' = "socket"
    /\ task' = "send"
    /\ high' = high \o dw
    /\ dw' = <<>>
    /\ UNCHANGED <<type, id, tcp, sending, reading, writing, closing, low, pipe, pc, pk, told,
                   ended, work, peer, sent, ghosts>>

\* send_buffer: what a direct write has left goes before the list.
WriteEvent ==
    /\ task = "idle"
    /\ checkctrl => pipe = <<>>
    /\ checkctrl' = FALSE
    /\ "write" \in ready /\ "read" \notin ready
    /\ type # "INVALID"
    /\ lock = Nil
    /\ ready' = {}
    /\ lock' = "socket"
    /\ task' = "send"
    /\ high' = dw \o high
    /\ dw' = <<>>
    /\ UNCHANGED <<type, id, tcp, sending, reading, writing, closing, low, pipe, pc, pk, told,
                   ended, work, peer, sent, ghosts>>

\* force_close by a caller that has the lock.
CloseLocked == type' = "INVALID" /\ high' = <<>> /\ low' = <<>>

SendBufferForgetsRest(k) ==
    LET all == high \o low
        rest == SubSeq(low, k - Len(high) + 1, Len(low))
        begun == Len(rest) % Pieces
    IN  /\ task = "send"
        /\ ~Lost \/ BufferEmpty
        /\ k <= Len(all)
        /\ wire' = wire \o SubSeq(all, 1, k)
        /\ task' = "idle"
        /\ lock' = Nil
        /\ IF k < Len(high)
           THEN high' = SubSeq(high, k + 1, Len(high)) /\ UNCHANGED <<type, writing, low>>
           ELSE IF rest # <<>>
           THEN /\ high' = <<>>
                /\ low' = rest
                /\ UNCHANGED <<type, writing>>
           ELSE IF closing
           THEN CloseLocked /\ UNCHANGED writing
           ELSE high' = <<>> /\ low' = <<>> /\ writing' = FALSE /\ UNCHANGED type
        /\ UNCHANGED <<id, tcp, sending, reading, closing, dw, pollVars, pipe, pc, pk, told, ended, work,
                       peer, sent, owed, spoiled, late>>

SendBufferKeepsOpen(k) ==
    LET all == high \o low
        rest == SubSeq(low, k - Len(high) + 1, Len(low))
        begun == Len(rest) % Pieces
    IN  /\ task = "send"
        /\ ~Lost \/ BufferEmpty
        /\ k <= Len(all)
        /\ wire' = wire \o SubSeq(all, 1, k)
        /\ task' = "idle"
        /\ lock' = Nil
        /\ IF k < Len(high)
           THEN high' = SubSeq(high, k + 1, Len(high)) /\ UNCHANGED <<type, writing, low>>
           ELSE IF rest # <<>>
           THEN /\ high' = SubSeq(rest, 1, begun)
                /\ low' = SubSeq(rest, begun + 1, Len(rest))
                /\ UNCHANGED <<type, writing>>
           ELSE high' = <<>> /\ low' = <<>> /\ writing' = FALSE /\ UNCHANGED type
        /\ UNCHANGED <<id, tcp, sending, reading, closing, dw, pollVars, pipe, pc, pk, told, ended, work,
                       peer, sent, owed, spoiled, late>>

\* send_buffer_ when k pieces can be written: the high list, then the low
\* one; the rest of a low packet that has begun becomes the high list.
SendBuffer(k) ==
    LET all == high \o low
        rest == SubSeq(low, k - Len(high) + 1, Len(low))
        begun == Len(rest) % Pieces
    IN  /\ task = "send"
        /\ ~Lost \/ BufferEmpty
        /\ k <= Len(all)
        /\ wire' = wire \o SubSeq(all, 1, k)
        /\ task' = "idle"
        /\ lock' = Nil
        /\ IF k < Len(high)
           THEN high' = SubSeq(high, k + 1, Len(high)) /\ UNCHANGED <<type, writing, low>>
           ELSE IF rest # <<>>
           THEN /\ high' = SubSeq(rest, 1, begun)
                /\ low' = SubSeq(rest, begun + 1, Len(rest))
                /\ UNCHANGED <<type, writing>>
           ELSE IF closing
           THEN CloseLocked /\ UNCHANGED writing
           ELSE high' = <<>> /\ low' = <<>> /\ writing' = FALSE /\ UNCHANGED type
        /\ UNCHANGED <<id, tcp, sending, reading, closing, dw, pollVars, pipe, pc, pk, told, ended, work,
                       peer, sent, owed, spoiled, late>>

\* close_write: the write fails.
WriteFails ==
    /\ task = "send"
    /\ Lost /\ ~BufferEmpty
    /\ peer' = SeesError
    /\ task' = "idle"
    /\ lock' = Nil
    /\ IF closing \/ type = "HALFCLOSE_READ"
       THEN CloseLocked /\ UNCHANGED <<writing, told>>
       ELSE /\ UNCHANGED <<high, low>>
            /\ IF type = "HALFCLOSE_WRITE"
               THEN UNCHANGED <<type, writing, told>>
               ELSE type' = "HALFCLOSE_WRITE" /\ writing' = FALSE /\ Raise(id, "err")
    /\ UNCHANGED <<id, tcp, sending, reading, closing, dw, pollVars, pipe, pc, pk, ended, work, sent, ghosts>>

-----------------------------------------------------------------------------
(* report_accept: the slot is reserved, then new_fd fills it.                *)

ReserveId ==
    /\ task = "idle"
    /\ checkctrl => pipe = <<>>
    /\ checkctrl' = FALSE
    /\ type = "INVALID"
    /\ id < MaxConn
    /\ type' = "RESERVE"
    /\ id' = id + 1
    /\ tcp' = FALSE
    /\ task' = "accept"
    /\ wire' = <<>> /\ owed' = {} /\ spoiled' = FALSE /\ late' = FALSE
    /\ UNCHANGED <<sending, reading, writing, closing, high, low, dw, lock, ready, pipe, pc, pk, told,
                   ended, work, peer, sent>>

NewFd ==
    /\ task = "accept"
    /\ type' = "PACCEPT"
    /\ tcp' = TRUE
    /\ sending' = [tag |-> id, n |-> 0]
    /\ reading' = FALSE /\ writing' = FALSE /\ closing' = FALSE
    /\ dw' = <<>>
    /\ task' = "idle"
    /\ peer' = "up"
    /\ UNCHANGED <<id, high, low, lock, pollVars, pipe, pc, pk, told, ended, work, sent, ghosts>>

\* The other end sends no more ("fin"), or is lost ("reset", and "gone" when
\* its error has been seen).
PeerChanges ==
    /\ type \notin {"INVALID", "RESERVE"}
    /\ \/ peer = "up" /\ peer' = "fin" /\ Spoil(FALSE)
       \/ ~Lost /\ peer' = "reset" /\ Spoil(TRUE)
    /\ UNCHANGED <<socketVars, task, pollVars, pipe, pc, pk, told, ended, work, sent, late>>

-----------------------------------------------------------------------------
SenderStep(s) ==
    \/ TryLock(s) \/ DoubleCheck(s) \/ IncSending(s) \/ SendRequest(s)
    \/ \E k \in 0..Pieces : DirectWrite(s, k)

Progress == \E k \in 1..(Len(high) + Len(low)) : SendBuffer(k)

ThreadStep ==
    \/ SpWait
    \/ \E c \in Conn : \/ ResumeSocket(c) \/ PauseSocket(c) \/ TriggerWrite(c) \/ SendSocket(c)
                       \/ \E shutdown \in BOOLEAN : CloseSocket(c, shutdown)
    \/ StaleEvent \/ ReadZero \/ ReadNothing \/ ReportError \/ Eof
    \/ WriteBlocked \/ WriteEvent \/ SendBuffer(0) \/ Progress \/ WriteFails
    \/ CloseFd \/ NewFd

Next ==
    \/ \E s \in Svc : SenderStep(s) \/ \E c \in Conn : Send(s, c) \/ SendLow(s, c)
    \/ \E c \in Conn, op \in {"R", "S", "K", "X"} : Ask(c, op)
    \/ ThreadStep
    \/ ReserveId
    \/ PeerChanges

Spec == Init /\ [][Next]_vars

(* The services' sends and the socket thread run, and a connection that is   *)
(* written to takes data again and again.                                    *)
Fairness ==
    /\ \A s \in Svc : WF_vars(SenderStep(s))
    /\ WF_vars(ThreadStep)
    /\ SF_vars(Progress)

LiveSpec == Spec /\ Fairness

-----------------------------------------------------------------------------
Types == {"INVALID", "RESERVE", "PACCEPT", "CONNECTED", "HALFCLOSE_READ", "HALFCLOSE_WRITE"}

TypeOK ==
    /\ type \in Types
    /\ id \in 0..MaxConn
    /\ sending \in [tag: 0..MaxConn, n: Nat]
    /\ tcp \in BOOLEAN /\ reading \in BOOLEAN /\ writing \in BOOLEAN /\ closing \in BOOLEAN
    /\ spoiled \in BOOLEAN /\ late \in BOOLEAN /\ checkctrl \in BOOLEAN
    /\ high \in Seq(Packet) /\ low \in Seq(Packet) /\ dw \in Seq(Packet) /\ wire \in Seq(Packet)
    /\ lock \in Svc \cup {Nil, "socket"}
    /\ task \in {"idle", "send", "close", "tell", "accept"}
    /\ ready \subseteq {"read", "write", "error", "eof"}
    /\ pk \in [Svc -> Packet \cup {Nil}]
    /\ told \in [Conn -> [open: BOOLEAN, close: Nat, err: BOOLEAN]]
    /\ owed \subseteq Packet

(* The low half of s->sending counts the sends to this connection that are   *)
(* between inc_sending_ref and dec_sending_ref, so that the assertion of     *)
(* dec_sending_ref (socket_server.c:1392) holds and no direct write overtakes*)
(* a packet in the pipe, however often the slot is used again.               *)
SendingExact ==
    type # "RESERVE" =>
        sending.n = Cardinality({s \in Svc : pc[s] = "pipeD" /\ pk[s].to = id})
                    + Cardinality({i \in 1..Len(pipe) : pipe[i].op = "D" /\ pipe[i].to = id})

(* The lists are as the assertions of new_fd, send_buffer_ and               *)
(* raise_uncomplete want them: empty when the slot is given back, and only   *)
(* the high list begins with a packet that was sent in part.  No data are    *)
(* forgotten: the write event is enabled, or a command that enables it is    *)
(* under way, unless writing has failed.                                     *)
ListsSound ==
    /\ type \in {"INVALID", "RESERVE"} => BufferEmpty /\ dw = <<>>
    /\ Len(low) % Pieces = 0
    /\ ~BufferEmpty => writing \/ type = "HALFCLOSE_WRITE"
    /\ dw # <<>> =>
          \/ writing \/ type = "HALFCLOSE_WRITE"
          \/ \E s \in Svc : pc[s] = "pipeW" /\ pk[s].to = id
          \/ \E i \in 1..Len(pipe) : pipe[i].op = "W" /\ pipe[i].to = id

(* "SOCKET_CLOSE can be raised (only once)" (socket_server.c:1157): it is    *)
(* raised exactly once for every connection, at the latest when its slot is  *)
(* given back, whoever closes first and whatever fails meanwhile.            *)
CloseExact ==
    \A c \in Conn :
        told[c].close = IF c < id \/ (c = id /\ type \in {"INVALID", "HALFCLOSE_READ"}) THEN 1 ELSE 0

(* Unless the connection was lost or shut down, what the other end reads is  *)
(* packets sent to it, each in one piece, and the high ones of one service in*)
(* the order in which it sent them, whichever way each was written.          *)
WireIntact ==
    ~spoiled =>
        /\ \A i \in 1..Len(wire) : wire[i].to = id /\ wire[i] = wire[i - ((i - 1) % Pieces)]
        /\ \A i, j \in 1..Len(wire) :
              /\ wire[i] = wire[j] => (i - 1) \div Pieces = (j - 1) \div Pieces
              /\ i < j /\ wire[i].from = wire[j].from /\ ~wire[i].low /\ ~wire[j].low
                    => wire[i].seq <= wire[j].seq

(* What the owner has sent before it closed the connection was written, if   *)
(* the connection was not lost or shut down.                                 *)
Flushed ==
    type = "INVALID" /\ ~spoiled =>
        \A p \in owed : \E i \in 1..Len(wire) : wire[i] = p /\ Len(wire) >= i + Pieces - 1

(* A connection that is being closed is given back once its data are out,    *)
(* unless a packet of another service came behind the close: it is dropped,  *)
(* and nothing else makes the socket thread look at the connection.          *)
Stuck == late /\ BufferEmpty /\ dw = <<>> /\ ~writing

Closing == type \notin {"INVALID", "RESERVE"} /\ closing

ClosingEnds == Closing ~> (~Closing \/ Stuck)

=============================================================================
