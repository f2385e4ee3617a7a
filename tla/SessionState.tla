---------------------------- MODULE SessionState ----------------------------
(***************************************************************************)
(* What the session services (gatemgr, gate, role) share: the clients'     *)
(* connections and the services' mailboxes.                                *)
(*                                                                         *)
(* A skynet service handles one mailbox in the order in which messages are *)
(* pushed to it, and a handler runs alone until it yields (skynet.call,    *)
(* newservice, a socket read or a socket.close that has to wait).  So a    *)
(* mailbox is one sequence for all senders, and an action of the component *)
(* modules is the code from one yield to the next.                         *)
(*                                                                         *)
(* A role service is named by the connection whose login launched it: each *)
(* gate.enter_role launches at most one, and makes one record for it in    *)
(* the gate's table, which therefore has the same name.                    *)
(***************************************************************************)
EXTENDS Integers, Sequences, FiniteSets

CONSTANTS
    Conn,        \* client connections (socket ids); each lives once
    Gate,        \* the gate services
    MaxRole,     \* the largest role id considered
    Stored,      \* the roles that exist in t_role at the start
    Asked,       \* the role ids clients log in with; 0 asks for a new role
    SerialLogin, \* clients log in roles that exist and have no login pending
    Nil          \* Lua's nil

Role == 1..MaxRole

ASSUME SessionAssumption ==
    /\ MaxRole \in Nat \ {0}
    /\ Stored \subseteq Role
    /\ Asked \subseteq Role \cup {0}
    /\ Gate # {}
    /\ SerialLogin \in BOOLEAN
    /\ Nil \notin Conn \cup Gate \cup Role \cup {0}

VARIABLES
    conn,   \* the TCP connection: none, open, gone (peer closed), closed (by us)
    fate,   \* what became of its login: none, pending, answered, dropped
    want,   \* the role it asks for (0: a new one); Nil before it asks
    data,   \* what the gate gets of that role: none, row, new, bare ({id = ...})
    at,     \* the gate it is handed to; Nil before
    live,   \* the role services whose handle is registered
    mgrQ,   \* mailbox of gatemgr
    gateQ,  \* mailbox of each gate
    roleQ   \* mailbox of each role service

login  == <<want, data, at>>
queues == <<mgrQ, gateQ, roleQ>>
netVars == <<conn, fate, login, live, queues>>

MgrMsg  == [op : {"add_role", "del_role"}, gate : Gate, role : Role]
GateMsg == [op : {"enter_role", "reenter_role"}, fd : Conn, role : Role]
             \cup [op : {"logout"}, fd : {Nil}, role : Role]
RoleMsg == {"connected", "reconnected", "disconnected"}

\* A login message: it carries a connection to a gate.
IsLogin(m) == m.op \in {"enter_role", "reenter_role"}

NetInit ==
    /\ conn = [f \in Conn |-> "none"]
    /\ fate = [f \in Conn |-> "none"]
    /\ want = [f \in Conn |-> Nil]
    /\ data = [f \in Conn |-> "none"]
    /\ at = [f \in Conn |-> Nil]
    /\ live = {}
    /\ mgrQ = <<>>
    /\ gateQ = [g \in Gate |-> <<>>]
    /\ roleQ = [l \in Conn |-> <<>>]

NetTypeOK ==
    /\ conn \in [Conn -> {"none", "open", "gone", "closed"}]
    /\ fate \in [Conn -> {"none", "pending", "answered", "dropped"}]
    /\ want \in [Conn -> Role \cup {0, Nil}]
    /\ data \in [Conn -> {"none", "row", "new", "bare"}]
    /\ at \in [Conn -> Gate \cup {Nil}]
    /\ live \subseteq Conn
    /\ mgrQ \in Seq(MgrMsg)
    /\ gateQ \in [Gate -> Seq(GateMsg)]
    /\ roleQ \in [Conn -> Seq(RoleMsg)]

\* skynet.send to each of the services; a role service that is gone gets nothing.
SendMgr(op, g, r) ==
    mgrQ' = Append(mgrQ, [op |-> op, gate |-> g, role |-> r])

SendGate(g, op, f, r) ==
    gateQ' = [gateQ EXCEPT ![g] = Append(@, [op |-> op, fd |-> f, role |-> r])]

SendTo(q, l, ops) == IF l \in live THEN [q EXCEPT ![l] = @ \o ops] ELSE q
SendRole(l, ops) == roleQ' = SendTo(roleQ, l, ops)

\* The client closes its side, or its connection breaks.
ClientClose(f) ==
    /\ conn[f] = "open"
    /\ conn' = [conn EXCEPT ![f] = "gone"]
    /\ UNCHANGED <<fate, login, live, queues>>
=============================================================================
