--------------------------- MODULE SessionProofs ----------------------------
(***************************************************************************)
(* The safety of the session for any number of connections, gates and      *)
(* roles: GateInv (SessionInv) is inductive, and the properties of Session *)
(* that concern a gate's tables and its closing sockets follow from it.    *)
(*                                                                         *)
(* One lemma per handler shows that it keeps GateInv.  The lemmas Frame,   *)
(* FrameGate and GateFrame carry the parts that a handler leaves alone.    *)
(***************************************************************************)
EXTENDS SessionInv, TLAPS

USE SessionAssumption

\* The invariant holds at the start: no connection, no message, empty tables.
LEMMA InitInv == Init => GateInv
<1> SUFFICES ASSUME Init PROVE GateInv
  OBVIOUS
<1> USE DEF Init, NetInit, MgrInit, GateInit, RoleInit, NoCloser, Role
<1>1. TypeOK
  BY DEF TypeOK, NetTypeOK, MgrTypeOK, GateTypeOK, RoleTypeOK
<1>2. KnowsRole /\ Handed /\ Running /\ LoginMail
  BY DEF KnowsRole, Handed, Running, LoginMail, IsLogin
<1>3. Records /\ Attached /\ GateTables
  BY DEF Records, Attached, GateTables
<1>4. Closing /\ Heirs /\ Awaited
  BY DEF Closing, Heirs, Awaited
<1> QED
  BY <1>1, <1>2, <1>3, <1>4 DEF GateInv

-----------------------------------------------------------------------------
\* A step that touches no login, no mailbox of a gate and no table of a gate keeps
\* the invariant if it keeps the types and starts no service.
LEMMA Frame ==
  ASSUME GateInv, TypeOK', Running', live' \subseteq live,
         UNCHANGED <<auth, want, at, gateQ, groles, recfd, sock, hb, task, closer>>
  PROVE GateInv'
<1> USE DEF GateInv
<1>1. KnowsRole' /\ Handed'
  BY DEF KnowsRole, Handed
<1>2. LoginMail'
  BY DEF LoginMail, IsLogin
<1>3. Records' /\ Attached' /\ GateTables'
  BY DEF Records, Attached, GateTables
<1>4. Closing' /\ Heirs' /\ Awaited'
  BY DEF Closing, Heirs, Awaited
<1> QED
  BY <1>1, <1>2, <1>3, <1>4

\* A step of gatemgr that leaves the gates' tables and mailboxes alone keeps the
\* invariant if it keeps the role and the gate of every login already handed over.
LEMMA FrameGate ==
  ASSUME GateInv, TypeOK', KnowsRole', Handed', Running', LoginMail',
         \A f \in Conn : at[f] # Nil => at'[f] = at[f] /\ want'[f] = want[f],
         UNCHANGED <<groles, recfd, sock, hb, task, closer>>
  PROVE GateInv'
<1> USE DEF GateInv, TypeOK, NetTypeOK, GateTypeOK
<1>1. Records'
  BY DEF Records
<1>2. Attached' /\ GateTables'
  BY DEF Attached, GateTables
<1>3. Closing' /\ Heirs' /\ Awaited'
  BY DEF Closing, Heirs, Awaited
<1> QED
  BY <1>1, <1>2, <1>3

\* A message that is no login, appended to a gate's mailbox, disturbs no login.
LEMMA PostedMail ==
  ASSUME GateInv, NEW g \in Gate, NEW m \in GateMsg, ~IsLogin(m),
         gateQ' = [gateQ EXCEPT ![g] = Append(@, m)],
         UNCHANGED <<task, at>>
  PROVE LoginMail'
BY DEF GateInv, TypeOK, NetTypeOK, LoginMail, IsLogin, GateMsg

-----------------------------------------------------------------------------
(* Clients and gatemgr.                                                     *)

\* gatemgr accepts a connection.
LEMMA AcceptInv ==
  ASSUME GateInv, NEW f \in Conn, Accept(f), UNCHANGED <<gateVars, roleVars>>
  PROVE GateInv'
<1> USE DEF GateInv, Accept, Goto, Running, gateVars, roleVars, login, queues, tables
<1>1. TypeOK'
  BY DEF TypeOK, NetTypeOK, MgrTypeOK, GateTypeOK, RoleTypeOK
<1>2. KnowsRole' /\ Handed'
  BY DEF TypeOK, MgrTypeOK, KnowsRole, Handed
<1>3. LoginMail'
  BY DEF LoginMail, IsLogin
<1> QED
  BY <1>1, <1>2, <1>3, FrameGate DEF Running

\* gatemgr closes the socket of a login that failed.
LEMMA GiveUpInv ==
  ASSUME GateInv, NEW f \in Conn, auth[f] \notin {"applied"}, GiveUp(f),
         UNCHANGED <<gateVars, roleVars>>
  PROVE GateInv'
<1> USE DEF GateInv, GiveUp, Goto, Running, gateVars, roleVars, login, queues, tables
<1>1. TypeOK'
  BY DEF TypeOK, NetTypeOK, MgrTypeOK, GateTypeOK, RoleTypeOK
<1>2. KnowsRole' /\ Handed'
  BY DEF TypeOK, MgrTypeOK, KnowsRole, Handed
<1>3. LoginMail'
  BY DEF LoginMail, IsLogin
<1> QED
  BY <1>1, <1>2, <1>3, FrameGate DEF Running

\* The auth request arrives, and with it the role the login is about.
LEMMA RecvAuthInv ==
  ASSUME GateInv, NEW f \in Conn, NEW r \in Asked, RecvAuth(f, r),
         UNCHANGED <<gateVars, roleVars>>
  PROVE GateInv'
<1> USE DEF GateInv, RecvAuth, Goto, Running, gateVars, roleVars, queues, tables
<1>1. TypeOK'
  BY DEF TypeOK, NetTypeOK, MgrTypeOK, GateTypeOK, RoleTypeOK
<1>2. KnowsRole' /\ Handed'
  BY DEF TypeOK, NetTypeOK, MgrTypeOK, KnowsRole, Handed
<1>3. LoginMail'
  BY DEF LoginMail, IsLogin
<1> QED
  BY <1>1, <1>2, <1>3, FrameGate DEF Running, Handed, TypeOK, NetTypeOK, MgrTypeOK

\* The id of a new role is chosen: a connection without a gate changes its role.
LEMMA MaxDoneInv ==
  ASSUME GateInv, NEW f \in Conn, MaxDone(f), UNCHANGED <<gateVars, roleVars>>
  PROVE GateInv'
<1> USE DEF GateInv, MaxDone, Goto, Running, gateVars, roleVars, queues, tables
<1>1. TypeOK'
  BY DEF TypeOK, NetTypeOK, MgrTypeOK, GateTypeOK, RoleTypeOK
<1>2. KnowsRole' /\ Handed'
  BY DEF TypeOK, NetTypeOK, MgrTypeOK, KnowsRole, Handed
<1>3. LoginMail'
  BY DEF LoginMail, IsLogin
<1> QED
  BY <1>1, <1>2, <1>3, FrameGate DEF Running, Handed, TypeOK, NetTypeOK, MgrTypeOK

\* The database answers gatemgr.
LEMMA AnswerInv ==
  ASSUME GateInv, NEW f \in Conn, AccountDone(f) \/ InsertDone(f) \/ ReadDone(f),
         UNCHANGED <<gateVars, roleVars>>
  PROVE GateInv'
<1> USE DEF GateInv, AccountDone, InsertDone, ReadDone, Goto, Running, gateVars,
            roleVars, queues, tables
<1>1. TypeOK'
  <2>1. NetTypeOK'
    BY DEF TypeOK, NetTypeOK
  <2>2. MgrTypeOK'
    BY DEF TypeOK, MgrTypeOK, KnowsRole
  <2>3. GateTypeOK' /\ RoleTypeOK'
    BY DEF TypeOK, GateTypeOK, RoleTypeOK
  <2> QED
    BY <2>1, <2>2, <2>3 DEF TypeOK
<1>2. KnowsRole' /\ Handed'
  BY DEF TypeOK, NetTypeOK, MgrTypeOK, KnowsRole, Handed
<1>3. LoginMail'
  BY DEF LoginMail, IsLogin
<1> QED
  BY <1>1, <1>2, <1>3, FrameGate DEF Running

\* apply_gate hands the connection over: its login message is the only one about it.
LEMMA ApplyGateInv ==
  ASSUME GateInv, NEW f \in Conn, ApplyGate(f), UNCHANGED <<gateVars, roleVars>>
  PROVE GateInv'
<1> USE DEF GateInv, Running, gateVars, roleVars
<1>1. PICK g \in Gate, op \in {"enter_role", "reenter_role"} :
           /\ at' = [at EXCEPT ![f] = g]
           /\ SendGate(g, op, f, want[f])
           /\ readys' \in {readys, readys \cup {want[f]}}
  BY DEF ApplyGate, LightestGates, TypeOK, MgrTypeOK, KnowsRole
<1>2. at[f] = Nil /\ want[f] \in Role /\ task[f] = "none" /\ auth[f] = "pause"
  BY DEF ApplyGate, KnowsRole, Handed
<1>3. TypeOK'
  <2>1. NetTypeOK'
    <3>1. [op |-> op, fd |-> f, role |-> want[f]] \in GateMsg
      BY <1>2 DEF GateMsg
    <3> QED
      BY <1>1, <3>1 DEF ApplyGate, SendGate, TypeOK, NetTypeOK
  <2>2. MgrTypeOK'
    BY <1>1, <1>2 DEF ApplyGate, Goto, TypeOK, MgrTypeOK
  <2>3. GateTypeOK' /\ RoleTypeOK'
    BY DEF TypeOK, GateTypeOK, RoleTypeOK
  <2> QED
    BY <2>1, <2>2, <2>3 DEF TypeOK
<1>4. KnowsRole' /\ Handed'
  BY <1>1, <1>2 DEF ApplyGate, Goto, TypeOK, NetTypeOK, MgrTypeOK, KnowsRole, Handed
<1>5. LoginMail'
  <2> DEFINE m == [op |-> op, fd |-> f, role |-> want[f]]
  <2>1. /\ gateQ \in [Gate -> Seq(GateMsg)] /\ task' = task
        /\ gateQ' = [gateQ EXCEPT ![g] = Append(@, m)]
        /\ at' = [at EXCEPT ![f] = g] /\ at \in [Conn -> Gate \cup {Nil}]
    BY <1>1 DEF ApplyGate, SendGate, TypeOK, NetTypeOK
  <2>2. \A h \in Gate : \A i \in DOMAIN gateQ[h] : gateQ[h][i].fd # f
    <3> SUFFICES ASSUME NEW h \in Gate, NEW i \in DOMAIN gateQ[h] PROVE gateQ[h][i].fd # f
      OBVIOUS
    <3>1. gateQ[h][i] \in GateMsg
      BY <2>1
    <3>2. CASE IsLogin(gateQ[h][i])
      BY <1>2, <3>2 DEF LoginMail
    <3>3. CASE ~IsLogin(gateQ[h][i])
      BY <3>1, <3>3 DEF GateMsg, IsLogin
    <3> QED
      BY <3>2, <3>3
  <2> QED
    BY <1>2, <2>1, <2>2 DEF LoginMail, IsLogin
<1>6. \A e \in Conn : at[e] # Nil => at'[e] = at[e] /\ want'[e] = want[e]
  BY <1>1, <1>2 DEF ApplyGate, TypeOK, NetTypeOK
<1>7. Running'
  BY DEF ApplyGate, Running
<1> QED
  BY <1>3, <1>4, <1>5, <1>6, <1>7, FrameGate DEF ApplyGate

\* add_role and del_role change gatemgr's own tables only.
LEMMA TableInv ==
  ASSUME GateInv, AddRole \/ DelRole, UNCHANGED <<gateVars, roleVars>>
  PROVE GateInv'
<1> USE DEF GateInv, AddRole, DelRole, Running, gateVars, roleVars, login
<1>1. Head(mgrQ) \in MgrMsg /\ Tail(mgrQ) \in Seq(MgrMsg)
  BY DEF TypeOK, NetTypeOK
<1>2. TypeOK'
  <2>1. NetTypeOK'
    BY <1>1 DEF TypeOK, NetTypeOK
  <2>2. MgrTypeOK'
    <3>1. CASE AddRole
      BY <1>1, <3>1 DEF TypeOK, MgrTypeOK, MgrMsg
    <3>2. CASE DelRole
      BY <1>1, <3>2 DEF TypeOK, MgrTypeOK, MgrMsg
    <3> QED
      BY <3>1, <3>2
  <2>3. GateTypeOK' /\ RoleTypeOK'
    BY DEF TypeOK, GateTypeOK, RoleTypeOK
  <2> QED
    BY <2>1, <2>2, <2>3 DEF TypeOK
<1> QED
  BY <1>2, Frame DEF Running

-----------------------------------------------------------------------------
(* The role services.                                                       *)

\* A role service handles a message of its gate.
LEMMA RoleHandleInv ==
  ASSUME GateInv, NEW l \in Conn, RoleHandle(l), UNCHANGED <<mgrVars, gateVars>>
  PROVE GateInv'
<1> USE DEF GateInv, mgrVars, gateVars, tables, login
<1>1. PICK op \in RoleMsg : NextFor(l, op)
  BY DEF RoleHandle, Connected, Reconnected, Disconnected, RoleMsg
<1>2. NetTypeOK'
  <2>1. roleQ[l] \in Seq(RoleMsg) /\ roleQ[l] # <<>>
    BY <1>1 DEF NextFor, TypeOK, NetTypeOK
  <2>2. Tail(roleQ[l]) \in Seq(RoleMsg)
    BY <2>1
  <2> QED
    BY <1>1, <2>2 DEF NextFor, TypeOK, NetTypeOK
<1>3. RoleTypeOK'
  BY DEF RoleHandle, Connected, Reconnected, Disconnected, TypeOK, RoleTypeOK
<1>4. TypeOK'
  BY <1>2, <1>3 DEF TypeOK, MgrTypeOK, GateTypeOK
<1>5. Running'
  BY <1>1 DEF RoleHandle, Connected, Reconnected, Disconnected, NextFor, Running, 
              TypeOK, RoleTypeOK
<1> QED
  BY <1>1, <1>4, <1>5, Frame DEF NextFor

\* A role service leaves: its mailbox goes, its gate gets logout.
LEMMA LeaveInv ==
  ASSUME GateInv, NEW l \in live, Leave(l), exitAt' = exitAt,
         UNCHANGED <<mgrVars, gateVars>>
  PROVE GateInv'
<1> USE DEF GateInv, Leave, mgrVars, gateVars, tables, login
<1> DEFINE m == [op |-> "logout", fd |-> Nil, role |-> want[l]]
<1>1. l \in Conn /\ at[l] \in Gate /\ want[l] \in Role
  BY DEF TypeOK, NetTypeOK, Handed
<1>2. m \in GateMsg /\ ~IsLogin(m)
  BY <1>1 DEF GateMsg, IsLogin
<1>3. gateQ' = [gateQ EXCEPT ![at[l]] = Append(@, m)]
  BY DEF SendGate
<1>4. TypeOK'
  <2>1. NetTypeOK'
    BY <1>1, <1>2, <1>3 DEF TypeOK, NetTypeOK
  <2>2. RoleTypeOK'
    BY DEF TypeOK, RoleTypeOK
  <2> QED
    BY <2>1, <2>2 DEF TypeOK, MgrTypeOK, GateTypeOK
<1>5. KnowsRole' /\ Handed'
  BY DEF KnowsRole, Handed
<1>6. LoginMail'
  BY <1>1, <1>2, <1>3, PostedMail
<1>7. Running'
  BY DEF Running, TypeOK, RoleTypeOK
<1> QED
  BY <1>4, <1>5, <1>6, <1>7, FrameGate

\* A role service is resumed, or its timer finds something due.
LEMMA RoleInv ==
  ASSUME GateInv, NEW l \in Conn,
         SaveDue(l) \/ StopDue(l) \/ RoleResume(l),
         UNCHANGED <<mgrVars, gateVars>>
  PROVE GateInv'
<1> USE DEF SaveDue, StopDue, RoleResume, LoginSaved, SaveDone, StopSaved
<1>1. CASE Leave(l) /\ exitAt' = exitAt
  <2>1. Running
    BY DEF GateInv
  <2>2. co[l] \notin {"new", "gone"}
    OBVIOUS
  <2>3. l \in live
    BY <2>1, <2>2 DEF Running
  <2> QED
    BY <1>1, <2>3, LeaveInv
<1>2. CASE UNCHANGED netVars
  <2>1. RoleTypeOK'
    BY <1>2 DEF GateInv, TypeOK, RoleTypeOK, Leave
  <2>2. TypeOK'
    BY <1>2, <2>1 DEF GateInv, TypeOK, NetTypeOK, MgrTypeOK, GateTypeOK, netVars,
                      login, queues, mgrVars, tables, gateVars
  <2>3. Running'
    BY <1>2 DEF GateInv, Running, TypeOK, RoleTypeOK, netVars, Leave
  <2> QED
    BY <1>2, <2>2, <2>3, Frame DEF netVars, login, queues, mgrVars, gateVars
<1> QED
  BY <1>1, <1>2

-----------------------------------------------------------------------------
(* The gates.                                                               *)

\* The login message a gate handles next is about a connection of this gate that
\* no handler has seen: no record has it and nobody closes it.
LEMMA HeadMail ==
  ASSUME GateInv, NEW g \in Gate, NEW op \in {"enter_role", "reenter_role"}, Next1(g, op)
  PROVE LET f == Head(gateQ[g]).fd
        IN /\ f \in Conn /\ task[f] = "none" /\ at[f] = g /\ want[f] \in Role
           /\ sock[f] = Nil
           /\ closer[f].why = "none"
           /\ \A l \in Conn : recfd[l] # f
<1> USE DEF GateInv, Next1
<1>1. /\ gateQ[g] \in Seq(GateMsg) /\ 1 \in DOMAIN gateQ[g]
      /\ Head(gateQ[g]) = gateQ[g][1] /\ IsLogin(gateQ[g][1])
  BY DEF TypeOK, NetTypeOK, IsLogin
<1> DEFINE f == gateQ[g][1].fd
<1>2. f \in Conn /\ task[f] = "none" /\ at[f] = g
  BY <1>1 DEF LoginMail
<1>3. want[f] \in Role /\ sock[f] = Nil /\ closer[f].why = "none"
  BY <1>2 DEF Handed, Attached, Closing
<1>4. \A l \in Conn : recfd[l] # f
  BY <1>2, <1>3 DEF GateTables
<1> QED
  BY <1>1, <1>2, <1>3, <1>4

\* When a gate takes a login message about f, no message about f is left, so f may
\* get a coroutine.
LEMMA PopMail ==
  ASSUME GateInv, NEW g \in Gate, NEW op, Next1(g, op), Pop(g), at' = at,
         \A f \in Conn : task[f] = "none" /\ task'[f] # "none"
            => f = Head(gateQ[g]).fd /\ IsLogin(Head(gateQ[g]))
  PROVE LoginMail' /\ gateQ' \in [Gate -> Seq(GateMsg)]
<1> USE DEF GateInv, Next1, Pop
<1>1. gateQ \in [Gate -> Seq(GateMsg)] /\ gateQ[g] # <<>>
  BY DEF TypeOK, NetTypeOK
<1>2. /\ gateQ' = [gateQ EXCEPT ![g] = Tail(gateQ[g])]
      /\ Tail(gateQ[g]) \in Seq(GateMsg)
      /\ Len(Tail(gateQ[g])) = Len(gateQ[g]) - 1
      /\ \A i \in DOMAIN Tail(gateQ[g]) :
            i + 1 \in DOMAIN gateQ[g] /\ Tail(gateQ[g])[i] = gateQ[g][i + 1]
      /\ Head(gateQ[g]) = gateQ[g][1] /\ 1 \in DOMAIN gateQ[g]
  BY <1>1
<1>3. gateQ' \in [Gate -> Seq(GateMsg)]
  BY <1>1, <1>2
<1>4. ASSUME NEW h \in Gate, NEW i \in DOMAIN gateQ'[h], IsLogin(gateQ'[h][i])
      PROVE /\ gateQ'[h][i].fd \in Conn
            /\ task'[gateQ'[h][i].fd] = "none"
            /\ at[gateQ'[h][i].fd] = h
            /\ \A j \in DOMAIN gateQ'[h] : gateQ'[h][j].fd = gateQ'[h][i].fd => i = j
  <2>1. CASE h # g
    <3>1. gateQ'[h] = gateQ[h]
      BY <1>1, <1>2, <2>1
    <3>2. /\ gateQ[h][i].fd \in Conn
          /\ task[gateQ[h][i].fd] = "none"
          /\ at[gateQ[h][i].fd] = h
          /\ \A j \in DOMAIN gateQ[h] : gateQ[h][j].fd = gateQ[h][i].fd => i = j
      BY <1>4, <3>1 DEF LoginMail
    <3>3. IsLogin(Head(gateQ[g])) => at[Head(gateQ[g]).fd] = g
      BY <1>2 DEF LoginMail
    <3> QED
      BY <2>1, <3>1, <3>2, <3>3
  <2>2. CASE h = g
    <3>1. gateQ'[h] = Tail(gateQ[g])
      BY <1>1, <1>2, <2>2
    <3>2. i + 1 \in DOMAIN gateQ[g] /\ gateQ'[h][i] = gateQ[g][i + 1]
      BY <1>2, <3>1
    <3>3. /\ gateQ[g][i + 1].fd \in Conn
          /\ task[gateQ[g][i + 1].fd] = "none"
          /\ at[gateQ[g][i + 1].fd] = g
          /\ \A j \in DOMAIN gateQ[g] : gateQ[g][j].fd = gateQ[g][i + 1].fd => i + 1 = j
      BY <1>4, <3>2 DEF LoginMail
    <3>4. i \in Nat /\ i # 0
      BY <1>1, <1>2, <3>1
    <3>5. gateQ[g][i + 1].fd # gateQ[g][1].fd
      BY <1>2, <3>3, <3>4
    <3>6. \A j \in DOMAIN gateQ'[h] : gateQ'[h][j].fd = gateQ'[h][i].fd => i = j
      <4> TAKE j \in DOMAIN gateQ'[h]
      <4>1. j + 1 \in DOMAIN gateQ[g] /\ gateQ'[h][j] = gateQ[g][j + 1] /\ j \in Nat
        BY <1>1, <1>2, <3>1
      <4>2. gateQ'[h][j].fd = gateQ'[h][i].fd => i + 1 = j + 1
        BY <3>2, <3>3, <4>1
      <4> QED
        BY <3>4, <4>1, <4>2
    <3> QED
      BY <1>2, <2>2, <3>2, <3>3, <3>5, <3>6
  <2> QED
    BY <2>1, <2>2
<1> QED
  BY <1>3, <1>4 DEF LoginMail, IsLogin

\* A mailbox of a role service keeps its type when messages are sent to it.
LEMMA SendToType ==
  ASSUME NEW q \in [Conn -> Seq(RoleMsg)], NEW l \in Conn, NEW ops \in Seq(RoleMsg)
  PROVE SendTo(q, l, ops) \in [Conn -> Seq(RoleMsg)]
<1>1. q[l] \o ops \in Seq(RoleMsg)
  OBVIOUS
<1> QED
  BY <1>1 DEF SendTo

\* The messages a gate sends to role services are sequences of RoleMsg.
LEMMA RoleSeqs ==
  /\ <<"disconnected">> \in Seq(RoleMsg)
  /\ <<"reconnected">> \in Seq(RoleMsg)
  /\ <<"disconnected", "reconnected">> \in Seq(RoleMsg)
BY DEF RoleMsg

\* The record that a gate holds for a connection's role is one of that role and gate.
LEMMA CurrentRec ==
  ASSUME GateInv, NEW f \in Conn, at[f] # Nil
  PROVE /\ at[f] \in Gate /\ want[f] \in Role
        /\ Current(f) \in Conn \cup {Nil}
        /\ Current(f) # Nil =>
              at[Current(f)] = at[f] /\ want[Current(f)] = want[f]
<1>1. at[f] \in Gate /\ want[f] \in Role
  BY DEF GateInv, TypeOK, NetTypeOK, Handed
<1> QED
  BY <1>1 DEF Current, GateInv, TypeOK, GateTypeOK, Records

\* The socket of a record is attached to it and watched, its gate has taken it, and
\* nobody is closing it.
LEMMA LinkedSock ==
  ASSUME GateInv, NEW l \in Conn, recfd[l] # Nil
  PROVE LET fd == recfd[l]
        IN /\ fd \in Conn /\ sock[fd] = l /\ fd \in hb
           /\ task[fd] \notin {"none", "spawn", "wait", "lost"}
           /\ closer[fd].why = "none"
           /\ at[fd] # Nil
BY DEF GateInv, TypeOK, GateTypeOK, GateTables, Attached, Closing, Records

\* A step of a gate keeps the invariant if it keeps the parts about gates, and if
\* the coroutines it moves are of connections that were handed over.
LEMMA GateFrame ==
  ASSUME GateInv, UNCHANGED <<mgrVars, roleVars, login, live>>,
         NetTypeOK', GateTypeOK', LoginMail', Records', Attached', GateTables',
         Closing', Heirs', Awaited',
         \A f \in Conn :
            task'[f] # task[f] => at[f] # Nil /\ (f \in live => task'[f] \notin {"none", "spawn"})
  PROVE GateInv'
<1> USE DEF GateInv, mgrVars, roleVars, login, tables
<1>1. TypeOK'
  BY DEF TypeOK, MgrTypeOK, RoleTypeOK
<1>2. KnowsRole' /\ Running'
  BY DEF KnowsRole, Running
<1>3. Handed'
  BY DEF Handed, TypeOK, NetTypeOK
<1> QED
  BY <1>1, <1>2, <1>3

\* gate.enter_role begins: the connection's coroutine waits for the launcher.
LEMMA EnterRoleInv ==
  ASSUME GateInv, NEW g \in Gate, EnterRole(g), UNCHANGED <<mgrVars, roleVars>>
  PROVE GateInv'
<1> DEFINE f == Head(gateQ[g]).fd
<1> USE DEF EnterRole, Lose
<1>1. f \in Conn /\ task[f] = "none" /\ at[f] = g /\ sock[f] = Nil /\ closer[f].why = "none"
  BY HeadMail
<1>2. /\ task' \in {[task EXCEPT ![f] = "lost"], [task EXCEPT ![f] = "spawn"]}
      /\ task \in [Conn -> {"none", "spawn", "wait", "start", "read", "failed",
                            "stop", "lost"}]
  BY DEF GateInv, TypeOK, GateTypeOK
<1>3. LoginMail' /\ gateQ' \in [Gate -> Seq(GateMsg)]
  <2>1. IsLogin(Head(gateQ[g]))
    BY DEF Next1, IsLogin
  <2> QED
    BY <1>2, <2>1, PopMail DEF login
<1>4. NetTypeOK' /\ GateTypeOK'
  <2>1. fate' \in [Conn -> {"none", "pending", "answered", "dropped"}]
    BY DEF GateInv, TypeOK, NetTypeOK
  <2> QED
    BY <1>2, <1>3, <2>1 DEF GateInv, TypeOK, NetTypeOK, GateTypeOK, login
<1>5. Records' /\ Attached' /\ GateTables'
  BY <1>1, <1>2 DEF GateInv, Records, Attached, GateTables, login
<1>6. Closing' /\ Heirs' /\ Awaited'
  BY <1>1, <1>2 DEF GateInv, Closing, Heirs, Awaited, login
<1>7. f \notin live
  BY <1>1 DEF GateInv, Handed
<1> QED
  BY <1>1, <1>2, <1>3, <1>4, <1>5, <1>6, <1>7, GateFrame

\* gate.reenter_role of a role that left.
LEMMA RefuseInv ==
  ASSUME GateInv, NEW g \in Gate, Refuse(g), UNCHANGED <<mgrVars, roleVars>>
  PROVE GateInv'
<1> DEFINE f == Head(gateQ[g]).fd
<1> USE DEF Refuse, Lose
<1>1. f \in Conn /\ task[f] = "none" /\ at[f] = g /\ sock[f] = Nil /\ closer[f].why = "none"
  BY HeadMail
<1>2. /\ task' = [task EXCEPT ![f] = "lost"]
      /\ task \in [Conn -> {"none", "spawn", "wait", "start", "read", "failed",
                            "stop", "lost"}]
  BY DEF GateInv, TypeOK, GateTypeOK
<1>3. LoginMail' /\ gateQ' \in [Gate -> Seq(GateMsg)]
  <2>1. IsLogin(Head(gateQ[g]))
    BY DEF Next1, IsLogin
  <2> QED
    BY <1>2, <2>1, PopMail DEF login
<1>4. NetTypeOK' /\ GateTypeOK'
  <2>1. fate' \in [Conn -> {"none", "pending", "answered", "dropped"}]
    BY DEF GateInv, TypeOK, NetTypeOK
  <2> QED
    BY <1>2, <1>3, <2>1 DEF GateInv, TypeOK, NetTypeOK, GateTypeOK, login
<1>5. Records' /\ Attached' /\ GateTables'
  BY <1>1, <1>2 DEF GateInv, Records, Attached, GateTables, login
<1>6. Closing' /\ Heirs' /\ Awaited'
  BY <1>1, <1>2 DEF GateInv, Closing, Heirs, Awaited, login
<1> QED
  BY <1>1, <1>2, <1>3, <1>4, <1>5, <1>6, GateFrame

\* gate.reenter_role of a role without a socket: add_sock attaches the new one.
LEMMA ReenterInv ==
  ASSUME GateInv, NEW g \in Gate, Reenter(g), UNCHANGED <<mgrVars, roleVars>>
  PROVE GateInv'
<1> DEFINE f == Head(gateQ[g]).fd
           l == Current(f)
<1> USE DEF Reenter
<1>1. /\ f \in Conn /\ task[f] = "none" /\ at[f] = g /\ want[f] \in Role
      /\ sock[f] = Nil /\ closer[f].why = "none"
      /\ \A k \in Conn : recfd[k] # f
  BY HeadMail
<1>2. l \in Conn /\ at[l] = g /\ want[l] = want[f] /\ recfd[l] = Nil
  BY <1>1, CurrentRec
<1>3. /\ task' = [task EXCEPT ![f] = "start"]
      /\ recfd' = [recfd EXCEPT ![l] = f]
      /\ sock' = [sock EXCEPT ![f] = l]
      /\ hb' = hb \cup {f}
      /\ UNCHANGED <<conn, login, live, mgrQ, groles, closer>>
  OBVIOUS
<1>4. LoginMail' /\ gateQ' \in [Gate -> Seq(GateMsg)]
  <2>1. IsLogin(Head(gateQ[g]))
    BY DEF Next1, IsLogin
  <2> QED
    BY <1>1, <1>3, <2>1, PopMail DEF login, GateInv, TypeOK, GateTypeOK
<1>5. NetTypeOK'
  <2>1. fate' \in [Conn -> {"none", "pending", "answered", "dropped"}]
    BY DEF GateInv, TypeOK, NetTypeOK
  <2>2. roleQ' \in [Conn -> Seq(RoleMsg)]
    BY <1>2 DEF GateInv, TypeOK, NetTypeOK, SendRole, SendTo, RoleMsg
  <2> QED
    BY <1>3, <1>4, <2>1, <2>2 DEF GateInv, TypeOK, NetTypeOK, login
<1>6. GateTypeOK'
  BY <1>1, <1>2, <1>3 DEF GateInv, TypeOK, GateTypeOK, Grow
<1>7. Records' /\ Attached' /\ GateTables'
  BY <1>1, <1>2, <1>3 DEF GateInv, TypeOK, GateTypeOK, Records, Attached, GateTables, login
<1>8. Closing' /\ Heirs' /\ Awaited'
  BY <1>1, <1>3 DEF GateInv, TypeOK, GateTypeOK, Closing, Heirs, Awaited, login
<1>9. \A e \in Conn : task'[e] # task[e] => e = f
  BY <1>1, <1>3 DEF GateInv, TypeOK, GateTypeOK
<1> QED
  BY <1>1, <1>3, <1>4, <1>5, <1>6, <1>7, <1>8, <1>9, GateFrame DEF GateInv, TypeOK, GateTypeOK

\* gate.reenter_role of a role with a socket: the new one waits for the old, or
\* takes its place at once.
LEMMA TakeOverInv ==
  ASSUME GateInv, NEW g \in Gate, TakeOver(g), UNCHANGED <<mgrVars, roleVars>>
  PROVE GateInv'
<1> DEFINE f   == Head(gateQ[g]).fd
           l   == Current(f)
           old == recfd[l]
<1>1. /\ f \in Conn /\ task[f] = "none" /\ at[f] = g /\ want[f] \in Role
      /\ sock[f] = Nil /\ closer[f].why = "none"
      /\ \A k \in Conn : recfd[k] # f
  BY HeadMail DEF TakeOver
<1>2. l \in Conn /\ at[l] = g /\ want[l] = want[f] /\ old # Nil
  BY <1>1, CurrentRec DEF TakeOver
<1>3. /\ old \in Conn /\ sock[old] = l /\ old \in hb /\ old # f
      /\ task[old] \notin {"none", "spawn", "wait", "lost"}
      /\ closer[old].why = "none"
      /\ at[old] # Nil
  BY <1>1, <1>2, LinkedSock DEF GateInv, Records
<1> DEFINE Later ==
             /\ Waits(old)
             /\ Unlink(l)
             /\ CloseLater(old, "reenter", l, f)
             /\ task' = [task EXCEPT ![f] = "wait"]
             /\ UNCHANGED <<fate, roleQ, check>>
           AtOnce ==
             /\ ~Waits(old)
             /\ recfd' = [recfd EXCEPT ![l] = f]
             /\ sock' = [sock EXCEPT ![old] = Nil, ![f] = l]
             /\ hb' = (hb \ {old}) \cup {f}
             /\ conn' = [conn EXCEPT ![old] = "closed"]
             /\ task' = [task EXCEPT ![old] = "stop", ![f] = "start"]
             /\ fate' = [fate EXCEPT ![f] = "answered"]
             /\ SendRole(l, <<"disconnected", "reconnected">>)
             /\ Grow(g)
             /\ UNCHANGED closer
<1>4. /\ Later \/ AtOnce
      /\ Pop(g) /\ Next1(g, "reenter_role")
      /\ UNCHANGED <<login, live, mgrQ, groles>>
  BY DEF TakeOver
<1>0. old = recfd[l]
  OBVIOUS
<1>5. LoginMail' /\ gateQ' \in [Gate -> Seq(GateMsg)]
  <2>1. IsLogin(Head(gateQ[g]))
    BY <1>4 DEF Next1, IsLogin
  <2> QED
    BY <1>1, <1>3, <1>4, <2>1, PopMail DEF login, GateInv, TypeOK, GateTypeOK
<1> HIDE DEF f, l, old
<1>6. NetTypeOK'
  <2>1. SendTo(roleQ, l, <<"disconnected", "reconnected">>) \in [Conn -> Seq(RoleMsg)]
    BY <1>2, SendToType, RoleSeqs DEF GateInv, TypeOK, NetTypeOK
  <2>2. CASE Later
    BY <1>4, <1>5, <2>2 DEF GateInv, TypeOK, NetTypeOK, login, CloseLater
  <2>3. CASE AtOnce
    BY <1>4, <1>5, <2>1, <2>3 DEF GateInv, TypeOK, NetTypeOK, login, SendRole
  <2> QED
    BY <1>4, <2>2, <2>3
<1>7. GateTypeOK'
  <2>1. CASE Later
    BY <1>0, <1>1, <1>2, <1>3, <1>4, <2>1 DEF GateInv, TypeOK, GateTypeOK, Unlink, CloseLater
  <2>2. CASE AtOnce
    BY <1>0, <1>1, <1>2, <1>3, <1>4, <2>2 DEF GateInv, TypeOK, GateTypeOK, Grow
  <2> QED
    BY <1>4, <2>1, <2>2
<1>8. Records' /\ Attached' /\ GateTables'
  <2>1. CASE Later
    BY <1>0, <1>1, <1>2, <1>3, <1>4, <2>1 DEF GateInv, TypeOK, GateTypeOK, Records, Attached,
       GateTables, login, Unlink
  <2>2. CASE AtOnce
    BY <1>0, <1>1, <1>2, <1>3, <1>4, <2>2 DEF GateInv, TypeOK, GateTypeOK, Records, Attached,
       GateTables, login
  <2> QED
    BY <1>4, <2>1, <2>2
<1>9. Closing' /\ Heirs' /\ Awaited'
  <2>1. CASE Later
    BY <1>0, <1>1, <1>2, <1>3, <1>4, <2>1 DEF GateInv, TypeOK, GateTypeOK, Closing, Heirs,
       Awaited, login, Unlink, CloseLater, Waits
  <2>2. CASE AtOnce
    BY <1>0, <1>1, <1>2, <1>3, <1>4, <2>2 DEF GateInv, TypeOK, GateTypeOK, Closing, Heirs,
       Awaited, login, Waits
  <2> QED
    BY <1>4, <2>1, <2>2
<1>10. \A e \in Conn : task'[e] # task[e] => e = f \/ (e = old /\ task'[e] = "stop")
  BY <1>1, <1>3, <1>4 DEF GateInv, TypeOK, GateTypeOK
<1>11. f \notin live
  BY <1>1 DEF GateInv, Handed
<1> QED
  BY <1>1, <1>3, <1>4, <1>5, <1>6, <1>7, <1>8, <1>9, <1>10, <1>11, GateFrame

\* A record removed and del_role sent: types and records stay right.
LEMMA DelRoleType ==
  ASSUME GateInv, NEW g \in Gate, NEW r \in Role,
         groles' = [groles EXCEPT ![g][r] = Nil], SendMgr("del_role", g, r)
  PROVE /\ groles' \in [Gate -> [Role -> Conn \cup {Nil}]]
        /\ mgrQ' \in Seq(MgrMsg)
        /\ UNCHANGED <<at, want, sock>> => Records'
<1>1. [op |-> "del_role", gate |-> g, role |-> r] \in MgrMsg
  BY DEF MgrMsg
<1>2. mgrQ' \in Seq(MgrMsg)
  BY <1>1 DEF GateInv, TypeOK, NetTypeOK, SendMgr
<1>3. groles' \in [Gate -> [Role -> Conn \cup {Nil}]]
  BY DEF GateInv, TypeOK, GateTypeOK
<1>4. UNCHANGED <<at, want, sock>> => Records'
  BY <1>3 DEF GateInv, TypeOK, GateTypeOK, Records
<1> QED
  BY <1>2, <1>3, <1>4

\* gate.logout: the record goes, now or after its socket is closed.
LEMMA LogoutInv ==
  ASSUME GateInv, NEW g \in Gate, Logout(g), UNCHANGED <<mgrVars, roleVars>>
  PROVE GateInv'
<1> DEFINE r == Head(gateQ[g]).role
           l == groles[g][r]
           Gone == groles' = [groles EXCEPT ![g][r] = Nil] /\ SendMgr("del_role", g, r)
           NoRecord == UNCHANGED <<conn, mgrQ, groles, recfd, sock, hb, task, closer>>
           NoSock == l # Nil /\ recfd[l] = Nil /\ Gone
                     /\ UNCHANGED <<conn, recfd, sock, hb, task, closer>>
           Later == /\ l # Nil /\ recfd[l] # Nil /\ Unlink(l) /\ Waits(recfd[l])
                    /\ CloseLater(recfd[l], "logout", l, Nil)
                    /\ UNCHANGED <<mgrQ, groles, task>>
           AtOnce == /\ l # Nil /\ recfd[l] # Nil /\ Unlink(l) /\ ~Waits(recfd[l])
                     /\ CloseNow(recfd[l])
                     /\ Gone
<1>1. /\ NoRecord \/ NoSock \/ Later \/ AtOnce
      /\ Pop(g) /\ Next1(g, "logout")
      /\ UNCHANGED <<fate, login, live, roleQ, check>>
  BY DEF Logout
<1>2. r \in Role
  <2>1. gateQ[g] \in Seq(GateMsg) /\ gateQ[g] # <<>>
    BY DEF GateInv, TypeOK, NetTypeOK, Logout, Next1
  <2>2. Head(gateQ[g]) \in GateMsg
    BY <2>1
  <2> QED
    BY <2>2 DEF GateMsg
<1>3. l \in Conn \cup {Nil} /\ (l # Nil => at[l] = g)
  <2>1. groles[g] \in [Role -> Conn \cup {Nil}] /\ Records
    BY DEF GateInv, TypeOK, GateTypeOK
  <2> HIDE DEF r
  <2> QED
    BY <1>2, <2>1 DEF Records
<1>4. l # Nil /\ recfd[l] # Nil =>
        /\ recfd[l] \in Conn /\ sock[recfd[l]] = l /\ recfd[l] \in hb
        /\ task[recfd[l]] \notin {"none", "spawn", "wait", "lost"}
        /\ closer[recfd[l]].why = "none"
        /\ at[recfd[l]] # Nil
  <2> HIDE DEF l
  <2> QED
    BY <1>3, LinkedSock
<1>5. LoginMail' /\ gateQ' \in [Gate -> Seq(GateMsg)]
  <2>1. \A f \in Conn : task[f] = "none" => task'[f] = "none"
    BY <1>1, <1>4 DEF CloseNow, GateInv, TypeOK, GateTypeOK
  <2> QED
    BY <1>1, <2>1, PopMail DEF login
<1> HIDE DEF r, l
<1>6. CASE NoRecord
  <2>1. NetTypeOK' /\ GateTypeOK'
    BY <1>1, <1>5, <1>6 DEF GateInv, TypeOK, NetTypeOK, GateTypeOK, login
  <2>2. Records' /\ Attached' /\ GateTables'
    BY <1>1, <1>6 DEF GateInv, Records, Attached, GateTables, login
  <2>3. Closing' /\ Heirs' /\ Awaited'
    BY <1>1, <1>6 DEF GateInv, Closing, Heirs, Awaited, login
  <2> QED
    BY <1>1, <1>5, <1>6, <2>1, <2>2, <2>3, GateFrame
<1>7. CASE NoSock
  <2>0. groles' = [groles EXCEPT ![g][r] = Nil] /\ SendMgr("del_role", g, r)
    BY <1>7
  <2>1. NetTypeOK' /\ GateTypeOK'
    BY <1>1, <1>2, <1>5, <1>7, <2>0, DelRoleType DEF GateInv, TypeOK, NetTypeOK, GateTypeOK, login
  <2>2. Records' /\ Attached' /\ GateTables'
    BY <1>1, <1>2, <1>7, <2>0, DelRoleType DEF GateInv, Attached, GateTables, login
  <2>3. Closing' /\ Heirs' /\ Awaited'
    BY <1>1, <1>7 DEF GateInv, Closing, Heirs, Awaited, login
  <2> QED
    BY <1>1, <1>5, <1>7, <2>1, <2>2, <2>3, GateFrame
<1>8. CASE Later
  <2>1. NetTypeOK'
    BY <1>1, <1>5, <1>8 DEF GateInv, TypeOK, NetTypeOK, login, CloseLater
  <2>2. GateTypeOK'
    BY <1>1, <1>3, <1>4, <1>8 DEF GateInv, TypeOK, GateTypeOK, Unlink, CloseLater
  <2>3. Records' /\ Attached' /\ GateTables'
    BY <1>1, <1>3, <1>4, <1>8 DEF GateInv, TypeOK, GateTypeOK, Records, Attached,
       GateTables, login, Unlink
  <2>4. Closing' /\ Heirs' /\ Awaited'
    BY <1>1, <1>3, <1>4, <1>8 DEF GateInv, TypeOK, GateTypeOK, Closing, Heirs, Awaited,
       login, Unlink, CloseLater, Waits
  <2> QED
    BY <1>1, <1>5, <1>8, <2>1, <2>2, <2>3, <2>4, GateFrame
<1>9. CASE AtOnce
  <2>0. groles' = [groles EXCEPT ![g][r] = Nil] /\ SendMgr("del_role", g, r)
    BY <1>9
  <2>1. NetTypeOK'
    BY <1>1, <1>2, <1>5, <1>9, <2>0, DelRoleType DEF GateInv, TypeOK, NetTypeOK, login, CloseNow
  <2>2. GateTypeOK'
    BY <1>1, <1>2, <1>3, <1>4, <1>9, <2>0, DelRoleType DEF GateInv, TypeOK, GateTypeOK, Unlink,
       CloseNow
  <2>3. Records'
    BY <1>1, <1>2, <1>3, <1>4, <1>9, <2>0, <2>2 DEF GateInv, TypeOK, GateTypeOK, Records,
       login, Unlink
  <2>4. Attached' /\ GateTables'
    BY <1>1, <1>3, <1>4, <1>9 DEF GateInv, TypeOK, GateTypeOK, Attached, GateTables, Unlink, CloseNow
  <2>5. Closing' /\ Heirs' /\ Awaited'
    BY <1>1, <1>3, <1>4, <1>9 DEF GateInv, TypeOK, GateTypeOK, Closing, Heirs, Awaited,
       login, Unlink, CloseNow, Waits
  <2>6. \A f \in Conn : task'[f] # task[f] => at[f] # Nil /\ task'[f] = "stop"
    BY <1>4, <1>9 DEF CloseNow, GateInv, TypeOK, GateTypeOK
  <2> QED
    BY <1>1, <1>5, <2>1, <2>2, <2>3, <2>4, <2>5, <2>6, GateFrame
<1> QED
  BY <1>1, <1>6, <1>7, <1>8, <1>9

\* The launcher could not start the service.
LEMMA LaunchFailsInv ==
  ASSUME GateInv, NEW f \in Conn, LaunchFails(f), UNCHANGED <<mgrVars, roleVars>>
  PROVE GateInv'
<1> USE DEF LaunchFails, Lose, queues
<1>1. task[f] = "spawn" /\ at[f] # Nil /\ f \notin live /\ task' = [task EXCEPT ![f] = "lost"]
  BY DEF GateInv, Handed
<1>2. NetTypeOK' /\ GateTypeOK'
  BY DEF GateInv, TypeOK, NetTypeOK, GateTypeOK, login
<1>3. LoginMail'
  BY <1>1 DEF GateInv, TypeOK, GateTypeOK, LoginMail, IsLogin, login
<1>4. Records' /\ Attached' /\ GateTables'
  BY <1>1 DEF GateInv, TypeOK, GateTypeOK, Records, Attached, GateTables, login
<1>5. Closing' /\ Heirs' /\ Awaited'
  BY <1>1 DEF GateInv, TypeOK, GateTypeOK, Closing, Heirs, Awaited, login
<1> QED
  BY <1>1, <1>2, <1>3, <1>4, <1>5, GateFrame DEF GateInv, TypeOK, GateTypeOK

\* The service is launched: the record of its name is made.
LEMMA LaunchedInv ==
  ASSUME GateInv, NEW f \in Conn, Launched(f), UNCHANGED <<mgrVars, roleVars>>
  PROVE GateInv'
<1> USE DEF Launched
<1>1. /\ task[f] = "spawn" /\ at[f] \in Gate /\ want[f] \in Role
      /\ sock[f] = Nil /\ closer[f].why = "none"
      /\ \A l \in Conn : recfd[l] # f
  <2>1. task[f] = "spawn" /\ at[f] \in Gate /\ want[f] \in Role
    BY DEF GateInv, TypeOK, NetTypeOK, Handed
  <2>2. sock[f] = Nil /\ closer[f].why = "none"
    BY <2>1 DEF GateInv, Attached, Closing
  <2>3. \A l \in Conn : recfd[l] # f
    BY <2>2 DEF GateInv, GateTables
  <2> QED
    BY <2>1, <2>2, <2>3
<1>2. NetTypeOK'
  <2>1. [op |-> "add_role", gate |-> at[f], role |-> want[f]] \in MgrMsg
    BY <1>1 DEF MgrMsg
  <2>2. mgrQ' \in Seq(MgrMsg)
    BY <2>1 DEF GateInv, TypeOK, NetTypeOK, SendMgr
  <2>3. roleQ' \in [Conn -> Seq(RoleMsg)]
    BY DEF GateInv, TypeOK, NetTypeOK, RoleMsg
  <2> QED
    BY <2>2, <2>3 DEF GateInv, TypeOK, NetTypeOK, login
<1>3. GateTypeOK'
  BY <1>1 DEF GateInv, TypeOK, GateTypeOK, Grow
<1>4. TypeOK'
  BY <1>2, <1>3 DEF GateInv, TypeOK, MgrTypeOK, RoleTypeOK, mgrVars, roleVars, tables
<1>5. KnowsRole' /\ Handed' /\ Running'
  BY <1>1 DEF GateInv, TypeOK, NetTypeOK, GateTypeOK, KnowsRole, Handed, Running, login,
     mgrVars, roleVars
<1>6. LoginMail'
  BY <1>1 DEF GateInv, TypeOK, GateTypeOK, LoginMail, IsLogin, login
<1>7. Records'
  BY <1>1 DEF GateInv, TypeOK, GateTypeOK, Records, login
<1>8. Attached' /\ GateTables'
  BY <1>1 DEF GateInv, TypeOK, GateTypeOK, Attached, GateTables
<1>9. Closing' /\ Heirs' /\ Awaited'
  BY <1>1 DEF GateInv, TypeOK, GateTypeOK, Closing, Heirs, Awaited, login
<1> QED
  BY <1>4, <1>5, <1>6, <1>7, <1>8, <1>9 DEF GateInv

\* client_loop starts the socket, or fails to.
LEMMA LoopStartInv ==
  ASSUME GateInv, NEW f \in Conn, LoopStart(f), UNCHANGED <<mgrVars, roleVars>>
  PROVE GateInv'
<1>1. /\ task[f] = "start" /\ at[f] # Nil
      /\ task' = [task EXCEPT ![f] = "read"] \/ task' = [task EXCEPT ![f] = "failed"]
  BY DEF LoopStart, GateInv, Handed
<1>2. UNCHANGED <<fate, login, live, queues, groles, recfd, sock, hb, closer, check>>
  BY DEF LoopStart
<1>3. NetTypeOK' /\ GateTypeOK'
  BY <1>1, <1>2 DEF LoopStart, GateInv, TypeOK, NetTypeOK, GateTypeOK, login, queues
<1>4. LoginMail'
  BY <1>1, <1>2 DEF GateInv, TypeOK, GateTypeOK, LoginMail, IsLogin, login, queues
<1>5. Records' /\ Attached' /\ GateTables'
  BY <1>1, <1>2 DEF GateInv, TypeOK, GateTypeOK, Records, Attached, GateTables, login
<1>6. Closing' /\ Heirs' /\ Awaited'
  BY <1>1, <1>2 DEF GateInv, TypeOK, GateTypeOK, Closing, Heirs, Awaited, login
<1> QED
  BY <1>1, <1>2, <1>3, <1>4, <1>5, <1>6, GateFrame DEF GateInv, TypeOK, GateTypeOK

\* gate.check raises: only its timer is lost.
LEMMA CheckRaisesInv ==
  ASSUME GateInv, NEW f \in Conn, CheckRaises(f), UNCHANGED <<mgrVars, roleVars>>
  PROVE GateInv'
<1> USE DEF CheckRaises, netVars, queues
<1>1. NetTypeOK' /\ GateTypeOK'
  BY DEF GateInv, TypeOK, NetTypeOK, GateTypeOK, login
<1>2. TypeOK' /\ Running'
  BY <1>1 DEF GateInv, TypeOK, MgrTypeOK, RoleTypeOK, mgrVars, roleVars, tables, Running
<1> QED
  BY <1>2, Frame DEF mgrVars, login

\* What del_sock finds when a socket is detached: the role's record and the socket
\* it has now, both of the same gate and role.
LEMMA DetachFacts ==
  ASSUME GateInv, NEW f \in Conn, Detaches(f)
  PROVE LET l  == Current(sock[f])
            fd == recfd[l]
        IN /\ sock[f] \in Conn /\ l \in Conn /\ fd \in Conn /\ sock[fd] = l /\ fd \in hb
           /\ task[fd] \notin {"none", "spawn", "wait", "lost"}
           /\ closer[fd].why = "none"
           /\ at[fd] # Nil /\ at[sock[f]] # Nil
<1>1. sock[f] \in Conn /\ at[sock[f]] # Nil
  BY DEF Detaches, GateInv, TypeOK, GateTypeOK, Records
<1>2. Current(sock[f]) \in Conn
  BY <1>1, CurrentRec DEF Detaches
<1> QED
  BY <1>1, <1>2, LinkedSock DEF Detaches

\* No wait of reenter_role begins or ends.
LEMMA HeirsFrame ==
  ASSUME Heirs, Awaited,
         \A e \in Conn : closer'[e].why = "reenter" => closer'[e] = closer[e],
         \A e \in Conn : closer[e].why = "reenter" => closer'[e] = closer[e],
         \A e \in Conn : task'[e] = "wait" => task[e] = "wait"
  PROVE Heirs' /\ Awaited'
<1>1. Heirs'
  <2> SUFFICES ASSUME NEW d \in Conn, NEW e \in Conn,
                      closer'[d].why = "reenter", closer'[e].why = "reenter",
                      closer'[d].heir = closer'[e].heir
               PROVE d = e
    BY DEF Heirs
  <2>1. closer'[d] = closer[d] /\ closer'[e] = closer[e]
    OBVIOUS
  <2> QED
    BY <2>1 DEF Heirs
<1>2. Awaited'
  <2> SUFFICES ASSUME NEW h \in Conn, task'[h] = "wait"
               PROVE \E e \in Conn : closer'[e].why = "reenter" /\ closer'[e].heir = h
    BY DEF Awaited
  <2>1. PICK e \in Conn : closer[e].why = "reenter" /\ closer[e].heir = h
    BY DEF Awaited
  <2>2. closer'[e] = closer[e]
    BY <2>1
  <2> QED
    BY <2>1, <2>2
<1> QED
  BY <1>1, <1>2

\* A socket is detached from its record l; a handler may go to wait for it, and
\* coroutines of sockets for which no handler waits end.
LEMMA UnlinkInv ==
  ASSUME GateInv, UNCHANGED <<mgrVars, roleVars, login, live, fate, mgrQ, gateQ, groles>>,
         NEW l \in Conn, recfd[l] # Nil, Unlink(l),
         conn' \in [Conn -> {"none", "open", "gone", "closed"}],
         roleQ' \in [Conn -> Seq(RoleMsg)],
         check' \in [Gate -> {"idle", "wait", "grown", "dead"}],
         task' \in [Conn -> {"none", "spawn", "wait", "start", "read", "failed",
                             "stop", "lost"}],
         closer' \in [Conn -> [why : {"none", "check", "loop", "reenter", "logout"},
                               rec : Conn \cup {Nil}, heir : Conn \cup {Nil}]],
         \A e \in Conn : \/ task'[e] = task[e]
                         \/ /\ task'[e] = "stop"
                            /\ task[e] \notin {"none", "spawn", "wait"}
                            /\ closer'[e].why = "none",
         \A e \in Conn : \/ closer'[e] = closer[e]
                         \/ /\ e = recfd[l] /\ task'[e] = "read"
                            /\ closer'[e].why # "reenter"
                            /\ closer'[e].rec \in Conn /\ at[closer'[e].rec] # Nil
  PROVE GateInv'
<1> DEFINE fd == recfd[l]
<1>1. /\ fd \in Conn /\ sock[fd] = l /\ fd \in hb
      /\ task[fd] \notin {"none", "spawn", "wait", "lost"}
      /\ closer[fd].why = "none"
  BY LinkedSock
<1>0. \A e \in Conn :
        /\ task[e] = "none" => task'[e] = "none"
        /\ task'[e] = "wait" => task[e] = "wait"
        /\ closer'[e].why = "reenter" => closer'[e] = closer[e]
        /\ closer[e].why = "reenter" => closer'[e] = closer[e]
  BY <1>1
<1>2. NetTypeOK'
  BY DEF GateInv, TypeOK, NetTypeOK, login
<1>3. GateTypeOK'
  <2>1. /\ recfd' \in [Conn -> Conn \cup {Nil}]
        /\ sock' \in [Conn -> Conn \cup {Nil}]
        /\ hb' \subseteq Conn
    BY <1>1 DEF GateInv, TypeOK, GateTypeOK, Unlink
  <2> QED
    BY <2>1 DEF GateInv, TypeOK, GateTypeOK
<1>4. LoginMail'
  <2>1. LoginMail /\ gateQ' = gateQ /\ at' = at
    BY DEF GateInv, login
  <2> QED
    BY <1>0, <2>1 DEF LoginMail, IsLogin
<1>5. Records'
  BY <1>1 DEF GateInv, TypeOK, GateTypeOK, Records, login, Unlink
<1>6. Attached' /\ GateTables'
  BY <1>1 DEF GateInv, TypeOK, GateTypeOK, Attached, GateTables, Unlink
<1>7. Closing'
  BY <1>1 DEF GateInv, TypeOK, GateTypeOK, Closing, login, Unlink
<1>8. Heirs' /\ Awaited'
  BY <1>0, HeirsFrame DEF GateInv
<1> QED
  BY <1>2, <1>3, <1>4, <1>5, <1>6, <1>7, <1>8, GateFrame DEF GateInv, Handed

\* gate.check detaches a socket whose heartbeat is too old.
LEMMA CheckExpireInv ==
  ASSUME GateInv, NEW f \in Conn, CheckExpire(f), UNCHANGED <<mgrVars, roleVars>>
  PROVE GateInv'
<1> DEFINE l  == Current(sock[f])
           fd == recfd[l]
           Later == /\ Waits(fd)
                    /\ CloseLater(fd, "check", sock[f], Nil)
                    /\ check' = [check EXCEPT ![at[f]] = "wait"]
                    /\ UNCHANGED <<roleQ, task>>
           AtOnce == /\ ~Waits(fd)
                     /\ CloseNow(fd)
                     /\ SendRole(sock[f], <<"disconnected">>)
                     /\ UNCHANGED check
<1>1. /\ Detaches(f) /\ Unlink(l) /\ (Later \/ AtOnce)
      /\ UNCHANGED <<fate, login, live, mgrQ, gateQ, groles>>
  BY DEF CheckExpire
<1>2. /\ sock[f] \in Conn /\ at[sock[f]] # Nil /\ l \in Conn /\ fd \in Conn
      /\ task[fd] \notin {"none", "spawn", "wait", "lost"}
      /\ closer[fd].why = "none"
      /\ recfd[l] # Nil
  BY <1>1, DetachFacts DEF Detaches
<1>3. fd = recfd[l]
  OBVIOUS
<1> HIDE DEF l, fd
<1>4. CASE Later
  <2>1. /\ conn' \in [Conn -> {"none", "open", "gone", "closed"}]
        /\ roleQ' \in [Conn -> Seq(RoleMsg)]
        /\ check' \in [Gate -> {"idle", "wait", "grown", "dead"}]
    BY <1>4 DEF GateInv, TypeOK, NetTypeOK, GateTypeOK, CloseLater
  <2>2. closer' \in [Conn -> [why : {"none", "check", "loop", "reenter", "logout"},
                              rec : Conn \cup {Nil}, heir : Conn \cup {Nil}]]
    BY <1>2, <1>4 DEF GateInv, TypeOK, GateTypeOK, CloseLater
  <2>3. \A e \in Conn : \/ closer'[e] = closer[e]
                        \/ /\ e = fd /\ task'[e] = "read"
                           /\ closer'[e].why # "reenter"
                           /\ closer'[e].rec \in Conn /\ at[closer'[e].rec] # Nil
    BY <1>2, <1>4 DEF GateInv, TypeOK, GateTypeOK, CloseLater, Waits
  <2>4. task' \in [Conn -> {"none", "spawn", "wait", "start", "read", "failed",
                            "stop", "lost"}]
    BY <1>4 DEF GateInv, TypeOK, GateTypeOK
  <2> QED
    BY <1>1, <1>2, <1>3, <1>4, <2>1, <2>2, <2>3, <2>4, UnlinkInv
<1>5. CASE AtOnce
  <2>1. /\ conn' \in [Conn -> {"none", "open", "gone", "closed"}]
        /\ check' \in [Gate -> {"idle", "wait", "grown", "dead"}]
        /\ closer' = closer
        /\ closer \in [Conn -> [why : {"none", "check", "loop", "reenter", "logout"},
                                rec : Conn \cup {Nil}, heir : Conn \cup {Nil}]]
    BY <1>5 DEF GateInv, TypeOK, NetTypeOK, GateTypeOK, CloseNow
  <2>2. roleQ' \in [Conn -> Seq(RoleMsg)]
    BY <1>2, <1>5, SendToType, RoleSeqs DEF GateInv, TypeOK, NetTypeOK, SendRole
  <2>3. task' \in [Conn -> {"none", "spawn", "wait", "start", "read", "failed",
                            "stop", "lost"}]
    BY <1>5 DEF GateInv, TypeOK, GateTypeOK, CloseNow
  <2>4. \A e \in Conn : \/ task'[e] = task[e]
                        \/ /\ task'[e] = "stop"
                           /\ task[e] \notin {"none", "spawn", "wait"}
                           /\ closer'[e].why = "none"
    BY <1>2, <1>5, <2>1 DEF GateInv, TypeOK, GateTypeOK, CloseNow
  <2> QED
    BY <1>1, <1>2, <2>1, <2>2, <2>3, <2>4, UnlinkInv
<1> QED
  BY <1>1, <1>4, <1>5

\* client_loop sees the end of its socket and detaches the socket its role has now.
LEMMA ClosedByPeerInv ==
  ASSUME GateInv, NEW f \in Conn, ClosedByPeer(f), UNCHANGED <<mgrVars, roleVars>>
  PROVE GateInv'
<1> DEFINE l  == Current(sock[f])
           fd == recfd[l]
           Ignore == /\ task' = [task EXCEPT ![f] = "stop"]
                     /\ UNCHANGED <<conn, roleQ, recfd, sock, hb, closer>>
           Own == /\ fd = f
                  /\ CloseNow(f)
                  /\ SendRole(sock[f], <<"disconnected">>)
           Later == /\ fd # f /\ Waits(fd)
                    /\ CloseLater(fd, "loop", sock[f], Nil)
                    /\ task' = [task EXCEPT ![f] = "stop"]
                    /\ UNCHANGED roleQ
           AtOnce == /\ fd # f /\ ~Waits(fd)
                     /\ conn' = [conn EXCEPT ![fd] = "closed"]
                     /\ task' = [task EXCEPT ![f] = "stop", ![fd] = "stop"]
                     /\ SendRole(sock[f], <<"disconnected">>)
                     /\ UNCHANGED closer
<1>1. /\ task[f] = "read" /\ closer[f].why = "none" /\ at[f] # Nil
      /\ UNCHANGED <<fate, login, live, mgrQ, gateQ, groles, check>>
      /\ Ignore \/ (Detaches(f) /\ Unlink(l) /\ (Own \/ Later \/ AtOnce))
  BY DEF ClosedByPeer, GateInv, Handed
<1>2. CASE Ignore
  <2>1. NetTypeOK' /\ GateTypeOK'
    BY <1>1, <1>2 DEF GateInv, TypeOK, NetTypeOK, GateTypeOK, login
  <2>2. \A e \in Conn : task'[e] = task[e] \/ (e = f /\ task'[e] = "stop")
    BY <1>2 DEF GateInv, TypeOK, GateTypeOK
  <2>3. LoginMail'
    BY <1>1, <1>2, <2>2 DEF GateInv, LoginMail, IsLogin, login
  <2>4. Records' /\ Attached' /\ GateTables'
    BY <1>1, <1>2, <2>2 DEF GateInv, Records, Attached, GateTables, login
  <2>5. Closing' /\ Heirs' /\ Awaited'
    BY <1>1, <1>2, <2>2 DEF GateInv, Closing, Heirs, Awaited, login
  <2> QED
    BY <1>1, <2>1, <2>2, <2>3, <2>4, <2>5, GateFrame
<1>3. CASE Detaches(f) /\ Unlink(l) /\ (Own \/ Later \/ AtOnce)
  <2>1. /\ sock[f] \in Conn /\ at[sock[f]] # Nil /\ l \in Conn /\ fd \in Conn
        /\ task[fd] \notin {"none", "spawn", "wait", "lost"}
        /\ closer[fd].why = "none"
        /\ recfd[l] # Nil
    BY <1>3, DetachFacts DEF Detaches
  <2>2. fd = recfd[l]
    OBVIOUS
  <2>3. /\ check' \in [Gate -> {"idle", "wait", "grown", "dead"}]
        /\ closer \in [Conn -> [why : {"none", "check", "loop", "reenter", "logout"},
                                rec : Conn \cup {Nil}, heir : Conn \cup {Nil}]]
        /\ task \in [Conn -> {"none", "spawn", "wait", "start", "read", "failed",
                              "stop", "lost"}]
        /\ conn \in [Conn -> {"none", "open", "gone", "closed"}]
        /\ roleQ \in [Conn -> Seq(RoleMsg)]
    BY <1>1 DEF GateInv, TypeOK, NetTypeOK, GateTypeOK
  <2>4. SendTo(roleQ, sock[f], <<"disconnected">>) \in [Conn -> Seq(RoleMsg)]
    BY <2>1, <2>3, SendToType, RoleSeqs
  <2> HIDE DEF l, fd
  <2>5. CASE Later
    <3>1. /\ conn' = conn /\ roleQ' = roleQ
          /\ task' = [task EXCEPT ![f] = "stop"]
          /\ closer' = [closer EXCEPT ![fd] = [why |-> "loop", rec |-> sock[f], heir |-> Nil]]
      BY <2>5 DEF CloseLater
    <3>2. task' \in [Conn -> {"none", "spawn", "wait", "start", "read", "failed",
                              "stop", "lost"}]
      BY <2>3, <3>1
    <3>3. closer' \in [Conn -> [why : {"none", "check", "loop", "reenter", "logout"},
                                rec : Conn \cup {Nil}, heir : Conn \cup {Nil}]]
      BY <2>1, <2>3, <3>1
    <3>4. \A e \in Conn : \/ task'[e] = task[e]
                          \/ /\ task'[e] = "stop"
                             /\ task[e] \notin {"none", "spawn", "wait"}
                             /\ closer'[e].why = "none"
      BY <1>1, <2>3, <2>5, <3>1
    <3>5. \A e \in Conn : \/ closer'[e] = closer[e]
                          \/ /\ e = fd /\ task'[e] = "read"
                             /\ closer'[e].why # "reenter"
                             /\ closer'[e].rec \in Conn /\ at[closer'[e].rec] # Nil
      BY <2>1, <2>3, <2>5, <3>1 DEF Waits
    <3> QED
      BY <1>1, <1>3, <2>1, <2>2, <2>3, <3>1, <3>2, <3>3, <3>4, <3>5, UnlinkInv
  <2>6. CASE Own \/ AtOnce
    <3>1. /\ conn' \in [Conn -> {"none", "open", "gone", "closed"}]
          /\ roleQ' \in [Conn -> Seq(RoleMsg)]
          /\ closer' = closer
      BY <2>3, <2>4, <2>6 DEF CloseNow, SendRole
    <3>2. task' \in [Conn -> {"none", "spawn", "wait", "start", "read", "failed",
                              "stop", "lost"}]
      BY <2>3, <2>6 DEF CloseNow
    <3>3. \A e \in Conn : \/ task'[e] = task[e]
                          \/ /\ task'[e] = "stop"
                             /\ task[e] \notin {"none", "spawn", "wait"}
                             /\ closer'[e].why = "none"
      BY <1>1, <2>1, <2>3, <2>6, <3>1 DEF CloseNow
    <3> QED
      BY <1>1, <1>3, <2>1, <2>2, <2>3, <3>1, <3>2, <3>3, UnlinkInv
  <2> QED
    BY <1>3, <2>5, <2>6
<1> QED
  BY <1>1, <1>2, <1>3

\* The end of a wait that concerns no other socket.
LEMMA ClosedInv ==
  ASSUME GateInv, UNCHANGED <<mgrVars, roleVars, login, live, fate, gateQ, recfd, sock>>,
         NEW f \in Conn, NEW why \in {"check", "loop", "logout"}, Closed(f, why),
         LateHeartbeat(f, hb), task' = [task EXCEPT ![f] = "stop"],
         mgrQ' \in Seq(MgrMsg),
         roleQ' \in [Conn -> Seq(RoleMsg)],
         check' \in [Gate -> {"idle", "wait", "grown", "dead"}],
         groles' \in [Gate -> [Role -> Conn \cup {Nil}]],
         Records'
  PROVE GateInv'
<1>1. task[f] = "read" /\ sock[f] = Nil /\ closer[f].why = why /\ at[f] # Nil
  BY DEF Closed, GateInv, Closing, Handed
<1>2. closer' = [closer EXCEPT ![f] = NoCloser] /\ conn' = [conn EXCEPT ![f] = "closed"]
  BY DEF Closed
<1>3. NetTypeOK'
  BY <1>2 DEF GateInv, TypeOK, NetTypeOK, login
<1>4. GateTypeOK'
  BY <1>2 DEF GateInv, TypeOK, GateTypeOK, LateHeartbeat, NoCloser
<1>5. \A e \in Conn : task'[e] = IF e = f THEN "stop" ELSE task[e]
  BY DEF GateInv, TypeOK, GateTypeOK
<1>6. \A e \in Conn : closer'[e] = IF e = f THEN NoCloser ELSE closer[e]
  BY <1>2 DEF GateInv, TypeOK, GateTypeOK
<1>7. LoginMail'
  <2>1. LoginMail /\ gateQ' = gateQ /\ at' = at
    BY DEF GateInv, login
  <2> QED
    BY <1>1, <1>5, <2>1 DEF LoginMail, IsLogin
<1>8. Attached' /\ GateTables'
  BY <1>1, <1>5 DEF GateInv, Attached, GateTables, LateHeartbeat
<1>9. Closing'
  BY <1>1, <1>5, <1>6 DEF GateInv, Closing, NoCloser, login
<1>10. Heirs' /\ Awaited'
  <2>1. NoCloser.why # "reenter" /\ closer[f].why # "reenter"
    BY <1>1 DEF NoCloser
  <2> QED
    BY <1>5, <1>6, <2>1, HeirsFrame DEF GateInv
<1> QED
  BY <1>1, <1>3, <1>4, <1>5, <1>7, <1>8, <1>9, <1>10, GateFrame

\* network_disconnected goes on after the socket is closed.
LEMMA CloseDoneInv ==
  ASSUME GateInv, NEW f \in Conn, CloseDoneLoop(f) \/ CloseDoneCheck(f),
         UNCHANGED <<mgrVars, roleVars>>
  PROVE GateInv'
<1>1. PICK why \in {"check", "loop"} : Closed(f, why)
  BY DEF CloseDoneLoop, CloseDoneCheck
<1>2. /\ LateHeartbeat(f, hb) /\ task' = [task EXCEPT ![f] = "stop"]
      /\ SendRole(closer[f].rec, <<"disconnected">>)
      /\ UNCHANGED <<fate, login, live, mgrQ, gateQ, groles, recfd, sock>>
  BY DEF CloseDoneLoop, CloseDoneCheck
<1>3. closer[f].rec \in Conn
  BY <1>1 DEF Closed, GateInv, Closing
<1>4. roleQ' \in [Conn -> Seq(RoleMsg)]
  BY <1>2, <1>3, SendToType, RoleSeqs DEF GateInv, TypeOK, NetTypeOK, SendRole
<1>5. check' \in [Gate -> {"idle", "wait", "grown", "dead"}]
  BY DEF CloseDoneLoop, CloseDoneCheck, GateInv, TypeOK, GateTypeOK
<1>6. mgrQ' \in Seq(MgrMsg) /\ groles' \in [Gate -> [Role -> Conn \cup {Nil}]] /\ Records'
  BY <1>2 DEF GateInv, TypeOK, NetTypeOK, GateTypeOK, Records, login
<1> QED
  BY <1>1, <1>2, <1>4, <1>5, <1>6, ClosedInv

\* gate.logout goes on after the socket is closed.
LEMMA CloseDoneLogoutInv ==
  ASSUME GateInv, NEW f \in Conn, CloseDoneLogout(f), UNCHANGED <<mgrVars, roleVars>>
  PROVE GateInv'
<1> DEFINE l == closer[f].rec
<1>1. /\ Closed(f, "logout") /\ LateHeartbeat(f, hb) /\ task' = [task EXCEPT ![f] = "stop"]
      /\ groles' = [groles EXCEPT ![at[l]][want[l]] = Nil]
      /\ SendMgr("del_role", at[l], want[l])
      /\ UNCHANGED <<fate, login, live, gateQ, roleQ, recfd, sock, check>>
  BY DEF CloseDoneLogout
<1>2. l \in Conn /\ at[l] \in Gate /\ want[l] \in Role
  <2>1. l \in Conn /\ at[l] # Nil
    BY <1>1 DEF Closed, GateInv, Closing
  <2> HIDE DEF l
  <2> QED
    BY <2>1 DEF GateInv, Handed, TypeOK, NetTypeOK
<1> HIDE DEF l
<1>3. /\ mgrQ' \in Seq(MgrMsg)
      /\ groles' \in [Gate -> [Role -> Conn \cup {Nil}]]
      /\ Records'
  BY <1>1, <1>2, DelRoleType DEF login
<1>4. /\ roleQ' \in [Conn -> Seq(RoleMsg)]
      /\ check' \in [Gate -> {"idle", "wait", "grown", "dead"}]
  BY <1>1 DEF GateInv, TypeOK, NetTypeOK, GateTypeOK
<1> QED
  BY <1>1, <1>3, <1>4, ClosedInv

\* gate.reenter_role goes on after the old socket is closed: the heir is attached,
\* or lost when the role has left.
LEMMA CloseDoneReenterInv ==
  ASSUME GateInv, NEW f \in Conn, CloseDoneReenter(f), UNCHANGED <<mgrVars, roleVars>>
  PROVE GateInv'
<1> DEFINE h == closer[f].heir
           l == Current(h)
           q == SendTo(roleQ, closer[f].rec, <<"disconnected">>)
           Fails == /\ l = Nil
                    /\ LateHeartbeat(f, hb)
                    /\ task' = [task EXCEPT ![f] = "stop", ![h] = "lost"]
                    /\ fate' = [fate EXCEPT ![h] = "dropped"]
                    /\ roleQ' = q
                    /\ UNCHANGED <<recfd, sock, check>>
           Adds == /\ l # Nil
                   /\ recfd' = [recfd EXCEPT ![l] = h]
                   /\ sock' = [sock EXCEPT ![h] = l]
                   /\ LateHeartbeat(f, hb \cup {h})
                   /\ Grow(at[h])
                   /\ task' = [task EXCEPT ![f] = "stop", ![h] = "start"]
                   /\ fate' = [fate EXCEPT ![h] = "answered"]
                   /\ roleQ' = SendTo(q, l, <<"reconnected">>)
<1>1. /\ Fails \/ Adds
      /\ closer[f].why = "reenter"
      /\ closer' = [closer EXCEPT ![f] = NoCloser]
      /\ conn' = [conn EXCEPT ![f] = "closed"]
      /\ UNCHANGED <<login, live, mgrQ, gateQ, groles>>
  BY DEF CloseDoneReenter, Closed
<1>2. /\ task[f] = "read" /\ sock[f] = Nil /\ at[f] # Nil /\ closer[f].rec \in Conn
      /\ h \in Conn /\ task[h] = "wait" /\ h # f
  BY <1>1 DEF GateInv, Closing, Handed
<1>3. at[h] # Nil /\ sock[h] = Nil /\ closer[h].why = "none"
  <2>1. at[h] # Nil
    BY <1>2 DEF GateInv, Handed
  <2>2. sock[h] = Nil /\ closer[h].why = "none"
    BY <1>2 DEF GateInv, Attached, Closing
  <2> QED
    BY <1>2, <2>1, <2>2
<1>4. l \in Conn \cup {Nil} /\ (l # Nil => at[l] = at[h] /\ want[l] = want[h])
  BY <1>2, <1>3, CurrentRec
<1>5. \A k \in Conn : recfd[k] # f /\ recfd[k] # h
  BY <1>2, <1>3 DEF GateInv, GateTables
<1>6. q \in [Conn -> Seq(RoleMsg)]
  BY <1>2, SendToType, RoleSeqs DEF GateInv, TypeOK, NetTypeOK
<1>7. l # Nil => SendTo(q, l, <<"reconnected">>) \in [Conn -> Seq(RoleMsg)]
  BY <1>4, <1>6, SendToType, RoleSeqs
<1> HIDE DEF h, l, q
<1>8. NetTypeOK'
  BY <1>1, <1>6, <1>7 DEF GateInv, TypeOK, NetTypeOK, login
<1>9. GateTypeOK'
  <2>1. closer' \in [Conn -> [why : {"none", "check", "loop", "reenter", "logout"},
                              rec : Conn \cup {Nil}, heir : Conn \cup {Nil}]]
    BY <1>1 DEF GateInv, TypeOK, GateTypeOK, NoCloser
  <2>2. CASE Fails
    BY <1>1, <2>1, <2>2 DEF GateInv, TypeOK, GateTypeOK, LateHeartbeat
  <2>3. CASE Adds
    BY <1>1, <1>2, <1>4, <2>1, <2>3 DEF GateInv, TypeOK, GateTypeOK, LateHeartbeat, Grow
  <2> QED
    BY <1>1, <2>2, <2>3
<1>10. \A e \in Conn : closer'[e] = IF e = f THEN NoCloser ELSE closer[e]
  BY <1>1 DEF GateInv, TypeOK, GateTypeOK
<1>11. \A e \in Conn : /\ e \notin {f, h} => task'[e] = task[e]
                       /\ task'[f] = "stop" /\ task'[h] \in {"lost", "start"}
  BY <1>1, <1>2 DEF GateInv, TypeOK, GateTypeOK
<1>12. LoginMail'
  <2>1. LoginMail /\ gateQ' = gateQ /\ at' = at
    BY <1>1 DEF GateInv, login
  <2> QED
    BY <1>2, <1>11, <2>1 DEF LoginMail, IsLogin
<1>13. Records' /\ Attached' /\ GateTables'
  <2>1. CASE Fails
    BY <1>1, <1>2, <1>3, <1>5, <1>11, <2>1 DEF GateInv, Records, Attached, GateTables,
       LateHeartbeat, login
  <2>2. CASE Adds
    BY <1>1, <1>2, <1>3, <1>4, <1>5, <2>2 DEF GateInv, TypeOK, GateTypeOK, Records,
       Attached, GateTables, LateHeartbeat, login
  <2> QED
    BY <1>1, <2>1, <2>2
<1>14. h = closer[f].heir
  BY DEF h
<1>15. \A e \in Conn : closer'[e].why = "reenter" =>
          e # f /\ closer'[e] = closer[e] /\ closer[e].heir # h
  BY <1>1, <1>10, <1>14 DEF GateInv, Heirs, NoCloser
<1>16. Closing'
  <2>1. \A e \in Conn : closer'[e].why # "none" =>
          e # f /\ e # h /\ closer'[e] = closer[e] /\ sock'[e] = sock[e]
    BY <1>1, <1>3, <1>10 DEF NoCloser, GateInv, TypeOK, GateTypeOK
  <2> QED
    BY <1>1, <1>11, <1>15, <2>1 DEF GateInv, Closing, login
<1>17. Heirs'
  BY <1>15 DEF GateInv, Heirs
<1>18. Awaited'
  BY <1>10, <1>11, <1>14 DEF GateInv, Awaited
<1> QED
  BY <1>1, <1>2, <1>3, <1>8, <1>9, <1>11, <1>12, <1>13, <1>16, <1>17, <1>18, GateFrame

-----------------------------------------------------------------------------
(* Every step keeps the invariant.                                          *)

\* Every step of the session keeps the invariant.
LEMMA NextInv == GateInv /\ [Next]_vars => GateInv'
<1> SUFFICES ASSUME GateInv, [Next]_vars PROVE GateInv'
  OBVIOUS
<1>1. CASE ClientStep
  <2>1. ASSUME NEW f \in Conn, Accept(f), UNCHANGED <<gateVars, roleVars>> PROVE GateInv'
    BY <2>1, AcceptInv
  <2>2. ASSUME NEW f \in Conn, RejectAuth(f), UNCHANGED <<gateVars, roleVars>> PROVE GateInv'
    BY <2>2, GiveUpInv DEF RejectAuth
  <2>3. ASSUME NEW f \in Conn, NEW r \in Asked, RecvAuth(f, r),
               UNCHANGED <<gateVars, roleVars>>
        PROVE GateInv'
    BY <2>3, RecvAuthInv
  <2>4. ASSUME NEW f \in Conn, ClientClose(f), UNCHANGED <<mgrVars, gateVars, roleVars>>
        PROVE GateInv'
    <3>1. TypeOK' /\ Running'
      BY <2>4 DEF ClientClose, GateInv, TypeOK, NetTypeOK, MgrTypeOK, GateTypeOK, RoleTypeOK,
         Running, login, queues, mgrVars, tables, gateVars, roleVars
    <3> QED
      BY <2>4, <3>1, Frame DEF ClientClose, login, queues, mgrVars, gateVars
  <2> QED
    BY <1>1, <2>1, <2>2, <2>3, <2>4 DEF ClientStep
<1>2. CASE MgrStep
  <2>1. UNCHANGED <<gateVars, roleVars>>
    BY <1>2 DEF MgrStep
  <2>2. ASSUME NEW f \in Conn, AccountDone(f) \/ InsertDone(f) \/ ReadDone(f) PROVE GateInv'
    BY <2>1, <2>2, AnswerInv
  <2>3. ASSUME NEW f \in Conn, MaxDone(f) PROVE GateInv'
    BY <2>1, <2>3, MaxDoneInv
  <2>4. ASSUME NEW f \in Conn, DbFails(f) PROVE GateInv'
    BY <2>1, <2>4, GiveUpInv DEF DbFails
  <2>5. ASSUME NEW f \in Conn, ApplyGate(f) PROVE GateInv'
    BY <2>1, <2>5, ApplyGateInv
  <2>6. CASE AddRole \/ DelRole
    BY <2>1, <2>6, TableInv
  <2> QED
    BY <1>2, <2>2, <2>3, <2>4, <2>5, <2>6 DEF MgrStep
<1>3. CASE GateStep
  <2>1. UNCHANGED <<mgrVars, roleVars>>
    BY <1>3 DEF GateStep
  <2>2. ASSUME NEW g \in Gate, GateHandle(g) PROVE GateInv'
    BY <2>1, <2>2, EnterRoleInv, RefuseInv, ReenterInv, TakeOverInv, LogoutInv DEF GateHandle
  <2>3. ASSUME NEW f \in Conn, GateResume(f) PROVE GateInv'
    BY <2>1, <2>3, LaunchFailsInv, LaunchedInv, LoopStartInv, CheckExpireInv,
       CheckRaisesInv, ClosedByPeerInv, CloseDoneInv, CloseDoneReenterInv,
       CloseDoneLogoutInv DEF GateResume
  <2> QED
    BY <1>3, <2>2, <2>3 DEF GateStep
<1>4. CASE RoleStep
  BY <1>4, RoleHandleInv, RoleInv DEF RoleStep
<1>5. CASE UNCHANGED vars
  <2>1. TypeOK' /\ Running'
    BY <1>5 DEF vars, netVars, GateInv, TypeOK, NetTypeOK, MgrTypeOK, GateTypeOK, RoleTypeOK,
       Running, login, queues, mgrVars, tables, gateVars, roleVars
  <2> QED
    BY <1>5, <2>1, Frame DEF vars, netVars, login, queues, mgrVars, gateVars
<1> QED
  BY <1>1, <1>2, <1>3, <1>4, <1>5 DEF Next

\* The invariant holds in every reachable state, for any number of connections,
\* gates and roles.
THEOREM Invariant == Spec => []GateInv
BY InitInv, NextInv, PTL DEF Spec

\* Every variable of the session keeps its type: no handler, in no order, puts a
\* stray value in a table or a mailbox of gatemgr, gate or role.
THEOREM TypeCorrect == Spec => []TypeOK
<1>1. GateInv => TypeOK
  BY DEF GateInv
<1> QED
  BY <1>1, Invariant, PTL

\* gate.lua's three tables agree about every socket that a record has.
THEOREM TablesAgree == Spec => []GateTables
<1>1. GateInv => GateTables
  BY DEF GateInv
<1> QED
  BY <1>1, Invariant, PTL

\* The assertion of socket.close, that nobody else closes the socket, holds for
\* every interleaving of a gate's handlers.
THEOREM NeverClosedTwice == Spec => []CloseOnce
<1>1. GateInv => CloseOnce
  BY DEF GateInv, CloseOnce, Closing, GateTables
<1> QED
  BY <1>1, Invariant, PTL

\* A client that takes over a role is served by exactly one handler, the one that
\* waits for the older socket.
THEOREM TakeOverServed == Spec => []OneHeir
<1>1. ASSUME GateInv PROVE OneHeir
  <2> SUFFICES ASSUME NEW h \in Conn
               PROVE LET before == {f \in Conn : closer[f].why = "reenter"
                                                   /\ closer[f].heir = h}
                     IN IF task[h] = "wait" THEN \E f \in Conn : before = {f}
                                            ELSE before = {}
    BY DEF OneHeir
  <2> DEFINE before == {f \in Conn : closer[f].why = "reenter" /\ closer[f].heir = h}
  <2>1. CASE task[h] = "wait"
    <3>1. PICK f \in Conn : closer[f].why = "reenter" /\ closer[f].heir = h
      BY <1>1, <2>1 DEF GateInv, Awaited
    <3>2. before = {f}
      BY <1>1, <3>1 DEF GateInv, Heirs
    <3> QED
      BY <2>1, <3>2
  <2>2. CASE task[h] # "wait"
    <3>1. before = {}
      BY <1>1, <2>2 DEF GateInv, Closing
    <3> QED
      BY <2>2, <3>1
  <2> QED
    BY <2>1, <2>2
<1> QED
  BY <1>1, Invariant, PTL

\* Gates and role services never change a login.
LEMMA LoginKept == GateStep \/ RoleStep => UNCHANGED login
<1>1. ASSUME NEW g \in Gate, GateHandle(g) PROVE UNCHANGED login
  BY <1>1 DEF GateHandle, EnterRole, Refuse, Reenter, TakeOver, Logout
<1>2. ASSUME NEW f \in Conn, GateResume(f) PROVE UNCHANGED login
  BY <1>2 DEF GateResume, LaunchFails, Launched, LoopStart, CheckExpire, CheckRaises,
     ClosedByPeer, CloseDoneLoop, CloseDoneCheck, CloseDoneReenter, CloseDoneLogout, netVars
<1>3. ASSUME NEW l \in Conn, RoleHandle(l) \/ RoleResume(l) \/ SaveDue(l) \/ StopDue(l)
      PROVE UNCHANGED login
  BY <1>3 DEF RoleHandle, RoleResume, Connected, Reconnected, Disconnected, LoginSaved,
     SaveDone, StopSaved, SaveDue, StopDue, Leave, NextFor, netVars
<1> QED
  BY <1>1, <1>2, <1>3 DEF GateStep, RoleStep

\* The steps that may touch what NewRoleStored is about are gatemgr's; the id of
\* a new role is in t_role from the INSERT on.
LEMMA NewRoleInv ==
  ASSUME GateInv, NewRoleStored, NewRoleOnce, [Next]_vars
  PROVE NewRoleStored' /\ NewRoleOnce'
<1> USE DEF NewRoleStored, NewRoleOnce
<1>1. TypeOK
  BY DEF GateInv
<1>2. CASE UNCHANGED <<auth, rows, want, data>>
  BY <1>2
<1>3. ASSUME NEW f \in Conn, Accept(f) \/ GiveUp(f) \/ ApplyGate(f)
      PROVE NewRoleStored' /\ NewRoleOnce'
  BY <1>1, <1>3 DEF Accept, GiveUp, ApplyGate, Goto, TypeOK, MgrTypeOK, login, tables
<1>4. ASSUME NEW f \in Conn, NEW r \in Asked, RecvAuth(f, r)
      PROVE NewRoleStored' /\ NewRoleOnce'
  BY <1>1, <1>4 DEF RecvAuth, Goto, TypeOK, NetTypeOK, MgrTypeOK, tables
<1>5. ASSUME NEW f \in Conn, AccountDone(f) \/ MaxDone(f) \/ ReadDone(f)
      PROVE NewRoleStored' /\ NewRoleOnce'
  <2>1. CASE AccountDone(f)
    <3>1. \A e \in Conn : data'[e] = "new" => data[e] = "new" /\ e # f
      BY <1>1, <2>1 DEF AccountDone, TypeOK, NetTypeOK
    <3>2. \A e \in Conn : e # f => auth'[e] = auth[e]
      BY <1>1, <2>1 DEF AccountDone, Goto, TypeOK, MgrTypeOK
    <3>3. UNCHANGED <<rows, want>>
      BY <2>1 DEF AccountDone
    <3> QED
      BY <3>1, <3>2, <3>3
  <2>2. CASE MaxDone(f)
    BY <1>1, <2>2 DEF MaxDone, Goto, TypeOK, NetTypeOK, MgrTypeOK, tables
  <2>3. CASE ReadDone(f)
    BY <1>1, <2>3 DEF ReadDone, Goto, TypeOK, NetTypeOK, MgrTypeOK, tables
  <2> QED
    BY <1>5, <2>1, <2>2, <2>3
<1>6. ASSUME NEW f \in Conn, InsertDone(f)
      PROVE NewRoleStored' /\ NewRoleOnce'
  BY <1>1, <1>6 DEF InsertDone, Goto, TypeOK, NetTypeOK, MgrTypeOK, tables
<1>7. CASE ClientStep
  BY <1>2, <1>3, <1>4, <1>7 DEF ClientStep, RejectAuth, ClientClose, mgrVars, login, tables
<1>8. CASE MgrStep
  BY <1>2, <1>3, <1>5, <1>6, <1>8 DEF MgrStep, DbFails, AddRole, DelRole, login, tables
<1>9. CASE GateStep
  BY <1>2, <1>9, LoginKept DEF GateStep, mgrVars, login
<1>10. CASE RoleStep
  BY <1>2, <1>10, LoginKept DEF RoleStep, mgrVars, login
<1>11. CASE UNCHANGED vars
  BY <1>2, <1>11 DEF vars, netVars, mgrVars, login
<1> QED
  BY <1>7, <1>8, <1>9, <1>10, <1>11 DEF Next

\* No two clients are given the same new role, whatever db.max answered: the id is
\* the client's only if db.write_new could insert it.
THEOREM NewRolesDistinct == Spec => []NewRoleOnce
<1>1. Init => NewRoleStored /\ NewRoleOnce
  BY DEF Init, NetInit, NewRoleStored, NewRoleOnce
<1> QED
  BY <1>1, Invariant, NewRoleInv, PTL DEF Spec
=============================================================================
