--------------------------- MODULE GatemgrService ---------------------------
(***************************************************************************)
(* src/game/world/gatemgr.lua: it accepts connections, checks the login    *)
(* against the database, hands the connection to a gate and keeps the      *)
(* table of the roles that are in the game.                                *)
(*                                                                         *)
(* auth[f] is where gatemgr.handle_client stands for connection f: each    *)
(* value but the first and the last two is a place where it waits.         *)
(***************************************************************************)
EXTENDS SessionState

VARIABLES
    auth,    \* idle, recv, account, max, insert, read, pause, applied, failed
    rows,    \* the ids in t_role
    mroles,  \* __roles: the gate of a role in the game, or Nil
    readys,  \* the keys of __readys
    cnt      \* __gates[g].cnt

tables  == <<mroles, readys, cnt>>
mgrVars == <<auth, rows, tables>>

MgrInit ==
    /\ auth = [f \in Conn |-> "idle"]
    /\ rows = Stored
    /\ mroles = [r \in Role |-> Nil]
    /\ readys = {}
    /\ cnt = [g \in Gate |-> 0]

MgrTypeOK ==
    /\ auth \in [Conn -> {"idle", "recv", "account", "max", "insert", "read",
                          "pause", "applied", "failed"}]
    /\ rows \subseteq Role
    /\ mroles \in [Role -> Gate \cup {Nil}]
    /\ readys \subseteq Role
    /\ cnt \in [Gate -> Int]

-----------------------------------------------------------------------------
Goto(f, stage) == auth' = [auth EXCEPT ![f] = stage]

\* socket.close and return, from any place of handle_client.
GiveUp(f) ==
    /\ Goto(f, "failed")
    /\ conn' = [conn EXCEPT ![f] = "closed"]
    /\ fate' = [fate EXCEPT ![f] = "dropped"]
    /\ UNCHANGED <<login, live, queues, rows, tables>>

\* The listening socket accepts f; handle_client is forked and starts it.
Accept(f) ==
    /\ auth[f] = "idle"
    /\ Goto(f, "recv")
    /\ conn' = [conn EXCEPT ![f] = "open"]
    /\ UNCHANGED <<fate, login, live, queues, rows, tables>>

\* A login of r whose end its client has not seen yet.  The add_role of a login
\* is sent before its answer, so it is handled before any request of a client
\* that has seen the answer.
LoginPending(r) ==
    \/ \E f \in Conn : want[f] = r /\ fate[f] = "pending"
    \/ \E i \in DOMAIN mgrQ : mgrQ[i].op = "add_role" /\ mgrQ[i].role = r

\* The auth request arrives with good credentials, for role r or for a new one.
\* With SerialLogin clients ask for roles that exist, one login at a time.
RecvAuth(f, r) ==
    /\ auth[f] = "recv" /\ conn[f] = "open"
    /\ SerialLogin => r \in rows \cup {0} /\ ~LoginPending(r)
    /\ Goto(f, "account")
    /\ want' = [want EXCEPT ![f] = r]
    /\ fate' = [fate EXCEPT ![f] = "pending"]
    /\ UNCHANGED <<conn, data, at, live, queues, rows, tables>>

\* Something else arrives, the credentials are wrong or the peer is gone.
RejectAuth(f) == auth[f] = "recv" /\ GiveUp(f)

\* The account row is read or written; which role the client gets is decided
\* here, from __roles as it stands now.
AccountDone(f) ==
    /\ auth[f] = "account"
    /\ \/ /\ want[f] = 0
          /\ Goto(f, "max")
          /\ UNCHANGED data
       \/ /\ want[f] # 0 /\ mroles[want[f]] = Nil
          /\ Goto(f, "read")
          /\ UNCHANGED data
       \/ /\ want[f] # 0 /\ mroles[want[f]] # Nil
          /\ Goto(f, "pause")
          /\ data' = [data EXCEPT ![f] = "bare"]
    /\ UNCHANGED <<conn, fate, want, at, live, queues, rows, tables>>

\* db.max answers: the new role gets the next id.  Of an empty table, or if the
\* query fails, that is the first id.  Role bounds the ids.
NextId == IF rows = {} THEN 1 ELSE 1 + CHOOSE m \in rows : \A r \in rows : r <= m

MaxDone(f) ==
    /\ auth[f] = "max"
    /\ \E id \in {NextId, 1} \cap Role : want' = [want EXCEPT ![f] = id]
    /\ Goto(f, "insert")
    /\ UNCHANGED <<conn, fate, data, at, live, queues, rows, tables>>

\* db.write_new answers: a plain INSERT, which a taken id makes fail.
InsertDoneUpsert(f) ==
    /\ auth[f] = "insert"
    /\ rows' = rows \cup {want[f]}
    /\ data' = [data EXCEPT ![f] = "new"]
    /\ Goto(f, "pause")
    /\ UNCHANGED <<conn, fate, want, at, live, queues, tables>>

InsertDone(f) ==
    /\ auth[f] = "insert" /\ want[f] \notin rows
    /\ rows' = rows \cup {want[f]}
    /\ data' = [data EXCEPT ![f] = "new"]
    /\ Goto(f, "pause")
    /\ UNCHANGED <<conn, fate, want, at, live, queues, tables>>

ReadDone(f) ==
    /\ auth[f] = "read" /\ want[f] \in rows
    /\ data' = [data EXCEPT ![f] = "row"]
    /\ Goto(f, "pause")
    /\ UNCHANGED <<conn, fate, want, at, live, queues, rows, tables>>

\* A statement fails, the role is unknown, or its id is taken.
DbFails(f) ==
    /\ auth[f] \in {"account", "insert", "read"}
    /\ GiveUp(f)

\* get_gate: any gate with the fewest roles (the order of pairs is not defined).
LightestGates == {g \in Gate : \A h \in Gate : cnt[g] <= cnt[h]}

\* socket.pause is over: abandon the socket and apply_gate.
ApplyGateAlwaysEnters(f) ==
    /\ auth[f] = "pause"
    /\ Goto(f, "applied")
    /\ \E g \in LightestGates :
          /\ at' = [at EXCEPT ![f] = g]
          /\ SendGate(g, "enter_role", f, want[f])
    /\ readys' = readys \cup {want[f]}
    /\ UNCHANGED <<conn, fate, want, data, live, mgrQ, roleQ, rows, mroles, cnt>>

ApplyGateFallsThrough(f) ==
    /\ auth[f] = "pause"
    /\ Goto(f, "applied")
    /\ \E g \in LightestGates :
          /\ at' = [at EXCEPT ![f] = g]
          /\ LET enter == [op |-> "enter_role", fd |-> f, role |-> want[f]]
             IN gateQ' = [gateQ EXCEPT ![g] = @ \o
                    (IF mroles[want[f]] = Nil THEN <<enter>>
                     ELSE <<[enter EXCEPT !.op = "reenter_role"], enter>>)]
    /\ readys' = readys \cup {want[f]}
    /\ UNCHANGED <<conn, fate, want, data, live, mgrQ, roleQ, rows, mroles, cnt>>

ApplyGate(f) ==
    /\ auth[f] = "pause"
    /\ Goto(f, "applied")
    /\ \/ /\ mroles[want[f]] # Nil
          /\ at' = [at EXCEPT ![f] = mroles[want[f]]]
          /\ SendGate(mroles[want[f]], "reenter_role", f, want[f])
          /\ UNCHANGED readys
       \/ /\ mroles[want[f]] = Nil
          /\ \E g \in LightestGates :
                /\ at' = [at EXCEPT ![f] = g]
                /\ SendGate(g, "enter_role", f, want[f])
          /\ readys' = readys \cup {want[f]}
    /\ UNCHANGED <<conn, fate, want, data, live, mgrQ, roleQ, rows, mroles, cnt>>

\* gatemgr.add_role and gatemgr.del_role.
AddRoleUncounted ==
    /\ mgrQ # <<>> /\ Head(mgrQ).op = "add_role"
    /\ readys' = readys \ {Head(mgrQ).role}
    /\ mroles' = [mroles EXCEPT ![Head(mgrQ).role] = Head(mgrQ).gate]
    /\ mgrQ' = Tail(mgrQ)
    /\ UNCHANGED <<conn, fate, login, live, gateQ, roleQ, auth, rows, cnt>>

AddRole ==
    /\ mgrQ # <<>> /\ Head(mgrQ).op = "add_role"
    /\ LET m == Head(mgrQ)
       IN /\ readys' = readys \ {m.role}
          /\ mroles' = [mroles EXCEPT ![m.role] = m.gate]
          /\ cnt' = [cnt EXCEPT ![m.gate] = @ + 1]
    /\ mgrQ' = Tail(mgrQ)
    /\ UNCHANGED <<conn, fate, login, live, gateQ, roleQ, auth, rows>>

DelRoleUncounted ==
    /\ mgrQ # <<>> /\ Head(mgrQ).op = "del_role"
    /\ mroles' = [mroles EXCEPT ![Head(mgrQ).role] = Nil]
    /\ mgrQ' = Tail(mgrQ)
    /\ UNCHANGED <<conn, fate, login, live, gateQ, roleQ, auth, rows, readys, cnt>>

DelRole ==
    /\ mgrQ # <<>> /\ Head(mgrQ).op = "del_role"
    /\ LET m == Head(mgrQ)
       IN /\ mroles' = [mroles EXCEPT ![m.role] = Nil]
          /\ cnt' = [cnt EXCEPT ![m.gate] = @ - 1]
    /\ mgrQ' = Tail(mgrQ)
    /\ UNCHANGED <<conn, fate, login, live, gateQ, roleQ, auth, rows, readys>>
=============================================================================
