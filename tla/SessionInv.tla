----------------------------- MODULE SessionInv -----------------------------
(***************************************************************************)
(* The inductive invariant behind the session's safety: what ties the      *)
(* stages of a login in gatemgr, the mailboxes and the tables of a gate    *)
(* together (GateInv), what each load count will lose one day, and, when   *)
(* clients log in one at a time, what gates, gatemgr, services and the     *)
(* messages between them know of each role (SerialInv).  SessionProofs and *)
(* SessionRoles prove it, the run SessionPolite checks it.                 *)
(***************************************************************************)
EXTENDS Session

\* The role a login is about is known by the time it is used.
KnowsRole ==
    \A f \in Conn :
        /\ auth[f] \in {"idle", "recv"} => want[f] = Nil
        /\ auth[f] \in {"account", "max"} => want[f] # Nil
        /\ auth[f] \in {"insert", "read", "pause"} => want[f] \in Role

\* A connection has a gate only after apply_gate, and then its role is settled.
Handed ==
    /\ \A f \in Conn : at[f] # Nil => auth[f] = "applied" /\ want[f] \in Role
    /\ \A f \in Conn : task[f] # "none" => at[f] # Nil
    /\ \A l \in live : task[l] \notin {"none", "spawn"}

\* A service that does anything is registered.
Running == \A l \in Conn : co[l] \notin {"new", "gone"} => l \in live

\* A login message is about a connection of this gate that no handler has seen
\* yet, and each connection has at most one.
LoginMail ==
    \A g \in Gate : \A i \in DOMAIN gateQ[g] : IsLogin(gateQ[g][i]) =>
        /\ gateQ[g][i].fd \in Conn
        /\ task[gateQ[g][i].fd] = "none"
        /\ at[gateQ[g][i].fd] = g
        /\ \A j \in DOMAIN gateQ[g] : gateQ[g][j].fd = gateQ[g][i].fd => i = j

\* Every record is the one its name says: that connection's role and gate.
Records ==
    /\ \A g \in Gate, r \in Role : groles[g][r] # Nil =>
          at[groles[g][r]] = g /\ want[groles[g][r]] = r
    /\ \A f \in Conn : sock[f] # Nil =>
          /\ at[f] # Nil
          /\ at[sock[f]] = at[f]
          /\ want[sock[f]] = want[f]

\* Only sockets that a gate has taken are attached to a record.
Attached ==
    \A f \in Conn : sock[f] # Nil => task[f] \notin {"none", "spawn", "wait", "lost"}

\* Who waits in socket.close waits for a started socket that is attached to
\* nothing, on behalf of a role, and in reenter_role of a newer socket.
Closing ==
    \A f \in Conn : closer[f].why # "none" =>
        /\ task[f] = "read"
        /\ sock[f] = Nil
        /\ closer[f].rec \in Conn /\ at[closer[f].rec] # Nil
        /\ closer[f].why = "reenter" =>
              closer[f].heir \in Conn /\ task[closer[f].heir] = "wait"

\* No two handlers wait to serve the same socket.
Heirs ==
    \A e, f \in Conn :
        /\ closer[e].why = "reenter" /\ closer[f].why = "reenter"
        /\ closer[e].heir = closer[f].heir
        => e = f

\* A socket that waits is some handler's.
Awaited ==
    \A h \in Conn : task[h] = "wait" =>
        \E f \in Conn : closer[f].why = "reenter" /\ closer[f].heir = h

\* A new role a client was given is in t_role, and its login is past the INSERT.
NewRoleStored ==
    \A f \in Conn : data[f] = "new" =>
        want[f] \in rows /\ auth[f] \in {"pause", "applied", "failed"}

\* What a gate knows of its sockets and records.
GateInv ==
    /\ TypeOK
    /\ KnowsRole
    /\ Handed
    /\ Running
    /\ LoginMail
    /\ Records
    /\ Attached
    /\ GateTables
    /\ Closing
    /\ Heirs
    /\ Awaited

-----------------------------------------------------------------------------
(* The load counts.  What a gate will take off its count one day is a service *)
(* that runs, a logout message, or a logout that waits for a socket.          *)

Served(g) == {l \in live : at[l] = g}
Leaving(g) == {i \in DOMAIN gateQ[g] : gateQ[g][i].op = "logout"}
LogoutWaits(g) == {f \in Conn : closer[f].why = "logout" /\ at[closer[f].rec] = g}

\* The load count of a gate with the changes on their way to gatemgr.
Load(g) ==
    cnt[g] + Cardinality(UNION {InFlight("add_role", g, r) : r \in Role})
           - Cardinality(UNION {InFlight("del_role", g, r) : r \in Role})

\* There are finitely many of them, though there may be any number of connections.
Few == IsFiniteSet(live) /\ IsFiniteSet({f \in Conn : closer[f].why # "none"})

\* Each was counted when its service was launched.
Counted ==
    \A g \in Gate :
        Load(g) >= Cardinality(Served(g)) + Cardinality(Leaving(g))
                     + Cardinality(LogoutWaits(g))

\* A record of a gate is there because of one of them.
Backed ==
    \A g \in Gate, r \in Role : groles[g][r] # Nil =>
        \/ \E l \in Served(g) : want[l] = r
        \/ \E i \in Leaving(g) : gateQ[g][i].role = r
        \/ \E f \in LogoutWaits(g) : want[closer[f].rec] = r

-----------------------------------------------------------------------------
(* One login at a time.                                                       *)

\* gatemgr or a gate has a login of f to go on with, in a mailbox or in a handler.
Mailed(f) ==
    \E g \in Gate : \E i \in DOMAIN gateQ[g] : IsLogin(gateQ[g][i]) /\ gateQ[g][i].fd = f

UnderWay(f) ==
    \/ auth[f] \in {"account", "max", "insert", "read", "pause"}
    \/ Mailed(f)
    \/ task[f] \in {"spawn", "wait"}

\* A login that is under way is pending.
Undecided == \A f \in Conn : UnderWay(f) => fate[f] = "pending"

\* The login of f is about role r, which exists: the INSERT of a new one is done.
Contends(f, r) == fate[f] = "pending" /\ want[f] = r /\ auth[f] # "insert"

\* Neither gatemgr nor a gate has role r, and no message is about it.
Absent(r) ==
    /\ mroles[r] = Nil
    /\ \A g \in Gate : groles[g][r] = Nil
    /\ \A i \in DOMAIN mgrQ : mgrQ[i].role # r

\* Only roles in t_role are logged in, in the game or on their way.
Existing == \A r \in Role \ rows : Absent(r) /\ \A f \in Conn : ~Contends(f, r)

\* At most one login of a role is pending, and then none was just answered.
OneLogin ==
    \A r \in Role, f \in Conn : Contends(f, r) =>
        /\ \A e \in Conn : Contends(e, r) => e = f
        /\ \A i \in DOMAIN mgrQ : mgrQ[i].role = r => mgrQ[i].op = "del_role"

\* At most one gate has a role.
OneGate ==
    \A r \in Role, g, h \in Gate : groles[g][r] # Nil /\ groles[h][r] # Nil => g = h

\* The messages about a role on their way to gatemgr are one add_role, one
\* del_role, or these two in this order and from the same gate.
RoleMail ==
    \A i, j \in DOMAIN mgrQ : mgrQ[i].role = mgrQ[j].role /\ i < j =>
        mgrQ[i].op = "add_role" /\ mgrQ[j].op = "del_role" /\ mgrQ[i].gate = mgrQ[j].gate

\* An add_role is about a role that gatemgr does not have; its gate has the role
\* until it sends del_role.  A del_role is about a role that no gate has.
RoleNews ==
    \A i \in DOMAIN mgrQ :
        LET g == mgrQ[i].gate
            r == mgrQ[i].role
        IN IF mgrQ[i].op = "add_role"
           THEN mroles[r] = Nil /\ (groles[g][r] # Nil \/ InFlight("del_role", g, r) # {})
           ELSE /\ mroles[r] = g \/ InFlight("add_role", g, r) # {}
                /\ \A h \in Gate : groles[h][r] = Nil

\* A role that a gate has is in gatemgr's table, or its add_role is on the way.
Registered ==
    \A g \in Gate, r \in Role : groles[g][r] # Nil =>
        mroles[r] = g \/ InFlight("add_role", g, r) # {}

\* A gate is about to launch the role of f.
Enters(f) ==
    \/ \E g \in Gate : \E i \in DOMAIN gateQ[g] :
          gateQ[g][i].op = "enter_role" /\ gateQ[g][i].fd = f
    \/ task[f] = "spawn"

\* Then nobody has the role.
Entering == \A f \in Conn : Enters(f) => Absent(want[f])

\* The record of a role is that of a running service, or of one that left and
\* whose logout is a message or waits for a socket.
LogoutMail ==
    \A g \in Gate : \A i \in Leaving(g) :
        LET r == gateQ[g][i].role
        IN /\ groles[g][r] \notin live \cup {Nil}
           /\ \A j \in Leaving(g) : gateQ[g][j].role = r => i = j
           /\ \A f \in LogoutWaits(g) : want[closer[f].rec] # r

LogoutWait ==
    \A f \in Conn : closer[f].why = "logout" =>
        LET l == closer[f].rec
        IN /\ l \notin live
           /\ groles[at[l]][want[l]] = l
           /\ \A e \in Conn : closer[e].why = "logout" /\ closer[e].rec = l => e = f

SerialInv ==
    /\ Existing
    /\ OneLogin
    /\ OneGate
    /\ RoleMail
    /\ RoleNews
    /\ Registered
    /\ RegistryRoutes
    /\ Entering
    /\ LogoutMail
    /\ LogoutWait
    /\ ServiceReachable
    /\ CntExact

IInv ==
    /\ GateInv
    /\ Few
    /\ Counted
    /\ Backed
    /\ Undecided
    /\ SerialLogin => SerialInv
=============================================================================
