------------------------------ MODULE Session -------------------------------
(***************************************************************************)
(* The life of a role in the game: gatemgr admits a client, a gate launches*)
(* the role's service or attaches the client to the one that runs, the     *)
(* service leaves 30 s after its client did.  The three components run     *)
(* concurrently and meet in their mailboxes (SessionState).                *)
(***************************************************************************)
EXTENDS GatemgrService, GateService, RoleService

vars == <<netVars, mgrVars, gateVars, roleVars>>

Init == NetInit /\ MgrInit /\ GateInit /\ RoleInit

\* The steps of the environment: clients, and what may go wrong.
ClientStep ==
    \/ /\ \E f \in Conn : Accept(f) \/ RejectAuth(f) \/ \E r \in Asked : RecvAuth(f, r)
       /\ UNCHANGED <<gateVars, roleVars>>
    \/ /\ \E f \in Conn : ClientClose(f)
       /\ UNCHANGED <<mgrVars, gateVars, roleVars>>

MgrStep ==
    /\ \/ \E f \in Conn :
            \/ AccountDone(f)
            \/ MaxDone(f)
            \/ InsertDone(f)
            \/ ReadDone(f)
            \/ DbFails(f)
            \/ ApplyGate(f)
       \/ AddRole
       \/ DelRole
    /\ UNCHANGED <<gateVars, roleVars>>

GateHandle(g) ==
    \/ EnterRole(g)
    \/ Refuse(g)
    \/ Reenter(g)
    \/ TakeOver(g)
    \/ Logout(g)

GateResume(f) ==
    \/ LaunchFails(f)
    \/ Launched(f)
    \/ LoopStart(f)
    \/ CheckExpire(f)
    \/ CheckRaises(f)
    \/ ClosedByPeer(f)
    \/ CloseDoneLoop(f)
    \/ CloseDoneCheck(f)
    \/ CloseDoneReenter(f)
    \/ CloseDoneLogout(f)

GateStep ==
    /\ (\E g \in Gate : GateHandle(g)) \/ (\E f \in Conn : GateResume(f))
    /\ UNCHANGED <<mgrVars, roleVars>>

RoleHandle(l) == Connected(l) \/ Reconnected(l) \/ Disconnected(l)

\* The database answers the role.
RoleResume(l) == LoginSaved(l) \/ SaveDone(l) \/ StopSaved(l)

RoleStep ==
    /\ \E l \in Conn :
          \/ RoleHandle(l)
          \/ RoleResume(l)
          \/ SaveDue(l)
          \/ StopDue(l)
    /\ UNCHANGED <<mgrVars, gateVars>>

Next == ClientStep \/ MgrStep \/ GateStep \/ RoleStep

Spec == Init /\ [][Next]_vars

-----------------------------------------------------------------------------
(* Fairness: skynet's workers serve every service that has messages, its    *)
(* timer and socket threads deliver what is due, and the database answers,  *)
(* though perhaps with an error.  Clients owe nothing.                      *)

MgrRun(A) == A /\ UNCHANGED <<gateVars, roleVars>>
GateRun(A) == A /\ UNCHANGED <<mgrVars, roleVars>>
RoleRun(A) == A /\ UNCHANGED <<mgrVars, gateVars>>

\* Every stage of a login goes on; the gate resumes what waits.
LoginGoesOn(f) ==
    \/ /\ conn[f] = "gone" /\ RejectAuth(f)
    \/ AccountDone(f)
    \/ MaxDone(f)
    \/ InsertDone(f)
    \/ ReadDone(f)
    \/ DbFails(f)
    \/ ApplyGate(f)

GateGoesOn(f) ==
    \/ LaunchFails(f)
    \/ Launched(f)
    \/ LoopStart(f)
    \/ ClosedByPeer(f)
    \/ CloseDoneLoop(f)
    \/ CloseDoneCheck(f)
    \/ CloseDoneReenter(f)
    \/ CloseDoneLogout(f)

\* A peer that is gone sends no heartbeats.
SilentExpires(f) == conn[f] # "open" /\ (CheckExpire(f) \/ CheckRaises(f))

\* Saves recur every 20 s and the timer ticks every 5 s, so the stop is not
\* continuously but infinitely often possible.
Fairness ==
    /\ WF_vars(MgrRun(AddRole \/ DelRole))
    /\ \A f \in Conn :
          /\ WF_vars(MgrRun(LoginGoesOn(f)))
          /\ WF_vars(GateRun(GateGoesOn(f)))
          /\ WF_vars(GateRun(SilentExpires(f)))
          /\ WF_vars(RoleRun(RoleHandle(f)))
          /\ WF_vars(RoleRun(RoleResume(f)))
          /\ SF_vars(RoleRun(StopDue(f)))
    /\ \A g \in Gate : WF_vars(GateRun(GateHandle(g)))

FairSpec == Spec /\ Fairness

-----------------------------------------------------------------------------
\* Type correctness: every variable of the four modules keeps its shape.
TypeOK == NetTypeOK /\ MgrTypeOK /\ GateTypeOK /\ RoleTypeOK

\* The messages op for role r of gate g on their way to gatemgr.
InFlight(op, g, r) ==
    {i \in DOMAIN mgrQ : mgrQ[i] = [op |-> op, gate |-> g, role |-> r]}

\* A record of a gate's __roles and the tables indexed by its socket agree:
\* a record with a socket is the one the socket is attached to, and the socket
\* is under the watch of gate.check (add_role, add_sock, del_sock in gate.lua).
GateTables ==
    \A l \in Conn : recfd[l] # Nil =>
        /\ sock[recfd[l]] = l
        /\ recfd[l] \in hb

\* socket.close asserts that no other coroutine is already closing the socket.
\* While one waits, the socket is attached to no record, so no handler of the
\* gate can come to close it again.
CloseOnce ==
    \A f \in Conn : closer[f].why # "none" =>
        /\ sock[f] = Nil
        /\ \A l \in Conn : recfd[l] # f

\* A client that takes its role over from an older socket waits for exactly one
\* closing socket, so it is served once that socket is closed, and only once.
OneHeir ==
    \A h \in Conn :
        LET before == {f \in Conn : closer[f].why = "reenter" /\ closer[f].heir = h}
        IN IF task[h] = "wait" THEN \E f \in Conn : before = {f} ELSE before = {}

\* gatemgr's load count of a gate, with the changes on their way to it, is never
\* below the number of roles the gate has: get_gate never takes a loaded gate
\* for an empty one, and no count goes below zero.
CntCovers ==
    \A g \in Gate :
        cnt[g] + Cardinality(UNION {InFlight("add_role", g, r) : r \in Role})
               - Cardinality(UNION {InFlight("del_role", g, r) : r \in Role})
            >= Cardinality({r \in Role : groles[g][r] # Nil})

\* No two clients are given the same new role: the id taken from db.max across
\* a wait may be stale, the INSERT of db.write_new is what decides.
NewRoleOnce ==
    \A e, f \in Conn :
        data[e] = "new" /\ data[f] = "new" /\ want[e] = want[f] => e = f

\* Each role has at most one service.
OneService ==
    \A k, l \in live : want[k] = want[l] => k = l

\* The entry of a role in gatemgr's table leads to the gate that has it, or its
\* removal is on the way.
RegistryRoutes ==
    \A r \in Role, g \in Gate :
        mroles[r] = g => groles[g][r] # Nil \/ InFlight("del_role", g, r) # {}

\* A service that runs is the one that its gate has in the role's record, so
\* that a reconnecting client and a disconnect can reach it.
ServiceReachable ==
    \A l \in live : groles[at[l]][want[l]] = l

\* The load count is exact, with the changes on their way.
CntExact ==
    \A g \in Gate :
        cnt[g] + Cardinality(UNION {InFlight("add_role", g, r) : r \in Role})
               - Cardinality(UNION {InFlight("del_role", g, r) : r \in Role})
            = Cardinality({r \in Role : groles[g][r] # Nil})

-----------------------------------------------------------------------------
\* A service starts with the row of its role (role_cache.load_data), never with
\* the stub {id = ...} that gatemgr makes for a role that is in the game.
EnterHasData == \A l \in live : data[l] # "bare"

\* Nothing is on its way between the gates and the service l.
Quiet(l) ==
    /\ roleQ[l] = <<>> /\ co[l] = "idle"
    /\ gateQ[at[l]] = <<>>
    /\ \A f \in Conn : closer[f].why = "none"

\* A client that is attached to a service, with nothing under way, has a
\* service that takes it for online (so it is not stopped under it).
AttachedIsOnline ==
    \A f \in Conn :
        LET l == sock[f]
        IN l # Nil /\ l \in live /\ Quiet(l) /\ recfd[l] = f => net[l] = "ONLINE"

\* A socket attached to a record that its gate does not have any more.
Ghost(f) == sock[f] # Nil /\ groles[at[f]][want[f]] # sock[f]

\* If all clients go for good then all roles leave the game, unless the gate
\* lost track of a socket (Ghost) or of its heartbeats.
AllLeave ==
    [](\A f \in Conn : ~Ghost(f)) /\ [](\A g \in Gate : check[g] # "dead")
        => (<>[](\A f \in Conn : conn[f] # "open")
              => <>[](\A r \in Role : mroles[r] = Nil))
\* Every login is decided: answered or given up, however silent its client and
\* the other clients of the role are (gatemgr.handle_client, gate.enter_role and
\* gate.reenter_role, which waits for the old socket).
LoginEnds ==
    \A f \in Conn : fate[f] = "pending" ~> fate[f] # "pending"
=============================================================================
