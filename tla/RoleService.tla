---------------------------- MODULE RoleService -----------------------------
(***************************************************************************)
(* src/game/role/role.lua with role_data and role_cache: the service of    *)
(* one role.  It saves the role when it logs in, every 20 s and when it    *)
(* stops; each save waits for the database, and messages are handled       *)
(* meanwhile.  30 s after its client left it stops.  Time is abstract: the *)
(* timer may find any of the two due.                                      *)
(*                                                                         *)
(* A service that was given only {id = ...} cannot be saved: db.write      *)
(* refuses the row before it asks the database.                            *)
(***************************************************************************)
EXTENDS SessionState

VARIABLES
    net,     \* role_data's __netstate: INIT, ONLINE, DISCONNECTED, nil, DESTROYED
    exitAt,  \* whether last_exit_time is set
    co       \* what the service does: new, login, idle, save, stop, gone

roleVars == <<net, exitAt, co>>

RoleInit ==
    /\ net = [l \in Conn |-> "INIT"]
    /\ exitAt = [l \in Conn |-> FALSE]
    /\ co = [l \in Conn |-> "new"]

RoleTypeOK ==
    /\ net \in [Conn -> {"INIT", "ONLINE", "DISCONNECTED", "nil", "DESTROYED"}]
    /\ exitAt \in [Conn -> BOOLEAN]
    /\ co \in [Conn -> {"new", "login", "idle", "save", "stop", "gone"}]

NextFor(l, op) ==
    /\ l \in live /\ roleQ[l] # <<>> /\ Head(roleQ[l]) = op
    /\ roleQ' = [roleQ EXCEPT ![l] = Tail(@)]
    /\ UNCHANGED <<conn, fate, login, live, mgrQ, gateQ>>

\* role.connected with role.login and its first role.check, up to the save.
Connected(l) ==
    /\ NextFor(l, "connected")
    /\ net' = [net EXCEPT ![l] = "ONLINE"]
    /\ co' = [co EXCEPT ![l] = IF data[l] = "bare" THEN "idle" ELSE "login"]
    /\ UNCHANGED exitAt

\* The save is answered: the rest of role.connected.
LoginSaved(l) ==
    /\ co[l] = "login"
    /\ co' = [co EXCEPT ![l] = "idle"]
    /\ net' = [net EXCEPT ![l] = "ONLINE"]
    /\ UNCHANGED <<netVars, exitAt>>

Reconnected(l) ==
    /\ NextFor(l, "reconnected")
    /\ exitAt' = [exitAt EXCEPT ![l] = FALSE]
    /\ net' = [net EXCEPT ![l] = "ONLINE"]
    /\ UNCHANGED co

DisconnectedForgets(l) ==
    /\ NextFor(l, "disconnected")
    /\ net' = [net EXCEPT ![l] = "DISCONNECTED"]
    /\ UNCHANGED <<exitAt, co>>

Disconnected(l) ==
    /\ NextFor(l, "disconnected")
    /\ exitAt' = [exitAt EXCEPT ![l] = TRUE]
    /\ net' = [net EXCEPT ![l] = "DISCONNECTED"]
    /\ UNCHANGED co

\* role.check: the save is due, and answered later.
SaveDue(l) ==
    /\ co[l] = "idle" /\ data[l] # "bare"
    /\ co' = [co EXCEPT ![l] = "save"]
    /\ UNCHANGED <<netVars, net, exitAt>>

SaveDone(l) ==
    /\ co[l] = "save"
    /\ co' = [co EXCEPT ![l] = "idle"]
    /\ UNCHANGED <<netVars, net, exitAt>>

\* The end of role.stop and skynet.exit: what is left in the mailbox is dropped.
LeaveSwapped(l) ==
    /\ net' = [net EXCEPT ![l] = "DESTROYED"]
    /\ co' = [co EXCEPT ![l] = "gone"]
    /\ live' = live \ {l}
    /\ roleQ' = [roleQ EXCEPT ![l] = <<>>]
    /\ SendGate(at[l], "logout", want[l], Nil)
    /\ UNCHANGED <<conn, fate, login, mgrQ>>

Leave(l) ==
    /\ net' = [net EXCEPT ![l] = "DESTROYED"]
    /\ co' = [co EXCEPT ![l] = "gone"]
    /\ live' = live \ {l}
    /\ roleQ' = [roleQ EXCEPT ![l] = <<>>]
    /\ SendGate(at[l], "logout", Nil, want[l])
    /\ UNCHANGED <<conn, fate, login, mgrQ>>

\* role.check: the client left 30 s ago, role.stop begins.  The state it sets
\* is k_role.KROLE_STATE_offing, which k_role does not define.
StopDueTellsFirst(l) ==
    /\ co[l] = "idle" /\ exitAt[l]
    /\ \/ /\ data[l] = "bare"
          /\ Leave(l)
       \/ /\ data[l] # "bare"
          /\ net' = [net EXCEPT ![l] = "nil"]
          /\ co' = [co EXCEPT ![l] = "stop"]
          /\ SendGate(at[l], "logout", Nil, want[l])
          /\ UNCHANGED <<conn, fate, login, live, mgrQ, roleQ>>
    /\ UNCHANGED exitAt

StopDue(l) ==
    /\ co[l] = "idle" /\ exitAt[l]
    /\ \/ /\ data[l] = "bare"
          /\ Leave(l)
       \/ /\ data[l] # "bare"
          /\ net' = [net EXCEPT ![l] = "nil"]
          /\ co' = [co EXCEPT ![l] = "stop"]
          /\ UNCHANGED netVars
    /\ UNCHANGED exitAt

StopSaved(l) ==
    /\ co[l] = "stop"
    /\ Leave(l)
    /\ UNCHANGED exitAt
=============================================================================
