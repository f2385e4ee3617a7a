---------------------------- MODULE GateService -----------------------------
(***************************************************************************)
(* src/game/world/gate.lua over src/game/skynet_lib/socket.lua: the gates, *)
(* which launch the role services, read the clients' sockets, watch their  *)
(* heartbeats and attach a socket to the service of its role.              *)
(*                                                                         *)
(* Any handler of a gate may stand still inside socket.close, because      *)
(* closing a connected socket waits for its CLOSE message: closer[f] is    *)
(* the coroutine that waits for f, with what it does when it goes on.      *)
(*                                                                         *)
(* A record of __roles is named by the connection whose login made it, as  *)
(* the service it stands for: its role_id is want[l] and its gate at[l].   *)
(***************************************************************************)
EXTENDS SessionState

VARIABLES
    groles,  \* __roles of each gate: the record of a role, or Nil
    recfd,   \* the fd field of each record, or Nil
    sock,    \* __socks: the record a socket is attached to, or Nil
    hb,      \* the keys of __hb_times, of all gates
    task,    \* the coroutine that deals with a socket, see GateTypeOK
    closer,  \* who waits in socket.close for a socket
    check    \* the gate.check timer: idle, wait, grown, dead

gateVars == <<groles, recfd, sock, hb, task, closer, check>>

NoCloser == [why |-> "none", rec |-> Nil, heir |-> Nil]

GateInit ==
    /\ groles = [g \in Gate |-> [r \in Role |-> Nil]]
    /\ recfd = [l \in Conn |-> Nil]
    /\ sock = [f \in Conn |-> Nil]
    /\ hb = {}
    /\ task = [f \in Conn |-> "none"]
    /\ closer = [f \in Conn |-> NoCloser]
    /\ check = [g \in Gate |-> "idle"]

\* task: spawn (enter_role waits for newservice), wait (reenter_role waits for
\* the old socket), start (client_loop waits in socket.start), read, failed
\* (socket.start failed), stop (the loop has ended), lost (never served).
\* check: wait (inside socket.close), grown (the same, and __hb_times got a key
\* meanwhile), dead (an error ended it before it set its timer again).
GateTypeOK ==
    /\ groles \in [Gate -> [Role -> Conn \cup {Nil}]]
    /\ recfd \in [Conn -> Conn \cup {Nil}]
    /\ sock \in [Conn -> Conn \cup {Nil}]
    /\ hb \subseteq Conn
    /\ task \in [Conn -> {"none", "spawn", "wait", "start", "read", "failed",
                          "stop", "lost"}]
    /\ closer \in [Conn -> [why : {"none", "check", "loop", "reenter", "logout"},
                            rec : Conn \cup {Nil}, heir : Conn \cup {Nil}]]
    /\ check \in [Gate -> {"idle", "wait", "grown", "dead"}]

-----------------------------------------------------------------------------
\* The record that __roles of connection f's gate holds for f's role.
Current(f) == groles[at[f]][want[f]]

\* The next message of gate g is op; the handlers below consume it.
Next1(g, op) == gateQ[g] # <<>> /\ Head(gateQ[g]).op = op
Pop(g) == gateQ' = [gateQ EXCEPT ![g] = Tail(@)]

Lose(f) ==
    /\ task' = [task EXCEPT ![f] = "lost"]
    /\ fate' = [fate EXCEPT ![f] = "dropped"]

\* __hb_times gets a new key while gate.check stands in its loop over it.
Grow(g) == check' = [check EXCEPT ![g] = IF @ = "wait" THEN "grown" ELSE @]

\* gate.enter_role up to newservice.
EnterRole(g) ==
    /\ Next1(g, "enter_role")
    /\ LET f == Head(gateQ[g]).fd
       IN \/ /\ Current(f) # Nil
             /\ Lose(f)
          \/ /\ Current(f) = Nil
             /\ task' = [task EXCEPT ![f] = "spawn"]
             /\ UNCHANGED fate
    /\ Pop(g)
    /\ UNCHANGED <<conn, login, live, mgrQ, roleQ, groles, recfd, sock, hb, closer, check>>

\* newservice raises: the role service could not be started.
LaunchFails(f) ==
    /\ task[f] = "spawn"
    /\ Lose(f)
    /\ UNCHANGED <<conn, login, live, queues, groles, recfd, sock, hb, closer, check>>

\* newservice returns: the rest of gate.enter_role, with add_role.
LaunchedUnwatched(f) ==
    /\ task[f] = "spawn"
    /\ live' = live \cup {f}
    /\ groles' = [groles EXCEPT ![at[f]][want[f]] = f]
    /\ recfd' = [recfd EXCEPT ![f] = f]
    /\ sock' = [sock EXCEPT ![f] = f]
    /\ task' = [task EXCEPT ![f] = "start"]
    /\ SendMgr("add_role", at[f], want[f])
    /\ roleQ' = [roleQ EXCEPT ![f] = Append(@, "connected")]
    /\ fate' = [fate EXCEPT ![f] = "answered"]
    /\ UNCHANGED <<conn, login, gateQ, closer, hb, check>>

Launched(f) ==
    /\ task[f] = "spawn"
    /\ live' = live \cup {f}
    /\ groles' = [groles EXCEPT ![at[f]][want[f]] = f]
    /\ recfd' = [recfd EXCEPT ![f] = f]
    /\ sock' = [sock EXCEPT ![f] = f]
    /\ hb' = hb \cup {f}
    /\ Grow(at[f])
    /\ task' = [task EXCEPT ![f] = "start"]
    /\ SendMgr("add_role", at[f], want[f])
    /\ roleQ' = [roleQ EXCEPT ![f] = Append(@, "connected")]
    /\ fate' = [fate EXCEPT ![f] = "answered"]
    /\ UNCHANGED <<conn, login, gateQ, closer>>

\* client_loop: socket.start.  A socket whose peer is gone may fail to start
\* (socket.read then asserts) or start and report the end afterwards.
LoopStart(f) ==
    /\ task[f] = "start"
    /\ \/ /\ conn[f] \in {"open", "gone"}
          /\ task' = [task EXCEPT ![f] = "read"]
          /\ UNCHANGED conn
       \/ /\ conn[f] = "gone"
          /\ task' = [task EXCEPT ![f] = "failed"]
          /\ conn' = [conn EXCEPT ![f] = "closed"]
    /\ UNCHANGED <<fate, login, live, queues, groles, recfd, sock, hb, closer, check>>

-----------------------------------------------------------------------------
\* socket.close waits iff the gate's socket is connected.
Waits(f) == task[f] = "read"

\* del_sock of a record that has a socket.
UnlinkKeepsSock(l) ==
    /\ recfd' = [recfd EXCEPT ![l] = Nil]
    /\ hb' = hb \ {recfd[l]}
    /\ UNCHANGED sock

UnlinkKeepsFd(l) ==
    /\ sock' = [sock EXCEPT ![recfd[l]] = Nil]
    /\ hb' = hb \ {recfd[l]}
    /\ UNCHANGED recfd

Unlink(l) ==
    /\ sock' = [sock EXCEPT ![recfd[l]] = Nil]
    /\ recfd' = [recfd EXCEPT ![l] = Nil]
    /\ hb' = hb \ {recfd[l]}

\* The other end of socket.close: at once, or when CloseDone says so.
CloseNow(f) ==
    /\ conn' = [conn EXCEPT ![f] = "closed"]
    /\ task' = [task EXCEPT ![f] = "stop"]
    /\ UNCHANGED closer

CloseLater(f, why, l, h) ==
    /\ closer' = [closer EXCEPT ![f] = [why |-> why, rec |-> l, heir |-> h]]
    /\ UNCHANGED conn

\* network_disconnected of f does nothing for an unattached socket, and gate.
\* disconnected looks the record of its role up again: del_sock raises when the
\* record or its fd is nil.
Detaches(f) ==
    /\ sock[f] # Nil
    /\ Current(sock[f]) # Nil
    /\ recfd[Current(sock[f])] # Nil

\* gate.check finds the heartbeat of f too old: network_disconnected.
CheckExpire(f) ==
    /\ f \in hb /\ check[at[f]] = "idle" /\ Detaches(f)
    /\ LET l  == Current(sock[f])
           fd == recfd[l]
       IN /\ Unlink(l)
          /\ \/ /\ Waits(fd)
                /\ CloseLater(fd, "check", sock[f], Nil)
                /\ check' = [check EXCEPT ![at[f]] = "wait"]
                /\ UNCHANGED <<roleQ, task>>
             \/ /\ ~Waits(fd)
                /\ CloseNow(fd)
                /\ SendRole(sock[f], <<"disconnected">>)
                /\ UNCHANGED check
    /\ UNCHANGED <<fate, login, live, mgrQ, gateQ, groles>>

CheckRaises(f) ==
    /\ f \in hb /\ sock[f] # Nil /\ check[at[f]] = "idle" /\ ~Detaches(f)
    /\ check' = [check EXCEPT ![at[f]] = "dead"]
    /\ UNCHANGED <<netVars, groles, recfd, sock, hb, task, closer>>

\* client_loop of f sees the end of its socket: network_disconnected.
ClosedByPeer(f) ==
    /\ conn[f] = "gone" /\ task[f] = "read" /\ closer[f].why = "none"
    /\ \/ /\ ~Detaches(f)
          /\ task' = [task EXCEPT ![f] = "stop"]
          /\ UNCHANGED <<conn, roleQ, recfd, sock, hb, closer>>
       \/ /\ Detaches(f)
          /\ LET l  == Current(sock[f])
                 fd == recfd[l]
             IN /\ Unlink(l)
                /\ \/ /\ fd = f
                      /\ CloseNow(f)
                      /\ SendRole(sock[f], <<"disconnected">>)
                   \/ /\ fd # f /\ Waits(fd)
                      /\ CloseLater(fd, "loop", sock[f], Nil)
                      /\ task' = [task EXCEPT ![f] = "stop"]
                      /\ UNCHANGED roleQ
                   \/ /\ fd # f /\ ~Waits(fd)
                      /\ conn' = [conn EXCEPT ![fd] = "closed"]
                      /\ task' = [task EXCEPT ![f] = "stop", ![fd] = "stop"]
                      /\ SendRole(sock[f], <<"disconnected">>)
                      /\ UNCHANGED closer
    /\ UNCHANGED <<fate, login, live, mgrQ, gateQ, groles, check>>

-----------------------------------------------------------------------------
\* gate.reenter_role of a role that is not here any more: it closes a socket
\* this service never started, which socket.close ignores.
Refuse(g) ==
    /\ Next1(g, "reenter_role") /\ Current(Head(gateQ[g]).fd) = Nil
    /\ Lose(Head(gateQ[g]).fd)
    /\ Pop(g)
    /\ UNCHANGED <<conn, login, live, mgrQ, roleQ, groles, recfd, sock, hb, closer, check>>

\* gate.reenter_role of a role without a socket: add_sock.
Reenter(g) ==
    /\ Next1(g, "reenter_role")
    /\ LET f == Head(gateQ[g]).fd
           l == Current(f)
       IN /\ l # Nil /\ recfd[l] = Nil
          /\ recfd' = [recfd EXCEPT ![l] = f]
          /\ sock' = [sock EXCEPT ![f] = l]
          /\ hb' = hb \cup {f}
          /\ task' = [task EXCEPT ![f] = "start"]
          /\ fate' = [fate EXCEPT ![f] = "answered"]
          /\ SendRole(l, <<"reconnected">>)
    /\ Grow(g)
    /\ Pop(g)
    /\ UNCHANGED <<conn, login, live, mgrQ, groles, closer>>

\* gate.reenter_role of a role with a socket: remote_disconnected and, unless
\* it has to wait for the old socket, add_sock of the new one.
TakeOver(g) ==
    /\ Next1(g, "reenter_role")
    /\ LET f   == Head(gateQ[g]).fd
           l   == Current(f)
           old == recfd[l]
       IN /\ l # Nil /\ old # Nil
          /\ \/ /\ Waits(old)
                /\ Unlink(l)
                /\ CloseLater(old, "reenter", l, f)
                /\ task' = [task EXCEPT ![f] = "wait"]
                /\ UNCHANGED <<fate, roleQ, check>>
             \/ /\ ~Waits(old)
                /\ recfd' = [recfd EXCEPT ![l] = f]
                /\ sock' = [sock EXCEPT ![old] = Nil, ![f] = l]
                /\ hb' = (hb \ {old}) \cup {f}
                /\ conn' = [conn EXCEPT ![old] = "closed"]
                /\ task' = [task EXCEPT ![old] = "stop", ![f] = "start"]
                /\ fate' = [fate EXCEPT ![f] = "answered"]
                /\ SendRole(l, <<"disconnected", "reconnected">>)
                /\ Grow(g)
                /\ UNCHANGED closer
    /\ Pop(g)
    /\ UNCHANGED <<login, live, mgrQ, groles>>

\* gate.logout: del_role, which closes the socket the role may have again.
Logout(g) ==
    /\ Next1(g, "logout")
    /\ LET r == Head(gateQ[g]).role
           l == groles[g][r]
       IN \/ /\ l = Nil
             /\ UNCHANGED <<conn, mgrQ, groles, recfd, sock, hb, task, closer>>
          \/ /\ l # Nil /\ recfd[l] = Nil
             /\ groles' = [groles EXCEPT ![g][r] = Nil]
             /\ SendMgr("del_role", g, r)
             /\ UNCHANGED <<conn, recfd, sock, hb, task, closer>>
          \/ /\ l # Nil /\ recfd[l] # Nil
             /\ Unlink(l)
             /\ \/ /\ Waits(recfd[l])
                   /\ CloseLater(recfd[l], "logout", l, Nil)
                   /\ UNCHANGED <<mgrQ, groles, task>>
                \/ /\ ~Waits(recfd[l])
                   /\ CloseNow(recfd[l])
                   /\ groles' = [groles EXCEPT ![g][r] = Nil]
                   /\ SendMgr("del_role", g, r)
    /\ Pop(g)
    /\ UNCHANGED <<fate, login, live, roleQ, check>>

-----------------------------------------------------------------------------
\* The CLOSE message of f, or data that was in the mailbox before it, wakes the
\* coroutine that waits in socket.close and ends the loop of f.  A heartbeat
\* among that data puts f back into __hb_times.
ClosedByPeerOnly(f, why) ==
    /\ closer[f].why = why /\ conn[f] = "gone"
    /\ closer' = [closer EXCEPT ![f] = NoCloser]
    /\ conn' = [conn EXCEPT ![f] = "closed"]

Closed(f, why) ==
    /\ closer[f].why = why
    /\ closer' = [closer EXCEPT ![f] = NoCloser]
    /\ conn' = [conn EXCEPT ![f] = "closed"]

LateHeartbeat(f, keys) == hb' = keys \/ hb' = keys \cup {f}

\* The rest of network_disconnected in client_loop.
CloseDoneLoop(f) ==
    /\ Closed(f, "loop")
    /\ LateHeartbeat(f, hb)
    /\ task' = [task EXCEPT ![f] = "stop"]
    /\ SendRole(closer[f].rec, <<"disconnected">>)
    /\ UNCHANGED <<fate, login, live, mgrQ, gateQ, groles, recfd, sock, check>>

\* The same in gate.check, which goes on with pairs(__hb_times): next() raises
\* if the table was rehashed for a new key after the key it stands at was
\* removed, and whether it was is not defined by the program.
CloseDoneCheck(f) ==
    /\ Closed(f, "check")
    /\ LateHeartbeat(f, hb)
    /\ task' = [task EXCEPT ![f] = "stop"]
    /\ SendRole(closer[f].rec, <<"disconnected">>)
    /\ \/ check' = [check EXCEPT ![at[f]] = "idle"]
       \/ /\ check[at[f]] = "grown"
          /\ check' = [check EXCEPT ![at[f]] = "dead"]
    /\ UNCHANGED <<fate, login, live, mgrQ, gateQ, groles, recfd, sock>>

\* The rest of gate.reenter_role for the new socket h.  Its role may be gone by
\* now: add_sock raises, and h is never served.
CloseDoneReenter(f) ==
    /\ Closed(f, "reenter")
    /\ LET h == closer[f].heir
           l == Current(h)
           q == SendTo(roleQ, closer[f].rec, <<"disconnected">>)
       IN \/ /\ l = Nil
             /\ LateHeartbeat(f, hb)
             /\ task' = [task EXCEPT ![f] = "stop", ![h] = "lost"]
             /\ fate' = [fate EXCEPT ![h] = "dropped"]
             /\ roleQ' = q
             /\ UNCHANGED <<recfd, sock, check>>
          \/ /\ l # Nil
             /\ recfd' = [recfd EXCEPT ![l] = h]
             /\ sock' = [sock EXCEPT ![h] = l]
             /\ LateHeartbeat(f, hb \cup {h})
             /\ Grow(at[h])
             /\ task' = [task EXCEPT ![f] = "stop", ![h] = "start"]
             /\ fate' = [fate EXCEPT ![h] = "answered"]
             /\ roleQ' = SendTo(q, l, <<"reconnected">>)
    /\ UNCHANGED <<login, live, mgrQ, gateQ, groles>>

\* The rest of gate.logout.
CloseDoneLogoutUntold(f) ==
    /\ Closed(f, "logout")
    /\ LateHeartbeat(f, hb)
    /\ task' = [task EXCEPT ![f] = "stop"]
    /\ LET l == closer[f].rec
       IN groles' = [groles EXCEPT ![at[l]][want[l]] = Nil]
    /\ UNCHANGED <<fate, login, live, queues, recfd, sock, check>>

CloseDoneLogout(f) ==
    /\ Closed(f, "logout")
    /\ LateHeartbeat(f, hb)
    /\ task' = [task EXCEPT ![f] = "stop"]
    /\ LET l == closer[f].rec
       IN /\ groles' = [groles EXCEPT ![at[l]][want[l]] = Nil]
          /\ SendMgr("del_role", at[l], want[l])
    /\ UNCHANGED <<fate, login, live, gateQ, roleQ, recfd, sock, check>>
=============================================================================
