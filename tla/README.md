# A verification of the game server

The repository is a game server on skynet: Lua services that own their state,
exchange messages, and keep players' connections, roles, scenes and battles, and the
skynet core itself, the C program that runs them. This directory holds TLA+ models of
both, the TLC configurations that check them, and proofs that TLAPS checks. Paths below
are relative to `src/game`.

## 1. Inventory

**How everything runs.** A skynet service handles one mailbox in the order in which
messages are pushed to it (`skynet_lib/skynet.lua`, `dispatch_lua`). A handler runs
alone until it yields: in `skynet.call`, `newservice`, a socket read, a
`socket.close` that has to wait. Then other messages of the service are handled, and
the handler later goes on with what it remembered. Nearly everything that is hard in
the Lua code comes from that: state read before a yield and used after it. Below it, the
core (`skynet/skynet-src/*.c`) gives the services their mailboxes with several worker
threads, a timer thread and a socket thread over shared queues, counters and locks.

| component | state | operations | talks to |
|---|---|---|---|
| gatemgr (`world/gatemgr.lua`) | `__gates` with load counts, `__roles`, `__readys` | accept, `handle_client`, `apply_gate`, `add_role`, `del_role` | database, gates |
| gate (`world/gate.lua`) | `__roles`, `__socks`, `__hb_times` | `enter_role`, `reenter_role`, `client_loop`, `check`, `logout`, disconnects | launcher, role services, gatemgr, sockets |
| role service (`role/role.lua`, `role_data`, `role_cache`) | net state, exit and save times, the role's row | `connected`, `reconnected`, `disconnected`, `check`, `stop` | gate, database, scenes |
| socket API (`skynet_lib/socket.lua`) | socket pool: reader, closer, connected | `start`, `read`, `close`, `pause`, `abandon` | the socket thread |
| skynet library (`skynet_lib/skynet.lua`, `minheap.lua`) | coroutines, timers | dispatch, call, timers, exit | every service |
| database (`db/db.lua`, `skynet_service/db_service.lua`) | connection pool, turn | query, atomic query | MySQL |
| launcher (`skynet_service/launcher.lua`) | instances being launched | LAUNCH, LAUNCHOK, ERROR, REMOVE | every service |
| scene registry (`world/scene/scenemgr.lua`, `role/mod_scene.lua`) | scenes, the scene of each role | create, stop, enter, leave | scenes, roles |
| scene (`world/scene/*.lua`, `component/march_component.lua`) | objects, AOI slices, components, collisions, battles | enter, leave, move, march, collide, start and settle a battle | scenemgr, roles |
| battle (`scene_battle.lua`, battle, skill and buff components) | units, cooldowns, buffs | tick, cast, damage, end | the scene |
| core: message queues (`skynet_mq.c`) | a ring per service, the global list of queues | push, pop, mark for release, release | contexts, workers |
| core: contexts and threads (`skynet_server.c`, `skynet_start.c`) | reference counts, handles, sleeping workers | create, send, dispatch, retire, delete, sleep, wake, end | queues, handles |
| core: handle storage (`skynet_handle.c`) | hash table of contexts, sorted names | register, retire, grab, name, find | contexts |
| core: timer (`skynet_timer.c`) | wheel of lists, the clock | add, update | contexts |
| core: socket server (`socket_server.c`) | slots, write buffers, pipe of commands, events of the poll | start, pause, close, shutdown, send, poll | services, kernel |
| Unity client, test clients, watchdog, console services | - | - | gatemgr, gate |

**What is hard**, and what makes a component right:

* *gatemgr and gate*: logins, reconnects, takeovers of one role by another client,
  heartbeat timeouts and logouts interleave at every yield. Right means: one service
  per role, tables that agree, no socket closed twice, every client either served or
  given up, load counts that mean something, and roles that leave in the end.
* *role service*: each save waits for the database; disconnects and reconnects
  arrive during the last save. Right means: an attached client has an online role,
  and a role without a client leaves.
* *timers*: a heap with an index, and one system timeout armed for the earliest timer.
  Right means: every timer fires, none after its removal.
* *database*: transactions on connections that are shared round robin. Right means: a
  transaction holds its own statements only. Nothing in the game calls them
  (`db.writes` is their only way in).
* *scenes*: enter and leave messages from two scenes meet in scenemgr in any order.
  Right means: the registry ends with the scene the role is in.
* *march, collision, battle*: a battle starts across a yield, with the objects already
  switched. Right means: no object stays in battle for ever, each battle settles once.
* *queues, contexts, threads*: a queue is listed, held by a worker, or empty; a context is
  freed by whoever drops the last reference; a push signals nobody. Right means: one
  worker at a time per service, messages in order and none lost, nothing used after it
  is freed, no message left lying while everybody sleeps.
* *handles and names*: handles wrap, the table doubles, names are found by bisection.
  Right means: what is registered is found, and what is retired is not.
* *core timer*: a 32-bit counter that wraps, lists that move down level by level. Right
  means: an event fires at its tick, in order.
* *socket server*: services write under a lock while the socket thread drains the same
  buffers; slots are used again; events and commands come late. Right means: packets
  stay whole and in order, a close loses nothing, CLOSE is raised once, and the close ends.

`PROJECT.json` lists the hazards with their lines.

## 2. Plan

Done:

1. **Session**: gatemgr, gate and role service, composed; inductive invariant and proofs.
2. **Runtime**: the queues, contexts and threads of the core; abstract: `Mailbox`, which
   is also what the session model takes for granted of its mailboxes; inductive invariant,
   proofs, and the proof of the refinement.
3. **SkynetHandle**; abstract: `HandleRegistry`; inductive invariant, proofs, and the proof of
   the refinement.
4. **Timers**: the core's wheel (abstract: `Alarm`), and on top of it a Lua service's heap
   and its timeouts, composed; inductive invariant, proofs, and the proof of the refinement.
5. **SocketServer**: one slot, two senders, the socket thread; inductive invariants and proofs.
6. **SceneMarch**: marches, collisions and the start of battles over the scene's timer heap.

Left, in this order:

7. **SceneRegistry**: role, two scenes and scenemgr; abstract: a role is in at most one scene.
8. **DbPool**: atomic queries on shared connections; abstract: a transaction is atomic.
9. **Launcher** and the rpc layer: each `newservice` and each `call` is answered once.
10. **Battle**: cooldowns, buffs, attributes; then the battle of SceneMarch in full.

## 3. The modules

| module | models |
|---|---|
| `SessionState` | connections, the data of a login, the mailboxes |
| `GatemgrService` | `gatemgr.lua`: `auth[f]` is where `handle_client` stands for connection f |
| `GateService` | `gate.lua` over `socket.lua`: the three tables, the coroutine of each socket (`task`), who waits in `socket.close` (`closer`), the heartbeat timer (`check`) |
| `RoleService` | `role.lua`: net state, exit time, what the service does |
| `Session` | the composition, fairness, and the properties |
| `SessionInv` | the inductive invariant `IInv` |
| `SessionProofs` | theorems on the tables of a gate and on new roles, and their proofs |
| `SessionRoles` | theorems on the load counts and on the services of a role, and their proofs |
| `SkynetMq` | `skynet_mq.c`: the ring of a service with its head, tail and doubling, the global list |
| `SkynetServer` | `skynet_server.c`: contexts, references, send, launch, dispatch, retirement, deletion; `pc` is what a thread does next |
| `Runtime` | `skynet_start.c`: the worker threads, who sleeps and who is woken, the timer thread, the end of the program |
| `Mailbox` | abstract: a mailbox serves in order, one message at a time, and loses none |
| `RuntimeInv` | the properties of the core, its inductive invariant and its mapping to `Mailbox` |
| `SkynetMqProofs`, `RuntimeProofs` | what the ring computes; the invariant and the properties of the core, the refinement of `Mailbox` |
| `SkynetHandle` | `skynet_handle.c`: hash table, doubling, wrapping handles, the sorted names |
| `HandleRegistry` | abstract: which service a handle denotes, which handle a name |
| `HandleProofs` | hashing and doubling, the sorted names, the invariant, the refinement of `HandleRegistry` |
| `SkynetTimer` | `skynet_timer.c`: the wheel, its shift, the clock that runs ahead of it |
| `Alarm` | abstract: an event fires at its tick, in the order of setting |
| `MinHeap` | `skynet_lib/minheap.lua`: push, update, remove, pop, and the index |
| `LuaTimers` | the timers of `skynet_lib/skynet.lua`, composed with `SkynetTimer` |
| `TimerProofs` | the heap and the wheel: what their loops compute, the invariant, the refinement of `Alarm` |
| `SocketServer` | one slot of `socket_server.c`: accepted connections, direct and queued sends, commands, events |
| `SocketInv` | its inductive invariants `SocketInv` and, for what goes over the wire, `WireInv` |
| `SocketProofs`, `SocketWire` | the proofs about the slot, its locks and lists and the count of sends; the proofs about what is written |
| `SceneMarch` | `scene.lua`, `scene_collision.lua`, `march_component.lua` over the timer heap |
| `MCSession`, `MCRuntime`, `MCHandle`, `MCTimers`, `MCSocket` | the constants and symmetries of the runs |

**Session.** An action is the code from one yield to the next, for example `gate.enter_role` is
`EnterRole` (up to `newservice`) and `Launched` or `LaunchFails` (the rest).

* *Names.* A role service, and the record a gate has for it, are named by the
  connection whose login launched it: one login launches at most one service.
* *Time* is abstract. A heartbeat may be found too old whenever the timer of its gate
  is armed; a role's save may be due whenever it is idle, its exit whenever the
  client has left.
* *socket.close* returns at once when the gate's socket is not connected; else it
  waits, and its caller with it, until the reader of that socket is woken by data or
  by the CLOSE message. Data read meanwhile may be a heartbeat (`LateHeartbeat`), which
  puts the closed socket back into `__hb_times`.
* *pairs over `__hb_times`.* `gate.check` may wait inside its loop. A key inserted
  meanwhile makes the behaviour of `next` undefined, which is the choice between `idle`
  and `dead` in `CloseDoneCheck`.
* *The database* answers or fails; its content is the set of ids in t_role.
* *Clients* open a connection, may log in, and may leave at any time. With
  `SerialLogin` they log in with the id of a role that exists, or ask for a new one, and
  only when no login of that role is pending. (A client that guesses the id of a role which
  another one is just being given could be pending beside it, so that nothing is serial.)
* *Ghost variable*: `fate` records what became of a login; no action reads it
  except `LoginPending`, which is about clients.

**Runtime.** A step of a thread is what it does between two lock operations or atomic
counters. A service's handler is any sequence of sends, launches, kills and aborts (those
in `Use`). A context is named by its element of `Svc` instead of by its handle, which
`SkynetHandle` justifies. The mark, free and decrement of a deletion are one step, and so are
the read and the retirement of a slot in `skynet_handle_retireall`. Left out: what
`skynet_error` logs, the wake-ups that the socket thread gives (the timer thread's suffice),
spurious wake-ups, the monitor thread, and services without a callback. To `Mailbox` a
service's `box` is the content of its ring, its `state` comes from the context, its slot and
the release mark, and `serving` is the message in a worker's handler.

**Handles.** Each operation is a step, except that a creator stores the handle in its context
only after `register` has returned. `owner` of `HandleRegistry` is what the hash table finds.

**Timers.** Times are relative to `skynet_now()`, so that the clock may run for ever; the
wheel is modelled with `Near`, `Level` and `Levels` in place of 256, 64 and 4, and wraps. The
wheel's lock is given up while a list is dispatched, so timeouts are added in between. To
`Alarm`, `clock` is the wheel's time and `due` the nodes by their expiry. `PushEnds` and
`TimerRemove` change the heap and compare its root with the stack (`Check`); when a timeout is
needed, `Ask` asks for it in a step of its own, before which the clock may move. They do not yield.
The function that `timer_loop` calls may (`gate.check` waits in `socket.close`, `role.check` in its
save, the collision tick in `create_battle`). So a loop is in steps: `Call` takes the root out of
the heap, the function pushes and removes any functions, its own included, and `Return`s, or
`Yield`s and its loop waits. Then other handlers push and remove, and further timeouts run loops of
their own, which may wait as well. `Resume` goes on with one that waits: its `now` is as old as it
is (`waits` counts the loops by their `now`), and the past times that it has yet to forget are still at the end of
`timeouts`, so that `Check` asks for nothing meanwhile. Clocks that go backwards are left out.

**Socket server.** A packet is `Pieces` pieces and the kernel takes any number of them. A
service sends in steps: the check without the lock, the one under it, the write, and the
command into the pipe with its count before it. The unlocked check (`can_direct_write`) reads
several fields in one step; what it finds is checked again under the lock. The socket thread takes commands, then the
events of a batch, which may be stale by then; the model lets it take commands also before the
first event of a batch, which the code handles at once (line 1737). This only adds behaviours, in
which the properties hold as well. `told`, `wire`, `owed`, `spoiled` and `late`
only record what happened, for the properties. Left out: the data that are read, connecting,
listening, UDP, bound descriptors, a start again after a pause, warnings, statistics, and the busy wait when 65535 sends
are under way.

**Scene.** A march is a chain of timers and the collision tick another; the heap is the set
of timers it would call and of those it has lost. Handlers that wait in `create_battle` are
separate from the scene's own turns. Positions are the number of ticks a march has left;
which objects are near is left open. `create_battle` succeeds; targets that move, a march whose
start or end time is wrong ("time error", `march_component.lua:86`), AOI slices
and what clients are told are left out.

## 4. The runs

| run | instance | what it shows |
|---|---|---|
| `SessionFree` | 3 connections, 1 gate, 1 role, any clients | `TypeOK`, `GateTables`, `CloseOnce`, `OneHeir`, `CntCovers` |
| `SessionPolite` | 3 connections, 2 gates, 2 roles (one stored, one new, both asked for), serial logins | `IInv`, `CntExact`, `OneService`, `RegistryRoutes`, `ServiceReachable`, `NewRoleOnce` |
| `SessionLive` | 3 connections, 1 gate, 1 role, serial logins, fairness | `AllLeave`, `LoginEnds` |
| `SessionDouble` | 2 connections, 2 gates, any clients | finds `OneService` violated |
| `SessionOnline` | 3 connections, 1 gate, serial logins | finds `AttachedIsOnline` violated |
| `SessionBare` | 3 connections, 1 gate, serial logins | finds `EnterHasData` violated |
| `RuntimeCore` | 2 workers, timer thread, 2 services, ring of 1, 2 messages; send, launch, kill | `IInv`, `TypeOK`, `OnePlace`, `RefExact`, `NoDangling`, `TotalExact`, `ImplementsMailbox` |
| `RuntimeLive` | the same with 1 message, also abort and timeouts, fairness | `Delivered`, `AllJoined` |
| `HandleSerial` | 3 contexts, 3 names, 1 creator, table of 2, 3-bit handles | `IInv`, `TypeOK`, `Reachable`, `GivenFresh`, `ExpandAssert`, `ImplementsRegistry` |
| `Timers` | wheel of 4 x 2 ticks, 2 functions that may yield, timeouts of others, a clock that may be 1 tick late, fairness | `TimerInv` (with `TypeOK`), `HeapExact`, `ImplementsAlarm`, `TimersFire` |
| `SocketServer` | 2 connections in one slot, an owner with 2 packets, another service with 1, 2 pieces each | `TypeOK`, `SendingExact`, `ListsSound`, `CloseExact`, `WireIntact`, `Flushed`, `WireInv`, `ClosingEnds` |
| `SceneMarch` | 2 roles with a troop and a tank each, 1 monster, 2 marches, 1 battle | finds `MarchEnds` violated |

*Bounds, session.* `Conn` is finite and a connection lives once, so nothing else needs a bound
except `MaxRole`: `MaxDone` takes no id above it. Three connections are the fewest for
the interesting cases: one whose socket is being closed, one that waits for it, one
that comes in between, or a role that leaves and one that comes back while a third
is read. Two gates are the fewest for a role on two gates. Symmetry (connections, and
gates, are interchangeable) is used in the safety runs only. Deadlock is not checked:
when every connection has lived, the system rightly stands still.

*Bounds, core.* Two workers, one that takes a message at a time (weight -1) and one that takes
the whole queue (weight 0), are the fewest that meet on one queue; two services are one that
sends and one that is created and killed. `MaxMsg` bounds the messages sent; with a ring of
one entry the second one doubles it. In `HandleSerial` the third context, or a wrap that
skips the free slot, makes the table of two double, and handles wrap after 7. `Timers` has one level above the near
list, so that nodes move down, and the wheel's time wraps after 8 ticks, again and again (`WheelIsAlarm` is
proved for any number of levels):
nothing bounds the run but `MaxLag` (ticks between two updates of the wheel), `MaxLate`
(the time a message or a loop waits) and `MaxWait` (the loops of one tick that wait at a time). With 1 each, two
loops wait at a time, one with the clock of now and one with the clock of a tick ago, and a function pushed
meanwhile for the next tick is due before the old loop goes on. The service's heap has two
nodes; what push, update and remove do to larger ones (6 nodes are the fewest for one that takes a
removed node's place and must go up) is proved for every heap. In `SocketServer` two packets of the owner are the fewest
for a direct write and one that comes behind it, the packet of the other service for one behind
the close, and the second connection shows what the first leaves in the slot; the second is
not written to (`SendTo`). `MaxWork` bounds the packets, starts and pauses
together. The two troops
of `SceneMarch` are the fewest for one that arrives while the other marches.

*Fairness.* Skynet's workers serve every mailbox, its timer and socket threads deliver
what is due, and the database answers, perhaps with an error: weak fairness for
each handler and each resumption. The stop of a role competes with saves that recur
every 20 s, so it is not continuously but infinitely often possible, and gets strong
fairness. Nothing is assumed of clients, except in `SilentExpires`: a peer that is gone
sends no heartbeats. In the core every thread is run by the operating system and handlers
return: weak fairness of each thread's steps. In `SocketServer` the senders and the socket
thread are weakly fair, and a connection that is written to takes data, or fails, again and
again (strong fairness of `Progress`: `poll` offers the event in every round). In `LuaTimers`
the service gets its turn among other messages (strong fairness of `Serve`), a function returns or
raises (strong fairness of `Return`, as it may yield again and again before), and what it waits for comes
(strong fairness of `Resume`, for some loop that waits: the answers come through the same mailbox). In `SceneMarch`
a timer that is due is called, unless the collision tick keeps the loop of timers waiting, and
handlers and battles end; strong fairness stands for the queue of messages, which a handler in
its loop blocks for one turn only.

*What TimersFire and ClosingEnds assume.* `TimersFire` is about behaviours without a timeout
that comes early by `skynet_now()`, and about functions that end: one that waits for an answer which never comes
keeps its past time at the end of `timeouts`, and then nothing that is pushed is armed until a
later timeout, asked for before, comes. `ClosingEnds` excepts a packet of another service
behind the close (`Stuck`): the code can reach both, see the observations.

*What AllLeave assumes.* It excuses two situations the code can reach: a socket whose
record is gone (`gate.logout` waits for one socket, and a reconnect attached another),
and a heartbeat timer that an error ended. After either, a role or a socket may stay.

### What the code does against its documents

* **Two services for one role** (`SessionDouble`). `apply_gate` writes `__readys` and
  never reads it. Two logins before `add_role` launch twice, against README's "one
  service per player". With clients that wait for their answer `OneService` holds.
* **A client attached to a service that is offline** (`SessionOnline`). A heartbeat timeout
  closes the old socket and waits; the client reconnects; the late `disconnected`
  arrives after `reconnected`, and 30 s later the role stops under its client.
* **A role without its data** (`SessionBare`). The lookup says the role is in the
  game, the role leaves, and the first-login branch gets the stub.
* **A march that does not end** (`SceneMarch`). `march_component:stop` removes its timer
  without the key it was pushed with. While any march is armed, the index then yields the
  table of all the marches instead of a position: `minheap.remove` moves the last node of
  the heap under that table, so that another timer is lost, and raises. The troop stays in
  MARCH and `_is_stopping_component` stays set. It happens when a troop arrives while another
  march is armed, and whenever a marching troop collides, in which case the collision tick
  is not armed again either.

### Observations

Seen while modelling; no document of the repository says otherwise:

* *An early timeout stops a service's timers.* `skynet_updatetime` moves `skynet_now()` by all
  the ticks that passed before the wheel executes the first. A timeout asked for in between
  comes early; the service finds nothing due, keeps the entry in `timeouts`, and asks for
  the next timeout only when a function earlier than all the pending ones is pushed.
* *A socket that is never given back.* A packet that arrives behind a close is dropped; when
  the write event had already been disabled, nothing makes the socket thread look at the
  connection again, and it stays in HALFCLOSE_READ.
* *A half-closed write that is enabled again*: a `W` command that arrives in HALFCLOSE_WRITE
  enables the write event. A hang-up event of a connection that was closed without a
  message may close the next connection of the slot. `force_close` frees the lists before it
  takes the lock.
* *Two creators at once.* Between `skynet_handle_register` and the assignment of the handle the
  table may be expanded by another thread, with the context's handle still 0. The launcher
  creates services one after another, which is what `HandleSerial` checks.
* *Battles.* A troop in BATTLE can be ordered to march (only MARCH is refused), its stop sets
  IDLE, and it can fight a second battle meanwhile. A settlement that comes before the answer
  of `create_battle` leaves its entry in `__battles`. When creation fails scenemgr does
  not answer, and the scene's loop of timers waits. `buff_component.apply_mods` resets hp in
  every tick, so a battle ends by its 20 s limit.

## 5. The proofs

`SessionProofs` proves, for any sets of connections, gates and roles and for both values
of `SerialLogin`, from `SessionAssumption` alone (shapes of the constants):

* `Invariant`: `Spec => []GateInv`, and from it `TypeCorrect`, `TablesAgree`,
  `NeverClosedTwice` and `TakeOverServed`;
* `NewRolesDistinct`: `Spec => []NewRoleOnce`, with `NewRoleStored` as strengthening.

`SessionRoles` goes on from there:

* `SessionInvariant`: `Spec => []IInv`, and from it `LoadCovers` (`CntCovers`), both for any
  clients;
* `LoadExact` (`CntExact`), `RoleHasOneService` (`OneService`), `RoutesLead`
  (`RegistryRoutes`) and `ServiceFound` (`ServiceReachable`), for clients that log in one at a
  time (`SerialLogin`). Without that they are false, as `SessionDouble` shows of `OneService`.

None of the properties is inductive alone. That a socket is never closed twice rests
on the tables' agreement, that on the fact that a login message is about a connection
no handler has seen (`LoginMail`), that on gatemgr handing a connection over once
(`Handed`, `KnowsRole`). That a takeover is served once rests on what a closing
coroutine remembers still being true when it goes on (`Closing`, `Heirs`, `Awaited`);
`Records` says that a record has its connection's gate and role, `Attached` that only
started sockets are in the tables, `Running` that only registered services act. `GateInv`
is their conjunction, one lemma per handler shows it is kept, and the frame lemmas carry
what a handler leaves alone.

*Load counts.* `CntCovers` is not inductive: when two logins of a role overlap, a gate's
record is overwritten, and later removed while the first service still runs. What does
hold step by step is that whatever a gate will one day take off its count was put on it:
`Counted` compares the load, with the messages on their way, to the services that run, the
logout messages and the logouts that wait for a socket (`Few`: there are finitely many), and
`Backed` says that a record is there because of one of these. The roles of a gate are then
images of these three sets, which gives `CntCovers`.

*One login at a time.* `OneLogin` says that the login of a role contends with no other and that
none was just answered, `Undecided` that all that is under way is pending, `Existing` that
this is about roles in t_role. From what gatemgr then sees (no entry, so by `RoleNews` and
`Registered` nothing on the way and no record) follows `Entering`: who is sent to a gate to
enter a role enters an absent one. `RoleMail` and `RoleNews` say what the messages to gatemgr
tell: one add_role, one del_role, or these two from one gate in this order. `LogoutMail` and
`LogoutWait` say that a service that left is still the one in the record until its one logout
has been handled; with `ServiceReachable` and `OneGate` there is one service. Steps are
either *quiet* (`QuietStep`: they change neither records, services nor gatemgr's table and let
nobody contend), or one of eleven, each with a lemma of its own. `SessionPolite` checks all of
`IInv`.

`SocketProofs` proves, for any number of services,
connections, packets and pieces, from `FiniteServices`, `OwnerSends`, `NilIsNoService`,
`NilIsNoPacket` and `Bounds`:

* `SocketInvariant`: `Spec => []SocketInv`, and from it `SocketTypeOK`, `SendingCounted`
  (`SendingExact`), `WriteBuffersSound` (`ListsSound`) and `CloseRaisedOnce` (`CloseExact`);
* `DirectWriteAlone`: a service that writes directly writes to the connection its packet is
  for, with no part of another packet left over, though the slot may be given back meanwhile; `DecSendingAsserts`: the assertion of
  `dec_sending_ref` never fails.

`SocketInv` adds to the properties what they rest on. `SlotSound` ties the type of the slot to
the life of its connection and to what the socket thread is in the middle of; without it a
close between two steps of `force_close` could be raised again. `LockSound` says that the
program counters tell who has the lock, and that a direct write finds nothing left over.
`SendsSound` says that packets go to connections that are or were open, so that a late
packet is told from one to the connection in the slot now. `ListsEmpty` says that a
connection that is not started, or is being given back, has no data, and that a write event
finds its event enabled. `SendingExact` is about the services between counting and piping
and about the pipe at once: its lemmas prove what an append, a removal and a step of one
service do to that number.

`SocketWire` goes on from there, from the same assumptions:

* `WireInvariant`: `Spec => []WireInv`;
* `WirePiecesIntact` (`WireIntact`): what the peer reads is whole packets of its connection,
  none twice, the high ones of each service in the order of sending, whichever way each was
  written;
* `OwnerFlushed` (`Flushed`): when the slot is given back after a close by the owner, every packet
  that it sent before the close is on the wire.

Both speak of connections that were not lost or shut down (`spoiled`). `WireIntact` is about what is written
and says nothing of what will be. `StreamSound` says it of the `Stream`: what is written, the
rest of a direct write, the high list and the low list, in this order. The stream is whole
packets, the high ones of a service in order, and the rest of a direct write ends where a packet ends.
Each step of the socket thread leaves the stream as it is, or takes its front into `wire`, or
inserts one packet (`Inserted`): behind the high list, or at the end. A direct write puts its packet
behind `wire`, and that this is between two packets is what `WritesNext` says of a service from its check
under the lock on: no part of a packet is left over, and no earlier packet of the service is
in the lists or in the pipe. The order rests on the numbers of packets: `Numbered` says that those of
a service rise along the pipe and to the one it carries, and `InPlace` that those in the
stream come before these. `OwedSound` accounts for what the owner has sent: until the owner's close
has been handled each such packet is in the stream or under way, its `K` or `X` comes behind its packets
in the pipe, and once the connection ends (`Ends`) none is under way, so that an empty stream
but for `wire` means that all are written (`Emptied` is about the last step before). `LossSeen`
ties `spoiled` to the half-closed states and to events that may be about the connection before. The
arithmetic of pieces (`Start`, `Block`) is apart, in the lemmas at the head of the module.

### The core

`RuntimeProofs` proves, for any finite set of services and any number of workers, messages and
references, from `NilOutside`, `RingSizePositive`, `MaxMsgNat`, `NilIsNoMessage`,
`TimerIsNoWorker`, `UseCalls`, `FiniteNode`, `BootService` (shapes of the constants) and
`WeightsSmall` (the weights -1 to 3 of `skynet_start.c`):

* `CoreInvariant`: `Spec => []IInv`, and from it `CoreTyped` (`TypeOK`), `QueuesInOnePlace`
  (`OnePlace`), `ReferencesCounted` (`RefExact`), `NothingDangles` (`NoDangling`) and
  `ContextsCounted` (`TotalExact`);
* `PushAppends`, `PopTakesOldest` (in `SkynetMqProofs`): read from head to tail, the ring gains
  the message at its end and loses the one at its front, also when it wraps and when it doubles;
* `CoreIsMailbox`: `Spec => ImplementsMailbox`.

That a reference count is exact says nothing of the next step unless one knows who holds the
references, and this depends on where each thread stands. `Control` says which program counters
go with which locals, `Hands` what a thread has in its hands there: a queue that nobody else
can take, a context it has grabbed or is about to delete. `Life` ties a context to its queue:
they are made together, the queue outlives the context until the mark of release is found.
`Referred` says that what a handle or a queue leads to is there, `Apart` that two threads hold
different queues and that a queue in hand is in neither list (with it, `OnePlace` is kept by
each step), `Settled` what holds of contexts that are fully launched, `Messages` that each message
sent is in one place. `RefExact` counts: the references of a context are its slot in the handle
table and the threads in `Holders`, and each step changes at most one thread, so that the sets before
and after differ by one element. Of the steps, create opens a mailbox of `Mailbox`, a push posts, a pop serves,
the end of a handler finishes; kill, unregister and the retirement at exit close; the deletion
of a context seals, a dropped message is bounced, and the release of a queue lets the mailbox vanish. All
others stutter, among them the doubling of the ring and all that moves queues about.

### Handles

`HandleProofs` proves, for any contexts and names, each `SlotSize` and `HandleMask + 1` that are powers
of two with `SlotSize <= HandleMask`, under the hypothesis `Serial` that all services
are created by one thread (the launcher's):

* `StorageInvariant`: `Spec => []IInv`, and from it `StorageTyped` (`TypeOK`), `AlwaysReachable`
  (`Reachable`), `HandlesFresh` (`GivenFresh`) and `ExpansionSafe` (`ExpandAssert`);
* `StorageIsRegistry`: `Spec => ImplementsRegistry`.

`SlotsTrue` (a context in a slot hashes to it), `HandlesFound` (a handle that was given out and not
retired is in its slot), `GivenPlaced` (a handle is its context's from `register` on) and
`InOrder` (the names are sorted and differ) are what `Reachable` rests on. `Serial` is needed: with two
creators the table can be expanded while a context's handle is still 0, and TLC finds the
assertion failing. The arithmetic is in lemmas about `% n` and `% (2 * n)`: the rests of a number are
equal or `n` apart (`HalfRest`, `OtherHalf`), so the doubling files the contexts without a
clash (`Grown`). `register` tries as many handles as the table has slots; when it fails all
the slots are full, so after the doubling one try in `n` succeeds (`HalfFree`), also when the tries wrap and
skip the handle 0. For the names, `SearchLocates` says that the bisection of `skynet_handle_findname` finds
a name where it is, or that it is not there, and with the position where it belongs; `InsertedInOrder` and
`ScrubbedKeeps` that the insertion and the removal of a handle's names keep the order. Of the steps,
`register` stutters, the store of the handle announces a service of `HandleRegistry`, a retirement withdraws
it with its names, and `NameHandle` gives a name.

### Timers

`TimerProofs` proves, for any number of levels of lists, in powers of two up to the 256 and
64 of `skynet_timer.c`, any functions, any delays below half the counter (an `int` against 32 bits) and any `MaxLag` and `MaxLate`, from `NearLevel`,
`LevelsPositive`, `MaxLagPositive`, `DelayBound` and `MaxLateNat`:

* `PushKeepsHeap`, `RemoveKeepsHeap`: a push and a removal of minheap.lua leave any heap ordered, its
  index exact, and all other keys with their values;
* `TimerInvariant`: `Spec => []TimerInv`, and from it `TimersTyped` (`TypeOK`) and `HeapStaysExact`
  (`HeapExact`);
* `WheelIsAlarm`: `Spec => ImplementsAlarm`.

*The heap.* `shift_up` begins with a heap in which one node may be in the wrong place (`Aside`): all
edges are right but those of this node, and its children are not less than its parent. Either the
node is too low only (`Low`), and then all is in order when the loop ends, or it did not have to go
up and is at most too high (`High`), and `shift_down` does the rest. Each turn keeps the index and the content
(`Swapped`, `Climbed`, `Sunk`); the number of the node, halved in each turn or rising to the number of
nodes, ends the loop within the turns that the model gives it.

*The wheel.* `Place(e, t)` is the list in which at time t the nodes for tick e belong: `add_node` puts a
node there. `TimerInv` says that every node is in its place (`Placed`) and less than half the counter
ahead; without the second part a node of the past would be taken for one of the next turn. What remains
is that the places change from t to t + 1 only for the list that `timer_shift` moves. The place
depends on the lowest level above which e and t agree. `TickOn` says that e and t + 1 agree
above the same level as e and t, unless e is in the list that begins at t + 1; `TickTurn` says
it of the wrap, where all levels begin at once and what is ahead stays, or is in list 0 of the
top level. Both rest on the lemmas on quotients (`DivNext`,
`SameBlock`: of two ticks with equal quotients the rests decide). `move_list` empties
the list and adds its nodes, one by one (`MovesKeep`): nodes that belong elsewhere now arrive there, in
their order, behind what was there.

*The refinement.* `due` of `Alarm` maps a tick to its events: those in the list in hand, then those in the
tick's place (`Coming`). `FoundNone` says that with `Placed` no node is anywhere else, so that the ticks
with a node are those with events (`NodesAre`). `timer_add` is `Set`, and appends since `add_node` does. The
head of the list in hand rings, and it is of the clock's tick. A `timer_update` that
takes a list and one that moves one leave what is coming as it was; the clock leaves a tick only when
its list is empty and none is in hand, which is `TickOver`. Everything else stutters.

### What is not proved

The provers cannot instantiate the library's induction theorems. `Search`, `Scrubbed`, the loops
of the heap, `Span`, `MoveList` and `EventsAt` are functions of a number, and what they compute is
proved by least counterexample: a nonempty set of numbers has a least one (`LeastNat`), and where a
claim fails first its definition unfolds to a smaller case.

Only model-checked: every liveness property (liveness under fairness is out of the prover's
reach), among them `TimersFire`.

## 6. Not modelled

*Of the game*: requests of a role in the game, protocol encoding, logging, the order in which
the services boot, the registry of scenes, the launcher, the pool of the database and the
inside of a battle (plan, steps 7 to 10). The console, debug, shared-data and operator services
hold no state the game's correctness rests on. `watchdog.lua` is an older login path that
`game.lua` does not start. The Unity client is rendering and input.

*Of the core*: the harbor (a single node does not use it), the monitor, log and module tables
(written once, or under one lock), and the parts of the socket server and of the contexts named
in section 3.

*Vendored*: two copies of Lua, jemalloc, lpeg, the MySQL driver, XLua, TextMesh Pro. They are by
far most of the repository's lines and none of the program's own logic, so that the share of
lines that the models cover stays small: the game's logic is a few thousand lines of Lua, and
the core's files modelled here about 4,500 of C.
