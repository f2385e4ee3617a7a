----------------------------- MODULE SceneMarch -----------------------------
(* Marches, collisions and the start of battles in one scene service         *)
(* (scene.lua, scene_collision.lua, component/march_component.lua).  A march  *)
(* is a chain of timers: every tick asks for the next one.  The collision     *)
(* tick is another.  They share the heap of minheap.lua, which is kept here   *)
(* as the set of the timers it would call, and the ones it has lost.          *)
(*                                                                            *)
(* Every role has a troop, and at most one tank.  Positions are kept as the   *)
(* number of ticks a march has left; which objects are near is left open.  A  *)
(* march goes to a place or to a monster, which does not move; create_battle  *)
(* succeeds.                                                                  *)
EXTENDS Integers, FiniteSets

CONSTANTS
    Nil,        \* no object, no timer
    Pos,        \* a target that is a place
    Role,       \* roles that have entered the scene
    Nest,       \* monsters
    MaxWay,     \* ticks that a march takes at most
    MaxMarch,   \* bound on the marches that are ordered
    MaxBattle   \* bound on the battles

Troops == {"troop"} \X Role
Tanks == {"tank"} \X Role
Monsters == {"monster"} \X Nest
Obj == Troops \cup Tanks \cup Monsters

CollideTick == <<"collide", Nil>>
Marches == {"march"} \X Troops
Timers == Marches \cup {CollideTick}

\* Who may be in try_start_battle: the collision tick, or the handler of a
\* tank's move.
Handlers == {CollideTick} \cup Tanks

Battles == 1..MaxBattle

VARIABLES
    objs,       \* __objects of scene_objmgr
    state,      \* obj.state
    pushed,     \* how often the march component is in obj.cur_components
    stopping,   \* obj._is_stopping_component
    goal, way,  \* where a march goes to, and how many ticks it has left
    near,       \* __objs of scene_collision
    armed,      \* timers in the heap
    lost,       \* timers whose place in the index is no number
    held,       \* the node that remove has put under that place
    at,         \* where a handler is: not running, in its loop, in create_battle
    battle,     \* the battles: who fights, and whether create_battle has answered
    ordered     \* marches ordered so far

heapVars == <<armed, lost, held>>
objVars == <<state, pushed, stopping, goal, way, near>>
vars == <<objs, objVars, heapVars, at, battle, ordered>>

Init ==
    /\ objs = Troops \cup Monsters
    /\ state = [o \in Obj |-> "IDLE"]
    /\ pushed = [o \in Obj |-> 0]
    /\ stopping = [o \in Obj |-> FALSE]
    /\ goal = [t \in Troops |-> Nil]
    /\ way = [t \in Troops |-> 0]
    /\ near = {}
    /\ armed = {CollideTick}
    /\ lost = {}
    /\ held = Nil
    /\ at = [h \in Handlers |-> "off"]
    /\ battle = [b \in Battles |-> [phase |-> "none", left |-> Nil, right |-> Nil, by |-> Nil,
                               listed |-> FALSE]]
    /\ ordered = 0

-----------------------------------------------------------------------------
(* The heap *)

\* minheap:push.  A timer that is in the index but not in the heap is updated
\* at a place that is no number: shift_up raises.
CanPush(k) == k \notin lost

\* The index has an entry for march_component.check_tick.
Indexed(a, l) == (a \cup l) \cap Marches # {}

\* minheap:remove without the object's id, from a heap with the timers a:
\* get_index answers the table of all the marches instead of a place, so the
\* last node is moved under that table, the node that was there, if any, takes
\* its place and is removed, and then remove raises.
RemoveRaises(a, h) ==
    IF a = {}
    THEN armed' = a /\ held' = Nil /\ UNCHANGED lost
    ELSE \E last \in a :
            /\ armed' = a \ {last}
            /\ lost' = (lost \ {h}) \cup {last}
            /\ held' = IF Indexed(armed', lost') THEN last ELSE Nil

\* minheap:pop.  The table of all the marches goes with the last of them.
Held(a) == IF Indexed(a, lost) THEN held ELSE Nil

Pop(k) ==
    /\ armed' = armed \ {k}
    /\ held' = Held(armed \ {k})
    /\ UNCHANGED lost

-----------------------------------------------------------------------------
(* Marches *)

Quiet == \A h \in Handlers : at[h] # "loop"

\* scene.m_scene_march_tos and march_component:start
MarchStart(t, to) ==
    /\ Quiet
    /\ ordered < MaxMarch
    /\ to \in Monsters => to \in objs
    /\ state[t] # "MARCH"
    /\ ordered' = ordered + 1
    /\ state' = [state EXCEPT ![t] = "MARCH"]
    /\ goal' = [goal EXCEPT ![t] = to]
    /\ \E n \in 0..MaxWay : way' = [way EXCEPT ![t] = n]
    /\ pushed' = [pushed EXCEPT ![t] = @ + 1]
    /\ near' = near \cup {t}
    /\ armed' = IF CanPush(<<"march", t>>) THEN armed \cup {<<"march", t>>} ELSE armed
    /\ UNCHANGED <<objs, stopping, lost, held, at, battle>>

Arrived(t) == goal[t] \in Monsters \ objs \/ goal[t] = Nil \/ way[t] = 0

\* march_component:tick.  Its timer has been popped; the next one is pushed
\* under the same key.
Tick(t) ==
    LET k == <<"march", t>>
        left == armed \ {k}
    IN  /\ Quiet
        /\ k \in armed
        /\ \/ /\ state[t] # "MARCH"
              /\ Pop(k)
              /\ UNCHANGED objVars
           \/ /\ state[t] = "MARCH" /\ ~Arrived(t)
              /\ way' = [way EXCEPT ![t] = @ - 1]
              /\ held' = Held(left)
              /\ UNCHANGED <<armed, lost, state, pushed, stopping, goal, near>>
           \/ /\ state[t] = "MARCH" /\ Arrived(t) /\ stopping[t]
              /\ Pop(k)
              /\ UNCHANGED objVars
           \/ /\ state[t] = "MARCH" /\ Arrived(t) /\ ~stopping[t] /\ Indexed(left, lost)
              /\ RemoveRaises(left, Held(left))
              /\ stopping' = [stopping EXCEPT ![t] = TRUE]
              /\ UNCHANGED <<state, pushed, goal, way, near>>
           \/ /\ state[t] = "MARCH" /\ Arrived(t) /\ ~stopping[t] /\ ~Indexed(left, lost)
              /\ Pop(k)
              /\ state' = [state EXCEPT ![t] = "IDLE"]
              /\ pushed' = [pushed EXCEPT ![t] = @ - 1]
              /\ goal' = [goal EXCEPT ![t] = Nil]
              /\ near' = near \ {t}
              /\ UNCHANGED <<stopping, way>>
        /\ UNCHANGED <<objs, at, battle, ordered>>

-----------------------------------------------------------------------------
(* Collisions *)

CollideStart ==
    /\ Quiet
    /\ CollideTick \in armed
    /\ Pop(CollideTick)
    /\ at' = [at EXCEPT ![CollideTick] = "loop"]
    /\ UNCHANGED <<objs, objVars, battle, ordered>>

\* scene.m_scene_gen_tank_tos
GenTank(k) ==
    /\ Quiet
    /\ objs' = objs \cup {k}
    /\ UNCHANGED <<objVars, heapVars, at, battle, ordered>>

\* scene.m_scene_tank_move_tos, of a tank that can move
TankMove(k) ==
    /\ Quiet
    /\ k \in objs /\ state[k] = "IDLE" /\ at[k] = "off"
    /\ at' = [at EXCEPT ![k] = "loop"]
    /\ UNCHANGED <<objs, objVars, heapVars, battle, ordered>>

LoopEnd(h) ==
    /\ at[h] = "loop"
    /\ at' = [at EXCEPT ![h] = "off"]
    /\ armed' = IF h = CollideTick THEN armed \cup {h} ELSE armed
    /\ UNCHANGED <<objs, objVars, lost, held, battle, ordered>>

CanBattle(o) == state[o] # "BATTLE"

OtherCamp(o, p) == o \in Monsters \/ p \in Monsters \/ o[2] # p[2]

\* obj:stop_all_component does something
Stops(o) == pushed[o] > 0 /\ ~stopping[o]

Meet(h, o, p) ==
    /\ at[h] = "loop"
    /\ IF h = CollideTick THEN o \in near ELSE o = h
    /\ p \in objs \ {o}
    /\ CanBattle(o) /\ CanBattle(p) /\ OtherCamp(o, p)

\* try_start_battle where a stop raises, and with it the handler.
MeetRaises(h, o, p) ==
    /\ Meet(h, o, p)
    /\ Indexed(armed, lost)
    /\ \E x \in {o, p} :
          /\ Stops(x) /\ (x = p => ~Stops(o))
          /\ stopping' = [stopping EXCEPT ![x] = TRUE]
    /\ RemoveRaises(armed, held)
    /\ at' = [at EXCEPT ![h] = "off"]
    /\ UNCHANGED <<objs, state, pushed, goal, way, near, battle, ordered>>

\* try_start_battle up to its call of create_battle
MeetFights(h, o, p) ==
    LET S == {x \in {o, p} : Stops(x)}
    IN  /\ Meet(h, o, p)
        /\ S # {} => ~Indexed(armed, lost)
        /\ state' = [state EXCEPT ![o] = "BATTLE", ![p] = "BATTLE"]
        /\ pushed' = [x \in Obj |-> IF x \in S THEN 0 ELSE pushed[x]]
        /\ goal' = [t \in Troops |-> IF t \in S THEN Nil ELSE goal[t]]
        /\ near' = near \ S
        /\ \E b \in Battles :
              /\ battle[b].phase = "none" /\ \A c \in 1..(b - 1) : battle[c].phase # "none"
              /\ battle' = [battle EXCEPT ![b] = [phase |-> "asked", left |-> o, right |-> p,
                                                  by |-> h, listed |-> FALSE]]
        /\ at' = [at EXCEPT ![h] = "call"]
        /\ UNCHANGED <<objs, stopping, way, heapVars, ordered>>

-----------------------------------------------------------------------------
(* Battles *)

\* scenemgr.createn: the battle service runs.
Launched(b) ==
    /\ battle[b].phase = "asked"
    /\ battle' = [battle EXCEPT ![b].phase = "up"]
    /\ UNCHANGED <<objs, objVars, heapVars, at, ordered>>

\* create_battle returns.
Created(b) ==
    LET h == battle[b].by
    IN  /\ Quiet
        /\ battle[b].phase \in {"up", "over"} /\ h # Nil
        /\ battle' = [battle EXCEPT ![b].by = Nil, ![b].listed = TRUE]
        /\ at' = [at EXCEPT ![h] = "loop"]
        /\ UNCHANGED <<objs, objVars, heapVars, ordered>>

\* scene.settle_battle.  An object that is not found raises.
SettleBattle(b) ==
    LET l == battle[b].left
        r == battle[b].right
        done == IF l \notin objs THEN {} ELSE {l, r} \cap objs
    IN  /\ Quiet
        /\ battle[b].phase = "up"
        /\ battle' = [battle EXCEPT ![b].phase = "over", ![b].listed = FALSE]
        /\ state' = [o \in Obj |-> IF o \in done \ Monsters THEN "IDLE" ELSE state[o]]
        /\ objs' = objs \ (done \cap Monsters)
        /\ UNCHANGED <<pushed, stopping, goal, way, near, heapVars, at, ordered>>

-----------------------------------------------------------------------------
Next ==
    \/ \E t \in Troops : Tick(t) \/ \E to \in Monsters \cup {Pos} : MarchStart(t, to)
    \/ \E k \in Tanks : GenTank(k) \/ TankMove(k)
    \/ CollideStart
    \/ \E h \in Handlers :
          \/ LoopEnd(h)
          \/ \E o, p \in Obj : MeetRaises(h, o, p) \/ MeetFights(h, o, p)
    \/ \E b \in Battles : Launched(b) \/ Created(b) \/ SettleBattle(b)

\* A timer that is due is called (LuaTimers), unless the collision tick keeps
\* timer_loop waiting for create_battle; a handler returns; a battle is created,
\* and is settled after 20 seconds at the latest (scene_battle.check_result).
\* What waits for a handler in its loop is strongly fair: in the code such a loop
\* is one turn of the service.
Fairness ==
    /\ \A t \in Troops : SF_vars(at[CollideTick] # "call" /\ Tick(t))
    /\ SF_vars(CollideStart)
    /\ \A h \in Handlers : WF_vars(LoopEnd(h))
    /\ \A b \in Battles : WF_vars(Launched(b)) /\ SF_vars(Created(b)) /\ SF_vars(SettleBattle(b))

Spec == Init /\ [][Next]_vars /\ Fairness

\* A troop that marches gets to its target, or into a battle on the way
\* (march_component "moves the object to its target", README.md:169), however
\* many other troops march.
MarchEnds == \A t \in Troops : state[t] = "MARCH" ~> state[t] # "MARCH"
=============================================================================
