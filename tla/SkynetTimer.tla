---------------------------- MODULE SkynetTimer -----------------------------
(* The timer of the skynet core (skynet_timer.c): a wheel of lists in levels *)
(* that the timer thread turns, one tick (10 ms) at a time, and to which     *)
(* every thread may add.  The lock is given up while a list is dispatched.   *)
(* The clock of skynet_now jumps by all the ticks that passed since the last *)
(* update before the first of them is executed.                              *)
(*                                                                           *)
(* skynet_now() is time + behind here, apart from a constant.                *)
EXTENDS Integers, Sequences, SequencesExt

CONSTANTS
    Near,         \* TIME_NEAR: lists of the lowest level
    Level,        \* TIME_LEVEL: lists of each level above
    Levels,       \* how many levels above (4 in the code: t[4])
    MaxLag        \* ticks that may pass between two updates

ASSUME NearLevel == Near \in {2 ^ k : k \in 1..8} /\ Level \in {2 ^ k : k \in 1..6}
ASSUME LevelsPositive == Levels \in Nat \ {0}
ASSUME MaxLagPositive == MaxLag \in Nat \ {0}

VARIABLES
    time,         \* T->time, a uint32_t
    near, wheel,  \* T->near, T->t (one level after the other): sequences of
                  \* lists of [expire, event], counted from 1
    run,          \* the list the thread dispatches
    phase,        \* timer_update is before its shift ("first") or after it
    behind        \* ticks the clock is ahead of time

timerVars == <<time, near, wheel, run, phase, behind>>

\* Ticks one list of level i stands for; the counter has as many bits as the
\* levels together.
Span[i \in 0..Levels] == IF i = 0 THEN Near ELSE Span[i - 1] * Level
Width == Span[Levels]
Top == Levels - 1

\* Where the list of time e is: near, and of level i.
NearOf(e) == (e % Near) + 1
IndexOf(e, i) == (e \div Span[i]) % Level
PlaceOf(i, j) == i * Level + j + 1

TimerInit ==
    /\ time = 0
    /\ near = [i \in 1..Near |-> <<>>]
    /\ wheel = [i \in 1..(Levels * Level) |-> <<>>]
    /\ run = <<>>
    /\ phase = "first"
    /\ behind = 0

-----------------------------------------------------------------------------
(* add_node: the lowest level at which the expiry and the time t differ only *)
(* in that level's bits and the ones below.                                  *)
LevelOf(e, t) ==
    CHOOSE i \in 0..Top :
        /\ i = Top \/ e \div Span[i + 1] = t \div Span[i + 1]
        /\ \A j \in 0..(i - 1) : e \div Span[j + 1] # t \div Span[j + 1]

AddNode(tab, n, t) ==
    IF n.expire \div Near = t \div Near
    THEN [tab EXCEPT !.near[NearOf(n.expire)] = Append(@, n)]
    ELSE LET i == LevelOf(n.expire, t)
         IN  [tab EXCEPT !.wheel[PlaceOf(i, IndexOf(n.expire, i))] = Append(@, n)]

\* move_list: the nodes of a list are added again, in their order.
MoveList(tab, i, j, t) ==
    LET list == tab.wheel[PlaceOf(i, j)]
        add[k \in 0..Len(list)] ==
            IF k = 0 THEN [tab EXCEPT !.wheel[PlaceOf(i, j)] = <<>>]
            ELSE AddNode(add[k - 1], list[k], t)
    IN  add[Len(list)]

ShiftedUnwrapped(tab, t) ==
    LET level == {i \in 0..Top : t % Span[i] = 0 /\ IndexOf(t, i) # 0}
    IN  IF level = {} THEN tab
        ELSE LET i == CHOOSE i \in level : TRUE IN MoveList(tab, i, IndexOf(t, i), t)

\* timer_shift: the list that begins at the new time t is moved down.
Shifted(tab, t) ==
    LET level == {i \in 0..Top : t % Span[i] = 0 /\ IndexOf(t, i) # 0}
    IN  IF t = 0 THEN MoveList(tab, Top, 0, t)
        ELSE IF level = {} THEN tab
        ELSE LET i == CHOOSE i \in level : TRUE IN MoveList(tab, i, IndexOf(t, i), t)

Table == [near |-> near, wheel |-> wheel]

SetTable(tab) == near' = tab.near /\ wheel' = tab.wheel

TimerAddUnwrapped(ev, d) ==
    /\ SetTable(AddNode(Table, [expire |-> time + d, event |-> ev], time))
    /\ UNCHANGED <<time, run, phase, behind>>

\* timer_add
TimerAdd(ev, d) ==
    /\ SetTable(AddNode(Table, [expire |-> (time + d) % Width, event |-> ev], time))
    /\ UNCHANGED <<time, run, phase, behind>>

-----------------------------------------------------------------------------
(* skynet_updatetime: current += diff, then a timer_update for each tick.    *)
UpdateTime(d) ==
    /\ phase = "first"
    /\ behind = 0
    /\ behind' = d
    /\ UNCHANGED <<time, near, wheel, run, phase>>

\* The list of time t is taken off the wheel and the lock is given up.
TakeList(tab, t) ==
    /\ run' = tab.near[NearOf(t)]
    /\ SetTable([tab EXCEPT !.near[NearOf(t)] = <<>>])

(* timer_update under its lock: the list of the current tick, then the       *)
(* shift and the list of the next one; again when the thread comes back from *)
(* a dispatch.                                                               *)
TimerUpdate ==
    /\ run = <<>>
    /\ phase = "second" \/ behind > 0
    /\ IF near[NearOf(time)] # <<>>
       THEN TakeList(Table, time) /\ UNCHANGED <<time, phase, behind>>
       ELSE IF phase = "first"
       THEN /\ time' = (time + 1) % Width
            /\ TakeList(Shifted(Table, time'), time')
            /\ behind' = behind - 1
            /\ phase' = IF run' = <<>> THEN "first" ELSE "second"
       ELSE phase' = "first" /\ UNCHANGED <<time, near, wheel, run, behind>>

\* dispatch_list: the head of the list is pushed to its service.
DispatchHead ==
    /\ run # <<>>
    /\ run' = Tail(run)
    /\ UNCHANGED <<time, near, wheel, phase, behind>>

-----------------------------------------------------------------------------
\* Every node there is, list by list.
AllNodes == run \o FlattenSeq(near \o wheel)

\* Ticks until a node is dispatched, by skynet_now().
Left(n) == ((n.expire - time) % Width) - behind

\* The events of a list that are for tick e, in the order they are found in.
EventsAt(l, e) ==
    LET found[k \in 0..Len(l)] ==
            IF k = 0 THEN <<>>
            ELSE IF l[k].expire = e THEN Append(found[k - 1], l[k].event)
            ELSE found[k - 1]
    IN  found[Len(l)]

\* What is found at tick e: in the list in hand, then in the list of the wheel
\* to which the nodes of this tick belong.
Place(e, t) ==
    IF e \div Near = t \div Near THEN <<"near", NearOf(e)>>
    ELSE LET i == LevelOf(e, t) IN <<"wheel", PlaceOf(i, IndexOf(e, i))>>

ListAt(tab, p) == IF p[1] = "near" THEN tab.near[p[2]] ELSE tab.wheel[p[2]]

Coming(e) == EventsAt(run, e) \o EventsAt(ListAt(Table, Place(e, time)), e)

\* The ticks for which there are events, and these.
Expiring ==
    LET nodes == UNION {Range(l) : l \in {run} \cup Range(near) \cup Range(wheel)}
    IN  [e \in {n.expire : n \in nodes} |-> Coming(e)]

=============================================================================
