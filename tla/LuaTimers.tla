----------------------------- MODULE LuaTimers ------------------------------
(* The timers of one Lua service (skynet_lib/skynet.lua:1108-1170): a heap   *)
(* of functions to call, and a stack of the times for which the service has  *)
(* asked the core for a timeout.  A timeout is asked for only when the next  *)
(* function is due before all of them.  The service runs one coroutine at a  *)
(* time.  A function that timer_loop calls may yield (gate.check waits in    *)
(* socket.close, role.check in its save, check_tick of scene_collision in    *)
(* create_battle): then other messages are handled, among them timeouts,     *)
(* each with a timer_loop of its own.  The clock runs, and the core's timer  *)
(* turns, all the while.                                                     *)
(*                                                                           *)
(* Times are kept relative to skynet_now(): a time v stands for now + v, so  *)
(* that the clock may run for ever.                                          *)
EXTENDS SkynetTimer, MinHeap, FiniteSets

CONSTANTS
    Intvl,        \* in how many ticks a function is pushed to run
    Delay,        \* timeouts of other services
    MaxLate,      \* bound: how late the service may be
    MaxWait       \* bound: loops of one tick that wait at a time

ASSUME DelayBound == Intvl \cup Delay \subseteq 1..(Width \div 2 - 1)
ASSUME MaxLateNat == MaxLate \in Nat
ASSUME MaxWaitNat == MaxWait \in Nat

VARIABLES
    heap,         \* __timers
    timeouts,     \* __timeouts
    box,          \* timeouts that have come, not handled yet
    pc, ret,      \* the coroutine that runs: none ("idle": a message may be
                  \* handled), timer_check ("ask", then on at ret), timer_loop
                  \* ("loop") or a function that it calls ("fun")
    now,          \* the local now of the timer_loop that runs
    intvl,        \* the local intvl of timer_check
    waits         \* how many timer_loops with this now wait in a function

luaVars == <<heap, timeouts, box, pc, ret, now, intvl, waits>>
vars == <<timerVars, luaVars>>

\* What a local now may be, relative to the clock.
Late == (-MaxLate)..0

Init ==
    /\ TimerInit
    /\ heap = EmptyHeap
    /\ timeouts = <<>>
    /\ box = 0
    /\ pc = "idle"
    /\ ret = "idle"
    /\ now = 0
    /\ intvl = 0
    /\ waits = [n \in Late |-> 0]

-----------------------------------------------------------------------------
(* The timer thread                                                          *)

Shift(h, d) == [h EXCEPT !.nodes = [i \in 1..Size(h) |-> [h.nodes[i] EXCEPT !.value = @ - d]]]

\* The clock moves: what was v ticks ahead is v - d ticks ahead.  It waits
\* for a service that is MaxLate ticks or messages late.
ClockMoves(d) ==
    /\ UpdateTime(d)
    /\ box <= MaxLate
    /\ pc = "ask" => intvl - (Value(heap, 1) - d) <= MaxLate
    /\ heap' = Shift(heap, d)
    /\ timeouts' = [i \in 1..Len(timeouts) |-> timeouts[i] - d]
    /\ now' = IF pc \in {"loop", "fun"} \/ ret = "fun" THEN now - d ELSE 0
    /\ now' >= -MaxLate
    /\ waits' = [n \in Late |-> IF n + d \in Late THEN waits[n + d] ELSE 0]
    /\ \A n \in Late : n - d < -MaxLate => waits[n] = 0
    /\ \A i \in 1..Size(heap) : Value(heap, i) - d >= -MaxLate
    /\ \A i \in 1..Len(timeouts) : timeouts[i] - d >= -MaxLate
    /\ UNCHANGED <<box, pc, ret, intvl>>

Turn == TimerUpdate /\ UNCHANGED luaVars

PushResponse ==
    /\ DispatchHead
    /\ box' = IF Head(run).event = "own" THEN box + 1 ELSE box
    /\ UNCHANGED <<heap, timeouts, pc, ret, now, intvl, waits>>

\* Another service asks for a timeout, one at a time.
OtherTimeout(d) ==
    /\ \A i \in DOMAIN AllNodes : AllNodes[i].event # "other"
    /\ TimerAdd("other", d)
    /\ UNCHANGED luaVars

-----------------------------------------------------------------------------
(* The service                                                               *)

\* timer_check, then on at r: is the next function of heap h due before all
\* timeouts asked for?
Check(h, asked, r) ==
    IF Size(h) > 0 /\ (asked = <<>> \/ Value(h, 1) < Last(asked))
    THEN /\ pc' = "ask"
         /\ ret' = r
         /\ intvl' = IF Value(h, 1) <= 0 THEN 0 ELSE Value(h, 1)
    ELSE pc' = r /\ UNCHANGED <<ret, intvl>>

\* timer_push_ends and timer_remove, in the handler of some message or in a
\* function that timer_loop called: of any function, the one called included.
PushEnds(k, d) ==
    /\ pc \in {"idle", "fun"}
    /\ heap' = HeapPush(heap, k, d)
    /\ Check(heap', timeouts, pc)
    /\ UNCHANGED <<timerVars, timeouts, box, now, waits>>

TimerRemove(k) ==
    /\ pc \in {"idle", "fun"}
    /\ heap' = HeapRemove(heap, k)
    /\ Check(heap', timeouts, pc)
    /\ UNCHANGED <<timerVars, timeouts, box, now, waits>>

\* skynet.timeout: the core counts the interval from the tick it is at.
Ask ==
    /\ pc = "ask"
    /\ timeouts' = Append(timeouts, Value(heap, 1))
    /\ IF intvl = 0
       THEN box' = box + 1 /\ UNCHANGED timerVars
       ELSE TimerAdd("own", intvl) /\ UNCHANGED box
    /\ pc' = ret
    /\ ret' = "idle"
    /\ intvl' = 0
    /\ UNCHANGED <<heap, now, waits>>

\* timers_dispatch: the message of a timeout is handled.
Serve ==
    /\ pc = "idle"
    /\ box > 0
    /\ box' = box - 1
    /\ now' = 0
    /\ pc' = "loop"
    /\ UNCHANGED <<timerVars, heap, timeouts, ret, intvl, waits>>

RootDue == Size(heap) > 0 /\ Value(heap, 1) <= now

\* The function that is due first is taken out of the heap and called.
Call ==
    /\ pc = "loop"
    /\ RootDue
    /\ heap' = HeapRemove(heap, heap.nodes[1].key)
    /\ pc' = "fun"
    /\ UNCHANGED <<timerVars, timeouts, box, ret, now, intvl, waits>>

\* It returns or raises (skynet.pcall), and the loop goes on.
Return ==
    /\ pc = "fun"
    /\ pc' = "loop"
    /\ UNCHANGED <<timerVars, heap, timeouts, box, ret, now, intvl, waits>>

\* It yields, and its loop with it ...
Yield ==
    /\ pc = "fun"
    /\ waits[now] < MaxWait
    /\ waits' = [waits EXCEPT ![now] = @ + 1]
    /\ now' = 0
    /\ pc' = "idle"
    /\ UNCHANGED <<timerVars, heap, timeouts, box, ret, intvl>>

\* ... until what it waits for comes, and it goes on where it was.
Resume(n) ==
    /\ pc = "idle"
    /\ waits[n] > 0
    /\ waits' = [waits EXCEPT ![n] = @ - 1]
    /\ now' = n
    /\ pc' = "fun"
    /\ UNCHANGED <<timerVars, heap, timeouts, box, ret, intvl>>

LoopEndsKeeps ==
    /\ pc = "loop"
    /\ ~RootDue
    /\ Check(heap, timeouts, "idle")
    /\ now' = 0
    /\ UNCHANGED <<timerVars, heap, timeouts, box, waits>>

\* The stack without the times at its end that are over.
Outstanding(asked) ==
    LET last == CHOOSE k \in 0..Len(asked) :
                    /\ k = 0 \/ asked[k] > now
                    /\ \A i \in (k + 1)..Len(asked) : asked[i] <= now
    IN  SubSeq(asked, 1, last)

\* Nothing more is due: the timeouts that are over are forgotten.
LoopEnds ==
    /\ pc = "loop"
    /\ ~RootDue
    /\ timeouts' = Outstanding(timeouts)
    /\ Check(heap, timeouts', "idle")
    /\ now' = 0
    /\ UNCHANGED <<timerVars, heap, box, waits>>

-----------------------------------------------------------------------------
Next ==
    \/ \E d \in 1..MaxLag : ClockMoves(d)
    \/ Turn
    \/ PushResponse
    \/ \E d \in Delay : OtherTimeout(d)
    \/ \E k \in Key : TimerRemove(k) \/ \E d \in Intvl : PushEnds(k, d)
    \/ Ask \/ Serve \/ Call \/ Return \/ Yield \/ LoopEnds
    \/ \E n \in Late : Resume(n)

Spec == Init /\ [][Next]_vars

(* Time passes, the timer thread turns the wheel, and the service handles    *)
(* its messages, which come in a queue: one that waits gets its turn.  What  *)
(* a function waits for comes, and a function ends.                          *)
Fairness ==
    /\ WF_vars(\E d \in 1..MaxLag : ClockMoves(d))
    /\ WF_vars(Turn)
    /\ WF_vars(PushResponse)
    /\ WF_vars(Ask) /\ WF_vars(Call) /\ WF_vars(LoopEnds)
    /\ SF_vars(Serve)
    /\ SF_vars(\E n \in Late : Resume(n))
    /\ SF_vars(Return)

LiveSpec == Spec /\ Fairness

-----------------------------------------------------------------------------
Timed == [expire: 0..(Width - 1), event: {"own", "other"}]

Tables == [near: [1..Near -> Seq(Timed)], wheel: [1..(Levels * Level) -> Seq(Timed)]]

TypeOK ==
    /\ time \in 0..(Width - 1)
    /\ behind \in 0..MaxLag
    /\ phase \in {"first", "second"}
    /\ run \in Seq(Timed)
    /\ Table \in Tables
    /\ heap \in Heap
    /\ timeouts \in Seq(Int)
    /\ box \in Nat
    /\ pc \in {"idle", "ask", "loop", "fun"} /\ ret \in {"idle", "fun"}
    /\ intvl \in 0..(Width \div 2 - 1)
    /\ now \in Late
    /\ waits \in [Late -> Nat]

(* The service's heap is a heap, and its index leads to the node of each     *)
(* key, after pushes, updates and removals in its middle.                    *)
HeapExact ==
    /\ \A i \in 2..Size(heap) : Value(heap, i \div 2) <= Value(heap, i)
    /\ \A i \in 1..Size(heap) : heap.index[heap.nodes[i].key] = i
    /\ \A k \in Key : heap.index[k] # 0 => heap.nodes[heap.index[k]].key = k

(* For every time ahead that the service has asked for, a timeout is         *)
(* outstanding that does not come before that time, by skynet_now().  The    *)
(* stack is sorted, the latest time first.                                   *)
NotEarly ==
    \A i \in 1..Len(timeouts) :
        timeouts[i] > 0 =>
            i <= Len(SelectSeq(AllNodes, LAMBDA n : n.event = "own" /\ Left(n) >= timeouts[i]))

(* While no timeout comes early, a function that is due is called (or is     *)
(* removed or pushed to a later time): one timeout for the earliest function *)
(* is enough, whatever is pushed and removed while it is outstanding.        *)
Due(k) == heap.index[k] # 0 /\ heap.nodes[heap.index[k]].value <= 0

TimersFire == []NotEarly => \A k \in Key : Due(k) ~> ~Due(k)

(* The wheel implements Alarm: timeouts fire at their tick and in order.     *)
Core == INSTANCE Alarm WITH
    Event <- {"own", "other"},
    clock <- time,
    due <- Expiring

ImplementsAlarm == Core!AlarmSpec

-----------------------------------------------------------------------------
(* What HeapExact and ImplementsAlarm rest on.                               *)

Places == ({"near"} \X (1..Near)) \cup ({"wheel"} \X (1..(Levels * Level)))

\* The nodes are in the lists where time t will find them, and not past.
Placed(tab, t) ==
    \A p \in Places : \A k \in 1..Len(ListAt(tab, p)) :
        LET e == ListAt(tab, p)[k].expire
        IN  p = Place(e, t) /\ (e - t) % Width < Width \div 2

TimerInv ==
    /\ TypeOK
    /\ Right(heap)
    /\ \A i \in 1..Size(heap) : Value(heap, i) < Width \div 2
    /\ pc = "ask" => Size(heap) > 0
    /\ Placed(Table, time)
    /\ \A k \in 1..Len(run) : run[k].expire = time

=============================================================================
