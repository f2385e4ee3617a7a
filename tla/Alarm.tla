------------------------------- MODULE Alarm --------------------------------
(* What the timer of the skynet core promises: an event that is set at d     *)
(* ticks from now fires in the d-th tick from now, events of one tick fire   *)
(* in the order they were set, and none is lost, also when the counter of    *)
(* ticks wraps.                                                              *)
EXTENDS Integers, Sequences

CONSTANTS
    Event,
    Width         \* number of ticks before the counter wraps

VARIABLES
    clock,        \* the current tick
    due           \* for each tick that has events, these: first to fire first

alarmVars == <<clock, due>>

AlarmInit ==
    /\ clock = 0
    /\ due = [e \in {} |-> <<>>]

\* The list of one tick grows.  A delay is an int and the counter a uint32_t:
\* it is less than half of the width.
Set ==
    LET old == due
        new == due'
    IN  /\ UNCHANGED clock
        /\ new # old
        /\ \E e \in DOMAIN new :
              /\ (e - clock) % Width \in 1..(Width \div 2 - 1)
              /\ DOMAIN new = DOMAIN old \cup {e}
              /\ \E ev \in Event :
                    new[e] = Append(IF e \in DOMAIN old THEN old[e] ELSE <<>>, ev)
              /\ \A f \in DOMAIN old \ {e} : new[f] = old[f]

Ring ==
    LET old == due
        new == due'
    IN  /\ UNCHANGED clock
        /\ new # old
        /\ clock \in DOMAIN old
        /\ new = IF Len(old[clock]) = 1
                 THEN [f \in DOMAIN old \ {clock} |-> old[f]]
                 ELSE [old EXCEPT ![clock] = Tail(@)]

TickOver ==
    /\ clock' = (clock + 1) % Width
    /\ clock \notin DOMAIN due
    /\ UNCHANGED due

AlarmNext == Set \/ Ring \/ TickOver

AlarmSpec == AlarmInit /\ [][AlarmNext]_alarmVars

=============================================================================
