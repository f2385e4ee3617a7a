------------------------------ MODULE Runtime -------------------------------
(* The threads of the skynet core (skynet_start.c): workers that fetch       *)
(* queues from the global queue, sleep when there is none and are woken only *)
(* by the timer thread (a push signals nobody), and the end of the program   *)
(* when no service is left.  Together with SkynetServer this is the whole    *)
(* core between the creation of the threads and their join.                  *)
EXTENDS SkynetServer

CONSTANTS
    Boot          \* the bootstrap service, created before the threads

ASSUME BootService == Boot \in Svc

VARIABLES
    quit          \* monitor.quit

vars == <<serverVars, quit>>

Start == [id |-> 0, src |-> Boot, err |-> FALSE]

\* skynet_start: the bootstrap service has sent itself its script.
Init ==
    /\ mq = [c \in Svc |-> IF c = Boot THEN Pushed(NewQueue, Start) ELSE NoQueue("none")]
    /\ gmq = <<Boot>>
    /\ ctx = [c \in Svc |-> IF c = Boot
                            THEN [st |-> "live", ref |-> 1, handle |-> Boot, init |-> TRUE]
                            ELSE NoContext("none")]
    /\ slot = {Boot}
    /\ total = 1
    /\ sent = 0
    /\ pc = [t \in Thread |-> IF t = Timer THEN "tick" ELSE "top"]
    /\ ret = [t \in Thread |-> "none"]
    /\ q = [t \in Thread |-> Nil]
    /\ nq = [t \in Thread |-> Nil]
    /\ cur = [t \in Thread |-> Nil]
    /\ op = [t \in Thread |-> Nil]
    /\ new = [t \in Thread |-> Nil]
    /\ dq = [t \in Thread |-> Nil]
    /\ got = [t \in Thread |-> Nil]
    /\ out = [t \in Thread |-> Nil]
    /\ dest = [t \in Thread |-> Nil]
    /\ turn = [t \in Thread |-> 0]
    /\ batch = [t \in Thread |-> 1]
    /\ todo = [t \in Thread |-> {}]
    /\ seen = [t \in Thread |-> FALSE]
    /\ quit = FALSE

-----------------------------------------------------------------------------
(* thread_worker                                                             *)

allButPc == <<mq, gmq, ctxVars, sent, ret, q, nq, cur, op, new, dq, callVars>>

OnlyPc == UNCHANGED <<allButPc, quit>>

\* The mutex of the monitor is held between ++sleep and pthread_cond_wait.
MutexFree == \A w \in Worker : pc[w] # "doze"

\* m->sleep
Sleeping == {w \in Worker : pc[w] \in {"doze", "wait", "woken"}}

\* while (!m->quit)
Quit(t) ==
    /\ pc[t] = "top"
    /\ quit
    /\ Goto(t, "done")
    /\ OnlyPc

\* The dispatch begins with the queue the last one returned, if any.
KeepOn(t) ==
    /\ pc[t] = "top"
    /\ ~quit
    /\ q[t] # Nil
    /\ Goto(t, "grab")
    /\ OnlyPc

\* skynet_globalmq_pop, at the begin of a dispatch and at its early ends.
Fetch(t) ==
    /\ \/ pc[t] = "top" /\ ~quit /\ q[t] = Nil /\ PopGlobal(t, "grab", "sleep")
       \/ pc[t] = "next" /\ PopGlobal(t, "top", "sleep")
    /\ UNCHANGED <<mq, ctxVars, sent, ret, nq, cur, op, new, dq, callVars, quit>>

FallAsleep(t) ==
    /\ pc[t] = "sleep"
    /\ MutexFree
    /\ Goto(t, "doze")
    /\ OnlyPc

\* pthread_cond_wait, unless quit is set; both give the mutex back.
Wait(t) ==
    /\ pc[t] = "doze"
    /\ Goto(t, IF quit THEN "top" ELSE "wait")
    /\ OnlyPc

WakeUp(t) ==
    /\ pc[t] = "woken"
    /\ MutexFree
    /\ Goto(t, "top")
    /\ OnlyPc

-----------------------------------------------------------------------------
(* thread_timer                                                              *)

\* A timer is due: its service gets a message from source 0.
TimerSend ==
    /\ pc[Timer] = "tick"
    /\ "timeout" \in Use
    /\ sent < MaxMsg
    /\ sent' = sent + 1
    /\ \E h \in Known : StartSend(Timer, h, [id |-> sent + 1, src |-> Nil, err |-> FALSE], "tick")
    /\ UNCHANGED <<mq, gmq, ctxVars, q, nq, cur, op, new, dq, got, turn, batch, todo, seen, quit>>

\* wakeup(m, m->count - 1): signal one sleeping worker, if any is asleep.
\* A signal is lost on a worker that holds the mutex and does not wait yet.
TimerWakeup ==
    /\ pc[Timer] = "tick"
    /\ total # 0
    /\ Cardinality(Sleeping) >= 1
    /\ \E w \in Worker : pc[w] = "wait" /\ Goto(w, "woken")
    /\ OnlyPc

\* CHECK_ABORT: no service is left.
TimerAbort ==
    /\ pc[Timer] = "tick"
    /\ total = 0
    /\ Goto(Timer, "stop")
    /\ OnlyPc
TimerQuitSilent ==
    /\ pc[Timer] = "stop"
    /\ MutexFree
    /\ quit' = TRUE
    /\ Goto(Timer, "done")
    /\ UNCHANGED allButPc

TimerQuit ==
    /\ pc[Timer] = "stop"
    /\ MutexFree
    /\ quit' = TRUE
    /\ pc' = [t \in Thread |-> IF t = Timer THEN "done"
                               ELSE IF pc[t] = "wait" THEN "woken" ELSE pc[t]]
    /\ UNCHANGED allButPc

-----------------------------------------------------------------------------
WorkerStep(w) ==
    \/ Quit(w) \/ KeepOn(w) \/ Fetch(w) \/ FallAsleep(w) \/ Wait(w) \/ WakeUp(w)
    \/ (Core(w) \/ Dispatch(w)) /\ UNCHANGED quit

HandlerStep(w) == Handler(w) /\ UNCHANGED quit

ReturnStep(w) == Return(w) /\ UNCHANGED quit

TimerStep == TimerWakeup \/ TimerAbort \/ TimerQuit \/ (Core(Timer) /\ UNCHANGED quit)

\* Every thread is joined.
Joined == \A t \in Thread : pc[t] = "done"

Terminated == Joined /\ UNCHANGED vars

Next ==
    \/ \E w \in Worker : WorkerStep(w) \/ HandlerStep(w) \/ ReturnStep(w)
    \/ TimerSend
    \/ TimerStep
    \/ Terminated

Spec == Init /\ [][Next]_vars

(* The operating system runs every thread, and handlers return.              *)
Fairness ==
    /\ \A w \in Worker : WF_vars(WorkerStep(w)) /\ WF_vars(ReturnStep(w))
    /\ WF_vars(TimerStep)

LiveSpec == Spec /\ Fairness

=============================================================================
