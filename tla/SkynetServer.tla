---------------------------- MODULE SkynetServer ----------------------------
(* The service contexts of the skynet core (skynet_server.c): creation,      *)
(* reference counts, sending, the dispatch loop, retirement and deletion,    *)
(* run by several threads at once.  A step of a thread is the work it does   *)
(* between two lock operations or atomic counters; pc is what it does next.  *)
(* A procedure that is called from several places (skynet_context_release,   *)
(* skynet_send) returns to ret.  A service's handler is any sequence of      *)
(* sends, launches, kills and aborts.                                        *)
(*                                                                           *)
(* The handle of a context is its element of Svc: SkynetHandle models how    *)
(* handles are chosen and looked up.                                         *)
EXTENDS SkynetMq

CONSTANTS
    Worker,       \* worker threads
    Timer,        \* the timer thread
    Weight,       \* weight of each worker: how much of a queue it takes at once
    Use           \* which calls the services of an instance make

Thread == Worker \cup {Timer}

ASSUME TimerIsNoWorker == Timer \notin Worker
ASSUME UseCalls == Use \subseteq {"send", "kill", "launch", "abort", "timeout"}
ASSUME WeightsSmall == Weight \in [Worker -> -1..3]
ASSUME FiniteNode == IsFiniteSet(Svc) /\ IsFiniteSet(Worker)

VARIABLES
    ctx,          \* the service contexts
    slot,         \* contexts registered in the handle storage
    total,        \* G_NODE.total
    sent,         \* number of messages sent so far
    pc, ret,      \* control of each thread
    q, nq,        \* queue a worker holds, and the next one it has popped
    cur,          \* context a worker dispatches for (a reference)
    op,           \* context of the operation in progress (a reference)
    new,          \* context being created (a reference)
    dq,           \* queue of the context being created, or to be released
    got,          \* message in the handler
    out, dest,    \* message being sent, and where to
    turn, batch,  \* i and n of the dispatch loop
    todo, seen    \* retireall: slots still to visit; whether one was in use

ctxVars == <<ctx, slot, total>>
callVars == <<got, out, dest, turn, batch, todo, seen>>
threadVars == <<pc, ret, q, nq, cur, op, new, dq, got, out, dest, turn, batch, todo, seen>>
serverVars == <<mq, gmq, ctx, slot, total, sent, threadVars>>

Context == [st: {"none", "live", "freed"}, ref: Nat, handle: Svc \cup {Nil}, init: BOOLEAN]

NoContext(st) == [st |-> st, ref |-> 0, handle |-> Nil, init |-> FALSE]

\* skynet_handle_grab succeeds: the slot holds a context with this handle.
Found(h) == h \in slot /\ ctx[h].handle = h

\* Handles that were given out, of live services and of dead ones.
Known == {c \in Svc : mq[c].st # "none"}

Goto(t, p) == pc' = [pc EXCEPT ![t] = p]

\* skynet_context_release: drop the reference in op, then go on at r.
Release(t, r) ==
    /\ Goto(t, "release")
    /\ ret' = [ret EXCEPT ![t] = r]

\* A called procedure returns.
Resume(t) ==
    /\ Goto(t, ret[t])
    /\ ret' = [ret EXCEPT ![t] = "none"]

-----------------------------------------------------------------------------
(* skynet_context_message_dispatch                                           *)

\* skynet_globalmq_pop: the first queue, or none.
PopGlobal(t, found, none) ==
    IF gmq = <<>>
    THEN Goto(t, none) /\ UNCHANGED <<gmq, q>>
    ELSE /\ Goto(t, found)
         /\ gmq' = Tail(gmq)
         /\ q' = [q EXCEPT ![t] = Head(gmq)]
GrabUncounted(t) ==
    /\ pc[t] = "grab"
    /\ IF Found(q[t])
       THEN /\ cur' = [cur EXCEPT ![t] = q[t]]
            /\ Goto(t, "pop")
            /\ UNCHANGED <<q, dq>>
       ELSE /\ dq' = [dq EXCEPT ![t] = q[t]]
            /\ q' = [q EXCEPT ![t] = Nil]
            /\ Goto(t, "mqrelease")
            /\ UNCHANGED cur
    /\ UNCHANGED <<mq, gmq, ctxVars, sent, ret, nq, op, new, callVars>>

\* The queue's service is looked up; one that is gone has its queue released.
Grab(t) ==
    /\ pc[t] = "grab"
    /\ IF Found(q[t])
       THEN /\ ctx' = [ctx EXCEPT ![q[t]].ref = @ + 1]
            /\ cur' = [cur EXCEPT ![t] = q[t]]
            /\ Goto(t, "pop")
            /\ UNCHANGED <<q, dq>>
       ELSE /\ dq' = [dq EXCEPT ![t] = q[t]]
            /\ q' = [q EXCEPT ![t] = Nil]
            /\ Goto(t, "mqrelease")
            /\ UNCHANGED <<ctx, cur>>
    /\ UNCHANGED <<mq, gmq, slot, total, sent, ret, nq, op, new, callVars>>

\* An empty queue is let go: it is in no list until the next push.
PopNothing(t) ==
    /\ pc[t] = "pop"
    /\ MqPopNothing(q[t])
    /\ q' = [q EXCEPT ![t] = Nil]
    /\ op' = [op EXCEPT ![t] = cur[t]]
    /\ cur' = [cur EXCEPT ![t] = Nil]
    /\ turn' = [turn EXCEPT ![t] = 0]
    /\ batch' = [batch EXCEPT ![t] = 1]
    /\ Release(t, "next")
    /\ UNCHANGED <<gmq, ctxVars, sent, nq, new, dq, got, out, dest, todo, seen>>

Pop(t) ==
    /\ pc[t] = "pop"
    /\ MqPop(q[t])
    /\ got' = [got EXCEPT ![t] = Oldest(mq[q[t]])]
    /\ Goto(t, IF turn[t] = 0 /\ Weight[t] >= 0 THEN "length" ELSE "handler")
    /\ UNCHANGED <<gmq, ctxVars, sent, ret, q, nq, cur, op, new, dq, out, dest, turn, batch, todo, seen>>

\* skynet_mq_length locks the queue again: a push may have come between.
TakeLength(t) ==
    /\ pc[t] = "length"
    /\ batch' = [batch EXCEPT ![t] = QueueLength(mq[q[t]]) \div (2 ^ Weight[t])]
    /\ Goto(t, "handler")
    /\ UNCHANGED <<mq, gmq, ctxVars, sent, ret, q, nq, cur, op, new, dq, got, out, dest, turn, todo, seen>>

\* The callback returns.
Return(t) ==
    /\ pc[t] = "handler"
    /\ got' = [got EXCEPT ![t] = Nil]
    /\ IF turn[t] + 1 < batch[t]
       THEN /\ turn' = [turn EXCEPT ![t] = @ + 1]
            /\ Goto(t, "pop")
            /\ UNCHANGED batch
       ELSE /\ turn' = [turn EXCEPT ![t] = 0]
            /\ batch' = [batch EXCEPT ![t] = 1]
            /\ Goto(t, "swap")
    /\ UNCHANGED <<mq, gmq, ctxVars, sent, ret, q, nq, cur, op, new, dq, out, dest, todo, seen>>

\* The loop is over: the next queue if there is one, else the same again.
Swap(t) ==
    /\ pc[t] = "swap"
    /\ IF gmq = <<>>
       THEN /\ op' = [op EXCEPT ![t] = cur[t]]
            /\ cur' = [cur EXCEPT ![t] = Nil]
            /\ Release(t, "top")
            /\ UNCHANGED <<gmq, nq>>
       ELSE /\ nq' = [nq EXCEPT ![t] = Head(gmq)]
            /\ gmq' = Tail(gmq)
            /\ Goto(t, "putback")
            /\ UNCHANGED <<op, cur, ret>>
    /\ UNCHANGED <<mq, ctxVars, sent, q, new, dq, callVars>>

PutBack(t) ==
    /\ pc[t] = "putback"
    /\ gmq' = Append(gmq, q[t])
    /\ q' = [q EXCEPT ![t] = nq[t]]
    /\ nq' = [nq EXCEPT ![t] = Nil]
    /\ op' = [op EXCEPT ![t] = cur[t]]
    /\ cur' = [cur EXCEPT ![t] = Nil]
    /\ Release(t, "top")
    /\ UNCHANGED <<mq, ctxVars, sent, new, dq, callVars>>

-----------------------------------------------------------------------------
(* skynet_context_release and delete_context                                 *)

DecRef(t) ==
    /\ pc[t] = "release"
    /\ ctx' = [ctx EXCEPT ![op[t]].ref = @ - 1]
    /\ IF ctx[op[t]].ref = 1
       THEN Goto(t, "delete") /\ UNCHANGED <<op, ret>>
       ELSE Resume(t) /\ op' = [op EXCEPT ![t] = Nil]
    /\ UNCHANGED <<mq, gmq, slot, total, sent, q, nq, cur, new, dq, callVars>>
DeleteContextUncounted(t) ==
    /\ pc[t] = "delete"
    /\ MqMarkRelease(op[t])
    /\ ctx' = [ctx EXCEPT ![op[t]] = NoContext("freed")]
    /\ op' = [op EXCEPT ![t] = Nil]
    /\ Resume(t)
    /\ UNCHANGED <<slot, total, sent, q, nq, cur, new, dq, callVars>>

\* The last reference is gone: the queue is marked, the context freed.
DeleteContext(t) ==
    /\ pc[t] = "delete"
    /\ MqMarkRelease(op[t])
    /\ ctx' = [ctx EXCEPT ![op[t]] = NoContext("freed")]
    /\ total' = total - 1
    /\ op' = [op EXCEPT ![t] = Nil]
    /\ Resume(t)
    /\ UNCHANGED <<slot, sent, q, nq, cur, new, dq, callVars>>

-----------------------------------------------------------------------------
(* skynet_send and skynet_context_push                                       *)

\* Send m to h, then go on at r.
StartSend(t, h, m, r) ==
    /\ dest' = [dest EXCEPT ![t] = h]
    /\ out' = [out EXCEPT ![t] = m]
    /\ ret' = [ret EXCEPT ![t] = r]
    /\ Goto(t, "find")

\* The receiver is grabbed; if it is gone, the send fails.
FindReceiver(t) ==
    /\ pc[t] = "find"
    /\ dest' = [dest EXCEPT ![t] = Nil]
    /\ IF Found(dest[t])
       THEN /\ ctx' = [ctx EXCEPT ![dest[t]].ref = @ + 1]
            /\ op' = [op EXCEPT ![t] = dest[t]]
            /\ Goto(t, "push")
            /\ UNCHANGED <<ret, out>>
       ELSE /\ out' = [out EXCEPT ![t] = Nil]
            /\ Resume(t)
            /\ UNCHANGED <<ctx, op>>
    /\ UNCHANGED <<mq, gmq, slot, total, sent, q, nq, cur, new, dq, got, turn, batch, todo, seen>>

Push(t) ==
    /\ pc[t] = "push"
    /\ MqPush(op[t], out[t])
    /\ out' = [out EXCEPT ![t] = Nil]
    /\ Goto(t, "release")
    /\ UNCHANGED <<ctxVars, sent, ret, q, nq, cur, op, new, dq, got, dest, turn, batch, todo, seen>>

-----------------------------------------------------------------------------
(* What a handler may do.                                                    *)

HandlerSend(t) ==
    /\ pc[t] = "handler"
    /\ "send" \in Use
    /\ sent < MaxMsg
    /\ sent' = sent + 1
    /\ \E h \in Known : StartSend(t, h, [id |-> sent + 1, src |-> cur[t], err |-> FALSE], "handler")
    /\ UNCHANGED <<mq, gmq, ctxVars, q, nq, cur, op, new, dq, got, turn, batch, todo, seen>>

\* skynet_handle_retire(h), then go on at r.
Retire(t, h, r) ==
    /\ IF Found(h)
       THEN /\ slot' = slot \ {h}
            /\ op' = [op EXCEPT ![t] = h]
            /\ Release(t, r)
       ELSE Goto(t, r) /\ UNCHANGED <<slot, op, ret>>
    /\ UNCHANGED <<ctx, total>>

\* handle_exit: a service ends itself or another one.
Kill(t) ==
    /\ pc[t] = "handler"
    /\ "kill" \in Use
    /\ \E h \in Known : Retire(t, h, "handler")
    /\ UNCHANGED <<mq, gmq, sent, q, nq, cur, new, dq, callVars>>

\* skynet_context_new: the context is registered with handle 0.
Register(t) ==
    /\ pc[t] = "handler"
    /\ "launch" \in Use
    /\ \E c \in Svc :
          /\ ctx[c].st = "none"
          /\ ctx' = [ctx EXCEPT ![c] = [st |-> "live", ref |-> 2, handle |-> Nil, init |-> FALSE]]
          /\ slot' = slot \cup {c}
          /\ new' = [new EXCEPT ![t] = c]
    /\ Goto(t, "create")
    /\ UNCHANGED <<mq, gmq, total, sent, ret, q, nq, cur, op, dq, callVars>>

\* The handle is stored and the queue created.
Create(t) ==
    /\ pc[t] = "create"
    /\ ctx' = [ctx EXCEPT ![new[t]].handle = new[t]]
    /\ mq' = [mq EXCEPT ![new[t]] = NewQueue]
    /\ dq' = [dq EXCEPT ![t] = new[t]]
    /\ total' = total + 1
    /\ Goto(t, "init")
    /\ UNCHANGED <<gmq, slot, sent, ret, q, nq, cur, op, new, callVars>>

\* An snlua service sends itself its script in its init.
InitSend(t) ==
    /\ pc[t] = "init"
    /\ StartSend(t, new[t], [id |-> 0, src |-> new[t], err |-> FALSE], "ready")
    /\ UNCHANGED <<mq, gmq, ctxVars, sent, q, nq, cur, op, new, dq, got, turn, batch, todo, seen>>

\* init returned 0: the queue enters the global queue.
InitOk(t) ==
    /\ pc[t] \in {"init", "ready"}
    /\ ctx' = [ctx EXCEPT ![new[t]].init = TRUE]
    /\ gmq' = Append(gmq, dq[t])
    /\ dq' = [dq EXCEPT ![t] = Nil]
    /\ op' = [op EXCEPT ![t] = new[t]]
    /\ new' = [new EXCEPT ![t] = Nil]
    /\ Release(t, "handler")
    /\ UNCHANGED <<mq, slot, total, sent, q, nq, cur, callVars>>

InitFailStaysRegistered(t) ==
    /\ pc[t] = "init"
    /\ op' = [op EXCEPT ![t] = new[t]]
    /\ new' = [new EXCEPT ![t] = Nil]
    /\ Release(t, "mqrelease")
    /\ UNCHANGED <<mq, gmq, ctxVars, sent, q, nq, cur, dq, callVars>>

\* init failed: release, retire the handle, release the queue.
InitFail(t) ==
    /\ pc[t] = "init"
    /\ op' = [op EXCEPT ![t] = new[t]]
    /\ new' = [new EXCEPT ![t] = Nil]
    /\ Release(t, "unregister")
    /\ UNCHANGED <<mq, gmq, ctxVars, sent, q, nq, cur, dq, callVars>>

Unregister(t) ==
    /\ pc[t] = "unregister"
    /\ Retire(t, dq[t], "mqrelease")
    /\ UNCHANGED <<mq, gmq, sent, q, nq, cur, new, dq, callVars>>

\* cmd_abort, skynet_handle_retireall: visit the slots, one at a time.
Abort(t) ==
    /\ pc[t] = "handler"
    /\ "abort" \in Use
    /\ slot # {}
    /\ todo' = [todo EXCEPT ![t] = Svc]
    /\ seen' = [seen EXCEPT ![t] = FALSE]
    /\ Goto(t, "retireall")
    /\ UNCHANGED <<mq, gmq, ctxVars, sent, ret, q, nq, cur, op, new, dq, got, out, dest, turn, batch>>

\* A context that has no handle yet is counted but left alone.
RetireOne(t) ==
    /\ pc[t] = "retireall"
    /\ \E c \in todo[t] :
          /\ todo' = [todo EXCEPT ![t] = @ \ {c}]
          /\ seen' = [seen EXCEPT ![t] = @ \/ c \in slot]
          /\ Retire(t, c, "retireall")
    /\ UNCHANGED <<mq, gmq, sent, q, nq, cur, new, dq, got, out, dest, turn, batch>>

\* The round is over: again, unless no slot was in use.
RetireRound(t) ==
    /\ pc[t] = "retireall"
    /\ todo[t] = {}
    /\ IF seen[t]
       THEN todo' = [todo EXCEPT ![t] = Svc] /\ UNCHANGED pc
       ELSE Goto(t, "handler") /\ UNCHANGED todo
    /\ seen' = [seen EXCEPT ![t] = FALSE]
    /\ UNCHANGED <<mq, gmq, ctxVars, sent, ret, q, nq, cur, op, new, dq, got, out, dest, turn, batch>>

-----------------------------------------------------------------------------
(* skynet_mq_release, called by the dispatch loop and by a failed creation.  *)

BackToCaller(t) == IF cur[t] = Nil THEN "next" ELSE "handler"

\* The context still exists: some thread has it.  The queue waits.
KeepQueue(t) ==
    /\ pc[t] = "mqrelease"
    /\ ~mq[dq[t]].release
    /\ gmq' = Append(gmq, dq[t])
    /\ dq' = [dq EXCEPT ![t] = Nil]
    /\ Goto(t, BackToCaller(t))
    /\ UNCHANGED <<mq, ctxVars, sent, ret, q, nq, cur, op, new, callVars>>
DropQueueUnmarked(t) ==
    /\ pc[t] = "mqrelease"
    /\ Goto(t, "drop")
    /\ UNCHANGED <<mq, gmq, ctxVars, sent, ret, q, nq, cur, op, new, dq, callVars>>

\* The context is gone: every message is answered with an error.
DropQueue(t) ==
    /\ pc[t] = "mqrelease"
    /\ mq[dq[t]].release
    /\ Goto(t, "drop")
    /\ UNCHANGED <<mq, gmq, ctxVars, sent, ret, q, nq, cur, op, new, dq, callVars>>

DropMessage(t) ==
    /\ pc[t] = "drop"
    /\ MqPop(dq[t])
    /\ LET m == Oldest(mq[dq[t]]) IN
       IF m.src = Nil
       THEN UNCHANGED <<pc, ret, out, dest>>
       ELSE StartSend(t, m.src, [id |-> m.id, src |-> dq[t], err |-> TRUE], "drop")
    /\ UNCHANGED <<gmq, ctxVars, sent, q, nq, cur, op, new, dq, got, turn, batch, todo, seen>>

FreeQueue(t) ==
    /\ pc[t] = "drop"
    /\ IsEmpty(mq[dq[t]])
    /\ MqFree(dq[t])
    /\ dq' = [dq EXCEPT ![t] = Nil]
    /\ Goto(t, BackToCaller(t))
    /\ UNCHANGED <<gmq, ctxVars, sent, ret, q, nq, cur, op, new, callVars>>

-----------------------------------------------------------------------------
\* Everything a thread does inside the core while it dispatches or sends.
Core(t) ==
    \/ DecRef(t) \/ DeleteContext(t) \/ FindReceiver(t) \/ Push(t)

Dispatch(t) ==
    \/ Grab(t) \/ PopNothing(t) \/ Pop(t) \/ TakeLength(t) \/ Swap(t) \/ PutBack(t)
    \/ Create(t) \/ InitSend(t) \/ InitOk(t) \/ InitFail(t) \/ Unregister(t)
    \/ RetireOne(t) \/ RetireRound(t)
    \/ KeepQueue(t) \/ DropQueue(t) \/ DropMessage(t) \/ FreeQueue(t)

Handler(t) == HandlerSend(t) \/ Kill(t) \/ Register(t) \/ Abort(t)

=============================================================================
