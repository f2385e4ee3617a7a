----------------------------- MODULE RuntimeInv -----------------------------
(* What must hold of the skynet core at every step of its threads, and the   *)
(* mapping to Mailbox, what it promises the services.                        *)
EXTENDS Runtime

\* The places a queue is in: the global queue, or the hands of a thread.
Places(c) ==
    ({"gmq"} \X {i \in 1..Len(gmq) : gmq[i] = c}) \cup
    ({"q"} \X {t \in Thread : q[t] = c}) \cup
    ({"nq"} \X {t \in Thread : nq[t] = c}) \cup
    ({"dq"} \X {t \in Thread : dq[t] = c})

\* What has a reference to a context.
Holders(c) ==
    ({"slot"} \X {d \in slot : d = c}) \cup
    ({"cur"} \X {t \in Thread : cur[t] = c}) \cup
    ({"new"} \X {t \in Thread : new[t] = c}) \cup
    ({"op"} \X {t \in Thread : op[t] = c /\ pc[t] # "delete"})

SlotOrNil == Svc \cup {Nil}

\* The points of a thread's program: procedures it calls, and the rest.
Calls == {"find", "push", "release", "delete"}
Asleep == {"sleep", "doze", "wait", "woken"}
Creating == {"create", "init", "ready"}
Dispatching == {"pop", "length", "handler", "swap", "putback", "unregister", "retireall"} \cup Creating
Points ==
    {"top", "grab", "next", "mqrelease", "drop", "tick", "stop", "done"} \cup Asleep \cup Dispatching

TypeOK ==
    /\ mq \in [Svc -> Queue]
    /\ \A c \in Svc : mq[c].head < Cap(mq[c]) /\ mq[c].tail < Cap(mq[c])
    /\ gmq \in Seq(Svc)
    /\ ctx \in [Svc -> Context]
    /\ slot \subseteq Svc
    /\ total \in Int
    /\ sent \in 0..MaxMsg
    /\ ret \in [Thread -> Points \cup {"none"}]
    /\ pc \in [Thread -> Points \cup Calls]
    /\ \A f \in {q, nq, cur, op, new, dq, dest} : f \in [Thread -> SlotOrNil]
    /\ \A f \in {got, out} : f \in [Thread -> Msg \cup {Nil}]
    /\ turn \in [Thread -> Nat]
    /\ batch \in [Thread -> Nat]
    /\ todo \in [Thread -> SUBSET Svc]
    /\ seen \in [Thread -> BOOLEAN]
    /\ quit \in BOOLEAN

(* A queue is never in two places: it is in the global queue once, or in the *)
(* hands of one thread, or nowhere because it is empty.  So two workers      *)
(* never run handlers of one service, and no push or release is forgotten.   *)
OnePlace ==
    \A c \in Svc :
        /\ \A a, b \in Places(c) : a = b
        /\ Places(c) # {} <=> mq[c].st = "live" /\ (mq[c].inGlobal \/ mq[c].release)

(* The reference count of a context is the number of its holders: its slot,  *)
(* the worker that dispatches for it, its creator, and the threads that push *)
(* to it.  It is 0 only while the context is being deleted.                  *)
RefExact ==
    \A c \in Svc : ctx[c].ref = Cardinality(Holders(c))

(* Nothing is used after it is freed, and the assertions of the core hold:   *)
(* a handler runs only in an initialised service, for the queue its worker   *)
(* holds (skynet_server.c:257, 336), and a queue is marked once              *)
(* (skynet_mq.c:224).                                                        *)
NoDangling ==
    \A t \in Thread :
        /\ \A c \in {q[t], nq[t], dq[t]} \ {Nil} : mq[c].st = "live"
        /\ \A c \in {cur[t], op[t], new[t]} \ {Nil} : ctx[c].st = "live"
        /\ pc[t] = "push" => mq[op[t]].st = "live"
        /\ pc[t] \in {"pop", "length", "handler", "swap", "putback"} => cur[t] = q[t]
        /\ pc[t] = "handler" => ctx[cur[t]].init
        /\ pc[t] = "delete" => ~mq[op[t]].release

\* total counts the contexts that exist (they are counted once created).
TotalExact == total = Cardinality({c \in Svc : ctx[c].st = "live" /\ ctx[c].handle # Nil})

-----------------------------------------------------------------------------
(* What the invariants rest on, so that together they are inductive.         *)

\* Where a thread is, or goes on when the call it makes returns.
At(t) == IF pc[t] \in Calls THEN ret[t] ELSE pc[t]

\* What a thread has in its hands at each point of its program.
Control(t) ==
    /\ pc[t] \in Calls <=> ret[t] # "none"
    /\ At(t) \in Points
    /\ IF t = Timer THEN At(t) \in {"tick", "stop", "done"} ELSE At(t) \notin {"tick", "stop"}
    /\ pc[t] \in {"find", "push"} => At(t) \in {"handler", "ready", "drop", "tick"}
    /\ pc[t] \in {"release", "delete"} =>
          At(t) \in {"next", "top", "handler", "ready", "drop", "tick", "unregister", "mqrelease", "retireall"}
    /\ op[t] # Nil <=> pc[t] \in {"push", "release", "delete"}
    /\ out[t] # Nil <=> pc[t] \in {"find", "push"}
    /\ dest[t] # Nil <=> pc[t] = "find"

Hands(t) ==
    /\ At(t) \in Dispatching => cur[t] # Nil
    /\ cur[t] # Nil => At(t) \in Dispatching \cup {"mqrelease", "drop"} /\ q[t] = cur[t]
    /\ q[t] # Nil => At(t) \in {"top", "grab", "done"} \/ cur[t] # Nil
    /\ At(t) = "grab" => q[t] # Nil
    /\ nq[t] # Nil <=> At(t) = "putback"
    /\ new[t] # Nil <=> At(t) \in Creating
    /\ dq[t] # Nil <=> At(t) \in {"init", "ready", "unregister", "mqrelease", "drop"}
    /\ At(t) \in {"init", "ready"} => dq[t] = new[t]
    /\ got[t] # Nil <=> (cur[t] # Nil /\ At(t) \notin {"pop", "swap", "putback"})
    /\ At(t) = "length" => Weight[t] >= 0

\* The life of a context and of its queue: both are created, the context is
\* freed and its queue released, the queue is freed.
Life(c) ==
    /\ ctx[c].st # "live" => ctx[c].handle = Nil /\ ctx[c].ref = 0 /\ c \notin slot
    /\ ctx[c].st = "none" => mq[c].st = "none"
    /\ ctx[c].st = "freed" => mq[c].st = "freed" \/ (mq[c].st = "live" /\ mq[c].release)
    /\ ctx[c].st = "live" /\ ctx[c].handle = Nil => mq[c].st = "none" /\ c \in slot /\ ~ctx[c].init
    /\ ctx[c].handle # Nil => ctx[c].handle = c /\ mq[c].st = "live" /\ ~mq[c].release
    /\ ctx[c].handle # Nil /\ ~ctx[c].init => mq[c].inGlobal
    /\ mq[c].st # "live" => IsEmpty(mq[c]) /\ ~mq[c].release /\ ~mq[c].inGlobal

\* References are to contexts that exist; the last one is nobody else's.
Referred(t) ==
    /\ cur[t] # Nil => ctx[cur[t]].handle # Nil /\ ctx[cur[t]].init
    /\ op[t] # Nil => ctx[op[t]].handle # Nil
    /\ new[t] # Nil => /\ ctx[new[t]].st = "live" /\ ~ctx[new[t]].init
                       /\ ctx[new[t]].handle = Nil <=> At(t) = "create"
    /\ pc[t] = "delete" => ctx[op[t]].ref = 0
    /\ \A s \in Thread \ {t} :
          /\ new[t] # Nil => new[s] # new[t]
          /\ pc[t] = "delete" /\ pc[s] = "delete" => op[s] # op[t]

Listed == {gmq[i] : i \in 1..Len(gmq)}

Held(t) == {q[t], nq[t], dq[t]} \ {Nil}

\* OnePlace, said of the list and of the hands.
Apart ==
    /\ \A i, j \in 1..Len(gmq) : gmq[i] = gmq[j] => i = j
    /\ \A t \in Thread :
          /\ Held(t) \cap Listed = {}
          /\ \A s \in Thread \ {t} : Held(t) \cap Held(s) = {}
          /\ q[t] = nq[t] => q[t] = Nil
          /\ q[t] = dq[t] => q[t] = Nil
    /\ \A c \in Svc : (c \in Listed \/ \E t \in Thread : c \in Held(t))
                        <=> mq[c].st = "live" /\ (mq[c].inGlobal \/ mq[c].release)

\* A queue that waits for a worker, or is in a worker's hands, is that of an
\* initialised service, or of one that is retired; one to be released is the latter.
Settled ==
    /\ \A c \in slot : c \in Listed \/ (\E t \in Thread : c \in {q[t], nq[t]}) => ctx[c].init
    /\ \A t \in Thread : At(t) \in {"mqrelease", "drop"} =>
          dq[t] \notin slot /\ (At(t) = "drop" => mq[dq[t]].release)

\* What waits in a queue are messages.
Messages == \A c \in Svc : \A i \in 1..QueueLength(mq[c]) : Pending(mq[c])[i] \in Msg

IInv ==
    /\ TypeOK /\ Messages
    /\ \A t \in Thread : Control(t) /\ Hands(t) /\ Referred(t)
    /\ \A c \in Svc : Life(c)
    /\ Apart /\ Settled
    /\ RefExact /\ TotalExact

-----------------------------------------------------------------------------
(* The refinement: the mailbox of a service is the content of its queue.     *)

MailState(c) ==
    IF mq[c].st = "none" THEN "unborn"
    ELSE IF mq[c].st = "freed" THEN "gone"
    ELSE IF ctx[c].st = "freed" \/ mq[c].release THEN "sealed"
    ELSE IF c \notin slot THEN "closing"
    ELSE "open"

InHandler(c) == {t \in Worker : cur[t] = c /\ got[t] # Nil}

MailServing(c) == IF InHandler(c) = {} THEN Nil ELSE got[CHOOSE t \in InHandler(c) : TRUE]

Mail == INSTANCE Mailbox WITH
    state <- [c \in Svc |-> MailState(c)],
    box <- [c \in Svc |-> Pending(mq[c])],
    serving <- [c \in Svc |-> MailServing(c)]

(* The core implements Mailbox: whatever the threads do, each service serves *)
(* its messages in order and one at a time, and a message is lost neither    *)
(* when its service is retired nor when the queue is released.               *)
ImplementsMailbox == Mail!BoxSpec

-----------------------------------------------------------------------------
Accepted(i) == \E c \in Svc : \E k \in 1..QueueLength(mq[c]) :
                  /\ Pending(mq[c])[k].id = i
                  /\ ~Pending(mq[c])[k].err

(* A message in a queue is taken out: the timer thread wakes a worker for    *)
(* it, whoever else is asleep, and a queue that was released is emptied.     *)
Delivered == \A i \in 1..MaxMsg : Accepted(i) ~> (~Accepted(i) \/ quit)

(* When the last service is gone every thread ends, no worker sleeps on.     *)
AllJoined == total = 0 ~> Joined

=============================================================================
