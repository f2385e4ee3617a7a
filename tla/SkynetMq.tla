----------------------------- MODULE SkynetMq -------------------------------
(* The message queues of the skynet core (skynet_mq.c): one queue per        *)
(* service, a ring of messages that doubles when it is full, and the global  *)
(* queue, a list of the queues that wait for a worker.  Every function of    *)
(* the file runs under one spin lock, so each is one operator here; a caller *)
(* that uses two of them takes two steps.                                    *)
EXTENDS Integers, Sequences, FiniteSets

CONSTANTS
    Svc,          \* addresses a service context (and its queue) can have
    Nil,
    RingSize,     \* DEFAULT_QUEUE_SIZE
    MaxMsg        \* how many messages handlers and the timer may send

ASSUME NilOutside == Nil \notin Svc
ASSUME RingSizePositive == RingSize \in Nat \ {0}
ASSUME MaxMsgNat == MaxMsg \in Nat

VARIABLES
    mq,           \* the queue of each service
    gmq           \* the global queue, first to be served first

mqVars == <<mq, gmq>>

(* A message: which one, who sent it (Nil: the timer, source 0), and whether *)
(* it is the PTYPE_ERROR answer to a message that was dropped.               *)
Msg == [id: 0..MaxMsg, src: Svc \cup {Nil}, err: BOOLEAN]

ASSUME NilIsNoMessage == Nil \notin Msg

\* cap is the length of the ring; head and tail count from 0.
Queue == [st: {"none", "live", "freed"}, ring: Seq(Msg \cup {Nil}), head: Nat, tail: Nat,
          release: BOOLEAN, inGlobal: BOOLEAN]

Cap(k) == Len(k.ring)

\* skynet_mq_create: in_global is set although the queue is in no list yet.
NewQueue == [st |-> "live", ring |-> [i \in 1..RingSize |-> Nil], head |-> 0, tail |-> 0,
             release |-> FALSE, inGlobal |-> TRUE]

\* The memory before skynet_mq_create; after it is freed its content is gone.
NoQueue(st) == [NewQueue EXCEPT !.st = st, !.inGlobal = FALSE]

QueueLength(k) == IF k.head <= k.tail THEN k.tail - k.head ELSE k.tail + Cap(k) - k.head

IsEmpty(k) == k.head = k.tail

Oldest(k) == k.ring[k.head + 1]
AfterLate(k, i) == IF i + 1 > Cap(k) THEN 0 ELSE i + 1

\* The index after i, which wraps at the end of the ring.
After(k, i) == IF i + 1 >= Cap(k) THEN 0 ELSE i + 1

\* The messages of a queue, oldest first.
Pending(k) == [i \in 1..QueueLength(k) |-> k.ring[((k.head + i - 1) % Cap(k)) + 1]]
ExpandedInPlace(k) ==
    [k EXCEPT !.ring = [i \in 1..(2 * Cap(k)) |-> IF i <= Cap(k) THEN k.ring[i] ELSE Nil],
              !.head = 0,
              !.tail = Cap(k)]

\* expand_queue: the messages are copied to the begin of a ring twice as big.
Expanded(k) ==
    [k EXCEPT !.ring = [i \in 1..(2 * Cap(k)) |->
                           IF i <= Cap(k) THEN k.ring[((k.head + i - 1) % Cap(k)) + 1] ELSE Nil],
              !.head = 0,
              !.tail = Cap(k)]

Pushed(k, m) ==
    LET put == [k EXCEPT !.ring[k.tail + 1] = m, !.tail = After(k, k.tail)]
    IN  IF put.head = put.tail THEN Expanded(put) ELSE put

Popped(k) == [k EXCEPT !.ring[k.head + 1] = Nil, !.head = After(k, k.head)]

-----------------------------------------------------------------------------
MqPushUnlisted(c, m) ==
    /\ mq' = [mq EXCEPT ![c] = [Pushed(mq[c], m) EXCEPT !.inGlobal = TRUE]]
    /\ UNCHANGED gmq

(* skynet_mq_push: a queue that is nowhere goes to the global queue.         *)
MqPush(c, m) ==
    /\ mq' = [mq EXCEPT ![c] = [Pushed(mq[c], m) EXCEPT !.inGlobal = TRUE]]
    /\ gmq' = IF mq[c].inGlobal THEN gmq ELSE Append(gmq, c)
MqPopNothingListed(c) ==
    /\ IsEmpty(mq[c])
    /\ UNCHANGED mq

(* skynet_mq_pop on an empty queue: it now is nowhere.                       *)
MqPopNothing(c) ==
    /\ IsEmpty(mq[c])
    /\ mq' = [mq EXCEPT ![c].inGlobal = FALSE]

MqPop(c) ==
    /\ ~IsEmpty(mq[c])
    /\ mq' = [mq EXCEPT ![c] = Popped(mq[c])]

(* skynet_mq_mark_release: called when the context is deleted.  in_global    *)
(* keeps its value even when the queue is pushed.                            *)
MqMarkRelease(c) ==
    /\ mq' = [mq EXCEPT ![c].release = TRUE]
    /\ gmq' = IF mq[c].inGlobal THEN gmq ELSE Append(gmq, c)

(* _release, at the end of _drop_queue.                                      *)
MqFree(c) == mq' = [mq EXCEPT ![c] = NoQueue("freed")]

=============================================================================
