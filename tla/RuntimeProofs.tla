---------------------------- MODULE RuntimeProofs ---------------------------
(* The safety of the skynet core, for any number of services and of threads: *)
(* IInv is inductive, what the runs check of the core follows from it, and   *)
(* the core implements Mailbox.                                              *)
EXTENDS RuntimeInv, SkynetMqProofs, FiniteSetTheorems

USE NilOutside, NilIsNoMessage, TimerIsNoWorker, BootService

-----------------------------------------------------------------------------
(* Types                                                                     *)

Typed ==
    /\ mq \in [Svc -> Queue] /\ \A c \in Svc : Sound(mq[c])
    /\ gmq \in Seq(Svc)
    /\ ctx \in [Svc -> Context] /\ slot \subseteq Svc /\ total \in Int /\ sent \in 0..MaxMsg
    /\ pc \in [Thread -> Points \cup Calls] /\ ret \in [Thread -> Points \cup {"none"}]
    /\ q \in [Thread -> SlotOrNil] /\ nq \in [Thread -> SlotOrNil] /\ cur \in [Thread -> SlotOrNil]
    /\ op \in [Thread -> SlotOrNil] /\ new \in [Thread -> SlotOrNil] /\ dq \in [Thread -> SlotOrNil]
    /\ dest \in [Thread -> SlotOrNil]
    /\ got \in [Thread -> Msg \cup {Nil}] /\ out \in [Thread -> Msg \cup {Nil}]
    /\ turn \in [Thread -> Nat] /\ batch \in [Thread -> Nat]
    /\ todo \in [Thread -> SUBSET Svc] /\ seen \in [Thread -> BOOLEAN] /\ quit \in BOOLEAN

LEMMA TypedIsTypeOK == TypeOK <=> Typed
BY DEF TypeOK, Typed, Sound

-----------------------------------------------------------------------------
(* Which thread moves                                                        *)

\* Nothing of thread s changes.
Unmoved(s) ==
    /\ pc'[s] = pc[s] /\ ret'[s] = ret[s] /\ q'[s] = q[s] /\ nq'[s] = nq[s] /\ cur'[s] = cur[s]
    /\ op'[s] = op[s] /\ new'[s] = new[s] /\ dq'[s] = dq[s] /\ got'[s] = got[s]
    /\ out'[s] = out[s] /\ dest'[s] = dest[s] /\ turn'[s] = turn[s] /\ batch'[s] = batch[s]
    /\ todo'[s] = todo[s] /\ seen'[s] = seen[s]

\* A step of the loop of a worker, or of the timer, outside the core.
Idle(t) == Quit(t) \/ KeepOn(t) \/ FallAsleep(t) \/ Wait(t) \/ WakeUp(t) \/ (t = Timer /\ TimerAbort)

Send(t) == HandlerSend(t) \/ InitSend(t) \/ (t = Timer /\ TimerSend)

Other(t) == TakeLength(t) \/ Return(t) \/ Abort(t) \/ RetireRound(t) \/ DropQueue(t)

Queueing(t) ==
    \/ Fetch(t) \/ Grab(t) \/ PopNothing(t) \/ Pop(t) \/ Swap(t) \/ PutBack(t)
    \/ KeepQueue(t) \/ DropMessage(t) \/ FreeQueue(t)

Living(t) ==
    \/ Register(t) \/ Create(t) \/ InitOk(t) \/ InitFail(t)
    \/ Unregister(t) \/ Kill(t) \/ RetireOne(t)

Step(t) ==
    /\ Idle(t) \/ Send(t) \/ Other(t) \/ Queueing(t) \/ Living(t) \/ Core(t)
    /\ UNCHANGED quit

\* Only the counters of the threads that sleep change.
Signal == TimerWakeup \/ TimerQuit

LEMMA Steps ==
  ASSUME [Next]_vars
  PROVE  (\E t \in Thread : Step(t)) \/ Signal \/ UNCHANGED vars
BY DEF Next, WorkerStep, HandlerStep, ReturnStep, TimerStep, Terminated, Step, Signal, Idle, Send,
       Other, Queueing, Living, Dispatch, Handler, Thread, Quit, KeepOn, FallAsleep, Wait, WakeUp, OnlyPc,
       Fetch, TimerSend, TimerAbort

LEMMA OthersStay ==
  ASSUME Typed, NEW t \in Thread, Step(t), NEW s \in Thread, s # t
  PROVE  Unmoved(s)
<1> USE DEF Typed, Unmoved, Goto, Resume, Release, StartSend, Retire, callVars, ctxVars
<1>1. CASE Idle(t)
  BY <1>1 DEF Idle, Quit, KeepOn, FallAsleep, Wait, WakeUp, TimerAbort, OnlyPc, allButPc
<1>2. CASE Send(t)
  BY <1>2 DEF Send, HandlerSend, InitSend, TimerSend
<1>3. CASE Other(t)
  <2>1. CASE TakeLength(t) \/ DropQueue(t)
    BY <2>1 DEF TakeLength, DropQueue
  <2>2. CASE Return(t)
    BY <2>2 DEF Return
  <2>3. CASE Abort(t) \/ RetireRound(t)
    BY <2>3 DEF Abort, RetireRound
  <2> QED
    BY <1>3, <2>1, <2>2, <2>3 DEF Other
<1>4. CASE Queueing(t)
  BY <1>4 DEF Queueing, Fetch, PopGlobal, Grab, PopNothing, Pop, Swap, PutBack, KeepQueue, DropMessage,
              FreeQueue
<1>5. CASE Living(t)
  BY <1>5 DEF Living, Register, Create, InitOk, InitFail, Unregister, Kill, RetireOne
<1>6. CASE Core(t)
  BY <1>6 DEF Core, DecRef, DeleteContext, FindReceiver, Push
<1> QED
  BY <1>1, <1>2, <1>3, <1>4, <1>5, <1>6 DEF Step

-----------------------------------------------------------------------------
(* What a call does to the queues                                            *)

\* The flags of a queue say nothing of what it holds.
LEMMA Flags ==
  ASSUME NEW k, Sound(k), NEW b \in BOOLEAN
  PROVE  /\ LET g == [k EXCEPT !.inGlobal = b]
            IN  /\ Sound(g) /\ Pending(g) = Pending(k) /\ IsEmpty(g) = IsEmpty(k)
                /\ g.st = k.st /\ g.release = k.release /\ g.inGlobal = b
         /\ LET r == [k EXCEPT !.release = b]
            IN  /\ Sound(r) /\ Pending(r) = Pending(k) /\ IsEmpty(r) = IsEmpty(k)
                /\ r.st = k.st /\ r.release = b /\ r.inGlobal = k.inGlobal
<1>1. ASSUME NEW j \in Queue, j.ring = k.ring, j.head = k.head, j.tail = k.tail
      PROVE  Sound(j) /\ Pending(j) = Pending(k) /\ IsEmpty(j) = IsEmpty(k)
  <2>1. Cap(j) = Cap(k) /\ QueueLength(j) = QueueLength(k)
    BY <1>1 DEF Cap, QueueLength
  <2> QED
    BY <1>1, <2>1 DEF Sound, Pending, IsEmpty
<1> DEFINE g == [k EXCEPT !.inGlobal = b]
<1>3. /\ g \in Queue /\ g.ring = k.ring /\ g.head = k.head /\ g.tail = k.tail
      /\ g.st = k.st /\ g.release = k.release /\ g.inGlobal = b
  BY DEF Sound, Queue
<1> DEFINE r == [k EXCEPT !.release = b]
<1>5. /\ r \in Queue /\ r.ring = k.ring /\ r.head = k.head /\ r.tail = k.tail
      /\ r.st = k.st /\ r.release = b /\ r.inGlobal = k.inGlobal
  BY DEF Sound, Queue
<1> HIDE DEF g, r
<1>6. Sound(g) /\ Pending(g) = Pending(k) /\ IsEmpty(g) = IsEmpty(k)
  BY <1>1, <1>3
<1>7. Sound(r) /\ Pending(r) = Pending(k) /\ IsEmpty(r) = IsEmpty(k)
  BY <1>1, <1>5
<1> QED
  BY <1>3, <1>5, <1>6, <1>7 DEF g, r

\* Only queue c changes, and into k.
Becomes(c, k) ==
    /\ mq' \in [Svc -> Queue] /\ \A d \in Svc : Sound(mq'[d])
    /\ mq'[c] = k
    /\ \A d \in Svc \ {c} : mq'[d] = mq[d]

LEMMA OneQueue ==
  ASSUME Typed, NEW c \in Svc, NEW k, Sound(k), mq' = [mq EXCEPT ![c] = k]
  PROVE  Becomes(c, k)
<1>1. k \in Queue
  BY DEF Sound
<1>2. mq' \in [Svc -> Queue] /\ mq'[c] = k /\ \A d \in Svc \ {c} : mq'[d] = mq[d]
  BY <1>1 DEF Typed
<1> QED
  BY <1>2 DEF Typed, Becomes

LEMMA PushQueue ==
  ASSUME Typed, NEW c \in Svc, NEW m \in Msg, MqPush(c, m)
  PROVE  /\ Becomes(c, mq'[c])
         /\ mq'[c].st = mq[c].st /\ mq'[c].release = mq[c].release /\ mq'[c].inGlobal
         /\ Pending(mq'[c]) = Append(Pending(mq[c]), m)
<1> DEFINE p == Pushed(mq[c], m)
           k == [p EXCEPT !.inGlobal = TRUE]
<1>1. /\ Sound(p) /\ p.st = mq[c].st /\ p.release = mq[c].release
      /\ Pending(p) = Append(Pending(mq[c]), m)
  BY PushAppends DEF Typed
<1>2. mq' = [mq EXCEPT ![c] = k]
  BY DEF MqPush
<1> HIDE DEF p
<1>3. Sound(k) /\ Pending(k) = Pending(p) /\ k.st = p.st /\ k.release = p.release /\ k.inGlobal = TRUE
  BY <1>1, Flags
<1> HIDE DEF k
<1>4. Becomes(c, k) /\ mq'[c] = k
  BY <1>2, <1>3, OneQueue DEF Becomes
<1> QED
  BY <1>1, <1>3, <1>4

LEMMA PopQueue ==
  ASSUME Typed, NEW c \in Svc, MqPop(c)
  PROVE  /\ Becomes(c, mq'[c])
         /\ mq'[c].st = mq[c].st /\ mq'[c].release = mq[c].release /\ mq'[c].inGlobal = mq[c].inGlobal
         /\ Pending(mq[c]) # <<>> /\ Oldest(mq[c]) = Head(Pending(mq[c]))
         /\ Pending(mq'[c]) = Tail(Pending(mq[c]))
<1> DEFINE p == Popped(mq[c])
<1>1. /\ Sound(p) /\ p.st = mq[c].st /\ p.release = mq[c].release /\ p.inGlobal = mq[c].inGlobal
      /\ Pending(p) = Tail(Pending(mq[c])) /\ Pending(mq[c]) # <<>>
      /\ Oldest(mq[c]) = Head(Pending(mq[c]))
  BY PopTakesOldest DEF Typed, MqPop
<1>2. mq' = [mq EXCEPT ![c] = p]
  BY DEF MqPop
<1> HIDE DEF p
<1>3. Becomes(c, p) /\ mq'[c] = p
  BY <1>1, <1>2, OneQueue DEF Becomes
<1> QED
  BY <1>1, <1>3

LEMMA LeaveQueue ==
  ASSUME Typed, NEW c \in Svc, MqPopNothing(c)
  PROVE  /\ Becomes(c, mq'[c])
         /\ mq'[c].st = mq[c].st /\ mq'[c].release = mq[c].release /\ ~mq'[c].inGlobal
         /\ IsEmpty(mq'[c]) /\ Pending(mq'[c]) = Pending(mq[c])
<1> DEFINE k == [mq[c] EXCEPT !.inGlobal = FALSE]
<1>1. /\ Sound(k) /\ Pending(k) = Pending(mq[c]) /\ IsEmpty(k) = IsEmpty(mq[c])
      /\ k.st = mq[c].st /\ k.release = mq[c].release /\ k.inGlobal = FALSE
  BY Flags DEF Typed
<1>2. mq' = [mq EXCEPT ![c] = k]
  BY DEF MqPopNothing
<1> HIDE DEF k
<1>3. Becomes(c, k) /\ mq'[c] = k
  BY <1>1, <1>2, OneQueue DEF Becomes
<1> QED
  BY <1>1, <1>3 DEF MqPopNothing

LEMMA MarkQueue ==
  ASSUME Typed, NEW c \in Svc, MqMarkRelease(c)
  PROVE  /\ Becomes(c, mq'[c])
         /\ mq'[c].st = mq[c].st /\ mq'[c].release /\ mq'[c].inGlobal = mq[c].inGlobal
         /\ Pending(mq'[c]) = Pending(mq[c]) /\ IsEmpty(mq'[c]) = IsEmpty(mq[c])
<1> DEFINE k == [mq[c] EXCEPT !.release = TRUE]
<1>1. /\ Sound(k) /\ Pending(k) = Pending(mq[c]) /\ IsEmpty(k) = IsEmpty(mq[c])
      /\ k.st = mq[c].st /\ k.release = TRUE /\ k.inGlobal = mq[c].inGlobal
  BY Flags DEF Typed
<1>2. mq' = [mq EXCEPT ![c] = k]
  BY DEF MqMarkRelease
<1> HIDE DEF k
<1>3. Becomes(c, k) /\ mq'[c] = k
  BY <1>1, <1>2, OneQueue DEF Becomes
<1> QED
  BY <1>1, <1>3

-----------------------------------------------------------------------------
(* Counting references                                                       *)

\* 1 for a member, else 0.
One(x, S) == IF x \in S THEN 1 ELSE 0

LEMMA OneMember ==
  ASSUME NEW S, NEW T, IsFiniteSet(S), IsFiniteSet(T), NEW x, S \ {x} = T \ {x}
  PROVE  Cardinality(T) + One(x, S) = Cardinality(S) + One(x, T)
<1>1. Cardinality(S) \in Nat /\ Cardinality(T) \in Nat
  BY FS_CardinalityType
<1>2. Cardinality(S \ {x}) = IF x \in S THEN Cardinality(S) - 1 ELSE Cardinality(S)
  BY FS_RemoveElement
<1>3. Cardinality(T \ {x}) = IF x \in T THEN Cardinality(T) - 1 ELSE Cardinality(T)
  BY FS_RemoveElement
<1>4. Cardinality(S \ {x}) = Cardinality(T \ {x})
  OBVIOUS
<1> DEFINE m == Cardinality(S)
           n == Cardinality(T)
           k == Cardinality(S \ {x})
<1>5. m \in Nat /\ n \in Nat /\ k = (IF x \in S THEN m - 1 ELSE m) /\ k = (IF x \in T THEN n - 1 ELSE n)
  BY <1>1, <1>2, <1>3, <1>4
<1> HIDE DEF m, n, k
<1>6. n + One(x, S) = m + One(x, T)
  BY <1>5 DEF One
<1> QED
  BY <1>6 DEF m, n

LEMMA DisjointUnion ==
  ASSUME NEW S, NEW T, IsFiniteSet(S), IsFiniteSet(T), S \cap T = {}
  PROVE  IsFiniteSet(S \cup T) /\ Cardinality(S \cup T) = Cardinality(S) + Cardinality(T)
<1>1. Cardinality(S) \in Nat /\ Cardinality(T) \in Nat /\ Cardinality({}) = 0
  BY FS_CardinalityType, FS_EmptySet
<1>2. /\ IsFiniteSet(S \cup T)
      /\ Cardinality(S \cup T) = Cardinality(S) + Cardinality(T) - Cardinality(S \cap T)
  BY FS_Union
<1>3. Cardinality(S \cap T) = 0
  BY <1>1
<1> QED
  BY <1>1, <1>2, <1>3

LEMMA Tagged ==
  ASSUME NEW S, IsFiniteSet(S), NEW tag
  PROVE  IsFiniteSet({tag} \X S) /\ Cardinality({tag} \X S) = Cardinality(S)
<1>1. IsFiniteSet({tag}) /\ Cardinality({tag}) = 1
  BY FS_Singleton
<1>2. Cardinality(S) \in Nat
  BY FS_CardinalityType
<1>3. IsFiniteSet({tag} \X S) /\ Cardinality({tag} \X S) = 1 * Cardinality(S)
  BY <1>1, FS_Product
<1> QED
  BY <1>2, <1>3

LEMMA TaggedUnion ==
  ASSUME NEW A, NEW B, NEW C, NEW D,
         IsFiniteSet(A), IsFiniteSet(B), IsFiniteSet(C), IsFiniteSet(D)
  PROVE  LET U == ({"slot"} \X A) \cup ({"cur"} \X B) \cup ({"new"} \X C) \cup ({"op"} \X D)
         IN  /\ IsFiniteSet(U)
             /\ Cardinality(U) = Cardinality(A) + Cardinality(B) + Cardinality(C) + Cardinality(D)
<1> DEFINE a == {"slot"} \X A
           b == {"cur"} \X B
           c == {"new"} \X C
           d == {"op"} \X D
<1>1. /\ IsFiniteSet(a) /\ Cardinality(a) = Cardinality(A)
      /\ IsFiniteSet(b) /\ Cardinality(b) = Cardinality(B)
      /\ IsFiniteSet(c) /\ Cardinality(c) = Cardinality(C)
      /\ IsFiniteSet(d) /\ Cardinality(d) = Cardinality(D)
  BY Tagged
<1>2. a \cap b = {} /\ (a \cup b) \cap c = {} /\ (a \cup b \cup c) \cap d = {}
  OBVIOUS
<1> HIDE DEF a, b, c, d
<1>3. IsFiniteSet(a \cup b) /\ Cardinality(a \cup b) = Cardinality(a) + Cardinality(b)
  BY <1>1, <1>2, DisjointUnion
<1>4. IsFiniteSet(a \cup b \cup c)
      /\ Cardinality(a \cup b \cup c) = Cardinality(a) + Cardinality(b) + Cardinality(c)
  BY <1>1, <1>2, <1>3, DisjointUnion
<1>5. IsFiniteSet(a \cup b \cup c \cup d)
      /\ Cardinality(a \cup b \cup c \cup d)
            = Cardinality(a) + Cardinality(b) + Cardinality(c) + Cardinality(d)
  BY <1>1, <1>2, <1>4, DisjointUnion
<1> QED
  BY <1>1, <1>5 DEF a, b, c, d

\* The references of thread t to context c.
Has(c, t) ==
    (IF cur[t] = c THEN 1 ELSE 0) + (IF new[t] = c THEN 1 ELSE 0)
    + (IF op[t] = c /\ pc[t] # "delete" THEN 1 ELSE 0)

LEMMA FiniteThread == IsFiniteSet(Thread)
BY FiniteNode, FS_AddElement DEF Thread

LEMMA HolderCount ==
  ASSUME NEW C \in SUBSET Thread, NEW N \in SUBSET Thread, NEW O \in SUBSET Thread, NEW S, NEW c, NEW U,
         U = ({"slot"} \X {d \in S : d = c}) \cup ({"cur"} \X C) \cup ({"new"} \X N) \cup ({"op"} \X O)
  PROVE  /\ IsFiniteSet(U)
         /\ Cardinality(U) = One(c, S) + Cardinality(C) + Cardinality(N) + Cardinality(O)
<1>1. IsFiniteSet(C) /\ IsFiniteSet(N) /\ IsFiniteSet(O)
  BY FiniteThread, FS_Subset
<1> DEFINE A == {d \in S : d = c}
<1>2. IsFiniteSet(A) /\ Cardinality(A) = One(c, S)
  <2>1. CASE c \in S
    <3>1. A = {c}
      BY <2>1
    <3> QED
      BY <2>1, <3>1, FS_Singleton DEF One
  <2>2. CASE c \notin S
    <3>1. A = {}
      BY <2>2
    <3> QED
      BY <2>2, <3>1, FS_EmptySet DEF One
  <2> QED
    BY <2>1, <2>2
<1> HIDE DEF A
<1> DEFINE V == ({"slot"} \X A) \cup ({"cur"} \X C) \cup ({"new"} \X N) \cup ({"op"} \X O)
<1>3. IsFiniteSet(V) /\ Cardinality(V) = One(c, S) + Cardinality(C) + Cardinality(N) + Cardinality(O)
  BY <1>1, <1>2, TaggedUnion
<1>4. U = V
  BY DEF A
<1> QED
  BY <1>3, <1>4

\* Only thread t and the slots change the number of references.
LEMMA HolderStep ==
  ASSUME NEW c, NEW t \in Thread, \A s \in Thread : s # t => Unmoved(s)
  PROVE  /\ Cardinality(Holders(c))' + Has(c, t) + One(c, slot)
               = Cardinality(Holders(c)) + Has(c, t)' + One(c, slot')
         /\ Cardinality(Holders(c)) \in Nat /\ Cardinality(Holders(c))' \in Nat
<1> DEFINE C == {s \in Thread : cur[s] = c}
           N == {s \in Thread : new[s] = c}
           O == {s \in Thread : op[s] = c /\ pc[s] # "delete"}
           D == {s \in Thread : cur'[s] = c}
           M == {s \in Thread : new'[s] = c}
           P == {s \in Thread : op'[s] = c /\ pc'[s] # "delete"}
<1>1. Cardinality(Holders(c)) = One(c, slot) + Cardinality(C) + Cardinality(N) + Cardinality(O)
  <2>1. Holders(c) = ({"slot"} \X {d \in slot : d = c}) \cup ({"cur"} \X C) \cup ({"new"} \X N) \cup ({"op"} \X O)
    BY DEF Holders
  <2>2. C \in SUBSET Thread /\ N \in SUBSET Thread /\ O \in SUBSET Thread
    OBVIOUS
  <2> DEFINE U == Holders(c)
  <2> HIDE DEF C, N, O, U
  <2>3. U = ({"slot"} \X {d \in slot : d = c}) \cup ({"cur"} \X C) \cup ({"new"} \X N) \cup ({"op"} \X O)
    BY <2>1 DEF U
  <2>4. IsFiniteSet(U) /\ Cardinality(U) = One(c, slot) + Cardinality(C) + Cardinality(N) + Cardinality(O)
    BY <2>2, <2>3, HolderCount
  <2> QED
    BY <2>4 DEF U
<1>2. Cardinality(Holders(c))' = One(c, slot') + Cardinality(D) + Cardinality(M) + Cardinality(P)
  <2>1. Holders(c)' = ({"slot"} \X {d \in slot' : d = c}) \cup ({"cur"} \X D) \cup ({"new"} \X M) \cup ({"op"} \X P)
    BY DEF Holders
  <2>2. D \in SUBSET Thread /\ M \in SUBSET Thread /\ P \in SUBSET Thread
    OBVIOUS
  <2> DEFINE U == Holders(c)'
             T == slot'
  <2> HIDE DEF D, M, P, U, T
  <2>3. U = ({"slot"} \X {d \in T : d = c}) \cup ({"cur"} \X D) \cup ({"new"} \X M) \cup ({"op"} \X P)
    BY <2>1 DEF U, T
  <2>4. IsFiniteSet(U) /\ Cardinality(U) = One(c, T) + Cardinality(D) + Cardinality(M) + Cardinality(P)
    BY <2>2, <2>3, HolderCount
  <2> QED
    BY <2>4 DEF U, T
<1>3. /\ IsFiniteSet(C) /\ IsFiniteSet(N) /\ IsFiniteSet(O)
      /\ IsFiniteSet(D) /\ IsFiniteSet(M) /\ IsFiniteSet(P)
  BY FiniteThread, FS_Subset
<1>4. C \ {t} = D \ {t} /\ N \ {t} = M \ {t} /\ O \ {t} = P \ {t}
  BY DEF Unmoved
<1>5. /\ t \in C <=> cur[t] = c
      /\ t \in D <=> cur'[t] = c
      /\ t \in N <=> new[t] = c
      /\ t \in M <=> new'[t] = c
      /\ t \in O <=> (op[t] = c /\ pc[t] # "delete")
      /\ t \in P <=> (op'[t] = c /\ pc'[t] # "delete")
  OBVIOUS
<1>6. /\ Cardinality(C) \in Nat /\ Cardinality(N) \in Nat /\ Cardinality(O) \in Nat
      /\ Cardinality(D) \in Nat /\ Cardinality(M) \in Nat /\ Cardinality(P) \in Nat
  BY <1>3, FS_CardinalityType
<1> HIDE DEF C, N, O, D, M, P
<1>7. /\ Cardinality(D) + One(t, C) = Cardinality(C) + One(t, D)
      /\ Cardinality(M) + One(t, N) = Cardinality(N) + One(t, M)
      /\ Cardinality(P) + One(t, O) = Cardinality(O) + One(t, P)
  BY <1>3, <1>4, OneMember
<1>8. /\ Has(c, t) = One(t, C) + One(t, N) + One(t, O)
      /\ Has(c, t)' = One(t, D) + One(t, M) + One(t, P)
  BY <1>5 DEF Has, One
<1>9. /\ One(t, C) \in Nat /\ One(t, N) \in Nat /\ One(t, O) \in Nat
      /\ One(t, D) \in Nat /\ One(t, M) \in Nat /\ One(t, P) \in Nat
      /\ One(c, slot) \in Nat /\ One(c, slot') \in Nat
  BY DEF One
<1> QED
  BY <1>1, <1>2, <1>6, <1>7, <1>8, <1>9

\* Whoever refers to a context is counted.
LEMMA HolderCounted ==
  ASSUME NEW c
  PROVE  /\ Cardinality(Holders(c)) \in Nat
         /\ c \in slot => Cardinality(Holders(c)) > 0
         /\ \A t \in Thread : /\ cur[t] = c => Cardinality(Holders(c)) > 0
                              /\ new[t] = c => Cardinality(Holders(c)) > 0
                              /\ op[t] = c /\ pc[t] # "delete" => Cardinality(Holders(c)) > 0
<1>1. IsFiniteSet(Holders(c))
  <2> DEFINE C == {s \in Thread : cur[s] = c}
             N == {s \in Thread : new[s] = c}
             O == {s \in Thread : op[s] = c /\ pc[s] # "delete"}
  <2>1. Holders(c) = ({"slot"} \X {d \in slot : d = c}) \cup ({"cur"} \X C) \cup ({"new"} \X N) \cup ({"op"} \X O)
    BY DEF Holders
  <2>2. C \in SUBSET Thread /\ N \in SUBSET Thread /\ O \in SUBSET Thread
    OBVIOUS
  <2> DEFINE U == Holders(c)
  <2> HIDE DEF C, N, O, U
  <2>3. U = ({"slot"} \X {d \in slot : d = c}) \cup ({"cur"} \X C) \cup ({"new"} \X N) \cup ({"op"} \X O)
    BY <2>1 DEF U
  <2>4. IsFiniteSet(U) /\ Cardinality(U) = One(c, slot) + Cardinality(C) + Cardinality(N) + Cardinality(O)
    BY <2>2, <2>3, HolderCount
  <2> QED
    BY <2>4 DEF U
<1>2. Cardinality(Holders(c)) \in Nat /\ (Holders(c) # {} => Cardinality(Holders(c)) > 0)
  <2>1. Cardinality(Holders(c)) \in Nat
    BY <1>1, FS_CardinalityType
  <2>2. Cardinality(Holders(c)) = 0 <=> Holders(c) = {}
    BY <1>1, FS_EmptySet
  <2> QED
    BY <2>1, <2>2
<1>3. c \in slot => Holders(c) # {}
  <2>1. c \in slot => <<"slot", c>> \in Holders(c)
    BY DEF Holders
  <2> QED
    BY <2>1
<1>4. ASSUME NEW t \in Thread
      PROVE  /\ cur[t] = c => Holders(c) # {}
             /\ new[t] = c => Holders(c) # {}
             /\ op[t] = c /\ pc[t] # "delete" => Holders(c) # {}
  <2>1. /\ cur[t] = c => <<"cur", t>> \in Holders(c)
        /\ new[t] = c => <<"new", t>> \in Holders(c)
        /\ op[t] = c /\ pc[t] # "delete" => <<"op", t>> \in Holders(c)
    BY DEF Holders
  <2> QED
    BY <2>1
<1> QED
  BY <1>2, <1>3, <1>4

-----------------------------------------------------------------------------
(* Where the threads are                                                     *)

\* What a thread has at each of its points.
LEMMA Hand ==
  ASSUME Typed, NEW t \in Thread, Control(t), Hands(t)
  PROVE  /\ pc[t] \in {"find", "push"} => out[t] \in Msg /\ ret[t] \in {"handler", "ready", "drop", "tick"}
         /\ pc[t] \in {"release", "delete"} => ret[t] \in {"next", "top", "handler", "ready", "drop", "tick", "unregister", "mqrelease", "retireall"}
         /\ pc[t] \in {"push", "release", "delete"} => op[t] \in Svc /\ dest[t] = Nil
         /\ pc[t] = "find" => dest[t] \in Svc
         /\ pc[t] \notin Calls => op[t] = Nil /\ out[t] = Nil /\ dest[t] = Nil /\ ret[t] = "none"
         /\ pc[t] \in {"grab"} \cup Dispatching => q[t] \in Svc
         /\ pc[t] \in Dispatching => cur[t] = q[t]
         /\ pc[t] \in {"top", "grab", "next"} \cup Asleep => cur[t] = Nil
         /\ pc[t] \in {"next"} \cup Asleep => q[t] = Nil
         /\ pc[t] = "putback" => nq[t] \in Svc
         /\ pc[t] \in Points \ {"putback"} => nq[t] = Nil
         /\ pc[t] \in Creating => new[t] \in Svc
         /\ pc[t] \in Points \ Creating => new[t] = Nil
         /\ pc[t] \in {"init", "ready"} => dq[t] = new[t]
         /\ pc[t] \in {"init", "ready", "unregister", "mqrelease", "drop"} => dq[t] \in Svc
         /\ pc[t] \in Points \ {"init", "ready", "unregister", "mqrelease", "drop"} => dq[t] = Nil
         /\ pc[t] \in Dispatching \ {"pop", "swap", "putback"} => got[t] \in Msg
         /\ pc[t] \in {"pop", "swap", "putback"} => got[t] = Nil
         /\ pc[t] \in {"mqrelease", "drop"} => IF cur[t] = Nil THEN q[t] = Nil /\ got[t] = Nil
                                                ELSE q[t] = cur[t] /\ got[t] \in Msg
<1> USE DEF Typed, SlotOrNil, At, Calls, Asleep, Creating, Dispatching, Points
<1>1. CASE pc[t] \in Calls
  BY <1>1 DEF Control
<1>2. CASE pc[t] \notin Calls
  BY <1>2 DEF Control, Hands
<1> QED
  BY <1>1, <1>2

\* Threads that do not move stay where they are.
LEMMA Stay ==
  ASSUME NEW s \in Thread, Unmoved(s), Control(s), Hands(s)
  PROVE  Control(s)' /\ Hands(s)'
BY DEF Unmoved, Control, Hands, At

\* The oldest message of a queue that is not empty is one.
LEMMA OldestMessage ==
  ASSUME Typed, Messages, NEW c \in Svc, MqPop(c)
  PROVE  Oldest(mq[c]) \in Msg
<1>1. /\ Pending(mq[c]) \in Seq(Msg \cup {Nil}) /\ Pending(mq[c]) # <<>>
      /\ Len(Pending(mq[c])) = QueueLength(mq[c]) /\ Oldest(mq[c]) = Head(Pending(mq[c]))
  BY PopQueue, PendingMessages DEF Typed
<1>2. Head(Pending(mq[c])) = Pending(mq[c])[1] /\ 1 \in 1..QueueLength(mq[c])
  BY <1>1, HeadTailProperties
<1> QED
  BY <1>1, <1>2 DEF Messages

\* The thread that moves arrives with what the point needs.
LEMMA Moves ==
  ASSUME Typed, Messages, NEW t \in Thread, Control(t), Hands(t), Step(t)
  PROVE  Control(t)' /\ Hands(t)'
<1> USE DEF Typed, SlotOrNil, Control, Hands, At, Calls, Points, Asleep, Creating, Dispatching,
            Goto, Resume, Release, StartSend, Retire, callVars, ctxVars
<1>1. CASE Idle(t)
  BY <1>1 DEF Idle, Quit, KeepOn, FallAsleep, Wait, WakeUp, TimerAbort, OnlyPc, allButPc
<1>2. CASE Send(t)
  <2>1. CASE HandlerSend(t)
    <3>1. \A c \in Svc : [id |-> sent + 1, src |-> c, err |-> FALSE] \in Msg
      BY <2>1, MaxMsgNat DEF HandlerSend, Msg
    <3> QED
      BY <2>1, <3>1 DEF HandlerSend, Known
  <2>2. CASE InitSend(t)
    <3>1. \A c \in Svc : [id |-> 0, src |-> c, err |-> FALSE] \in Msg
      BY MaxMsgNat DEF Msg
    <3> QED
      BY <2>2, <3>1 DEF InitSend
  <2>3. CASE t = Timer /\ TimerSend
    <3>1. [id |-> sent + 1, src |-> Nil, err |-> FALSE] \in Msg
      BY <2>3, MaxMsgNat DEF TimerSend, Msg
    <3>2. PICK h \in Svc : StartSend(t, h, [id |-> sent + 1, src |-> Nil, err |-> FALSE], "tick")
      BY <2>3 DEF TimerSend, Known
    <3>3. UNCHANGED <<q, nq, cur, op, new, dq, got>> /\ pc[t] = "tick"
      BY <2>3 DEF TimerSend
    <3> DEFINE m == [id |-> sent + 1, src |-> Nil, err |-> FALSE]
    <3> HIDE DEF m
    <3> QED
      BY <3>1, <3>2, <3>3 DEF m
  <2> QED
    BY <1>2, <2>1, <2>2, <2>3 DEF Send
<1>3. CASE Other(t)
  <2>1. CASE TakeLength(t) \/ DropQueue(t)
    BY <2>1 DEF TakeLength, DropQueue
  <2>2. CASE Return(t)
    BY <2>2 DEF Return
  <2>3. CASE Abort(t) \/ RetireRound(t)
    BY <2>3 DEF Abort, RetireRound
  <2> QED
    BY <1>3, <2>1, <2>2, <2>3 DEF Other
<1>4. CASE Fetch(t)
  <2>1. gmq # <<>> => Head(gmq) \in Svc
    OBVIOUS
  <2>2. UNCHANGED <<ret, nq, cur, op, new, dq, got, out, dest>> /\ pc[t] \in {"top", "next"} /\ q[t] = Nil
    BY <1>4 DEF Fetch
  <2>3. CASE gmq = <<>>
    BY <1>4, <2>2, <2>3 DEF Fetch, PopGlobal
  <2>4. CASE gmq # <<>>
    <3>1. /\ q' = [q EXCEPT ![t] = Head(gmq)]
          /\ pc' = [pc EXCEPT ![t] = "grab"] \/ pc' = [pc EXCEPT ![t] = "top"]
      BY <1>4, <2>4 DEF Fetch, PopGlobal
    <3> DEFINE c == Head(gmq)
    <3>2. c \in Svc
      BY <2>1, <2>4
    <3> HIDE DEF c
    <3>3. q' = [q EXCEPT ![t] = c]
      BY <3>1 DEF c
    <3> QED
      BY <2>2, <3>1, <3>2, <3>3
  <2> QED
    BY <2>3, <2>4
<1>5. CASE Grab(t) \/ PopNothing(t)
  BY <1>5 DEF Grab, PopNothing
<1>6. CASE Pop(t)
  <2>1. Oldest(mq[q[t]]) \in Msg
    BY <1>6, OldestMessage DEF Pop
  <2> QED
    BY <1>6, <2>1 DEF Pop
<1>7. CASE Swap(t) \/ PutBack(t) \/ KeepQueue(t) \/ FreeQueue(t)
  BY <1>7 DEF Swap, PutBack, KeepQueue, FreeQueue, BackToCaller
<1>8. CASE DropMessage(t)
  <2>1. Oldest(mq[dq[t]]) \in Msg
    BY <1>8, OldestMessage DEF DropMessage
  <2> DEFINE m == Oldest(mq[dq[t]])
  <2>2. m.src # Nil => m.src \in Svc /\ [id |-> m.id, src |-> dq[t], err |-> TRUE] \in Msg
    BY <1>8, <2>1 DEF Msg, DropMessage
  <2>3. CASE m.src = Nil
    BY <1>8, <2>3 DEF DropMessage
  <2>4. CASE m.src # Nil
    <3> DEFINE e == [id |-> m.id, src |-> dq[t], err |-> TRUE]
    <3>1. /\ pc[t] = "drop" /\ UNCHANGED <<q, nq, cur, op, new, dq, got>>
          /\ StartSend(t, m.src, e, "drop")
      BY <1>8, <2>4 DEF DropMessage
    <3>2. m.src \in Svc /\ e \in Msg
      BY <2>2, <2>4
    <3> HIDE DEF m, e
    <3> QED
      BY <3>1, <3>2
  <2> QED
    BY <2>3, <2>4
<1>9. CASE Living(t)
  BY <1>9 DEF Living, Register, Create, InitOk, InitFail, Unregister, Kill, RetireOne, Known
<1>10. CASE Core(t)
  BY <1>10 DEF Core, DecRef, DeleteContext, FindReceiver, Push
<1> QED
  BY <1>1, <1>2, <1>3, <1>4, <1>5, <1>6, <1>7, <1>8, <1>9, <1>10 DEF Step, Queueing

-----------------------------------------------------------------------------
(* Types are kept                                                            *)

QueuesTyped ==
    /\ mq \in [Svc -> Queue] /\ \A c \in Svc : Sound(mq[c])
    /\ gmq \in Seq(Svc) /\ Messages

ContextsTyped ==
    ctx \in [Svc -> Context] /\ slot \subseteq Svc /\ total \in Int /\ sent \in 0..MaxMsg /\ quit \in BOOLEAN

LEMMA MessagesAre ==
  ASSUME NEW k, Sound(k)
  PROVE  (\A i \in 1..QueueLength(k) : Pending(k)[i] \in Msg) <=> Pending(k) \in Seq(Msg)
<1>1. Pending(k) \in Seq(Msg \cup {Nil}) /\ Len(Pending(k)) = QueueLength(k)
  BY PendingMessages
<1>2. Pending(k) \in [1..QueueLength(k) -> Msg \cup {Nil}] /\ QueueLength(k) \in Nat
  BY <1>1, LenProperties
<1>3. ASSUME \A i \in 1..QueueLength(k) : Pending(k)[i] \in Msg
      PROVE  Pending(k) \in Seq(Msg)
  <2>1. Pending(k) \in [1..QueueLength(k) -> Msg]
    BY <1>2, <1>3
  <2> QED
    BY <1>2, <2>1, SeqDef
<1>4. ASSUME Pending(k) \in Seq(Msg), NEW i \in 1..QueueLength(k)
      PROVE  Pending(k)[i] \in Msg
  BY <1>1, <1>4, ElementOfSeq
<1> QED
  BY <1>3, <1>4

\* A queue that changes into one that holds messages keeps the queues typed.
LEMMA OneQueueTyped ==
  ASSUME QueuesTyped, NEW c \in Svc, Becomes(c, mq'[c]), Pending(mq'[c]) \in Seq(Msg), gmq' \in Seq(Svc)
  PROVE  QueuesTyped'
<1>1. ASSUME NEW d \in Svc, NEW i \in 1..QueueLength(mq'[d])
      PROVE  Pending(mq'[d])[i] \in Msg
  <2>1. CASE d = c
    <3>1. Sound(mq'[c])
      BY DEF Becomes
    <3> QED
      BY <2>1, <3>1, MessagesAre
  <2>2. CASE d # c
    BY <2>2 DEF QueuesTyped, Messages, Becomes
  <2> QED
    BY <2>1, <2>2
<1> QED
  BY <1>1 DEF QueuesTyped, Messages, Becomes

LEMMA GlobalTyped ==
  ASSUME gmq \in Seq(Svc)
  PROVE  /\ \A c \in Svc : Append(gmq, c) \in Seq(Svc)
         /\ gmq # <<>> => Tail(gmq) \in Seq(Svc) /\ Head(gmq) \in Svc
BY HeadTailProperties, AppendProperties

LEMMA QueueTypes ==
  ASSUME Typed, Messages, NEW t \in Thread, Control(t), Hands(t), Step(t)
  PROVE  QueuesTyped'
<1> USE DEF Calls, Asleep, Creating, Dispatching, Points, Retire, callVars, ctxVars
<1>1. QueuesTyped /\ gmq \in Seq(Svc)
  BY DEF Typed, QueuesTyped
<1>2. \A c \in Svc : Pending(mq[c]) \in Seq(Msg)
  BY MessagesAre DEF Typed, Messages
<1>3. CASE UNCHANGED mq /\ gmq' \in Seq(Svc)
  BY <1>1, <1>3 DEF QueuesTyped, Messages
<1>4. CASE Idle(t) \/ Send(t) \/ Other(t)
  <2>1. UNCHANGED <<mq, gmq>>
    BY <1>4 DEF Idle, Quit, KeepOn, FallAsleep, Wait, WakeUp, TimerAbort, OnlyPc, allButPc, Send,
                HandlerSend, InitSend, TimerSend, Other, TakeLength, Return, Abort, RetireRound, DropQueue
  <2> QED
    BY <1>1, <1>3, <2>1
<1>5. CASE Fetch(t) \/ Grab(t) \/ Swap(t) \/ PutBack(t) \/ KeepQueue(t)
  <2>1. UNCHANGED mq
    BY <1>5 DEF Fetch, Grab, Swap, PutBack, KeepQueue
  <2>2. \/ gmq' = gmq \/ (gmq # <<>> /\ gmq' = Tail(gmq))
        \/ \E c \in Svc : gmq' = Append(gmq, c)
    BY <1>5, Hand DEF Fetch, PopGlobal, Grab, Swap, PutBack, KeepQueue
  <2> QED
    BY <1>1, <1>3, <2>1, <2>2, GlobalTyped
<1>6. CASE PopNothing(t)
  <2>1. q[t] \in Svc /\ gmq' = gmq /\ MqPopNothing(q[t])
    BY <1>6, Hand DEF PopNothing
  <2> QED
    BY <1>1, <1>2, <2>1, LeaveQueue, OneQueueTyped
<1>7. ASSUME NEW c \in Svc, MqPop(c), gmq' = gmq
      PROVE  QueuesTyped'
  <2>1. Becomes(c, mq'[c]) /\ Pending(mq[c]) # <<>> /\ Pending(mq'[c]) = Tail(Pending(mq[c]))
    BY <1>7, PopQueue
  <2>2. Pending(mq'[c]) \in Seq(Msg)
    BY <1>2, <2>1, HeadTailProperties
  <2> QED
    BY <1>1, <1>7, <2>1, <2>2, OneQueueTyped
<1>8. CASE Pop(t) \/ DropMessage(t)
  BY <1>7, <1>8, Hand DEF Pop, DropMessage
<1>9. CASE FreeQueue(t)
  <2>1. dq[t] \in Svc /\ gmq' = gmq /\ mq' = [mq EXCEPT ![dq[t]] = NoQueue("freed")]
    BY <1>9, Hand DEF FreeQueue, MqFree
  <2>2. Sound(NoQueue("freed")) /\ Pending(NoQueue("freed")) = <<>>
    BY NoQueueSound
  <2>3. Becomes(dq[t], NoQueue("freed")) /\ mq'[dq[t]] = NoQueue("freed")
    BY <2>1, <2>2, OneQueue DEF Becomes
  <2> QED
    BY <1>1, <2>1, <2>2, <2>3, OneQueueTyped, EmptySeq
<1>10. CASE Create(t)
  <2>1. new[t] \in Svc /\ gmq' = gmq /\ mq' = [mq EXCEPT ![new[t]] = NewQueue]
    BY <1>10, Hand DEF Create
  <2>2. Sound(NewQueue) /\ Pending(NewQueue) = <<>>
    BY NewQueueSound
  <2>3. Becomes(new[t], NewQueue) /\ mq'[new[t]] = NewQueue
    BY <2>1, <2>2, OneQueue DEF Becomes
  <2> QED
    BY <1>1, <2>1, <2>2, <2>3, OneQueueTyped, EmptySeq
<1>11. CASE Register(t) \/ InitOk(t) \/ InitFail(t) \/ Unregister(t) \/ Kill(t) \/ RetireOne(t)
  <2>1. UNCHANGED mq /\ (gmq' = gmq \/ \E c \in Svc : gmq' = Append(gmq, c))
    BY <1>11, Hand DEF Register, InitOk, InitFail, Unregister, Kill, RetireOne
  <2> QED
    BY <1>1, <1>3, <2>1, GlobalTyped
<1>12. CASE DecRef(t) \/ FindReceiver(t)
  BY <1>1, <1>3, <1>12 DEF DecRef, FindReceiver
<1>13. CASE DeleteContext(t)
  <2>1. op[t] \in Svc /\ MqMarkRelease(op[t])
    BY <1>13, Hand DEF DeleteContext
  <2>2. gmq' \in Seq(Svc)
    BY <1>1, <2>1, GlobalTyped DEF MqMarkRelease
  <2> QED
    BY <1>1, <1>2, <2>1, <2>2, MarkQueue, OneQueueTyped
<1>14. CASE Push(t)
  <2>1. op[t] \in Svc /\ out[t] \in Msg /\ MqPush(op[t], out[t])
    BY <1>14, Hand DEF Push
  <2>2. gmq' \in Seq(Svc)
    BY <1>1, <2>1, GlobalTyped DEF MqPush
  <2>3. Becomes(op[t], mq'[op[t]]) /\ Pending(mq'[op[t]]) = Append(Pending(mq[op[t]]), out[t])
    BY <2>1, PushQueue
  <2>4. Pending(mq'[op[t]]) \in Seq(Msg)
    BY <1>2, <2>1, <2>3, AppendProperties
  <2> QED
    BY <1>1, <2>1, <2>2, <2>3, <2>4, OneQueueTyped
<1> QED
  BY <1>4, <1>5, <1>6, <1>8, <1>9, <1>10, <1>11, <1>12, <1>13, <1>14
  DEF Step, Queueing, Living, Core

\* A context has a reference whenever something refers to it.
LEMMA RefPositive ==
  ASSUME Typed, RefExact, NEW c \in Svc
  PROVE  /\ c \in slot => ctx[c].ref > 0
         /\ \A t \in Thread : /\ cur[t] = c => ctx[c].ref > 0
                              /\ new[t] = c => ctx[c].ref > 0
                              /\ op[t] = c /\ pc[t] # "delete" => ctx[c].ref > 0
BY HolderCounted DEF RefExact

LEMMA ContextTypes ==
  ASSUME Typed, RefExact, NEW t \in Thread, Control(t), Hands(t), Step(t)
  PROVE  ContextsTyped'
<1> USE DEF ContextsTyped, Calls, Asleep, Creating, Dispatching, Points, Retire, ctxVars, callVars
<1>1. ContextsTyped
  BY DEF Typed
<1>2. CASE Idle(t) \/ Other(t) \/ (Queueing(t) /\ ~Grab(t))
  <2>1. UNCHANGED <<ctx, slot, total, sent>>
    BY <1>2 DEF Idle, Quit, KeepOn, FallAsleep, Wait, WakeUp, TimerAbort, OnlyPc, allButPc, Other,
                TakeLength, Return, Abort, RetireRound, DropQueue,
                Queueing, Fetch, PopNothing, Pop, Swap, PutBack, KeepQueue, DropMessage, FreeQueue
  <2> QED
    BY <1>1, <2>1 DEF Step
<1>3. CASE Send(t)
  <2>1. UNCHANGED <<ctx, slot, total>> /\ (sent' = sent \/ (sent' = sent + 1 /\ sent < MaxMsg))
    BY <1>3 DEF Send, HandlerSend, InitSend, TimerSend
  <2> QED
    BY <1>1, <2>1, MaxMsgNat DEF Step
<1>4. ASSUME ctx' \in [Svc -> Context], slot' \subseteq Svc, total' \in Int, UNCHANGED sent
      PROVE  ContextsTyped'
  BY <1>1, <1>4 DEF Step
<1>5. \A c \in Svc : ctx[c].ref \in Nat
  BY <1>1 DEF Context
<1>6. CASE Grab(t)
  <2>1. CASE Found(q[t])
    <3>1. /\ q[t] \in Svc /\ ctx' = [ctx EXCEPT ![q[t]].ref = ctx[q[t]].ref + 1]
          /\ UNCHANGED <<slot, total, sent>>
      BY <1>6, <2>1, Hand DEF Grab
    <3>2. ctx' \in [Svc -> Context]
      BY <1>1, <3>1 DEF Context
    <3> QED
      BY <1>1, <1>4, <3>1, <3>2
  <2>2. CASE ~Found(q[t])
    BY <1>1, <1>6, <2>2 DEF Grab, Step
  <2> QED
    BY <2>1, <2>2
<1>7. CASE FindReceiver(t)
  <2>1. CASE Found(dest[t])
    <3>1. /\ dest[t] \in Svc /\ ctx' = [ctx EXCEPT ![dest[t]].ref = ctx[dest[t]].ref + 1]
          /\ UNCHANGED <<slot, total, sent>>
      BY <1>7, <2>1, Hand DEF FindReceiver
    <3>2. ctx' \in [Svc -> Context]
      BY <1>1, <3>1 DEF Context
    <3> QED
      BY <1>1, <1>4, <3>1, <3>2
  <2>2. CASE ~Found(dest[t])
    BY <1>1, <1>7, <2>2 DEF FindReceiver, Step
  <2> QED
    BY <2>1, <2>2
<1>8. CASE DecRef(t)
  <2>1. /\ op[t] \in Svc /\ ctx' = [ctx EXCEPT ![op[t]].ref = ctx[op[t]].ref - 1]
        /\ UNCHANGED <<slot, total, sent>> /\ pc[t] = "release"
    BY <1>8, Hand DEF DecRef
  <2>2. ctx[op[t]].ref - 1 \in Nat
    BY <1>5, <2>1, RefPositive
  <2>3. ctx' \in [Svc -> Context]
    BY <1>1, <2>1, <2>2 DEF Context
  <2> QED
    BY <1>1, <1>4, <2>1, <2>3
<1>9. CASE DeleteContext(t)
  <2>1. op[t] \in Svc
    BY <1>9, Hand DEF DeleteContext
  <2>2. ctx' \in [Svc -> Context]
    BY <1>1, <1>9, <2>1 DEF DeleteContext, Context, NoContext
  <2> QED
    BY <1>1, <1>4, <1>9, <2>2 DEF DeleteContext
<1>10. CASE Push(t)
  BY <1>1, <1>10 DEF Push, Step
<1>11. CASE Register(t)
  <2>1. ctx' \in [Svc -> Context]
    BY <1>1, <1>11 DEF Register, Context
  <2> QED
    BY <1>1, <1>4, <1>11, <2>1 DEF Register
<1>12. CASE Create(t)
  <2>1. new[t] \in Svc
    BY <1>12, Hand DEF Create
  <2>2. ctx' \in [Svc -> Context]
    BY <1>1, <1>12, <2>1 DEF Create, Context
  <2> QED
    BY <1>1, <1>4, <1>12, <2>2 DEF Create
<1>13. CASE InitOk(t)
  <2>1. new[t] \in Svc
    BY <1>13, Hand DEF InitOk
  <2>2. ctx' \in [Svc -> Context]
    BY <1>1, <1>13, <2>1 DEF InitOk, Context
  <2> QED
    BY <1>1, <1>4, <1>13, <2>2 DEF InitOk
<1>14. CASE InitFail(t) \/ Unregister(t) \/ Kill(t) \/ RetireOne(t)
  <2>1. UNCHANGED <<ctx, total, sent>> /\ slot' \subseteq slot
    BY <1>14 DEF InitFail, Unregister, Kill, RetireOne
  <2> QED
    BY <1>1, <2>1 DEF Step
<1> QED
  BY <1>2, <1>3, <1>6, <1>7, <1>8, <1>9, <1>10, <1>11, <1>12, <1>13, <1>14
  DEF Step, Queueing, Living, Core

ThreadsTyped ==
    /\ pc \in [Thread -> Points \cup Calls] /\ ret \in [Thread -> Points \cup {"none"}]
    /\ q \in [Thread -> SlotOrNil] /\ nq \in [Thread -> SlotOrNil] /\ cur \in [Thread -> SlotOrNil]
    /\ op \in [Thread -> SlotOrNil] /\ new \in [Thread -> SlotOrNil] /\ dq \in [Thread -> SlotOrNil]
    /\ dest \in [Thread -> SlotOrNil]
    /\ got \in [Thread -> Msg \cup {Nil}] /\ out \in [Thread -> Msg \cup {Nil}]
    /\ turn \in [Thread -> Nat] /\ batch \in [Thread -> Nat]
    /\ todo \in [Thread -> SUBSET Svc] /\ seen \in [Thread -> BOOLEAN]

\* n >>= weight: a whole number of messages.
LEMMA ShiftType ==
  ASSUME NEW n \in Nat, NEW w \in 0..3
  PROVE  n \div (2 ^ w) \in Nat
<1>1. CASE w = 0
  BY <1>1
<1>2. CASE w = 1
  BY <1>2
<1>3. CASE w = 2
  BY <1>3
<1>4. CASE w = 3
  BY <1>4
<1> QED
  BY <1>1, <1>2, <1>3, <1>4

LEMMA SendTypes ==
  ASSUME ThreadsTyped, NEW t \in Thread, NEW h \in Svc, NEW m \in Msg, NEW r \in Points,
         StartSend(t, h, m, r),
         UNCHANGED <<q, nq, cur, op, new, dq, got, turn, batch, todo, seen>>
  PROVE  ThreadsTyped'
BY DEF ThreadsTyped, StartSend, Goto, SlotOrNil, Calls

\* The sends of Step, with what they send and where they go on.
LEMMA Sends ==
  ASSUME Typed, Messages, NEW t \in Thread, Control(t), Hands(t), Send(t)
  PROVE  /\ \E h \in Svc, m \in Msg, r \in {"handler", "ready", "tick"} : StartSend(t, h, m, r)
         /\ UNCHANGED <<mq, gmq, ctxVars, q, nq, cur, op, new, dq, got, turn, batch, todo, seen>>
<1> USE DEF Typed, SlotOrNil, ctxVars
<1>1. CASE HandlerSend(t)
  <2>1. cur[t] \in Svc
    BY <1>1, Hand DEF HandlerSend, Dispatching
  <2>2. [id |-> sent + 1, src |-> cur[t], err |-> FALSE] \in Msg
    BY <1>1, <2>1, MaxMsgNat DEF HandlerSend, Msg
  <2> QED
    BY <1>1, <2>2 DEF HandlerSend, Known
<1>2. CASE InitSend(t)
  <2>1. new[t] \in Svc
    BY <1>2, Hand DEF InitSend, Creating
  <2>2. [id |-> 0, src |-> new[t], err |-> FALSE] \in Msg
    BY <2>1, MaxMsgNat DEF Msg
  <2> QED
    BY <1>2, <2>1, <2>2 DEF InitSend
<1>3. CASE t = Timer /\ TimerSend
  <2>1. [id |-> sent + 1, src |-> Nil, err |-> FALSE] \in Msg
    BY <1>3, MaxMsgNat DEF TimerSend, Msg
  <2> QED
    BY <1>3, <2>1 DEF TimerSend, Known
<1> QED
  BY <1>1, <1>2, <1>3 DEF Send

LEMMA ThreadTypes ==
  ASSUME Typed, Messages, NEW t \in Thread, Control(t), Hands(t), Step(t)
  PROVE  ThreadsTyped'
<1> USE DEF callVars, ctxVars, ThreadsTyped, Points, Calls, Asleep, Creating, Dispatching, SlotOrNil,
            Goto, Release, Resume, Retire
<1>1. ThreadsTyped
  BY DEF Typed
<1>2. CASE Idle(t)
  BY <1>1, <1>2 DEF Idle, Quit, KeepOn, FallAsleep, Wait, WakeUp, TimerAbort, OnlyPc, allButPc
<1>3. CASE Send(t)
  BY <1>1, <1>3, Sends, SendTypes
<1>4. CASE TakeLength(t)
  <2>1. q[t] \in Svc /\ t # Timer /\ Weight[t] \in 0..3
    BY <1>4, Hand, WeightsSmall DEF TakeLength, Control, Hands, At, Thread
  <2> DEFINE n == QueueLength(mq[q[t]])
             w == Weight[t]
  <2>2. n \in Nat
    BY <2>1, PendingMessages DEF Typed
  <2> DEFINE b == n \div (2 ^ w)
  <2>3. b \in Nat
    <3> HIDE DEF n, w
    <3> QED
      BY <2>1, <2>2, ShiftType DEF w
  <2>4. /\ batch' = [batch EXCEPT ![t] = b] /\ pc' = [pc EXCEPT ![t] = "handler"]
        /\ UNCHANGED <<ret, q, nq, cur, op, new, dq, got, out, dest, turn, todo, seen>>
    BY <1>4 DEF TakeLength
  <2> HIDE DEF b
  <2> QED
    BY <1>1, <2>3, <2>4
<1>5. CASE Return(t)
  BY <1>1, <1>5 DEF Return
<1>6. CASE Abort(t)
  BY <1>1, <1>6 DEF Abort
<1>7. CASE RetireRound(t) \/ DropQueue(t)
  <2>1. CASE DropQueue(t)
    BY <1>1, <2>1 DEF DropQueue
  <2>2. CASE RetireRound(t)
    <3>1. todo' = [todo EXCEPT ![t] = Svc] \/ UNCHANGED todo
      BY <2>2 DEF RetireRound
    <3>2. pc' = [pc EXCEPT ![t] = "handler"] \/ UNCHANGED pc
      BY <2>2 DEF RetireRound
    <3>3. /\ seen' = [seen EXCEPT ![t] = FALSE]
          /\ UNCHANGED <<ret, q, nq, cur, op, new, dq, got, out, dest, turn, batch>>
      BY <2>2 DEF RetireRound
    <3> QED
      BY <1>1, <3>1, <3>2, <3>3
  <2> QED
    BY <1>7, <2>1, <2>2
<1>8. CASE Fetch(t)
  <2>1. gmq # <<>> => Head(gmq) \in Svc
    BY GlobalTyped DEF Typed
  <2> QED
    <3> DEFINE c == Head(gmq)
    <3>1. (q' = [q EXCEPT ![t] = c] /\ gmq # <<>>) \/ UNCHANGED q
      BY <1>8 DEF Fetch, PopGlobal
    <3>2. PICK p \in {"grab", "sleep", "top"} : pc' = [pc EXCEPT ![t] = p]
      BY <1>8 DEF Fetch, PopGlobal
    <3>3. UNCHANGED <<ret, nq, cur, op, new, dq, callVars>>
      BY <1>8 DEF Fetch
    <3>4. gmq # <<>> => c \in Svc
      BY <2>1
    <3> HIDE DEF c
    <3>5. q' \in [Thread -> SlotOrNil]
      BY <1>1, <3>1, <3>4
    <3>6. pc' \in [Thread -> Points \cup Calls]
      BY <1>1, <3>2
    <3> QED
      BY <1>1, <3>3, <3>5, <3>6
<1>9. CASE Grab(t) \/ PopNothing(t)
  BY <1>1, <1>9 DEF Grab, PopNothing
<1>10. CASE Pop(t)
  <2>1. Oldest(mq[q[t]]) \in Msg
    BY <1>10, Hand, OldestMessage DEF Pop
  <2> DEFINE m == Oldest(mq[q[t]])
  <2>2. /\ got' = [got EXCEPT ![t] = m]
        /\ pc' = [pc EXCEPT ![t] = "length"] \/ pc' = [pc EXCEPT ![t] = "handler"]
        /\ UNCHANGED <<ret, q, nq, cur, op, new, dq, out, dest, turn, batch, todo, seen>>
    BY <1>10 DEF Pop
  <2> HIDE DEF m
  <2> QED
    BY <1>1, <2>1, <2>2 DEF m
<1>11. CASE Swap(t)
  <2>1. gmq # <<>> => Head(gmq) \in Svc
    BY GlobalTyped DEF Typed
  <2> QED
    <3> DEFINE c == Head(gmq)
    <3>1. CASE gmq = <<>>
      BY <1>1, <1>11, <3>1 DEF Swap
    <3>2. CASE gmq # <<>>
      <4>1. /\ nq' = [nq EXCEPT ![t] = c] /\ pc' = [pc EXCEPT ![t] = "putback"]
            /\ UNCHANGED <<ret, q, cur, op, new, dq, callVars>>
        BY <1>11, <3>2 DEF Swap
      <4>2. c \in Svc
        BY <2>1, <3>2
      <4> HIDE DEF c
      <4> QED
        BY <1>1, <4>1, <4>2
    <3> QED
      BY <3>1, <3>2
<1>12. CASE PutBack(t) \/ KeepQueue(t) \/ FreeQueue(t)
  BY <1>1, <1>12 DEF PutBack, KeepQueue, FreeQueue, BackToCaller
<1>13. CASE DropMessage(t)
  <2>1. dq[t] \in Svc
    BY <1>13, Hand DEF DropMessage
  <2>2. Oldest(mq[dq[t]]) \in Msg
    BY <1>13, <2>1, OldestMessage DEF DropMessage
  <2> DEFINE m == Oldest(mq[dq[t]])
             e == [id |-> m.id, src |-> dq[t], err |-> TRUE]
  <2>3. m.src = Nil \/ (m.src \in Svc /\ e \in Msg)
    BY <2>1, <2>2 DEF Msg
  <2>4. /\ UNCHANGED <<q, nq, cur, op, new, dq, got, turn, batch, todo, seen>>
        /\ IF m.src = Nil THEN UNCHANGED <<pc, ret, out, dest>> ELSE StartSend(t, m.src, e, "drop")
    BY <1>13 DEF DropMessage
  <2> HIDE DEF m, e
  <2>5. CASE m.src = Nil
    BY <1>1, <2>4, <2>5
  <2>6. CASE m.src # Nil
    BY <1>1, <2>3, <2>4, <2>6, SendTypes
  <2> QED
    BY <2>5, <2>6
<1>14. CASE Register(t) \/ Create(t) \/ InitOk(t) \/ InitFail(t)
  <2>1. CASE Register(t)
    BY <1>1, <2>1 DEF Register
  <2>2. CASE Create(t)
    BY <1>1, <2>2 DEF Create
  <2>3. CASE InitOk(t)
    BY <1>1, <2>3 DEF InitOk
  <2>4. CASE InitFail(t)
    BY <1>1, <2>4 DEF InitFail
  <2> QED
    BY <1>14, <2>1, <2>2, <2>3, <2>4
<1>15. CASE Unregister(t) \/ Kill(t)
  BY <1>1, <1>15 DEF Unregister, Kill, Known
<1>16. CASE RetireOne(t)
  BY <1>1, <1>16 DEF RetireOne
<1>17. CASE DecRef(t) \/ DeleteContext(t)
  <2>1. ret[t] \in Points
    BY <1>17, Hand DEF DecRef, DeleteContext
  <2> QED
    BY <1>1, <1>17, <2>1 DEF DecRef, DeleteContext
<1>18. CASE FindReceiver(t) \/ Push(t)
  <2>1. pc[t] = "find" => ret[t] \in Points
    BY <1>18, Hand
  <2> QED
    BY <1>1, <1>18, <2>1 DEF FindReceiver, Push
<1> QED
  BY <1>2, <1>3, <1>4, <1>5, <1>6, <1>7, <1>8, <1>9, <1>10, <1>11, <1>12, <1>13, <1>14, <1>15, <1>16,
     <1>17, <1>18
  DEF Step, Other, Queueing, Living, Core

LEMMA TypeStep ==
  ASSUME Typed, Messages, RefExact, NEW t \in Thread, Control(t), Hands(t), Step(t)
  PROVE  Typed' /\ Messages'
BY QueueTypes, ContextTypes, ThreadTypes DEF QueuesTyped, ContextsTyped, ThreadsTyped, Typed

-----------------------------------------------------------------------------
(* The parts of IInv, one after the other                                    *)

\* What is known before a step of thread t.
Before(t) ==
    /\ Typed /\ Messages /\ RefExact
    /\ \A s \in Thread : Control(s) /\ Hands(s) /\ Referred(s)
    /\ \A c \in Svc : Life(c)
    /\ Apart /\ Settled
    /\ Step(t)

LEMMA LifeStep ==
  ASSUME NEW t \in Thread, Before(t), NEW c \in Svc
  PROVE  Life(c)'
<1> USE DEF Calls, Asleep, Creating, Dispatching, Points, Retire, callVars, ctxVars, Life, Found
<1>1. Typed /\ Control(t) /\ Hands(t) /\ Life(c) /\ ctx \in [Svc -> Context]
  BY DEF Before, Typed
<1>2. CASE Idle(t) \/ Send(t) \/ Other(t)
  <2>1. UNCHANGED <<mq, ctx, slot>>
    BY <1>2 DEF Idle, Quit, KeepOn, FallAsleep, Wait, WakeUp, TimerAbort, OnlyPc, allButPc, Send,
                HandlerSend, InitSend, TimerSend, Other, TakeLength, Return, Abort, RetireRound, DropQueue
  <2> QED
    BY <1>1, <2>1 DEF IsEmpty
<1>3. CASE Fetch(t) \/ Swap(t) \/ PutBack(t) \/ KeepQueue(t) \/ InitFail(t)
  BY <1>1, <1>3 DEF Fetch, Swap, PutBack, KeepQueue, InitFail, IsEmpty
<1>4. CASE Kill(t) \/ Unregister(t) \/ RetireOne(t)
  <2>1. UNCHANGED <<mq, ctx>> /\ (slot' = slot \/ \E h \in Svc : Found(h) /\ slot' = slot \ {h})
    BY <1>1, <1>4, Hand DEF Kill, Unregister, RetireOne, Known, Typed
  <2> QED
    BY <1>1, <2>1 DEF IsEmpty
<1>5. \A d \in Svc : ctx[d] \in Context /\ Sound(mq[d])
  BY <1>1 DEF Typed
<1>6. CASE Grab(t) \/ FindReceiver(t) \/ DecRef(t)
  <2>1. UNCHANGED <<mq, slot>> /\ ctx'[c].st = ctx[c].st /\ ctx'[c].handle = ctx[c].handle
        /\ ctx'[c].init = ctx[c].init
    BY <1>1, <1>6 DEF Grab, FindReceiver, DecRef, Context
  <2>2. ctx[c].st # "live" => ctx'[c].ref = 0
    <3>1. ASSUME ctx[c].st # "live"
          PROVE  ctx'[c] = ctx[c]
      <4>1. CASE Grab(t) \/ FindReceiver(t)
        BY <1>1, <3>1, <4>1 DEF Grab, FindReceiver
      <4>2. CASE DecRef(t)
        <5>1. op[t] # Nil
          BY <1>1, <4>2, Hand DEF DecRef
        <5>2. op[t] # c
          BY <1>1, <3>1, <5>1 DEF Before, Referred
        <5> QED
          BY <1>1, <4>2, <5>2 DEF DecRef
      <4> QED
        BY <1>6, <4>1, <4>2
    <3> QED
      BY <1>1, <3>1
  <2> QED
    BY <1>1, <2>1, <2>2 DEF IsEmpty
<1>7. CASE PopNothing(t)
  <2>1. q[t] \in Svc /\ cur[t] = q[t] /\ MqPopNothing(q[t]) /\ UNCHANGED <<ctx, slot>>
    BY <1>1, <1>7, Hand DEF PopNothing
  <2>2. ctx[q[t]].handle # Nil /\ ctx[q[t]].init
    BY <2>1 DEF Before, Referred
  <2>3. CASE c = q[t]
    BY <1>1, <2>1, <2>2, <2>3, LeaveQueue
  <2>4. CASE c # q[t]
    BY <1>1, <2>1, <2>4, LeaveQueue DEF Becomes
  <2> QED
    BY <2>3, <2>4
<1>8. ASSUME NEW d \in Svc, MqPop(d), mq[d].st = "live", UNCHANGED <<ctx, slot>>
      PROVE  Life(c)'
  <2>1. CASE c = d
    BY <1>1, <1>8, <2>1, PopQueue
  <2>2. CASE c # d
    BY <1>1, <1>8, <2>2, PopQueue DEF Becomes
  <2> QED
    BY <2>1, <2>2
<1>9. CASE Pop(t)
  <2>1. q[t] \in Svc /\ cur[t] = q[t] /\ MqPop(q[t]) /\ UNCHANGED <<ctx, slot>>
    BY <1>1, <1>9, Hand DEF Pop
  <2>2. mq[q[t]].st = "live"
    BY <2>1 DEF Before, Referred
  <2> QED
    BY <1>8, <2>1, <2>2
<1>10. dq[t] # Nil => dq[t] \in Svc /\ mq[dq[t]].st = "live"
  BY <1>1 DEF Before, Apart, Held, Typed, SlotOrNil
<1>11. CASE DropMessage(t)
  <2>1. dq[t] \in Svc /\ MqPop(dq[t]) /\ UNCHANGED <<ctx, slot>>
    BY <1>1, <1>11, Hand DEF DropMessage
  <2> QED
    BY <1>8, <1>10, <2>1
<1>12. CASE FreeQueue(t)
  <2>1. dq[t] \in Svc /\ mq' = [mq EXCEPT ![dq[t]] = NoQueue("freed")] /\ UNCHANGED <<ctx, slot>>
    BY <1>1, <1>12, Hand DEF FreeQueue, MqFree
  <2>2. mq[dq[t]].st = "live" /\ mq[dq[t]].release
    BY <1>10, <1>12, <2>1 DEF Before, Settled, FreeQueue, At
  <2>3. NoQueue("freed").st = "freed" /\ ~NoQueue("freed").release /\ ~NoQueue("freed").inGlobal
        /\ IsEmpty(NoQueue("freed"))
    BY NoQueueSound, PendingMessages
  <2>4. IF c = dq[t] THEN mq'[c] = NoQueue("freed") ELSE mq'[c] = mq[c]
    BY <1>1, <2>1 DEF Typed
  <2> QED
    BY <1>1, <2>1, <2>2, <2>3, <2>4 DEF Before
<1>13. CASE Push(t)
  <2>1. op[t] \in Svc /\ out[t] \in Msg /\ MqPush(op[t], out[t]) /\ UNCHANGED <<ctx, slot>>
    BY <1>1, <1>13, Hand DEF Push
  <2>2. mq[op[t]].st = "live"
    BY <2>1 DEF Before, Referred
  <2>3. CASE c = op[t]
    BY <1>1, <2>1, <2>2, <2>3, PushQueue
  <2>4. CASE c # op[t]
    BY <1>1, <2>1, <2>4, PushQueue DEF Becomes
  <2> QED
    BY <2>3, <2>4
<1>14. CASE DeleteContext(t)
  <2>1. op[t] \in Svc /\ MqMarkRelease(op[t]) /\ UNCHANGED slot /\ pc[t] = "delete"
    BY <1>1, <1>14, Hand DEF DeleteContext
  <2>2. ctx[op[t]].handle # Nil /\ ctx[op[t]].ref = 0
    BY <2>1 DEF Before, Referred
  <2>3. op[t] \notin slot
    BY <2>1, <2>2, RefPositive DEF Before
  <2>4. CASE c = op[t]
    <3>1. mq[c].st = "live" /\ mq'[c].st = "live" /\ mq'[c].release
      BY <1>1, <2>1, <2>2, <2>4, MarkQueue
    <3>2. ctx'[c] = NoContext("freed")
      BY <1>1, <1>14, <2>4 DEF DeleteContext
    <3> QED
      BY <1>1, <2>1, <2>3, <2>4, <3>1, <3>2 DEF NoContext
  <2>5. CASE c # op[t]
    <3>1. ctx'[c] = ctx[c]
      BY <1>1, <1>14, <2>5 DEF DeleteContext
    <3> QED
      BY <1>1, <2>1, <2>5, <3>1, MarkQueue DEF Becomes
  <2> QED
    BY <2>4, <2>5
<1>15. CASE Register(t)
  BY <1>1, <1>15 DEF Register, IsEmpty
<1>16. CASE Create(t)
  <2>1. /\ new[t] \in Svc /\ mq' = [mq EXCEPT ![new[t]] = NewQueue] /\ UNCHANGED slot
        /\ ctx' = [ctx EXCEPT ![new[t]].handle = new[t]]
        /\ ctx[new[t]].handle = Nil /\ ctx[new[t]].st = "live"
    BY <1>1, <1>16, Hand DEF Create, Before, Referred, At
  <2>2. CASE c = new[t]
    <3>1. mq'[c] = NewQueue /\ ctx'[c].handle = c /\ ctx'[c].st = "live"
      BY <1>1, <1>5, <2>1, <2>2 DEF Typed, Context
    <3> QED
      BY <1>1, <2>2, <3>1, NewQueueSound
  <2>3. CASE c # new[t]
    BY <1>1, <2>1, <2>3 DEF Typed, IsEmpty
  <2> QED
    BY <2>2, <2>3
<1>17. CASE InitOk(t)
  <2>1. /\ new[t] \in Svc /\ UNCHANGED <<mq, slot>>
        /\ ctx' = [ctx EXCEPT ![new[t]].init = TRUE]
        /\ ctx[new[t]].handle # Nil
    BY <1>1, <1>17, Hand DEF InitOk, Before, Referred, At
  <2>2. ctx'[c].handle = ctx[c].handle /\ ctx'[c].st = ctx[c].st /\ ctx'[c].ref = ctx[c].ref
        /\ IF c = new[t] THEN ctx'[c].init = TRUE ELSE ctx'[c].init = ctx[c].init
    BY <1>1, <1>5, <2>1 DEF Context
  <2> QED
    BY <1>1, <2>1, <2>2 DEF IsEmpty
<1> QED
  BY <1>2, <1>3, <1>4, <1>6, <1>7, <1>9, <1>11, <1>12, <1>13, <1>14, <1>15, <1>16, <1>17
  DEF Before, Step, Queueing, Living, Core

\* What a step makes of a context that something refers to, of one that
\* another thread deletes, and of the one that is created.
LEMMA ContextStep ==
  ASSUME NEW t \in Thread, Before(t), NEW c \in Svc
  PROVE  /\ ctx[c].st = "live" /\ ctx[c].ref > 0 /\ c # new[t] =>
               /\ ctx'[c].st = ctx[c].st /\ ctx'[c].handle = ctx[c].handle /\ ctx'[c].init = ctx[c].init
         /\ ctx[c].handle # Nil /\ ctx[c].ref = 0 /\ c # op[t] => ctx'[c] = ctx[c]
         /\ c = new[t] => ctx'[c].st = "live" /\ (ctx[c].handle # Nil => ctx'[c].handle # Nil)
<1> USE DEF Calls, Asleep, Creating, Dispatching, Points, Retire, callVars, ctxVars, Found
<1>1. Typed /\ Control(t) /\ Hands(t) /\ Life(c) /\ Referred(t) /\ ctx \in [Svc -> Context] /\ RefExact
  BY DEF Before, Typed
<1>2. \A d \in Svc : ctx[d] \in Context
  BY <1>1
<1>3. /\ c \in slot => ctx[c].ref > 0
      /\ new[t] = c => ctx[c].ref > 0 /\ ctx[c].st = "live"
      /\ op[t] = c /\ pc[t] # "delete" => ctx[c].ref > 0
  BY <1>1, RefPositive DEF Referred
<1>4. CASE UNCHANGED ctx
  BY <1>1, <1>3, <1>4
<1>5. CASE Idle(t) \/ Send(t) \/ Other(t) \/ (Queueing(t) /\ ~Grab(t))
  <2>1. UNCHANGED ctx
    BY <1>5 DEF Idle, Quit, KeepOn, FallAsleep, Wait, WakeUp, TimerAbort, OnlyPc, allButPc, Send,
                HandlerSend, InitSend, TimerSend, Other, TakeLength, Return, Abort, RetireRound, DropQueue,
                Queueing, Fetch, PopNothing, Pop, Swap, PutBack, KeepQueue, DropMessage, FreeQueue
  <2> QED
    BY <1>4, <2>1
<1>6. CASE InitFail(t) \/ Kill(t) \/ Unregister(t) \/ RetireOne(t) \/ Push(t)
  BY <1>4, <1>6 DEF InitFail, Kill, Unregister, RetireOne, Push
<1>7. CASE Grab(t)
  <2>1. ctx'[c].st = ctx[c].st /\ ctx'[c].handle = ctx[c].handle /\ ctx'[c].init = ctx[c].init
    BY <1>1, <1>7 DEF Grab, Context
  <2>2. c \notin slot => ctx'[c] = ctx[c]
    BY <1>1, <1>7 DEF Grab
  <2> QED
    BY <1>3, <2>1, <2>2
<1>8. CASE FindReceiver(t)
  <2>1. ctx'[c].st = ctx[c].st /\ ctx'[c].handle = ctx[c].handle /\ ctx'[c].init = ctx[c].init
    BY <1>1, <1>8 DEF FindReceiver, Context
  <2>2. c \notin slot => ctx'[c] = ctx[c]
    BY <1>1, <1>8 DEF FindReceiver
  <2> QED
    BY <1>3, <2>1, <2>2
<1>9. CASE DecRef(t)
  <2>1. ctx'[c].st = ctx[c].st /\ ctx'[c].handle = ctx[c].handle /\ ctx'[c].init = ctx[c].init
    BY <1>1, <1>9 DEF DecRef, Context
  <2>2. c # op[t] => ctx'[c] = ctx[c]
    BY <1>1, <1>9 DEF DecRef
  <2> QED
    BY <1>3, <2>1, <2>2
<1>10. CASE DeleteContext(t)
  <2>1. op[t] \in Svc /\ ctx[op[t]].ref = 0
    BY <1>1, <1>10, Hand DEF DeleteContext, Referred
  <2>2. c # op[t] => ctx'[c] = ctx[c]
    BY <1>1, <1>10 DEF DeleteContext
  <2> QED
    BY <1>3, <2>1, <2>2
<1>11. CASE Register(t)
  <2>1. ctx[c].st # "none" => ctx'[c] = ctx[c]
    BY <1>1, <1>11 DEF Register
  <2> QED
    BY <1>1, <1>3, <2>1 DEF Life
<1>12. CASE Create(t)
  <2>1. new[t] \in Svc /\ ctx' = [ctx EXCEPT ![new[t]].handle = new[t]]
    BY <1>1, <1>12, Hand DEF Create
  <2>2. c # new[t] => ctx'[c] = ctx[c]
    BY <1>1, <2>1
  <2>3. ctx'[new[t]].st = ctx[new[t]].st /\ ctx'[new[t]].handle = new[t]
    BY <1>1, <2>1 DEF Context
  <2>4. CASE c = new[t]
    BY <1>3, <2>1, <2>3, <2>4
  <2>5. CASE c # new[t]
    BY <1>3, <2>2, <2>5
  <2> QED
    BY <2>4, <2>5
<1>13. CASE InitOk(t)
  <2>1. new[t] \in Svc /\ ctx' = [ctx EXCEPT ![new[t]].init = TRUE]
    BY <1>1, <1>13, Hand DEF InitOk
  <2>2. c # new[t] => ctx'[c] = ctx[c]
    BY <1>1, <2>1
  <2>3. ctx'[new[t]].st = ctx[new[t]].st /\ ctx'[new[t]].handle = ctx[new[t]].handle
    BY <1>1, <2>1 DEF Context
  <2>4. CASE c = new[t]
    BY <1>3, <2>1, <2>3, <2>4
  <2>5. CASE c # new[t]
    BY <1>3, <2>2, <2>5
  <2> QED
    BY <2>4, <2>5
<1> QED
  BY <1>5, <1>6, <1>7, <1>8, <1>9, <1>10, <1>11, <1>12, <1>13
  DEF Before, Step, Queueing, Living, Core

\* The references a thread takes or is given, and the context it creates.
LEMMA OwnReferences ==
  ASSUME NEW t \in Thread, Before(t)
  PROVE  /\ cur'[t] # Nil => ctx'[cur'[t]].handle # Nil /\ ctx'[cur'[t]].init
         /\ op'[t] # Nil => ctx'[op'[t]].handle # Nil
         /\ new'[t] # Nil => /\ ctx'[new'[t]].st = "live" /\ ~ctx'[new'[t]].init
                             /\ ctx'[new'[t]].handle = Nil <=> At(t)' = "create"
                             /\ new'[t] # new[t] => ctx[new'[t]].st = "none"
         /\ pc'[t] = "delete" => /\ op'[t] = op[t] /\ ctx'[op[t]].ref = 0
                                 /\ pc[t] # "delete" /\ ctx[op[t]].ref > 0
<1> USE DEF At, Calls, Asleep, Creating, Dispatching, Points, Retire, Release, Resume, Goto, StartSend,
            callVars, ctxVars, Found
<1>1. Typed /\ Control(t) /\ Hands(t) /\ Referred(t) /\ RefExact /\ ctx \in [Svc -> Context]
  BY DEF Before, Typed
<1>2. /\ cur[t] # Nil => cur[t] \in Svc
      /\ op[t] # Nil => op[t] \in Svc
      /\ new[t] # Nil => new[t] \in Svc
  BY <1>1 DEF Typed, SlotOrNil
<1>3. CASE Idle(t) \/ Send(t) \/ Other(t)
  <2>1. /\ pc[t] \in Points /\ pc[t] # "create" /\ UNCHANGED <<ctx, cur, op, new>>
        /\ pc'[t] \notin {"delete", "create"} /\ (pc'[t] \in Calls => ret'[t] # "create")
    <3>1. CASE Idle(t)
      BY <1>1, <3>1 DEF Idle, Quit, KeepOn, FallAsleep, Wait, WakeUp, TimerAbort, OnlyPc, allButPc, Typed
    <3>2. CASE Send(t)
      BY <1>1, <3>2 DEF Send, HandlerSend, InitSend, TimerSend, Typed
    <3>3. CASE Other(t)
      BY <1>1, <3>3 DEF Other, TakeLength, Return, Abort, RetireRound, DropQueue, Typed
    <3> QED
      BY <1>3, <3>1, <3>2, <3>3
  <2>2. op[t] = Nil /\ At(t) # "create" /\ At(t)' # "create"
    BY <1>1, <2>1, Hand
  <2> QED
    BY <1>1, <2>1, <2>2 DEF Referred
<1>4. CASE Fetch(t) \/ Pop(t) \/ KeepQueue(t) \/ DropMessage(t) \/ FreeQueue(t)
  <2>1. /\ UNCHANGED <<ctx, cur, op, new>> /\ pc'[t] # "delete"
        /\ op[t] = Nil /\ new[t] = Nil
    BY <1>1, <1>4, Hand DEF Fetch, PopGlobal, Pop, KeepQueue, DropMessage, FreeQueue, BackToCaller, Typed
  <2> QED
    BY <1>1, <2>1 DEF Referred
<1>5. CASE Push(t)
  BY <1>1, <1>5 DEF Push, Referred, Typed, Control
<1>6. CASE Grab(t)
  <2>1. /\ q[t] \in Svc /\ cur[t] = Nil /\ op[t] = Nil /\ new[t] = Nil /\ UNCHANGED <<op, new>>
        /\ pc'[t] # "delete"
    BY <1>1, <1>6, Hand DEF Grab, Typed
  <2>2. CASE Found(q[t])
    <3>1. ctx[q[t]].init
      BY <2>1, <2>2 DEF Before, Settled
    <3>2. cur'[t] = q[t] /\ ctx'[q[t]].handle = ctx[q[t]].handle /\ ctx'[q[t]].init = ctx[q[t]].init
      BY <1>1, <1>6, <2>1, <2>2 DEF Grab, Context, Typed
    <3> QED
      BY <2>1, <2>2, <3>1, <3>2
  <2>3. CASE ~Found(q[t])
    BY <1>6, <2>1, <2>3 DEF Grab
  <2> QED
    BY <2>2, <2>3
<1>7. CASE PopNothing(t) \/ Swap(t) \/ PutBack(t)
  <2>1. new[t] = Nil /\ cur[t] \in Svc /\ op[t] = Nil /\ UNCHANGED <<ctx, new>> /\ pc'[t] # "delete"
    BY <1>1, <1>7, Hand DEF PopNothing, Swap, PutBack, Typed
  <2>2. (cur'[t] = Nil /\ op'[t] = cur[t]) \/ UNCHANGED <<cur, op>>
    BY <1>1, <1>7 DEF PopNothing, Swap, PutBack, Typed
  <2> QED
    BY <1>1, <2>1, <2>2 DEF Referred
<1>8. CASE Kill(t) \/ Unregister(t) \/ RetireOne(t)
  <2>1. new[t] = Nil /\ op[t] = Nil /\ UNCHANGED <<ctx, new, cur>> /\ pc'[t] # "delete"
    <3>1. CASE Kill(t)
      BY <1>1, <3>1, Hand DEF Kill, Typed
    <3>2. CASE Unregister(t)
      BY <1>1, <3>2, Hand DEF Unregister, Typed
    <3>3. CASE RetireOne(t)
      <4>1. pc[t] = "retireall" /\ UNCHANGED <<ctx, new, cur>>
        BY <3>3 DEF RetireOne
      <4>2. \/ pc' = [pc EXCEPT ![t] = "release"]
            \/ pc' = [pc EXCEPT ![t] = "retireall"]
        BY <3>3 DEF RetireOne
      <4> QED
        BY <1>1, <4>1, <4>2, Hand DEF Typed
    <3> QED
      BY <1>8, <3>1, <3>2, <3>3
  <2>2. op'[t] = Nil \/ ctx[op'[t]].handle = op'[t]
    BY <1>1, <1>8, <2>1, Hand DEF Kill, Unregister, RetireOne, Known, Typed
  <2> QED
    BY <1>1, <2>1, <2>2 DEF Referred
<1>9. CASE FindReceiver(t)
  <2>1. /\ dest[t] \in Svc /\ op[t] = Nil /\ UNCHANGED <<cur, new>> /\ pc'[t] # "delete"
        /\ At(t)' = At(t)
    <3>1. pc[t] = "find" /\ dest[t] \in Svc /\ op[t] = Nil /\ ret[t] \in {"handler", "ready", "drop", "tick"}
      BY <1>1, <1>9, Hand DEF FindReceiver, Control
    <3> QED
      BY <1>1, <1>9, <3>1 DEF FindReceiver, Typed
  <2>2. \A c \in Svc : ctx'[c].handle = ctx[c].handle /\ ctx'[c].init = ctx[c].init /\ ctx'[c].st = ctx[c].st
    BY <1>1, <1>9 DEF FindReceiver, Context
  <2>3. op'[t] = Nil \/ (ctx[op'[t]].handle = op'[t] /\ op'[t] \in Svc)
    <3>1. CASE Found(dest[t])
      BY <1>1, <1>9, <2>1, <3>1 DEF FindReceiver, Typed
    <3>2. CASE ~Found(dest[t])
      BY <1>1, <1>9, <2>1, <3>2 DEF FindReceiver, Typed
    <3> QED
      BY <3>1, <3>2
  <2> QED
    BY <1>1, <1>2, <2>1, <2>2, <2>3 DEF Referred
<1>10. CASE DecRef(t)
  <2>1. op[t] \in Svc /\ UNCHANGED <<cur, new>> /\ At(t)' = At(t) /\ pc[t] = "release"
    BY <1>1, <1>10, Hand DEF DecRef, Typed
  <2>2. \A c \in Svc : ctx'[c].handle = ctx[c].handle /\ ctx'[c].init = ctx[c].init /\ ctx'[c].st = ctx[c].st
    BY <1>1, <1>10 DEF DecRef, Context
  <2>3. op'[t] = Nil \/ op'[t] = op[t]
    BY <1>1, <1>10, <2>1 DEF DecRef, Typed
  <2>4. ctx[op[t]].ref > 0
    BY <1>1, <2>1, RefPositive
  <2>5. pc'[t] = "delete" => op'[t] = op[t] /\ ctx'[op[t]].ref = 0
    BY <1>1, <1>10, <2>1, Hand DEF DecRef, Typed, Context
  <2> QED
    BY <1>1, <1>2, <2>1, <2>2, <2>3, <2>4, <2>5 DEF Referred
<1>11. CASE DeleteContext(t)
  <2>1. /\ op[t] \in Svc /\ UNCHANGED <<cur, new>> /\ op'[t] = Nil /\ At(t)' = At(t) /\ pc'[t] # "delete"
        /\ pc[t] = "delete"
    BY <1>1, <1>11, Hand DEF DeleteContext, Typed
  <2>2. ctx[op[t]].ref = 0
    BY <1>1, <2>1 DEF Referred
  <2>3. cur[t] # op[t] /\ new[t] # op[t]
    BY <1>1, <2>1, <2>2, RefPositive
  <2>4. \A c \in Svc \ {op[t]} : ctx'[c] = ctx[c]
    BY <1>1, <1>11 DEF DeleteContext
  <2> QED
    BY <1>1, <1>2, <2>1, <2>3, <2>4 DEF Referred
<1>12. cur[t] # Nil => cur[t] # new[t] /\ ctx[cur[t]].st = "live"
  BY <1>1, <1>2 DEF Referred, Before, Life
<1>13. CASE Register(t)
  <2>1. UNCHANGED <<cur, op>> /\ op[t] = Nil /\ cur[t] \in Svc /\ pc'[t] = "create"
    BY <1>1, <1>13, Hand DEF Register, Typed
  <2>2. PICK c \in Svc : /\ ctx[c].st = "none" /\ new' = [new EXCEPT ![t] = c]
                         /\ ctx' = [ctx EXCEPT ![c] = [st |-> "live", ref |-> 2, handle |-> Nil, init |-> FALSE]]
    BY <1>13 DEF Register
  <2>3. new'[t] = c /\ ctx'[c].st = "live" /\ ctx'[c].handle = Nil /\ ~ctx'[c].init /\ ctx'[cur[t]] = ctx[cur[t]]
    BY <1>1, <1>12, <2>1, <2>2 DEF Typed
  <2> QED
    BY <1>1, <2>1, <2>2, <2>3 DEF Referred
<1>14. CASE Create(t)
  <2>1. UNCHANGED <<cur, op, new>> /\ op[t] = Nil /\ cur[t] \in Svc /\ pc'[t] = "init" /\ new[t] \in Svc
    BY <1>1, <1>14, Hand DEF Create, Typed
  <2>2. ctx' = [ctx EXCEPT ![new[t]].handle = new[t]]
    BY <1>14 DEF Create
  <2>3. /\ ctx'[new[t]].handle = new[t] /\ ctx'[new[t]].st = ctx[new[t]].st
        /\ ctx'[new[t]].init = ctx[new[t]].init /\ ctx'[cur[t]] = ctx[cur[t]]
    BY <1>1, <1>12, <2>1, <2>2 DEF Context
  <2> QED
    BY <1>1, <2>1, <2>3 DEF Referred
<1>15. CASE InitOk(t)
  <2>1. /\ UNCHANGED cur /\ op'[t] = new[t] /\ new'[t] = Nil /\ cur[t] \in Svc /\ pc'[t] # "delete"
        /\ new[t] \in Svc /\ pc[t] \in {"init", "ready"}
    BY <1>1, <1>15, Hand DEF InitOk, Typed
  <2>2. ctx' = [ctx EXCEPT ![new[t]].init = TRUE]
    BY <1>15 DEF InitOk
  <2>3. ctx'[new[t]].handle = ctx[new[t]].handle /\ ctx'[cur[t]] = ctx[cur[t]]
    BY <1>1, <1>12, <2>1, <2>2 DEF Context
  <2> QED
    BY <1>1, <2>1, <2>3 DEF Referred
<1>16. CASE InitFail(t)
  <2>1. /\ UNCHANGED <<ctx, cur>> /\ op'[t] = new[t] /\ new'[t] = Nil /\ pc'[t] # "delete" /\ pc[t] = "init"
        /\ new[t] \in Svc
    BY <1>1, <1>16, Hand DEF InitFail, Typed
  <2> QED
    BY <1>1, <2>1 DEF Referred
<1> QED
  BY <1>3, <1>4, <1>5, <1>6, <1>7, <1>8, <1>9, <1>10, <1>11, <1>13, <1>14, <1>15, <1>16
  DEF Before, Step, Queueing, Living, Core

LEMMA ReferredStep ==
  ASSUME NEW t \in Thread, Before(t), NEW s \in Thread
  PROVE  Referred(s)'
<1>1. /\ Typed /\ RefExact /\ Referred(s) /\ Referred(t) /\ \A c \in Svc : Life(c)
      /\ \A u \in Thread : u # t => Unmoved(u)
      /\ \A u \in Thread : /\ cur[u] # Nil => cur[u] \in Svc
                           /\ op[u] # Nil => op[u] \in Svc
                           /\ new[u] # Nil => new[u] \in Svc
  BY OthersStay DEF Before, Typed, SlotOrNil
<1>2. ASSUME s # t, cur[s] # Nil
      PROVE  ctx'[cur[s]].handle # Nil /\ ctx'[cur[s]].init
  <2>1. ctx[cur[s]].st = "live" /\ ctx[cur[s]].ref > 0 /\ cur[s] # new[t]
    BY <1>1, <1>2, RefPositive DEF Referred, Life
  <2> QED
    BY <1>1, <1>2, <2>1, ContextStep DEF Referred
<1>3. ASSUME s # t, op[s] # Nil
      PROVE  ctx'[op[s]].handle # Nil /\ (pc[s] = "delete" => ctx'[op[s]].ref = 0)
  <2>1. CASE pc[s] = "delete"
    <3>1. ctx[op[s]].ref = 0
      BY <1>1, <2>1 DEF Referred
    <3>2. op[t] # op[s]
      BY <1>1, <1>3, <2>1, <3>1, RefPositive DEF Referred
    <3> QED
      BY <1>1, <1>3, <3>1, <3>2, ContextStep DEF Referred
  <2>2. CASE pc[s] # "delete"
    <3>1. ctx[op[s]].st = "live" /\ ctx[op[s]].ref > 0
      BY <1>1, <1>3, <2>2, RefPositive DEF Referred, Life
    <3> QED
      BY <1>1, <1>3, <2>2, <3>1, ContextStep DEF Referred
  <2> QED
    BY <2>1, <2>2
<1>4. ASSUME s # t, new[s] # Nil
      PROVE  /\ ctx'[new[s]].st = "live" /\ ~ctx'[new[s]].init
             /\ ctx'[new[s]].handle = Nil <=> At(s) = "create"
  <2>1. ctx[new[s]].st = "live" /\ ctx[new[s]].ref > 0 /\ new[s] # new[t]
    BY <1>1, <1>4, RefPositive DEF Referred
  <2> QED
    BY <1>1, <1>4, <2>1, ContextStep DEF Referred
<1>5. /\ cur'[s] # Nil => ctx'[cur'[s]].handle # Nil /\ ctx'[cur'[s]].init
      /\ op'[s] # Nil => ctx'[op'[s]].handle # Nil
      /\ new'[s] # Nil => /\ ctx'[new'[s]].st = "live" /\ ~ctx'[new'[s]].init
                          /\ ctx'[new'[s]].handle = Nil <=> At(s)' = "create"
  <2>1. CASE s = t
    BY <2>1, OwnReferences
  <2>2. CASE s # t
    BY <1>1, <1>2, <1>3, <1>4, <2>2 DEF Unmoved, At
  <2> QED
    BY <2>1, <2>2
<1>6. pc'[s] = "delete" => op'[s] # Nil
  BY Moves, Stay, <1>1 DEF Before, Control
<1>7. pc'[s] = "delete" => ctx'[op'[s]].ref = 0
  <2>1. CASE s = t
    BY <2>1, OwnReferences
  <2>2. CASE s # t
    BY <1>1, <1>3, <1>6, <2>2 DEF Unmoved
  <2> QED
    BY <2>1, <2>2
<1>8. ASSUME NEW u \in Thread, NEW v \in Thread, u # v, u # t, new'[v] # Nil
      PROVE  new'[u] # new'[v]
  <2>1. new'[u] = new[u] /\ (new[u] # Nil => ctx[new[u]].st = "live")
    BY <1>1, <1>8 DEF Unmoved, Before, Referred
  <2>2. CASE v = t /\ new'[t] # new[t]
    BY <1>8, <2>1, <2>2, OwnReferences
  <2>3. CASE new'[v] = new[v]
    BY <1>8, <2>1, <2>3 DEF Before, Referred
  <2> QED
    BY <1>1, <1>8, <2>2, <2>3 DEF Unmoved
<1>9. ASSUME NEW u \in Thread, NEW v \in Thread, u # v, u # t, pc'[u] = "delete", pc'[v] = "delete"
      PROVE  op'[u] # op'[v]
  <2>1. op'[u] = op[u] /\ pc[u] = "delete" /\ ctx[op[u]].ref = 0
    BY <1>1, <1>9 DEF Unmoved, Before, Referred
  <2>2. CASE v = t
    BY <1>9, <2>1, <2>2, OwnReferences
  <2>3. CASE v # t
    BY <1>1, <1>9, <2>1, <2>3 DEF Unmoved, Before, Referred
  <2> QED
    BY <2>2, <2>3
<1>10. ASSUME NEW u \in Thread \ {s}
       PROVE  /\ new'[s] # Nil => new'[u] # new'[s]
              /\ pc'[s] = "delete" /\ pc'[u] = "delete" => op'[u] # op'[s]
  <2>1. CASE u # t
    BY <1>8, <1>9, <1>10, <2>1
  <2>2. CASE s # t
    BY <1>8, <1>9, <1>10, <2>2
  <2> QED
    BY <1>10, <2>1, <2>2
<1> QED
  BY <1>5, <1>7, <1>10 DEF Referred

-----------------------------------------------------------------------------
(* Where the queues are                                                      *)

Elements(g) == {g[i] : i \in 1..Len(g)}

NoRepeat(g) == \A i, j \in 1..Len(g) : g[i] = g[j] => i = j

LEMMA AppendElements ==
  ASSUME NEW S, NEW g \in Seq(S), NEW c \in S
  PROVE  /\ Elements(Append(g, c)) = Elements(g) \cup {c}
         /\ NoRepeat(g) /\ c \notin Elements(g) => NoRepeat(Append(g, c))
<1> DEFINE r == Append(g, c)
<1>1. /\ Len(r) = Len(g) + 1 /\ Len(g) \in Nat
      /\ \A i \in 1..Len(g) : r[i] = g[i]
      /\ r[Len(g) + 1] = c
  BY AppendProperties, LenProperties
<1> HIDE DEF r
<1>2. Elements(r) = Elements(g) \cup {c}
  <2>1. \A i \in 1..Len(r) : i \in 1..Len(g) \/ i = Len(g) + 1
    BY <1>1
  <2>2. \A i \in 1..Len(g) : i \in 1..Len(r)
    BY <1>1
  <2>3. Len(g) + 1 \in 1..Len(r)
    BY <1>1
  <2> QED
    BY <1>1, <2>1, <2>2, <2>3 DEF Elements
<1>3. NoRepeat(g) /\ c \notin Elements(g) => NoRepeat(r)
  BY <1>1 DEF NoRepeat, Elements
<1> QED
  BY <1>2, <1>3 DEF r

LEMMA TailElements ==
  ASSUME NEW S, NEW g \in Seq(S), g # <<>>, NoRepeat(g)
  PROVE  /\ Head(g) \in Elements(g)
         /\ Elements(Tail(g)) = Elements(g) \ {Head(g)}
         /\ NoRepeat(Tail(g))
<1> DEFINE r == Tail(g)
           h == Head(g)
<1>1. /\ Len(r) = Len(g) - 1 /\ Len(g) \in Nat /\ Len(g) > 0 /\ h = g[1]
      /\ \A i \in 1..(Len(g) - 1) : r[i] = g[i + 1]
  BY HeadTailProperties, LenProperties, EmptySeq
<1> HIDE DEF r, h
<1>2. h \in Elements(g)
  <2>1. 1 \in 1..Len(g)
    BY <1>1
  <2> QED
    BY <1>1, <2>1 DEF Elements
<1>3. ASSUME NEW i \in 1..Len(r)
      PROVE  r[i] = g[i + 1] /\ i + 1 \in 1..Len(g) /\ i + 1 # 1
  BY <1>1
<1>4. Elements(r) = Elements(g) \ {h}
  <2>1. ASSUME NEW i \in 1..Len(r)
        PROVE  r[i] \in Elements(g) /\ r[i] # h
    <3>1. 1 \in 1..Len(g)
      BY <1>1
    <3> QED
      BY <1>1, <1>3, <3>1 DEF Elements, NoRepeat
  <2>2. ASSUME NEW j \in 1..Len(g), g[j] # h
        PROVE  g[j] \in Elements(r)
    <3>1. j - 1 \in 1..Len(r) /\ r[j - 1] = g[(j - 1) + 1] /\ (j - 1) + 1 = j
      BY <1>1, <2>2
    <3> QED
      BY <3>1 DEF Elements
  <2> QED
    BY <2>1, <2>2 DEF Elements
<1>5. NoRepeat(r)
  BY <1>1, <1>3 DEF NoRepeat
<1> QED
  BY <1>2, <1>4, <1>5 DEF r, h

\* A queue that has work, or is to be released, is somewhere.
Wanted(c) == mq[c].st = "live" /\ (mq[c].inGlobal \/ mq[c].release)

\* The place of at most one queue changes, and it then has one place or none.
LEMMA ApartChange ==
  ASSUME Apart, NEW t \in Thread, NEW c \in Svc,
         \A s \in Thread : s # t => Unmoved(s),
         \A d \in Svc : d # c => /\ d \in Listed' <=> d \in Listed
                                 /\ d \in Held(t)' <=> d \in Held(t)
                                 /\ Wanted(d)' <=> Wanted(d),
         Held(t) \subseteq Svc, Held(t)' \subseteq Svc, Listed \subseteq Svc, Listed' \subseteq Svc,
         NoRepeat(gmq'),
         q'[t] = nq'[t] => q'[t] = Nil,
         q'[t] = dq'[t] => q'[t] = Nil,
         \/ c \in Listed' /\ c \notin Held(t)' /\ Wanted(c)'
            /\ \A s \in Thread : s # t => c \notin Held(s)
         \/ c \notin Listed' /\ c \in Held(t)' /\ Wanted(c)'
            /\ \A s \in Thread : s # t => c \notin Held(s)
         \/ c \notin Listed' /\ c \notin Held(t)' /\ ~Wanted(c)'
            /\ \A s \in Thread : s # t => c \notin Held(s)
         \/ /\ c \in Listed' <=> c \in Listed
            /\ c \in Held(t)' <=> c \in Held(t)
            /\ Wanted(c)' <=> Wanted(c)
  PROVE  Apart'
<1>1. ASSUME NEW s \in Thread, s # t
      PROVE  /\ q'[s] = q[s] /\ nq'[s] = nq[s] /\ dq'[s] = dq[s] /\ Held(s)' = Held(s)
  BY <1>1 DEF Unmoved, Held
<1>2. \A i, j \in 1..Len(gmq') : gmq'[i] = gmq'[j] => i = j
  BY DEF NoRepeat
<1>3. \A s \in Thread : (q'[s] = nq'[s] => q'[s] = Nil) /\ (q'[s] = dq'[s] => q'[s] = Nil)
  BY <1>1 DEF Apart
<1>4. ASSUME NEW d \in Svc
      PROVE  /\ \A s \in Thread : d \in Held(s)' => d \notin Listed'
             /\ \A s, u \in Thread : s # u /\ d \in Held(s)' => d \notin Held(u)'
             /\ (d \in Listed' \/ \E s \in Thread : d \in Held(s)') <=> Wanted(d)'
  <2>1. /\ \A s \in Thread : d \in Held(s) => d \notin Listed
        /\ \A s, u \in Thread : s # u /\ d \in Held(s) => d \notin Held(u)
        /\ (d \in Listed \/ \E s \in Thread : d \in Held(s)) <=> Wanted(d)
    BY DEF Apart, Wanted
  <2>2. CASE d # c
    BY <1>1, <2>1, <2>2
  <2>3. CASE d = c
    BY <1>1, <2>1, <2>3
  <2> QED
    BY <2>2, <2>3
<1>5. \A s \in Thread : Held(s)' \cap Listed' = {}
  BY <1>4
<1>6. \A s \in Thread : \A u \in Thread \ {s} : Held(s)' \cap Held(u)' = {}
  <2>1. ASSUME NEW s \in Thread, NEW u \in Thread \ {s}, NEW d \in Held(s)' \cap Held(u)'
        PROVE  FALSE
    <3>1. CASE d \in Svc
      BY <1>4, <2>1, <3>1
    <3>2. CASE d \notin Svc
      BY <1>1, <2>1, <3>2 DEF Apart
    <3> QED
      BY <3>1, <3>2
  <2> QED
    BY <2>1
<1> QED
  BY <1>2, <1>3, <1>4, <1>5, <1>6 DEF Apart, Wanted

\* What a step knows of the places before it.
LEMMA PlacesBefore ==
  ASSUME NEW t \in Thread, Before(t)
  PROVE  /\ Apart /\ gmq \in Seq(Svc) /\ NoRepeat(gmq) /\ Listed = Elements(gmq) /\ Listed' = Elements(gmq')
         /\ \A s \in Thread : s # t => Unmoved(s)
         /\ \A s \in Thread : Held(s) \subseteq Svc
         /\ Held(t)' \subseteq Svc /\ Listed \subseteq Svc /\ Listed' \subseteq Svc
         /\ \A c \in Svc : ~Wanted(c) => c \notin Listed /\ \A s \in Thread : c \notin Held(s)
         /\ \A c \in Svc : c \in Held(t) => /\ Wanted(c) /\ c \notin Listed
                                            /\ \A s \in Thread : s # t => c \notin Held(s)
         /\ \A c \in Svc : c \in Listed => Wanted(c) /\ \A s \in Thread : c \notin Held(s)
<1>1. /\ Apart /\ Typed /\ Messages /\ RefExact /\ Control(t) /\ Hands(t) /\ Step(t)
  BY DEF Before
<1>2. gmq \in Seq(Svc) /\ NoRepeat(gmq) /\ Listed = Elements(gmq) /\ Listed' = Elements(gmq')
  BY <1>1 DEF Typed, Apart, NoRepeat, Listed, Elements
<1>3. \A s \in Thread : s # t => Unmoved(s)
  BY <1>1, OthersStay
<1>4. \A s \in Thread : Held(s) \subseteq Svc
  BY <1>1 DEF Typed, Held, SlotOrNil
<1>5. Typed'
  BY <1>1, TypeStep
<1>6. Held(t)' \subseteq Svc
  BY <1>5 DEF Typed, Held, SlotOrNil
<1>7. Listed \subseteq Svc
  <2>1. \A i \in 1..Len(gmq) : gmq[i] \in Svc
    BY <1>2, ElementOfSeq
  <2> QED
    BY <2>1 DEF Listed
<1>8. Listed' \subseteq Svc
  <2>1. gmq' \in Seq(Svc)
    BY <1>5 DEF Typed
  <2>2. \A i \in 1..Len(gmq') : gmq'[i] \in Svc
    BY <2>1, ElementOfSeq
  <2> QED
    BY <2>2 DEF Listed
<1>9. /\ \A c \in Svc : (c \in Listed \/ \E s \in Thread : c \in Held(s)) <=> Wanted(c)
      /\ \A s \in Thread : Held(s) \cap Listed = {} /\ \A u \in Thread \ {s} : Held(s) \cap Held(u) = {}
  BY <1>1 DEF Apart, Wanted
<1> QED
  BY <1>1, <1>2, <1>3, <1>4, <1>6, <1>7, <1>8, <1>9

\* The thread takes the first queue of the list.
LEMMA TakesFirst ==
  ASSUME NEW t \in Thread, Before(t), gmq # <<>>, gmq' = Tail(gmq), UNCHANGED mq,
         Held(t)' = Held(t) \cup {Head(gmq)},
         q'[t] = nq'[t] => q'[t] = Nil,
         q'[t] = dq'[t] => q'[t] = Nil
  PROVE  Apart'
<1>0. PICK c \in Svc : c = Head(gmq)
  BY PlacesBefore, GlobalTyped
<1>1. /\ c \in Listed /\ Listed' = Listed \ {c} /\ NoRepeat(gmq')
  BY <1>0, PlacesBefore, TailElements
<1>2. \A d \in Svc : Wanted(d)' <=> Wanted(d)
  BY DEF Wanted
<1>3. Held(t)' = Held(t) \cup {c} /\ Wanted(c) /\ \A s \in Thread : c \notin Held(s)
  BY <1>0, <1>1, PlacesBefore
<1>4. c \notin Listed' /\ c \in Held(t)' /\ Wanted(c)' /\ \A s \in Thread : s # t => c \notin Held(s)
  BY <1>1, <1>2, <1>3
<1>5. \A d \in Svc : d # c => /\ d \in Listed' <=> d \in Listed
                              /\ d \in Held(t)' <=> d \in Held(t)
                              /\ Wanted(d)' <=> Wanted(d)
  BY <1>1, <1>2, <1>3
<1> QED
  BY <1>1, <1>3, <1>4, <1>5, PlacesBefore, ApartChange

\* The thread gives a queue back to the list.
LEMMA GivesBack ==
  ASSUME NEW t \in Thread, Before(t), NEW c \in Svc, c \in Held(t), gmq' = Append(gmq, c), UNCHANGED mq,
         Held(t)' = Held(t) \ {c},
         q'[t] = nq'[t] => q'[t] = Nil,
         q'[t] = dq'[t] => q'[t] = Nil
  PROVE  Apart'
<1>1. /\ c \notin Listed /\ Elements(gmq') = Elements(gmq) \cup {c} /\ NoRepeat(gmq')
  BY PlacesBefore, AppendElements
<1>2. \A d \in Svc : Wanted(d)' <=> Wanted(d)
  BY DEF Wanted
<1>3. c \in Listed' /\ c \notin Held(t)' /\ Wanted(c)' /\ \A s \in Thread : s # t => c \notin Held(s)
  BY <1>1, <1>2, PlacesBefore
<1>4. \A d \in Svc : d # c => /\ d \in Listed' <=> d \in Listed
                              /\ d \in Held(t)' <=> d \in Held(t)
                              /\ Wanted(d)' <=> Wanted(d)
  BY <1>1, <1>2, PlacesBefore
<1> QED
  BY <1>1, <1>3, <1>4, PlacesBefore, ApartChange

\* A queue that is in no list goes to the global queue when it is pushed to or
\* marked; one that is in a list stays there.
LEMMA Enlists ==
  ASSUME NEW t \in Thread, Before(t), NEW c \in Svc,
         mq[c].st = "live", ~mq[c].release,
         gmq' = (IF mq[c].inGlobal THEN gmq ELSE Append(gmq, c)),
         Becomes(c, mq'[c]), mq'[c].st = "live", mq'[c].inGlobal \/ mq'[c].release,
         UNCHANGED <<q, nq, dq>>
  PROVE  Apart'
<1>1. /\ Wanted(c)' /\ \A d \in Svc : d # c => (Wanted(d)' <=> Wanted(d))
      /\ Wanted(c) <=> mq[c].inGlobal
  BY DEF Wanted, Becomes
<1>2. /\ Held(t)' = Held(t) /\ (q'[t] = nq'[t] => q'[t] = Nil) /\ (q'[t] = dq'[t] => q'[t] = Nil)
  BY DEF Held, Before, Apart
<1>3. CASE mq[c].inGlobal
  <2>1. NoRepeat(gmq') /\ Listed' = Listed
    BY <1>3, PlacesBefore
  <2> QED
    BY <1>1, <1>2, <1>3, <2>1, PlacesBefore, ApartChange
<1>4. CASE ~mq[c].inGlobal
  <2>1. c \notin Listed /\ \A s \in Thread : c \notin Held(s)
    BY <1>1, <1>4, PlacesBefore
  <2>2. NoRepeat(gmq') /\ Listed' = Listed \cup {c}
    BY <1>4, <2>1, PlacesBefore, AppendElements
  <2>3. c \in Listed' /\ c \notin Held(t)' /\ Wanted(c)' /\ \A s \in Thread : s # t => c \notin Held(s)
    BY <1>1, <1>2, <2>1, <2>2
  <2>4. \A d \in Svc : d # c => /\ d \in Listed' <=> d \in Listed
                                /\ d \in Held(t)' <=> d \in Held(t)
                                /\ Wanted(d)' <=> Wanted(d)
    BY <1>1, <1>2, <2>2
  <2> QED
    BY <1>2, <2>2, <2>3, <2>4, PlacesBefore, ApartChange
<1> QED
  BY <1>3, <1>4

\* Nothing moves but the queues in the thread's hands among each other.
LEMMA NoQueueMoves ==
  ASSUME NEW t \in Thread, Before(t), UNCHANGED gmq, Held(t)' = Held(t),
         \A d \in Svc : Wanted(d)' <=> Wanted(d),
         q'[t] = nq'[t] => q'[t] = Nil,
         q'[t] = dq'[t] => q'[t] = Nil
  PROVE  Apart'
<1>1. NoRepeat(gmq') /\ Listed' = Listed
  BY PlacesBefore
<1> QED
  BY <1>1, PlacesBefore, ApartChange, BootService

LEMMA ApartStep ==
  ASSUME NEW t \in Thread, Before(t)
  PROVE  Apart'
<1> USE DEF Calls, Asleep, Creating, Dispatching, Points, Retire, callVars, ctxVars, Goto, Release
<1>1. /\ Typed /\ Messages /\ Control(t) /\ Hands(t) /\ Apart /\ gmq \in Seq(Svc)
      /\ q[t] = nq[t] => q[t] = Nil
      /\ q[t] = dq[t] => q[t] = Nil
      /\ \A c \in Svc : Life(c)
      /\ Referred(t)
  BY DEF Before, Typed, Apart
<1>2. CASE UNCHANGED <<gmq, q, nq, dq>> /\ \A d \in Svc : Wanted(d)' <=> Wanted(d)
  BY <1>1, <1>2, NoQueueMoves DEF Held
<1>3. CASE UNCHANGED <<gmq, q, nq, dq, mq>>
  BY <1>2, <1>3 DEF Wanted
<1>4. CASE Idle(t) \/ Send(t) \/ Other(t)
  <2>1. UNCHANGED <<gmq, q, nq, dq, mq>>
    BY <1>4 DEF Idle, Quit, KeepOn, FallAsleep, Wait, WakeUp, TimerAbort, OnlyPc, allButPc, Send,
                HandlerSend, InitSend, TimerSend, Other, TakeLength, Return, Abort, RetireRound, DropQueue
  <2> QED
    BY <1>3, <2>1
<1>5. CASE Register(t) \/ InitFail(t) \/ Kill(t) \/ Unregister(t) \/ RetireOne(t) \/ DecRef(t) \/ FindReceiver(t)
  <2>1. UNCHANGED <<gmq, q, nq, dq, mq>>
    BY <1>5 DEF Register, InitFail, Kill, Unregister, RetireOne, DecRef, FindReceiver
  <2> QED
    BY <1>3, <2>1
<1>6. CASE Fetch(t)
  <2>1. /\ UNCHANGED <<mq, nq, dq>> /\ q[t] = Nil /\ nq[t] = Nil /\ dq[t] = Nil
        /\ pc[t] \in {"top", "next"}
    BY <1>1, <1>6, Hand DEF Fetch
  <2>2. CASE gmq = <<>>
    BY <1>3, <1>6, <2>1, <2>2 DEF Fetch, PopGlobal
  <2>3. CASE gmq # <<>>
    <3>1. gmq' = Tail(gmq) /\ q' = [q EXCEPT ![t] = Head(gmq)]
      BY <1>6, <2>3 DEF Fetch, PopGlobal
    <3>2. Head(gmq) \in Svc
      BY <1>1, <2>3, GlobalTyped
    <3>3. q'[t] = Head(gmq) /\ nq'[t] = Nil /\ dq'[t] = Nil
      BY <1>1, <2>1, <3>1 DEF Typed
    <3>4. Held(t)' = Held(t) \cup {Head(gmq)}
      BY <2>1, <3>2, <3>3 DEF Held
    <3> QED
      BY <2>1, <2>3, <3>1, <3>2, <3>3, <3>4, TakesFirst
  <2> QED
    BY <2>2, <2>3
<1>7. CASE Swap(t)
  <2>1. /\ UNCHANGED <<mq, q, dq>> /\ nq[t] = Nil /\ dq[t] = Nil /\ q[t] \in Svc
    BY <1>1, <1>7, Hand DEF Swap
  <2>2. CASE gmq = <<>>
    BY <1>3, <1>7, <2>1, <2>2 DEF Swap
  <2>3. CASE gmq # <<>>
    <3>1. gmq' = Tail(gmq) /\ nq' = [nq EXCEPT ![t] = Head(gmq)]
      BY <1>7, <2>3 DEF Swap
    <3>2. Head(gmq) \in Listed
      BY <1>1, <2>3, PlacesBefore, TailElements
    <3>3. nq'[t] = Head(gmq) /\ q'[t] = q[t] /\ dq'[t] = Nil
      BY <1>1, <2>1, <3>1 DEF Typed
    <3>4. Head(gmq) # Nil
      BY <3>2, PlacesBefore
    <3>5. Held(t)' = Held(t) \cup {Head(gmq)}
      BY <2>1, <3>3, <3>4 DEF Held
    <3>6. q[t] \in Held(t)
      BY <2>1 DEF Held
    <3>7. Head(gmq) # q[t]
      BY <2>1, <3>2, <3>6, PlacesBefore
    <3> QED
      BY <2>1, <2>3, <3>1, <3>3, <3>5, <3>7, TakesFirst
  <2> QED
    BY <2>2, <2>3
<1>8. CASE PutBack(t)
  <2>1. /\ UNCHANGED <<mq, dq>> /\ nq[t] \in Svc /\ dq[t] = Nil /\ q[t] \in Svc /\ nq[t] # q[t]
        /\ gmq' = Append(gmq, q[t])
    BY <1>1, <1>8, Hand DEF PutBack
  <2>2. q'[t] = nq[t] /\ nq'[t] = Nil /\ dq'[t] = Nil
    BY <1>1, <1>8, <2>1 DEF PutBack, Typed
  <2>3. q[t] \in Held(t) /\ Held(t)' = Held(t) \ {q[t]}
    BY <2>1, <2>2 DEF Held
  <2> QED
    BY <2>1, <2>2, <2>3, GivesBack
<1>9. CASE KeepQueue(t) \/ InitOk(t)
  <2>1. /\ UNCHANGED <<mq, q, nq>> /\ nq[t] = Nil /\ dq[t] \in Svc /\ gmq' = Append(gmq, dq[t])
        /\ dq' = [dq EXCEPT ![t] = Nil]
    BY <1>1, <1>9, Hand DEF KeepQueue, InitOk
  <2>2. q'[t] = q[t] /\ nq'[t] = Nil /\ dq'[t] = Nil /\ q[t] # dq[t]
    BY <1>1, <2>1 DEF Typed
  <2>3. dq[t] \in Held(t) /\ Held(t)' = Held(t) \ {dq[t]}
    BY <2>1, <2>2 DEF Held
  <2> QED
    BY <2>1, <2>2, <2>3, GivesBack
<1>10. CASE Grab(t)
  <2>1. /\ UNCHANGED <<mq, gmq, nq>> /\ nq[t] = Nil /\ dq[t] = Nil /\ q[t] \in Svc
    BY <1>1, <1>10, Hand DEF Grab
  <2>2. CASE Found(q[t])
    BY <1>3, <1>10, <2>1, <2>2 DEF Grab
  <2>3. CASE ~Found(q[t])
    <3>1. q'[t] = Nil /\ dq'[t] = q[t] /\ nq'[t] = Nil
      BY <1>1, <1>10, <2>1, <2>3 DEF Grab, Typed
    <3>2. Held(t)' = Held(t)
      BY <2>1, <3>1 DEF Held
    <3>3. \A d \in Svc : Wanted(d)' <=> Wanted(d)
      BY <2>1 DEF Wanted
    <3> QED
      BY <2>1, <3>1, <3>2, <3>3, NoQueueMoves
  <2> QED
    BY <2>2, <2>3
<1>11. CASE Pop(t)
  <2>1. q[t] \in Svc /\ MqPop(q[t]) /\ UNCHANGED <<gmq, q, nq, dq>>
    BY <1>1, <1>11, Hand DEF Pop
  <2>2. \A d \in Svc : Wanted(d)' <=> Wanted(d)
    BY <1>1, <2>1, PopQueue DEF Wanted, Becomes
  <2> QED
    BY <1>2, <2>1, <2>2
<1>12. CASE DropMessage(t)
  <2>1. dq[t] \in Svc /\ MqPop(dq[t]) /\ UNCHANGED <<gmq, q, nq, dq>>
    BY <1>1, <1>12, Hand DEF DropMessage
  <2>2. \A d \in Svc : Wanted(d)' <=> Wanted(d)
    BY <1>1, <2>1, PopQueue DEF Wanted, Becomes
  <2> QED
    BY <1>2, <2>1, <2>2
<1>13. ASSUME NEW c \in Svc, c \in Held(t), UNCHANGED gmq, ~Wanted(c)', Held(t)' = Held(t) \ {c},
              \A d \in Svc : d # c => mq'[d] = mq[d],
              q'[t] = nq'[t] => q'[t] = Nil,
              q'[t] = dq'[t] => q'[t] = Nil
       PROVE  Apart'
  <2>1. NoRepeat(gmq') /\ Listed' = Listed
    BY <1>13, PlacesBefore
  <2>2. \A d \in Svc : d # c => /\ d \in Listed' <=> d \in Listed
                                /\ d \in Held(t)' <=> d \in Held(t)
                                /\ Wanted(d)' <=> Wanted(d)
    BY <1>13, <2>1 DEF Wanted
  <2>3. c \notin Listed' /\ c \notin Held(t)' /\ ~Wanted(c)' /\ \A s \in Thread : s # t => c \notin Held(s)
    BY <1>13, <2>1, PlacesBefore
  <2> QED
    BY <1>13, <2>1, <2>2, <2>3, PlacesBefore, ApartChange
<1>14. CASE PopNothing(t)
  <2>1. /\ q[t] \in Svc /\ cur[t] = q[t] /\ MqPopNothing(q[t]) /\ UNCHANGED <<gmq, nq, dq>>
        /\ nq[t] = Nil /\ dq[t] = Nil
    BY <1>1, <1>14, Hand DEF PopNothing
  <2>2. q'[t] = Nil /\ nq'[t] = Nil /\ dq'[t] = Nil
    BY <1>1, <1>14, <2>1 DEF PopNothing, Typed
  <2>3. ~mq[q[t]].release
    BY <1>1, <2>1 DEF Referred, Life
  <2>4. Becomes(q[t], mq'[q[t]]) /\ ~mq'[q[t]].release /\ ~mq'[q[t]].inGlobal
    BY <1>1, <2>1, <2>3, LeaveQueue
  <2>5. q[t] \in Held(t) /\ Held(t)' = Held(t) \ {q[t]}
    BY <2>1, <2>2 DEF Held
  <2>6. PICK c \in Svc : c = q[t]
    BY <2>1
  <2>7. ~Wanted(c)' /\ \A d \in Svc : d # c => mq'[d] = mq[d]
    BY <2>4, <2>6 DEF Wanted, Becomes
  <2> QED
    BY <1>13, <2>1, <2>2, <2>5, <2>6, <2>7
<1>15. CASE FreeQueue(t)
  <2>1. /\ dq[t] \in Svc /\ mq' = [mq EXCEPT ![dq[t]] = NoQueue("freed")] /\ UNCHANGED <<gmq, q, nq>>
        /\ nq[t] = Nil
    BY <1>1, <1>15, Hand DEF FreeQueue, MqFree
  <2>2. dq'[t] = Nil /\ q'[t] = q[t] /\ nq'[t] = Nil /\ q[t] # dq[t]
    BY <1>1, <1>15, <2>1 DEF FreeQueue, Typed
  <2>3. dq[t] \in Held(t) /\ Held(t)' = Held(t) \ {dq[t]}
    BY <2>1, <2>2 DEF Held
  <2>4. PICK c \in Svc : c = dq[t]
    BY <2>1
  <2>5. mq'[c] = NoQueue("freed") /\ \A d \in Svc : d # c => mq'[d] = mq[d]
    BY <1>1, <2>1, <2>4 DEF Typed
  <2>6. ~Wanted(c)'
    BY <2>5, NoQueueSound DEF Wanted
  <2> QED
    BY <1>13, <2>1, <2>2, <2>3, <2>4, <2>5, <2>6
<1>16. CASE Push(t)
  <2>1. op[t] \in Svc /\ out[t] \in Msg /\ MqPush(op[t], out[t]) /\ UNCHANGED <<q, nq, dq>>
    BY <1>1, <1>16, Hand DEF Push
  <2>2. mq[op[t]].st = "live" /\ ~mq[op[t]].release
    BY <1>1, <2>1 DEF Referred, Life
  <2>3. gmq' = IF mq[op[t]].inGlobal THEN gmq ELSE Append(gmq, op[t])
    BY <2>1 DEF MqPush
  <2> QED
    BY <1>1, <2>1, <2>2, <2>3, PushQueue, Enlists
<1>17. CASE DeleteContext(t)
  <2>1. op[t] \in Svc /\ MqMarkRelease(op[t]) /\ UNCHANGED <<q, nq, dq>>
    BY <1>1, <1>17, Hand DEF DeleteContext
  <2>2. mq[op[t]].st = "live" /\ ~mq[op[t]].release
    BY <1>1, <2>1 DEF Referred, Life
  <2>3. gmq' = IF mq[op[t]].inGlobal THEN gmq ELSE Append(gmq, op[t])
    BY <2>1 DEF MqMarkRelease
  <2> QED
    BY <1>1, <2>1, <2>2, <2>3, MarkQueue, Enlists
<1>18. CASE Create(t)
  <2>1. /\ new[t] \in Svc /\ mq' = [mq EXCEPT ![new[t]] = NewQueue] /\ UNCHANGED <<gmq, q, nq>>
        /\ nq[t] = Nil /\ dq[t] = Nil /\ q[t] \in Svc /\ pc[t] = "create"
    BY <1>1, <1>18, Hand DEF Create
  <2>2. PICK c \in Svc : c = new[t]
    BY <2>1
  <2>3. dq'[t] = c /\ q'[t] = q[t] /\ nq'[t] = Nil
    BY <1>1, <1>18, <2>1, <2>2 DEF Create, Typed
  <2>4. mq[c].st = "none"
    BY <1>1, <2>1, <2>2 DEF Referred, Life, At
  <2>5. ~Wanted(c) /\ c \notin Listed /\ \A s \in Thread : c \notin Held(s)
    BY <2>4, PlacesBefore DEF Wanted
  <2>6. mq'[c] = NewQueue /\ \A d \in Svc : d # c => mq'[d] = mq[d]
    BY <1>1, <2>1, <2>2 DEF Typed
  <2>7. Wanted(c)' /\ \A d \in Svc : d # c => (Wanted(d)' <=> Wanted(d))
    BY <2>6, NewQueueSound DEF Wanted
  <2>8. Held(t)' = Held(t) \cup {c} /\ q[t] # c
    BY <2>1, <2>3, <2>5 DEF Held
  <2>9. NoRepeat(gmq') /\ Listed' = Listed
    BY <2>1, PlacesBefore
  <2>10. c \notin Listed' /\ c \in Held(t)' /\ Wanted(c)' /\ \A s \in Thread : s # t => c \notin Held(s)
    BY <2>5, <2>7, <2>8, <2>9
  <2>11. \A d \in Svc : d # c => /\ d \in Listed' <=> d \in Listed
                                 /\ d \in Held(t)' <=> d \in Held(t)
                                 /\ Wanted(d)' <=> Wanted(d)
    BY <2>7, <2>8, <2>9
  <2> QED
    BY <2>1, <2>3, <2>8, <2>9, <2>10, <2>11, PlacesBefore, ApartChange
<1> QED
  BY <1>4, <1>5, <1>6, <1>7, <1>8, <1>9, <1>10, <1>11, <1>12, <1>14, <1>15, <1>16, <1>17, <1>18
  DEF Before, Step, Queueing, Living, Core

-----------------------------------------------------------------------------
(* Which services are ready                                                  *)

\* A queue waits for a worker, or one has it.
Waits(c) == c \in Listed \/ \E s \in Thread : c \in {q[s], nq[s]}

\* The mark of a queue stays until the queue is freed.
LEMMA MarkStays ==
  ASSUME NEW t \in Thread, Before(t), NEW c \in Svc, mq[c].st = "live", mq[c].release,
         ~(FreeQueue(t) /\ dq[t] = c)
  PROVE  mq'[c].release
<1> USE DEF Calls, Asleep, Creating, Dispatching, Points, Retire, callVars, ctxVars
<1>1. Typed /\ Control(t) /\ Hands(t) /\ Referred(t) /\ \A d \in Svc : Life(d)
  BY DEF Before
<1>2. CASE UNCHANGED mq
  BY <1>2
<1>3. CASE Idle(t) \/ Send(t) \/ Other(t)
  BY <1>2, <1>3 DEF Idle, Quit, KeepOn, FallAsleep, Wait, WakeUp, TimerAbort, OnlyPc, allButPc, Send,
                    HandlerSend, InitSend, TimerSend, Other, TakeLength, Return, Abort, RetireRound, DropQueue
<1>4. CASE (Living(t) /\ ~Create(t)) \/ DecRef(t) \/ FindReceiver(t)
  BY <1>2, <1>4 DEF Living, Register, InitOk, InitFail, Kill, Unregister, RetireOne, DecRef, FindReceiver
<1>5. CASE Fetch(t) \/ Swap(t) \/ PutBack(t) \/ KeepQueue(t) \/ Grab(t)
  BY <1>2, <1>5 DEF Fetch, Swap, PutBack, KeepQueue, Grab
<1>6. ASSUME NEW d \in Svc, Becomes(d, mq'[d]), d = c => mq'[d].release
      PROVE  mq'[c].release
  BY <1>6 DEF Becomes
<1>7. CASE PopNothing(t)
  BY <1>1, <1>6, <1>7, Hand, LeaveQueue DEF PopNothing
<1>8. CASE Pop(t) \/ DropMessage(t)
  BY <1>1, <1>6, <1>8, Hand, PopQueue DEF Pop, DropMessage
<1>9. CASE FreeQueue(t)
  <2>1. dq[t] \in Svc /\ mq' = [mq EXCEPT ![dq[t]] = NoQueue("freed")]
    BY <1>1, <1>9, Hand DEF FreeQueue, MqFree
  <2> QED
    BY <1>1, <1>9, <2>1 DEF Typed
<1>10. CASE Push(t)
  BY <1>1, <1>6, <1>10, Hand, PushQueue DEF Push
<1>11. CASE DeleteContext(t)
  BY <1>1, <1>6, <1>11, Hand, MarkQueue DEF DeleteContext
<1>12. CASE Create(t)
  <2>1. new[t] \in Svc /\ mq' = [mq EXCEPT ![new[t]] = NewQueue] /\ pc[t] = "create"
    BY <1>1, <1>12, Hand DEF Create
  <2>2. mq[new[t]].st = "none"
    BY <1>1, <2>1 DEF Referred, Life, At
  <2> QED
    BY <1>1, <2>1, <2>2 DEF Typed
<1> QED
  BY <1>3, <1>4, <1>5, <1>7, <1>8, <1>9, <1>10, <1>11, <1>12
  DEF Before, Step, Queueing, Living, Core

\* A service that is ready stays so while it is registered.
LEMMA ReadyStays ==
  ASSUME NEW t \in Thread, Before(t), NEW c \in Svc, c \in slot, ctx[c].init
  PROVE  ctx'[c].init
<1>1. ctx[c].ref > 0
  BY RefPositive DEF Before
<1>2. ctx[c].st = "live"
  BY DEF Before, Life
<1>3. c # new[t]
  BY DEF Before, Referred
<1> QED
  BY <1>1, <1>2, <1>3, ContextStep

\* A queue that begins to wait is that of a service that becomes ready, or of
\* one that is not registered any more.
LEMMA BeginsToWait ==
  ASSUME NEW t \in Thread, Before(t), NEW c \in Svc, c \in slot, ~Waits(c), Waits(c)'
  PROVE  ctx'[c].init
<1> USE DEF Calls, Asleep, Creating, Dispatching, Points, Retire, callVars, ctxVars
<1>1. /\ Typed /\ Control(t) /\ Hands(t) /\ Referred(t) /\ \A d \in Svc : Life(d)
      /\ Settled /\ gmq \in Seq(Svc) /\ \A s \in Thread : s # t => Unmoved(s)
  BY OthersStay DEF Before, Typed
<1>2. CASE UNCHANGED <<gmq, q, nq>>
  BY <1>2 DEF Waits, Listed
<1>3. CASE Idle(t) \/ Send(t) \/ Other(t)
  BY <1>2, <1>3 DEF Idle, Quit, KeepOn, FallAsleep, Wait, WakeUp, TimerAbort, OnlyPc, allButPc, Send,
                    HandlerSend, InitSend, TimerSend, Other, TakeLength, Return, Abort, RetireRound, DropQueue
<1>4. CASE (Living(t) /\ ~InitOk(t)) \/ DecRef(t) \/ FindReceiver(t) \/ Pop(t) \/ DropMessage(t) \/ FreeQueue(t)
  BY <1>2, <1>4 DEF Living, Register, Create, InitFail, Kill, Unregister, RetireOne, DecRef, FindReceiver,
                    Pop, DropMessage, FreeQueue
<1>5. ASSUME Listed' \subseteq Listed, {q'[t], nq'[t]} \subseteq {q[t], nq[t], Nil} \cup Listed
      PROVE  FALSE
  BY <1>1, <1>5 DEF Waits, Unmoved
<1>6. gmq # <<>> => Head(gmq) \in Listed /\ (gmq' = Tail(gmq) => Listed' \subseteq Listed)
  <2>1. NoRepeat(gmq) /\ Listed = Elements(gmq) /\ Listed' = Elements(gmq')
    BY PlacesBefore
  <2>2. ASSUME gmq # <<>>
        PROVE  Head(gmq) \in Elements(gmq) /\ Elements(Tail(gmq)) \subseteq Elements(gmq)
    <3>1. Head(gmq) \in Elements(gmq) /\ Elements(Tail(gmq)) = Elements(gmq) \ {Head(gmq)}
      BY <1>1, <2>1, <2>2, TailElements
    <3> QED
      BY <3>1
  <2> QED
    BY <2>1, <2>2
<1>7. CASE Fetch(t)
  BY <1>1, <1>2, <1>5, <1>6, <1>7 DEF Fetch, PopGlobal, Typed
<1>8. CASE Swap(t)
  BY <1>1, <1>2, <1>5, <1>6, <1>8 DEF Swap, Typed
<1>9. CASE Grab(t) \/ PopNothing(t)
  <2>1. Listed' = Listed /\ q'[t] \in {q[t], Nil} /\ nq'[t] = nq[t]
    BY <1>1, <1>9 DEF Grab, PopNothing, Typed, Listed
  <2> QED
    BY <1>5, <2>1
<1>10. ASSUME NEW d \in Svc, gmq' = Append(gmq, d)
       PROVE  Listed' = Listed \cup {d}
  BY <1>1, <1>10, AppendElements, PlacesBefore
<1>11. CASE PutBack(t)
  <2>1. /\ q[t] \in Svc /\ gmq' = Append(gmq, q[t]) /\ q'[t] = nq[t] /\ nq'[t] = Nil
    BY <1>1, <1>11, Hand DEF PutBack, Typed
  <2>2. Listed' = Listed \cup {q[t]}
    BY <1>10, <2>1
  <2> QED
    BY <1>1, <2>1, <2>2 DEF Waits, Unmoved
<1>12. CASE KeepQueue(t)
  <2>1. dq[t] \in Svc /\ gmq' = Append(gmq, dq[t]) /\ UNCHANGED <<q, nq>> /\ pc[t] = "mqrelease"
    BY <1>1, <1>12, Hand DEF KeepQueue
  <2>2. dq[t] \notin slot
    BY <1>1, <2>1 DEF Settled, At
  <2>3. Listed' = Listed \cup {dq[t]}
    BY <1>10, <2>1
  <2> QED
    BY <2>1, <2>2, <2>3 DEF Waits
<1>13. CASE InitOk(t)
  <2>1. /\ dq[t] \in Svc /\ dq[t] = new[t] /\ gmq' = Append(gmq, dq[t]) /\ UNCHANGED <<q, nq>>
        /\ ctx' = [ctx EXCEPT ![new[t]].init = TRUE]
    BY <1>1, <1>13, Hand DEF InitOk
  <2>2. Listed' = Listed \cup {dq[t]}
    BY <1>10, <2>1
  <2>3. c = dq[t]
    BY <2>1, <2>2 DEF Waits
  <2> QED
    BY <1>1, <2>1, <2>3 DEF Typed, Context
<1>14. ASSUME op[t] \in Svc, mq[op[t]].inGlobal => gmq' = gmq, ~mq[op[t]].inGlobal => gmq' = Append(gmq, op[t]),
              UNCHANGED <<q, nq>>
       PROVE  c = op[t] /\ ~mq[c].inGlobal
  <2>1. CASE mq[op[t]].inGlobal
    BY <1>2, <1>14, <2>1 DEF Waits, Listed
  <2>2. CASE ~mq[op[t]].inGlobal
    <3>1. Listed' = Listed \cup {op[t]}
      BY <1>10, <1>14, <2>2
    <3> QED
      BY <1>14, <2>2, <3>1 DEF Waits
  <2> QED
    BY <2>1, <2>2
<1>15. CASE Push(t)
  <2>1. op[t] \in Svc /\ UNCHANGED <<ctx, q, nq>> /\ MqPush(op[t], out[t])
    BY <1>1, <1>15, Hand DEF Push
  <2>2. c = op[t] /\ ~mq[c].inGlobal
    BY <1>14, <2>1 DEF MqPush
  <2> QED
    BY <1>1, <2>1, <2>2 DEF Referred, Life
<1>16. CASE DeleteContext(t)
  <2>1. op[t] \in Svc /\ UNCHANGED <<q, nq>> /\ MqMarkRelease(op[t]) /\ pc[t] = "delete"
    BY <1>1, <1>16, Hand DEF DeleteContext
  <2>2. c = op[t]
    BY <1>14, <2>1 DEF MqMarkRelease
  <2>3. ctx[c].ref = 0
    BY <1>1, <2>1, <2>2 DEF Referred
  <2> QED
    BY <2>3, RefPositive DEF Before
<1> QED
  BY <1>3, <1>4, <1>7, <1>8, <1>9, <1>11, <1>12, <1>13, <1>15, <1>16
  DEF Before, Step, Queueing, Living, Core

\* A service is registered when it is created, and never again.
LEMMA SlotStep ==
  ASSUME NEW t \in Thread, Before(t), NEW c \in Svc, c \in slot', c \notin slot
  PROVE  ctx[c].st = "none" /\ mq'[c].st = "none"
<1> USE DEF Retire, ctxVars, callVars
<1>1. CASE UNCHANGED slot \/ slot' \subseteq slot
  BY <1>1
<1>2. CASE Idle(t) \/ Send(t) \/ Other(t)
  BY <1>1, <1>2 DEF Idle, Quit, KeepOn, FallAsleep, Wait, WakeUp, TimerAbort, OnlyPc, allButPc, Send,
                    HandlerSend, InitSend, TimerSend, Other, TakeLength, Return, Abort, RetireRound, DropQueue
<1>3. CASE Queueing(t) \/ Core(t)
  BY <1>1, <1>3 DEF Queueing, Fetch, Grab, PopNothing, Pop, Swap, PutBack, KeepQueue, DropMessage, FreeQueue,
                    Core, DecRef, DeleteContext, FindReceiver, Push
<1>4. CASE Living(t) /\ ~Register(t)
  BY <1>1, <1>4 DEF Living, Create, InitOk, InitFail, Kill, Unregister, RetireOne
<1>5. CASE Register(t)
  BY <1>5 DEF Register, Before, Life
<1> QED
  BY <1>2, <1>3, <1>4, <1>5 DEF Before, Step

\* A queue to be released: a thread that comes to release one found its
\* service gone.
LEMMA ReleaseStep ==
  ASSUME NEW t \in Thread, Before(t), At(t)' \in {"mqrelease", "drop"}
  PROVE  /\ dq'[t] \in Svc /\ dq'[t] \notin slot' /\ mq[dq'[t]].st = "live"
         /\ ~(FreeQueue(t) /\ dq[t] = dq'[t])
         /\ At(t)' = "drop" => mq[dq'[t]].release
<1> USE DEF Calls, Asleep, Creating, Dispatching, Points, callVars, ctxVars, Goto, Release, Resume, At
<1>1. /\ Typed /\ Control(t) /\ Hands(t) /\ Settled
      /\ \A c \in Svc : Life(c)
      /\ \A c \in Svc : c \in Held(t) => mq[c].st = "live"
  BY PlacesBefore DEF Before, Wanted
<1>2. dq[t] # Nil => dq[t] \in Svc /\ mq[dq[t]].st = "live"
  BY <1>1 DEF Held, Typed, SlotOrNil
<1>3. CASE /\ UNCHANGED dq /\ slot' \subseteq slot /\ At(t) \in {"mqrelease", "drop"}
           /\ (At(t)' = At(t) \/ (At(t)' = "drop" /\ mq[dq[t]].release))
           /\ ~FreeQueue(t)
  <2>1. dq[t] # Nil
    BY <1>1, <1>3 DEF Hands, Control
  <2> QED
    BY <1>1, <1>2, <1>3, <2>1 DEF Settled
<1>4. CASE Idle(t) \/ Send(t) \/ Other(t)
  <2>1. CASE Idle(t)
    BY <1>1, <2>1 DEF Idle, Quit, KeepOn, FallAsleep, Wait, WakeUp, TimerAbort, OnlyPc, allButPc, Typed
  <2>2. CASE Send(t)
    BY <1>1, <2>2 DEF Send, HandlerSend, InitSend, TimerSend, StartSend, Typed
  <2>3. CASE Other(t) /\ ~DropQueue(t)
    BY <1>1, <2>3 DEF Other, TakeLength, Return, Abort, RetireRound, Typed
  <2>4. CASE DropQueue(t)
    <3>1. /\ UNCHANGED <<dq, slot>> /\ pc[t] = "mqrelease" /\ pc'[t] = "drop" /\ mq[dq[t]].release
      BY <1>1, <2>4 DEF DropQueue, Typed
    <3>2. ~FreeQueue(t)
      BY <3>1 DEF FreeQueue
    <3> QED
      BY <1>1, <1>3, <3>1, <3>2
  <2> QED
    BY <1>4, <2>1, <2>2, <2>3, <2>4 DEF Other
<1>5. CASE Fetch(t) \/ PopNothing(t) \/ Pop(t) \/ Swap(t) \/ PutBack(t)
  BY <1>1, <1>5 DEF Fetch, PopGlobal, PopNothing, Pop, Swap, PutBack, Typed
<1>6. CASE Grab(t)
  <2>1. q[t] \in Svc /\ dq[t] = Nil /\ UNCHANGED slot
    BY <1>1, <1>6, Hand DEF Grab
  <2>2. ~Found(q[t])
    BY <1>1, <1>6 DEF Grab, Typed
  <2>3. dq'[t] = q[t] /\ At(t)' = "mqrelease"
    BY <1>1, <1>6, <2>2 DEF Grab, Typed
  <2>4. q[t] \in Held(t)
    BY <2>1 DEF Held
  <2>5. q[t] \notin slot
    <3>1. SUFFICES ASSUME q[t] \in slot PROVE FALSE
      OBVIOUS
    <3>2. ctx[q[t]].init
      BY <1>1, <2>1, <3>1 DEF Settled
    <3>3. ctx[q[t]].handle = q[t]
      BY <1>1, <2>1, <3>1, <3>2 DEF Life
    <3> QED
      BY <2>2, <3>1, <3>3 DEF Found
  <2> QED
    BY <1>1, <2>1, <2>3, <2>4, <2>5
<1>7. CASE KeepQueue(t) \/ FreeQueue(t)
  BY <1>1, <1>7 DEF KeepQueue, FreeQueue, BackToCaller, Typed
<1>8. CASE DropMessage(t)
  <2>1. UNCHANGED <<dq, slot>> /\ pc[t] = "drop"
    BY <1>8 DEF DropMessage
  <2>2. At(t)' = "drop"
    BY <1>1, <1>8, <2>1 DEF DropMessage, StartSend, Typed
  <2>3. ~FreeQueue(t)
    BY <1>8 DEF DropMessage, FreeQueue, MqPop
  <2> QED
    BY <1>3, <2>1, <2>2, <2>3
<1>9. CASE Register(t) \/ Create(t) \/ InitOk(t) \/ InitFail(t) \/ Kill(t) \/ RetireOne(t)
  <2>1. CASE Kill(t)
    BY <1>1, <2>1 DEF Kill, Retire, Typed
  <2>2. CASE RetireOne(t)
    <3>1. \/ pc' = [pc EXCEPT ![t] = "release"] /\ ret' = [ret EXCEPT ![t] = "retireall"]
          \/ pc' = [pc EXCEPT ![t] = "retireall"]
      BY <2>2 DEF RetireOne, Retire
    <3> QED
      BY <1>1, <3>1 DEF Typed
  <2> QED
    BY <1>1, <1>9, <2>1, <2>2 DEF Register, Create, InitOk, InitFail, Typed
<1>10. CASE Unregister(t)
  <2>1. UNCHANGED <<dq>> /\ dq[t] \in Svc /\ pc[t] = "unregister"
    BY <1>1, <1>10, Hand DEF Unregister
  <2>2. ~FreeQueue(t)
    BY <2>1 DEF FreeQueue
  <2>3. At(t)' = "mqrelease"
    BY <1>1, <1>10, <2>1 DEF Unregister, Retire, Typed
  <2>4. dq[t] \notin slot'
    <3>1. CASE Found(dq[t])
      BY <1>10, <3>1 DEF Unregister, Retire
    <3>2. CASE ~Found(dq[t])
      <4>1. slot' = slot
        BY <1>10, <3>2 DEF Unregister, Retire
      <4>2. dq[t] \in slot => ctx[dq[t]].handle = dq[t]
        BY <1>1, <1>2, <2>1 DEF Life
      <4> QED
        BY <3>2, <4>1, <4>2 DEF Found
    <3> QED
      BY <3>1, <3>2
  <2> QED
    BY <1>2, <2>1, <2>2, <2>3, <2>4
<1>11. CASE DecRef(t) \/ DeleteContext(t) \/ FindReceiver(t) \/ Push(t)
  <2>1. UNCHANGED <<dq, slot>> /\ pc[t] \in Calls
    BY <1>11 DEF DecRef, DeleteContext, FindReceiver, Push
  <2>2. ~FreeQueue(t)
    BY <2>1 DEF FreeQueue
  <2>3. ret[t] \in Points
    BY <1>1, <2>1, Hand
  <2>4. At(t)' = At(t)
    BY <1>1, <1>11, <2>3 DEF DecRef, DeleteContext, FindReceiver, Push, Typed
  <2> QED
    BY <1>3, <2>1, <2>2, <2>4
<1> QED
  BY <1>4, <1>5, <1>6, <1>7, <1>8, <1>9, <1>10, <1>11
  DEF Before, Step, Queueing, Living, Core

LEMMA SettledStep ==
  ASSUME NEW t \in Thread, Before(t)
  PROVE  Settled'
<1>1. Apart' /\ Settled /\ Apart /\ \A s \in Thread : s # t => Unmoved(s)
  BY ApartStep, OthersStay DEF Before
<1>2. ASSUME NEW c \in Svc, c \in slot', Waits(c)'
      PROVE  ctx'[c].init
  <2>1. mq'[c].st = "live"
    BY <1>1, <1>2 DEF Apart, Waits, Held
  <2>2. c \in slot
    BY <1>2, <2>1, SlotStep
  <2>3. CASE Waits(c)
    <3>1. ctx[c].init
      BY <1>1, <2>2, <2>3 DEF Settled, Waits
    <3> QED
      BY <2>2, <3>1, ReadyStays
  <2>4. CASE ~Waits(c)
    BY <1>2, <2>2, <2>4, BeginsToWait
  <2> QED
    BY <2>3, <2>4
<1>3. slot' \subseteq Svc
  BY TypeStep DEF Before, Typed
<1>4. ASSUME NEW s \in Thread, At(s)' \in {"mqrelease", "drop"}
      PROVE  dq'[s] \notin slot' /\ (At(s)' = "drop" => mq'[dq'[s]].release)
  <2>1. CASE s = t
    <3>1. PICK c \in Svc : c = dq'[t]
      BY <1>4, <2>1, ReleaseStep
    <3>2. /\ c \notin slot' /\ mq[c].st = "live" /\ ~(FreeQueue(t) /\ dq[t] = c)
          /\ At(t)' = "drop" => mq[c].release
      BY <1>4, <2>1, <3>1, ReleaseStep
    <3> QED
      BY <2>1, <3>1, <3>2, MarkStays
  <2>2. CASE s # t
    <3>1. /\ dq'[s] = dq[s] /\ At(s)' = At(s)
      BY <1>1, <2>2 DEF Unmoved, At
    <3>2. dq[s] # Nil
      BY <1>4, <3>1 DEF Before, Hands
    <3>3. PICK c \in Svc : c = dq[s]
      BY <3>2 DEF Before, Typed, SlotOrNil
    <3>4. c \in Held(s) /\ mq[c].st = "live" /\ c \notin Held(t) /\ c \notin slot
          /\ (At(s) = "drop" => mq[c].release)
      BY <1>1, <1>4, <2>2, <3>1, <3>2, <3>3 DEF Held, Apart, Settled
    <3>5. c \notin slot'
      <4>1. SUFFICES ASSUME c \in slot' PROVE FALSE
        OBVIOUS
      <4>2. ctx[c].st = "none"
        BY <3>4, <4>1, SlotStep
      <4> QED
        BY <3>4, <4>2 DEF Before, Life
    <3>6. dq[t] # c
      BY <3>4 DEF Held
    <3> QED
      BY <3>1, <3>3, <3>4, <3>5, <3>6, MarkStays
  <2> QED
    BY <2>1, <2>2
<1> QED
  BY <1>2, <1>3, <1>4 DEF Settled, Waits

-----------------------------------------------------------------------------
(* The counters are exact                                                    *)

\* A step changes the reference count of a context by the references that its
\* thread takes and gives up, and by the slot's.
LEMMA Balance ==
  ASSUME NEW t \in Thread, Before(t), NEW c \in Svc
  PROVE  ctx'[c].ref + Has(c, t) + One(c, slot) = ctx[c].ref + Has(c, t)' + One(c, slot')
<1> USE DEF Calls, Asleep, Creating, Dispatching, Points, Retire, callVars, ctxVars, Goto, Release, Resume,
            Found, Has, One
<1>1. /\ Typed /\ Control(t) /\ Hands(t) /\ Referred(t) /\ RefExact /\ ctx \in [Svc -> Context]
      /\ Life(c)
  BY DEF Before, Typed
<1>2. ctx[c].ref \in Nat
  BY <1>1 DEF Context
<1>3. CASE UNCHANGED <<ctx, slot, cur, op, new>> /\ pc[t] # "delete" /\ pc'[t] # "delete"
  BY <1>2, <1>3
<1>4. CASE Idle(t) \/ Send(t) \/ Other(t)
  <2>1. UNCHANGED <<ctx, slot, cur, op, new>> /\ pc[t] # "delete" /\ pc'[t] # "delete"
    <3>1. CASE Idle(t)
      BY <1>1, <3>1 DEF Idle, Quit, KeepOn, FallAsleep, Wait, WakeUp, TimerAbort, OnlyPc, allButPc, Typed
    <3>2. CASE Send(t)
      BY <1>1, <3>2 DEF Send, HandlerSend, InitSend, TimerSend, StartSend, Typed
    <3>3. CASE Other(t)
      BY <1>1, <3>3 DEF Other, TakeLength, Return, Abort, RetireRound, DropQueue, Typed
    <3> QED
      BY <1>4, <3>1, <3>2, <3>3
  <2> QED
    BY <1>3, <2>1
<1>5. CASE Fetch(t) \/ Pop(t) \/ KeepQueue(t) \/ DropMessage(t) \/ FreeQueue(t) \/ Push(t)
  <2>1. UNCHANGED <<ctx, slot, cur, op, new>> /\ pc[t] # "delete" /\ pc'[t] # "delete"
    BY <1>1, <1>5 DEF Fetch, PopGlobal, Pop, KeepQueue, DropMessage, StartSend, FreeQueue, BackToCaller,
                      Push, Typed
  <2> QED
    BY <1>3, <2>1
<1>6. CASE Grab(t)
  <2>1. q[t] \in Svc /\ cur[t] = Nil /\ UNCHANGED <<slot, op, new>> /\ pc[t] # "delete" /\ pc'[t] # "delete"
    BY <1>1, <1>6, Hand DEF Grab, Typed
  <2>2. CASE Found(q[t])
    <3>1. cur'[t] = q[t] /\ ctx' = [ctx EXCEPT ![q[t]].ref = ctx[q[t]].ref + 1]
      BY <1>1, <1>6, <2>2 DEF Grab, Typed
    <3>2. ctx'[c].ref = IF c = q[t] THEN ctx[c].ref + 1 ELSE ctx[c].ref
      BY <1>1, <2>1, <3>1 DEF Context
    <3> QED
      BY <1>2, <2>1, <3>1, <3>2
  <2>3. CASE ~Found(q[t])
    BY <1>2, <1>6, <2>1, <2>3 DEF Grab
  <2> QED
    BY <2>2, <2>3
<1>7. CASE FindReceiver(t)
  <2>1. /\ dest[t] \in Svc /\ op[t] = Nil /\ UNCHANGED <<slot, cur, new>> /\ pc[t] # "delete" /\ pc'[t] # "delete"
    <3>1. pc[t] = "find" /\ dest[t] \in Svc /\ op[t] = Nil /\ ret[t] \in {"handler", "ready", "drop", "tick"}
      BY <1>1, <1>7, Hand DEF FindReceiver, Control
    <3> QED
      BY <1>1, <1>7, <3>1 DEF FindReceiver, Typed
  <2>2. CASE Found(dest[t])
    <3>1. op'[t] = dest[t] /\ ctx' = [ctx EXCEPT ![dest[t]].ref = ctx[dest[t]].ref + 1]
      BY <1>1, <1>7, <2>2 DEF FindReceiver, Typed
    <3>2. ctx'[c].ref = IF c = dest[t] THEN ctx[c].ref + 1 ELSE ctx[c].ref
      BY <1>1, <2>1, <3>1 DEF Context
    <3> QED
      BY <1>2, <2>1, <3>1, <3>2
  <2>3. CASE ~Found(dest[t])
    BY <1>2, <1>7, <2>1, <2>3 DEF FindReceiver
  <2> QED
    BY <2>2, <2>3
<1>8. CASE DecRef(t)
  <2>1. /\ op[t] \in Svc /\ pc[t] = "release" /\ UNCHANGED <<slot, cur, new>>
        /\ ctx' = [ctx EXCEPT ![op[t]].ref = ctx[op[t]].ref - 1]
        /\ op'[t] = Nil \/ (op'[t] = op[t] /\ pc'[t] = "delete")
    BY <1>1, <1>8, Hand DEF DecRef, Typed
  <2>2. ctx'[c].ref = IF c = op[t] THEN ctx[c].ref - 1 ELSE ctx[c].ref
    BY <1>1, <2>1 DEF Context
  <2> QED
    BY <1>2, <2>1, <2>2
<1>9. CASE DeleteContext(t)
  <2>1. /\ op[t] \in Svc /\ pc[t] = "delete" /\ UNCHANGED <<slot, cur, new>> /\ op'[t] = Nil
    BY <1>1, <1>9, Hand DEF DeleteContext, Typed
  <2>2. ctx'[c].ref = ctx[c].ref
    BY <1>1, <1>9, <2>1 DEF DeleteContext, NoContext, Referred
  <2> QED
    BY <1>2, <2>1, <2>2
<1>10. CASE PopNothing(t) \/ Swap(t) \/ PutBack(t)
  <2>1. /\ cur[t] \in Svc /\ op[t] = Nil /\ UNCHANGED <<ctx, slot, new>> /\ pc[t] # "delete" /\ pc'[t] # "delete"
    BY <1>1, <1>10, Hand DEF PopNothing, Swap, PutBack, Typed
  <2>2. (cur'[t] = Nil /\ op'[t] = cur[t]) \/ UNCHANGED <<cur, op>>
    BY <1>1, <1>10 DEF PopNothing, Swap, PutBack, Typed
  <2> QED
    BY <1>2, <2>1, <2>2
<1>11. ASSUME NEW h \in Svc, NEW p \in Points, Retire(t, h, p), UNCHANGED <<cur, new>>, pc[t] \notin Calls
       PROVE  ctx'[c].ref + Has(c, t) + One(c, slot) = ctx[c].ref + Has(c, t)' + One(c, slot')
  <2>1. op[t] = Nil
    BY <1>1, <1>11, Hand
  <2>2. CASE Found(h)
    <3>1. op'[t] = h /\ pc'[t] = "release" /\ slot' = slot \ {h} /\ h \in slot /\ UNCHANGED ctx
      BY <1>1, <1>11, <2>2 DEF Typed
    <3> QED
      BY <1>2, <1>11, <2>1, <3>1
  <2>3. CASE ~Found(h)
    BY <1>2, <1>11, <2>1, <2>3
  <2> QED
    BY <2>2, <2>3
<1>12. CASE Kill(t)
  BY <1>11, <1>12 DEF Kill, Known
<1>13. CASE Unregister(t)
  <2>1. dq[t] \in Svc /\ pc[t] = "unregister"
    BY <1>1, <1>13, Hand DEF Unregister
  <2> QED
    BY <1>11, <1>13, <2>1 DEF Unregister
<1>14. CASE RetireOne(t)
  <2>1. PICK h \in todo[t] : Retire(t, h, "retireall")
    BY <1>14 DEF RetireOne
  <2>2. h \in Svc /\ pc[t] = "retireall" /\ UNCHANGED <<cur, new>>
    BY <1>1, <1>14 DEF RetireOne, Typed
  <2> QED
    BY <1>11, <2>1, <2>2
<1>15. CASE Register(t)
  <2>1. UNCHANGED <<cur, op>> /\ new[t] = Nil /\ op[t] = Nil /\ pc'[t] = "create"
    BY <1>1, <1>15, Hand DEF Register, Typed
  <2>2. PICK d \in Svc : /\ ctx[d].st = "none" /\ new' = [new EXCEPT ![t] = d] /\ slot' = slot \cup {d}
                         /\ ctx' = [ctx EXCEPT ![d] = [st |-> "live", ref |-> 2, handle |-> Nil, init |-> FALSE]]
    BY <1>15 DEF Register
  <2>3. new'[t] = d /\ ctx'[c].ref = IF c = d THEN 2 ELSE ctx[c].ref
    BY <1>1, <2>2 DEF Typed
  <2>4. c = d => ctx[c].ref = 0 /\ c \notin slot
    BY <1>1, <2>2 DEF Life
  <2> QED
    BY <1>2, <2>1, <2>2, <2>3, <2>4
<1>16. CASE Create(t)
  <2>1. UNCHANGED <<cur, op, new, slot>> /\ op[t] = Nil /\ new[t] \in Svc
    BY <1>1, <1>16, Hand DEF Create
  <2>2. ctx' = [ctx EXCEPT ![new[t]].handle = new[t]]
    BY <1>16 DEF Create
  <2>3. ctx'[c].ref = ctx[c].ref
    BY <1>1, <2>1, <2>2 DEF Context
  <2> QED
    BY <1>2, <2>1, <2>3
<1>17. CASE InitOk(t)
  <2>1. /\ UNCHANGED <<cur, slot>> /\ op[t] = Nil /\ new[t] \in Svc /\ op'[t] = new[t] /\ new'[t] = Nil
        /\ pc'[t] = "release"
    BY <1>1, <1>17, Hand DEF InitOk, Typed
  <2>2. ctx' = [ctx EXCEPT ![new[t]].init = TRUE]
    BY <1>17 DEF InitOk
  <2>3. ctx'[c].ref = ctx[c].ref
    BY <1>1, <2>1, <2>2 DEF Context
  <2> QED
    BY <1>2, <2>1, <2>3
<1>18. CASE InitFail(t)
  <2>1. /\ UNCHANGED <<ctx, cur, slot>> /\ op[t] = Nil /\ new[t] \in Svc /\ op'[t] = new[t] /\ new'[t] = Nil
        /\ pc'[t] = "release"
    BY <1>1, <1>18, Hand DEF InitFail, Typed
  <2> QED
    BY <1>2, <2>1
<1> QED
  BY <1>4, <1>5, <1>6, <1>7, <1>8, <1>9, <1>10, <1>12, <1>13, <1>14, <1>15, <1>16, <1>17, <1>18
  DEF Before, Step, Queueing, Living, Core

LEMMA RefStep ==
  ASSUME NEW t \in Thread, Before(t)
  PROVE  RefExact'
<1>1. SUFFICES ASSUME NEW c \in Svc PROVE ctx'[c].ref = Cardinality(Holders(c))'
  BY DEF RefExact
<1>2. \A s \in Thread : s # t => Unmoved(s)
  BY OthersStay DEF Before
<1>3. ctx[c].ref = Cardinality(Holders(c)) /\ ctx'[c].ref \in Nat /\ ctx[c].ref \in Nat
  <2>1. ctx \in [Svc -> Context] /\ ctx' \in [Svc -> Context]
    BY TypeStep DEF Before, Typed
  <2> QED
    BY <2>1 DEF Before, RefExact, Context
<1>4. /\ Has(c, t) \in Nat /\ Has(c, t)' \in Nat /\ One(c, slot) \in Nat /\ One(c, slot') \in Nat
  BY DEF Has, One
<1>5. ctx'[c].ref + Has(c, t) + One(c, slot) = ctx[c].ref + Has(c, t)' + One(c, slot')
  BY Balance
<1>6. /\ Cardinality(Holders(c))' + Has(c, t) + One(c, slot)
           = Cardinality(Holders(c)) + Has(c, t)' + One(c, slot')
      /\ Cardinality(Holders(c)) \in Nat /\ Cardinality(Holders(c))' \in Nat
  BY <1>2, HolderStep
<1> QED
  BY <1>3, <1>4, <1>5, <1>6

\* The contexts that are counted in total.
Counted == {c \in Svc : ctx[c].st = "live" /\ ctx[c].handle # Nil}

LEMMA CountedStep ==
  ASSUME NEW t \in Thread, Before(t)
  PROVE  \/ Counted' = Counted /\ total' = total
         \/ \E c \in Svc \ Counted : Counted' = Counted \cup {c} /\ total' = total + 1
         \/ \E c \in Counted : Counted' = Counted \ {c} /\ total' = total - 1
<1> USE DEF Calls, Asleep, Creating, Dispatching, Points, Retire, callVars, ctxVars, Counted
<1>1. /\ Typed /\ Control(t) /\ Hands(t) /\ Referred(t) /\ ctx \in [Svc -> Context] /\ \A c \in Svc : Life(c)
  BY DEF Before, Typed
<1>2. CASE /\ \A c \in Svc : ctx'[c].st = ctx[c].st /\ ctx'[c].handle = ctx[c].handle
           /\ total' = total
  BY <1>2
<1>3. CASE Idle(t) \/ Send(t) \/ Other(t) \/ (Queueing(t) /\ ~Grab(t))
  <2>1. UNCHANGED <<ctx, total>>
    BY <1>3 DEF Idle, Quit, KeepOn, FallAsleep, Wait, WakeUp, TimerAbort, OnlyPc, allButPc, Send,
                HandlerSend, InitSend, TimerSend, Other, TakeLength, Return, Abort, RetireRound, DropQueue,
                Queueing, Fetch, PopNothing, Pop, Swap, PutBack, KeepQueue, DropMessage, FreeQueue
  <2> QED
    BY <1>2, <2>1
<1>4. CASE InitFail(t) \/ Kill(t) \/ Unregister(t) \/ RetireOne(t) \/ Push(t)
  BY <1>2, <1>4 DEF InitFail, Kill, Unregister, RetireOne, Push
<1>5. CASE Grab(t) \/ FindReceiver(t) \/ DecRef(t) \/ InitOk(t)
  <2>1. \A c \in Svc : ctx'[c].st = ctx[c].st /\ ctx'[c].handle = ctx[c].handle
    BY <1>1, <1>5 DEF Grab, FindReceiver, DecRef, InitOk, Context
  <2>2. total' = total
    BY <1>5 DEF Grab, FindReceiver, DecRef, InitOk
  <2> QED
    BY <1>2, <2>1, <2>2
<1>6. CASE Register(t)
  <2>1. PICK d \in Svc : /\ ctx[d].st = "none"
                         /\ ctx' = [ctx EXCEPT ![d] = [st |-> "live", ref |-> 2, handle |-> Nil, init |-> FALSE]]
    BY <1>6 DEF Register
  <2>2. \A c \in Svc : IF c = d THEN ctx[c].st = "none" /\ ctx'[c].handle = Nil ELSE ctx'[c] = ctx[c]
    BY <1>1, <2>1
  <2> QED
    BY <1>6, <2>2 DEF Register
<1>7. CASE Create(t)
  <2>1. new[t] \in Svc /\ ctx[new[t]].st = "live" /\ ctx[new[t]].handle = Nil
    BY <1>1, <1>7, Hand DEF Create, Referred, At
  <2>2. ctx' = [ctx EXCEPT ![new[t]].handle = new[t]] /\ total' = total + 1
    BY <1>7 DEF Create
  <2>3. PICK d \in Svc : d = new[t]
    BY <2>1
  <2>4. /\ ctx'[d].st = "live" /\ ctx'[d].handle = d
        /\ \A c \in Svc : c # d => ctx'[c] = ctx[c]
    BY <1>1, <2>1, <2>2, <2>3 DEF Context
  <2>5. d \in Svc \ Counted /\ Counted' = Counted \cup {d}
    BY <2>1, <2>3, <2>4
  <2> QED
    BY <2>2, <2>5
<1>8. CASE DeleteContext(t)
  <2>1. op[t] \in Svc /\ ctx[op[t]].handle # Nil
    BY <1>1, <1>8, Hand DEF DeleteContext, Referred
  <2>2. ctx' = [ctx EXCEPT ![op[t]] = NoContext("freed")] /\ total' = total - 1
    BY <1>8 DEF DeleteContext
  <2>3. PICK d \in Svc : d = op[t]
    BY <2>1
  <2>4. ctx'[d].handle = Nil /\ \A c \in Svc : c # d => ctx'[c] = ctx[c]
    BY <1>1, <2>2, <2>3 DEF NoContext
  <2>5. d \in Counted /\ Counted' = Counted \ {d}
    BY <1>1, <2>1, <2>3, <2>4 DEF Life
  <2> QED
    BY <2>2, <2>5
<1> QED
  BY <1>3, <1>4, <1>5, <1>6, <1>7, <1>8 DEF Before, Step, Queueing, Living, Core

LEMMA TotalStep ==
  ASSUME NEW t \in Thread, Before(t), TotalExact
  PROVE  TotalExact'
<1> DEFINE S == Counted
           T == Counted'
<1>1. IsFiniteSet(S) /\ Cardinality(S) \in Nat
  BY FiniteNode, FS_Subset, FS_CardinalityType DEF Counted
<1>2. total = Cardinality(S) /\ (TotalExact' <=> total' = Cardinality(T))
  BY DEF TotalExact, Counted
<1>3. CASE T = S /\ total' = total
  BY <1>2, <1>3
<1>4. CASE \E c \in Svc \ S : T = S \cup {c} /\ total' = total + 1
  <2>1. PICK c : c \notin S /\ T = S \cup {c} /\ total' = total + 1
    BY <1>4
  <2> HIDE DEF S, T
  <2>2. Cardinality(S \cup {c}) = Cardinality(S) + 1
    BY <1>1, <2>1, FS_AddElement
  <2> QED
    BY <1>2, <2>1, <2>2
<1>5. CASE \E c \in S : T = S \ {c} /\ total' = total - 1
  <2>1. PICK c : c \in S /\ T = S \ {c} /\ total' = total - 1
    BY <1>5
  <2> HIDE DEF S, T
  <2>2. Cardinality(S \ {c}) = Cardinality(S) - 1
    BY <1>1, <2>1, FS_RemoveElement
  <2> QED
    BY <1>2, <2>1, <2>2
<1> QED
  BY <1>3, <1>4, <1>5, CountedStep

-----------------------------------------------------------------------------
(* IInv is inductive                                                         *)

\* Sleepers are woken and the timer thread ends: nothing else changes.
LEMMA SignalStep ==
  ASSUME IInv, UNCHANGED allButPc, pc' \in [Thread -> Points \cup Calls], quit' \in BOOLEAN,
         \A s \in Thread : \/ pc'[s] = pc[s]
                           \/ pc[s] = "wait" /\ pc'[s] = "woken"
                           \/ s = Timer /\ pc[s] = "stop" /\ pc'[s] = "done"
  PROVE  IInv'
<1> USE DEF allButPc, ctxVars, callVars
<1>1. Typed /\ Typed'
  BY TypedIsTypeOK DEF IInv, Typed
<1>2. TypeOK'
  <2>1. TypeOK' <=> Typed'
    BY DEF TypeOK, Typed, Sound
  <2> QED
    BY <1>1, <2>1
<1>3. ASSUME NEW s \in Thread
      PROVE  /\ At(s)' = At(s) \/ {At(s), At(s)'} \subseteq Asleep \/ (s = Timer /\ At(s) = "stop" /\ At(s)' = "done")
             /\ pc'[s] = "delete" <=> pc[s] = "delete"
             /\ At(s)' = "create" <=> At(s) = "create"
             /\ At(s)' \in {"mqrelease", "drop"} => At(s)' = At(s)
  BY DEF At, Calls, Asleep
<1>4. ASSUME NEW s \in Thread
      PROVE  Control(s)' /\ Hands(s)'
  <2>1. Control(s) /\ Hands(s)
    BY DEF IInv
  <2>2. CASE pc'[s] = pc[s]
    BY <2>1, <2>2 DEF Control, Hands, At
  <2>3. CASE pc[s] = "wait" /\ pc'[s] = "woken"
    BY <2>1, <2>3 DEF Control, Hands, At, Points, Calls, Asleep, Creating, Dispatching
  <2>4. CASE s = Timer /\ pc[s] = "stop" /\ pc'[s] = "done"
    BY <2>1, <2>4 DEF Control, Hands, At, Points, Calls, Asleep, Creating, Dispatching
  <2> QED
    BY <2>2, <2>3, <2>4
<1>5. \A s \in Thread : Referred(s)'
  BY <1>3 DEF IInv, Referred
<1>6. Messages' /\ (\A c \in Svc : Life(c)') /\ Apart'
  <2>1. mq' = mq /\ gmq' = gmq /\ ctx' = ctx /\ slot' = slot /\ q' = q /\ nq' = nq /\ dq' = dq
    OBVIOUS
  <2>2. Messages'
    BY <2>1 DEF IInv, Messages
  <2>3. \A c \in Svc : Life(c)'
    BY <2>1 DEF IInv, Life
  <2>4. Apart'
    <3>1. Listed' = Listed /\ \A s \in Thread : Held(s)' = Held(s)
      BY <2>1 DEF Listed, Held
    <3> QED
      BY <2>1, <3>1 DEF IInv, Apart
  <2> QED
    BY <2>2, <2>3, <2>4
<1>7. Settled'
  BY <1>3 DEF IInv, Settled, Listed
<1>8. RefExact' /\ TotalExact'
  <2>1. \A c \in Svc : Holders(c)' = Holders(c)
    BY <1>3 DEF Holders
  <2> QED
    BY <2>1 DEF IInv, RefExact, TotalExact
<1> QED
  BY <1>2, <1>4, <1>5, <1>6, <1>7, <1>8 DEF IInv

LEMMA ThreadStep ==
  ASSUME IInv, NEW t \in Thread, Step(t)
  PROVE  IInv'
<1>1. Before(t)
  BY TypedIsTypeOK DEF IInv, Before
<1>2. TypeOK' /\ Messages'
  <2>1. Typed' /\ Messages'
    BY <1>1, TypeStep DEF Before
  <2>2. TypeOK' <=> Typed'
    BY DEF TypeOK, Typed, Sound
  <2> QED
    BY <2>1, <2>2
<1>3. ASSUME NEW s \in Thread
      PROVE  Control(s)' /\ Hands(s)' /\ Referred(s)'
  <2>1. Control(s)' /\ Hands(s)'
    <3>1. CASE s = t
      BY <1>1, <3>1, Moves DEF Before
    <3>2. CASE s # t
      BY <1>1, <3>2, Stay, OthersStay DEF Before
    <3> QED
      BY <3>1, <3>2
  <2> QED
    BY <1>1, <2>1, ReferredStep
<1>4. \A c \in Svc : Life(c)'
  BY <1>1, LifeStep
<1>5. Apart' /\ Settled' /\ RefExact' /\ TotalExact'
  BY <1>1, ApartStep, SettledStep, RefStep, TotalStep DEF IInv
<1> QED
  BY <1>2, <1>3, <1>4, <1>5 DEF IInv

LEMMA InitIInv == Init => IInv
<1> SUFFICES ASSUME Init PROVE IInv
  OBVIOUS
<1> USE DEF Init
<1> DEFINE k == Pushed(NewQueue, Start)
<1>1. Start \in Msg
  BY MaxMsgNat DEF Start, Msg
<1>2. /\ Sound(k) /\ k.st = "live" /\ ~k.release /\ k.inGlobal
      /\ Pending(k) = Append(<<>>, Start)
  BY <1>1, NewQueueSound, PushAppends
<1>3. /\ Sound(NoQueue("none")) /\ Pending(NoQueue("none")) = <<>> /\ NoQueue("none").st = "none"
      /\ ~NoQueue("none").release /\ ~NoQueue("none").inGlobal /\ IsEmpty(NoQueue("none"))
  BY NoQueueSound, PendingMessages
<1>4. \A c \in Svc : IF c = Boot THEN mq[c] = k ELSE mq[c] = NoQueue("none")
  OBVIOUS
<1> HIDE DEF k
<1>5. Typed
  <2>1. mq \in [Svc -> Queue] /\ \A c \in Svc : Sound(mq[c])
    BY <1>2, <1>3, <1>4 DEF Sound
  <2>2. ctx \in [Svc -> Context]
    BY DEF Context, NoContext
  <2>3. gmq \in Seq(Svc)
    OBVIOUS
  <2>4. sent \in 0..MaxMsg /\ total \in Int /\ slot \subseteq Svc /\ quit \in BOOLEAN
    <3>1. sent \in 0..MaxMsg /\ total \in Int
      BY MaxMsgNat
    <3>2. slot \subseteq Svc
      BY BootService
    <3> QED
      BY <3>1, <3>2
  <2>5. /\ pc \in [Thread -> Points \cup Calls] /\ ret \in [Thread -> Points \cup {"none"}]
        /\ q \in [Thread -> SlotOrNil] /\ nq \in [Thread -> SlotOrNil] /\ cur \in [Thread -> SlotOrNil]
        /\ op \in [Thread -> SlotOrNil] /\ new \in [Thread -> SlotOrNil] /\ dq \in [Thread -> SlotOrNil]
        /\ dest \in [Thread -> SlotOrNil]
        /\ got \in [Thread -> Msg \cup {Nil}] /\ out \in [Thread -> Msg \cup {Nil}]
        /\ turn \in [Thread -> Nat] /\ batch \in [Thread -> Nat]
        /\ todo \in [Thread -> SUBSET Svc] /\ seen \in [Thread -> BOOLEAN]
    BY DEF Points, SlotOrNil
  <2> QED
    BY <2>1, <2>2, <2>3, <2>4, <2>5 DEF Typed
<1>6. Messages
  <2>1. <<>> \in Seq(Msg) /\ Append(<<>>, Start) \in Seq(Msg)
    BY <1>1, EmptySeq, AppendProperties
  <2>2. \A c \in Svc : Pending(mq[c]) \in Seq(Msg)
    BY <1>2, <1>3, <1>4, <2>1
  <2> QED
    BY <1>5, <2>2, MessagesAre DEF Messages, Typed
<1>7. ASSUME NEW t \in Thread
      PROVE  /\ pc[t] \in {"top", "tick"} /\ (pc[t] = "tick" <=> t = Timer) /\ ret[t] = "none"
             /\ q[t] = Nil /\ nq[t] = Nil /\ cur[t] = Nil /\ op[t] = Nil /\ new[t] = Nil /\ dq[t] = Nil
             /\ got[t] = Nil /\ out[t] = Nil /\ dest[t] = Nil
  OBVIOUS
<1>8. \A t \in Thread : Control(t) /\ Hands(t) /\ Referred(t)
  BY <1>7 DEF Control, Hands, Referred, At, Calls, Points, Asleep, Creating, Dispatching
<1>9. \A c \in Svc : IF c = Boot
                     THEN ctx[c].st = "live" /\ ctx[c].ref = 1 /\ ctx[c].handle = c /\ ctx[c].init
                     ELSE ctx[c].st = "none" /\ ctx[c].ref = 0 /\ ctx[c].handle = Nil /\ ~ctx[c].init
  BY DEF NoContext
<1>10. \A c \in Svc : Life(c)
  BY <1>2, <1>3, <1>4, <1>9 DEF Life
<1>11. gmq = <<Boot>> /\ Len(gmq) = 1 /\ gmq[1] = Boot /\ Listed = {Boot}
  BY DEF Listed
<1>12. \A t \in Thread : Held(t) = {}
  BY <1>7 DEF Held
<1>13. Apart
  <2>1. \A i, j \in 1..Len(gmq) : gmq[i] = gmq[j] => i = j
    BY <1>11
  <2>2. \A c \in Svc : (c \in Listed \/ \E t \in Thread : c \in Held(t))
                         <=> mq[c].st = "live" /\ (mq[c].inGlobal \/ mq[c].release)
    BY <1>2, <1>3, <1>4, <1>11, <1>12
  <2> QED
    BY <1>7, <1>12, <2>1, <2>2 DEF Apart
<1>14. Settled
  BY <1>7, <1>9, <1>11 DEF Settled, At, Calls
<1>15. RefExact
  <2>1. SUFFICES ASSUME NEW c \in Svc PROVE ctx[c].ref = Cardinality(Holders(c))
    BY DEF RefExact
  <2>2. CASE c = Boot
    <3>1. Holders(c) = {<<"slot", Boot>>}
      BY <1>7, <2>2 DEF Holders
    <3>2. Cardinality({<<"slot", Boot>>}) = 1
      BY FS_Singleton
    <3> QED
      BY <1>9, <2>2, <3>1, <3>2
  <2>3. CASE c # Boot
    <3>1. Holders(c) = {}
      BY <1>7, <2>3 DEF Holders
    <3> QED
      BY <1>9, <2>3, <3>1, FS_EmptySet
  <2> QED
    BY <2>2, <2>3
<1>16. TotalExact
  <2>1. {c \in Svc : ctx[c].st = "live" /\ ctx[c].handle # Nil} = {Boot}
    BY <1>9
  <2>2. Cardinality({Boot}) = 1
    BY FS_Singleton
  <2> QED
    BY <2>1, <2>2 DEF TotalExact
<1> QED
  BY <1>5, <1>6, <1>8, <1>10, <1>13, <1>14, <1>15, <1>16, TypedIsTypeOK DEF IInv

(* What the safety of the core rests on, as one inductive invariant: who has *)
(* a queue and who has a context at each point of the program of a thread,   *)
(* and how contexts and queues are created, retired and freed together       *)
(* (skynet_server.c, skynet_mq.c, skynet_start.c).                           *)
THEOREM CoreInvariant == Spec => []IInv
<1>1. Init => IInv
  BY InitIInv
<1>2. IInv /\ [Next]_vars => IInv'
  <2> SUFFICES ASSUME IInv, [Next]_vars PROVE IInv'
    OBVIOUS
  <2>1. CASE \E t \in Thread : Step(t)
    BY <2>1, ThreadStep
  <2>2. pc \in [Thread -> Points \cup Calls] /\ quit \in BOOLEAN
    BY TypedIsTypeOK DEF IInv, Typed
  <2>3. CASE UNCHANGED vars
    <3>1. UNCHANGED <<allButPc, pc, quit>>
      BY <2>3 DEF vars, serverVars, threadVars, allButPc, ctxVars, callVars
    <3> QED
      BY <2>2, <3>1, SignalStep
  <2>4. CASE TimerWakeup
    <3>1. PICK w \in Worker : pc[w] = "wait" /\ pc' = [pc EXCEPT ![w] = "woken"]
      BY <2>4 DEF TimerWakeup, Goto
    <3>2. UNCHANGED allButPc /\ UNCHANGED quit
      BY <2>4 DEF TimerWakeup, OnlyPc
    <3>3. pc' \in [Thread -> Points \cup Calls]
      BY <2>2, <3>1 DEF Points, Asleep, Thread
    <3>4. \A s \in Thread : pc'[s] = pc[s] \/ (pc[s] = "wait" /\ pc'[s] = "woken")
      BY <2>2, <3>1
    <3> QED
      BY <2>2, <3>2, <3>3, <3>4, SignalStep
  <2>5. CASE TimerQuit
    <3>1. UNCHANGED allButPc /\ quit' = TRUE
      BY <2>5 DEF TimerQuit
    <3>2. pc' \in [Thread -> Points \cup Calls]
      BY <2>2, <2>5 DEF TimerQuit, Points, Asleep
    <3>3. \A s \in Thread : \/ pc'[s] = pc[s]
                            \/ pc[s] = "wait" /\ pc'[s] = "woken"
                            \/ s = Timer /\ pc[s] = "stop" /\ pc'[s] = "done"
      BY <2>2, <2>5 DEF TimerQuit
    <3> QED
      BY <3>1, <3>2, <3>3, SignalStep
  <2> QED
    BY <2>1, <2>3, <2>4, <2>5, Steps DEF Signal
<1> QED
  BY <1>1, <1>2, PTL DEF Spec

(* The states of the core have the types of its fields.                      *)
THEOREM CoreTyped == Spec => []TypeOK
<1>1. IInv => TypeOK
  BY DEF IInv
<1> QED
  BY <1>1, CoreInvariant, PTL

LEMMA ApartOnePlace ==
  ASSUME IInv
  PROVE  OnePlace
<1>1. Apart /\ Listed \cap {Nil} = {}
  <2>1. \A i \in 1..Len(gmq) : gmq[i] \in Svc
    BY ElementOfSeq, TypedIsTypeOK DEF IInv, Typed
  <2> QED
    BY <2>1 DEF IInv, Listed
<1>2. SUFFICES ASSUME NEW c \in Svc
               PROVE  /\ \A a, b \in Places(c) : a = b
                      /\ Places(c) # {} <=> mq[c].st = "live" /\ (mq[c].inGlobal \/ mq[c].release)
  BY DEF OnePlace
<1>3. ASSUME NEW a \in Places(c)
      PROVE  \/ \E i \in 1..Len(gmq) : a = <<"gmq", i>> /\ gmq[i] = c
             \/ \E t \in Thread : a = <<"q", t>> /\ q[t] = c
             \/ \E t \in Thread : a = <<"nq", t>> /\ nq[t] = c
             \/ \E t \in Thread : a = <<"dq", t>> /\ dq[t] = c
  BY <1>3 DEF Places
<1>4. \A t \in Thread : nq[t] = c => dq[t] # c
  BY TypedIsTypeOK DEF IInv, Hands, Typed
<1>5. /\ \A t \in Thread : q[t] = c \/ nq[t] = c \/ dq[t] = c <=> c \in Held(t)
      /\ (\E i \in 1..Len(gmq) : gmq[i] = c) <=> c \in Listed
  BY DEF Held, Listed
<1>6. /\ c \in Listed => \A t \in Thread : c \notin Held(t)
      /\ \A t, u \in Thread : c \in Held(t) /\ c \in Held(u) => t = u
      /\ \A t \in Thread : /\ q[t] = c => nq[t] # c
                           /\ q[t] = c => dq[t] # c
      /\ \A i, j \in 1..Len(gmq) : gmq[i] = c /\ gmq[j] = c => i = j
      /\ (c \in Listed \/ \E t \in Thread : c \in Held(t))
            <=> mq[c].st = "live" /\ (mq[c].inGlobal \/ mq[c].release)
  BY <1>1 DEF Apart
<1>7. ASSUME NEW a \in Places(c), NEW b \in Places(c)
      PROVE  a = b
  <2>1. CASE \E i \in 1..Len(gmq) : a = <<"gmq", i>> /\ gmq[i] = c
    BY <1>3, <1>5, <1>6, <1>7, <2>1
  <2>2. CASE \E t \in Thread : a = <<"q", t>> /\ q[t] = c
    BY <1>3, <1>5, <1>6, <1>7, <2>2
  <2>3. CASE \E t \in Thread : a = <<"nq", t>> /\ nq[t] = c
    BY <1>3, <1>4, <1>5, <1>6, <1>7, <2>3
  <2>4. CASE \E t \in Thread : a = <<"dq", t>> /\ dq[t] = c
    BY <1>3, <1>4, <1>5, <1>6, <1>7, <2>4
  <2> QED
    BY <1>3, <2>1, <2>2, <2>3, <2>4
<1>8. Places(c) # {} <=> c \in Listed \/ \E t \in Thread : c \in Held(t)
  <2>1. ASSUME NEW i \in 1..Len(gmq), gmq[i] = c PROVE <<"gmq", i>> \in Places(c)
    BY <2>1 DEF Places
  <2>2. ASSUME NEW t \in Thread
        PROVE  /\ q[t] = c => <<"q", t>> \in Places(c)
               /\ nq[t] = c => <<"nq", t>> \in Places(c)
               /\ dq[t] = c => <<"dq", t>> \in Places(c)
    BY DEF Places
  <2> QED
    BY <1>3, <1>5, <2>1, <2>2
<1> QED
  BY <1>6, <1>7, <1>8

(* Two workers never hold one queue, a queue is never twice in the global    *)
(* queue, and one that has work or is to be released is never forgotten      *)
(* (skynet_mq.c:88, 168, 205, 226; skynet_server.c:305).                     *)
THEOREM QueuesInOnePlace == Spec => []OnePlace
<1>1. IInv => OnePlace
  BY ApartOnePlace
<1> QED
  BY <1>1, CoreInvariant, PTL

(* The reference count of a context is the number of those who refer to it.  *)
(* So skynet_context_release frees a context when the last one lets go, and  *)
(* not before.                                                               *)
THEOREM ReferencesCounted == Spec => []RefExact
<1>1. IInv => RefExact
  BY DEF IInv
<1> QED
  BY <1>1, CoreInvariant, PTL

(* No thread uses a context or a queue that is freed, and the assertions of  *)
(* skynet_server.c:257 and 336 and of skynet_mq.c:224 hold.                  *)
THEOREM NothingDangles == Spec => []NoDangling
<1>1. ASSUME IInv PROVE NoDangling
  <2> USE DEF Calls, Asleep, Creating, Dispatching, Points
  <2>1. SUFFICES ASSUME NEW t \in Thread
                 PROVE  /\ \A c \in {q[t], nq[t], dq[t]} \ {Nil} : mq[c].st = "live"
                        /\ \A c \in {cur[t], op[t], new[t]} \ {Nil} : ctx[c].st = "live"
                        /\ pc[t] = "push" => mq[op[t]].st = "live"
                        /\ pc[t] \in {"pop", "length", "handler", "swap", "putback"} => cur[t] = q[t]
                        /\ pc[t] = "handler" => ctx[cur[t]].init
                        /\ pc[t] = "delete" => ~mq[op[t]].release
    BY DEF NoDangling
  <2>2. /\ Typed /\ Control(t) /\ Hands(t) /\ Referred(t) /\ Apart /\ \A c \in Svc : Life(c)
    BY <1>1, TypedIsTypeOK DEF IInv
  <2>3. /\ Held(t) \subseteq Svc
        /\ cur[t] # Nil => cur[t] \in Svc
        /\ op[t] # Nil => op[t] \in Svc
        /\ new[t] # Nil => new[t] \in Svc
    BY <2>2 DEF Typed, Held, SlotOrNil
  <2>4. \A c \in {q[t], nq[t], dq[t]} \ {Nil} : mq[c].st = "live"
    BY <2>2, <2>3 DEF Apart, Held
  <2>5. \A c \in {cur[t], op[t], new[t]} \ {Nil} : ctx[c].st = "live"
    BY <2>2, <2>3 DEF Referred, Life
  <2>6. pc[t] \in {"push", "delete"} => mq[op[t]].st = "live" /\ ~mq[op[t]].release
    BY <2>2, <2>3 DEF Control, Referred, Life
  <2>7. pc[t] \in {"pop", "length", "handler", "swap", "putback"} => cur[t] = q[t] /\ cur[t] \in Svc
    BY <2>2, Hand
  <2>8. pc[t] = "handler" => ctx[cur[t]].init
    BY <2>2, <2>7 DEF Referred
  <2> QED
    BY <2>4, <2>5, <2>6, <2>7, <2>8
<1> QED
  BY <1>1, CoreInvariant, PTL

(* total is the number of contexts that have a handle: the timer thread ends *)
(* the program when, and only when, there is none (skynet_start.c:45, 135).  *)
THEOREM ContextsCounted == Spec => []TotalExact
<1>1. IInv => TotalExact
  BY DEF IInv
<1> QED
  BY <1>1, CoreInvariant, PTL

-----------------------------------------------------------------------------
(* The refinement: the message in a service's handler                        *)

\* At most one thread serves: then it is its message that is served.
LEMMA ServingOf ==
  ASSUME NEW W, NEW C, NEW G, NEW c, NEW H, NEW v,
         H = {t \in W : C[t] = c /\ G[t] # Nil},
         v = (IF H = {} THEN Nil ELSE G[CHOOSE t \in H : TRUE]),
         \A t, u \in W : C[t] = c /\ C[u] = c => t = u
  PROVE  /\ \A t \in W : C[t] = c /\ G[t] # Nil => v = G[t]
         /\ (\A t \in W : ~(C[t] = c /\ G[t] # Nil)) => v = Nil
<1>1. ASSUME NEW t \in W, C[t] = c, G[t] # Nil
      PROVE  v = G[t]
  <2>1. H = {t}
    BY <1>1
  <2>2. (CHOOSE u \in H : TRUE) = t
    BY <2>1
  <2> QED
    BY <2>1, <2>2
<1>2. ASSUME \A t \in W : ~(C[t] = c /\ G[t] # Nil)
      PROVE  v = Nil
  BY <1>2
<1> QED
  BY <1>1, <1>2

\* The same of the state and of the next one.
LEMMA ServingNow ==
  ASSUME IInv, NEW c \in Svc
  PROVE  /\ \A t \in Thread : cur[t] = c => t \in Worker
         /\ \A t \in Thread : cur[t] = c /\ got[t] # Nil => MailServing(c) = got[t]
         /\ (\A t \in Thread : ~(cur[t] = c /\ got[t] # Nil)) => MailServing(c) = Nil
<1>1. ASSUME NEW t \in Thread, cur[t] = c
      PROVE  t \in Worker /\ c \in Held(t)
  <2>1. At(t) \in Dispatching \cup {"mqrelease", "drop"} /\ q[t] = c
    BY <1>1 DEF IInv, Hands
  <2>2. t # Timer
    BY <2>1 DEF IInv, Control, Dispatching, Creating
  <2> QED
    BY <2>1, <2>2 DEF Thread, Held
<1>2. \A t, u \in Worker : cur[t] = c /\ cur[u] = c => t = u
  BY <1>1 DEF IInv, Apart, Thread
<1> DEFINE H == InHandler(c)
           v == MailServing(c)
<1>3. H = {t \in Worker : cur[t] = c /\ got[t] # Nil} /\ v = IF H = {} THEN Nil ELSE got[CHOOSE t \in H : TRUE]
  BY DEF InHandler, MailServing
<1> HIDE DEF H, v
<1>4. /\ \A t \in Worker : cur[t] = c /\ got[t] # Nil => v = got[t]
      /\ (\A t \in Worker : ~(cur[t] = c /\ got[t] # Nil)) => v = Nil
  BY <1>2, <1>3, ServingOf
<1> QED
  BY <1>1, <1>4 DEF v, Thread

LEMMA ServingNext ==
  ASSUME IInv', NEW c \in Svc
  PROVE  /\ \A t \in Thread : cur'[t] = c /\ got'[t] # Nil => MailServing(c)' = got'[t]
         /\ (\A t \in Thread : ~(cur'[t] = c /\ got'[t] # Nil)) => MailServing(c)' = Nil
<1>1. ASSUME NEW t \in Thread, cur'[t] = c
      PROVE  t \in Worker /\ c \in Held(t)'
  <2>1. At(t)' \in Dispatching \cup {"mqrelease", "drop"} /\ q'[t] = c
    BY <1>1 DEF IInv, Hands
  <2>2. t # Timer
    BY <2>1 DEF IInv, Control, Dispatching, Creating
  <2> QED
    BY <2>1, <2>2 DEF Thread, Held
<1>2. \A t, u \in Worker : cur'[t] = c /\ cur'[u] = c => t = u
  BY <1>1 DEF IInv, Apart, Thread
<1> DEFINE H == InHandler(c)'
           v == MailServing(c)'
           C == cur'
           G == got'
<1>3. H = {t \in Worker : C[t] = c /\ G[t] # Nil} /\ v = IF H = {} THEN Nil ELSE G[CHOOSE t \in H : TRUE]
  BY DEF InHandler, MailServing
<1>4. \A t, u \in Worker : C[t] = c /\ C[u] = c => t = u
  BY <1>2
<1> HIDE DEF H, v, C, G
<1>5. /\ \A t \in Worker : C[t] = c /\ G[t] # Nil => v = G[t]
      /\ (\A t \in Worker : ~(C[t] = c /\ G[t] # Nil)) => v = Nil
  BY <1>3, <1>4, ServingOf
<1> QED
  BY <1>1, <1>5 DEF v, C, G, Thread

\* What is served changes only by what the thread of the step does.
LEMMA ServingSame ==
  ASSUME IInv, IInv', NEW t \in Thread, \A s \in Thread : s # t => Unmoved(s), NEW c \in Svc,
         cur'[t] = c /\ got'[t] # Nil => cur[t] = c /\ got[t] = got'[t],
         cur[t] = c /\ got[t] # Nil => cur'[t] = c /\ got[t] = got'[t]
  PROVE  MailServing(c)' = MailServing(c)
<1>1. CASE \E s \in Thread : cur[s] = c /\ got[s] # Nil
  <2>1. PICK s \in Thread : cur[s] = c /\ got[s] # Nil
    BY <1>1
  <2>2. cur'[s] = c /\ got'[s] = got[s]
    BY <2>1 DEF Unmoved
  <2> QED
    BY <2>1, <2>2, ServingNow, ServingNext
<1>2. CASE \A s \in Thread : ~(cur[s] = c /\ got[s] # Nil)
  <2>1. \A s \in Thread : ~(cur'[s] = c /\ got'[s] # Nil)
    BY <1>2 DEF Unmoved
  <2> QED
    BY <1>2, <2>1, ServingNow, ServingNext
<1> QED
  BY <1>1, <1>2

-----------------------------------------------------------------------------
(* From services to mailboxes                                                *)

\* Nothing happens to the mailbox of d.
Same(d) ==
    /\ MailState(d)' = MailState(d) /\ Pending(mq'[d]) = Pending(mq[d])
    /\ MailServing(d)' = MailServing(d)

\* Nothing happens to the others.
Only(c) == \A d \in Svc : d # c => Same(d)

LEMMA NoBox ==
  ASSUME \A d \in Svc : Same(d)
  PROVE  UNCHANGED Mail!boxVars
BY DEF Same, Mail!boxVars

LEMMA BoxOpens ==
  ASSUME NEW c \in Svc, Only(c), MailState(c) = "unborn", MailState(c)' = "open",
         Pending(mq'[c]) = Pending(mq[c]), MailServing(c)' = MailServing(c)
  PROVE  Mail!Open(c)
BY DEF Only, Same, Mail!Open

LEMMA BoxPosts ==
  ASSUME NEW c \in Svc, Only(c), NEW m \in Msg, MailState(c) \in {"open", "closing"}, MailState(c)' = MailState(c),
         Pending(mq'[c]) = Append(Pending(mq[c]), m), MailServing(c)' = MailServing(c)
  PROVE  Mail!Post(c, m)
BY DEF Only, Same, Mail!Post

LEMMA BoxServes ==
  ASSUME NEW c \in Svc, Only(c), MailState(c) \in {"open", "closing"}, MailState(c)' = MailState(c),
         MailServing(c) = Nil, Pending(mq[c]) # <<>>,
         MailServing(c)' = Head(Pending(mq[c])), Pending(mq'[c]) = Tail(Pending(mq[c]))
  PROVE  Mail!Serve(c)
BY DEF Only, Same, Mail!Serve

LEMMA BoxFinishes ==
  ASSUME NEW c \in Svc, Only(c), MailState(c)' = MailState(c), Pending(mq'[c]) = Pending(mq[c]),
         MailServing(c) # Nil, MailServing(c)' = Nil
  PROVE  Mail!Finish(c)
BY DEF Only, Same, Mail!Finish

LEMMA BoxCloses ==
  ASSUME NEW c \in Svc, Only(c), MailState(c) = "open", MailState(c)' = "closing",
         Pending(mq'[c]) = Pending(mq[c]), MailServing(c)' = MailServing(c)
  PROVE  Mail!Close(c)
BY DEF Only, Same, Mail!Close

LEMMA BoxSeals ==
  ASSUME NEW c \in Svc, Only(c), MailState(c) = "closing", MailState(c)' = "sealed",
         Pending(mq'[c]) = Pending(mq[c]), MailServing(c) = Nil, MailServing(c)' = Nil
  PROVE  Mail!Seal(c)
BY DEF Only, Same, Mail!Seal

LEMMA BoxBounces ==
  ASSUME NEW c \in Svc, Only(c), MailState(c) = "sealed", MailState(c)' = "sealed", Pending(mq[c]) # <<>>,
         Pending(mq'[c]) = Tail(Pending(mq[c])), MailServing(c)' = MailServing(c)
  PROVE  Mail!Bounce(c)
BY DEF Only, Same, Mail!Bounce

LEMMA BoxVanishes ==
  ASSUME NEW c \in Svc, Only(c), MailState(c) = "sealed", MailState(c)' = "gone", Pending(mq[c]) = <<>>,
         Pending(mq'[c]) = <<>>, MailServing(c)' = MailServing(c)
  PROVE  Mail!Vanish(c)
BY DEF Only, Same, Mail!Vanish

-----------------------------------------------------------------------------
(* What a step does to the mailboxes                                         *)

\* Before and after a step of thread t.
Around(t) == IInv /\ IInv' /\ Step(t)

LEMMA AroundParts ==
  ASSUME NEW t \in Thread, Around(t)
  PROVE  /\ Before(t) /\ Typed /\ Typed' /\ Messages /\ RefExact
         /\ \A s \in Thread : Control(s) /\ Hands(s) /\ Referred(s)
         /\ Control(t)' /\ Hands(t)'
         /\ \A c \in Svc : Life(c)
         /\ \A s \in Thread : s # t => Unmoved(s)
<1>1. Before(t) /\ Typed
  BY TypedIsTypeOK DEF IInv, Before, Around
<1>2. Typed'
  <2>1. TypeOK' <=> Typed'
    BY DEF TypeOK, Typed, Sound
  <2> QED
    BY <2>1 DEF Around, IInv
<1> QED
  BY <1>1, <1>2, OthersStay DEF IInv, Around

\* A mailbox is the same when nothing it is made of changes.
LEMMA SameBox ==
  ASSUME NEW t \in Thread, Around(t), NEW d \in Svc,
         mq'[d].st = mq[d].st, mq'[d].release = mq[d].release, Pending(mq'[d]) = Pending(mq[d]),
         mq[d].st # "none" => (ctx'[d].st = ctx[d].st /\ (d \in slot' <=> d \in slot)),
         cur'[t] = d /\ got'[t] # Nil => cur[t] = d /\ got[t] = got'[t],
         cur[t] = d /\ got[t] # Nil => cur'[t] = d /\ got[t] = got'[t]
  PROVE  Same(d)
<1>1. MailState(d)' = MailState(d)
  BY DEF MailState
<1>2. MailServing(d)' = MailServing(d)
  BY AroundParts, ServingSame DEF Around
<1> QED
  BY <1>1, <1>2 DEF Same

\* A worker takes up or lays down a service without a message in its hands.
LEMMA HandsSame ==
  ASSUME NEW t \in Thread, Around(t), UNCHANGED got, cur'[t] = cur[t] \/ got[t] = Nil
  PROVE  \A d \in Svc : /\ cur'[t] = d /\ got'[t] # Nil => cur[t] = d /\ got[t] = got'[t]
                        /\ cur[t] = d /\ got[t] # Nil => cur'[t] = d /\ got[t] = got'[t]
OBVIOUS

\* The steps that are none of a mailbox.
Aside(t) ==
    \/ Idle(t) \/ Send(t) \/ TakeLength(t) \/ Abort(t) \/ RetireRound(t) \/ DropQueue(t)
    \/ Fetch(t) \/ Grab(t) \/ PopNothing(t) \/ Swap(t) \/ PutBack(t) \/ KeepQueue(t)
    \/ Register(t) \/ InitOk(t) \/ InitFail(t) \/ DecRef(t) \/ FindReceiver(t)

LEMMA AsideKeeps ==
  ASSUME NEW t \in Thread, Around(t), Aside(t), NEW d \in Svc
  PROVE  /\ mq'[d].st = mq[d].st /\ mq'[d].release = mq[d].release
         /\ Pending(mq'[d]) = Pending(mq[d])
         /\ mq[d].st # "none" => (ctx'[d].st = ctx[d].st /\ (d \in slot' <=> d \in slot))
         /\ UNCHANGED got /\ (cur'[t] = cur[t] \/ got[t] = Nil)
<1> USE DEF Calls, Asleep, Creating, Dispatching, Points, callVars, ctxVars
<1>1. /\ Typed /\ Control(t) /\ Hands(t) /\ Life(d) /\ mq \in [Svc -> Queue] /\ ctx \in [Svc -> Context]
  BY AroundParts DEF Typed
<1>2. CASE Idle(t)
  BY <1>2 DEF Idle, Quit, KeepOn, FallAsleep, Wait, WakeUp, TimerAbort, OnlyPc, allButPc
<1>3. CASE Send(t)
  BY <1>3 DEF Send, HandlerSend, InitSend, TimerSend
<1>4. CASE TakeLength(t) \/ Abort(t) \/ RetireRound(t) \/ DropQueue(t)
  BY <1>4 DEF TakeLength, Abort, RetireRound, DropQueue
<1>5. CASE Fetch(t) \/ KeepQueue(t) \/ InitFail(t)
  BY <1>5 DEF Fetch, KeepQueue, InitFail
<1>6. CASE Swap(t) \/ PutBack(t)
  <2>1. got[t] = Nil
    BY <1>1, <1>6, Hand DEF Swap, PutBack
  <2> QED
    BY <1>6, <2>1 DEF Swap, PutBack
<1>7. CASE Grab(t)
  <2>1. got[t] = Nil
    BY <1>1, <1>7 DEF Grab, Hands, At
  <2>2. ctx'[d].st = ctx[d].st
    BY <1>1, <1>7 DEF Grab, Context
  <2> QED
    BY <1>7, <2>1, <2>2 DEF Grab
<1>8. CASE PopNothing(t)
  <2>1. got[t] = Nil /\ q[t] \in Svc
    BY <1>1, <1>8, Hand DEF PopNothing
  <2>2. UNCHANGED <<ctx, slot, got>> /\ MqPopNothing(q[t])
    BY <1>8 DEF PopNothing
  <2>3. CASE d = q[t]
    BY <1>1, <2>1, <2>2, <2>3, LeaveQueue
  <2>4. CASE d # q[t]
    BY <1>1, <2>1, <2>2, <2>4, LeaveQueue DEF Becomes
  <2> QED
    BY <2>3, <2>4
<1>9. CASE Register(t)
  <2>1. PICK c \in Svc : /\ ctx[c].st = "none" /\ slot' = slot \cup {c}
                         /\ ctx' = [ctx EXCEPT ![c] = [st |-> "live", ref |-> 2, handle |-> Nil, init |-> FALSE]]
    BY <1>9 DEF Register
  <2>2. d # c => ctx'[d] = ctx[d]
    BY <1>1, <2>1
  <2>3. d = c => mq[d].st = "none"
    BY <1>1, <2>1 DEF Life
  <2> QED
    BY <1>9, <2>1, <2>2, <2>3 DEF Register
<1>10. CASE InitOk(t) \/ DecRef(t) \/ FindReceiver(t)
  <2>1. ctx'[d].st = ctx[d].st
    BY <1>1, <1>10 DEF InitOk, DecRef, FindReceiver, Context
  <2> QED
    BY <1>10, <2>1 DEF InitOk, DecRef, FindReceiver
<1> QED
  BY <1>2, <1>3, <1>4, <1>5, <1>6, <1>7, <1>8, <1>9, <1>10 DEF Aside

\* A step that changes one queue only, and no thread's handler.
LEMMA OneQueueOnly ==
  ASSUME NEW t \in Thread, Around(t), NEW c \in Svc, Becomes(c, mq'[c]),
         \A d \in Svc : d # c => ctx'[d].st = ctx[d].st /\ (d \in slot' <=> d \in slot),
         \A d \in Svc : d # c => /\ cur'[t] = d /\ got'[t] # Nil => cur[t] = d /\ got[t] = got'[t]
                                 /\ cur[t] = d /\ got[t] # Nil => cur'[t] = d /\ got[t] = got'[t]
  PROVE  Only(c)
<1> SUFFICES ASSUME NEW d \in Svc, d # c PROVE Same(d)
  BY DEF Only
<1>1. mq'[d] = mq[d]
  BY DEF Becomes
<1> QED
  BY <1>1, SameBox

\* A worker that neither begins nor ends a handler serves what it served.
LEMMA ServesOn ==
  ASSUME NEW t \in Thread, Around(t), UNCHANGED <<cur, got>>, NEW c \in Svc
  PROVE  MailServing(c)' = MailServing(c)
BY AroundParts, ServingSame DEF Around

LEMMA PopBox ==
  ASSUME NEW t \in Thread, Around(t), Pop(t)
  PROVE  Mail!BoxNext
<1> USE DEF Calls, Asleep, Creating, Dispatching, Points, callVars, ctxVars
<1>1. Typed /\ Messages /\ Control(t) /\ Hands(t)
  BY AroundParts
<1>2. /\ q[t] \in Svc /\ cur[t] = q[t] /\ got[t] = Nil /\ MqPop(q[t])
      /\ UNCHANGED <<ctx, slot, cur>> /\ got'[t] = Oldest(mq[q[t]])
  BY <1>1, Hand DEF Pop, Typed
<1>3. PICK c \in Svc : c = q[t]
  BY <1>2
<1>4. /\ Becomes(c, mq'[c]) /\ mq'[c].st = mq[c].st /\ mq'[c].release = mq[c].release
      /\ Pending(mq[c]) # <<>> /\ got'[t] = Head(Pending(mq[c])) /\ Pending(mq'[c]) = Tail(Pending(mq[c]))
  BY <1>1, <1>2, <1>3, PopQueue
<1>5. Only(c)
  BY <1>2, <1>3, <1>4, OneQueueOnly
<1>6. /\ ctx[c].st = "live" /\ mq[c].st = "live" /\ ~mq[c].release
  BY <1>2, <1>3, AroundParts DEF Referred, Life
<1>7. MailState(c) \in {"open", "closing"} /\ MailState(c)' = MailState(c)
  BY <1>2, <1>4, <1>6 DEF MailState
<1>8. got'[t] \in Msg /\ got'[t] # Nil
  BY <1>1, <1>2, <1>3, OldestMessage
<1>9. MailServing(c)' = got'[t]
  BY <1>2, <1>3, <1>8, ServingNext DEF Around
<1>10. MailServing(c) = Nil
  <2>1. \A s \in Thread : cur[s] = c => s = t
    <3>1. \A s \in Thread : cur[s] = c => c \in Held(s)
      BY AroundParts DEF Hands, Held
    <3> QED
      BY <1>2, <1>3, <3>1 DEF Around, IInv, Apart
  <2> QED
    BY <1>2, <2>1, ServingNow DEF Around
<1>11. Mail!Serve(c)
  BY <1>4, <1>5, <1>7, <1>9, <1>10, BoxServes
<1> QED
  BY <1>11 DEF Mail!BoxNext

LEMMA ReturnBox ==
  ASSUME NEW t \in Thread, Around(t), Return(t)
  PROVE  Mail!BoxNext
<1> USE DEF Calls, Asleep, Creating, Dispatching, Points, callVars, ctxVars
<1>1. Typed /\ Control(t) /\ Hands(t)
  BY AroundParts
<1>2. /\ q[t] \in Svc /\ cur[t] = q[t] /\ got[t] \in Msg
      /\ UNCHANGED <<mq, ctx, slot, cur>> /\ got'[t] = Nil
  <2>1. q[t] \in Svc /\ cur[t] = q[t] /\ got[t] \in Msg
    BY <1>1, Hand DEF Return
  <2> QED
    BY <1>1, <2>1 DEF Return, Typed
<1>3. PICK c \in Svc : c = q[t]
  BY <1>2
<1>4. Only(c)
  <2> SUFFICES ASSUME NEW d \in Svc, d # c PROVE Same(d)
    BY DEF Only
  <2> QED
    BY <1>2, <1>3, SameBox
<1>5. MailState(c)' = MailState(c)
  BY <1>2 DEF MailState
<1>6. MailServing(c) = got[t] /\ got[t] # Nil
  BY <1>2, <1>3, ServingNow DEF Around
<1>7. MailServing(c)' = Nil
  <2>1. \A s \in Thread : cur'[s] = c => s = t
    <3>1. \A s \in Thread : cur'[s] = cur[s] /\ (cur[s] = c => c \in Held(s))
      BY <1>2, AroundParts DEF Hands, Held
    <3> QED
      BY <1>2, <1>3, <3>1 DEF Around, IInv, Apart
  <2> QED
    BY <1>2, <2>1, ServingNext DEF Around
<1>8. Mail!Finish(c)
  BY <1>2, <1>4, <1>5, <1>6, <1>7, BoxFinishes
<1> QED
  BY <1>8 DEF Mail!BoxNext

LEMMA PushBox ==
  ASSUME NEW t \in Thread, Around(t), Push(t)
  PROVE  Mail!BoxNext
<1> USE DEF Calls, Asleep, Creating, Dispatching, Points, callVars, ctxVars
<1>1. Typed /\ Control(t) /\ Hands(t)
  BY AroundParts
<1>2. op[t] \in Svc /\ out[t] \in Msg /\ MqPush(op[t], out[t]) /\ UNCHANGED <<ctx, slot, cur, got>>
  BY <1>1, Hand DEF Push
<1>3. PICK c \in Svc, m \in Msg : c = op[t] /\ m = out[t]
  BY <1>2
<1>4. /\ Becomes(c, mq'[c]) /\ mq'[c].st = mq[c].st /\ mq'[c].release = mq[c].release
      /\ Pending(mq'[c]) = Append(Pending(mq[c]), m)
  BY <1>1, <1>2, <1>3, PushQueue
<1>5. Only(c)
  BY <1>2, <1>4, OneQueueOnly
<1>6. /\ ctx[c].st = "live" /\ mq[c].st = "live" /\ ~mq[c].release
  BY <1>2, <1>3, AroundParts DEF Referred, Life
<1>7. MailState(c) \in {"open", "closing"} /\ MailState(c)' = MailState(c)
  BY <1>2, <1>4, <1>6 DEF MailState
<1>8. MailServing(c)' = MailServing(c)
  BY <1>2, ServesOn
<1>9. Mail!Post(c, m)
  BY <1>4, <1>5, <1>7, <1>8, BoxPosts
<1> QED
  BY <1>9 DEF Mail!BoxNext

LEMMA CreateBox ==
  ASSUME NEW t \in Thread, Around(t), Create(t)
  PROVE  Mail!BoxNext
<1> USE DEF Calls, Asleep, Creating, Dispatching, Points, callVars, ctxVars
<1>1. Typed /\ Control(t) /\ Hands(t)
  BY AroundParts
<1>2. /\ new[t] \in Svc /\ mq' = [mq EXCEPT ![new[t]] = NewQueue] /\ UNCHANGED <<slot, cur, got>>
      /\ ctx' = [ctx EXCEPT ![new[t]].handle = new[t]]
      /\ ctx[new[t]].handle = Nil /\ ctx[new[t]].st = "live"
  BY <1>1, AroundParts, Hand DEF Create, Referred, At
<1>3. PICK c \in Svc : c = new[t]
  BY <1>2
<1>4. /\ Becomes(c, mq'[c]) /\ mq'[c] = NewQueue
  BY <1>1, <1>2, <1>3, OneQueue, NewQueueSound DEF Typed
<1>5. \A d \in Svc : ctx'[d].st = ctx[d].st
  BY <1>1, <1>2 DEF Typed, Context
<1>6. Only(c)
  BY <1>2, <1>4, <1>5, OneQueueOnly
<1>7. mq[c].st = "none" /\ c \in slot /\ IsEmpty(mq[c]) /\ Sound(mq[c])
  BY <1>1, <1>2, <1>3, AroundParts DEF Life, Typed
<1>8. MailState(c) = "unborn" /\ MailState(c)' = "open"
  <2>1. mq'[c].st = "live" /\ ~mq'[c].release /\ ctx'[c].st = "live" /\ c \in slot'
    BY <1>2, <1>3, <1>4, <1>5, <1>7, NewQueueSound
  <2> QED
    BY <1>7, <2>1 DEF MailState
<1>9. Pending(mq'[c]) = Pending(mq[c])
  BY <1>4, <1>7, NewQueueSound, PendingMessages
<1>10. MailServing(c)' = MailServing(c)
  BY <1>2, ServesOn
<1>11. Mail!Open(c)
  BY <1>6, <1>8, <1>9, <1>10, BoxOpens
<1> QED
  BY <1>11 DEF Mail!BoxNext

LEMMA RetireBox ==
  ASSUME NEW t \in Thread, Around(t), Kill(t) \/ Unregister(t) \/ RetireOne(t)
  PROVE  Mail!BoxNext \/ UNCHANGED Mail!boxVars
<1> USE DEF Calls, Asleep, Creating, Dispatching, Points, callVars, ctxVars
<1>1. Typed /\ Control(t) /\ Hands(t)
  BY AroundParts
<1>2. /\ UNCHANGED <<mq, ctx, cur, got>>
      /\ slot' = slot \/ \E h \in Svc : Found(h) /\ slot' = slot \ {h}
  BY <1>1, Hand DEF Kill, Unregister, RetireOne, Retire, Known, Typed
<1>3. CASE slot' = slot
  <2>1. \A d \in Svc : Same(d)
    BY <1>2, <1>3, SameBox
  <2> QED
    BY <2>1, NoBox
<1>4. CASE \E h \in Svc : Found(h) /\ slot' = slot \ {h}
  <2>1. PICK c \in Svc : Found(c) /\ slot' = slot \ {c}
    BY <1>4
  <2>2. Only(c)
    <3> SUFFICES ASSUME NEW d \in Svc, d # c PROVE Same(d)
      BY DEF Only
    <3> QED
      BY <1>2, <2>1, SameBox
  <2>3. mq[c].st = "live" /\ ~mq[c].release /\ ctx[c].st = "live" /\ c \in slot /\ c \notin slot'
    BY <2>1, AroundParts DEF Found, Life
  <2>4. MailState(c) = "open" /\ MailState(c)' = "closing"
    BY <1>2, <2>3 DEF MailState
  <2>5. MailServing(c)' = MailServing(c)
    BY <1>2, ServesOn
  <2>6. Mail!Close(c)
    BY <1>2, <2>2, <2>4, <2>5, BoxCloses
  <2> QED
    BY <2>6 DEF Mail!BoxNext
<1> QED
  BY <1>2, <1>3, <1>4

LEMMA DeleteBox ==
  ASSUME NEW t \in Thread, Around(t), DeleteContext(t)
  PROVE  Mail!BoxNext
<1> USE DEF Calls, Asleep, Creating, Dispatching, Points, callVars, ctxVars
<1>1. Typed /\ Control(t) /\ Hands(t) /\ RefExact
  BY AroundParts
<1>2. /\ op[t] \in Svc /\ MqMarkRelease(op[t]) /\ UNCHANGED <<slot, cur, got>>
      /\ ctx' = [ctx EXCEPT ![op[t]] = NoContext("freed")]
      /\ ctx[op[t]].handle # Nil /\ ctx[op[t]].ref = 0
  BY <1>1, AroundParts, Hand DEF DeleteContext, Referred
<1>3. PICK c \in Svc : c = op[t]
  BY <1>2
<1>4. /\ Becomes(c, mq'[c]) /\ mq'[c].st = mq[c].st /\ mq'[c].release
      /\ Pending(mq'[c]) = Pending(mq[c])
  BY <1>1, <1>2, <1>3, MarkQueue
<1>5. /\ ctx'[c].st = "freed" /\ \A d \in Svc : d # c => ctx'[d].st = ctx[d].st
  BY <1>1, <1>2, <1>3 DEF Typed, NoContext
<1>6. Only(c)
  BY <1>2, <1>4, <1>5, OneQueueOnly
<1>7. mq[c].st = "live" /\ ~mq[c].release /\ ctx[c].st = "live"
  BY <1>2, <1>3, AroundParts DEF Life
<1>8. c \notin slot /\ \A s \in Thread : cur[s] # c
  BY <1>1, <1>2, <1>3, RefPositive
<1>9. MailState(c) = "closing" /\ MailState(c)' = "sealed"
  BY <1>4, <1>5, <1>7, <1>8 DEF MailState
<1>10. MailServing(c) = Nil /\ MailServing(c)' = Nil
  <2>1. MailServing(c) = Nil
    BY <1>8, ServingNow DEF Around
  <2>2. \A s \in Thread : cur'[s] # c
    BY <1>2, <1>8
  <2> QED
    BY <2>1, <2>2, ServingNext DEF Around
<1>11. Mail!Seal(c)
  BY <1>4, <1>6, <1>9, <1>10, BoxSeals
<1> QED
  BY <1>11 DEF Mail!BoxNext

LEMMA DropBox ==
  ASSUME NEW t \in Thread, Around(t), DropMessage(t)
  PROVE  Mail!BoxNext
<1> USE DEF Calls, Asleep, Creating, Dispatching, Points, callVars, ctxVars
<1>1. Typed /\ Control(t) /\ Hands(t)
  BY AroundParts
<1>2. dq[t] \in Svc /\ MqPop(dq[t]) /\ UNCHANGED <<ctx, slot, cur, got>> /\ pc[t] = "drop"
  BY <1>1, Hand DEF DropMessage
<1>3. PICK c \in Svc : c = dq[t]
  BY <1>2
<1>4. /\ Becomes(c, mq'[c]) /\ mq'[c].st = mq[c].st /\ mq'[c].release = mq[c].release
      /\ Pending(mq[c]) # <<>> /\ Pending(mq'[c]) = Tail(Pending(mq[c]))
  BY <1>1, <1>2, <1>3, PopQueue
<1>5. Only(c)
  BY <1>2, <1>4, OneQueueOnly
<1>6. mq[c].st = "live" /\ mq[c].release
  <2>1. mq[c].release
    BY <1>2, <1>3 DEF Around, IInv, Settled, At
  <2> QED
    BY <2>1, AroundParts DEF Life
<1>7. MailState(c) = "sealed" /\ MailState(c)' = "sealed"
  BY <1>2, <1>4, <1>6 DEF MailState
<1>8. MailServing(c)' = MailServing(c)
  BY <1>2, ServesOn
<1>9. Mail!Bounce(c)
  BY <1>4, <1>5, <1>7, <1>8, BoxBounces
<1> QED
  BY <1>9 DEF Mail!BoxNext

LEMMA FreeBox ==
  ASSUME NEW t \in Thread, Around(t), FreeQueue(t)
  PROVE  Mail!BoxNext
<1> USE DEF Calls, Asleep, Creating, Dispatching, Points, callVars, ctxVars
<1>1. Typed /\ Control(t) /\ Hands(t)
  BY AroundParts
<1>2. /\ dq[t] \in Svc /\ mq' = [mq EXCEPT ![dq[t]] = NoQueue("freed")] /\ IsEmpty(mq[dq[t]])
      /\ UNCHANGED <<ctx, slot, cur, got>> /\ pc[t] = "drop"
  BY <1>1, Hand DEF FreeQueue, MqFree
<1>3. PICK c \in Svc : c = dq[t]
  BY <1>2
<1>4. /\ Becomes(c, mq'[c]) /\ mq'[c] = NoQueue("freed")
  BY <1>1, <1>2, <1>3, OneQueue, NoQueueSound DEF Typed
<1>5. Only(c)
  BY <1>2, <1>4, OneQueueOnly
<1>6. mq[c].st = "live" /\ mq[c].release
  <2>1. mq[c].release
    BY <1>2, <1>3 DEF Around, IInv, Settled, At
  <2> QED
    BY <2>1, AroundParts DEF Life
<1>7. MailState(c) = "sealed" /\ MailState(c)' = "gone"
  <2>1. mq'[c].st = "freed"
    BY <1>4, NoQueueSound
  <2> QED
    BY <1>6, <2>1 DEF MailState
<1>8. Pending(mq[c]) = <<>> /\ Pending(mq'[c]) = <<>>
  BY <1>1, <1>2, <1>3, <1>4, NoQueueSound, PendingMessages DEF Typed
<1>9. MailServing(c)' = MailServing(c)
  BY <1>2, ServesOn
<1>10. Mail!Vanish(c)
  BY <1>5, <1>7, <1>8, <1>9, BoxVanishes
<1> QED
  BY <1>10 DEF Mail!BoxNext

LEMMA StepBox ==
  ASSUME NEW t \in Thread, Around(t)
  PROVE  Mail!BoxNext \/ UNCHANGED Mail!boxVars
<1>1. CASE Aside(t)
  <2>1. \A d \in Svc : Same(d)
    BY <1>1, AsideKeeps, HandsSame, SameBox
  <2> QED
    BY <2>1, NoBox
<1>2. CASE \/ Pop(t) \/ Return(t) \/ Push(t) \/ Create(t) \/ Kill(t) \/ Unregister(t) \/ RetireOne(t)
           \/ DeleteContext(t) \/ DropMessage(t) \/ FreeQueue(t)
  BY <1>2, PopBox, ReturnBox, PushBox, CreateBox, RetireBox, DeleteBox, DropBox, FreeBox
<1> QED
  BY <1>1, <1>2 DEF Around, Step, Aside, Other, Queueing, Living, Core

-----------------------------------------------------------------------------
(* The core implements Mailbox                                               *)

LEMMA InitBox ==
  ASSUME Init
  PROVE  Mail!BoxInit
<1> DEFINE k == Pushed(NewQueue, Start)
<1>1. Start \in Msg
  BY MaxMsgNat DEF Start, Msg
<1>2. /\ k.st = "live" /\ ~k.release /\ Pending(k) = Append(<<>>, Start)
  BY <1>1, NewQueueSound, PushAppends
<1>3. NoQueue("none").st = "none" /\ Pending(NoQueue("none")) = <<>>
  BY NoQueueSound
<1>4. \A c \in Svc : IF c = Boot THEN mq[c] = k /\ ctx[c].st = "live" /\ c \in slot ELSE mq[c] = NoQueue("none")
  BY DEF Init
<1> HIDE DEF k
<1>5. ASSUME NEW c \in Svc
      PROVE  /\ MailState(c) \in {"unborn", "open"}
             /\ Pending(mq[c]) \in {<<>>} \cup {<<m>> : m \in Msg}
             /\ MailServing(c) = Nil
  <2>1. MailState(c) \in {"unborn", "open"}
    BY <1>2, <1>3, <1>4 DEF MailState
  <2>2. Pending(mq[c]) \in {<<>>} \cup {<<m>> : m \in Msg}
    <3>1. Append(<<>>, Start) = <<Start>>
      OBVIOUS
    <3> QED
      BY <1>1, <1>2, <1>3, <1>4, <3>1
  <2>3. MailServing(c) = Nil
    <3>1. \A t \in Worker : cur[t] = Nil
      BY DEF Init, Thread
    <3>2. InHandler(c) = {}
      BY <3>1 DEF InHandler
    <3> QED
      BY <3>2 DEF MailServing
  <2> QED
    BY <2>1, <2>2, <2>3
<1> QED
  BY <1>5 DEF Mail!BoxInit

(* The skynet core keeps its promise to the services: for any number of      *)
(* services, workers and weights, each service serves what was sent to it    *)
(* (skynet_context_push, skynet_server.c:225) in that order and one message  *)
(* at a time, also while the ring of its queue doubles, and its last messages*)
(* are bounced, not lost, when it ends (delete_context, _drop_queue).        *)
THEOREM CoreIsMailbox == Spec => ImplementsMailbox
<1>1. Init => Mail!BoxInit
  BY InitBox
<1>2. IInv /\ IInv' /\ [Next]_vars => [Mail!BoxNext]_(Mail!boxVars)
  <2> SUFFICES ASSUME IInv, IInv', [Next]_vars PROVE Mail!BoxNext \/ UNCHANGED Mail!boxVars
    OBVIOUS
  <2>1. CASE \E t \in Thread : Step(t)
    BY <2>1, StepBox DEF Around
  <2>2. CASE Signal \/ UNCHANGED vars
    <3>1. UNCHANGED <<mq, ctx, slot, cur, got>>
      BY <2>2 DEF Signal, TimerWakeup, TimerQuit, OnlyPc, allButPc, vars, serverVars, threadVars, ctxVars,
                  callVars
    <3>2. ASSUME NEW d \in Svc
          PROVE  Same(d)
      BY <3>1 DEF Same, MailState, MailServing, InHandler
    <3> QED
      BY <3>2, NoBox
  <2> QED
    BY <2>1, <2>2, Steps
<1> QED
  BY <1>1, <1>2, CoreInvariant, PTL DEF Spec, ImplementsMailbox, Mail!BoxSpec

=============================================================================
