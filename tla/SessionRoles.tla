---------------------------- MODULE SessionRoles ----------------------------
(***************************************************************************)
(* The roles in the game, for any number of connections, gates and roles:  *)
(* gatemgr's load counts cover the roles of the gates whatever clients do; *)
(* when they log in one at a time the counts are exact and a role has one  *)
(* service, which gatemgr and its gate know.                               *)
(***************************************************************************)
EXTENDS SessionProofs, FiniteSetTheorems, SequenceTheorems

-----------------------------------------------------------------------------
(* How often some messages occur in a mailbox.                               *)

Occ(q, M) == {i \in DOMAIN q : q[i] \in M}

\* A mailbox holds finitely many messages of any kind.
LEMMA OccFinite ==
  ASSUME NEW S, NEW q \in Seq(S), NEW M
  PROVE  IsFiniteSet(Occ(q, M)) /\ Cardinality(Occ(q, M)) \in Nat
<1>1. IsFiniteSet(1..Len(q))
  BY FS_Interval, LenProperties
<1>2. Occ(q, M) \in SUBSET (1..Len(q))
  BY DEF Occ
<1> QED
  BY <1>1, <1>2, FS_Subset, FS_CardinalityType

\* Sending a message counts it.
LEMMA OccAppend ==
  ASSUME NEW S, NEW q \in Seq(S), NEW M, NEW m \in S
  PROVE  Cardinality(Occ(Append(q, m), M)) =
           Cardinality(Occ(q, M)) + (IF m \in M THEN 1 ELSE 0)
<1> DEFINE n == Len(q) + 1
<1>1. Len(q) \in Nat /\ Len(Append(q, m)) = n /\ DOMAIN q = 1..Len(q) /\ DOMAIN Append(q, m) = 1..n
      /\ (\A i \in 1..Len(q) : Append(q, m)[i] = q[i]) /\ Append(q, m)[n] = m
  BY AppendProperties, LenProperties
<1>2. IsFiniteSet(Occ(q, M)) /\ n \notin Occ(q, M) /\ Cardinality(Occ(q, M)) \in Nat
  <2>1. n \notin Occ(q, M)
    BY <1>1 DEF Occ
  <2> QED
    BY <2>1, OccFinite
<1>3. CASE m \in M
  <2>1. Occ(Append(q, m), M) = Occ(q, M) \cup {n}
    BY <1>1, <1>3 DEF Occ
  <2> QED
    BY <1>2, <1>3, <2>1, FS_AddElement
<1>4. CASE m \notin M
  <2>1. Occ(Append(q, m), M) = Occ(q, M)
    BY <1>1, <1>4 DEF Occ
  <2> QED
    BY <1>2, <1>4, <2>1
<1> QED
  BY <1>3, <1>4

\* Handling the next message takes it off the count.
LEMMA OccTail ==
  ASSUME NEW S, NEW q \in Seq(S), q # <<>>, NEW M
  PROVE  Cardinality(Occ(q, M)) =
           Cardinality(Occ(Tail(q), M)) + (IF Head(q) \in M THEN 1 ELSE 0)
<1> DEFINE A == Occ(Tail(q), M)
           B == Occ(q, M) \ {1}
           f == [i \in A |-> i + 1]
<1>1. /\ Len(q) \in Nat /\ Len(q) > 0 /\ Len(Tail(q)) = Len(q) - 1
      /\ DOMAIN q = 1..Len(q) /\ DOMAIN Tail(q) = 1..(Len(q) - 1)
      /\ \A i \in 1..(Len(q) - 1) : Tail(q)[i] = q[i + 1]
      /\ Head(q) = q[1] /\ Tail(q) \in Seq(S)
  BY HeadTailProperties, LenProperties, EmptySeq
<1>2. IsFiniteSet(A) /\ IsFiniteSet(Occ(q, M)) /\ Cardinality(A) \in Nat
      /\ Cardinality(Occ(q, M)) \in Nat
  BY <1>1, OccFinite
<1>3. ExistsBijection(A, B)
  <2>1. \A i \in A : i \in Nat /\ i >= 1 /\ i + 1 \in B
    BY <1>1 DEF Occ
  <2>2. \A j \in B : j - 1 \in A /\ (j - 1) + 1 = j
    BY <1>1 DEF Occ
  <2>3. f \in [A -> B] /\ \A i, j \in A : f[i] = f[j] => i = j
    BY <2>1
  <2>4. \A j \in B : \E i \in A : f[i] = j
    BY <2>2
  <2> QED
    BY <2>3, <2>4 DEF ExistsBijection, Bijection, Injection, Surjection, IsInjective
<1>4. Cardinality(B) = Cardinality(A)
  BY <1>2, <1>3, FS_Bijection
<1>5. CASE Head(q) \in M
  <2>1. 1 \in Occ(q, M)
    BY <1>1, <1>5 DEF Occ
  <2>2. Cardinality(B) = Cardinality(Occ(q, M)) - 1
    BY <1>2, <2>1, FS_RemoveElement
  <2> HIDE DEF A, B
  <2>3. A = Occ(Tail(q), M)
    BY DEF A
  <2>4. Cardinality(Occ(q, M)) = Cardinality(A) + 1
    BY ONLY <1>2, <1>4, <2>2
  <2> QED
    BY ONLY <1>5, <2>3, <2>4
<1>6. CASE Head(q) \notin M
  <2>1. 1 \notin Occ(q, M)
    BY <1>1, <1>6 DEF Occ
  <2>2. B = Occ(q, M)
    BY <2>1
  <2> HIDE DEF A, B
  <2>3. A = Occ(Tail(q), M)
    BY DEF A
  <2> QED
    BY <1>2, <1>4, <1>6, <2>2, <2>3
<1> QED
  BY <1>5, <1>6

-----------------------------------------------------------------------------
(* The load of a gate and its changes.                                       *)

MsgsOf(op, g) == {[op |-> op, gate |-> g, role |-> r] : r \in Role}
Logouts == {m \in GateMsg : m.op = "logout"}

\* The messages that the load counts, one role at a time or all at once.
LEMMA MessagesOf ==
  ASSUME NEW q, NEW op, NEW g
  PROVE  UNION {{i \in DOMAIN q : q[i] = [op |-> op, gate |-> g, role |-> r]} : r \in Role}
           = Occ(q, MsgsOf(op, g))
<1> DEFINE In(r) == {i \in DOMAIN q : q[i] = [op |-> op, gate |-> g, role |-> r]}
<1>1. \A i : i \in UNION {In(r) : r \in Role} <=> \E r \in Role : i \in In(r)
  OBVIOUS
<1>2. \A i : i \in Occ(q, MsgsOf(op, g)) <=> \E r \in Role : i \in In(r)
  BY DEF Occ, MsgsOf
<1> HIDE DEF In
<1>3. UNION {In(r) : r \in Role} = Occ(q, MsgsOf(op, g))
  BY <1>1, <1>2
<1> QED
  BY <1>3 DEF In

\* The load count in terms of what is in gatemgr's mailbox, now and next.
LEMMA LoadIs ==
  ASSUME NEW g \in Gate
  PROVE  /\ Load(g) = cnt[g] + Cardinality(Occ(mgrQ, MsgsOf("add_role", g)))
                             - Cardinality(Occ(mgrQ, MsgsOf("del_role", g)))
         /\ Load(g)' = cnt'[g] + Cardinality(Occ(mgrQ', MsgsOf("add_role", g)))
                               - Cardinality(Occ(mgrQ', MsgsOf("del_role", g)))
<1>1. \A op : UNION {InFlight(op, g, r) : r \in Role} = Occ(mgrQ, MsgsOf(op, g))
  BY MessagesOf DEF InFlight
<1>2. \A op : UNION {InFlight(op, g, r)' : r \in Role} = Occ(mgrQ', MsgsOf(op, g))
  BY MessagesOf DEF InFlight
<1>3. Load(g)' = cnt'[g] + Cardinality(UNION {InFlight("add_role", g, r)' : r \in Role})
                         - Cardinality(UNION {InFlight("del_role", g, r)' : r \in Role})
  BY DEF Load
<1> QED
  BY <1>1, <1>2, <1>3 DEF Load

\* The numbers a load is made of.
LEMMA LoadTypes ==
  ASSUME TypeOK, NEW g \in Gate
  PROVE  /\ cnt[g] \in Int /\ Load(g) \in Int
         /\ \A op : Cardinality(Occ(mgrQ, MsgsOf(op, g))) \in Nat
<1>1. mgrQ \in Seq(MgrMsg) /\ cnt[g] \in Int
  BY DEF TypeOK, NetTypeOK, MgrTypeOK
<1>2. \A op : Cardinality(Occ(mgrQ, MsgsOf(op, g))) \in Nat
  BY <1>1, OccFinite
<1> QED
  BY <1>1, <1>2, LoadIs

\* A step that leaves gatemgr alone keeps the loads.
LEMMA LoadKept ==
  ASSUME UNCHANGED <<cnt, mgrQ>>, NEW g \in Gate
  PROVE  Load(g)' = Load(g)
BY LoadIs

\* An add_role or a del_role that is sent changes the load of its gate.
LEMMA LoadSent ==
  ASSUME TypeOK, UNCHANGED cnt, NEW op \in {"add_role", "del_role"}, NEW h \in Gate,
         NEW r \in Role, SendMgr(op, h, r), NEW g \in Gate
  PROVE  Load(g)' = Load(g) + (IF g = h THEN (IF op = "add_role" THEN 1 ELSE -1) ELSE 0)
<1> DEFINE m == [op |-> op, gate |-> h, role |-> r]
<1>1. mgrQ \in Seq(MgrMsg) /\ m \in MgrMsg /\ mgrQ' = Append(mgrQ, m)
  BY DEF TypeOK, NetTypeOK, MgrMsg, SendMgr
<1>2. \A o : m \in MsgsOf(o, g) <=> o = op /\ g = h
  BY DEF MsgsOf
<1>3. \A o : Cardinality(Occ(mgrQ', MsgsOf(o, g))) =
               Cardinality(Occ(mgrQ, MsgsOf(o, g))) + (IF o = op /\ g = h THEN 1 ELSE 0)
  <2> HIDE DEF m
  <2> QED
    BY <1>1, <1>2, OccAppend
<1> QED
  BY <1>3, LoadIs, LoadTypes

\* gatemgr counts what arrives: the load stays.
LEMMA LoadHandled ==
  ASSUME TypeOK, AddRole \/ DelRole, NEW g \in Gate
  PROVE  Load(g)' = Load(g)
<1> DEFINE m == Head(mgrQ)
<1>1. mgrQ \in Seq(MgrMsg) /\ mgrQ # <<>> /\ m \in MgrMsg /\ mgrQ' = Tail(mgrQ)
  BY DEF TypeOK, NetTypeOK, AddRole, DelRole
<1>2. \A o : m \in MsgsOf(o, g) <=> o = m.op /\ g = m.gate
  <2>1. m.role \in Role /\ m = [op |-> m.op, gate |-> m.gate, role |-> m.role]
    BY <1>1 DEF MgrMsg
  <2> HIDE DEF m
  <2> QED
    BY <2>1 DEF MsgsOf
<1>3. \A o : Cardinality(Occ(mgrQ, MsgsOf(o, g))) =
               Cardinality(Occ(mgrQ', MsgsOf(o, g))) + (IF o = m.op /\ g = m.gate THEN 1 ELSE 0)
  <2> HIDE DEF m
  <2>1. \A o : Cardinality(Occ(mgrQ, MsgsOf(o, g))) =
               Cardinality(Occ(mgrQ', MsgsOf(o, g))) + (IF m \in MsgsOf(o, g) THEN 1 ELSE 0)
    BY <1>1, OccTail DEF m
  <2> QED
    BY <1>2, <2>1
<1>4. \A o : Cardinality(Occ(mgrQ', MsgsOf(o, g))) \in Nat
  <2>1. mgrQ' \in Seq(MgrMsg)
    BY <1>1, HeadTailProperties
  <2> QED
    BY <2>1, OccFinite
<1>5. CASE AddRole
  <2>1. m.op = "add_role" /\ cnt'[g] = cnt[g] + (IF g = m.gate THEN 1 ELSE 0)
    BY <1>1, <1>5, LoadTypes DEF AddRole, TypeOK, MgrTypeOK, MgrMsg
  <2> HIDE DEF m
  <2> QED
    BY <1>3, <1>4, <2>1, LoadIs, LoadTypes
<1>6. CASE DelRole
  <2>1. m.op = "del_role" /\ cnt'[g] = cnt[g] - (IF g = m.gate THEN 1 ELSE 0)
    BY <1>1, <1>6, LoadTypes DEF DelRole, TypeOK, MgrTypeOK, MgrMsg
  <2> HIDE DEF m
  <2> QED
    BY <1>3, <1>4, <2>1, LoadIs, LoadTypes
<1> QED
  BY <1>5, <1>6

-----------------------------------------------------------------------------
(* What a gate will take off its load, and what leaves that alone.           *)

Debt(g) == Cardinality(Served(g)) + Cardinality(Leaving(g)) + Cardinality(LogoutWaits(g))

\* The logouts that wait for a socket stay as they are.
SameLogouts ==
    \A f \in Conn : closer[f].why = "logout" \/ closer'[f].why = "logout"
        => closer'[f] = closer[f]

\* A gate's mailbox stays as it is, or a login message comes or is handled.
LoginsOnly(q, p) ==
    \/ p = q
    \/ \E m \in GateMsg : IsLogin(m) /\ p = Append(q, m)
    \/ q # <<>> /\ IsLogin(Head(q)) /\ p = Tail(q)

SameMail == \A g \in Gate : LoginsOnly(gateQ[g], gateQ'[g])

\* A login that has a gate keeps its role and its gate.
SameLogins == \A f \in Conn : at[f] # Nil => at'[f] = at[f] /\ want'[f] = want[f]

\* The logouts in a mailbox are those of its messages that are logouts,
LEMMA LeavingIs ==
  ASSUME TypeOK, NEW g \in Gate
  PROVE  Leaving(g) = Occ(gateQ[g], Logouts)
<1>1. \A i \in DOMAIN gateQ[g] : gateQ[g][i] \in GateMsg
  BY DEF TypeOK, NetTypeOK
<1> QED
  BY <1>1 DEF Leaving, Occ, Logouts

\* also in the next state.
LEMMA LeavingIsNext ==
  ASSUME TypeOK', NEW g \in Gate
  PROVE  Leaving(g)' = Occ(gateQ'[g], Logouts)
<1>1. \A i \in DOMAIN gateQ'[g] : gateQ'[g][i] \in GateMsg
  BY DEF TypeOK, NetTypeOK
<1> QED
  BY <1>1 DEF Leaving, Occ, Logouts

\* What a gate will take off its load can be counted.
LEMMA DebtTypes ==
  ASSUME TypeOK, Few, NEW g \in Gate
  PROVE  /\ IsFiniteSet(Served(g)) /\ Cardinality(Served(g)) \in Nat
         /\ IsFiniteSet(Leaving(g)) /\ Cardinality(Leaving(g)) \in Nat
         /\ IsFiniteSet(LogoutWaits(g)) /\ Cardinality(LogoutWaits(g)) \in Nat
<1>1. Served(g) \in SUBSET live
  BY DEF Served
<1>2. LogoutWaits(g) \in SUBSET {f \in Conn : closer[f].why # "none"}
  BY DEF LogoutWaits
<1>3. IsFiniteSet(Served(g)) /\ IsFiniteSet(LogoutWaits(g))
  BY <1>1, <1>2, FS_Subset DEF Few
<1>4. gateQ[g] \in Seq(GateMsg)
  BY DEF TypeOK, NetTypeOK
<1>5. IsFiniteSet(Leaving(g))
  BY <1>4, LeavingIs, OccFinite
<1> QED
  BY <1>3, <1>5, FS_CardinalityType

\* Where the logout messages of a mailbox are after a quiet change of it.
LEMMA MailMoves ==
  ASSUME NEW q \in Seq(GateMsg), NEW p, LoginsOnly(q, p)
  PROVE  /\ Cardinality(Occ(p, Logouts)) = Cardinality(Occ(q, Logouts))
         /\ \E k \in {0, 1} :
              /\ \A i \in Occ(p, Logouts) : i + k \in Occ(q, Logouts) /\ p[i] = q[i + k]
              /\ \A j \in Occ(q, Logouts) : j - k \in Occ(p, Logouts) /\ p[j - k] = q[j]
<1>1. CASE p = q
  <2>1. \A i \in Occ(p, Logouts) : i + 0 = i /\ i - 0 = i
    BY <1>1, LenProperties DEF Occ
  <2> QED
    BY <1>1, <2>1
<1>2. ASSUME NEW m \in GateMsg, IsLogin(m), p = Append(q, m)
      PROVE  /\ Cardinality(Occ(p, Logouts)) = Cardinality(Occ(q, Logouts))
             /\ \A i : i \in Occ(p, Logouts) <=> i \in Occ(q, Logouts)
             /\ \A i \in Occ(p, Logouts) : i + 0 = i /\ i - 0 = i /\ p[i] = q[i]
  <2>1. m \notin Logouts
    BY <1>2 DEF Logouts, IsLogin
  <2>2. Cardinality(Occ(p, Logouts)) = Cardinality(Occ(q, Logouts))
    BY <1>2, <2>1, OccAppend, OccFinite
  <2>3. /\ DOMAIN q = 1..Len(q) /\ DOMAIN p = 1..(Len(q) + 1) /\ Len(q) \in Nat
        /\ \A i \in 1..Len(q) : p[i] = q[i]
        /\ p[Len(q) + 1] = m
    BY <1>2, AppendProperties, LenProperties
  <2>4. \A i : i \in Occ(p, Logouts) <=> i \in Occ(q, Logouts)
    BY <2>1, <2>3 DEF Occ
  <2>5. \A i \in Occ(p, Logouts) : i \in 1..Len(q)
    BY <2>3, <2>4 DEF Occ
  <2> QED
    BY <2>2, <2>3, <2>4, <2>5
<1>3. CASE q # <<>> /\ IsLogin(Head(q)) /\ p = Tail(q)
  <2>1. Head(q) \notin Logouts
    BY <1>3 DEF Logouts, IsLogin
  <2>2. Cardinality(Occ(p, Logouts)) = Cardinality(Occ(q, Logouts))
    <3>1. Tail(q) \in Seq(GateMsg)
      BY <1>3, HeadTailProperties
    <3>2. Cardinality(Occ(Tail(q), Logouts)) \in Nat
      BY <3>1, OccFinite
    <3>3. Cardinality(Occ(q, Logouts)) =
            Cardinality(Occ(Tail(q), Logouts)) + (IF Head(q) \in Logouts THEN 1 ELSE 0)
      BY <1>3, OccTail
    <3> QED
      BY ONLY <1>3, <2>1, <3>2, <3>3
  <2>3. /\ Len(q) \in Nat /\ Len(q) > 0 /\ DOMAIN q = 1..Len(q) /\ DOMAIN p = 1..(Len(q) - 1)
        /\ \A i \in 1..(Len(q) - 1) : p[i] = q[i + 1]
        /\ Head(q) = q[1]
    BY <1>3, HeadTailProperties, LenProperties, EmptySeq
  <2>4. \A i \in Occ(p, Logouts) : i + 1 \in Occ(q, Logouts) /\ p[i] = q[i + 1]
    BY <2>3 DEF Occ
  <2>5. \A j \in Occ(q, Logouts) : j - 1 \in Occ(p, Logouts) /\ p[j - 1] = q[j]
    <3> SUFFICES ASSUME NEW j \in Occ(q, Logouts)
                 PROVE  j - 1 \in Occ(p, Logouts) /\ p[j - 1] = q[j]
      OBVIOUS
    <3>1. j \in 1..Len(q) /\ q[j] \in Logouts /\ j # 1
      BY <2>1, <2>3 DEF Occ
    <3>2. j - 1 \in 1..(Len(q) - 1) /\ (j - 1) + 1 = j
      BY <2>3, <3>1
    <3> QED
      BY <2>3, <3>1, <3>2 DEF Occ
  <2> QED
    BY <2>2, <2>4, <2>5
<1> QED
  BY <1>1, <1>2, <1>3 DEF LoginsOnly

\* A step that starts and ends no service, and handles no logout, changes no debt.
LEMMA DebtKept ==
  ASSUME GateInv, TypeOK', UNCHANGED live, SameLogins, SameLogouts, SameMail, NEW g \in Gate
  PROVE  /\ Served(g)' = Served(g)
         /\ Cardinality(Leaving(g)') = Cardinality(Leaving(g))
         /\ LogoutWaits(g)' = LogoutWaits(g)
         /\ Debt(g)' = Debt(g)
<1>1. \A l \in live : l \in Conn /\ at[l] # Nil
  BY DEF GateInv, TypeOK, NetTypeOK, Handed
<1>2. Served(g)' = Served(g)
  BY <1>1 DEF Served, SameLogins
<1>3. Cardinality(Leaving(g)') = Cardinality(Leaving(g))
  <2>1. gateQ[g] \in Seq(GateMsg) /\ LoginsOnly(gateQ[g], gateQ'[g])
    BY DEF GateInv, TypeOK, NetTypeOK, SameMail
  <2>2. Leaving(g) = Occ(gateQ[g], Logouts) /\ Leaving(g)' = Occ(gateQ'[g], Logouts)
    BY LeavingIs, LeavingIsNext DEF GateInv
  <2> QED
    BY <2>1, <2>2, MailMoves
<1>4. LogoutWaits(g)' = LogoutWaits(g)
  <2>1. \A f \in Conn : closer[f].why = "logout" => closer[f].rec \in Conn /\ at[closer[f].rec] # Nil
    BY DEF GateInv, Closing
  <2>2. \A f \in Conn : f \in LogoutWaits(g)' <=> f \in LogoutWaits(g)
    BY <2>1 DEF LogoutWaits, SameLogins, SameLogouts
  <2> QED
    BY <2>2 DEF LogoutWaits
<1> QED
  BY <1>2, <1>3, <1>4 DEF Debt

\* Then records stay accounted for, if no record is added.
LEMMA BackedKept ==
  ASSUME GateInv, TypeOK', Backed, UNCHANGED <<live, groles>>, SameLogins, SameLogouts, SameMail
  PROVE  Backed'
<1> SUFFICES ASSUME NEW g \in Gate, NEW r \in Role, groles[g][r] # Nil
             PROVE  \/ \E l \in Served(g)' : want'[l] = r
                    \/ \E i \in Leaving(g)' : gateQ'[g][i].role = r
                    \/ \E f \in LogoutWaits(g)' : want'[closer'[f].rec] = r
  BY DEF Backed
<1>1. /\ Served(g)' = Served(g) /\ LogoutWaits(g)' = LogoutWaits(g)
  BY DebtKept
<1>2. CASE \E l \in Served(g) : want[l] = r
  <2>1. \A l \in live : l \in Conn /\ at[l] # Nil
    BY DEF GateInv, TypeOK, NetTypeOK, Handed
  <2> QED
    BY <1>1, <1>2, <2>1 DEF SameLogins, Served
<1>3. CASE \E i \in Leaving(g) : gateQ[g][i].role = r
  <2>1. gateQ[g] \in Seq(GateMsg) /\ LoginsOnly(gateQ[g], gateQ'[g])
    BY DEF GateInv, TypeOK, NetTypeOK, SameMail
  <2>2. Leaving(g) = Occ(gateQ[g], Logouts) /\ Leaving(g)' = Occ(gateQ'[g], Logouts)
    BY LeavingIs, LeavingIsNext DEF GateInv
  <2>3. PICK k \in {0, 1} : \A j \in Occ(gateQ[g], Logouts) :
           j - k \in Occ(gateQ'[g], Logouts) /\ gateQ'[g][j - k] = gateQ[g][j]
    BY <2>1, MailMoves
  <2> QED
    BY <1>3, <2>2, <2>3
<1>4. CASE \E f \in LogoutWaits(g) : want[closer[f].rec] = r
  <2>1. \A f \in LogoutWaits(g) : closer[f].rec \in Conn /\ at[closer[f].rec] # Nil
                                  /\ closer'[f] = closer[f]
    BY DEF GateInv, Closing, LogoutWaits, SameLogouts
  <2> QED
    BY <1>1, <1>4, <2>1 DEF SameLogins
<1> QED
  BY <1>2, <1>3, <1>4 DEF Backed

\* The counts cover the debts in the next state if no gate's debt grew more.
LEMMA CountedStep ==
  ASSUME TypeOK, TypeOK', Few, Few', Counted,
         \A g \in Gate : Load(g)' - Load(g) >= Debt(g)' - Debt(g)
  PROVE  Counted'
<1> SUFFICES ASSUME NEW g \in Gate
             PROVE  Load(g)' >= Debt(g)'
  BY DEF Counted, Debt
<1>1. Load(g) >= Debt(g)
  BY DEF Counted, Debt
<1>2. Load(g) \in Int /\ Debt(g) \in Int
  BY LoadTypes, DebtTypes DEF Debt
<1>3. Load(g)' \in Int /\ Debt(g)' \in Int
  <2>1. mgrQ' \in Seq(MgrMsg) /\ gateQ'[g] \in Seq(GateMsg) /\ cnt'[g] \in Int
    BY DEF TypeOK, NetTypeOK, MgrTypeOK
  <2>2. Load(g)' \in Int
    <3>1. \A op : Cardinality(Occ(mgrQ', MsgsOf(op, g))) \in Nat
      BY <2>1, OccFinite
    <3> QED
      BY <2>1, <3>1, LoadIs
  <2>3. Cardinality(Served(g)') \in Nat
    <3>1. Served(g)' \in SUBSET live'
      BY DEF Served
    <3> QED
      BY <3>1, FS_Subset, FS_CardinalityType DEF Few
  <2>4. Cardinality(LogoutWaits(g)') \in Nat
    <3>1. LogoutWaits(g)' \in SUBSET {f \in Conn : closer'[f].why # "none"}
      BY DEF LogoutWaits
    <3> QED
      BY <3>1, FS_Subset, FS_CardinalityType DEF Few
  <2>5. Cardinality(Leaving(g)') \in Nat
    BY <2>1, LeavingIsNext, OccFinite
  <2> QED
    BY <2>2, <2>3, <2>4, <2>5 DEF Debt
<1> QED
  BY <1>1, <1>2, <1>3

-----------------------------------------------------------------------------
(* Quiet steps: those that change neither what is in the game nor what       *)
(* gatemgr knows of it.                                                      *)

\* Every message in a gate's mailbox was there before.
OldMail ==
    \A g \in Gate : \A i \in DOMAIN gateQ'[g] : \E j \in DOMAIN gateQ[g] : gateQ[g][j] = gateQ'[g][i]

QuietStep ==
    /\ UNCHANGED <<cnt, mgrQ, live, groles, mroles, rows>>
    /\ SameLogins /\ SameLogouts /\ SameMail
    /\ \A f \in Conn : \A r \in Role : Contends(f, r)' => Contends(f, r)
    /\ \A f \in Conn : Enters(f)' => Enters(f)

\* A login message is about a connection no gate has dealt with.
LEMMA NotMailed ==
  ASSUME GateInv, NEW f \in Conn, task[f] # "none" \/ auth[f] # "applied"
  PROVE  ~Mailed(f)
<1>1. \A g \in Gate : g # Nil
  BY SessionAssumption
<1> QED
  BY <1>1 DEF GateInv, Mailed, LoginMail, Handed

\* The same in the next state.
LEMMA NotMailedNext ==
  ASSUME GateInv', NEW f \in Conn, task'[f] # "none" \/ auth'[f] # "applied"
  PROVE  ~Mailed(f)'
<1>1. \A g \in Gate : g # Nil
  BY SessionAssumption
<1> QED
  BY <1>1 DEF GateInv, Mailed, LoginMail, Handed

\* What handling a message does to the mailboxes.
LEMMA PopOld ==
  ASSUME TypeOK, NEW g \in Gate, gateQ[g] # <<>>, Pop(g)
  PROVE  /\ OldMail
         /\ IsLogin(Head(gateQ[g])) => SameMail
<1>1. gateQ' = [gateQ EXCEPT ![g] = Tail(gateQ[g])] /\ gateQ \in [Gate -> Seq(GateMsg)]
  BY DEF Pop, TypeOK, NetTypeOK
<1>2. gateQ'[g] = Tail(gateQ[g]) /\ \A h \in Gate : h # g => gateQ'[h] = gateQ[h]
  BY <1>1
<1>3. \A i \in DOMAIN gateQ'[g] : i + 1 \in DOMAIN gateQ[g] /\ gateQ[g][i + 1] = gateQ'[g][i]
  <2>1. /\ Len(gateQ[g]) \in Nat /\ Len(gateQ[g]) > 0 /\ DOMAIN gateQ[g] = 1..Len(gateQ[g])
        /\ DOMAIN Tail(gateQ[g]) = 1..(Len(gateQ[g]) - 1)
        /\ \A i \in 1..(Len(gateQ[g]) - 1) : Tail(gateQ[g])[i] = gateQ[g][i + 1]
    BY <1>1, HeadTailProperties, LenProperties, EmptySeq
  <2> QED
    BY <1>2, <2>1
<1>4. OldMail
  BY <1>2, <1>3 DEF OldMail
<1>5. ASSUME IsLogin(Head(gateQ[g])) PROVE SameMail
  BY <1>2, <1>5 DEF SameMail, LoginsOnly
<1> QED
  BY <1>4, <1>5

\* A step that leaves the gates' mailboxes alone.
LEMMA StayOld ==
  ASSUME gateQ' = gateQ
  PROVE  OldMail /\ SameMail
BY DEF OldMail, SameMail, LoginsOnly

\* Logins stay pending while they are under way, if a step decides only that of f.
LEMMA UndecidedStep ==
  ASSUME Undecided, OldMail, NEW f \in Conn,
         \A e \in Conn \ {f} :
            /\ fate'[e] = fate[e]
            /\ auth'[e] = auth[e]
            /\ task'[e] \in {"spawn", "wait"} => task'[e] = task[e],
         UnderWay(f)' => fate'[f] = "pending"
  PROVE  Undecided'
<1> SUFFICES ASSUME NEW e \in Conn, e # f, UnderWay(e)'
             PROVE  fate'[e] = "pending"
  BY DEF Undecided
<1>1. CASE Mailed(e)'
  <2>1. Mailed(e)
    BY <1>1 DEF Mailed, OldMail, IsLogin
  <2> QED
    BY <2>1 DEF Undecided, UnderWay
<1>2. CASE auth'[e] \in {"account", "max", "insert", "read", "pause"} \/ task'[e] \in {"spawn", "wait"}
  BY <1>2 DEF Undecided, UnderWay
<1> QED
  BY <1>1, <1>2 DEF UnderWay

\* The closing of one socket adds one to those under way.
LEMMA FewKept ==
  ASSUME Few, live' \subseteq live, NEW f \in Conn,
         \A e \in Conn \ {f} : closer'[e] = closer[e]
  PROVE  Few'
<1> DEFINE C == {e \in Conn : closer[e].why # "none"}
           D == {e \in Conn : closer'[e].why # "none"}
<1>1. IsFiniteSet(C \cup {f}) /\ D \in SUBSET (C \cup {f})
  <2>1. IsFiniteSet(C \cup {f})
    BY FS_AddElement DEF Few
  <2> QED
    BY <2>1
<1>2. IsFiniteSet(D)
  BY <1>1, FS_Subset
<1>3. IsFiniteSet(live')
  BY FS_Subset DEF Few
<1> QED
  BY <1>2, <1>3 DEF Few

\* A step that leaves logins, mailboxes and the gates' tables alone is quiet.
LEMMA QuietFrame ==
  ASSUME Few, Undecided, live' = live,
         UNCHANGED <<fate, want, at, mgrQ, gateQ, auth, rows, mroles, cnt, groles, task, closer>>
  PROVE  QuietStep /\ Few' /\ Undecided'
<1>1. QuietStep
  BY StayOld DEF QuietStep, SameLogins, SameLogouts, Contends, Enters
<1>2. Few'
  BY DEF Few
<1>3. Undecided'
  BY DEF Undecided, UnderWay, Mailed
<1> QED
  BY <1>1, <1>2, <1>3

\* gatemgr accepts, gives up, or reads the database for a login.
LEMMA QuietMgr ==
  ASSUME GateInv, GateInv', Few, Undecided, NEW f \in Conn, UNCHANGED gateVars,
         \/ Accept(f)
         \/ auth[f] # "applied" /\ GiveUp(f)
         \/ AccountDone(f)
         \/ ReadDone(f)
  PROVE  QuietStep /\ Few' /\ Undecided'
<1>1. /\ UNCHANGED <<cnt, mgrQ, live, groles, mroles, rows, gateQ, closer, want, at, task>>
  BY DEF Accept, GiveUp, AccountDone, ReadDone, gateVars, login, queues, tables
<1>2. /\ auth[f] # "applied" /\ auth'[f] # "applied" /\ auth'[f] # "insert"
      /\ fate'[f] = fate[f] \/ fate'[f] = "dropped"
      /\ \A e \in Conn \ {f} : auth'[e] = auth[e] /\ fate'[e] = fate[e]
      /\ \/ auth'[f] \in {"recv", "failed"}
         \/ auth[f] \in {"account", "read"} /\ fate'[f] = fate[f]
      /\ auth'[f] = "recv" => auth[f] = "idle"
  BY DEF GateInv, TypeOK, NetTypeOK, MgrTypeOK, Accept, GiveUp, AccountDone, ReadDone, Goto
<1>3. task[f] = "none"
  BY <1>2 DEF GateInv, Handed
<1>4. QuietStep
  <2>1. OldMail /\ SameMail
    BY <1>1, StayOld
  <2>2. SameLogins /\ SameLogouts
    BY <1>1 DEF SameLogins, SameLogouts
  <2>3. \A e \in Conn : \A r \in Role : Contends(e, r)' => Contends(e, r)
    <3> SUFFICES ASSUME NEW e \in Conn, NEW r \in Role, Contends(e, r)'
                 PROVE  Contends(e, r)
      OBVIOUS
    <3>1. CASE e # f
      BY <1>1, <1>2, <3>1 DEF Contends
    <3>2. CASE e = f
      <4>1. fate[f] = "pending" /\ want[f] = r
        BY <1>1, <1>2, <3>2 DEF Contends
      <4>2. auth[f] # "insert"
        BY <1>2, <3>2 DEF Contends, Accept, GiveUp, AccountDone, ReadDone, GateInv, TypeOK, NetTypeOK
      <4> QED
        BY <3>2, <4>1, <4>2 DEF Contends
    <3> QED
      BY <3>1, <3>2
  <2>4. \A e \in Conn : Enters(e)' => Enters(e)
    BY <1>1 DEF Enters
  <2> QED
    BY <1>1, <2>1, <2>2, <2>3, <2>4 DEF QuietStep
<1>5. Few'
  BY <1>1 DEF Few
<1>6. Undecided'
  <2>1. UnderWay(f)' => fate'[f] = "pending"
    <3>1. ~Mailed(f)'
      BY <1>2, NotMailedNext
    <3> QED
      BY <1>1, <1>2, <1>3, <3>1 DEF UnderWay, Undecided
  <2> QED
    BY <1>1, <1>2, <2>1, StayOld, UndecidedStep
<1> QED
  BY <1>4, <1>5, <1>6

\* The login message a gate handles next is that of a pending login.
LEMMA HeadPending ==
  ASSUME GateInv, Undecided, NEW g \in Gate, NEW op \in {"enter_role", "reenter_role"}, Next1(g, op)
  PROVE  LET f == Head(gateQ[g]).fd
         IN /\ fate[f] = "pending" /\ IsLogin(Head(gateQ[g])) /\ gateQ[g] # <<>>
            /\ op = "enter_role" => Enters(f)
<1> DEFINE f == Head(gateQ[g]).fd
<1>1. f \in Conn
  BY HeadMail
<1>2. 1 \in DOMAIN gateQ[g] /\ gateQ[g][1] = Head(gateQ[g]) /\ gateQ[g] # <<>>
  <2>1. gateQ[g] \in Seq(GateMsg) /\ gateQ[g] # <<>>
    BY DEF GateInv, TypeOK, NetTypeOK, Next1
  <2> QED
    BY <2>1, HeadTailProperties, LenProperties, EmptySeq
<1>3. Head(gateQ[g]).op = op
  BY DEF Next1
<1>4. UnderWay(f)
  BY <1>2, <1>3 DEF UnderWay, Mailed, IsLogin
<1> QED
  BY <1>1, <1>2, <1>3, <1>4 DEF Undecided, Enters, IsLogin

\* gate.enter_role up to newservice, and reenter_role of a role that is gone.
LEMMA QuietEnter ==
  ASSUME GateInv, GateInv', Few, Undecided, NEW g \in Gate, EnterRole(g) \/ Refuse(g),
         UNCHANGED mgrVars
  PROVE  QuietStep /\ Few' /\ Undecided'
<1>0. PICK op \in {"enter_role", "reenter_role"} :
         Next1(g, op) /\ (EnterRole(g) => op = "enter_role") /\ (Refuse(g) => op = "reenter_role")
  BY DEF EnterRole, Refuse, Next1
<1>1. PICK f \in Conn :
      /\ f = Head(gateQ[g]).fd /\ task[f] = "none" /\ at[f] = g
      /\ fate[f] = "pending" /\ IsLogin(Head(gateQ[g])) /\ gateQ[g] # <<>>
      /\ op = "enter_role" => Enters(f)
  BY <1>0, HeadMail, HeadPending
<1>2. /\ UNCHANGED <<cnt, mgrQ, live, groles, mroles, rows, closer, want, at, auth>>
      /\ Pop(g)
  BY DEF EnterRole, Refuse, mgrVars, login, tables
<1>3. /\ task'[f] = "spawn" => EnterRole(g) /\ fate' = fate
      /\ task'[f] \in {"lost", "spawn"}
      /\ fate'[f] = fate[f] \/ fate'[f] = "dropped"
      /\ \A e \in Conn \ {f} : task'[e] = task[e] /\ fate'[e] = fate[e]
  BY <1>1 DEF EnterRole, Refuse, Lose, GateInv, TypeOK, NetTypeOK, GateTypeOK
<1>4. OldMail /\ SameMail
  BY <1>1, <1>2, PopOld DEF GateInv
<1>5. \A e \in Conn : Enters(e)' => Enters(e)
  <2> SUFFICES ASSUME NEW e \in Conn, Enters(e)'
               PROVE  Enters(e)
    OBVIOUS
  <2>1. CASE task'[e] = "spawn"
    BY <1>0, <1>1, <1>3, <2>1 DEF Enters
  <2>2. CASE \E h \in Gate : \E i \in DOMAIN gateQ'[h] :
                gateQ'[h][i].op = "enter_role" /\ gateQ'[h][i].fd = e
    BY <1>4, <2>2 DEF Enters, OldMail
  <2> QED
    BY <2>1, <2>2 DEF Enters
<1>6. QuietStep
  BY <1>2, <1>3, <1>4, <1>5 DEF QuietStep, SameLogins, SameLogouts, Contends
<1>7. Few'
  BY <1>2 DEF Few
<1>8. Undecided'
  <2>1. auth'[f] = "applied"
    BY <1>1, <1>2, SessionAssumption DEF GateInv, Handed
  <2>2. ~Mailed(f)'
    BY <1>1, <1>3, NotMailedNext
  <2>3. UnderWay(f)' => fate'[f] = "pending"
    BY <1>1, <1>3, <2>1, <2>2 DEF UnderWay
  <2> QED
    BY <1>1, <1>2, <1>3, <1>4, <2>3, UndecidedStep
<1> QED
  BY <1>6, <1>7, <1>8

\* A step of a gate is quiet if it decides at most the login of f, and opens or ends
\* the wait for at most the socket c, which is not a logout's.
LEMMA QuietGate ==
  ASSUME GateInv, GateInv', Few, Undecided, NEW f \in Conn, NEW c \in Conn,
         UNCHANGED <<mgrVars, login, live, mgrQ, groles>>, OldMail, SameMail,
         \A e \in Conn \ {f} : fate'[e] = fate[e],
         fate'[f] # fate[f] => fate'[f] # "pending" /\ task'[f] # "none",
         \A e \in Conn : task'[e] = "spawn" => task[e] = "spawn",
         \A e \in Conn \ {f} : task'[e] = "wait" => task[e] = "wait",
         task'[f] \in {"spawn", "wait"} => fate'[f] = "pending",
         \A e \in Conn \ {c} : closer'[e] = closer[e],
         closer'[c] = closer[c] \/ (closer[c].why # "logout" /\ closer'[c].why # "logout")
  PROVE  QuietStep /\ Few' /\ Undecided'
<1>1. UNCHANGED <<cnt, mgrQ, live, groles, mroles, rows, want, at, auth>>
  BY DEF mgrVars, login, tables
<1>2. QuietStep
  <2>1. SameLogins /\ SameLogouts
    BY <1>1 DEF SameLogins, SameLogouts
  <2>2. \A e \in Conn : \A r \in Role : Contends(e, r)' => Contends(e, r)
    BY <1>1 DEF Contends
  <2>3. \A e \in Conn : Enters(e)' => Enters(e)
    BY DEF Enters, OldMail
  <2> QED
    BY <1>1, <2>1, <2>2, <2>3 DEF QuietStep
<1>3. Few'
  BY <1>1, FewKept
<1>4. Undecided'
  <2>1. ASSUME UnderWay(f)', fate'[f] # "pending" PROVE FALSE
    <3>1. task'[f] \notin {"spawn", "wait"}
      BY <2>1
    <3>2. CASE fate'[f] = fate[f]
      <4>1. Mailed(f)' => Mailed(f)
        BY DEF Mailed, OldMail
      <4>2. UnderWay(f)
        BY <1>1, <2>1, <3>1, <4>1 DEF UnderWay
      <4> QED
        BY <2>1, <3>2, <4>2 DEF Undecided
    <3>3. CASE fate'[f] # fate[f]
      <4>1. ~Mailed(f)'
        BY <3>3, NotMailedNext
      <4>2. auth'[f] = "applied"
        BY <3>3 DEF GateInv, Handed
      <4> QED
        BY <2>1, <3>1, <4>1, <4>2 DEF UnderWay
    <3> QED
      BY <3>2, <3>3
  <2> QED
    BY <1>1, <2>1, UndecidedStep
<1> QED
  BY <1>2, <1>3, <1>4

\* The same of a step that decides no login.
LEMMA QuietGateSame ==
  ASSUME GateInv, GateInv', Few, Undecided, NEW c \in Conn,
         UNCHANGED <<mgrVars, fate, login, live, mgrQ, groles>>, OldMail, SameMail,
         \A e \in Conn : task'[e] \in {"spawn", "wait"} => task'[e] = task[e],
         \A e \in Conn \ {c} : closer'[e] = closer[e],
         closer'[c] = closer[c] \/ (closer[c].why # "logout" /\ closer'[c].why # "logout")
  PROVE  QuietStep /\ Few' /\ Undecided'
<1>1. task'[c] \in {"spawn", "wait"} => fate'[c] = "pending"
  BY DEF Undecided, UnderWay
<1> QED
  BY <1>1, QuietGate

\* gate.reenter_role, for the socket that is attached or waits.
LEMMA QuietReenter ==
  ASSUME GateInv, GateInv', Few, Undecided, NEW g \in Gate, Reenter(g) \/ TakeOver(g),
         UNCHANGED mgrVars
  PROVE  QuietStep /\ Few' /\ Undecided'
<1>0. Next1(g, "reenter_role")
  BY DEF Reenter, TakeOver
<1>1. PICK f \in Conn :
      /\ f = Head(gateQ[g]).fd /\ task[f] = "none" /\ at[f] = g /\ want[f] \in Role
      /\ fate[f] = "pending" /\ IsLogin(Head(gateQ[g])) /\ gateQ[g] # <<>>
  BY <1>0, HeadMail, HeadPending
<1>2. UNCHANGED <<login, live, mgrQ, groles>> /\ Pop(g)
  BY DEF Reenter, TakeOver
<1>3. OldMail /\ SameMail
  BY <1>1, <1>2, PopOld DEF GateInv
<1>4. CASE Reenter(g)
  <2>1. /\ fate'[f] = "answered" /\ \A e \in Conn \ {f} : fate'[e] = fate[e]
        /\ task'[f] = "start" /\ \A e \in Conn \ {f} : task'[e] = task[e]
        /\ closer' = closer
    BY <1>1, <1>4 DEF Reenter, GateInv, TypeOK, NetTypeOK, GateTypeOK
  <2> QED
    BY <1>2, <1>3, <2>1, QuietGate
<1>5. CASE TakeOver(g)
  <2>1. PICK l \in Conn, old \in Conn :
           l = Current(f) /\ old = recfd[l] /\ sock[old] = l /\ closer[old].why = "none" /\ old # f
    <3>1. Current(f) \in Conn /\ recfd[Current(f)] \in Conn
      <4>1. Current(f) # Nil /\ recfd[Current(f)] # Nil
        BY <1>1, <1>5 DEF TakeOver
      <4>2. Current(f) \in Conn \cup {Nil}
        BY <1>1 DEF Current, GateInv, TypeOK, GateTypeOK
      <4> QED
        BY <4>1, <4>2 DEF GateInv, TypeOK, GateTypeOK
    <3>2. sock[recfd[Current(f)]] = Current(f) /\ closer[recfd[Current(f)]].why = "none"
      BY <3>1, SessionAssumption DEF GateInv, GateTables, Closing
    <3>3. recfd[Current(f)] # f
      BY <1>0, <1>1, <3>1, HeadMail
    <3> QED
      BY <3>1, <3>2, <3>3
  <2>2. CASE Waits(old) /\ CloseLater(old, "reenter", l, f) /\ task' = [task EXCEPT ![f] = "wait"]
             /\ UNCHANGED fate
    <3>1. /\ task'[f] = "wait" /\ \A e \in Conn \ {f} : task'[e] = task[e]
          /\ closer'[old].why = "reenter" /\ \A e \in Conn \ {old} : closer'[e] = closer[e]
      BY <2>2 DEF CloseLater, GateInv, TypeOK, GateTypeOK
    <3> QED
      BY <1>1, <1>2, <1>3, <2>1, <2>2, <3>1, QuietGate
  <2>3. CASE /\ task' = [task EXCEPT ![old] = "stop", ![f] = "start"]
             /\ fate' = [fate EXCEPT ![f] = "answered"]
             /\ UNCHANGED closer
    <3>1. /\ task'[f] = "start" /\ task'[old] = "stop"
          /\ \A e \in Conn \ {f, old} : task'[e] = task[e]
          /\ fate'[f] = "answered" /\ \A e \in Conn \ {f} : fate'[e] = fate[e]
      BY <2>1, <2>3 DEF GateInv, TypeOK, NetTypeOK, GateTypeOK
    <3> QED
      BY <1>2, <1>3, <2>3, <3>1, QuietGate
  <2> QED
    BY <1>1, <1>5, <2>1, <2>2, <2>3 DEF TakeOver
<1> QED
  BY <1>4, <1>5

\* newservice fails, and client_loop starts its socket.
LEMMA QuietLoop ==
  ASSUME GateInv, GateInv', Few, Undecided, NEW f \in Conn,
         LaunchFails(f) \/ LoopStart(f) \/ CheckRaises(f), UNCHANGED mgrVars
  PROVE  QuietStep /\ Few' /\ Undecided'
<1>1. UNCHANGED <<login, live, mgrQ, groles, gateQ, closer>>
  BY DEF LaunchFails, LoopStart, CheckRaises, netVars, queues
<1>2. OldMail /\ SameMail
  BY <1>1, StayOld
<1>3. CASE LaunchFails(f)
  <2>1. /\ task'[f] = "lost" /\ fate'[f] = "dropped"
        /\ \A e \in Conn \ {f} : task'[e] = task[e] /\ fate'[e] = fate[e]
    BY <1>3 DEF LaunchFails, Lose, GateInv, TypeOK, NetTypeOK, GateTypeOK
  <2> QED
    BY <1>1, <1>2, <2>1, QuietGate
<1>4. CASE LoopStart(f)
  <2>1. /\ task'[f] \in {"read", "failed"} /\ fate' = fate
        /\ \A e \in Conn \ {f} : task'[e] = task[e]
    BY <1>4 DEF LoopStart, GateInv, TypeOK, GateTypeOK
  <2> QED
    BY <1>1, <1>2, <2>1, QuietGate
<1>5. CASE CheckRaises(f)
  <2>1. UNCHANGED <<fate, want, at, auth, rows, mroles, cnt, task>>
    BY <1>5 DEF CheckRaises, netVars, login, mgrVars, tables
  <2> QED
    BY <1>1, <2>1, QuietFrame
<1> QED
  BY <1>3, <1>4, <1>5

\* A socket is detached when its heartbeat is too old or its peer is gone.
LEMMA QuietDetach ==
  ASSUME GateInv, GateInv', Few, Undecided, NEW f \in Conn, CheckExpire(f) \/ ClosedByPeer(f),
         UNCHANGED mgrVars
  PROVE  QuietStep /\ Few' /\ Undecided'
<1>1. UNCHANGED <<fate, login, live, mgrQ, gateQ, groles>>
  BY DEF CheckExpire, ClosedByPeer
<1>2. OldMail /\ SameMail
  BY <1>1, StayOld
<1>3. \A e \in Conn : task'[e] \in {"spawn", "wait"} => task'[e] = task[e]
  BY DEF CheckExpire, ClosedByPeer, CloseNow, GateInv, TypeOK, GateTypeOK
<1>4. CASE closer' = closer
  BY <1>1, <1>2, <1>3, <1>4, QuietGate, QuietGateSame
<1>5. CASE closer' # closer
  <2>1. Detaches(f)
    BY <1>5 DEF CheckExpire, ClosedByPeer
  <2>2. PICK c \in Conn : c = recfd[Current(sock[f])] /\ closer[c].why = "none"
    BY <2>1, DetachFacts
  <2>3. \E l : CloseLater(c, "check", l, Nil) \/ CloseLater(c, "loop", l, Nil)
    BY <1>5, <2>2 DEF CheckExpire, ClosedByPeer, CloseNow
  <2>4. closer'[c].why # "logout" /\ \A e \in Conn \ {c} : closer'[e] = closer[e]
    BY <2>3 DEF CloseLater, GateInv, TypeOK, GateTypeOK
  <2> QED
    BY <1>1, <1>2, <1>3, <2>2, <2>4, QuietGateSame
<1> QED
  BY <1>4, <1>5

\* socket.close returns in gate.check, in client_loop or in gate.reenter_role.
LEMMA QuietClosed ==
  ASSUME GateInv, GateInv', Few, Undecided, NEW f \in Conn,
         CloseDoneLoop(f) \/ CloseDoneCheck(f) \/ CloseDoneReenter(f), UNCHANGED mgrVars
  PROVE  QuietStep /\ Few' /\ Undecided'
<1>1. UNCHANGED <<login, live, mgrQ, gateQ, groles>>
  BY DEF CloseDoneLoop, CloseDoneCheck, CloseDoneReenter
<1>2. OldMail /\ SameMail
  BY <1>1, StayOld
<1>3. /\ closer[f].why \in {"loop", "check", "reenter"} /\ closer'[f].why = "none"
      /\ \A e \in Conn \ {f} : closer'[e] = closer[e]
  BY DEF CloseDoneLoop, CloseDoneCheck, CloseDoneReenter, Closed, NoCloser, GateInv, TypeOK, GateTypeOK
<1>4. CASE CloseDoneLoop(f) \/ CloseDoneCheck(f)
  <2>1. fate' = fate /\ task' = [task EXCEPT ![f] = "stop"]
    BY <1>4 DEF CloseDoneLoop, CloseDoneCheck
  <2>2. \A e \in Conn : task'[e] \in {"spawn", "wait"} => task'[e] = task[e]
    BY <2>1 DEF GateInv, TypeOK, GateTypeOK
  <2> QED
    BY <1>1, <1>2, <1>3, <2>1, <2>2, QuietGateSame
<1>5. CASE CloseDoneReenter(f)
  <2>1. PICK h \in Conn : h = closer[f].heir /\ task[h] = "wait" /\ task[f] = "read"
    BY <1>5 DEF CloseDoneReenter, Closed, GateInv, Closing
  <2>2. \E w \in {"lost", "start"}, x \in {"dropped", "answered"} :
           task' = [task EXCEPT ![f] = "stop", ![h] = w] /\ fate' = [fate EXCEPT ![h] = x]
    BY <1>5, <2>1 DEF CloseDoneReenter
  <2>3. /\ fate'[h] \in {"dropped", "answered"} /\ task'[h] \in {"lost", "start"}
        /\ \A e \in Conn \ {h} : fate'[e] = fate[e] /\ (task'[e] = task[e] \/ task'[e] = "stop")
    BY <2>1, <2>2 DEF GateInv, TypeOK, NetTypeOK, GateTypeOK
  <2> QED
    BY <1>1, <1>2, <1>3, <2>3, QuietGate
<1> QED
  BY <1>4, <1>5

\* A role service that does not leave.
LEMMA QuietRole ==
  ASSUME GateInv, Few, Undecided, NEW l \in Conn,
         RoleHandle(l) \/ LoginSaved(l) \/ SaveDone(l) \/ SaveDue(l)
           \/ (StopDue(l) /\ data[l] # "bare"),
         UNCHANGED <<mgrVars, gateVars>>
  PROVE  QuietStep /\ Few' /\ Undecided'
<1>1. UNCHANGED <<fate, want, at, mgrQ, gateQ, live>>
  BY DEF RoleHandle, Connected, Reconnected, Disconnected, NextFor, LoginSaved, SaveDone,
     SaveDue, StopDue, netVars, login, queues
<1> QED
  BY <1>1, QuietFrame DEF mgrVars, gateVars, tables

-----------------------------------------------------------------------------
(* The load counts, step by step.                                            *)

\* A step that leaves services, records, loads and logouts alone.
LEMMA CountsKept ==
  ASSUME GateInv, TypeOK', Few, Few', Counted, Backed, UNCHANGED <<live, groles>>,
         \A g \in Gate : Load(g)' = Load(g), SameLogins, SameLogouts, SameMail
  PROVE  Counted' /\ Backed'
<1>1. Backed'
  BY BackedKept
<1>2. ASSUME NEW g \in Gate PROVE Load(g)' - Load(g) >= Debt(g)' - Debt(g)
  <2>1. Debt(g)' = Debt(g) /\ Load(g)' = Load(g)
    BY DebtKept
  <2>2. Debt(g) \in Int /\ Load(g) \in Int
    BY DebtTypes, LoadTypes DEF Debt, GateInv
  <2> QED
    BY <2>1, <2>2
<1>3. Counted'
  BY <1>2, CountedStep DEF GateInv
<1> QED
  BY <1>1, <1>3

\* The service of f is launched: its gate has one more, and its add_role is sent.
LEMMA LaunchedCounts ==
  ASSUME GateInv, TypeOK', Few, Counted, Backed, NEW f \in Conn, Launched(f), UNCHANGED mgrVars
  PROVE  Few' /\ Counted' /\ Backed'
<1>1. f \notin live /\ at[f] \in Gate /\ want[f] \in Role
  BY DEF Launched, GateInv, TypeOK, NetTypeOK, Handed
<1>2. /\ live' = live \cup {f} /\ UNCHANGED <<want, at, gateQ, closer, cnt>>
      /\ SendMgr("add_role", at[f], want[f])
      /\ groles' = [groles EXCEPT ![at[f]][want[f]] = f]
  BY DEF Launched, login, mgrVars, tables
<1>3. Few'
  BY <1>2, FS_AddElement DEF Few
<1>4. \A g \in Gate : Leaving(g)' = Leaving(g) /\ LogoutWaits(g)' = LogoutWaits(g)
  BY <1>2 DEF Leaving, LogoutWaits
<1>5. \A g \in Gate : Served(g)' = IF g = at[f] THEN Served(g) \cup {f} ELSE Served(g)
  BY <1>1, <1>2 DEF Served
<1>6. ASSUME NEW g \in Gate PROVE Load(g)' - Load(g) >= Debt(g)' - Debt(g)
  <2>1. Load(g)' = Load(g) + (IF g = at[f] THEN 1 ELSE 0) /\ Load(g) \in Int
    BY <1>1, <1>2, LoadSent, LoadTypes DEF GateInv
  <2>2. /\ IsFiniteSet(Served(g)) /\ Cardinality(Served(g)) \in Nat /\ f \notin Served(g)
        /\ Cardinality(Leaving(g)) \in Nat /\ Cardinality(LogoutWaits(g)) \in Nat
    BY <1>1, DebtTypes DEF GateInv, Served
  <2>3. Cardinality(Served(g)') = Cardinality(Served(g)) + (IF g = at[f] THEN 1 ELSE 0)
    BY <1>5, <2>2, FS_AddElement
  <2> QED
    BY <1>4, <2>1, <2>2, <2>3 DEF Debt
<1>7. Counted'
  BY <1>3, <1>6, CountedStep DEF GateInv
<1>8. Backed'
  <2> SUFFICES ASSUME NEW g \in Gate, NEW r \in Role, groles'[g][r] # Nil
               PROVE  \/ \E l \in Served(g)' : want'[l] = r
                      \/ \E i \in Leaving(g)' : gateQ'[g][i].role = r
                      \/ \E e \in LogoutWaits(g)' : want'[closer'[e].rec] = r
    BY DEF Backed
  <2>1. CASE g = at[f] /\ r = want[f]
    BY <1>2, <1>5, <2>1
  <2>2. CASE ~(g = at[f] /\ r = want[f])
    <3>1. groles[g][r] # Nil
      BY <1>1, <1>2, <2>2 DEF GateInv, TypeOK, GateTypeOK
    <3> QED
      BY <1>2, <1>4, <1>5, <3>1 DEF Backed
  <2> QED
    BY <2>1, <2>2
<1> QED
  BY <1>3, <1>7, <1>8

\* Gate g is sent m.
Gets(g, m) == gateQ' = [gateQ EXCEPT ![g] = Append(@, m)]

\* A message that a gate gets, as its mailbox shows it.
LEMMA MailSent ==
  ASSUME TypeOK, NEW g \in Gate, NEW m \in GateMsg, m.op = "logout",
         Gets(g, m), NEW h \in Gate
  PROVE  /\ Cardinality(Leaving(h)') = Cardinality(Leaving(h)) + (IF h = g THEN 1 ELSE 0)
         /\ Leaving(h)' = IF h = g THEN Leaving(h) \cup {Len(gateQ[h]) + 1} ELSE Leaving(h)
         /\ \A i \in Leaving(h) : gateQ'[h][i] = gateQ[h][i]
         /\ h = g => gateQ'[h][Len(gateQ[h]) + 1] = m /\ Len(gateQ[h]) + 1 \notin Leaving(h)
<1>1. gateQ[h] \in Seq(GateMsg) /\ (h # g => gateQ'[h] = gateQ[h])
      /\ (h = g => gateQ'[h] = Append(gateQ[h], m))
  BY DEF TypeOK, NetTypeOK, Gets
<1>2. IsFiniteSet(Leaving(h)) /\ Cardinality(Leaving(h)) \in Nat
  BY <1>1, LeavingIs, OccFinite, FS_CardinalityType
<1>3. CASE h # g
  <2>1. gateQ'[h] = gateQ[h]
    BY <1>1, <1>3
  <2>2. Leaving(h)' = Leaving(h)
    BY <2>1 DEF Leaving
  <2>3. Cardinality(Leaving(h)') = Cardinality(Leaving(h)) + 0
    BY <1>2, <2>2
  <2> QED
    BY <1>3, <2>1, <2>2, <2>3
<1>4. CASE h = g
  <2>1. /\ Len(gateQ[h]) \in Nat /\ DOMAIN gateQ[h] = 1..Len(gateQ[h])
        /\ DOMAIN gateQ'[h] = 1..(Len(gateQ[h]) + 1)
        /\ \A i \in 1..Len(gateQ[h]) : gateQ'[h][i] = gateQ[h][i]
        /\ gateQ'[h][Len(gateQ[h]) + 1] = m
    BY <1>1, <1>4, AppendProperties, LenProperties
  <2>2. Leaving(h)' = Leaving(h) \cup {Len(gateQ[h]) + 1}
    BY <2>1 DEF Leaving
  <2>3. Len(gateQ[h]) + 1 \notin Leaving(h)
    BY <2>1 DEF Leaving
  <2>4. Cardinality(Leaving(h)') = Cardinality(Leaving(h)) + 1
    BY <1>2, <2>2, <2>3, FS_AddElement
  <2>5. \A i \in Leaving(h) : gateQ'[h][i] = gateQ[h][i]
    BY <2>1 DEF Leaving
  <2> QED
    BY <1>4, <2>1, <2>2, <2>3, <2>4, <2>5
<1> QED
  BY <1>3, <1>4

\* A service leaves: what its gate will take off its load is the logout message.
LEMMA LeaveCounts ==
  ASSUME GateInv, TypeOK', Few, Counted, Backed, NEW l \in live, Leave(l),
         UNCHANGED <<mgrVars, gateVars>>
  PROVE  Few' /\ Counted' /\ Backed'
<1>1. l \in Conn /\ at[l] \in Gate /\ want[l] \in Role
  BY DEF GateInv, TypeOK, NetTypeOK, Handed
<1>2. live' = live \ {l} /\ UNCHANGED <<want, at, closer, cnt, mgrQ, groles>>
  BY <1>1 DEF Leave, login, mgrVars, gateVars, tables
<1>9. PICK h \in Gate, m \in GateMsg :
      /\ h = at[l] /\ m.op = "logout" /\ m.role = want[l]
      /\ Gets(h, m)
  <2>1. [op |-> "logout", fd |-> Nil, role |-> want[l]] \in GateMsg
    BY <1>1 DEF GateMsg
  <2> QED
    BY <1>1, <2>1 DEF Leave, SendGate, Gets
<1>10. TypeOK
  BY DEF GateInv
<1>3. Few'
  BY <1>2, FS_RemoveElement DEF Few
<1>4. \A g \in Gate : LogoutWaits(g)' = LogoutWaits(g)
  BY <1>2 DEF LogoutWaits
<1>5. \A g \in Gate : Served(g)' = Served(g) \ {l} /\ (l \in Served(g) <=> g = h)
  BY <1>2, <1>9 DEF Served
<1>6. ASSUME NEW g \in Gate PROVE Load(g)' - Load(g) >= Debt(g)' - Debt(g)
  <2>1. Load(g)' = Load(g) /\ Load(g) \in Int
    BY <1>2, LoadKept, LoadTypes DEF GateInv
  <2>2. /\ IsFiniteSet(Served(g)) /\ Cardinality(Served(g)) \in Nat
        /\ Cardinality(Leaving(g)) \in Nat /\ Cardinality(LogoutWaits(g)) \in Nat
    BY DebtTypes DEF GateInv
  <2>3. Cardinality(Served(g)') = Cardinality(Served(g)) - (IF g = h THEN 1 ELSE 0)
    <3>1. Cardinality(Served(g) \ {l}) =
            IF l \in Served(g) THEN Cardinality(Served(g)) - 1 ELSE Cardinality(Served(g))
      BY <2>2, FS_RemoveElement
    <3>2. Served(g)' = Served(g) \ {l} /\ (l \in Served(g) <=> g = h)
      BY <1>5
    <3> QED
      BY ONLY <2>2, <3>1, <3>2
  <2>4. Cardinality(Leaving(g)') = Cardinality(Leaving(g)) + (IF g = h THEN 1 ELSE 0)
    BY ONLY <1>9, <1>10, MailSent, g \in Gate
  <2> QED
    BY <1>4, <2>1, <2>2, <2>3, <2>4 DEF Debt
<1>7. Counted'
  BY <1>3, <1>6, CountedStep DEF GateInv
<1>8. Backed'
  <2> SUFFICES ASSUME NEW g \in Gate, NEW r \in Role, groles[g][r] # Nil
               PROVE  \/ \E k \in Served(g)' : want[k] = r
                      \/ \E i \in Leaving(g)' : gateQ'[g][i].role = r
                      \/ \E e \in LogoutWaits(g)' : want[closer[e].rec] = r
    BY <1>2 DEF Backed
  <2>1. /\ Leaving(g)' = IF g = h THEN Leaving(g) \cup {Len(gateQ[g]) + 1} ELSE Leaving(g)
        /\ \A i \in Leaving(g) : gateQ'[g][i] = gateQ[g][i]
        /\ g = h => gateQ'[g][Len(gateQ[g]) + 1] = m
    BY ONLY <1>9, <1>10, MailSent, g \in Gate
  <2>2. CASE g = h /\ r = want[l]
    BY <1>9, <2>1, <2>2
  <2>3. CASE ~(g = h /\ r = want[l])
    <3>1. \/ \E k \in Served(g) : want[k] = r
          \/ \E i \in Leaving(g) : gateQ[g][i].role = r
          \/ \E e \in LogoutWaits(g) : want[closer[e].rec] = r
      BY DEF Backed
    <3> QED
      BY <1>4, <1>5, <1>9, <2>1, <2>3, <3>1
  <2> QED
    BY <2>2, <2>3
<1> QED
  BY <1>3, <1>7, <1>8

\* A logout message that a gate takes, as its mailbox shows it.
LEMMA MailTaken ==
  ASSUME TypeOK, NEW g \in Gate, Next1(g, "logout"), Pop(g), NEW h \in Gate
  PROVE  /\ Cardinality(Leaving(h)') = Cardinality(Leaving(h)) - (IF h = g THEN 1 ELSE 0)
         /\ h # g => /\ Leaving(h)' = Leaving(h)
                     /\ gateQ'[h] = gateQ[h]
         /\ h = g => /\ 1 \in Leaving(h) /\ gateQ[h][1] = Head(gateQ[h])
                     /\ \A i \in Leaving(h) : i # 1 =>
                           i - 1 \in Leaving(h)' /\ gateQ'[h][i - 1] = gateQ[h][i]
                     /\ \A i \in Leaving(h)' :
                           i + 1 \in Leaving(h) /\ i + 1 # 1 /\ gateQ[h][i + 1] = gateQ'[h][i]
<1>1. gateQ[h] \in Seq(GateMsg) /\ (h # g => gateQ'[h] = gateQ[h])
      /\ (h = g => /\ gateQ'[h] = Tail(gateQ[h]) /\ gateQ[h] # <<>>
                   /\ Head(gateQ[h]).op = "logout")
  BY DEF TypeOK, NetTypeOK, Pop, Next1
<1>2. IsFiniteSet(Leaving(h)) /\ Cardinality(Leaving(h)) \in Nat
  BY <1>1, LeavingIs, OccFinite, FS_CardinalityType
<1>3. CASE h # g
  <2>1. Leaving(h)' = Leaving(h)
    BY <1>1, <1>3 DEF Leaving
  <2>2. Cardinality(Leaving(h)') = Cardinality(Leaving(h)) - 0
    BY <1>2, <2>1
  <2> QED
    BY <1>1, <1>3, <2>1, <2>2
<1>4. CASE h = g
  <2>0. gateQ[h] \in Seq(GateMsg) /\ gateQ[h] # <<>> /\ gateQ'[h] = Tail(gateQ[h])
    BY <1>1, <1>4
  <2>1. /\ Len(gateQ[h]) \in Nat /\ Len(gateQ[h]) > 0 /\ DOMAIN gateQ[h] = 1..Len(gateQ[h])
        /\ DOMAIN gateQ'[h] = 1..(Len(gateQ[h]) - 1)
        /\ \A i \in 1..(Len(gateQ[h]) - 1) : gateQ'[h][i] = gateQ[h][i + 1]
        /\ Head(gateQ[h]) = gateQ[h][1]
    BY ONLY <2>0, HeadTailProperties, LenProperties, EmptySeq
  <2>2. 1 \in Leaving(h) /\ gateQ[h][1] = Head(gateQ[h])
    BY <1>1, <1>4, <2>1 DEF Leaving
  <2>3. \A i \in Leaving(h) : i # 1 => i - 1 \in Leaving(h)' /\ gateQ'[h][i - 1] = gateQ[h][i]
    <3> SUFFICES ASSUME NEW i \in Leaving(h), i # 1
                 PROVE  i - 1 \in Leaving(h)' /\ gateQ'[h][i - 1] = gateQ[h][i]
      OBVIOUS
    <3>1. i \in 1..Len(gateQ[h]) /\ gateQ[h][i].op = "logout"
      BY <2>1 DEF Leaving
    <3>2. i - 1 \in 1..(Len(gateQ[h]) - 1) /\ (i - 1) + 1 = i
      BY <2>1, <3>1
    <3> QED
      BY <2>1, <3>1, <3>2 DEF Leaving
  <2>4. \A i \in Leaving(h)' : i + 1 \in Leaving(h) /\ i + 1 # 1 /\ gateQ[h][i + 1] = gateQ'[h][i]
    BY <2>1 DEF Leaving
  <2>5. Cardinality(Leaving(h)') = Cardinality(Leaving(h)) - 1
    <3>1. Head(gateQ[h]) \in Logouts
      BY <1>1, <1>4, HeadTailProperties DEF Logouts
    <3>2. Leaving(h) = Occ(gateQ[h], Logouts)
      BY LeavingIs
    <3>3. Tail(gateQ[h]) \in Seq(GateMsg)
      BY <1>1, <1>4, HeadTailProperties
    <3>4. Leaving(h)' = Occ(Tail(gateQ[h]), Logouts)
      <4>1. \A i \in DOMAIN Tail(gateQ[h]) : Tail(gateQ[h])[i] \in GateMsg
        BY <3>3
      <4> QED
        BY <1>1, <1>4, <4>1 DEF Leaving, Occ, Logouts
    <3>5. Cardinality(Occ(gateQ[h], Logouts)) =
            Cardinality(Occ(Tail(gateQ[h]), Logouts)) + (IF Head(gateQ[h]) \in Logouts THEN 1 ELSE 0)
      BY <1>1, <1>4, OccTail
    <3>6. Cardinality(Occ(Tail(gateQ[h]), Logouts)) \in Nat
      BY <3>3, OccFinite
    <3> QED
      BY ONLY <3>1, <3>2, <3>4, <3>5, <3>6
  <2> QED
    BY <1>4, <2>2, <2>3, <2>4, <2>5
<1> QED
  BY <1>3, <1>4

\* What gate.logout does, by what it finds.
LEMMA LogoutCases ==
  ASSUME GateInv, NEW g \in Gate, Logout(g), UNCHANGED mgrVars
  PROVE  \E r \in Role :
           /\ r = Head(gateQ[g]).role
           /\ UNCHANGED <<live, want, at, cnt>> /\ Next1(g, "logout") /\ Pop(g)
           /\ \/ groles[g][r] = Nil /\ UNCHANGED <<mgrQ, groles, closer, task>>
              \/ /\ groles[g][r] # Nil /\ closer' = closer
                 /\ groles' = [groles EXCEPT ![g][r] = Nil]
                 /\ SendMgr("del_role", g, r)
              \/ \E c, l \in Conn :
                    /\ l = groles[g][r] /\ at[l] = g /\ want[l] = r /\ closer[c].why = "none"
                    /\ CloseLater(c, "logout", l, Nil)
                    /\ UNCHANGED <<mgrQ, groles, task>>
<1> DEFINE r == Head(gateQ[g]).role
           l == groles[g][r]
<1>1. Next1(g, "logout") /\ Pop(g)
  BY DEF Logout
<1>2. r \in Role
  <2>1. Head(gateQ[g]) \in GateMsg
    BY <1>1, HeadTailProperties DEF GateInv, TypeOK, NetTypeOK, Next1
  <2> QED
    BY <2>1 DEF GateMsg
<1>3. UNCHANGED <<live, want, at, cnt>>
  BY DEF Logout, login, mgrVars, tables
<1>4. CASE groles[g][r] = Nil
  BY <1>1, <1>2, <1>3, <1>4 DEF Logout
<1>5. CASE groles[g][r] # Nil
  <2>1. l \in Conn /\ at[l] = g /\ want[l] = r
    BY <1>2, <1>5 DEF GateInv, TypeOK, GateTypeOK, Records
  <2>2. CASE recfd[l] = Nil
    BY <1>1, <1>2, <1>3, <1>5, <2>2 DEF Logout
  <2>3. CASE recfd[l] # Nil /\ Waits(recfd[l])
    <3>1. closer[recfd[l]].why = "none" /\ recfd[l] \in Conn
      BY <2>1, <2>3, LinkedSock
    <3>2. CloseLater(recfd[l], "logout", l, Nil) /\ UNCHANGED <<mgrQ, groles, task>>
      BY <1>5, <2>3 DEF Logout
    <3> QED
      BY <1>1, <1>2, <1>3, <2>1, <3>1, <3>2
  <2>4. CASE recfd[l] # Nil /\ ~Waits(recfd[l])
    BY <1>1, <1>2, <1>3, <1>5, <2>4 DEF Logout, CloseNow
  <2> QED
    BY <2>2, <2>3, <2>4
<1> QED
  BY <1>4, <1>5

\* A gate handles a logout: the load that it stood for is taken off, or waits.
LEMMA LogoutCounts ==
  ASSUME GateInv, TypeOK', Few, Counted, Backed, NEW g \in Gate, Logout(g), UNCHANGED mgrVars
  PROVE  Few' /\ Counted' /\ Backed'
<1>1. PICK r \in Role :
           /\ r = Head(gateQ[g]).role
           /\ UNCHANGED <<live, want, at, cnt>> /\ Next1(g, "logout") /\ Pop(g)
           /\ \/ groles[g][r] = Nil /\ UNCHANGED <<mgrQ, groles, closer, task>>
              \/ /\ groles[g][r] # Nil /\ closer' = closer
                 /\ groles' = [groles EXCEPT ![g][r] = Nil]
                 /\ SendMgr("del_role", g, r)
              \/ \E c, l \in Conn :
                    /\ l = groles[g][r] /\ at[l] = g /\ want[l] = r /\ closer[c].why = "none"
                    /\ CloseLater(c, "logout", l, Nil)
                    /\ UNCHANGED <<mgrQ, groles, task>>
  BY LogoutCases
<1>2. TypeOK
  BY DEF GateInv
<1>3. \A h \in Gate : Cardinality(Leaving(h)') = Cardinality(Leaving(h)) - (IF h = g THEN 1 ELSE 0)
  BY <1>1, <1>2, MailTaken
<1>4. \A h \in Gate : Served(h)' = Served(h)
  BY <1>1 DEF Served
<1>5. \A h \in Gate : /\ IsFiniteSet(Served(h)) /\ Cardinality(Served(h)) \in Nat
                      /\ IsFiniteSet(Leaving(h)) /\ Cardinality(Leaving(h)) \in Nat
                      /\ IsFiniteSet(LogoutWaits(h)) /\ Cardinality(LogoutWaits(h)) \in Nat
                      /\ Load(h) \in Int
  BY <1>2, DebtTypes, LoadTypes
\* The witness that a record was accounted for is still there.
<1>6. ASSUME NEW h \in Gate, NEW s \in Role, groles[h][s] # Nil, h # g \/ s # r,
             \A e \in LogoutWaits(h) : e \in LogoutWaits(h)' /\ closer'[e] = closer[e]
      PROVE  \/ \E l \in Served(h)' : want'[l] = s
             \/ \E i \in Leaving(h)' : gateQ'[h][i].role = s
             \/ \E e \in LogoutWaits(h)' : want'[closer'[e].rec] = s
  <2>1. \/ \E l \in Served(h) : want[l] = s
        \/ \E i \in Leaving(h) : gateQ[h][i].role = s
        \/ \E e \in LogoutWaits(h) : want[closer[e].rec] = s
    BY <1>6 DEF Backed
  <2>2. CASE \E i \in Leaving(h) : gateQ[h][i].role = s
    <3>1. PICK i \in Leaving(h) : gateQ[h][i].role = s
      BY <2>2
    <3>2. CASE h # g
      <4>1. Leaving(h)' = Leaving(h) /\ gateQ'[h] = gateQ[h]
        BY <1>1, <1>2, <3>2, MailTaken
      <4> QED
        BY <3>1, <4>1
    <3>3. CASE h = g
      <4>1. /\ gateQ[h][1] = Head(gateQ[h])
            /\ i # 1 => i - 1 \in Leaving(h)' /\ gateQ'[h][i - 1] = gateQ[h][i]
        BY <1>1, <1>2, <3>3, MailTaken
      <4>2. i # 1
        BY <1>1, <1>6, <3>1, <3>3, <4>1
      <4> QED
        BY <3>1, <4>1, <4>2
    <3> QED
      BY <3>2, <3>3
  <2>3. CASE \E e \in LogoutWaits(h) : want[closer[e].rec] = s
    BY <1>1, <1>6, <2>3
  <2> QED
    BY <1>1, <1>4, <2>1, <2>2, <2>3
<1>7. CASE closer' = closer
  <2>1. Few'
    BY <1>1, <1>7 DEF Few
  <2>2. \A h \in Gate : LogoutWaits(h)' = LogoutWaits(h)
    BY <1>1, <1>7 DEF LogoutWaits
  <2>3. ASSUME NEW h \in Gate PROVE Load(h)' - Load(h) >= Debt(h)' - Debt(h)
    <3>1. Load(h)' = Load(h) \/ (Load(h)' = Load(h) - 1 /\ h = g) 
      <4>1. CASE UNCHANGED mgrQ
        BY <1>1, <4>1, LoadKept
      <4>2. CASE SendMgr("del_role", g, r)
        BY <1>1, <1>2, <1>5, <4>2, LoadSent
      <4>3. UNCHANGED mgrQ \/ SendMgr("del_role", g, r)
        <5>1. ASSUME NEW c \in Conn, NEW l, CloseLater(c, "logout", l, Nil), closer[c].why = "none"
              PROVE  FALSE
          BY <1>2, <1>7, <5>1 DEF CloseLater, TypeOK, GateTypeOK
        <5> QED
          BY <1>1, <5>1
      <4> QED
        BY <4>1, <4>2, <4>3
    <3>2. /\ Cardinality(Leaving(h)') = Cardinality(Leaving(h)) - (IF h = g THEN 1 ELSE 0)
          /\ Served(h)' = Served(h) /\ LogoutWaits(h)' = LogoutWaits(h)
      BY <1>3, <1>4, <2>2
    <3> QED
      BY <1>5, <3>1, <3>2 DEF Debt
  <2>4. Counted'
    BY <1>2, <2>1, <2>3, CountedStep
  <2>5. Backed'
    <3> SUFFICES ASSUME NEW h \in Gate, NEW s \in Role, groles'[h][s] # Nil
                 PROVE  \/ \E l \in Served(h)' : want'[l] = s
                        \/ \E i \in Leaving(h)' : gateQ'[h][i].role = s
                        \/ \E e \in LogoutWaits(h)' : want'[closer'[e].rec] = s
      BY DEF Backed
    <3>1. groles[h][s] # Nil /\ (h # g \/ s # r)
      <4>1. groles' \in {groles, [groles EXCEPT ![g][r] = Nil]} /\ groles'[g][r] = Nil
        <5>1. ASSUME NEW c \in Conn, NEW l, CloseLater(c, "logout", l, Nil), closer[c].why = "none"
              PROVE  FALSE
          BY <1>2, <1>7, <5>1 DEF CloseLater, TypeOK, GateTypeOK
        <5> QED
          BY <1>1, <1>2, <5>1 DEF TypeOK, GateTypeOK
      <4> QED
        BY <1>2, <4>1 DEF TypeOK, GateTypeOK
    <3> QED
      BY <1>6, <1>7, <2>2, <3>1
  <2> QED
    BY <2>1, <2>4, <2>5
<1>8. ASSUME NEW c \in Conn, NEW l \in Conn, l = groles[g][r], at[l] = g, want[l] = r,
             closer[c].why = "none", CloseLater(c, "logout", l, Nil), UNCHANGED <<mgrQ, groles>>
      PROVE  Few' /\ Counted' /\ Backed'
  <2>1. /\ closer'[c].why = "logout" /\ closer'[c].rec = l
        /\ \A e \in Conn \ {c} : closer'[e] = closer[e]
    BY <1>2, <1>8 DEF CloseLater, TypeOK, GateTypeOK
  <2>2. Few'
    BY <1>1, <2>1, FewKept
  <2>3. \A h \in Gate : /\ LogoutWaits(h)' = IF h = g THEN LogoutWaits(h) \cup {c} ELSE LogoutWaits(h)
                        /\ c \notin LogoutWaits(h)
    BY <1>1, <1>8, <2>1 DEF LogoutWaits
  <2>4. ASSUME NEW h \in Gate PROVE Load(h)' - Load(h) >= Debt(h)' - Debt(h)
    <3>1. Load(h)' = Load(h)
      BY <1>1, <1>8, LoadKept
    <3>2. Cardinality(LogoutWaits(h)') = Cardinality(LogoutWaits(h)) + (IF h = g THEN 1 ELSE 0)
      <4>1. /\ LogoutWaits(h)' = IF h = g THEN LogoutWaits(h) \cup {c} ELSE LogoutWaits(h)
            /\ c \notin LogoutWaits(h) /\ IsFiniteSet(LogoutWaits(h))
            /\ Cardinality(LogoutWaits(h)) \in Nat
        BY <1>5, <2>3
      <4>2. CASE h = g
        <5>1. Cardinality(LogoutWaits(h) \cup {c}) = Cardinality(LogoutWaits(h)) + 1
          BY ONLY <4>1, FS_AddElement
        <5> QED
          BY ONLY <4>1, <4>2, <5>1
      <4>3. CASE h # g
        BY ONLY <4>1, <4>3
      <4> QED
        BY <4>2, <4>3
    <3>3. /\ Cardinality(Leaving(h)') = Cardinality(Leaving(h)) - (IF h = g THEN 1 ELSE 0)
          /\ Served(h)' = Served(h)
      BY <1>3, <1>4
    <3> QED
      BY <1>5, <3>1, <3>2, <3>3 DEF Debt
  <2>5. Counted'
    BY <1>2, <2>2, <2>4, CountedStep
  <2>6. Backed'
    <3> SUFFICES ASSUME NEW h \in Gate, NEW s \in Role, groles'[h][s] # Nil
                 PROVE  \/ \E k \in Served(h)' : want'[k] = s
                        \/ \E i \in Leaving(h)' : gateQ'[h][i].role = s
                        \/ \E e \in LogoutWaits(h)' : want'[closer'[e].rec] = s
      BY DEF Backed
    <3>1. CASE h = g /\ s = r
      BY <1>1, <1>8, <2>1, <2>3, <3>1
    <3>2. CASE h # g \/ s # r
      <4>1. \A e \in LogoutWaits(h) : e \in LogoutWaits(h)' /\ closer'[e] = closer[e]
        BY <2>1, <2>3 DEF LogoutWaits
      <4> QED
        BY <1>6, <1>8, <3>2, <4>1
    <3> QED
      BY <3>1, <3>2
  <2> QED
    BY <2>2, <2>5, <2>6
<1> QED
  BY <1>1, <1>7, <1>8

\* A logout that waited for a socket goes on.
LEMMA CloseDoneLogoutCounts ==
  ASSUME GateInv, TypeOK', Few, Counted, Backed, NEW f \in Conn, CloseDoneLogout(f),
         UNCHANGED mgrVars
  PROVE  Few' /\ Counted' /\ Backed'
<1>1. PICK l \in Conn, g \in Gate, r \in Role :
         l = closer[f].rec /\ g = at[l] /\ r = want[l]
  BY DEF CloseDoneLogout, Closed, GateInv, Closing, Handed, TypeOK, NetTypeOK
<1>2. /\ UNCHANGED <<live, want, at, cnt, gateQ>> /\ SendMgr("del_role", g, r)
      /\ groles' = [groles EXCEPT ![g][r] = Nil]
  BY <1>1 DEF CloseDoneLogout, login, mgrVars, tables
<1>3. /\ closer[f].why = "logout" /\ closer'[f].why = "none"
      /\ \A e \in Conn \ {f} : closer'[e] = closer[e]
  BY DEF CloseDoneLogout, Closed, NoCloser, GateInv, TypeOK, GateTypeOK
<1>4. Few'
  BY <1>2, <1>3, FewKept
<1>5. \A h \in Gate : Served(h)' = Served(h) /\ Leaving(h)' = Leaving(h)
  BY <1>2 DEF Served, Leaving
<1>6. \A h \in Gate : LogoutWaits(h)' = LogoutWaits(h) \ {f} /\ (f \in LogoutWaits(h) <=> h = g)
  BY <1>1, <1>2, <1>3 DEF LogoutWaits
<1>7. ASSUME NEW h \in Gate PROVE Load(h)' - Load(h) >= Debt(h)' - Debt(h)
  <2>1. Load(h)' = Load(h) + (IF h = g THEN -1 ELSE 0) /\ Load(h) \in Int
    BY <1>2, LoadSent, LoadTypes DEF GateInv
  <2>2. /\ Cardinality(Served(h)) \in Nat /\ Cardinality(Leaving(h)) \in Nat
        /\ IsFiniteSet(LogoutWaits(h)) /\ Cardinality(LogoutWaits(h)) \in Nat
    BY DebtTypes DEF GateInv
  <2>3. Cardinality(LogoutWaits(h)') = Cardinality(LogoutWaits(h)) - (IF h = g THEN 1 ELSE 0)
    <3>1. LogoutWaits(h)' = LogoutWaits(h) \ {f} /\ (f \in LogoutWaits(h) <=> h = g)
      BY <1>6
    <3>2. Cardinality(LogoutWaits(h) \ {f}) = IF f \in LogoutWaits(h)
             THEN Cardinality(LogoutWaits(h)) - 1 ELSE Cardinality(LogoutWaits(h))
      BY <2>2, FS_RemoveElement
    <3> QED
      BY ONLY <2>2, <3>1, <3>2
  <2> QED
    BY <1>5, <2>1, <2>2, <2>3 DEF Debt
<1>8. Counted'
  BY <1>4, <1>7, CountedStep DEF GateInv
<1>9. Backed'
  <2> SUFFICES ASSUME NEW h \in Gate, NEW s \in Role, groles'[h][s] # Nil
               PROVE  \/ \E k \in Served(h)' : want'[k] = s
                      \/ \E i \in Leaving(h)' : gateQ'[h][i].role = s
                      \/ \E e \in LogoutWaits(h)' : want'[closer'[e].rec] = s
    BY DEF Backed
  <2>1. groles[h][s] # Nil /\ ~(h = g /\ s = r)
    BY <1>2 DEF GateInv, TypeOK, GateTypeOK
  <2>2. \/ \E k \in Served(h) : want[k] = s
        \/ \E i \in Leaving(h) : gateQ[h][i].role = s
        \/ \E e \in LogoutWaits(h) : want[closer[e].rec] = s
    BY <2>1 DEF Backed
  <2>3. ASSUME NEW e \in LogoutWaits(h), want[closer[e].rec] = s
        PROVE  e \in LogoutWaits(h)' /\ closer'[e] = closer[e]
    BY <1>1, <1>3, <1>6, <2>1, <2>3 DEF LogoutWaits
  <2> QED
    BY <1>2, <1>5, <2>2, <2>3
<1> QED
  BY <1>4, <1>8, <1>9

-----------------------------------------------------------------------------
(* All steps.                                                                *)

\* A step is quiet, or one of those that start a login, give it a role or a gate,
\* or begin or end a role's stay in the game.
LEMMA StepCases ==
  ASSUME GateInv, GateInv', Few, Undecided, [Next]_vars
  PROVE  \/ QuietStep /\ Few' /\ Undecided'
         \/ /\ \/ \E f \in Conn : \/ \E r \in Asked : RecvAuth(f, r)
                                  \/ MaxDone(f)
                                  \/ InsertDone(f)
                                  \/ ApplyGate(f)
               \/ AddRole
               \/ DelRole
            /\ UNCHANGED gateVars
         \/ /\ \/ \E f \in Conn : Launched(f)
               \/ \E g \in Gate : Logout(g)
               \/ \E f \in Conn : CloseDoneLogout(f)
            /\ UNCHANGED mgrVars
         \/ \E l \in live : Leave(l) /\ UNCHANGED <<mgrVars, gateVars>>
<1>1. CASE ClientStep
  <2>1. ASSUME NEW f \in Conn, Accept(f) \/ RejectAuth(f), UNCHANGED gateVars
        PROVE  QuietStep /\ Few' /\ Undecided'
    BY <2>1, QuietMgr DEF RejectAuth
  <2>2. ASSUME NEW f \in Conn, ClientClose(f), UNCHANGED <<mgrVars, gateVars>>
        PROVE  QuietStep /\ Few' /\ Undecided'
    BY <2>2, QuietFrame DEF ClientClose, login, queues, mgrVars, tables, gateVars
  <2> QED
    BY <1>1, <2>1, <2>2 DEF ClientStep
<1>2. CASE MgrStep
  <2>1. ASSUME NEW f \in Conn, AccountDone(f) \/ ReadDone(f) \/ DbFails(f), UNCHANGED gateVars
        PROVE  QuietStep /\ Few' /\ Undecided'
    BY <2>1, QuietMgr DEF DbFails
  <2> QED
    BY <1>2, <2>1 DEF MgrStep
<1>3. CASE GateStep
  <2>1. UNCHANGED mgrVars
    BY <1>3 DEF GateStep
  <2>2. ASSUME NEW g \in Gate, GateHandle(g), ~Logout(g)
        PROVE  QuietStep /\ Few' /\ Undecided'
    BY <2>1, <2>2, QuietEnter, QuietReenter DEF GateHandle
  <2>3. ASSUME NEW f \in Conn, GateResume(f), ~Launched(f), ~CloseDoneLogout(f)
        PROVE  QuietStep /\ Few' /\ Undecided'
    BY <2>1, <2>3, QuietLoop, QuietDetach, QuietClosed DEF GateResume
  <2> QED
    BY <1>3, <2>1, <2>2, <2>3 DEF GateStep
<1>4. CASE RoleStep
  <2>1. UNCHANGED <<mgrVars, gateVars>>
    BY <1>4 DEF RoleStep
  <2>2. ASSUME NEW l \in Conn, StopSaved(l) \/ (StopDue(l) /\ data[l] = "bare")
        PROVE  l \in live /\ Leave(l)
    BY <2>2 DEF StopSaved, StopDue, GateInv, Running
  <2>3. ASSUME NEW l \in Conn, RoleHandle(l) \/ LoginSaved(l) \/ SaveDone(l) \/ SaveDue(l)
                                 \/ (StopDue(l) /\ data[l] # "bare")
        PROVE  QuietStep /\ Few' /\ Undecided'
    BY <2>1, <2>3, QuietRole
  <2> QED
    BY <1>4, <2>1, <2>2, <2>3 DEF RoleStep, RoleResume
<1>5. CASE UNCHANGED vars
  BY <1>5, QuietFrame DEF vars, netVars, login, queues, mgrVars, tables, gateVars
<1> QED
  BY <1>1, <1>2, <1>3, <1>4, <1>5 DEF Next

\* apply_gate gives a connection without a gate one, and sends the login there.
LEMMA ApplyIs ==
  ASSUME GateInv, NEW f \in Conn, ApplyGate(f)
  PROVE  /\ at[f] = Nil /\ want[f] \in Role /\ auth[f] = "pause" /\ auth'[f] = "applied"
         /\ \A e \in Conn \ {f} : auth'[e] = auth[e] /\ at'[e] = at[e]
         /\ \E g \in Gate, m \in GateMsg :
              /\ at'[f] = g /\ IsLogin(m) /\ m.fd = f /\ Gets(g, m)
              /\ m.op = "enter_role" => mroles[want[f]] = Nil
<1>1. at[f] = Nil /\ want[f] \in Role /\ auth[f] = "pause"
  BY DEF ApplyGate, GateInv, KnowsRole, Handed
<1>2. auth'[f] = "applied" /\ \A e \in Conn \ {f} : auth'[e] = auth[e]
  BY DEF ApplyGate, Goto, GateInv, TypeOK, MgrTypeOK
<1>3. ASSUME NEW g \in Gate, NEW op \in {"enter_role", "reenter_role"},
             at' = [at EXCEPT ![f] = g], SendGate(g, op, f, want[f]),
             op = "enter_role" => mroles[want[f]] = Nil
      PROVE  /\ \A e \in Conn \ {f} : at'[e] = at[e]
             /\ \E h \in Gate, m \in GateMsg :
                  /\ at'[f] = h /\ IsLogin(m) /\ m.fd = f /\ Gets(h, m)
                  /\ m.op = "enter_role" => mroles[want[f]] = Nil
  <2> DEFINE m == [op |-> op, fd |-> f, role |-> want[f]]
  <2>1. m \in GateMsg /\ IsLogin(m) /\ m.fd = f /\ m.op = op
    BY <1>1 DEF GateMsg, IsLogin
  <2>2. Gets(g, m)
    BY <1>3 DEF SendGate, Gets
  <2>3. at'[f] = g /\ \A e \in Conn \ {f} : at'[e] = at[e]
    BY <1>3 DEF GateInv, TypeOK, NetTypeOK
  <2> HIDE DEF m
  <2> QED
    BY <1>3, <2>1, <2>2, <2>3
<1>4. CASE mroles[want[f]] # Nil
  <2>1. mroles[want[f]] \in Gate
    BY <1>1, <1>4 DEF GateInv, TypeOK, MgrTypeOK
  <2> QED
    BY <1>1, <1>2, <1>3, <1>4, <2>1 DEF ApplyGate
<1>5. CASE mroles[want[f]] = Nil
  <2>1. PICK g \in Gate : at' = [at EXCEPT ![f] = g] /\ SendGate(g, "enter_role", f, want[f])
    BY <1>5 DEF ApplyGate, LightestGates
  <2> QED
    BY <1>1, <1>2, <1>3, <1>5, <2>1
<1> QED
  BY <1>4, <1>5

\* A login message that comes leaves the messages before it where they are.
LEMMA LoginSent ==
  ASSUME TypeOK, NEW g \in Gate, NEW m \in GateMsg, IsLogin(m), Gets(g, m)
  PROVE  /\ SameMail
         /\ \A h \in Gate : \A i \in DOMAIN gateQ'[h] :
               \/ i \in DOMAIN gateQ[h] /\ gateQ'[h][i] = gateQ[h][i]
               \/ gateQ'[h][i] = m
<1>1. \A h \in Gate : gateQ'[h] = IF h = g THEN Append(gateQ[h], m) ELSE gateQ[h]
  BY DEF TypeOK, NetTypeOK, Gets
<1>2. SameMail
  BY <1>1 DEF SameMail, LoginsOnly
<1>3. ASSUME NEW h \in Gate, NEW i \in DOMAIN gateQ'[h]
      PROVE  \/ i \in DOMAIN gateQ[h] /\ gateQ'[h][i] = gateQ[h][i]
             \/ gateQ'[h][i] = m
  <2>1. CASE h # g
    BY <1>1, <1>3, <2>1
  <2>2. CASE h = g
    <3>1. gateQ[h] \in Seq(GateMsg) /\ gateQ'[h] = Append(gateQ[h], m)
      BY <1>1, <2>2 DEF TypeOK, NetTypeOK
    <3> QED
      BY ONLY <1>3, <3>1, m \in GateMsg, AppendProperties, LenProperties
  <2> QED
    BY <2>1, <2>2
<1> QED
  BY <1>2, <1>3
-----------------------------------------------------------------------------
(* The counts and the pending logins, over all steps.                        *)

\* A quiet step changes no load and no debt.
LEMMA QuietCounts ==
  ASSUME GateInv, TypeOK', Few, Few', Counted, Backed, QuietStep
  PROVE  Counted' /\ Backed'
<1>1. \A g \in Gate : Load(g)' = Load(g)
  BY LoadKept DEF QuietStep
<1> QED
  BY <1>1, CountsKept DEF QuietStep

\* A login starts, gets its role or gets its gate.
LEMMA LoginCounts ==
  ASSUME GateInv, TypeOK', Few, Counted, Backed, NEW f \in Conn,
         \/ \E r \in Asked : RecvAuth(f, r)
         \/ MaxDone(f)
         \/ InsertDone(f)
         \/ ApplyGate(f),
         UNCHANGED gateVars
  PROVE  Few' /\ Counted' /\ Backed'
<1>1. UNCHANGED <<live, groles, closer, cnt, mgrQ>>
  BY DEF RecvAuth, MaxDone, InsertDone, ApplyGate, gateVars, queues, tables, login
<1>2. SameLogouts /\ Few'
  BY <1>1 DEF SameLogouts, Few
<1>3. at[f] = Nil /\ TypeOK
  BY ApplyIs DEF GateInv, Handed, RecvAuth, MaxDone, InsertDone
<1>4. SameLogins
  <2>1. CASE ApplyGate(f)
    <3>1. want' = want /\ \A e \in Conn \ {f} : at'[e] = at[e]
      BY <2>1, ApplyIs DEF ApplyGate
    <3> QED
      BY <3>1, <1>3 DEF SameLogins
  <2>2. CASE ~ApplyGate(f)
    <3>1. \A e \in Conn \ {f} : at'[e] = at[e] /\ want'[e] = want[e]
      BY <2>2, <1>3 DEF RecvAuth, MaxDone, InsertDone, login, TypeOK, NetTypeOK
    <3> QED
      BY <3>1, <1>3 DEF SameLogins
  <2> QED
    BY <2>1, <2>2
<1>5. SameMail
  <2>1. CASE ApplyGate(f)
    BY <2>1, <1>3, ApplyIs, LoginSent
  <2>2. CASE ~ApplyGate(f)
    <3>1. gateQ' = gateQ
      BY <2>2 DEF RecvAuth, MaxDone, InsertDone, queues
    <3> QED
      BY <3>1, StayOld
  <2> QED
    BY <2>1, <2>2
<1>6. \A g \in Gate : Load(g)' = Load(g)
  BY <1>1, LoadKept
<1> QED
  BY <1>1, <1>2, <1>4, <1>5, <1>6, CountsKept

\* gatemgr takes a message of a gate.
LEMMA TableCounts ==
  ASSUME GateInv, TypeOK', Few, Counted, Backed, AddRole \/ DelRole, UNCHANGED gateVars
  PROVE  Few' /\ Counted' /\ Backed'
<1>1. UNCHANGED <<live, groles, closer, want, at, gateQ>>
  BY DEF AddRole, DelRole, gateVars, login
<1>2. SameLogouts /\ Few' /\ SameLogins
  BY <1>1 DEF SameLogouts, Few, SameLogins
<1>3. SameMail
  BY <1>1, StayOld
<1>4. \A g \in Gate : Load(g)' = Load(g)
  BY LoadHandled DEF GateInv
<1> QED
  BY <1>1, <1>2, <1>3, <1>4, CountsKept

\* Logins stay pending while they are under way.
LEMMA LoginUndecided ==
  ASSUME GateInv, GateInv', Undecided, NEW f \in Conn,
         \/ \E r \in Asked : RecvAuth(f, r)
         \/ MaxDone(f)
         \/ InsertDone(f),
         UNCHANGED gateVars
  PROVE  Undecided'
<1>1. TypeOK /\ gateQ' = gateQ /\ task' = task
  BY DEF RecvAuth, MaxDone, InsertDone, queues, gateVars, GateInv
<1>2. \A e \in Conn \ {f} : fate'[e] = fate[e] /\ auth'[e] = auth[e]
  BY <1>1 DEF RecvAuth, MaxDone, InsertDone, Goto, TypeOK, NetTypeOK, MgrTypeOK
<1>3. fate'[f] = "pending"
  BY <1>1 DEF RecvAuth, MaxDone, InsertDone, Undecided, UnderWay, TypeOK, NetTypeOK
<1>4. OldMail
  BY <1>1, StayOld
<1> QED
  BY <1>1, <1>2, <1>3, <1>4, UndecidedStep

\* The login that goes to a gate is still pending.
LEMMA ApplyUndecided ==
  ASSUME GateInv, GateInv', Undecided, NEW f \in Conn, ApplyGate(f), UNCHANGED gateVars
  PROVE  Undecided'
<1>1. TypeOK /\ fate' = fate /\ task' = task
  BY DEF ApplyGate, gateVars, GateInv
<1>2. fate[f] = "pending"
  BY ApplyIs DEF Undecided, UnderWay
<1> SUFFICES ASSUME NEW e \in Conn, UnderWay(e)', e # f
             PROVE  fate'[e] = "pending"
  BY <1>1, <1>2 DEF Undecided
<1>3. UnderWay(e)
  <2>1. auth'[e] = auth[e]
    BY ApplyIs
  <2>2. CASE Mailed(e)'
    <3>1. PICK g \in Gate, m \in GateMsg : IsLogin(m) /\ m.fd = f /\ Gets(g, m)
      BY ApplyIs
    <3>2. PICK h \in Gate : \E i \in DOMAIN gateQ'[h] :
            IsLogin(gateQ'[h][i]) /\ gateQ'[h][i].fd = e
      BY <2>2 DEF Mailed
    <3>3. PICK i \in DOMAIN gateQ'[h] : IsLogin(gateQ'[h][i]) /\ gateQ'[h][i].fd = e
      BY <3>2
    <3>4. i \in DOMAIN gateQ[h] /\ gateQ'[h][i] = gateQ[h][i]
      BY <1>1, <3>1, <3>3, LoginSent
    <3> QED
      BY <3>3, <3>4 DEF UnderWay, Mailed
  <2>3. CASE ~Mailed(e)'
    BY <1>1, <2>1, <2>3 DEF UnderWay
  <2> QED
    BY <2>2, <2>3
<1> QED
  BY <1>1, <1>3 DEF Undecided

\* gatemgr's table has no part in it.
LEMMA TableUndecided ==
  ASSUME Undecided, AddRole \/ DelRole, UNCHANGED gateVars
  PROVE  Undecided'
<1>1. UNCHANGED <<fate, auth, gateQ, task>>
  BY DEF AddRole, DelRole, gateVars
<1> QED
  BY <1>1 DEF Undecided, UnderWay, Mailed

\* Nor has a step that answers nobody and lets nobody wait.
LEMMA UndecidedSame ==
  ASSUME Undecided, OldMail, UNCHANGED <<fate, auth>>,
         \A e \in Conn : task'[e] \in {"spawn", "wait"} => task'[e] = task[e]
  PROVE  Undecided'
<1> SUFFICES ASSUME NEW e \in Conn, UnderWay(e)' PROVE UnderWay(e)
  BY DEF Undecided
<1>1. Mailed(e)' => Mailed(e)
  BY DEF Mailed, OldMail, IsLogin
<1> QED
  BY <1>1 DEF UnderWay

\* A message that comes leaves those before it where they are.
LEMMA MailBefore ==
  ASSUME TypeOK, NEW g \in Gate, NEW m \in GateMsg, Gets(g, m),
         NEW h \in Gate, NEW i \in DOMAIN gateQ'[h]
  PROVE  \/ i \in DOMAIN gateQ[h] /\ gateQ'[h][i] = gateQ[h][i]
         \/ h = g /\ gateQ'[h][i] = m
<1>1. gateQ[h] \in Seq(GateMsg) /\ gateQ \in [Gate -> Seq(GateMsg)]
  BY DEF TypeOK, NetTypeOK
<1>2. CASE h = g
  <2>1. gateQ'[h] = Append(gateQ[h], m)
    BY <1>1, <1>2 DEF Gets
  <2> QED
    BY <1>1, <1>2, <2>1
<1>3. CASE h # g
  BY <1>1, <1>3 DEF Gets
<1> QED
  BY <1>2, <1>3

\* A service that leaves sends its gate a logout.
LEMMA LeaveIs ==
  ASSUME GateInv, NEW l \in live, Leave(l)
  PROVE  /\ l \in Conn /\ at[l] \in Gate /\ want[l] \in Role
         /\ \E m \in GateMsg : m.op = "logout" /\ m.role = want[l] /\ Gets(at[l], m)
<1>1. l \in Conn /\ at[l] \in Gate /\ want[l] \in Role
  BY DEF GateInv, Handed, TypeOK, NetTypeOK
<1> DEFINE m == [op |-> "logout", fd |-> Nil, role |-> want[l]]
<1>2. m \in GateMsg /\ m.op = "logout" /\ m.role = want[l]
  BY <1>1 DEF GateMsg
<1>3. Gets(at[l], m)
  BY DEF Leave, SendGate, Gets
<1> QED
  BY <1>1, <1>2, <1>3

\* A service leaves, and its gate handles the logout.
LEMMA LeaveUndecided ==
  ASSUME GateInv, Undecided, NEW l \in live, Leave(l), UNCHANGED <<mgrVars, gateVars>>
  PROVE  Undecided'
<1>1. UNCHANGED <<fate, auth, task>> /\ TypeOK
  BY DEF Leave, mgrVars, gateVars, GateInv
<1>2. PICK m \in GateMsg : m.op = "logout" /\ Gets(at[l], m)
  BY LeaveIs
<1>3. at[l] \in Gate
  BY LeaveIs
<1> SUFFICES ASSUME NEW e \in Conn, Mailed(e)' PROVE Mailed(e)
  BY <1>1 DEF Undecided, UnderWay
<1>4. PICK h \in Gate : \E i \in DOMAIN gateQ'[h] : IsLogin(gateQ'[h][i]) /\ gateQ'[h][i].fd = e
  BY DEF Mailed
<1>5. PICK i \in DOMAIN gateQ'[h] : IsLogin(gateQ'[h][i]) /\ gateQ'[h][i].fd = e
  BY <1>4
<1>6. i \in DOMAIN gateQ[h] /\ gateQ'[h][i] = gateQ[h][i]
  BY <1>1, <1>2, <1>3, <1>5, MailBefore DEF IsLogin
<1> QED
  BY <1>5, <1>6 DEF Mailed

\* gate.logout, and what is left of it when it had to wait.
LEMMA LogoutUndecided ==
  ASSUME GateInv, Undecided, NEW g \in Gate, Logout(g), UNCHANGED mgrVars
  PROVE  Undecided'
<1>1. UNCHANGED <<fate, auth>> /\ TypeOK
  BY DEF Logout, mgrVars, GateInv
<1>2. \A e \in Conn : task'[e] \in {"spawn", "wait"} => task'[e] = task[e]
  BY <1>1 DEF Logout, CloseNow, TypeOK, GateTypeOK
<1>3. OldMail
  BY <1>1, PopOld DEF Logout, Next1
<1> QED
  BY <1>1, <1>2, <1>3, UndecidedSame

\* socket.close returns to gate.logout.
LEMMA CloseDoneLogoutUndecided ==
  ASSUME GateInv, Undecided, NEW f \in Conn, CloseDoneLogout(f), UNCHANGED mgrVars
  PROVE  Undecided'
<1>1. UNCHANGED <<fate, auth, gateQ>> /\ TypeOK
  BY DEF CloseDoneLogout, mgrVars, GateInv
<1>2. \A e \in Conn : task'[e] \in {"spawn", "wait"} => task'[e] = task[e]
  BY <1>1 DEF CloseDoneLogout, TypeOK, GateTypeOK
<1>3. OldMail
  BY <1>1, StayOld
<1> QED
  BY <1>1, <1>2, <1>3, UndecidedSame

\* The login of f is answered.
LEMMA LaunchedUndecided ==
  ASSUME GateInv, GateInv', Undecided, NEW f \in Conn, Launched(f), UNCHANGED mgrVars
  PROVE  Undecided'
<1>1. TypeOK /\ gateQ' = gateQ /\ auth' = auth
  BY DEF Launched, mgrVars, GateInv
<1>2. \A e \in Conn \ {f} : fate'[e] = fate[e] /\ task'[e] = task[e]
  BY <1>1 DEF Launched, TypeOK, NetTypeOK, GateTypeOK
<1>3. task'[f] = "start" /\ auth'[f] = "applied"
  BY <1>1 DEF Launched, TypeOK, GateTypeOK, GateInv, Handed
<1>4. ~UnderWay(f)'
  BY <1>3, NotMailedNext DEF UnderWay
<1>5. OldMail
  BY <1>1, StayOld
<1> QED
  BY <1>1, <1>2, <1>4, <1>5, UndecidedStep

\* What the loads and the pending logins rest on is inductive.
LEMMA CountsInv ==
  ASSUME GateInv, Few, Counted, Backed, Undecided, [Next]_vars
  PROVE  GateInv' /\ Few' /\ Counted' /\ Backed' /\ Undecided'
<1>1. GateInv' /\ TypeOK'
  <2>1. GateInv'
    BY NextInv
  <2> QED
    BY <2>1 DEF GateInv
<1>2. CASE QuietStep /\ Few' /\ Undecided'
  BY <1>1, <1>2, QuietCounts
<1>3. ASSUME NEW f \in Conn, UNCHANGED gateVars,
             (\E r \in Asked : RecvAuth(f, r)) \/ MaxDone(f) \/ InsertDone(f)
      PROVE  Few' /\ Counted' /\ Backed' /\ Undecided'
  BY <1>1, <1>3, LoginCounts, LoginUndecided
<1>4. ASSUME NEW f \in Conn, UNCHANGED gateVars, ApplyGate(f)
      PROVE  Few' /\ Counted' /\ Backed' /\ Undecided'
  BY <1>1, <1>4, LoginCounts, ApplyUndecided
<1>5. CASE (AddRole \/ DelRole) /\ UNCHANGED gateVars
  BY <1>1, <1>5, TableCounts, TableUndecided
<1>6. ASSUME NEW f \in Conn, Launched(f), UNCHANGED mgrVars
      PROVE  Few' /\ Counted' /\ Backed' /\ Undecided'
  BY <1>1, <1>6, LaunchedCounts, LaunchedUndecided
<1>7. ASSUME NEW g \in Gate, Logout(g), UNCHANGED mgrVars
      PROVE  Few' /\ Counted' /\ Backed' /\ Undecided'
  BY <1>1, <1>7, LogoutCounts, LogoutUndecided
<1>8. ASSUME NEW f \in Conn, CloseDoneLogout(f), UNCHANGED mgrVars
      PROVE  Few' /\ Counted' /\ Backed' /\ Undecided'
  BY <1>1, <1>8, CloseDoneLogoutCounts, CloseDoneLogoutUndecided
<1>9. ASSUME NEW l \in live, Leave(l), UNCHANGED <<mgrVars, gateVars>>
      PROVE  Few' /\ Counted' /\ Backed' /\ Undecided'
  BY <1>1, <1>9, LeaveCounts, LeaveUndecided
<1> QED
  BY <1>1, <1>2, <1>3, <1>4, <1>5, <1>6, <1>7, <1>8, <1>9, StepCases

-----------------------------------------------------------------------------
(* The loads cover the roles.                                                *)

\* A function has no more values than arguments.
LEMMA ImageSize ==
  ASSUME NEW S, IsFiniteSet(S), NEW F
  PROVE  LET T == {F[x] : x \in S} IN IsFiniteSet(T) /\ Cardinality(T) <= Cardinality(S)
<1> DEFINE T == {F[x] : x \in S}
           G == [x \in S |-> F[x]]
<1>1. G \in Surjection(S, T)
  BY DEF Surjection
<1> QED
  BY <1>1, FS_Surjection

\* The roles of a gate are those of what it will take off its load.
LEMMA Covered ==
  ASSUME GateInv, Few, Counted, Backed
  PROVE  CntCovers
<1> SUFFICES ASSUME NEW g \in Gate
             PROVE  Load(g) >= Cardinality({r \in Role : groles[g][r] # Nil})
  BY DEF CntCovers, Load
<1> DEFINE R == {r \in Role : groles[g][r] # Nil}
           A == {want[l] : l \in Served(g)}
           roles == [i \in DOMAIN gateQ[g] |-> gateQ[g][i].role]
           B == {roles[i] : i \in Leaving(g)}
           wants == [f \in Conn |-> want[closer[f].rec]]
           C == {wants[f] : f \in LogoutWaits(g)}
<1>1. /\ IsFiniteSet(Served(g)) /\ Cardinality(Served(g)) \in Nat
      /\ IsFiniteSet(Leaving(g)) /\ Cardinality(Leaving(g)) \in Nat
      /\ IsFiniteSet(LogoutWaits(g)) /\ Cardinality(LogoutWaits(g)) \in Nat
  BY DebtTypes DEF GateInv
<1>2. R \in SUBSET ((A \cup B) \cup C)
  BY DEF Backed, Leaving, LogoutWaits
<1>3. IsFiniteSet(A) /\ Cardinality(A) <= Cardinality(Served(g))
  BY <1>1, ImageSize
<1>4. IsFiniteSet(B) /\ Cardinality(B) <= Cardinality(Leaving(g))
  <2> HIDE DEF roles
  <2> QED
    BY <1>1, ImageSize
<1>5. IsFiniteSet(C) /\ Cardinality(C) <= Cardinality(LogoutWaits(g))
  <2> HIDE DEF wants
  <2> QED
    BY <1>1, ImageSize
<1> HIDE DEF A, B, C, R
<1>6. /\ Cardinality(A) \in Nat /\ Cardinality(B) \in Nat /\ Cardinality(C) \in Nat
      /\ Cardinality(A \cap B) \in Nat /\ Cardinality((A \cup B) \cap C) \in Nat
  <2>1. IsFiniteSet(A \cap B)
    BY <1>3, FS_Subset
  <2>2. IsFiniteSet((A \cup B) \cap C)
    BY <1>5, FS_Subset
  <2> QED
    BY <1>3, <1>4, <1>5, <2>1, <2>2, FS_CardinalityType
<1>7. /\ IsFiniteSet(A \cup B)
      /\ Cardinality(A \cup B) = Cardinality(A) + Cardinality(B) - Cardinality(A \cap B)
  BY <1>3, <1>4, FS_Union
<1>8. /\ IsFiniteSet((A \cup B) \cup C)
      /\ Cardinality((A \cup B) \cup C) =
           Cardinality(A \cup B) + Cardinality(C) - Cardinality((A \cup B) \cap C)
  BY <1>5, <1>7, FS_Union
<1>9. Cardinality(R) <= Cardinality((A \cup B) \cup C) /\ Cardinality(R) \in Nat
  BY <1>2, <1>8, FS_Subset, FS_CardinalityType
<1>10. Load(g) \in Int /\ Load(g) >= Cardinality(Served(g)) + Cardinality(Leaving(g))
                                       + Cardinality(LogoutWaits(g))
  BY LoadTypes DEF Counted, GateInv
<1>11. Load(g) >= Cardinality(R)
  BY ONLY <1>1, <1>3, <1>4, <1>5, <1>6, <1>7, <1>8, <1>9, <1>10
<1> QED
  BY <1>11 DEF R

-----------------------------------------------------------------------------
(* One login at a time: what a step leaves alone.                            *)

\* What a message to gatemgr says.
LEMMA MsgTypes ==
  ASSUME TypeOK, NEW i \in DOMAIN mgrQ
  PROVE  /\ mgrQ[i].op = "add_role" \/ mgrQ[i].op = "del_role"
         /\ mgrQ[i].gate \in Gate /\ mgrQ[i].gate # Nil /\ mgrQ[i].role \in Role
<1>1. mgrQ[i] \in MgrMsg
  BY DEF TypeOK, NetTypeOK
<1> QED
  BY <1>1, SessionAssumption DEF MgrMsg

\* A service that runs has a gate and a role.
LEMMA LiveHas ==
  ASSUME GateInv, NEW l \in live
  PROVE  l \in Conn /\ l # Nil /\ at[l] \in Gate /\ at[l] # Nil /\ want[l] \in Role
<1>1. l \in Conn /\ l # Nil /\ task[l] # "none"
  BY SessionAssumption DEF GateInv, Handed, TypeOK, NetTypeOK
<1>2. at[l] # Nil /\ want[l] \in Role
  BY <1>1 DEF GateInv, Handed
<1>3. at[l] \in Gate
  BY <1>1, <1>2 DEF GateInv, TypeOK, NetTypeOK
<1> QED
  BY <1>1, <1>2, <1>3

\* A message op of gate g about role r is in mailbox q.
Sent(q, op, g, r) == \E i \in DOMAIN q : q[i].op = op /\ q[i].gate = g /\ q[i].role = r

\* There is a message of this kind on the way to gatemgr,
LEMMA InFlightIs ==
  ASSUME TypeOK, NEW op, NEW g, NEW r
  PROVE  InFlight(op, g, r) # {} <=> Sent(mgrQ, op, g, r)
<1>1. \A i \in DOMAIN mgrQ : mgrQ[i] \in MgrMsg
  BY DEF TypeOK, NetTypeOK
<1>2. \A i \in DOMAIN mgrQ : mgrQ[i] = [op |-> op, gate |-> g, role |-> r]
         <=> mgrQ[i].op = op /\ mgrQ[i].gate = g /\ mgrQ[i].role = r
  BY <1>1 DEF MgrMsg
<1> QED
  BY <1>2 DEF InFlight, Sent

\* or there will be after the step.
LEMMA InFlightIsNext ==
  ASSUME TypeOK', NEW op, NEW g, NEW r
  PROVE  (InFlight(op, g, r) # {})' <=> Sent(mgrQ', op, g, r)
<1>1. \A i \in DOMAIN mgrQ' : mgrQ'[i] \in MgrMsg
  BY DEF TypeOK, NetTypeOK
<1>2. \A i \in DOMAIN mgrQ' : mgrQ'[i] = [op |-> op, gate |-> g, role |-> r]
         <=> mgrQ'[i].op = op /\ mgrQ'[i].gate = g /\ mgrQ'[i].role = r
  BY <1>1 DEF MgrMsg
<1> QED
  BY <1>2 DEF InFlight, Sent

\* What gatemgr knows, the gates have and the messages between them say.
Routes == OneGate /\ RoleMail /\ RoleNews /\ Registered /\ RegistryRoutes

\* The logins and the absence of their roles.
Logins == Existing /\ OneLogin /\ Entering

\* The services, their records and their logouts.
Services == LogoutMail /\ LogoutWait /\ ServiceReachable

\* SerialInv in the parts that steps keep or change together.
LEMMA SerialParts == SerialInv <=> Routes /\ Logins /\ Services /\ CntExact
BY DEF SerialInv, Routes, Logins, Services

\* A step that sends gatemgr nothing and changes no table.
LEMMA RoutesKept ==
  ASSUME Routes, UNCHANGED <<groles, mroles, mgrQ>>
  PROVE  Routes'
<1>1. OneGate' /\ RoleMail'
  BY DEF Routes, OneGate, RoleMail
<1>2. \A op, g, r : InFlight(op, g, r)' = InFlight(op, g, r)
  BY DEF InFlight
<1>3. RoleNews' /\ Registered' /\ RegistryRoutes'
  BY <1>2 DEF Routes, RoleNews, Registered, RegistryRoutes
<1> QED
  BY <1>1, <1>3 DEF Routes

\* A connection that enters a role has a gate.
LEMMA EntersHas ==
  ASSUME GateInv, NEW f \in Conn, Enters(f)
  PROVE  /\ at[f] # Nil /\ auth[f] = "applied" /\ want[f] \in Role
         /\ Undecided => Contends(f, want[f])
<1>1. at[f] # Nil /\ UnderWay(f)
  <2>1. CASE task[f] = "spawn"
    BY <2>1 DEF GateInv, Handed, UnderWay
  <2>2. CASE task[f] # "spawn"
    <3>1. PICK g \in Gate : \E i \in DOMAIN gateQ[g] :
            gateQ[g][i].op = "enter_role" /\ gateQ[g][i].fd = f
      BY <2>2 DEF Enters
    <3>2. PICK i \in DOMAIN gateQ[g] : gateQ[g][i].op = "enter_role" /\ gateQ[g][i].fd = f
      BY <3>1
    <3>3. IsLogin(gateQ[g][i])
      BY <3>2 DEF IsLogin
    <3>4. Mailed(f) /\ at[f] = g
      BY <3>2, <3>3 DEF Mailed, GateInv, LoginMail
    <3>5. g # Nil
      BY SessionAssumption
    <3> QED
      BY <3>4, <3>5 DEF UnderWay
  <2> QED
    BY <2>1, <2>2
<1>2. auth[f] = "applied" /\ want[f] \in Role
  BY <1>1 DEF GateInv, Handed
<1> QED
  BY <1>1, <1>2 DEF Contends, Undecided

\* A step by which no login starts to contend for a role or to enter it.
LEMMA LoginsKept ==
  ASSUME GateInv, Logins, UNCHANGED <<groles, mroles, mgrQ, rows>>, SameLogins,
         \A f \in Conn : \A r \in Role : Contends(f, r)' => Contends(f, r),
         \A f \in Conn : Enters(f)' => Enters(f)
  PROVE  Logins'
<1>1. \A r : Absent(r)' <=> Absent(r)
  BY DEF Absent
<1>2. Existing'
  BY <1>1 DEF Logins, Existing
<1>3. OneLogin'
  BY DEF Logins, OneLogin
<1>4. ASSUME NEW f \in Conn, Enters(f)' PROVE Absent(want[f])'
  <2>1. Enters(f) /\ want'[f] = want[f]
    BY <1>4, EntersHas DEF SameLogins
  <2>2. Absent(want[f])
    BY <2>1 DEF Logins, Entering
  <2> QED
    BY <2>1, <2>2 DEF Absent
<1> QED
  BY <1>2, <1>3, <1>4 DEF Logins, Entering

\* A step that changes neither loads nor records.
LEMMA ExactKept ==
  ASSUME TypeOK, CntExact, groles' = groles, \A g \in Gate : Load(g)' = Load(g)
  PROVE  CntExact'
<1>1. \A g \in Gate : Load(g) = Cardinality({r \in Role : groles[g][r] # Nil})
  BY DEF CntExact, Load
<1>2. \A g \in Gate : Load(g)' = Cardinality({r \in Role : groles'[g][r] # Nil})
  BY <1>1
<1> QED
  BY <1>2 DEF CntExact, Load

\* What waits for a logout is a record of its gate.
LEMMA LogoutWaitHas ==
  ASSUME GateInv, NEW f \in Conn, closer[f].why = "logout"
  PROVE  LET l == closer[f].rec
         IN l \in Conn /\ at[l] \in Gate /\ want[l] \in Role /\ at[l] # Nil
BY DEF GateInv, Closing, Handed, TypeOK, NetTypeOK

\* Logouts stay what they are if the records of services that left do.
LEMMA LogoutsKept ==
  ASSUME GateInv, TypeOK', LogoutMail, LogoutWait, SameLogins, SameLogouts, SameMail,
         \A g \in Gate : \A r \in Role : groles[g][r] \notin live \cup {Nil} =>
            groles'[g][r] = groles[g][r] /\ groles'[g][r] \notin live'
  PROVE  LogoutMail' /\ LogoutWait'
<1>1. ASSUME NEW f \in Conn, closer'[f].why = "logout"
      PROVE  LET l == closer[f].rec
             IN /\ closer[f].why = "logout" /\ closer'[f] = closer[f]
                /\ l \in Conn /\ at[l] \in Gate /\ want[l] \in Role
                /\ at'[l] = at[l] /\ want'[l] = want[l]
  <2>1. closer'[f] = closer[f]
    BY <1>1 DEF SameLogouts
  <2> QED
    BY <1>1, <2>1, LogoutWaitHas DEF SameLogins
<1>2. ASSUME NEW g \in Gate, NEW i \in Leaving(g)'
      PROVE  LET r == gateQ'[g][i].role
             IN /\ groles'[g][r] \notin live' \cup {Nil}
                /\ \A j \in Leaving(g)' : gateQ'[g][j].role = r => i = j
                /\ \A f \in LogoutWaits(g)' : want'[closer'[f].rec] # r
  <2>1. gateQ[g] \in Seq(GateMsg) /\ LoginsOnly(gateQ[g], gateQ'[g])
    BY DEF GateInv, TypeOK, NetTypeOK, SameMail
  <2>2. Leaving(g) = Occ(gateQ[g], Logouts) /\ Leaving(g)' = Occ(gateQ'[g], Logouts)
    BY LeavingIs, LeavingIsNext DEF GateInv
  <2>3. PICK k \in {0, 1} : \A j \in Leaving(g)' :
          j + k \in Leaving(g) /\ gateQ'[g][j] = gateQ[g][j + k]
    BY <2>1, <2>2, MailMoves
  <2>4. PICK r : r = gateQ'[g][i].role
    OBVIOUS
  <2>5. i + k \in Leaving(g) /\ gateQ[g][i + k].role = r
    BY <1>2, <2>3, <2>4
  <2>6. r \in Role
    <3>1. gateQ[g][i + k] \in GateMsg
      BY <2>1, <2>5 DEF Leaving
    <3> QED
      BY <2>5, <3>1 DEF GateMsg
  <2>7. /\ groles[g][r] \notin live \cup {Nil}
        /\ \A j \in Leaving(g) : gateQ[g][j].role = r => i + k = j
        /\ \A f \in LogoutWaits(g) : want[closer[f].rec] # r
    BY <2>5 DEF LogoutMail
  <2>8. groles'[g][r] \notin live' \cup {Nil}
    BY <2>6, <2>7
  <2>9. ASSUME NEW j \in Leaving(g)', gateQ'[g][j].role = r PROVE i = j
    <3>1. j + k \in Leaving(g) /\ gateQ[g][j + k].role = r
      BY <2>3, <2>9
    <3>2. i + k = j + k
      BY <2>7, <3>1
    <3>3. i \in Int /\ j \in Int
      <4>1. gateQ'[g] \in Seq(GateMsg)
        BY DEF TypeOK, NetTypeOK
      <4> QED
        BY <1>2, <2>2, <2>9, <4>1 DEF Occ
    <3> QED
      BY <3>2, <3>3
  <2>10. ASSUME NEW f \in LogoutWaits(g)' PROVE want'[closer'[f].rec] # r
    <3>1. f \in Conn /\ closer'[f].why = "logout" /\ at'[closer'[f].rec] = g
      BY <2>10 DEF LogoutWaits
    <3>2. f \in LogoutWaits(g) /\ want'[closer'[f].rec] = want[closer[f].rec]
      BY <1>1, <3>1 DEF LogoutWaits
    <3> QED
      BY <2>7, <3>2
  <2> QED
    BY <2>4, <2>8, <2>9, <2>10
<1>3. LogoutMail'
  BY <1>2 DEF LogoutMail
<1>4. ASSUME NEW f \in Conn, closer'[f].why = "logout"
      PROVE  LET l == closer'[f].rec
             IN /\ l \notin live'
                /\ groles'[at'[l]][want'[l]] = l
                /\ \A e \in Conn : closer'[e].why = "logout" /\ closer'[e].rec = l => e = f
  <2>1. PICK l : l = closer[f].rec
    OBVIOUS
  <2>2. /\ closer[f].why = "logout" /\ closer'[f].rec = l
        /\ l \in Conn /\ at[l] \in Gate /\ want[l] \in Role /\ l # Nil
        /\ at'[l] = at[l] /\ want'[l] = want[l]
    BY <1>1, <1>4, <2>1, SessionAssumption
  <2>3. /\ l \notin live /\ groles[at[l]][want[l]] = l
        /\ \A e \in Conn : closer[e].why = "logout" /\ closer[e].rec = l => e = f
    BY <2>1, <2>2 DEF LogoutWait
  <2>4. l \notin live' /\ groles'[at'[l]][want'[l]] = l
    BY <2>2, <2>3
  <2>5. ASSUME NEW e \in Conn, closer'[e].why = "logout", closer'[e].rec = l PROVE e = f
    BY <1>1, <2>3, <2>5
  <2> QED
    BY <2>2, <2>4, <2>5
<1>5. LogoutWait'
  BY <1>4 DEF LogoutWait
<1> QED
  BY <1>3, <1>5

\* A step that starts and ends no service and handles no logout.
LEMMA ServicesKept ==
  ASSUME GateInv, TypeOK', Services, UNCHANGED <<live, groles>>, SameLogins, SameLogouts, SameMail
  PROVE  Services'
<1>1. LogoutMail' /\ LogoutWait'
  BY LogoutsKept DEF Services
<1>2. \A l \in live : at'[l] = at[l] /\ want'[l] = want[l]
  BY DEF GateInv, Handed, TypeOK, NetTypeOK, SameLogins
<1>3. ServiceReachable'
  BY <1>2 DEF Services, ServiceReachable
<1> QED
  BY <1>1, <1>3 DEF Services

\* Quiet steps.
LEMMA QuietSerial ==
  ASSUME GateInv, TypeOK', SerialInv, QuietStep
  PROVE  SerialInv'
<1>1. \A g \in Gate : Load(g)' = Load(g)
  BY LoadKept DEF QuietStep
<1>2. Routes' /\ Logins' /\ Services' /\ CntExact'
  BY <1>1, SerialParts, RoutesKept, LoginsKept, ServicesKept, ExactKept DEF QuietStep, GateInv
<1> QED
  BY <1>2 DEF SerialInv, Routes, Logins, Services

-----------------------------------------------------------------------------
(* One login at a time: a login starts and gets its role and its gate.       *)

\* What such a step leaves alone, and what it owes for the rest.
LEMMA LoginFrame ==
  ASSUME GateInv, TypeOK', SerialInv, NEW f \in Conn,
         \/ \E r \in Asked : RecvAuth(f, r)
         \/ MaxDone(f)
         \/ InsertDone(f)
         \/ ApplyGate(f),
         UNCHANGED gateVars
  PROVE  /\ UNCHANGED <<groles, mroles, mgrQ, live, task>> /\ at[f] = Nil /\ auth[f] # "applied"
         /\ \A e \in Conn \ {f} : /\ fate'[e] = fate[e] /\ want'[e] = want[e]
                                  /\ auth'[e] = auth[e]
         /\ SameLogins
         /\ Logins' => SerialInv'
<1>1. UNCHANGED <<groles, mroles, mgrQ, cnt, live, closer, task>>
  BY DEF RecvAuth, MaxDone, InsertDone, ApplyGate, gateVars, queues, tables
<1>2. at[f] = Nil /\ TypeOK /\ auth[f] # "applied"
  BY ApplyIs DEF GateInv, Handed, RecvAuth, MaxDone, InsertDone
<1>3. \A e \in Conn \ {f} : /\ fate'[e] = fate[e] /\ want'[e] = want[e] /\ at'[e] = at[e]
                            /\ auth'[e] = auth[e]
  <2>1. CASE ApplyGate(f)
    BY <2>1, ApplyIs DEF ApplyGate
  <2>2. CASE ~ApplyGate(f)
    BY <1>2, <2>2 DEF RecvAuth, MaxDone, InsertDone, Goto, login, TypeOK, NetTypeOK, MgrTypeOK
  <2> QED
    BY <2>1, <2>2
<1>4. SameLogins
  BY <1>2, <1>3 DEF SameLogins
<1>5. SameLogouts
  BY <1>1 DEF SameLogouts
<1>6. SameMail
  <2>1. CASE ApplyGate(f)
    BY <2>1, <1>2, ApplyIs, LoginSent
  <2>2. CASE ~ApplyGate(f)
    <3>1. gateQ' = gateQ
      BY <2>2 DEF RecvAuth, MaxDone, InsertDone, queues
    <3> QED
      BY <3>1, StayOld
  <2> QED
    BY <2>1, <2>2
<1>7. \A g \in Gate : Load(g)' = Load(g)
  BY <1>1, LoadKept
<1>8. Routes' /\ Services' /\ CntExact'
  BY <1>1, <1>2, <1>4, <1>5, <1>6, <1>7, SerialParts, RoutesKept, ServicesKept, ExactKept
<1>9. Logins' => SerialInv'
  BY <1>8 DEF SerialInv, Routes, Logins, Services
<1> QED
  BY <1>1, <1>2, <1>3, <1>4, <1>9

\* Nobody enters a role that did not before.
LEMMA EntersSame ==
  ASSUME UNCHANGED <<gateQ, task>>, NEW f \in Conn
  PROVE  Enters(f)' <=> Enters(f)
BY DEF Enters

\* A role of t_role that no other login is about is asked for.
LEMMA RecvSerial ==
  ASSUME SerialLogin, GateInv, TypeOK', SerialInv, NEW f \in Conn, NEW s \in Asked,
         RecvAuth(f, s), UNCHANGED gateVars
  PROVE  SerialInv'
<1>1. /\ UNCHANGED <<groles, mroles, mgrQ, live, task>> /\ at[f] = Nil
      /\ \A e \in Conn \ {f} : fate'[e] = fate[e] /\ want'[e] = want[e] /\ auth'[e] = auth[e]
      /\ SameLogins
  BY LoginFrame
<1>2. /\ s \in rows \cup {0} /\ ~LoginPending(s) /\ want'[f] = s /\ UNCHANGED <<gateQ, rows>>
  BY DEF RecvAuth, queues, GateInv, TypeOK, NetTypeOK
<1>3. \A r : Absent(r)' <=> Absent(r)
  BY <1>1 DEF Absent
<1>4. \A e \in Conn \ {f} : \A r : Contends(e, r)' => Contends(e, r)
  BY <1>1 DEF Contends
<1>5. \A r \in Role : Contends(f, r)' => r = s /\ r \in rows
  BY <1>2, SessionAssumption DEF Contends, Role
<1>6. Existing'
  BY <1>2, <1>3, <1>4, <1>5 DEF SerialInv, Existing
<1>7. OneLogin'
  <2> SUFFICES ASSUME NEW r \in Role, NEW e \in Conn, Contends(e, r)'
               PROVE  /\ \A d \in Conn : Contends(d, r)' => d = e
                      /\ \A i \in DOMAIN mgrQ' : mgrQ'[i].role = r => mgrQ'[i].op = "del_role"
    BY DEF OneLogin
  <2>1. CASE e = f
    <3>1. r = s
      BY <1>5, <2>1
    <3>2. \A i \in DOMAIN mgrQ : mgrQ[i].op = "add_role" \/ mgrQ[i].op = "del_role"
      BY MsgTypes DEF GateInv
    <3> QED
      BY <1>1, <1>2, <1>4, <2>1, <3>1, <3>2 DEF LoginPending, Contends
  <2>2. CASE e # f
    <3>1. Contends(e, r)
      BY <1>4, <2>2
    <3>2. r # s
      BY <1>2, <3>1 DEF LoginPending, Contends
    <3> QED
      BY <1>1, <1>4, <1>5, <3>1, <3>2 DEF SerialInv, OneLogin
  <2> QED
    BY <2>1, <2>2
<1>8. Entering'
  BY <1>1, <1>2, <1>3, EntersSame, EntersHas DEF SerialInv, Entering
<1>9. Logins'
  BY <1>6, <1>7, <1>8 DEF Logins
<1> QED
  BY <1>9, LoginFrame

\* A new role gets an id, and is inserted if that is free.
LEMMA NewSerial ==
  ASSUME GateInv, TypeOK', SerialInv, NEW f \in Conn, MaxDone(f) \/ InsertDone(f),
         UNCHANGED gateVars
  PROVE  SerialInv'
<1>1. /\ UNCHANGED <<groles, mroles, mgrQ, live, task>> /\ at[f] = Nil
      /\ \A e \in Conn \ {f} : fate'[e] = fate[e] /\ want'[e] = want[e] /\ auth'[e] = auth[e]
      /\ SameLogins
  BY LoginFrame
<1>2. gateQ' = gateQ /\ rows \subseteq rows'
  BY DEF MaxDone, InsertDone, queues
<1>3. \A r : Absent(r)' <=> Absent(r)
  BY <1>1 DEF Absent
<1>4. \A e \in Conn \ {f} : \A r : Contends(e, r)' => Contends(e, r)
  BY <1>1 DEF Contends
<1>5. \A r \in Role : Contends(f, r)' => r \in rows' /\ r \notin rows
  <2>1. CASE MaxDone(f)
    BY <2>1 DEF Contends, MaxDone, Goto, GateInv, TypeOK, MgrTypeOK
  <2>2. CASE InsertDone(f)
    BY <2>2 DEF Contends, InsertDone, login
  <2> QED
    BY <2>1, <2>2
<1>6. Existing'
  BY <1>2, <1>3, <1>4, <1>5 DEF SerialInv, Existing
<1>7. OneLogin'
  <2> SUFFICES ASSUME NEW r \in Role, NEW e \in Conn, Contends(e, r)'
               PROVE  /\ \A d \in Conn : Contends(d, r)' => d = e
                      /\ \A i \in DOMAIN mgrQ' : mgrQ'[i].role = r => mgrQ'[i].op = "del_role"
    BY DEF OneLogin
  <2>1. CASE e = f
    BY <1>1, <1>4, <1>5, <2>1 DEF SerialInv, Existing, Absent
  <2>2. CASE e # f
    <3>1. Contends(e, r) /\ ~Contends(f, r)'
      BY <1>4, <1>5, <2>2 DEF SerialInv, Existing
    <3> QED
      BY <1>1, <1>4, <3>1 DEF SerialInv, OneLogin
  <2> QED
    BY <2>1, <2>2
<1>8. Entering'
  BY <1>1, <1>2, <1>3, EntersSame, EntersHas DEF SerialInv, Entering
<1>9. Logins'
  BY <1>6, <1>7, <1>8 DEF Logins
<1> QED
  BY <1>9, LoginFrame

\* apply_gate: a login that gatemgr sends to enter a role is about an absent one.
LEMMA ApplySerial ==
  ASSUME GateInv, TypeOK', SerialInv, Undecided, NEW f \in Conn, ApplyGate(f), UNCHANGED gateVars
  PROVE  SerialInv'
<1>1. /\ UNCHANGED <<groles, mroles, mgrQ, live, task>> /\ at[f] = Nil
      /\ \A e \in Conn \ {f} : fate'[e] = fate[e] /\ want'[e] = want[e] /\ auth'[e] = auth[e]
      /\ SameLogins
  BY LoginFrame
<1>2. UNCHANGED <<rows, fate, want>> /\ auth[f] = "pause" /\ want[f] \in Role
  BY ApplyIs DEF ApplyGate
<1>3. \A r : Absent(r)' <=> Absent(r)
  BY <1>1 DEF Absent
<1>4. \A e \in Conn : \A r : Contends(e, r)' => Contends(e, r)
  BY <1>1, <1>2 DEF Contends
<1>5. Contends(f, want[f])
  BY <1>2 DEF Contends, Undecided, UnderWay
<1>6. Existing' /\ OneLogin'
  BY <1>1, <1>2, <1>3, <1>4 DEF SerialInv, Existing, OneLogin
<1>7. PICK g \in Gate, m \in GateMsg :
         IsLogin(m) /\ m.fd = f /\ Gets(g, m) /\ (m.op = "enter_role" => mroles[want[f]] = Nil)
  BY ApplyIs
<1>8. ASSUME NEW e \in Conn, Enters(e)' PROVE Absent(want[e])
  <2>1. CASE Enters(e)
    BY <2>1 DEF SerialInv, Entering
  <2>2. CASE ~Enters(e)
    <3>1. PICK h \in Gate : \E i \in DOMAIN gateQ'[h] :
             gateQ'[h][i].op = "enter_role" /\ gateQ'[h][i].fd = e
      BY <1>1, <1>8, <2>2 DEF Enters
    <3>2. PICK i \in DOMAIN gateQ'[h] : gateQ'[h][i].op = "enter_role" /\ gateQ'[h][i].fd = e
      BY <3>1
    <3>3. gateQ'[h][i] = m
      BY <1>7, <2>2, <3>2, MailBefore DEF Enters, GateInv
    <3>4. e = f /\ mroles[want[f]] = Nil
      BY <1>7, <3>2, <3>3
    <3>5. \A i1 \in DOMAIN mgrQ : mgrQ[i1].role = want[f] => mgrQ[i1].op = "del_role"
      BY <1>2, <1>5 DEF SerialInv, OneLogin
    <3>6. \A h1 \in Gate : InFlight("add_role", h1, want[f]) = {}
      BY <3>5, InFlightIs DEF Sent, GateInv
    <3>7. \A i1 \in DOMAIN mgrQ : mgrQ[i1].gate \in Gate /\ mgrQ[i1].gate # Nil
      BY MsgTypes DEF GateInv
    <3>8. \A i1 \in DOMAIN mgrQ : mgrQ[i1].role # want[f]
      BY <3>4, <3>5, <3>6, <3>7 DEF SerialInv, RoleNews
    <3>9. \A h1 \in Gate : groles[h1][want[f]] = Nil
      BY <1>2, <3>4, <3>6, SessionAssumption DEF SerialInv, Registered
    <3> QED
      BY <3>4, <3>8, <3>9 DEF Absent
  <2> QED
    BY <2>1, <2>2
<1>9. Entering'
  BY <1>2, <1>3, <1>8 DEF Entering
<1>10. Logins'
  BY <1>6, <1>9 DEF Logins
<1> QED
  BY <1>10, LoginFrame

-----------------------------------------------------------------------------
(* One login at a time: gatemgr takes a message of a gate.                   *)

\* The rest of a mailbox when its first message is handled.
RestOf(q, p) ==
    /\ \A i \in DOMAIN p : i + 1 \in DOMAIN q /\ p[i] = q[i + 1] /\ i \in Int /\ 1 < i + 1
    /\ \A j \in DOMAIN q : j # 1 => j - 1 \in DOMAIN p /\ p[j - 1] = q[j] /\ j \in Int /\ 1 < j

\* The first message is handled: the others move up by one.
LEMMA TailRest ==
  ASSUME NEW S, NEW q \in Seq(S), q # <<>>
  PROVE  /\ RestOf(q, Tail(q)) /\ 1 \in DOMAIN q /\ q[1] = Head(q)
<1>1. DOMAIN q = 1..Len(q) /\ Len(q) \in Nat /\ Len(q) > 0
  BY EmptySeq
<1>2. Tail(q) \in Seq(S) /\ Len(Tail(q)) = Len(q) - 1
  BY HeadTailProperties
<1>3. DOMAIN Tail(q) = 1..(Len(q) - 1)
  BY <1>1, <1>2
<1>4. \A i \in 1..(Len(q) - 1) : Tail(q)[i] = q[i + 1]
  BY HeadTailProperties
<1>5. \A i \in DOMAIN Tail(q) : i + 1 \in DOMAIN q /\ Tail(q)[i] = q[i + 1] /\ i \in Int /\ 1 < i + 1
  BY <1>1, <1>3, <1>4
<1>6. ASSUME NEW j \in DOMAIN q, j # 1
      PROVE  j - 1 \in DOMAIN Tail(q) /\ Tail(q)[j - 1] = q[j] /\ j \in Int /\ 1 < j
  <2>1. j - 1 \in 1..(Len(q) - 1) /\ j \in Int /\ 1 < j
    BY <1>1, <1>6
  <2>2. Tail(q)[j - 1] = q[(j - 1) + 1]
    BY <1>4, <2>1
  <2> QED
    BY <1>3, <2>1, <2>2
<1> QED
  BY <1>1, <1>5, <1>6 DEF RestOf

\* What gatemgr does with its next message, and what that leaves alone.
LEMMA TableIs ==
  ASSUME GateInv, AddRole \/ DelRole, UNCHANGED gateVars
  PROVE  /\ UNCHANGED <<live, groles, closer, want, at, gateQ, fate, auth, rows, task>>
         /\ RestOf(mgrQ, mgrQ') /\ 1 \in DOMAIN mgrQ
         /\ mgrQ[1].role \in Role /\ mgrQ[1].gate \in Gate /\ mgrQ[1].gate # Nil
         /\ mgrQ[1].op = IF AddRole THEN "add_role" ELSE "del_role"
         /\ mroles' = [mroles EXCEPT ![mgrQ[1].role] = IF AddRole THEN mgrQ[1].gate ELSE Nil]
<1>1. UNCHANGED <<live, groles, closer, want, at, gateQ, fate, auth, rows, task>>
  BY DEF AddRole, DelRole, gateVars, login
<1>2. mgrQ \in Seq(MgrMsg) /\ mgrQ # <<>> /\ mgrQ' = Tail(mgrQ)
  BY DEF AddRole, DelRole, GateInv, TypeOK, NetTypeOK
<1>3. RestOf(mgrQ, mgrQ') /\ 1 \in DOMAIN mgrQ /\ mgrQ[1] = Head(mgrQ)
  BY <1>2, TailRest
<1>4. mgrQ[1] \in MgrMsg
  BY <1>2, <1>3
<1>5. mgrQ[1].role \in Role /\ mgrQ[1].gate \in Gate /\ mgrQ[1].gate # Nil
  BY <1>4, SessionAssumption DEF MgrMsg
<1>6. CASE AddRole
  BY <1>1, <1>3, <1>5, <1>6 DEF AddRole
<1>7. CASE DelRole /\ ~AddRole
  BY <1>1, <1>3, <1>5, <1>7 DEF DelRole
<1> QED
  BY <1>6, <1>7

\* What is common to the two.
LEMMA TableFrame ==
  ASSUME GateInv, TypeOK', SerialInv, AddRole \/ DelRole, UNCHANGED gateVars
  PROVE  /\ Services' /\ CntExact' /\ OneGate' /\ RoleMail'
         /\ RoleNews' /\ Registered' /\ RegistryRoutes' /\ Logins' => SerialInv'
<1>1. UNCHANGED <<live, groles, closer, want, at, gateQ>> /\ RestOf(mgrQ, mgrQ')
  BY TableIs
<1>2. SameLogouts /\ SameLogins
  BY <1>1 DEF SameLogouts, SameLogins
<1>3. SameMail
  BY <1>1, StayOld
<1>4. \A g \in Gate : Load(g)' = Load(g)
  BY LoadHandled DEF GateInv
<1>5. Services' /\ CntExact'
  BY <1>1, <1>2, <1>3, <1>4, SerialParts, ServicesKept, ExactKept DEF GateInv
<1>6. OneGate'
  BY <1>1 DEF SerialInv, OneGate
<1>7. RoleMail'
  <2> SUFFICES ASSUME NEW i \in DOMAIN mgrQ', NEW j \in DOMAIN mgrQ',
                      mgrQ'[i].role = mgrQ'[j].role, i < j
               PROVE  /\ mgrQ'[i].op = "add_role" /\ mgrQ'[j].op = "del_role"
                      /\ mgrQ'[i].gate = mgrQ'[j].gate
    BY DEF RoleMail
  <2>1. /\ i + 1 \in DOMAIN mgrQ /\ mgrQ'[i] = mgrQ[i + 1] /\ i \in Int
        /\ j + 1 \in DOMAIN mgrQ /\ mgrQ'[j] = mgrQ[j + 1] /\ j \in Int
    BY <1>1 DEF RestOf
  <2>2. i + 1 < j + 1 /\ mgrQ[i + 1].role = mgrQ[j + 1].role
    BY <2>1
  <2> QED
    BY <2>1, <2>2 DEF SerialInv, RoleMail
<1> QED
  BY <1>5, <1>6, <1>7 DEF SerialInv, Services, Logins

\* gatemgr.add_role.
LEMMA AddSerial ==
  ASSUME GateInv, TypeOK', SerialInv, AddRole, UNCHANGED gateVars
  PROVE  SerialInv'
<1>1. PICK g \in Gate, r \in Role :
         /\ g = mgrQ[1].gate /\ r = mgrQ[1].role /\ g # Nil
         /\ mgrQ[1].op = "add_role" /\ 1 \in DOMAIN mgrQ /\ RestOf(mgrQ, mgrQ')
         /\ mroles' = [mroles EXCEPT ![r] = g]
         /\ UNCHANGED <<live, groles, want, at, gateQ, fate, auth, rows, task>>
  BY TableIs
<1>2. mroles'[r] = g /\ \A s \in Role : s # r => mroles'[s] = mroles[s]
  BY <1>1 DEF GateInv, TypeOK, MgrTypeOK
<1>3. \A op, h, s : op = "del_role" \/ s # r => (Sent(mgrQ, op, h, s) => Sent(mgrQ', op, h, s))
  BY <1>1 DEF Sent, RestOf
<1>4. mroles[r] = Nil /\ (groles[g][r] # Nil \/ Sent(mgrQ, "del_role", g, r))
  BY <1>1, InFlightIs DEF SerialInv, RoleNews, GateInv
<1>5. \A i \in DOMAIN mgrQ : i # 1 /\ mgrQ[i].role = r => mgrQ[i].op = "del_role" /\ mgrQ[i].gate = g
  BY <1>1 DEF SerialInv, RoleMail, RestOf
<1>6. RoleNews'
  <2> SUFFICES ASSUME NEW i \in DOMAIN mgrQ', NEW h, NEW s, h = mgrQ'[i].gate, s = mgrQ'[i].role
               PROVE  IF mgrQ'[i].op = "add_role"
                      THEN mroles'[s] = Nil /\ (groles'[h][s] # Nil \/ (InFlight("del_role", h, s) # {})')
                      ELSE /\ mroles'[s] = h \/ (InFlight("add_role", h, s) # {})'
                           /\ \A k \in Gate : groles'[k][s] = Nil
    BY DEF RoleNews
  <2>1. i + 1 \in DOMAIN mgrQ /\ mgrQ'[i] = mgrQ[i + 1] /\ i + 1 # 1 /\ s \in Role
    <3>1. i + 1 \in DOMAIN mgrQ /\ mgrQ'[i] = mgrQ[i + 1] /\ i + 1 # 1
      BY <1>1 DEF RestOf
    <3> QED
      BY <3>1, MsgTypes DEF GateInv
  <2>2. IF mgrQ'[i].op = "add_role"
        THEN mroles[s] = Nil /\ (groles[h][s] # Nil \/ Sent(mgrQ, "del_role", h, s))
        ELSE /\ mroles[s] = h \/ Sent(mgrQ, "add_role", h, s)
             /\ \A k \in Gate : groles[k][s] = Nil
    BY <2>1, InFlightIs DEF SerialInv, RoleNews, GateInv
  <2>3. CASE mgrQ'[i].op = "add_role"
    <3>1. s # r
      BY <1>5, <2>1, <2>3
    <3> QED
      BY <1>1, <1>2, <1>3, <2>1, <2>2, <2>3, <3>1, InFlightIsNext
  <2>4. CASE mgrQ'[i].op # "add_role" /\ s # r
    BY <1>1, <1>2, <1>3, <2>1, <2>2, <2>4, InFlightIsNext
  <2>5. CASE mgrQ'[i].op # "add_role" /\ s = r
    BY <1>1, <1>2, <1>5, <2>1, <2>2, <2>5
  <2> QED
    BY <2>3, <2>4, <2>5
<1>7. Registered'
  <2> SUFFICES ASSUME NEW h \in Gate, NEW s \in Role, groles[h][s] # Nil
               PROVE  mroles'[s] = h \/ (InFlight("add_role", h, s) # {})'
    BY <1>1 DEF Registered
  <2>1. CASE s # r
    BY <1>2, <1>3, <2>1, InFlightIs, InFlightIsNext DEF SerialInv, Registered, GateInv
  <2>2. CASE s = r
    <3>1. ~Sent(mgrQ, "del_role", g, r)
      BY <2>2 DEF Sent, SerialInv, RoleNews
    <3>2. h = g
      BY <1>4, <2>2, <3>1 DEF SerialInv, OneGate
    <3> QED
      BY <1>2, <2>2, <3>2
  <2> QED
    BY <2>1, <2>2
<1>8. RegistryRoutes'
  <2> SUFFICES ASSUME NEW h \in Gate, NEW s \in Role, mroles'[s] = h
               PROVE  groles[h][s] # Nil \/ (InFlight("del_role", h, s) # {})'
    BY <1>1 DEF RegistryRoutes
  <2>1. CASE s # r
    BY <1>2, <1>3, <2>1, InFlightIs, InFlightIsNext DEF SerialInv, RegistryRoutes, GateInv
  <2>2. CASE s = r
    BY <1>2, <1>3, <1>4, <2>2, InFlightIsNext
  <2> QED
    BY <2>1, <2>2
<1>9. ASSUME NEW s \in Role, Absent(s) PROVE Absent(s)'
  <2>1. s # r
    BY <1>1, <1>9 DEF Absent
  <2> QED
    BY <1>1, <1>2, <1>9, <2>1 DEF Absent, RestOf
<1>10. \A e \in Conn : \A s : Contends(e, s)' <=> Contends(e, s)
  BY <1>1 DEF Contends
<1>11. Existing' /\ OneLogin'
  BY <1>1, <1>9, <1>10 DEF SerialInv, Existing, OneLogin, RestOf
<1>12. Entering'
  BY <1>1, <1>9, EntersSame, EntersHas DEF SerialInv, Entering
<1> QED
  BY <1>6, <1>7, <1>8, <1>11, <1>12, TableFrame DEF Logins

\* gatemgr.del_role.
LEMMA DelSerial ==
  ASSUME GateInv, TypeOK', SerialInv, DelRole, UNCHANGED gateVars
  PROVE  SerialInv'
<1>1. PICK r \in Role :
         /\ r = mgrQ[1].role
         /\ mgrQ[1].op = "del_role" /\ 1 \in DOMAIN mgrQ /\ RestOf(mgrQ, mgrQ')
         /\ mroles' = [mroles EXCEPT ![r] = Nil]
         /\ UNCHANGED <<live, groles, want, at, gateQ, fate, auth, rows, task>>
  <2>1. ~AddRole
    BY DEF AddRole, DelRole
  <2> QED
    BY <2>1, TableIs
<1>2. mroles'[r] = Nil /\ \A s \in Role : s # r => mroles'[s] = mroles[s]
  BY <1>1 DEF GateInv, TypeOK, MgrTypeOK
<1>3. \A op, h, s : s # r => (Sent(mgrQ, op, h, s) => Sent(mgrQ', op, h, s))
  BY <1>1 DEF Sent, RestOf
<1>4. \A h \in Gate : groles[h][r] = Nil
  BY <1>1 DEF SerialInv, RoleNews
<1>5. \A i \in DOMAIN mgrQ : i # 1 => mgrQ[i].role # r
  BY <1>1 DEF SerialInv, RoleMail, RestOf
<1>6. RoleNews'
  <2> SUFFICES ASSUME NEW i \in DOMAIN mgrQ', NEW h, NEW s, h = mgrQ'[i].gate, s = mgrQ'[i].role
               PROVE  IF mgrQ'[i].op = "add_role"
                      THEN mroles'[s] = Nil /\ (groles'[h][s] # Nil \/ (InFlight("del_role", h, s) # {})')
                      ELSE /\ mroles'[s] = h \/ (InFlight("add_role", h, s) # {})'
                           /\ \A k \in Gate : groles'[k][s] = Nil
    BY DEF RoleNews
  <2>1. i + 1 \in DOMAIN mgrQ /\ mgrQ'[i] = mgrQ[i + 1] /\ i + 1 # 1 /\ s \in Role /\ s # r
    <3>1. i + 1 \in DOMAIN mgrQ /\ mgrQ'[i] = mgrQ[i + 1] /\ i + 1 # 1
      BY <1>1 DEF RestOf
    <3> QED
      BY <1>5, <3>1, MsgTypes DEF GateInv
  <2>2. IF mgrQ'[i].op = "add_role"
        THEN mroles[s] = Nil /\ (groles[h][s] # Nil \/ Sent(mgrQ, "del_role", h, s))
        ELSE /\ mroles[s] = h \/ Sent(mgrQ, "add_role", h, s)
             /\ \A k \in Gate : groles[k][s] = Nil
    BY <2>1, InFlightIs DEF SerialInv, RoleNews, GateInv
  <2> QED
    BY <1>1, <1>2, <1>3, <2>1, <2>2, InFlightIsNext
<1>7. Registered'
  <2> SUFFICES ASSUME NEW h \in Gate, NEW s \in Role, groles[h][s] # Nil
               PROVE  mroles'[s] = h \/ (InFlight("add_role", h, s) # {})'
    BY <1>1 DEF Registered
  <2>1. s # r
    BY <1>4
  <2> QED
    BY <1>2, <1>3, <2>1, InFlightIs, InFlightIsNext DEF SerialInv, Registered, GateInv
<1>8. RegistryRoutes'
  <2> SUFFICES ASSUME NEW h \in Gate, NEW s \in Role, mroles'[s] = h
               PROVE  groles[h][s] # Nil \/ (InFlight("del_role", h, s) # {})'
    BY <1>1 DEF RegistryRoutes
  <2>1. s # r
    BY <1>2, SessionAssumption
  <2> QED
    BY <1>2, <1>3, <2>1, InFlightIs, InFlightIsNext DEF SerialInv, RegistryRoutes, GateInv
<1>9. ASSUME NEW s \in Role, Absent(s) PROVE Absent(s)'
  BY <1>1, <1>2, <1>9 DEF Absent, RestOf
<1>10. \A e \in Conn : \A s : Contends(e, s)' <=> Contends(e, s)
  BY <1>1 DEF Contends
<1>11. Existing' /\ OneLogin'
  BY <1>1, <1>9, <1>10 DEF SerialInv, Existing, OneLogin, RestOf
<1>12. Entering'
  BY <1>1, <1>9, EntersSame, EntersHas DEF SerialInv, Entering
<1> QED
  BY <1>6, <1>7, <1>8, <1>11, <1>12, TableFrame DEF Logins

-----------------------------------------------------------------------------
(* One login at a time: a gate gets or loses a role, and tells gatemgr.      *)

\* A mailbox to which m was sent.
GrownBy(q, p, m) ==
    /\ \A i \in DOMAIN q : i \in DOMAIN p /\ p[i] = q[i] /\ i \in Int
    /\ \E n \in DOMAIN p \ DOMAIN q :
          /\ p[n] = m /\ n \in Int
          /\ \A i \in DOMAIN q : i < n
          /\ \A i \in DOMAIN p : i # n => i \in DOMAIN q /\ p[i] = q[i]

\* A message is sent: it is the last.
LEMMA AppendGrows ==
  ASSUME NEW S, NEW q \in Seq(S), NEW m \in S
  PROVE  GrownBy(q, Append(q, m), m)
<1> DEFINE p == Append(q, m)
           n == Len(q) + 1
<1>1. DOMAIN q = 1..Len(q) /\ Len(q) \in Nat /\ DOMAIN p = 1..n
  BY AppendProperties, LenProperties
<1>2. p[n] = m /\ \A i \in 1..Len(q) : p[i] = q[i]
  BY AppendProperties
<1> HIDE DEF p
<1>3. n \in DOMAIN p \ DOMAIN q /\ n \in Int /\ \A i \in DOMAIN q : i < n /\ i \in Int
  BY <1>1
<1>4. \A i \in DOMAIN p : i # n => i \in DOMAIN q /\ p[i] = q[i]
  BY <1>1, <1>2
<1>5. \A i \in DOMAIN q : i \in DOMAIN p /\ p[i] = q[i] /\ i \in Int
  BY <1>1, <1>2
<1> HIDE DEF n
<1>6. GrownBy(q, p, m)
  BY <1>2, <1>3, <1>4, <1>5 DEF GrownBy
<1> QED
  BY <1>6 DEF p

\* A gate sends gatemgr a message.
LEMMA SentGrows ==
  ASSUME TypeOK, NEW op \in {"add_role", "del_role"}, NEW g \in Gate, NEW r \in Role,
         SendMgr(op, g, r)
  PROVE  \E m : /\ m.op = op /\ m.gate = g /\ m.role = r
                /\ GrownBy(mgrQ, mgrQ', m)
<1> DEFINE m == [op |-> op, gate |-> g, role |-> r]
<1>1. m \in MgrMsg /\ mgrQ \in Seq(MgrMsg)
  BY DEF MgrMsg, TypeOK, NetTypeOK
<1>2. m.op = op /\ m.gate = g /\ m.role = r /\ mgrQ' = Append(mgrQ, m)
  BY DEF SendMgr
<1> HIDE DEF m
<1>3. GrownBy(mgrQ, mgrQ', m)
  BY <1>1, <1>2, AppendGrows
<1> QED
  BY <1>2, <1>3

\* What is on its way then, and the order of the messages about a role.
LEMMA GrownSent ==
  ASSUME NEW m, GrownBy(mgrQ, mgrQ', m)
  PROVE  /\ \A op, g, r : Sent(mgrQ, op, g, r) => Sent(mgrQ', op, g, r)
         /\ Sent(mgrQ', m.op, m.gate, m.role)
<1>1. PICK n \in DOMAIN mgrQ' : mgrQ'[n] = m
  BY DEF GrownBy
<1>2. \A i \in DOMAIN mgrQ : i \in DOMAIN mgrQ' /\ mgrQ'[i] = mgrQ[i]
  BY DEF GrownBy
<1> QED
  BY <1>1, <1>2 DEF Sent

\* The messages about a role stay in order if a del_role comes after its add_role.
LEMMA MailOrdered ==
  ASSUME RoleMail, NEW m, GrownBy(mgrQ, mgrQ', m),
         \A i \in DOMAIN mgrQ : mgrQ[i].role = m.role =>
            mgrQ[i].op = "add_role" /\ m.op = "del_role" /\ mgrQ[i].gate = m.gate
  PROVE  RoleMail'
<1> SUFFICES ASSUME NEW i \in DOMAIN mgrQ', NEW j \in DOMAIN mgrQ',
                    mgrQ'[i].role = mgrQ'[j].role, i < j
             PROVE  /\ mgrQ'[i].op = "add_role" /\ mgrQ'[j].op = "del_role"
                    /\ mgrQ'[i].gate = mgrQ'[j].gate
  BY DEF RoleMail
<1>1. PICK n \in DOMAIN mgrQ' :
         /\ mgrQ'[n] = m /\ n \in Int
         /\ \A k \in DOMAIN mgrQ : k < n /\ k \in Int
         /\ \A k \in DOMAIN mgrQ' : k # n => k \in DOMAIN mgrQ /\ mgrQ'[k] = mgrQ[k]
  BY DEF GrownBy
<1>2. i # n
  <2>1. CASE j = n
    BY <1>1, <2>1
  <2>2. CASE j # n
    BY <1>1, <2>2
  <2> QED
    BY <2>1, <2>2
<1>3. i \in DOMAIN mgrQ /\ mgrQ'[i] = mgrQ[i]
  BY <1>1, <1>2
<1>4. CASE j = n
  BY <1>1, <1>3, <1>4
<1>5. CASE j # n
  BY <1>1, <1>3, <1>5 DEF RoleMail
<1> QED
  BY <1>4, <1>5

\* The set of a gate's roles with one more or one less.
LEMMA OneMore ==
  ASSUME NEW R \in SUBSET Role, NEW r \in Role, r \notin R
  PROVE  /\ Cardinality(R \cup {r}) = Cardinality(R) + 1
         /\ Cardinality(R) \in Nat
<1>1. IsFiniteSet(Role)
  BY SessionAssumption, FS_Interval DEF Role
<1>2. IsFiniteSet(R)
  BY <1>1, FS_Subset
<1> QED
  BY <1>2, FS_AddElement, FS_CardinalityType

\* A gate gets a role and sends add_role, or loses one and sends del_role.
LEMMA ExactSent ==
  ASSUME TypeOK, CntExact, UNCHANGED cnt, NEW op \in {"add_role", "del_role"},
         NEW g \in Gate, NEW r \in Role, SendMgr(op, g, r), NEW v \in Conn \cup {Nil},
         groles' = [groles EXCEPT ![g][r] = v],
         op = "add_role" => groles[g][r] = Nil /\ v # Nil,
         op = "del_role" => groles[g][r] # Nil /\ v = Nil
  PROVE  CntExact'
<1>1. \A h \in Gate : Load(h) = Cardinality({s \in Role : groles[h][s] # Nil}) /\ Load(h) \in Int
  BY LoadTypes DEF CntExact, Load
<1>2. ASSUME NEW h \in Gate
      PROVE  Load(h)' = Cardinality({s \in Role : groles'[h][s] # Nil})
  <2> DEFINE R == {s \in Role : groles[h][s] # Nil}
             Q == {s \in Role : groles'[h][s] # Nil}
  <2>1. Load(h)' = Load(h) + (IF h = g THEN (IF op = "add_role" THEN 1 ELSE -1) ELSE 0)
    BY LoadSent
  <2>2. CASE h # g
    <3>1. groles'[h] = groles[h]
      BY <2>2 DEF TypeOK, GateTypeOK
    <3> QED
      BY <1>1, <2>1, <2>2, <3>1
  <2>3. CASE h = g /\ op = "add_role"
    <3>1. Q = R \cup {r} /\ r \notin R
      BY <2>3 DEF TypeOK, GateTypeOK
    <3>2. Cardinality(Q) = Cardinality(R) + 1
      BY <3>1, OneMore
    <3> HIDE DEF R, Q
    <3>3. Load(h) = Cardinality(R)
      BY <1>1 DEF R
    <3>4. Load(h)' = Cardinality(Q)
      BY <2>1, <2>3, <3>2, <3>3
    <3> QED
      BY <3>4 DEF Q
  <2>4. CASE h = g /\ op = "del_role"
    <3>1. R = Q \cup {r} /\ r \notin Q
      BY <2>4 DEF TypeOK, GateTypeOK
    <3>2. Cardinality(R) = Cardinality(Q) + 1 /\ Cardinality(Q) \in Nat
      BY <3>1, OneMore
    <3> HIDE DEF R, Q
    <3>3. Load(h) = Cardinality(R)
      BY <1>1 DEF R
    <3>4. op # "add_role"
      BY <2>4
    <3>5. Load(h)' = Load(h) - 1
      BY <1>1, <2>1, <2>4, <3>4
    <3>6. Load(h)' = Cardinality(Q)
      BY <3>2, <3>3, <3>5
    <3> QED
      BY <3>6 DEF Q
  <2> QED
    BY <2>2, <2>3, <2>4
<1> QED
  BY <1>2 DEF CntExact, Load

\* A gate drops the record of a service that left and tells gatemgr.
LEMMA RoleRemoved ==
  ASSUME GateInv, TypeOK', SerialInv, NEW g \in Gate, NEW r \in Role,
         groles[g][r] \notin live \cup {Nil},
         groles' = [groles EXCEPT ![g][r] = Nil], SendMgr("del_role", g, r),
         UNCHANGED <<mroles, rows, cnt, live, want, at, fate, auth>>,
         \A f \in Conn : Enters(f)' => Enters(f)
  PROVE  Routes' /\ Logins' /\ ServiceReachable' /\ CntExact'
<1>1. PICK m : /\ m.op = "del_role" /\ m.gate = g /\ m.role = r
               /\ GrownBy(mgrQ, mgrQ', m)
  BY SentGrows DEF GateInv
<1>2. PICK n \in DOMAIN mgrQ' :
         /\ mgrQ'[n] = m
         /\ \A i \in DOMAIN mgrQ' : i # n => i \in DOMAIN mgrQ /\ mgrQ'[i] = mgrQ[i]
  BY <1>1 DEF GrownBy
<1>3. /\ \A op, h, s : Sent(mgrQ, op, h, s) => Sent(mgrQ', op, h, s)
      /\ Sent(mgrQ', "del_role", g, r)
  BY <1>1, GrownSent
<1>4. /\ groles'[g][r] = Nil
      /\ \A h \in Gate : \A s \in Role : h # g \/ s # r => groles'[h][s] = groles[h][s]
  BY DEF GateInv, TypeOK, GateTypeOK
<1>5. \A h \in Gate : groles'[h][r] = Nil
  BY <1>4 DEF SerialInv, OneGate
<1>6. \A i \in DOMAIN mgrQ : mgrQ[i].role = r => mgrQ[i].op = "add_role" /\ mgrQ[i].gate = g
  <2> SUFFICES ASSUME NEW i \in DOMAIN mgrQ, mgrQ[i].role = r
               PROVE  mgrQ[i].op = "add_role" /\ mgrQ[i].gate = g
    OBVIOUS
  <2>1. mgrQ[i].gate \in Gate
    BY MsgTypes DEF GateInv
  <2>2. \A j \in DOMAIN mgrQ : mgrQ[j].role = r => mgrQ[j].op = "add_role"
    BY DEF SerialInv, RoleNews
  <2>3. ~Sent(mgrQ, "del_role", mgrQ[i].gate, r)
    BY <2>2 DEF Sent
  <2>4. groles[mgrQ[i].gate][r] # Nil
    BY <2>2, <2>3, InFlightIs DEF SerialInv, RoleNews, GateInv
  <2> QED
    BY <2>1, <2>2, <2>4 DEF SerialInv, OneGate
<1>7. OneGate'
  BY <1>4, <1>5 DEF SerialInv, OneGate
<1>8. RoleMail'
  BY <1>1, <1>6, MailOrdered DEF SerialInv
<1>9. mroles[r] = g \/ Sent(mgrQ, "add_role", g, r)
  BY InFlightIs DEF SerialInv, Registered, GateInv
<1>10. RoleNews'
  <2> SUFFICES ASSUME NEW i \in DOMAIN mgrQ', NEW h, NEW s, h = mgrQ'[i].gate, s = mgrQ'[i].role
               PROVE  IF mgrQ'[i].op = "add_role"
                      THEN mroles'[s] = Nil /\ (groles'[h][s] # Nil \/ (InFlight("del_role", h, s) # {})')
                      ELSE /\ mroles'[s] = h \/ (InFlight("add_role", h, s) # {})'
                           /\ \A k \in Gate : groles'[k][s] = Nil
    BY DEF RoleNews
  <2>1. CASE i = n
    <3>1. mgrQ'[i].op # "add_role" /\ h = g /\ s = r
      BY <1>1, <1>2, <2>1
    <3> QED
      BY <1>3, <1>5, <1>9, <3>1, InFlightIsNext
  <2>2. CASE i # n
    <3>1. i \in DOMAIN mgrQ /\ mgrQ'[i] = mgrQ[i] /\ s \in Role /\ h \in Gate
      BY <1>2, <2>2, MsgTypes DEF GateInv
    <3>2. IF mgrQ'[i].op = "add_role"
          THEN mroles[s] = Nil /\ (groles[h][s] # Nil \/ Sent(mgrQ, "del_role", h, s))
          ELSE /\ mroles[s] = h \/ Sent(mgrQ, "add_role", h, s)
               /\ \A k \in Gate : groles[k][s] = Nil
      BY <3>1, InFlightIs DEF SerialInv, RoleNews, GateInv
    <3>3. CASE s = r
      <4>1. mgrQ'[i].op = "add_role" /\ h = g
        BY <1>6, <3>1, <3>3
      <4> QED
        BY <1>3, <3>2, <3>3, <4>1, InFlightIsNext
    <3>4. CASE s # r
      BY <1>3, <1>4, <3>1, <3>2, <3>4, InFlightIsNext
    <3> QED
      BY <3>3, <3>4
  <2> QED
    BY <2>1, <2>2
<1>11. Registered'
  <2> SUFFICES ASSUME NEW h \in Gate, NEW s \in Role, groles'[h][s] # Nil
               PROVE  mroles'[s] = h \/ (InFlight("add_role", h, s) # {})'
    BY DEF Registered
  <2>1. groles[h][s] # Nil
    BY <1>4
  <2> QED
    BY <1>3, <2>1, InFlightIs, InFlightIsNext DEF SerialInv, Registered, GateInv
<1>12. RegistryRoutes'
  <2> SUFFICES ASSUME NEW h \in Gate, NEW s \in Role, mroles[s] = h
               PROVE  groles'[h][s] # Nil \/ Sent(mgrQ', "del_role", h, s)
    BY InFlightIsNext DEF RegistryRoutes
  <2>1. groles[h][s] # Nil \/ Sent(mgrQ, "del_role", h, s)
    BY InFlightIs DEF SerialInv, RegistryRoutes, GateInv
  <2> QED
    BY <1>3, <1>4, <2>1
<1>13. ASSUME NEW s \in Role, Absent(s) PROVE Absent(s)'
  <2>1. s # r
    BY <1>13 DEF Absent
  <2> QED
    BY <1>1, <1>2, <1>4, <1>13, <2>1 DEF Absent
<1>14. \A e \in Conn : \A s : Contends(e, s)' <=> Contends(e, s)
  BY DEF Contends
<1>15. Existing' /\ OneLogin'
  BY <1>1, <1>2, <1>13, <1>14 DEF SerialInv, Existing, OneLogin
<1>16. Entering'
  BY <1>13, EntersHas DEF SerialInv, Entering
<1>17. ServiceReachable'
  <2> SUFFICES ASSUME NEW l \in live PROVE groles'[at[l]][want[l]] = l
    BY DEF ServiceReachable
  <2>1. groles[at[l]][want[l]] = l /\ at[l] \in Gate /\ want[l] \in Role
    BY LiveHas DEF SerialInv, ServiceReachable
  <2> QED
    BY <1>4, <2>1
<1>18. CntExact'
  BY ExactSent DEF GateInv, SerialInv
<1> QED
  BY <1>7, <1>8, <1>10, <1>11, <1>12, <1>15, <1>16, <1>17, <1>18 DEF Routes, Logins

\* A service is launched for a role that was absent.
LEMMA LaunchedSerial ==
  ASSUME GateInv, GateInv', Undecided, SerialInv, NEW f \in Conn, Launched(f), UNCHANGED mgrVars
  PROVE  SerialInv'
<1>1. PICK g \in Gate, r \in Role : g = at[f] /\ r = want[f] /\ at[f] # Nil
  BY DEF Launched, GateInv, Handed, TypeOK, NetTypeOK
<1>2. /\ UNCHANGED <<mroles, rows, cnt, want, at, auth, gateQ, closer>> /\ live' = live \cup {f}
      /\ SendMgr("add_role", g, r) /\ groles' = [groles EXCEPT ![g][r] = f]
      /\ fate'[f] = "answered" /\ \A e \in Conn \ {f} : fate'[e] = fate[e] /\ task'[e] = task[e]
      /\ task[f] = "spawn" /\ task'[f] = "start"
  BY <1>1 DEF Launched, login, mgrVars, tables, GateInv, TypeOK, NetTypeOK, GateTypeOK
<1>3. Enters(f) /\ Absent(r) /\ Contends(f, r)
  <2>1. Enters(f)
    BY <1>2 DEF Enters
  <2> QED
    BY <1>1, <2>1, EntersHas DEF SerialInv, Entering
<1>4. PICK m : /\ m.op = "add_role" /\ m.gate = g /\ m.role = r
               /\ GrownBy(mgrQ, mgrQ', m)
  BY <1>2, SentGrows DEF GateInv
<1>5. PICK n \in DOMAIN mgrQ' :
         /\ mgrQ'[n] = m
         /\ \A i \in DOMAIN mgrQ' : i # n => i \in DOMAIN mgrQ /\ mgrQ'[i] = mgrQ[i]
  BY <1>4 DEF GrownBy
<1>6. /\ \A op, h, s : Sent(mgrQ, op, h, s) => Sent(mgrQ', op, h, s)
      /\ Sent(mgrQ', "add_role", g, r)
  BY <1>4, GrownSent
<1>7. /\ groles'[g][r] = f /\ f # Nil
      /\ \A h \in Gate : \A s \in Role : h # g \/ s # r => groles'[h][s] = groles[h][s]
      /\ \A h \in Gate : groles[h][r] = Nil
  BY <1>2, <1>3, SessionAssumption DEF GateInv, TypeOK, GateTypeOK, Absent
<1>8. \A i \in DOMAIN mgrQ : mgrQ[i].role # r
  BY <1>3 DEF Absent
<1>9. OneGate'
  BY <1>7 DEF SerialInv, OneGate
<1>10. RoleMail'
  BY <1>4, <1>8, MailOrdered DEF SerialInv
<1>11. RoleNews'
  <2> SUFFICES ASSUME NEW i \in DOMAIN mgrQ', NEW h, NEW s, h = mgrQ'[i].gate, s = mgrQ'[i].role
               PROVE  IF mgrQ'[i].op = "add_role"
                      THEN mroles'[s] = Nil /\ (groles'[h][s] # Nil \/ (InFlight("del_role", h, s) # {})')
                      ELSE /\ mroles'[s] = h \/ (InFlight("add_role", h, s) # {})'
                           /\ \A k \in Gate : groles'[k][s] = Nil
    BY DEF RoleNews
  <2>1. CASE i = n
    BY <1>2, <1>3, <1>4, <1>5, <1>7, <2>1 DEF Absent
  <2>2. CASE i # n
    <3>1. i \in DOMAIN mgrQ /\ mgrQ'[i] = mgrQ[i] /\ s \in Role /\ h \in Gate /\ s # r
      BY <1>5, <1>8, <2>2, MsgTypes DEF GateInv
    <3>2. IF mgrQ'[i].op = "add_role"
          THEN mroles[s] = Nil /\ (groles[h][s] # Nil \/ Sent(mgrQ, "del_role", h, s))
          ELSE /\ mroles[s] = h \/ Sent(mgrQ, "add_role", h, s)
               /\ \A k \in Gate : groles[k][s] = Nil
      BY <3>1, InFlightIs DEF SerialInv, RoleNews, GateInv
    <3> QED
      BY <1>2, <1>6, <1>7, <3>1, <3>2, InFlightIsNext DEF GateInv
  <2> QED
    BY <2>1, <2>2
<1>12. Registered'
  <2> SUFFICES ASSUME NEW h \in Gate, NEW s \in Role, groles'[h][s] # Nil
               PROVE  mroles[s] = h \/ Sent(mgrQ', "add_role", h, s)
    BY <1>2, InFlightIsNext DEF Registered, GateInv
  <2>1. CASE s = r
    BY <1>6, <1>7, <2>1
  <2>2. CASE s # r
    BY <1>6, <1>7, <2>2, InFlightIs DEF SerialInv, Registered, GateInv
  <2> QED
    BY <2>1, <2>2
<1>13. RegistryRoutes'
  <2> SUFFICES ASSUME NEW h \in Gate, NEW s \in Role, mroles[s] = h
               PROVE  groles'[h][s] # Nil \/ Sent(mgrQ', "del_role", h, s)
    BY <1>2, InFlightIsNext DEF RegistryRoutes, GateInv
  <2>1. groles[h][s] # Nil \/ Sent(mgrQ, "del_role", h, s)
    BY InFlightIs DEF SerialInv, RegistryRoutes, GateInv
  <2> QED
    BY <1>6, <1>7, <2>1
<1>14. ASSUME NEW s \in Role, Absent(s), s # r PROVE Absent(s)'
  BY <1>2, <1>4, <1>5, <1>7, <1>14 DEF Absent
<1>15. \A e \in Conn : \A s \in Role : Contends(e, s)' => Contends(e, s) /\ s # r
  <2>1. \A e \in Conn : \A s \in Role : Contends(e, s)' => Contends(e, s) /\ e # f
    BY <1>2 DEF Contends
  <2> QED
    BY <1>3, <2>1 DEF SerialInv, OneLogin
<1>16. r \in rows
  BY <1>3 DEF SerialInv, Existing
<1>17. Existing'
  BY <1>2, <1>14, <1>15, <1>16 DEF SerialInv, Existing
<1>18. OneLogin'
  <2> SUFFICES ASSUME NEW s \in Role, NEW e \in Conn, Contends(e, s)'
               PROVE  /\ \A d \in Conn : Contends(d, s)' => d = e
                      /\ \A i \in DOMAIN mgrQ' : mgrQ'[i].role = s => mgrQ'[i].op = "del_role"
    BY DEF OneLogin
  <2>1. Contends(e, s) /\ s # r
    BY <1>15
  <2> QED
    BY <1>4, <1>5, <1>15, <2>1 DEF SerialInv, OneLogin
<1>19. ASSUME NEW e \in Conn, Enters(e)' PROVE Absent(want[e])'
  <2>1. task'[e] # "none" \/ e # f
    BY <1>2
  <2>2. e # f
    <3> SUFFICES ASSUME e = f PROVE FALSE
      OBVIOUS
    <3>1. ~Mailed(f)'
      BY <1>2, NotMailedNext
    <3> QED
      BY <1>2, <1>19, <3>1 DEF Enters, Mailed, IsLogin
  <2>3. Enters(e)
    BY <1>2, <1>19, <2>2 DEF Enters
  <2>4. Contends(e, want[e]) /\ want[e] \in Role
    BY <2>3, EntersHas
  <2>5. want[e] # r
    BY <1>3, <2>2, <2>4 DEF SerialInv, OneLogin
  <2>6. PICK s \in Role : s = want[e] /\ s = want'[e]
    BY <1>2, <2>4
  <2>7. Absent(s)'
    BY <1>14, <2>3, <2>5, <2>6 DEF SerialInv, Entering
  <2> QED
    BY <2>6, <2>7 DEF Absent
<1>20. Entering'
  BY <1>2, <1>19 DEF Entering
<1>21. SameLogins /\ SameLogouts /\ SameMail
  BY <1>2, StayOld DEF SameLogins, SameLogouts
<1>22. LogoutMail' /\ LogoutWait'
  <2>1. ASSUME NEW h \in Gate, NEW s \in Role, groles[h][s] \notin live \cup {Nil}
        PROVE  groles'[h][s] = groles[h][s] /\ groles'[h][s] \notin live'
    <3>1. h # g \/ s # r
      BY <1>7, <2>1
    <3>2. groles[h][s] # f
      BY <1>1, <2>1, <3>1 DEF GateInv, Records
    <3> QED
      BY <1>2, <1>7, <2>1, <3>1, <3>2
  <2> QED
    BY <1>21, <2>1, LogoutsKept DEF SerialInv, GateInv
<1>23. ServiceReachable'
  <2> SUFFICES ASSUME NEW l \in live \cup {f} PROVE groles'[at[l]][want[l]] = l
    BY <1>2 DEF ServiceReachable
  <2>1. CASE l = f
    BY <1>1, <1>7, <2>1
  <2>2. CASE l \in live
    <3>1. groles[at[l]][want[l]] = l /\ at[l] \in Gate /\ want[l] \in Role /\ l # Nil
      BY <2>2, LiveHas DEF SerialInv, ServiceReachable
    <3> QED
      BY <1>7, <3>1
  <2> QED
    BY <2>1, <2>2
<1>24. CntExact'
  BY <1>2, <1>7, ExactSent DEF GateInv, SerialInv
<1> QED
  BY <1>9, <1>10, <1>11, <1>12, <1>13, <1>17, <1>18, <1>20, <1>22, <1>23, <1>24 DEF SerialInv

\* A service leaves and sends its gate a logout.
LEMMA LeaveSerial ==
  ASSUME GateInv, TypeOK', SerialInv, NEW l \in live, Leave(l),
         UNCHANGED <<mgrVars, gateVars>>
  PROVE  SerialInv'
<1>1. PICK g \in Gate, r \in Role, m \in GateMsg :
         /\ g = at[l] /\ r = want[l] /\ m.op = "logout" /\ m.role = r /\ Gets(g, m)
  BY LeaveIs
<1>2. /\ UNCHANGED <<mroles, rows, cnt, want, at, auth, fate, mgrQ, groles, task, closer>>
      /\ live' = live \ {l}
  BY DEF Leave, login, mgrVars, tables, gateVars
<1>3. groles[g][r] = l /\ l # Nil
  BY <1>1, LiveHas DEF SerialInv, ServiceReachable
<1>4. \A f \in Conn : \A s \in Role : Contends(f, s)' => Contends(f, s)
  BY <1>2 DEF Contends
<1>5. ASSUME NEW f \in Conn, Enters(f)' PROVE Enters(f)
  <2>1. CASE task[f] = "spawn"
    BY <2>1 DEF Enters
  <2>2. CASE task[f] # "spawn"
    <3>1. PICK h \in Gate : \E i \in DOMAIN gateQ'[h] :
             gateQ'[h][i].op = "enter_role" /\ gateQ'[h][i].fd = f
      BY <1>2, <1>5, <2>2 DEF Enters
    <3>2. PICK i \in DOMAIN gateQ'[h] : gateQ'[h][i].op = "enter_role" /\ gateQ'[h][i].fd = f
      BY <3>1
    <3>3. gateQ'[h][i] # m
      BY <1>1, <3>2
    <3>4. i \in DOMAIN gateQ[h] /\ gateQ'[h][i] = gateQ[h][i]
      BY <1>1, <3>3, MailBefore DEF GateInv
    <3> QED
      BY <3>2, <3>4 DEF Enters
  <2> QED
    BY <2>1, <2>2
<1>6. Routes' /\ Logins'
  <2>1. SameLogins
    BY <1>2 DEF SameLogins
  <2> QED
    BY <1>2, <1>4, <1>5, <2>1, SerialParts, RoutesKept, LoginsKept
<1>7. CntExact'
  <2>1. \A h \in Gate : Load(h)' = Load(h)
    BY <1>2, LoadKept
  <2> QED
    BY <1>2, <2>1, ExactKept DEF SerialInv, GateInv
<1>8. ServiceReachable'
  BY <1>2 DEF SerialInv, ServiceReachable
<1>9. \A h \in Gate : LogoutWaits(h)' = LogoutWaits(h)
  BY <1>2 DEF LogoutWaits
<1>10. \A i \in Leaving(g) : gateQ[g][i].role # r
  BY <1>3 DEF SerialInv, LogoutMail
<1>11. \A f \in LogoutWaits(g) : want[closer[f].rec] # r
  <2> SUFFICES ASSUME NEW f \in LogoutWaits(g), want[closer[f].rec] = r PROVE FALSE
    OBVIOUS
  <2>1. f \in Conn /\ closer[f].why = "logout" /\ at[closer[f].rec] = g
    BY DEF LogoutWaits
  <2> QED
    BY <1>3, <2>1 DEF SerialInv, LogoutWait
<1>12. ASSUME NEW h \in Gate, NEW i \in Leaving(h)'
       PROVE  LET s == gateQ'[h][i].role
              IN /\ groles[h][s] \notin live' \cup {Nil}
                 /\ \A j \in Leaving(h)' : gateQ'[h][j].role = s => i = j
                 /\ \A f \in LogoutWaits(h) : want[closer[f].rec] # s
  <2>1. CASE h # g
    <3>1. Leaving(h)' = Leaving(h) /\ \A j \in Leaving(h) : gateQ'[h][j] = gateQ[h][j]
      BY <1>1, <2>1, MailSent DEF GateInv
    <3> QED
      BY <1>2, <1>12, <3>1 DEF SerialInv, LogoutMail
  <2>2. CASE h = g
    <3>1. PICK n : /\ Leaving(g)' = Leaving(g) \cup {n} /\ n \notin Leaving(g) /\ gateQ'[g][n] = m
                   /\ \A j \in Leaving(g) : gateQ'[g][j] = gateQ[g][j]
      BY <1>1, MailSent DEF GateInv
    <3>2. CASE i = n
      BY <1>1, <1>2, <1>3, <1>10, <1>11, <2>2, <3>1, <3>2
    <3>3. CASE i \in Leaving(g)
      <4>1. PICK s : s = gateQ[g][i].role
        OBVIOUS
      <4>2. /\ groles[g][s] \notin live \cup {Nil} /\ s # r
            /\ \A j \in Leaving(g) : gateQ[g][j].role = s => i = j
            /\ \A f \in LogoutWaits(g) : want[closer[f].rec] # s
        BY <1>10, <3>3, <4>1 DEF SerialInv, LogoutMail
      <4>3. gateQ'[g][i].role = s
        BY <3>1, <3>3, <4>1
      <4>4. \A j \in Leaving(g)' : gateQ'[g][j].role = s => i = j
        BY <1>1, <3>1, <4>2
      <4> QED
        BY <1>2, <2>2, <4>2, <4>3, <4>4
    <3> QED
      BY <1>12, <2>2, <3>1, <3>2, <3>3
  <2> QED
    BY <2>1, <2>2
<1>13. LogoutMail'
  BY <1>2, <1>9, <1>12 DEF LogoutMail
<1>14. LogoutWait'
  BY <1>2 DEF SerialInv, LogoutWait
<1> QED
  BY <1>6, <1>7, <1>8, <1>13, <1>14 DEF SerialInv, Routes, Logins

\* Handling a message makes nobody enter a role who was not about to.
LEMMA EntersOld ==
  ASSUME OldMail, \A e \in Conn : task'[e] = "spawn" => task[e] = "spawn", NEW f \in Conn
  PROVE  Enters(f)' => Enters(f)
BY DEF Enters, OldMail

\* The logouts that stay in a gate's mailbox are about other roles than the one
\* that is handled.
LEMMA MailAfter ==
  ASSUME GateInv, LogoutMail, NEW g \in Gate, Next1(g, "logout"), Pop(g),
         NEW h \in Gate, NEW i \in Leaving(h)'
  PROVE  LET s == gateQ'[h][i].role
         IN /\ s \in Role
            /\ groles[h][s] \notin live \cup {Nil}
            /\ \A j \in Leaving(h)' : gateQ'[h][j].role = s => i = j
            /\ \A f \in LogoutWaits(h) : want[closer[f].rec] # s
            /\ h = g => s # Head(gateQ[g]).role
<1>1. gateQ[h] \in Seq(GateMsg) /\ gateQ[g] \in Seq(GateMsg)
  BY DEF GateInv, TypeOK, NetTypeOK
<1>2. \A j \in Leaving(h) : gateQ[h][j].role \in Role
  <2>1. \A j \in Leaving(h) : gateQ[h][j] \in GateMsg
    BY <1>1 DEF Leaving
  <2> QED
    BY <2>1 DEF GateMsg
<1>3. CASE h # g
  <2>1. Leaving(h)' = Leaving(h) /\ gateQ'[h] = gateQ[h]
    BY <1>3, MailTaken DEF GateInv
  <2> QED
    BY <1>2, <1>3, <2>1 DEF LogoutMail
<1>4. CASE h = g
  <2>1. /\ 1 \in Leaving(g) /\ gateQ[g][1] = Head(gateQ[g])
        /\ \A j \in Leaving(g)' : j + 1 \in Leaving(g) /\ j + 1 # 1 /\ gateQ[g][j + 1] = gateQ'[g][j]
    BY MailTaken DEF GateInv
  <2>2. PICK s : s = gateQ'[g][i].role
    OBVIOUS
  <2>3. i + 1 \in Leaving(g) /\ i + 1 # 1 /\ gateQ[g][i + 1].role = s
    BY <1>4, <2>1, <2>2
  <2>4. /\ groles[g][s] \notin live \cup {Nil}
        /\ \A j \in Leaving(g) : gateQ[g][j].role = s => i + 1 = j
        /\ \A f \in LogoutWaits(g) : want[closer[f].rec] # s
    BY <2>3 DEF LogoutMail
  <2>5. ASSUME NEW j \in Leaving(g)', gateQ'[g][j].role = s PROVE i = j
    <3>1. i + 1 = j + 1
      BY <2>1, <2>4, <2>5
    <3>2. i \in Int /\ j \in Int
      <4>1. \A k \in Leaving(g)' : k \in DOMAIN gateQ'[g]
        BY DEF Leaving
      <4>2. gateQ'[g] = Tail(gateQ[g]) /\ gateQ[g] # <<>>
        BY DEF Pop, Next1, GateInv, TypeOK, NetTypeOK
      <4>3. \A k \in DOMAIN gateQ'[g] : k \in Int
        <5>1. RestOf(gateQ[g], gateQ'[g])
          BY <1>1, <4>2, TailRest
        <5> QED
          BY <5>1 DEF RestOf
      <4> QED
        BY <1>4, <2>5, <4>1, <4>3
    <3> QED
      BY <3>1, <3>2
  <2>6. s # Head(gateQ[g]).role
    BY <2>1, <2>3, <2>4
  <2>7. s \in Role
    BY <1>2, <1>4, <2>3
  <2> QED
    BY <1>4, <2>2, <2>4, <2>5, <2>6, <2>7
<1> QED
  BY <1>3, <1>4

\* A gate handles a logout.
LEMMA LogoutSerial ==
  ASSUME GateInv, TypeOK', SerialInv, NEW g \in Gate, Logout(g), UNCHANGED mgrVars
  PROVE  SerialInv'
<1>1. PICK r \in Role :
         /\ r = Head(gateQ[g]).role
         /\ UNCHANGED <<live, want, at, cnt>> /\ Next1(g, "logout") /\ Pop(g)
         /\ \/ groles[g][r] = Nil
            \/ /\ groles[g][r] # Nil /\ closer' = closer
               /\ groles' = [groles EXCEPT ![g][r] = Nil]
               /\ SendMgr("del_role", g, r)
            \/ \E c, l \in Conn :
                  /\ l = groles[g][r] /\ at[l] = g /\ want[l] = r /\ closer[c].why = "none"
                  /\ CloseLater(c, "logout", l, Nil)
                  /\ UNCHANGED <<mgrQ, groles, task>>
  BY LogoutCases
<1>2. UNCHANGED <<fate, auth, rows, mroles>> /\ TypeOK
  BY DEF Logout, mgrVars, tables, GateInv
<1>3. ASSUME NEW f \in Conn, Enters(f)' PROVE Enters(f)
  <2>1. \A e \in Conn : task'[e] = "spawn" => task[e] = "spawn"
    BY <1>2 DEF Logout, CloseNow, TypeOK, GateTypeOK
  <2>2. OldMail
    BY <1>1, <1>2, PopOld DEF Next1
  <2> QED
    BY <1>3, <2>1, <2>2, EntersOld
<1>4. /\ groles[g][r] \notin live \cup {Nil}
      /\ \A f \in LogoutWaits(g) : want[closer[f].rec] # r
  <2>1. 1 \in Leaving(g) /\ gateQ[g][1].role = r
    BY <1>1, <1>2, MailTaken
  <2> QED
    BY <2>1 DEF SerialInv, LogoutMail
<1>5. \A h \in Gate : \A i \in Leaving(h)' :
         LET s == gateQ'[h][i].role
         IN /\ s \in Role
            /\ groles[h][s] \notin live \cup {Nil}
            /\ \A j \in Leaving(h)' : gateQ'[h][j].role = s => i = j
            /\ \A f \in LogoutWaits(h) : want[closer[f].rec] # s
            /\ h = g => s # r
  BY <1>1, MailAfter DEF SerialInv
<1>6. \A f \in Conn : closer[f].why = "logout" =>
         LET l == closer[f].rec
         IN /\ l \notin live /\ at[l] \in Gate /\ want[l] \in Role
            /\ groles[at[l]][want[l]] = l
            /\ \A e \in Conn : closer[e].why = "logout" /\ closer[e].rec = l => e = f
            /\ at[l] # g \/ want[l] # r
  BY <1>4, LogoutWaitHas DEF SerialInv, LogoutWait, LogoutWaits
<1>7. CASE /\ groles[g][r] # Nil /\ closer' = closer
           /\ groles' = [groles EXCEPT ![g][r] = Nil]
           /\ SendMgr("del_role", g, r)
  <2>1. Routes' /\ Logins' /\ ServiceReachable' /\ CntExact'
    BY <1>1, <1>2, <1>3, <1>4, <1>7, RoleRemoved
  <2>2. \A h \in Gate : \A s \in Role : h # g \/ s # r => groles'[h][s] = groles[h][s]
    BY <1>2, <1>7 DEF TypeOK, GateTypeOK
  <2>3. \A h \in Gate : LogoutWaits(h)' = LogoutWaits(h)
    BY <1>1, <1>7 DEF LogoutWaits
  <2>4. LogoutMail'
    BY <1>1, <1>5, <1>7, <2>2, <2>3 DEF LogoutMail
  <2>5. LogoutWait'
    BY <1>1, <1>6, <1>7, <2>2 DEF LogoutWait
  <2> QED
    BY <2>1, <2>4, <2>5 DEF SerialInv, Routes, Logins
<1>8. ASSUME NEW c \in Conn, NEW l \in Conn,
             l = groles[g][r], at[l] = g, want[l] = r, closer[c].why = "none",
             CloseLater(c, "logout", l, Nil), UNCHANGED <<mgrQ, groles, task>>
      PROVE  SerialInv'
  <2>1. /\ closer'[c].why = "logout" /\ closer'[c].rec = l
        /\ \A e \in Conn \ {c} : closer'[e] = closer[e]
    BY <1>2, <1>8 DEF CloseLater, TypeOK, GateTypeOK
  <2>2. SameLogins
    BY <1>1 DEF SameLogins
  <2>3. \A f \in Conn : \A s \in Role : Contends(f, s)' => Contends(f, s)
    BY <1>1, <1>2 DEF Contends
  <2>4. Routes' /\ Logins'
    BY <1>2, <1>3, <1>8, <2>2, <2>3, SerialParts, RoutesKept, LoginsKept
  <2>5. CntExact'
    <3>1. \A h \in Gate : Load(h)' = Load(h)
      BY <1>1, <1>8, LoadKept
    <3> QED
      BY <1>2, <1>8, <3>1, ExactKept DEF SerialInv
  <2>6. ServiceReachable'
    BY <1>1, <1>8 DEF SerialInv, ServiceReachable
  <2>7. ASSUME NEW h \in Gate, NEW f \in LogoutWaits(h)'
        PROVE  \/ f \in LogoutWaits(h) /\ closer'[f] = closer[f]
               \/ h = g /\ closer'[f].rec = l
    <3>1. f \in Conn /\ closer'[f].why = "logout" /\ at[closer'[f].rec] = h
      BY <1>1, <2>7 DEF LogoutWaits
    <3>2. CASE f = c
      BY <1>8, <2>1, <3>1, <3>2
    <3>3. CASE f # c
      BY <2>1, <3>1, <3>3 DEF LogoutWaits
    <3> QED
      BY <3>2, <3>3
  <2>8. LogoutMail'
    <3> SUFFICES ASSUME NEW h \in Gate, NEW i \in Leaving(h)'
                 PROVE  LET s == gateQ'[h][i].role
                        IN /\ groles[h][s] \notin live \cup {Nil}
                           /\ \A j \in Leaving(h)' : gateQ'[h][j].role = s => i = j
                           /\ \A f \in LogoutWaits(h)' : want[closer'[f].rec] # s
      BY <1>1, <1>8 DEF LogoutMail
    <3> QED
      BY <1>5, <1>8, <2>7
  <2>9. LogoutWait'
    BY <1>1, <1>4, <1>6, <1>8, <2>1 DEF LogoutWait
  <2> QED
    BY <2>4, <2>5, <2>6, <2>8, <2>9 DEF SerialInv, Routes, Logins
<1> QED
  BY <1>1, <1>4, <1>7, <1>8

\* A logout that waited for a socket goes on.
LEMMA CloseDoneLogoutSerial ==
  ASSUME GateInv, TypeOK', SerialInv, NEW f \in Conn, CloseDoneLogout(f), UNCHANGED mgrVars
  PROVE  SerialInv'
<1>1. PICK l \in Conn, g \in Gate, r \in Role :
         l = closer[f].rec /\ g = at[l] /\ r = want[l] /\ closer[f].why = "logout"
  BY LogoutWaitHas DEF CloseDoneLogout, Closed
<1>2. /\ UNCHANGED <<live, want, at, cnt, gateQ, fate, auth, rows, mroles>>
      /\ SendMgr("del_role", g, r) /\ groles' = [groles EXCEPT ![g][r] = Nil]
  BY <1>1 DEF CloseDoneLogout, login, mgrVars, tables
<1>3. closer'[f].why = "none" /\ \A e \in Conn \ {f} : closer'[e] = closer[e]
  BY DEF CloseDoneLogout, Closed, NoCloser, GateInv, TypeOK, GateTypeOK
<1>4. groles[g][r] = l /\ l \notin live \cup {Nil}
  BY <1>1, SessionAssumption DEF SerialInv, LogoutWait
<1>5. ASSUME NEW e \in Conn, Enters(e)' PROVE Enters(e)
  <2>1. \A d \in Conn : task'[d] = "spawn" => task[d] = "spawn"
    BY DEF CloseDoneLogout, GateInv, TypeOK, GateTypeOK
  <2> QED
    BY <1>2, <1>5, <2>1, StayOld, EntersOld
<1>6. Routes' /\ Logins' /\ ServiceReachable' /\ CntExact'
  BY <1>2, <1>4, <1>5, RoleRemoved
<1>7. \A h \in Gate : \A s \in Role : h # g \/ s # r => groles'[h][s] = groles[h][s]
  BY <1>2 DEF GateInv, TypeOK, GateTypeOK
<1>8. \A h \in Gate : Leaving(h)' = Leaving(h)
  BY <1>2 DEF Leaving
<1>9. \A h \in Gate : \A e \in LogoutWaits(h)' : e \in LogoutWaits(h) /\ closer'[e] = closer[e]
  BY <1>2, <1>3 DEF LogoutWaits
<1>10. \A i \in Leaving(g) : gateQ[g][i].role # r
  BY <1>1 DEF SerialInv, LogoutMail, LogoutWaits
<1>11. ASSUME NEW h \in Gate, NEW i \in Leaving(h)
       PROVE  LET s == gateQ[h][i].role
              IN /\ groles'[h][s] \notin live \cup {Nil}
                 /\ \A j \in Leaving(h) : gateQ[h][j].role = s => i = j
                 /\ \A e \in LogoutWaits(h)' : want[closer'[e].rec] # s
  <2>1. gateQ[h][i].role \in Role
    <3>1. gateQ[h][i] \in GateMsg
      BY DEF Leaving, GateInv, TypeOK, NetTypeOK
    <3> QED
      BY <3>1 DEF GateMsg
  <2> QED
    BY <1>7, <1>9, <1>10, <2>1 DEF SerialInv, LogoutMail
<1>12. LogoutMail'
  BY <1>2, <1>8, <1>11 DEF LogoutMail
<1>13. LogoutWait'
  <2> SUFFICES ASSUME NEW e \in Conn, closer'[e].why = "logout"
               PROVE  LET k == closer'[e].rec
                      IN /\ k \notin live /\ groles'[at[k]][want[k]] = k
                         /\ \A d \in Conn : closer'[d].why = "logout" /\ closer'[d].rec = k => d = e
    BY <1>2 DEF LogoutWait
  <2>1. e # f /\ closer'[e] = closer[e]
    BY <1>3
  <2>2. PICK k : k = closer[e].rec
    OBVIOUS
  <2>3. /\ k \notin live /\ groles[at[k]][want[k]] = k /\ at[k] \in Gate /\ want[k] \in Role
        /\ \A d \in Conn : closer[d].why = "logout" /\ closer[d].rec = k => d = e
    BY <2>1, <2>2, LogoutWaitHas DEF SerialInv, LogoutWait
  <2>4. at[k] # g \/ want[k] # r
    BY <1>1, <1>4, <2>1, <2>3
  <2>5. groles'[at[k]][want[k]] = k
    BY <1>7, <2>3, <2>4
  <2>6. \A d \in Conn : closer'[d].why = "logout" /\ closer'[d].rec = k => d = e
    BY <1>3, <2>3
  <2> QED
    BY <2>1, <2>2, <2>3, <2>5, <2>6
<1> QED
  BY <1>6, <1>12, <1>13 DEF SerialInv, Routes, Logins

-----------------------------------------------------------------------------
(* The theorems.                                                             *)

\* One login at a time is kept up by every step.
LEMMA SerialStep ==
  ASSUME SerialLogin, GateInv, Few, Undecided, SerialInv, [Next]_vars
  PROVE  SerialInv'
<1>1. GateInv' /\ TypeOK'
  <2>1. GateInv'
    BY NextInv
  <2> QED
    BY <2>1 DEF GateInv
<1>2. CASE QuietStep
  BY <1>1, <1>2, QuietSerial
<1>3. ASSUME NEW f \in Conn, UNCHANGED gateVars,
             (\E r \in Asked : RecvAuth(f, r)) \/ MaxDone(f) \/ InsertDone(f)
      PROVE  SerialInv'
  BY <1>1, <1>3, RecvSerial, NewSerial
<1>4. ASSUME NEW f \in Conn, UNCHANGED gateVars, ApplyGate(f)
      PROVE  SerialInv'
  BY <1>1, <1>4, ApplySerial
<1>5. CASE (AddRole \/ DelRole) /\ UNCHANGED gateVars
  BY <1>1, <1>5, AddSerial, DelSerial
<1>6. ASSUME NEW f \in Conn, Launched(f), UNCHANGED mgrVars PROVE SerialInv'
  BY <1>1, <1>6, LaunchedSerial
<1>7. ASSUME NEW g \in Gate, Logout(g), UNCHANGED mgrVars PROVE SerialInv'
  BY <1>1, <1>7, LogoutSerial
<1>8. ASSUME NEW f \in Conn, CloseDoneLogout(f), UNCHANGED mgrVars PROVE SerialInv'
  BY <1>1, <1>8, CloseDoneLogoutSerial
<1>9. ASSUME NEW l \in live, Leave(l), UNCHANGED <<mgrVars, gateVars>> PROVE SerialInv'
  BY <1>1, <1>9, LeaveSerial
<1> QED
  BY <1>1, <1>2, <1>3, <1>4, <1>5, <1>6, <1>7, <1>8, <1>9, StepCases

\* At the start there is nothing to count.
LEMMA InitCounts == Init => Few /\ Counted /\ Backed /\ Undecided /\ SerialInv
<1> SUFFICES ASSUME Init PROVE Few /\ Counted /\ Backed /\ Undecided /\ SerialInv
  OBVIOUS
<1>1. TypeOK
  BY InitInv DEF GateInv
<1>2. /\ live = {} /\ mgrQ = <<>> /\ \A g \in Gate : gateQ[g] = <<>> /\ cnt[g] = 0
      /\ \A f \in Conn : /\ closer[f].why = "none" /\ fate[f] = "none" /\ auth[f] = "idle"
                         /\ task[f] = "none"
      /\ \A g \in Gate, r \in Role : groles[g][r] = Nil
      /\ \A r \in Role : mroles[r] = Nil
  BY DEF Init, NetInit, MgrInit, GateInit, NoCloser
<1>3. DOMAIN mgrQ = {} /\ \A g \in Gate : DOMAIN gateQ[g] = {}
  BY <1>2
<1>4. Few
  <2>1. {f \in Conn : closer[f].why # "none"} = {}
    BY <1>2
  <2> QED
    BY <1>2, <2>1, FS_EmptySet DEF Few
<1>5. ASSUME NEW g \in Gate
      PROVE  /\ Load(g) = 0
             /\ Served(g) = {} /\ Leaving(g) = {} /\ LogoutWaits(g) = {}
             /\ {r \in Role : groles[g][r] # Nil} = {}
  <2>1. \A op : Occ(mgrQ, MsgsOf(op, g)) = {}
    BY <1>3 DEF Occ
  <2>2. Load(g) = 0
    <3>1. Load(g) = cnt[g] + Cardinality(Occ(mgrQ, MsgsOf("add_role", g)))
                           - Cardinality(Occ(mgrQ, MsgsOf("del_role", g)))
      BY LoadIs
    <3>2. /\ Cardinality(Occ(mgrQ, MsgsOf("add_role", g))) = 0
          /\ Cardinality(Occ(mgrQ, MsgsOf("del_role", g))) = 0
      BY <2>1, FS_EmptySet
    <3>3. cnt[g] = 0
      BY <1>2
    <3> QED
      BY ONLY <3>1, <3>2, <3>3
  <2>3. Served(g) = {} /\ Leaving(g) = {} /\ LogoutWaits(g) = {}
    BY <1>2, <1>3 DEF Served, Leaving, LogoutWaits
  <2> QED
    BY <1>2, <2>2, <2>3
<1>6. Counted
  BY <1>5, FS_EmptySet DEF Counted
<1>7. CntExact
  BY <1>5, FS_EmptySet DEF CntExact, Load
<1>8. Backed /\ Undecided
  BY <1>2, <1>3 DEF Backed, Undecided, UnderWay, Mailed
<1>9. Existing /\ OneLogin /\ OneGate /\ RoleMail /\ RoleNews /\ Registered /\ Entering
  BY <1>2, <1>3
     DEF Existing, Absent, Contends, OneLogin, OneGate, RoleMail, RoleNews, Registered,
         Entering, Enters
<1>10. RegistryRoutes
  BY <1>2, SessionAssumption DEF RegistryRoutes
<1>11. LogoutMail /\ LogoutWait /\ ServiceReachable
  BY <1>2, <1>5 DEF LogoutMail, LogoutWait, ServiceReachable
<1> QED
  BY <1>4, <1>6, <1>7, <1>8, <1>9, <1>10, <1>11 DEF SerialInv

\* The whole invariant of the session: GateInv, what the loads rest on, and, when
\* clients log in one at a time, what the gates, gatemgr, the services and the
\* messages between them know of each role.
THEOREM SessionInvariant == Spec => []IInv
<1>1. Init => IInv
  BY InitInv, InitCounts DEF IInv
<1>2. IInv /\ [Next]_vars => IInv'
  BY CountsInv, SerialStep DEF IInv
<1> QED
  BY <1>1, <1>2, PTL DEF Spec

\* gatemgr's load count of a gate, with the changes on their way, never falls
\* below the roles the gate has, whatever clients do (add_role and del_role in
\* gate.lua, get_gate in gatemgr.lua).
THEOREM LoadCovers == Spec => []CntCovers
<1>1. IInv => CntCovers
  BY Covered DEF IInv
<1> QED
  BY <1>1, SessionInvariant, PTL

\* When clients log in one at a time the load counts are exact.
THEOREM LoadExact == ASSUME SerialLogin PROVE Spec => []CntExact
<1>1. IInv => CntExact
  BY DEF IInv, SerialInv
<1> QED
  BY <1>1, SessionInvariant, PTL

\* Then no role ever has two services, on one gate or on two.
THEOREM RoleHasOneService == ASSUME SerialLogin PROVE Spec => []OneService
<1>1. IInv => OneService
  <2> SUFFICES ASSUME GateInv, SerialInv, NEW k \in live, NEW l \in live, want[k] = want[l]
               PROVE  k = l
    BY DEF IInv, OneService
  <2>1. groles[at[k]][want[k]] = k /\ groles[at[l]][want[l]] = l
    BY DEF SerialInv, ServiceReachable
  <2>2. at[k] = at[l]
    BY <2>1, LiveHas DEF SerialInv, OneGate
  <2> QED
    BY <2>1, <2>2
<1> QED
  BY <1>1, SessionInvariant, PTL

\* Then the gate that gatemgr has for a role has the role, or its del_role is on
\* the way (__roles in gatemgr.lua, by which apply_gate routes a login).
THEOREM RoutesLead == ASSUME SerialLogin PROVE Spec => []RegistryRoutes
<1>1. IInv => RegistryRoutes
  BY DEF IInv, SerialInv
<1> QED
  BY <1>1, SessionInvariant, PTL

\* And a service that runs is the one in its gate's record of the role (__roles
\* in gate.lua, where gate.reenter_role and gate.disconnected look it up).
THEOREM ServiceFound == ASSUME SerialLogin PROVE Spec => []ServiceReachable
<1>1. IInv => ServiceReachable
  BY DEF IInv, SerialInv
<1> QED
  BY <1>1, SessionInvariant, PTL

=============================================================================
