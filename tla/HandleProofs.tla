---------------------------- MODULE HandleProofs ----------------------------
(* The handle storage with one thread that creates services: for any number  *)
(* of services and names and any size of table and handles.                  *)
EXTENDS SkynetHandle, FiniteSetTheorems, SequenceTheorems, WellFoundedInduction, TLAPS

USE NilIsNothing, NumNameNat

-----------------------------------------------------------------------------
(* Numbers                                                                   *)

\* A set of numbers has a least one: what the inductions below begin with.
LEMMA LeastNat ==
  ASSUME NEW T, T \subseteq Nat, T # {}
  PROVE  \E x \in T : \A y \in T : x <= y
<1> DEFINE R == OpToRel(<, Nat)
<1>1. IsWellFoundedOn(R, Nat)
  BY NatLessThanWellFounded
<1>2. \A x, y \in Nat : x < y => <<x, y>> \in R
  BY DEF OpToRel
<1> HIDE DEF R
<1>3. PICK x \in T : \A y \in T : ~(<<y, x>> \in R)
  BY <1>1, WFMin
<1>4. ASSUME NEW y \in T
      PROVE  x <= y
  <2>1. x \in Nat /\ y \in Nat
    OBVIOUS
  <2>2. ASSUME y < x
        PROVE  FALSE
    <3>1. <<y, x>> \in R
      BY <1>2, <2>1, <2>2
    <3> QED
      BY <1>3, <3>1
  <2> QED
    BY <2>1, <2>2
<1> QED
  BY <1>4

\* The powers of two, one by one.
Two ==
    {1, 2, 4, 8, 16, 32, 64, 128, 256, 512, 1024, 2048, 4096, 8192,
     16384, 32768, 65536, 131072, 262144, 524288, 1048576, 2097152,
     4194304, 8388608, 16777216}

LEMMA Powers == Power = Two
<1>1. ASSUME NEW k \in 0..24
      PROVE  2 ^ k \in Two
  <2>0. CASE k = 0
    BY <2>0 DEF Two
  <2>1. CASE k = 1
    BY <2>1 DEF Two
  <2>2. CASE k = 2
    BY <2>2 DEF Two
  <2>3. CASE k = 3
    BY <2>3 DEF Two
  <2>4. CASE k = 4
    BY <2>4 DEF Two
  <2>5. CASE k = 5
    BY <2>5 DEF Two
  <2>6. CASE k = 6
    BY <2>6 DEF Two
  <2>7. CASE k = 7
    BY <2>7 DEF Two
  <2>8. CASE k = 8
    BY <2>8 DEF Two
  <2>9. CASE k = 9
    BY <2>9 DEF Two
  <2>10. CASE k = 10
    BY <2>10 DEF Two
  <2>11. CASE k = 11
    BY <2>11 DEF Two
  <2>12. CASE k = 12
    BY <2>12 DEF Two
  <2>13. CASE k = 13
    BY <2>13 DEF Two
  <2>14. CASE k = 14
    BY <2>14 DEF Two
  <2>15. CASE k = 15
    BY <2>15 DEF Two
  <2>16. CASE k = 16
    BY <2>16 DEF Two
  <2>17. CASE k = 17
    BY <2>17 DEF Two
  <2>18. CASE k = 18
    BY <2>18 DEF Two
  <2>19. CASE k = 19
    BY <2>19 DEF Two
  <2>20. CASE k = 20
    BY <2>20 DEF Two
  <2>21. CASE k = 21
    BY <2>21 DEF Two
  <2>22. CASE k = 22
    BY <2>22 DEF Two
  <2>23. CASE k = 23
    BY <2>23 DEF Two
  <2>24. CASE k = 24
    BY <2>24 DEF Two
  <2> QED
    BY <2>0, <2>1, <2>2, <2>3, <2>4, <2>5, <2>6, <2>7, <2>8, <2>9, <2>10, <2>11, <2>12, <2>13,
       <2>14, <2>15, <2>16, <2>17, <2>18, <2>19, <2>20, <2>21, <2>22, <2>23, <2>24
<1>2. ASSUME NEW n \in Two
      PROVE  n \in Power
  <2>1. /\ 1 = 2 ^ 0 /\ 2 = 2 ^ 1 /\ 4 = 2 ^ 2 /\ 8 = 2 ^ 3 /\ 16 = 2 ^ 4
        /\ 32 = 2 ^ 5 /\ 64 = 2 ^ 6 /\ 128 = 2 ^ 7 /\ 256 = 2 ^ 8 /\ 512 = 2 ^ 9
        /\ 1024 = 2 ^ 10 /\ 2048 = 2 ^ 11 /\ 4096 = 2 ^ 12 /\ 8192 = 2 ^ 13 /\ 16384 = 2 ^ 14
        /\ 32768 = 2 ^ 15 /\ 65536 = 2 ^ 16 /\ 131072 = 2 ^ 17 /\ 262144 = 2 ^ 18 /\ 524288 = 2 ^ 19
        /\ 1048576 = 2 ^ 20 /\ 2097152 = 2 ^ 21 /\ 4194304 = 2 ^ 22 /\ 8388608 = 2 ^ 23 /\ 16777216 = 2 ^ 24
    OBVIOUS
  <2> QED
    BY <2>1 DEF Two, Power
<1> QED
  BY <1>1, <1>2 DEF Power

\* The greater of two powers is a power times the other one.
LEMMA PowerDivides ==
  ASSUME NEW a \in Power, NEW b \in Power
  PROVE  /\ a \in Nat \ {0}
         /\ a <= b => \E d \in Power : b = a * d
         /\ 1 < a => \E d \in Power : a = 2 * d
         /\ a < b => 2 * a \in Power /\ 2 * a <= b
BY Powers DEF Two

\* Division with rest.
LEMMA Divide ==
  ASSUME NEW n \in Nat \ {0}, NEW a \in Nat
  PROVE  /\ a % n \in 0..(n - 1) /\ a \div n \in Nat
         /\ a = n * (a \div n) + (a % n)
OBVIOUS

LEMMA Rest ==
  ASSUME NEW n \in Nat \ {0}, NEW q \in Int, NEW r \in 0..(n - 1)
  PROVE  (n * q + r) % n = r
OBVIOUS

\* What is left after division by 2n tells what is left after division by n.
LEMMA HalfRest ==
  ASSUME NEW n \in Nat \ {0}, NEW N, N = 2 * n, NEW a \in Nat
  PROVE  /\ a % N \in 0..(N - 1)
         /\ a % n = IF a % N < n THEN a % N ELSE (a % N) - n
<1>0. N \in Nat \ {0}
  OBVIOUS
<1> DEFINE d == a \div N
           r == a % N
<1>1. r \in 0..(N - 1) /\ d \in Nat /\ a = N * d + r
  BY <1>0, Divide
<1> HIDE DEF d, r
<1>2. N * d = n * (2 * d)
  BY <1>1
<1>3. N * d + n = n * (2 * d + 1)
  BY <1>1
<1>4. CASE r < n
  <2>1. r \in 0..(n - 1) /\ 2 * d \in Int
    BY <1>0, <1>1, <1>4
  <2>2. (n * (2 * d) + r) % n = r
    BY <2>1, Rest
  <2>3. a % n = r
    BY <1>1, <1>2, <2>2
  <2> QED
    BY <1>1, <1>4, <2>3 DEF r
<1>5. CASE r >= n
  <2>1. r - n \in 0..(n - 1) /\ 2 * d + 1 \in Int
    BY <1>0, <1>1, <1>5
  <2>2. (n * (2 * d + 1) + (r - n)) % n = r - n
    BY <2>1, Rest
  <2>3. a = (N * d + n) + (r - n)
    BY <1>0, <1>1
  <2>4. a % n = r - n
    BY <1>3, <2>2, <2>3
  <2> QED
    BY <1>0, <1>1, <1>5, <2>4 DEF r
<1> QED
  BY <1>0, <1>1, <1>4, <1>5

Steps(n, N, a, b) == \E d \in Nat : b + N * d = a + n

\* Steps of n move between the halves of a table of N = 2n; rounds do nothing.
LEMMA OtherHalf ==
  ASSUME NEW n \in Nat \ {0}, NEW N, N = 2 * n,
         NEW a \in Nat, NEW b \in Nat, Steps(n, N, a, b)
  PROVE  b % N # a % N /\ b % n = a % n
<1>s. PICK d \in Nat : b + N * d = a + n
  BY DEF Steps
<1>0. N \in Nat \ {0}
  OBVIOUS
<1> DEFINE p == a \div N
           r == a % N
           x == IF r < n THEN r + n ELSE r - n
           e == IF r < n THEN p - d ELSE p + 1 - d
<1>1. r \in 0..(N - 1) /\ p \in Nat /\ a = N * p + r
  BY <1>0, Divide
<1>2. x \in 0..(N - 1) /\ e \in Int /\ x # r
  <2> HIDE DEF p, r
  <2> QED
    BY <1>1
<1>3. b = N * e + x
  <2>1. N * (p - d) = N * p - N * d
    <3> HIDE DEF p, r
    <3> QED
      BY <1>0, <1>1
  <2>2. N * (p + 1 - d) = N * p + N - N * d
    <3> HIDE DEF p, r
    <3> QED
      BY <1>0, <1>1
  <2>3. b = a + n - N * d /\ N * d \in Nat /\ N * p \in Nat
    <3> HIDE DEF p, r
    <3> QED
      BY <1>s, <1>0, <1>1
  <2> HIDE DEF p, r
  <2>4. CASE r < n
    BY <1>0, <1>1, <2>1, <2>3, <2>4
  <2>5. CASE ~(r < n)
    BY <1>0, <1>1, <2>2, <2>3, <2>5
  <2> QED
    BY <2>4, <2>5
<1> HIDE DEF e, x
<1>4. b % N = x
  BY <1>0, <1>2, <1>3, Rest
<1>5. b % n = IF x < n THEN x ELSE x - n
  BY <1>4, HalfRest
<1>6. a % n = IF r < n THEN r ELSE r - n
  BY HalfRest
<1> HIDE DEF p, r
<1>7. b % n = a % n
  BY <1>0, <1>1, <1>5, <1>6 DEF x
<1> QED
  BY <1>2, <1>4, <1>7 DEF r

-----------------------------------------------------------------------------
(* The handles that are tried                                                *)

\* Candidate, of any beginning.
Tried(b, i) == ((b - 1 + i) % HandleMask) + 1

LEMMA Mask ==
  /\ HandleMask \in Nat /\ HandleMask >= 2 /\ SlotSize \in Nat /\ SlotSize >= 2
  /\ SlotSize <= HandleMask
BY SlotSizePower, HandleMaskOnes, PowerDivides

LEMMA TriedIs ==
  ASSUME NEW b \in 1..(HandleMask + 1), NEW i \in 0..HandleMask
  PROVE  /\ Tried(b, i) \in 1..HandleMask
         /\ b + i <= HandleMask => Tried(b, i) = b + i
         /\ HandleMask < b + i /\ b + i <= 2 * HandleMask => Tried(b, i) = b + i - HandleMask
<1> DEFINE m == HandleMask
           a == b - 1 + i
<1>1. m \in Nat \ {0} /\ a \in Nat
  BY Mask
<1>2. a % m \in 0..(m - 1)
  BY <1>1, Divide
<1>3. ASSUME a < m
      PROVE  a % m = a
  BY <1>1, <1>3
<1>4. ASSUME m <= a, a < 2 * m
      PROVE  a % m = a - m
  <2>1. a = m * 1 + (a - m) /\ a - m \in 0..(m - 1)
    BY <1>1, <1>4
  <2> HIDE DEF a, m
  <2>2. (m * 1 + (a - m)) % m = a - m
    BY <1>1, <2>1, Rest
  <2> QED
    BY <2>1, <2>2
<1> QED
  BY <1>1, <1>2, <1>3, <1>4 DEF Tried

Multiple(x, n) == \E d \in Nat : x = n * d

\* Of two slots that were one before the expansion, one is free.
HalfUsed(s, n, N) ==
    \A a, c \in 1..HandleMask :
        a % n = c % n /\ a % N # c % N => s[a % N] = Nil \/ s[c % N] = Nil

\* When no two of the slots a and a + n are used, one of the 2n handles tried
\* has a free slot.
LEMMA HalfFree ==
  ASSUME NEW n \in Nat \ {0, 1}, NEW N, N = 2 * n,
         N <= HandleMask + 1, Multiple(HandleMask + 1, N),
         NEW b \in 1..(HandleMask + 1), NEW s, HalfUsed(s, n, N)
  PROVE  \E i \in 0..(N - 1) : s[Tried(b, i) % N] = Nil
<1> DEFINE M == HandleMask
           h == Tried(b, 0)
<1>0. M \in Nat /\ N \in Nat /\ N <= M + 1 /\ 0 \in 0..M
  BY Mask
<1>1. h \in 1..M
  BY <1>0, TriedIs
<1>2. \A i \in 0..M : /\ h + i <= M => Tried(b, i) = h + i
                      /\ M < h + i => Tried(b, i) = h + i - M
  <2> SUFFICES ASSUME NEW i \in 0..M
               PROVE  /\ h + i <= M => Tried(b, i) = h + i
                      /\ M < h + i => Tried(b, i) = h + i - M
    OBVIOUS
  <2>1. CASE b = M + 1
    <3>1. h = 1
      BY <1>0, <2>1, TriedIs
    <3>2. M < b + i /\ b + i <= 2 * M => Tried(b, i) = b + i - M
      BY TriedIs
    <3>3. b + M <= 2 * M + 1
      BY <1>0, <2>1
    <3>4. CASE i = M
      <4>1. b - 1 + i = M * 2 + 0 /\ M \in Nat \ {0}
        BY <1>0, <2>1, <3>4, Mask
      <4>2. (M * 2 + 0) % M = 0
        BY <4>1, Rest
      <4>3. Tried(b, i) = 1
        BY <4>1, <4>2 DEF Tried
      <4> QED
        BY <1>0, <3>1, <3>4, <4>3
    <3> HIDE DEF h
    <3> QED
      BY <1>0, <2>1, <3>1, <3>2, <3>4
  <2>2. CASE b <= M
    <3>1. h = b
      BY <1>0, <2>2, TriedIs
    <3>2. /\ b + i <= M => Tried(b, i) = b + i
          /\ M < b + i /\ b + i <= 2 * M => Tried(b, i) = b + i - M
      BY TriedIs
    <3>3. b + i <= 2 * M /\ b \in Nat /\ i \in Nat
      BY <1>0, <2>2
    <3> HIDE DEF h
    <3> QED
      BY <3>1, <3>2, <3>3
  <2> QED
    BY <1>0, <2>1, <2>2
<1>3. \A i \in 0..M : Tried(b, i) \in 1..M
  BY TriedIs
<1> HIDE DEF h
<1>4. \E i, j \in 0..(N - 1) :
         i \in 0..M /\ j \in 0..M /\
         \/ Tried(b, j) = Tried(b, i) + n
         \/ Tried(b, j) + (M + 1) = Tried(b, i) + n
  <2>1. CASE h + n <= M
    <3>1. Tried(b, 0) = h + 0 /\ Tried(b, n) = h + n
      BY <1>0, <1>1, <1>2, <2>1
    <3>2. Tried(b, n) = Tried(b, 0) + n
      BY <1>1, <3>1
    <3> QED
      BY <1>0, <1>1, <3>2, <2>1
  <2>2. CASE h + n = M + 1
    <3>1. 1 \in 0..M /\ n \in 0..M /\ h + 1 <= M
      BY <1>0, <1>1, <2>2
    <3>2. Tried(b, 1) = h + 1 /\ Tried(b, n) = 1
      BY <1>0, <1>1, <1>2, <2>2, <3>1
    <3>3. Tried(b, n) + (M + 1) = Tried(b, 1) + n
      BY <1>0, <1>1, <2>2, <3>2
    <3> QED
      BY <1>0, <3>1, <3>3
  <2>3. CASE h + n > M + 1
    <3>1. 0 \in 0..M /\ n - 1 \in 0..M /\ M < h + (n - 1)
      BY <1>0, <1>1, <2>3
    <3>2. Tried(b, 0) = h + 0 /\ Tried(b, n - 1) = h + (n - 1) - M
      BY <1>0, <1>1, <1>2, <3>1
    <3>3. Tried(b, n - 1) + (M + 1) = Tried(b, 0) + n
      BY <1>0, <1>1, <3>2
    <3> QED
      BY <1>0, <3>1, <3>3
  <2> QED
    BY <1>0, <1>1, <2>1, <2>2, <2>3
<1>5. PICK i, j \in 0..(N - 1) :
         i \in 0..M /\ j \in 0..M /\
         \/ Tried(b, j) = Tried(b, i) + n
         \/ Tried(b, j) + (M + 1) = Tried(b, i) + n
  BY <1>4
<1>6. Tried(b, i) \in 1..M /\ Tried(b, j) \in 1..M
  BY <1>3, <1>5
<1>7. \E e \in Nat : Tried(b, j) + N * e = Tried(b, i) + n
  <2>1. CASE Tried(b, j) = Tried(b, i) + n
    <3>1. Tried(b, j) + N * 0 = Tried(b, i) + n
      BY <1>0, <1>6, <2>1
    <3> QED
      BY <3>1
  <2>2. CASE Tried(b, j) + (M + 1) = Tried(b, i) + n
    BY <2>2 DEF Multiple
  <2> QED
    BY <1>5, <2>1, <2>2
<1>8. Tried(b, j) % N # Tried(b, i) % N /\ Tried(b, j) % n = Tried(b, i) % n
  <2>1. Tried(b, i) \in Nat /\ Tried(b, j) \in Nat /\ n \in Nat \ {0}
    BY <1>6
  <2>2. Steps(n, N, Tried(b, i), Tried(b, j))
    BY <1>7 DEF Steps
  <2> QED
    BY <2>1, <2>2, OtherHalf
<1> QED
  BY <1>5, <1>6, <1>8 DEF HalfUsed

-----------------------------------------------------------------------------
(* Tables                                                                    *)

LEMMA SizeIs ==
  ASSUME NEW n \in Nat \ {0}, NEW S, DOMAIN S = 0..(n - 1)
  PROVE  Cardinality(DOMAIN S) = n
<1>1. n - 1 \in Int /\ 0 \in Int
  OBVIOUS
<1>2. Cardinality(0..(n - 1)) = IF 0 > n - 1 THEN 0 ELSE (n - 1) - 0 + 1
  BY <1>1, FS_Interval
<1> QED
  BY <1>2

\* A table of n slots that holds each context in the slot of its handle.
Filed(S, n, H) ==
    /\ S \in [0..(n - 1) -> Ctx \cup {Nil}]
    /\ H \in [Ctx -> 0..HandleMask]
    /\ \A i \in 0..(n - 1) : S[i] # Nil => H[S[i]] # 0 /\ H[S[i]] % n = i
    /\ \A c \in Ctx : H[c] # 0 => S[H[c] % n] = c

\* The expansion files every context, no two of them in one slot, and half of
\* the new table is free.
LEMMA Grown ==
  ASSUME NEW n \in Nat \ {0}, NEW N, N = 2 * n, Size = n, Filed(slot, n, handle)
  PROVE  ~ExpandClash /\ Filed(Expand, N, handle) /\ HalfUsed(Expand, n, N)
<1>0. N \in Nat \ {0} /\ 2 * Size = N
  OBVIOUS
<1>1. DOMAIN slot = 0..(n - 1) /\ \A c \in Ctx : handle[c] \in Nat
  BY Mask DEF Filed
<1>2. \A i \in Entries : NewHash(i) = handle[slot[i]] % N
  BY <1>0 DEF NewHash
<1>3. \A a, c \in Nat : a % N = c % N => a % n = c % n
  <2> SUFFICES ASSUME NEW a \in Nat, NEW c \in Nat, a % N = c % N
               PROVE  a % n = c % n
    OBVIOUS
  <2>1. a % n = IF a % N < n THEN a % N ELSE (a % N) - n
    BY HalfRest
  <2>2. c % n = IF c % N < n THEN c % N ELSE (c % N) - n
    BY HalfRest
  <2> QED
    BY ONLY <2>1, <2>2, a % N = c % N
<1>4. \A i \in Entries : /\ slot[i] \in Ctx /\ handle[slot[i]] \in Nat \ {0}
                         /\ handle[slot[i]] % n = i /\ i \in 0..(n - 1)
                         /\ NewHash(i) \in 0..(N - 1)
  <2> SUFFICES ASSUME NEW i \in Entries
               PROVE  /\ slot[i] \in Ctx /\ handle[slot[i]] \in Nat \ {0}
                      /\ handle[slot[i]] % n = i /\ i \in 0..(n - 1)
                      /\ NewHash(i) \in 0..(N - 1)
    OBVIOUS
  <2>1. slot[i] \in Ctx /\ i \in 0..(n - 1) /\ slot[i] # Nil
    BY <1>1 DEF Entries, Filed
  <2>2. handle[slot[i]] # 0 /\ handle[slot[i]] % n = i /\ handle[slot[i]] \in Nat
    BY <1>1, <2>1 DEF Filed
  <2>3. NewHash(i) \in 0..(N - 1)
    BY <1>0, <1>2, <2>2, Divide
  <2> QED
    BY <2>1, <2>2, <2>3
<1>5. \A i, j \in Entries : NewHash(i) = NewHash(j) => i = j
  <2> SUFFICES ASSUME NEW i \in Entries, NEW j \in Entries, NewHash(i) = NewHash(j)
               PROVE  i = j
    OBVIOUS
  <2>1. handle[slot[i]] % N = handle[slot[j]] % N
    BY <1>2
  <2>2. handle[slot[i]] % n = handle[slot[j]] % n
    BY <1>3, <1>4, <2>1
  <2> QED
    BY <1>4, <2>2
<1>6. DOMAIN Expand = 0..(N - 1)
  BY <1>0 DEF Expand
<1>7. \A k \in 0..(N - 1) :
         \/ Expand[k] = Nil /\ \A i \in Entries : NewHash(i) # k
         \/ \E i \in Entries : NewHash(i) = k /\ Expand[k] = slot[i]
  BY <1>0 DEF Expand
<1>8. \A i \in Entries : Expand[NewHash(i)] = slot[i]
  BY <1>4, <1>5, <1>7
<1>9. Filed(Expand, N, handle)
  <2>1. Expand \in [0..(N - 1) -> Ctx \cup {Nil}]
    <3>1. \A k \in 0..(N - 1) : Expand[k] \in Ctx \cup {Nil}
      BY <1>4, <1>7
    <3>2. Expand = [k \in 0..(N - 1) |-> Expand[k]]
      BY <1>0 DEF Expand
    <3> HIDE DEF Expand
    <3> QED
      BY <3>1, <3>2
  <2>2. ASSUME NEW k \in 0..(N - 1), Expand[k] # Nil
        PROVE  handle[Expand[k]] # 0 /\ handle[Expand[k]] % N = k
    BY <1>2, <1>4, <1>7, <2>2
  <2>3. ASSUME NEW c \in Ctx, handle[c] # 0
        PROVE  Expand[handle[c] % N] = c
    <3>1. handle[c] \in Nat /\ slot[handle[c] % n] = c
      BY <1>1, <2>3 DEF Filed
    <3>2. handle[c] % n \in 0..(n - 1)
      BY <3>1, Divide
    <3>3. handle[c] % n \in Entries
      BY <1>1, <3>1, <3>2 DEF Entries
    <3>4. NewHash(handle[c] % n) = handle[c] % N
      BY <1>2, <3>1, <3>3
    <3> QED
      BY <1>8, <3>1, <3>3, <3>4
  <2>4. handle \in [Ctx -> 0..HandleMask]
    BY DEF Filed
  <2> QED
    BY <2>1, <2>2, <2>3, <2>4 DEF Filed
<1>10. HalfUsed(Expand, n, N)
  <2> SUFFICES ASSUME NEW a \in 1..HandleMask, NEW c \in 1..HandleMask,
                      a % n = c % n, a % N # c % N,
                      Expand[a % N] # Nil, Expand[c % N] # Nil
               PROVE  FALSE
    BY DEF HalfUsed
  <2>0. a \in Nat /\ c \in Nat
    BY Mask
  <2>1. a % N \in 0..(N - 1) /\ c % N \in 0..(N - 1)
    BY <1>0, <2>0, Divide
  <2>2. PICK i \in Entries : NewHash(i) = a % N
    BY <1>7, <2>1
  <2>3. PICK j \in Entries : NewHash(j) = c % N
    BY <1>7, <2>1
  <2>4. handle[slot[i]] % n = a % n
    BY <1>2, <1>3, <1>4, <2>0, <2>2
  <2>5. handle[slot[j]] % n = c % n
    BY <1>2, <1>3, <1>4, <2>0, <2>3
  <2>6. i = j
    BY <1>4, <2>4, <2>5
  <2> QED
    BY <2>2, <2>3, <2>6
<1>11. ~ExpandClash
  BY <1>5 DEF ExpandClash
<1> QED
  BY <1>9, <1>10, <1>11

\* The handle that is tried last has a free slot.
LEMMA FreeHandle ==
  ASSUME NEW n \in Nat \ {0}, n <= HandleMask + 1, handleIndex \in 1..(HandleMask + 1),
         NEW S, DOMAIN S = 0..(n - 1), FreeTries(S) # {},
         NEW h, h = Candidate(First(FreeTries(S)))
  PROVE  h \in 1..HandleMask /\ h % n \in 0..(n - 1) /\ S[h % n] = Nil
<1>1. Cardinality(DOMAIN S) = n
  BY SizeIs
<1>2. FreeTries(S) = {i \in 0..(n - 1) : S[Candidate(i) % n] = Nil}
  BY <1>1 DEF FreeTries
<1>3. \E i \in FreeTries(S) : \A j \in FreeTries(S) : i <= j
  BY <1>2, LeastNat
<1>4. First(FreeTries(S)) \in FreeTries(S)
  BY <1>3 DEF First
<1>5. \A i \in 0..(n - 1) : Candidate(i) \in 1..HandleMask
  <2>1. \A i \in 0..(n - 1) : i \in 0..HandleMask
    BY Mask
  <2> QED
    BY <2>1, TriedIs DEF Candidate, Tried
<1>6. h \in 1..HandleMask /\ S[h % n] = Nil
  BY <1>2, <1>4, <1>5
<1>7. h % n \in 0..(n - 1)
  <2> HIDE DEF Candidate
  <2>1. h \in Nat
    BY <1>6, Mask
  <2> QED
    BY ONLY <2>1, n \in Nat \ {0}, Divide
<1> QED
  BY <1>6, <1>7

-----------------------------------------------------------------------------
(* The operations keep the invariant                                         *)

\* One thread creates services: skynet_context_new runs in the thread of the
\* service that asks for one, and the launcher asks for one at a time.
Serial == \A l, k \in Launcher : l = k

Sized(n) ==
    /\ n \in Power /\ SlotSize <= n /\ n <= HandleMask + 1
    /\ slot \in [0..(n - 1) -> Ctx \cup {Nil}]

LEMMA Shape ==
  ASSUME TypeOK
  PROVE  \E n : Sized(n) /\ n \in Nat \ {0, 1} /\ Size = n
<1>1. PICK n \in Power : Sized(n)
  BY DEF TypeOK, Sized
<1>2. n \in Nat \ {0, 1}
  BY <1>1, Mask, Powers DEF Sized, Two
<1>3. DOMAIN slot = 0..(n - 1)
  BY <1>1 DEF Sized
<1>4. Size = n
  BY <1>2, <1>3, SizeIs DEF Size
<1> QED
  BY <1>1, <1>2, <1>4

LEMMA IdleFiled ==
  ASSUME IInv, NEW n, Sized(n), Size = n, \A l \in Launcher : making[l] = Nil
  PROVE  Filed(slot, n, handle)
<1>1. slot \in [0..(n - 1) -> Ctx \cup {Nil}] /\ handle \in [Ctx -> 0..HandleMask]
  BY DEF Sized, IInv, TypeOK
<1>2. ASSUME NEW i \in 0..(n - 1), slot[i] # Nil
      PROVE  handle[slot[i]] # 0 /\ handle[slot[i]] % n = i
  <2>1. ~(\E l \in Launcher : making[l] = slot[i]) /\ i \in DOMAIN slot
    BY <1>1, <1>2
  <2> QED
    BY <1>2, <2>1 DEF IInv, SlotsTrue
<1>3. ASSUME NEW c \in Ctx, handle[c] # 0
      PROVE  slot[handle[c] % n] = c
  BY <1>3 DEF IInv, HandlesFound
<1> QED
  BY <1>1, <1>2, <1>3 DEF Filed

LEMMA PutInStep ==
  ASSUME Serial, IInv, NEW l \in Launcher, NEW c \in Ctx,
         making[l] = Nil, handle[c] = 0,
         NEW n \in Power, SlotSize <= n, n <= HandleMask + 1,
         NEW S, Filed(S, n, handle), FreeTries(S) # {},
         PutIn(S, l, c), UNCHANGED <<handle, name, aborted>>
  PROVE  IInv'
<1> DEFINE h == Candidate(First(FreeTries(S)))
<1>0. n \in Nat \ {0} /\ S \in [0..(n - 1) -> Ctx \cup {Nil}] /\ DOMAIN S = 0..(n - 1)
      /\ handle \in [Ctx -> 0..HandleMask] /\ HandleMask \in Nat
  BY Powers, Mask DEF Two, Filed
<1>1. h \in 1..HandleMask /\ h % n \in 0..(n - 1) /\ S[h % n] = Nil
  <2>1. handleIndex \in 1..(HandleMask + 1)
    BY DEF IInv, TypeOK
  <2> HIDE DEF h
  <2> QED
    BY <1>0, <2>1, FreeHandle DEF h
<1>2. /\ slot' = [S EXCEPT ![h % n] = c]
      /\ handleIndex' = h + 1
      /\ given' = [given EXCEPT ![l] = h]
      /\ making' = [making EXCEPT ![l] = c]
  <2>1. Cardinality(DOMAIN S) = n
    BY <1>0, SizeIs
  <2> QED
    BY <2>1 DEF PutIn
<1> HIDE DEF h
<1>3. slot' \in [0..(n - 1) -> Ctx \cup {Nil}] /\ DOMAIN slot' = 0..(n - 1) /\ Size' = n
  <2>1. slot' \in [0..(n - 1) -> Ctx \cup {Nil}] /\ DOMAIN slot' = 0..(n - 1)
    BY <1>0, <1>2
  <2>2. Cardinality(DOMAIN slot') = n
    BY <1>0, <2>1, SizeIs
  <2> QED
    BY <2>1, <2>2 DEF Size
<1>4. making' \in [Launcher -> Ctx \cup {Nil}] /\ given' \in [Launcher -> 0..HandleMask]
      /\ \A k \in Launcher : making'[k] = c /\ given'[k] = h
  BY <1>0, <1>1, <1>2 DEF IInv, TypeOK, Serial
<1>5. TypeOK'
  BY <1>0, <1>1, <1>2, <1>3, <1>4 DEF IInv, TypeOK
<1>6. \A i \in 0..(n - 1) : slot'[i] = IF i = h % n THEN c ELSE S[i]
  BY <1>0, <1>2
<1>7. \A i \in 0..(n - 1) : S[i] # c
  BY <1>0 DEF Filed
<1>8. SlotsTrue'
  <2> SUFFICES ASSUME NEW i \in 0..(n - 1), slot'[i] # Nil
               PROVE  IF slot'[i] = c THEN handle[slot'[i]] = 0
                      ELSE handle[slot'[i]] # 0 /\ handle[slot'[i]] % n = i
    BY <1>3, <1>4 DEF SlotsTrue
  <2> QED
    BY <1>6, <1>7 DEF Filed
<1>9. HandlesFound'
  <2> SUFFICES ASSUME NEW d \in Ctx, handle[d] # 0
               PROVE  slot'[handle[d] % n] = d /\ d # c
    BY <1>3, <1>4 DEF HandlesFound
  <2>1. S[handle[d] % n] = d /\ d # Nil /\ handle[d] \in Nat
    BY <1>0 DEF Filed
  <2>2. handle[d] % n \in 0..(n - 1)
    BY <1>0, <2>1, Divide
  <2> QED
    BY <1>1, <1>6, <2>1, <2>2
<1>10. GivenPlaced'
  <2> SUFFICES /\ h # 0
               /\ \A i \in 0..(n - 1) : slot'[i] = c <=> i = h % n
    BY <1>3, <1>4 DEF GivenPlaced
  <2> QED
    BY <1>1, <1>6, <1>7
<1> QED
  BY <1>5, <1>8, <1>9, <1>10 DEF IInv

LEMMA RegisterStep ==
  ASSUME Serial, IInv, NEW l \in Launcher, NEW c \in Ctx, Register(l, c)
  PROVE  IInv'
<1>1. PICK n : Sized(n) /\ n \in Nat \ {0, 1} /\ Size = n
  BY Shape DEF IInv
<1>2. making[l] = Nil /\ \A k \in Launcher : making[k] = Nil
  BY DEF Register, Serial
<1>3. Filed(slot, n, handle)
  BY <1>1, <1>2, IdleFiled
<1>4. handle[c] = 0
  <2> SUFFICES ASSUME handle[c] # 0
               PROVE  FALSE
    OBVIOUS
  <2>1. slot[handle[c] % n] = c /\ handle[c] \in Nat /\ DOMAIN slot = 0..(n - 1)
    BY <1>3, Mask DEF Filed
  <2>2. handle[c] % n \in DOMAIN slot
    BY <1>1, <2>1, Divide
  <2> QED
    BY <2>1, <2>2 DEF Register, Registered
<1>5. n \in Power /\ SlotSize <= n /\ n <= HandleMask + 1
  BY <1>1 DEF Sized
<1>6. CASE FreeTries(slot) # {}
  <2>1. PutIn(slot, l, c) /\ UNCHANGED <<handle, name, aborted>>
    BY <1>6 DEF Register
  <2> QED
    BY <1>2, <1>3, <1>4, <1>5, <1>6, <2>1, PutInStep
<1>7. CASE FreeTries(slot) = {}
  <2> DEFINE N == 2 * n
  <2>0. HandleMask \in Nat
    BY Mask
  <2>1. N <= HandleMask + 1 /\ N \in Power /\ SlotSize <= N
    <3>1. 2 * n - 1 <= HandleMask
      BY <1>1, <1>7 DEF Register
    <3>2. n < HandleMask + 1
      BY <1>1, <2>0, <3>1
    <3>3. 2 * n \in Power
      BY <1>5, <3>2, HandleMaskOnes, PowerDivides
    <3> QED
      BY <1>1, <1>5, <2>0, <3>1, <3>3, Mask
  <2>2. Multiple(HandleMask + 1, N)
    <3>1. \E d \in Power : HandleMask + 1 = N * d
      BY <2>1, HandleMaskOnes, PowerDivides
    <3> QED
      BY <3>1, PowerDivides DEF Multiple
  <2> HIDE DEF N
  <2>3. ~ExpandClash /\ Filed(Expand, N, handle) /\ HalfUsed(Expand, n, N)
    BY <1>1, <1>3, Grown DEF N
  <2>4. PutIn(Expand, l, c) /\ UNCHANGED <<handle, name, aborted>>
    BY <1>7, <2>3 DEF Register
  <2>5. handleIndex \in 1..(HandleMask + 1)
    BY DEF IInv, TypeOK
  <2>6. \E i \in 0..(N - 1) : Expand[Tried(handleIndex, i) % N] = Nil
    BY <1>1, <2>1, <2>2, <2>3, <2>5, HalfFree DEF N
  <2>7. FreeTries(Expand) # {}
    <3>1. DOMAIN Expand = 0..(N - 1) /\ N \in Nat \ {0}
      BY <1>1, <2>3 DEF Filed, N
    <3>2. Cardinality(DOMAIN Expand) = N
      BY <3>1, SizeIs
    <3> QED
      BY <2>6, <3>2 DEF FreeTries, Candidate, Tried
  <2> QED
    BY <1>2, <1>4, <2>1, <2>3, <2>4, <2>7, PutInStep
<1> QED
  BY <1>6, <1>7

-----------------------------------------------------------------------------
(* The names                                                                 *)

Entry == [name: 1..NumName, handle: 1..HandleMask]

\* The loop of Scrubbed, after i names.
Keep(names, h, f, i) ==
    IF i = 0 THEN <<>>
    ELSE IF names[i].handle = h THEN f[i - 1]
    ELSE Append(f[i - 1], names[i])

LEMMA KeepExists ==
  ASSUME NEW names, NEW h, NEW L \in Nat
  PROVE  \E f : f = [i \in 0..L |-> Keep(names, h, f, i)]
<1> DEFINE Until(j, f) == /\ f = [i \in 0..L |-> f[i]]
                          /\ \A i \in 0..L : i <= j => f[i] = Keep(names, h, f, i)
           T == {j \in 0..L : ~ \E f : Until(j, f)}
<1>1. CASE T = {}
  <2>1. PICK f : Until(L, f)
    BY <1>1
  <2>2. f = [i \in 0..L |-> Keep(names, h, f, i)]
    <3>1. \A i \in 0..L : f[i] = Keep(names, h, f, i)
      BY <2>1
    <3> QED
      BY <2>1, <3>1 DEF Keep
  <2> QED
    BY <2>2
<1>2. CASE T # {}
  <2>0. T \subseteq Nat
    OBVIOUS
  <2>1. PICK j \in T : \A k \in T : j <= k
    <3> HIDE DEF T
    <3> QED
      BY <1>2, <2>0, LeastNat
  <2>2. j \in 0..L /\ ~ \E f : Until(j, f)
    BY <2>1
  <2>3. CASE j = 0
    <3> DEFINE g == [i \in 0..L |-> <<>>]
    <3>1. Until(0, g)
      BY DEF Keep
    <3> QED
      BY <2>2, <2>3, <3>1
  <2>4. CASE j # 0
    <3>1. j - 1 \in 0..L /\ j - 1 \notin T
      BY <2>1, <2>2, <2>4
    <3>2. PICK f : Until(j - 1, f)
      BY <3>1
    <3> DEFINE g == [i \in 0..L |-> Keep(names, h, f, i)]
    <3>3. \A i \in 0..L : i <= j - 1 => g[i] = f[i]
      BY <3>2
    <3>4. \A i \in 0..L : i <= j => g[i] = Keep(names, h, g, i)
      <4> SUFFICES ASSUME NEW i \in 0..L, i <= j
                   PROVE  g[i] = Keep(names, h, g, i)
        OBVIOUS
      <4>1. g[i] = Keep(names, h, f, i)
        OBVIOUS
      <4>2. i # 0 => g[i - 1] = f[i - 1]
        <5>1. i # 0 => i - 1 \in 0..L /\ i - 1 <= j - 1
          BY <2>2
        <5> HIDE DEF g
        <5> QED
          BY <3>3, <5>1
      <4> HIDE DEF g
      <4> QED
        BY <4>1, <4>2 DEF Keep
    <3>5. g = [i \in 0..L |-> g[i]]
      OBVIOUS
    <3> HIDE DEF g
    <3>6. Until(j, g)
      BY <3>4, <3>5
    <3> QED
      BY <2>2, <3>6
  <2> QED
    BY <2>3, <2>4
<1> QED
  BY <1>1, <1>2

LEMMA KeepUnfolds ==
  ASSUME NEW names \in Seq(Entry), NEW h
  PROVE  \E f : /\ f = [i \in 0..Len(names) |-> Keep(names, h, f, i)]
                /\ Scrubbed(names, h) = f[Len(names)]
<1> DEFINE P(f) == f = [i \in 0..Len(names) |-> Keep(names, h, f, i)]
           k == CHOOSE f : P(f)
<1>1. Scrubbed(names, h) = k[Len(names)]
  BY Zenon DEF Scrubbed, Keep
<1>2. \E f : P(f)
  <2>1. Len(names) \in Nat
    OBVIOUS
  <2> QED
    BY <2>1, KeepExists
<1> HIDE DEF P
<1>3. P(k)
  BY <1>2
<1> QED
  BY <1>1, <1>3 DEF P

\* Retiring a handle leaves the other names, in order.
LEMMA ScrubbedKeeps ==
  ASSUME NEW names \in Seq(Entry), NEW h, InOrder(names)
  PROVE  LET kept == Scrubbed(names, h)
         IN  /\ kept \in Seq(Entry) /\ InOrder(kept)
             /\ \A i \in 1..Len(kept) :
                   kept[i].handle # h /\ \E j \in 1..Len(names) : kept[i] = names[j]
             /\ \A j \in 1..Len(names) :
                   names[j].handle # h => \E i \in 1..Len(kept) : kept[i] = names[j]
<1> DEFINE L == Len(names)
<1>1. PICK f : /\ f = [i \in 0..L |-> Keep(names, h, f, i)]
               /\ Scrubbed(names, h) = f[L]
  BY KeepUnfolds
<1>2. \A i \in 0..L : f[i] = Keep(names, h, f, i)
  BY <1>1
<1> DEFINE Good(k, j) ==
             /\ k \in Seq(Entry) /\ InOrder(k)
             /\ \A i \in 1..Len(k) :
                   k[i].handle # h /\ \E m \in 1..j : k[i] = names[m]
             /\ \A m \in 1..j :
                   names[m].handle # h => \E i \in 1..Len(k) : k[i] = names[m]
           T == {j \in 0..L : ~Good(f[j], j)}
<1>3. L \in Nat /\ \A j \in 1..L : names[j] \in Entry
  OBVIOUS
<1>4. T = {}
  <2> SUFFICES ASSUME T # {}
               PROVE  FALSE
    OBVIOUS
  <2>0. T \subseteq Nat
    OBVIOUS
  <2>1. PICK j \in T : \A k \in T : j <= k
    <3> HIDE DEF T
    <3> QED
      BY <2>0, LeastNat
  <2>2. j \in 0..L /\ ~Good(f[j], j)
    BY <2>1
  <2>3. CASE j = 0
    <3>1. f[0] = <<>>
      BY <1>2, <1>3 DEF Keep
    <3>2. Good(<<>>, 0)
      BY DEF InOrder
    <3> QED
      BY <2>2, <2>3, <3>1, <3>2
  <2>4. CASE j # 0
    <3>1. j - 1 \in 0..L /\ j - 1 \notin T /\ j \in 1..L
      <4>1. j \in 1..L /\ j - 1 \in 0..L /\ j \in Nat
        BY <1>3, <2>2, <2>4
      <4> HIDE DEF T
      <4> QED
        BY <2>1, <4>1
    <3> DEFINE s == f[j - 1]
               e == names[j]
    <3>2. Good(s, j - 1)
      BY <3>1
    <3>3. f[j] = IF e.handle = h THEN s ELSE Append(s, e)
      BY <1>2, <2>2, <2>4 DEF Keep
    <3>4. \A m \in 1..j : m = j \/ m \in 1..(j - 1)
      BY <3>1
    <3>5. e \in Entry /\ (j - 1) \in Nat /\ j \in Nat
      BY <1>3, <3>1
    <3> HIDE DEF s
    <3>6. CASE e.handle = h
      <4>1. f[j] = s
        BY <3>3, <3>6
      <4>2. Good(s, j)
        BY <3>2, <3>4, <3>5, <3>6
      <4> QED
        BY <2>2, <4>1, <4>2
    <3>7. CASE e.handle # h
      <4> DEFINE t == Append(s, e)
      <4>0. s \in Seq(Entry) /\ Len(s) \in Nat
        BY <3>2
      <4>1. /\ t \in Seq(Entry) /\ Len(t) = Len(s) + 1 /\ t[Len(s) + 1] = e
            /\ \A i \in 1..Len(s) : t[i] = s[i]
        BY <3>5, <4>0
      <4>2. \A i \in 1..Len(t) : i = Len(s) + 1 \/ i \in 1..Len(s)
        BY <4>0, <4>1
      <4>3. \A i \in 1..Len(s) : s[i].name < e.name
        <5> SUFFICES ASSUME NEW i \in 1..Len(s)
                     PROVE  s[i].name < e.name
          OBVIOUS
        <5>1. PICK m \in 1..(j - 1) : s[i] = names[m]
          BY <3>2
        <5>2. m \in 1..L /\ m < j
          BY <3>1, <3>5
        <5> QED
          BY <3>1, <5>1, <5>2 DEF InOrder
      <4> HIDE DEF t
      <4>4. InOrder(t)
        <5> SUFFICES ASSUME NEW i \in 1..Len(t), NEW k \in 1..Len(t), i < k
                     PROVE  t[i].name < t[k].name
          BY DEF InOrder
        <5>1. i \in 1..Len(s)
          BY <4>0, <4>1
        <5>2. CASE k = Len(s) + 1
          BY <4>1, <4>3, <5>1, <5>2
        <5>3. CASE k \in 1..Len(s)
          BY <3>2, <4>1, <5>1, <5>3 DEF InOrder
        <5> QED
          BY <4>2, <5>2, <5>3
      <4>5. \A i \in 1..Len(t) : t[i].handle # h /\ \E m \in 1..j : t[i] = names[m]
        <5> SUFFICES ASSUME NEW i \in 1..Len(t)
                     PROVE  t[i].handle # h /\ \E m \in 1..j : t[i] = names[m]
          OBVIOUS
        <5>1. CASE i = Len(s) + 1
          BY <3>5, <3>7, <4>1, <5>1, <3>1
        <5>2. CASE i \in 1..Len(s)
          <6>1. t[i] = s[i] /\ s[i].handle # h
            BY <3>2, <4>1, <5>2
          <6>2. PICK m \in 1..(j - 1) : s[i] = names[m]
            BY <3>2, <5>2
          <6>3. m \in 1..j
            BY <3>5
          <6> QED
            BY <6>1, <6>2, <6>3
        <5> QED
          BY <4>2, <5>1, <5>2
      <4>6. \A m \in 1..j : names[m].handle # h => \E i \in 1..Len(t) : t[i] = names[m]
        <5> SUFFICES ASSUME NEW m \in 1..j, names[m].handle # h
                     PROVE  \E i \in 1..Len(t) : t[i] = names[m]
          OBVIOUS
        <5>1. CASE m = j
          BY <4>0, <4>1, <5>1
        <5>2. CASE m \in 1..(j - 1)
          <6>1. PICK i \in 1..Len(s) : s[i] = names[m]
            BY <3>2, <5>2
          <6>2. i \in 1..Len(t) /\ t[i] = s[i]
            BY <4>0, <4>1
          <6> QED
            BY <6>1, <6>2
        <5> QED
          BY <3>4, <5>1, <5>2
      <4>7. f[j] = t
        BY <3>3, <3>7 DEF t
      <4> QED
        BY <2>2, <4>1, <4>4, <4>5, <4>6, <4>7
    <3> QED
      BY <3>6, <3>7
  <2> QED
    BY <2>3, <2>4
<1>5. Good(f[L], L)
  BY <1>3, <1>4
<1> QED
  BY <1>1, <1>5

\* A step of the binary search.
Halve(names, n, f, b) ==
    LET mid == (b[1] + b[2]) \div 2
    IN  IF b[1] > b[2] THEN [found |-> FALSE, at |-> b[1]]
        ELSE IF names[mid + 1].name = n THEN [found |-> TRUE, at |-> mid]
        ELSE IF names[mid + 1].name < n THEN f[<<mid + 1, b[2]>>]
        ELSE f[<<b[1], mid - 1>>]

Width(b) == IF b[1] > b[2] THEN 0 ELSE b[2] - b[1] + 1

\* What a step searches on is between the bounds, and smaller.
LEMMA HalveSmaller ==
  ASSUME NEW b \in Bounds, b[1] <= b[2], NEW mid, mid = (b[1] + b[2]) \div 2
  PROVE  /\ mid \in b[1]..b[2]
         /\ <<mid + 1, b[2]>> \in Bounds /\ Width(<<mid + 1, b[2]>>) < Width(b)
         /\ <<b[1], mid - 1>> \in Bounds /\ Width(<<b[1], mid - 1>>) < Width(b)
         /\ Width(b) \in 0..NumName
<1> DEFINE x == b[1]
           y == b[2]
<1>1. x \in 0..NumName /\ y \in -1..(NumName - 1) /\ x <= y
  BY DEF Bounds
<1>2. mid = (x + y) \div 2
  OBVIOUS
<1>3. Width(b) = y - x + 1
  BY <1>1 DEF Width
<1> HIDE DEF x, y
<1>4. mid \in x..y
  BY <1>1, <1>2
<1>5. mid + 1 \in 0..NumName /\ mid - 1 \in -1..(NumName - 1)
  BY <1>1, <1>4
<1>6. <<mid + 1, y>> \in Bounds /\ <<x, mid - 1>> \in Bounds
  BY <1>1, <1>5 DEF Bounds
<1>7. Width(<<mid + 1, y>>) < y - x + 1 /\ Width(<<x, mid - 1>>) < y - x + 1
  BY <1>1, <1>4 DEF Width
<1> QED
  BY <1>1, <1>3, <1>4, <1>6, <1>7 DEF x, y

LEMMA WidthNat ==
  \A b \in Bounds : Width(b) \in 0..NumName
BY DEF Width, Bounds

LEMMA HalveExists ==
  ASSUME NEW names, NEW n
  PROVE  \E f : f = [b \in Bounds |-> Halve(names, n, f, b)]
<1> DEFINE Until(j, f) ==
             /\ f = [b \in Bounds |-> f[b]]
             /\ \A b \in Bounds : Width(b) <= j => f[b] = Halve(names, n, f, b)
           T == {j \in 0..NumName : ~ \E f : Until(j, f)}
<1>1. CASE T = {}
  <2>1. PICK f : Until(NumName, f)
    BY <1>1
  <2>2. \A b \in Bounds : f[b] = Halve(names, n, f, b)
    BY <2>1, WidthNat
  <2>3. f = [b \in Bounds |-> Halve(names, n, f, b)]
    BY <2>1, <2>2
  <2> QED
    BY <2>3
<1>2. CASE T # {}
  <2>0. T \subseteq Nat
    OBVIOUS
  <2>1. PICK j \in T : \A k \in T : j <= k
    <3> HIDE DEF T
    <3> QED
      BY <1>2, <2>0, LeastNat
  <2>2. j \in 0..NumName /\ ~ \E f : Until(j, f)
    BY <2>1
  <2>3. \E f : /\ f = [b \in Bounds |-> f[b]]
               /\ \A b \in Bounds : Width(b) < j => f[b] = Halve(names, n, f, b)
    <3>1. CASE j = 0
      <4> DEFINE f == [b \in Bounds |-> 0]
      <4>1. \A b \in Bounds : ~(Width(b) < j)
        BY <3>1, WidthNat
      <4>2. f = [b \in Bounds |-> f[b]]
        OBVIOUS
      <4> HIDE DEF f
      <4> QED
        BY <4>1, <4>2
    <3>2. CASE j # 0
      <4>1. j - 1 \in 0..NumName /\ j \in Nat
        BY <2>2, <3>2
      <4>2. j - 1 \notin T
        <5> HIDE DEF T
        <5> QED
          BY <2>1, <4>1
      <4>3. PICK f : Until(j - 1, f)
        BY <4>1, <4>2
      <4>4. \A b \in Bounds : Width(b) < j => Width(b) <= j - 1
        BY <4>1, WidthNat
      <4> QED
        BY <4>3, <4>4
    <3> QED
      BY <3>1, <3>2
  <2>4. PICK f : /\ f = [b \in Bounds |-> f[b]]
                 /\ \A b \in Bounds : Width(b) < j => f[b] = Halve(names, n, f, b)
    BY <2>3
  <2> DEFINE g == [b \in Bounds |-> Halve(names, n, f, b)]
  <2>5. \A b \in Bounds : Width(b) < j => g[b] = f[b]
    BY <2>4
  <2>6. \A b \in Bounds : g[b] = Halve(names, n, f, b)
    OBVIOUS
  <2>7. g = [b \in Bounds |-> g[b]]
    OBVIOUS
  <2> HIDE DEF g
  <2>8. ASSUME NEW b \in Bounds, Width(b) <= j
        PROVE  g[b] = Halve(names, n, g, b)
    <3>1. CASE b[1] > b[2]
      BY <2>6, <3>1 DEF Halve
    <3>2. CASE ~(b[1] > b[2])
      <4> DEFINE mid == (b[1] + b[2]) \div 2
      <4>0. b[1] <= b[2]
        BY <3>2 DEF Bounds
      <4>1. /\ <<mid + 1, b[2]>> \in Bounds /\ Width(<<mid + 1, b[2]>>) < Width(b)
            /\ <<b[1], mid - 1>> \in Bounds /\ Width(<<b[1], mid - 1>>) < Width(b)
        BY <4>0, HalveSmaller
      <4>2. /\ Width(<<mid + 1, b[2]>>) < j
            /\ Width(<<b[1], mid - 1>>) < j
        <5> HIDE DEF mid
        <5> QED
          BY <2>2, <2>8, <4>1, WidthNat
      <4>3. g[<<mid + 1, b[2]>>] = f[<<mid + 1, b[2]>>] /\ g[<<b[1], mid - 1>>] = f[<<b[1], mid - 1>>]
        <5> HIDE DEF mid
        <5> QED
          BY <2>5, <4>1, <4>2
      <4> QED
        BY <2>6, <3>2, <4>3 DEF Halve
    <3> QED
      BY <3>1, <3>2
  <2>9. Until(j, g)
    BY <2>7, <2>8
  <2> QED
    BY <2>2, <2>9
<1> QED
  BY <1>1, <1>2

LEMMA SearchUnfolds ==
  ASSUME NEW names, NEW n
  PROVE  \A b \in Bounds : Search(names, n)[b] = Halve(names, n, Search(names, n), b)
<1> DEFINE P(f) == f = [b \in Bounds |-> Halve(names, n, f, b)]
<1>1. Search(names, n) = CHOOSE f : P(f)
  BY Zenon DEF Search, Halve
<1>2. \E f : P(f)
  BY HalveExists
<1> HIDE DEF P
<1>3. P(CHOOSE f : P(f))
  BY <1>2
<1>4. P(Search(names, n))
  BY <1>1, <1>3
<1> QED
  BY <1>4 DEF P

\* Names in order are no more than there are names.
LEMMA NamesFit ==
  ASSUME NEW names \in Seq(Entry), InOrder(names)
  PROVE  Len(names) \in 0..NumName
<1> DEFINE T == {k \in 1..Len(names) : names[k].name < k}
<1>0. Len(names) \in Nat /\ \A k \in 1..Len(names) : names[k].name \in 1..NumName
  <2>1. Len(names) \in Nat /\ \A k \in 1..Len(names) : names[k] \in Entry
    OBVIOUS
  <2> QED
    BY <2>1 DEF Entry
<1>1. T = {}
  <2> SUFFICES ASSUME T # {}
               PROVE  FALSE
    OBVIOUS
  <2>0. T \subseteq Nat
    OBVIOUS
  <2>1. PICK k \in T : \A i \in T : k <= i
    <3> HIDE DEF T
    <3> QED
      BY <2>0, LeastNat
  <2>2. k \in 1..Len(names) /\ names[k].name < k /\ names[k].name \in 1..NumName
    BY <1>0, <2>1
  <2>3. k - 1 \in 1..Len(names) /\ k - 1 < k
    BY <1>0, <2>2
  <2>4. names[k - 1].name < names[k].name /\ names[k - 1].name \in Nat
    BY <1>0, <2>2, <2>3 DEF InOrder
  <2>5. k - 1 \in T
    BY <2>2, <2>3, <2>4
  <2> HIDE DEF T
  <2> QED
    BY <2>1, <2>2, <2>3, <2>5
<1>2. CASE Len(names) # 0
  <2>1. Len(names) \in 1..Len(names) /\ Len(names) \notin T
    BY <1>0, <1>1, <1>2
  <2> QED
    BY <1>0, <2>1
<1> QED
  BY <1>0, <1>2

\* What the search finds.
Located(names, n, r) ==
    \/ r.found = TRUE /\ r.at \in 0..(Len(names) - 1) /\ names[r.at + 1].name = n
    \/ /\ r.found = FALSE /\ r.at \in 0..Len(names)
       /\ \A k \in 1..Len(names) : IF k <= r.at THEN names[k].name < n ELSE n < names[k].name

\* The name is nowhere but between the bounds.
Enclosed(names, n, b) ==
    /\ b \in Bounds /\ b[2] < Len(names) /\ b[1] <= b[2] + 1
    /\ \A k \in 1..Len(names) : k <= b[1] => names[k].name < n
    /\ \A k \in 1..Len(names) : b[2] + 1 < k => n < names[k].name

LEMMA SearchLocates ==
  ASSUME NEW names \in Seq(Entry), InOrder(names), NEW n \in 1..NumName
  PROVE  \A b \in Bounds : Enclosed(names, n, b) => Located(names, n, Search(names, n)[b])
<1> DEFINE S == Search(names, n)
           T == {w \in 0..NumName :
                   \E b \in Bounds : /\ Width(b) = w /\ Enclosed(names, n, b)
                                     /\ ~Located(names, n, S[b])}
<1>0. /\ Len(names) \in Nat
      /\ \A k \in 1..Len(names) : names[k].name \in 1..NumName
  <2>1. Len(names) \in Nat /\ \A k \in 1..Len(names) : names[k] \in Entry
    OBVIOUS
  <2> QED
    BY <2>1 DEF Entry
<1>1. T = {}
  <2> SUFFICES ASSUME T # {}
               PROVE  FALSE
    OBVIOUS
  <2>0. T \subseteq Nat
    OBVIOUS
  <2>1. PICK w \in T : \A i \in T : w <= i
    <3> HIDE DEF T
    <3> QED
      BY <2>0, LeastNat
  <2>2. PICK b \in Bounds : Width(b) = w /\ Enclosed(names, n, b) /\ ~Located(names, n, S[b])
    BY <2>1
  <2>3. \A a \in Bounds : Enclosed(names, n, a) /\ Width(a) < w => Located(names, n, S[a])
    <3> SUFFICES ASSUME NEW a \in Bounds, Enclosed(names, n, a), Width(a) < w,
                        ~Located(names, n, S[a])
                 PROVE  FALSE
      OBVIOUS
    <3>1. Width(a) \in 0..NumName /\ w \in 0..NumName
      BY <2>2, WidthNat
    <3>2. Width(a) \in T
      BY <3>1
    <3> HIDE DEF T
    <3> QED
      BY <2>1, <3>1, <3>2
  <2>4. S[b] = Halve(names, n, S, b)
    BY SearchUnfolds
  <2> DEFINE x == b[1]
             y == b[2]
             mid == (b[1] + b[2]) \div 2
             e == names[mid + 1].name
  <2>5. x \in 0..NumName /\ y \in -1..(NumName - 1) /\ y < Len(names) /\ x <= y + 1
    BY <2>2 DEF Enclosed, Bounds
  <2>6. CASE x > y
    <3>1. S[b] = [found |-> FALSE, at |-> x]
      BY <2>4, <2>6 DEF Halve
    <3>2. x = y + 1
      <4> HIDE DEF x, y
      <4> QED
        BY <2>5, <2>6
    <3>3. x \in 0..Len(names)
      <4> HIDE DEF x, y
      <4> QED
        BY <1>0, <2>5, <3>2
    <3>4. \A k \in 1..Len(names) : IF k <= x THEN names[k].name < n ELSE n < names[k].name
      <4>1. /\ \A k \in 1..Len(names) : k <= x => names[k].name < n
            /\ \A k \in 1..Len(names) : y + 1 < k => n < names[k].name
        BY <2>2 DEF Enclosed
      <4> HIDE DEF x, y
      <4> QED
        BY <1>0, <2>5, <3>2, <4>1
    <3> HIDE DEF x
    <3> QED
      BY <2>2, <3>1, <3>3, <3>4 DEF Located
  <2>7. CASE x <= y
    <3>1. /\ mid \in x..y
          /\ <<mid + 1, y>> \in Bounds /\ Width(<<mid + 1, y>>) < w
          /\ <<x, mid - 1>> \in Bounds /\ Width(<<x, mid - 1>>) < w
      BY <2>2, <2>7, HalveSmaller
    <3>2. S[b] = IF e = n THEN [found |-> TRUE, at |-> mid]
                 ELSE IF e < n THEN S[<<mid + 1, y>>] ELSE S[<<x, mid - 1>>]
      <4>1. ~(x > y)
        <5> HIDE DEF x, y
        <5> QED
          BY <2>5, <2>7
      <4> QED
        BY <2>4, <4>1 DEF Halve
    <3>3. /\ \A k \in 1..Len(names) : k <= x => names[k].name < n
          /\ \A k \in 1..Len(names) : y + 1 < k => n < names[k].name
      BY <2>2 DEF Enclosed
    <3> HIDE DEF S, x, y, mid
    <3>4. mid \in 0..(Len(names) - 1) /\ mid + 1 \in 1..Len(names) /\ e \in 1..NumName
      BY <1>0, <2>5, <3>1
    <3>5. /\ \A k \in 1..Len(names) : k < mid + 1 => names[k].name < e
          /\ \A k \in 1..Len(names) : mid + 1 < k => e < names[k].name
      BY <3>4 DEF InOrder
    <3>6. CASE e = n
      BY <2>2, <3>2, <3>4, <3>6 DEF Located
    <3>7. CASE e < n
      <4>1. \A k \in 1..Len(names) : k <= mid + 1 => names[k].name < n
        <5> SUFFICES ASSUME NEW k \in 1..Len(names), k <= mid + 1
                     PROVE  names[k].name < n
          OBVIOUS
        <5>1. k = mid + 1 \/ k < mid + 1
          BY <3>4
        <5>2. names[k].name \in Nat
          BY <1>0
        <5> HIDE DEF e
        <5> QED
          BY <3>4, <3>5, <3>7, <5>1, <5>2 DEF e
      <4>2. Enclosed(names, n, <<mid + 1, y>>)
        BY <2>5, <3>1, <3>3, <4>1 DEF Enclosed
      <4>3. e # n
        BY <3>4, <3>7
      <4> HIDE DEF e
      <4> QED
        BY <2>2, <2>3, <3>1, <3>2, <3>7, <4>2, <4>3
    <3>8. CASE ~(e = n) /\ ~(e < n)
      <4>1. \A k \in 1..Len(names) : mid < k => n < names[k].name
        <5> SUFFICES ASSUME NEW k \in 1..Len(names), mid < k
                     PROVE  n < names[k].name
          OBVIOUS
        <5>1. k = mid + 1 \/ mid + 1 < k
          BY <3>4
        <5>2. names[k].name \in Nat
          BY <1>0
        <5> HIDE DEF e
        <5> QED
          BY <3>4, <3>5, <3>8, <5>1, <5>2 DEF e
      <4>2. Enclosed(names, n, <<x, mid - 1>>)
        BY <1>0, <2>5, <3>1, <3>3, <3>4, <4>1 DEF Enclosed
      <4> HIDE DEF e
      <4> QED
        BY <2>2, <2>3, <3>1, <3>2, <3>8, <4>2
    <3> QED
      BY <3>6, <3>7, <3>8
  <2> HIDE DEF x, y
  <2> QED
    BY <2>5, <2>6, <2>7
<1>2. ASSUME NEW b \in Bounds, Enclosed(names, n, b)
      PROVE  Located(names, n, S[b])
  <2>1. Width(b) \in 0..NumName
    BY WidthNat
  <2> HIDE DEF S
  <2> QED
    BY <1>1, <1>2, <2>1
<1> QED
  BY <1>2

LEMMA LookupLocates ==
  ASSUME NEW names \in Seq(Entry), InOrder(names), NEW n \in 1..NumName
  PROVE  Located(names, n, Search(names, n)[<<0, Len(names) - 1>>])
<1>1. Len(names) \in 0..NumName
  BY NamesFit
<1>2. <<0, Len(names) - 1>> \in Bounds
  BY <1>1 DEF Bounds
<1>3. Enclosed(names, n, <<0, Len(names) - 1>>)
  <2> DEFINE L == Len(names)
  <2>1. L \in Nat
    BY <1>1
  <2> HIDE DEF L
  <2>2. L - 1 < L /\ 0 <= L - 1 + 1 /\ \A k \in 1..L : ~(k <= 0) /\ ~(L - 1 + 1 < k)
    BY <2>1
  <2> QED
    BY <1>2, <2>2 DEF Enclosed, L
<1> QED
  BY <1>2, <1>3, SearchLocates

\* An entry that is put in moves those behind it.
LEMMA Inserted ==
  ASSUME NEW names \in Seq(Entry), NEW at \in 0..Len(names), NEW e \in Entry
  PROVE  LET t == InsertNameBefore(names, e, at)
         IN  /\ t \in Seq(Entry) /\ Len(t) = Len(names) + 1
             /\ \A k \in 1..at : t[k] = names[k]
             /\ t[at + 1] = e
             /\ \A k \in (at + 1)..Len(names) : t[k + 1] = names[k]
<1> DEFINE t == InsertNameBefore(names, e, at)
           L == Len(names)
           a == SubSeq(names, 1, at)
           z == SubSeq(names, at + 1, L)
<1>0. L \in Nat /\ at \in 0..L
  OBVIOUS
<1>1. a \in Seq(Entry) /\ Len(a) = at /\ \A k \in 1..at : a[k] = names[k]
  <2>1. \A k \in 1..at : k \in 1..Len(names)
    BY <1>0
  <2> QED
    BY <1>0, <2>1
<1>2. z \in Seq(Entry) /\ Len(z) = L - at /\ \A k \in 1..(L - at) : z[k] = names[at + k]
  <2>1. \A k \in (at + 1)..L : k \in 1..Len(names)
    BY <1>0
  <2> QED
    BY <1>0, <2>1
<1> DEFINE u == a \o <<e>>
<1>3. t = u \o z
  BY DEF InsertNameBefore
<1> HIDE DEF a, z
<1>4. u \in Seq(Entry) /\ Len(u) = at + 1 /\ u[at + 1] = e /\ \A k \in 1..at : u[k] = a[k]
  BY <1>0, <1>1
<1> HIDE DEF u, t, L
<1>5. /\ t \in Seq(Entry) /\ Len(t) = (at + 1) + (L - at)
      /\ \A k \in 1..(at + 1) : t[k] = u[k]
  <2>1. u \o z \in Seq(Entry)
    BY <1>2, <1>4
  <2>2. Len(u \o z) = Len(u) + Len(z)
    BY <1>2, <1>4, ConcatProperties
  <2>3. \A k \in 1..Len(u) : (u \o z)[k] = u[k]
    BY <1>2, <1>4
  <2> QED
    BY <1>2, <1>3, <1>4, <2>1, <2>2, <2>3
<1>6. ASSUME NEW k \in 1..(L - at)
      PROVE  t[(at + 1) + k] = z[k]
  <2>1. (at + 1) + k \in 1..(Len(u) + Len(z)) /\ ~((at + 1) + k <= Len(u))
        /\ (at + 1) + k - Len(u) = k
    BY <1>0, <1>2, <1>4
  <2> QED
    BY <1>2, <1>3, <1>4, <2>1
<1>7. \A k \in 1..at : t[k] = names[k]
  <2>1. \A k \in 1..at : k \in 1..(at + 1)
    BY <1>0
  <2> QED
    BY <1>1, <1>4, <1>5, <2>1
<1>8. t[at + 1] = e
  <2>1. at + 1 \in 1..(at + 1)
    BY <1>0
  <2> QED
    BY <1>4, <1>5, <2>1
<1>9. ASSUME NEW k \in (at + 1)..L
      PROVE  t[k + 1] = names[k]
  <2>1. k - at \in 1..(L - at) /\ (at + 1) + (k - at) = k + 1 /\ at + (k - at) = k
    BY <1>0
  <2>2. t[(at + 1) + (k - at)] = z[k - at] /\ z[k - at] = names[at + (k - at)]
    BY <1>2, <1>6, <2>1
  <2> QED
    BY <2>1, <2>2
<1>10. Len(t) = L + 1
  BY <1>0, <1>5
<1> QED
  BY <1>5, <1>7, <1>8, <1>9, <1>10 DEF t, L

\* The first names are before n and the others after it.
Between(names, at, n) ==
    \A k \in 1..Len(names) : IF k <= at THEN names[k].name < n ELSE n < names[k].name

\* A name that was not found goes where the search ended.
LEMMA InsertedInOrder ==
  ASSUME NEW names \in Seq(Entry), InOrder(names), NEW at \in 0..Len(names), NEW e \in Entry,
         Between(names, at, e.name)
  PROVE  LET t == InsertNameBefore(names, e, at)
         IN  /\ t \in Seq(Entry) /\ InOrder(t)
             /\ \E k \in 1..Len(t) : t[k] = e
             /\ \A k \in 1..Len(t) : t[k] = e \/ \E j \in 1..Len(names) : t[k] = names[j]
             /\ \A j \in 1..Len(names) : \E k \in 1..Len(t) : t[k] = names[j]
<1> DEFINE t == InsertNameBefore(names, e, at)
           L == Len(names)
<1>a. L = Len(names) /\ t = InsertNameBefore(names, e, at)
  OBVIOUS
<1>b. \A k \in 1..L : IF k <= at THEN names[k].name < e.name ELSE e.name < names[k].name
  BY DEF Between
<1>c. at \in 0..L
  OBVIOUS
<1> HIDE DEF t, L
<1>1. /\ t \in Seq(Entry) /\ Len(t) = L + 1
      /\ \A k \in 1..at : t[k] = names[k]
      /\ t[at + 1] = e
      /\ \A k \in (at + 1)..L : t[k + 1] = names[k]
  BY ONLY names \in Seq(Entry), e \in Entry, at \in 0..Len(names), <1>a, Inserted
<1>2. L \in Nat /\ at \in 0..L
  BY <1>a, <1>c
<1>3. \A k \in 1..(L + 1) :
         \/ k \in 1..at /\ k \in 1..L /\ t[k] = names[k]
         \/ k = at + 1 /\ t[k] = e
         \/ k - 1 \in (at + 1)..L /\ k - 1 \in 1..L /\ t[k] = names[k - 1]
  <2> SUFFICES ASSUME NEW k \in 1..(L + 1)
               PROVE  \/ k \in 1..at /\ k \in 1..L /\ t[k] = names[k]
                      \/ k = at + 1 /\ t[k] = e
                      \/ k - 1 \in (at + 1)..L /\ k - 1 \in 1..L /\ t[k] = names[k - 1]
    OBVIOUS
  <2>1. CASE k <= at
    <3>1. k \in 1..at /\ k \in 1..L
      BY <1>2, <2>1
    <3> QED
      BY <1>1, <3>1
  <2>2. CASE k = at + 1
    BY <1>1, <2>2
  <2>3. CASE at + 1 < k
    <3>1. k - 1 \in (at + 1)..L /\ k - 1 \in 1..L /\ (k - 1) + 1 = k
      BY <1>2, <2>3
    <3>2. t[(k - 1) + 1] = names[k - 1]
      BY <1>1, <3>1
    <3> QED
      BY <3>1, <3>2
  <2> QED
    BY <1>2, <2>1, <2>2, <2>3
<1>4. /\ \A k \in 1..L : k \in 1..at => names[k].name < e.name
      /\ \A k \in 1..L : k \in (at + 1)..L => e.name < names[k].name
      /\ e.name \in Nat /\ \A k \in 1..L : names[k].name \in Nat
  <2>1. \A k \in 1..L : names[k] \in Entry
    BY <1>a
  <2> QED
    BY <1>2, <1>b, <2>1 DEF Entry
<1>5. \A i, j \in 1..L : i < j => names[i].name < names[j].name
  BY <1>a DEF InOrder
<1>6. InOrder(t)
  <2> SUFFICES ASSUME NEW i \in 1..(L + 1), NEW j \in 1..(L + 1), i < j
               PROVE  t[i].name < t[j].name
    BY <1>1 DEF InOrder
  <2>1. CASE j \in 1..at /\ j \in 1..L /\ t[j] = names[j]
    <3>1. i \in 1..at /\ i \in 1..L /\ i # at + 1 /\ ~(i - 1 \in (at + 1)..L)
      BY <1>2, <2>1
    <3>2. t[i] = names[i]
      BY <1>3, <3>1
    <3> QED
      BY <1>5, <2>1, <3>1, <3>2
  <2>2. CASE j = at + 1 /\ t[j] = e
    <3>1. i \in 1..at /\ i \in 1..L /\ i # at + 1 /\ ~(i - 1 \in (at + 1)..L)
      BY <1>2, <2>2
    <3>2. t[i] = names[i]
      BY <1>3, <3>1
    <3> QED
      BY <1>4, <2>2, <3>1, <3>2
  <2>3. CASE j - 1 \in (at + 1)..L /\ j - 1 \in 1..L /\ t[j] = names[j - 1]
    <3>1. CASE i \in 1..at /\ i \in 1..L /\ t[i] = names[i]
      <4>1. i < j - 1
        BY <1>2, <2>3, <3>1
      <4> QED
        BY <1>5, <2>3, <3>1, <4>1
    <3>2. CASE i = at + 1 /\ t[i] = e
      BY <1>4, <2>3, <3>2
    <3>3. CASE i - 1 \in (at + 1)..L /\ i - 1 \in 1..L /\ t[i] = names[i - 1]
      <4>1. i - 1 < j - 1
        OBVIOUS
      <4> QED
        BY <1>5, <2>3, <3>3, <4>1
    <3> QED
      BY <1>3, <3>1, <3>2, <3>3
  <2> QED
    BY <1>3, <2>1, <2>2, <2>3
<1>7. at + 1 \in 1..Len(t)
  BY <1>1, <1>2
<1>8. \A k \in 1..Len(t) : t[k] = e \/ \E j \in 1..L : t[k] = names[j]
  BY <1>1, <1>3
<1>9. ASSUME NEW j \in 1..L
      PROVE  \E k \in 1..Len(t) : t[k] = names[j]
  <2>1. CASE j \in 1..at
    <3>1. j \in 1..Len(t)
      BY <1>1, <1>2
    <3> QED
      BY <1>1, <2>1, <3>1
  <2>2. CASE j \in (at + 1)..L
    <3>1. j + 1 \in 1..Len(t)
      BY <1>1, <1>2
    <3> QED
      BY <1>1, <2>2, <3>1
  <2>3. j \in 1..at \/ j \in (at + 1)..L
    BY <1>2
  <2> QED
    BY <2>1, <2>2, <2>3
<1> QED
  BY <1>1, <1>6, <1>7, <1>8, <1>9 DEF t, L

\* FindName, of any names.
FindOf(names, n) ==
    LET r == Search(names, n)[<<0, Len(names) - 1>>]
    IN  IF r.found THEN names[r.at + 1].handle ELSE Nil

\* The search answers the handle of the entry of the name, if there is one.
LEMMA FindIs ==
  ASSUME NEW names \in Seq(Entry), InOrder(names), NEW n \in 1..NumName
  PROVE  /\ \A k \in 1..Len(names) : names[k].name = n => FindOf(names, n) = names[k].handle
         /\ (\A k \in 1..Len(names) : names[k].name # n) => FindOf(names, n) = Nil
         /\ FindOf(names, n) # Nil =>
               \E k \in 1..Len(names) : names[k].name = n /\ FindOf(names, n) = names[k].handle
<1> DEFINE r == Search(names, n)[<<0, Len(names) - 1>>]
<1>1. Located(names, n, r)
  BY LookupLocates
<1>2. FindOf(names, n) = IF r.found THEN names[r.at + 1].handle ELSE Nil
  BY DEF FindOf
<1>3. Len(names) \in Nat /\ \A k \in 1..Len(names) : names[k].name \in Nat
  <2>1. Len(names) \in Nat /\ \A k \in 1..Len(names) : names[k] \in Entry
    OBVIOUS
  <2> QED
    BY <2>1 DEF Entry
<1> HIDE DEF r
<1>4. CASE r.found = TRUE /\ r.at \in 0..(Len(names) - 1) /\ names[r.at + 1].name = n
  <2>1. r.at + 1 \in 1..Len(names)
    BY <1>3, <1>4
  <2>2. \A k \in 1..Len(names) : names[k].name = n => k = r.at + 1
    BY <1>3, <1>4, <2>1 DEF InOrder
  <2> QED
    BY <1>2, <1>4, <2>1, <2>2
<1>5. CASE /\ r.found = FALSE
           /\ \A k \in 1..Len(names) : IF k <= r.at THEN names[k].name < n ELSE n < names[k].name
  <2>1. \A k \in 1..Len(names) : names[k].name # n
    BY <1>3, <1>5
  <2> QED
    BY <1>2, <1>5, <2>1
<1> QED
  BY <1>1, <1>4, <1>5 DEF Located

-----------------------------------------------------------------------------
(* The other operations keep the invariant                                   *)

LEMMA InitHolds ==
  ASSUME Init
  PROVE  IInv
<1>1. SlotSize \in Power /\ SlotSize <= HandleMask + 1 /\ SlotSize \in Nat \ {0} /\ HandleMask \in Nat
  BY SlotSizePower, Mask
<1>2. slot \in [0..(SlotSize - 1) -> Ctx \cup {Nil}] /\ \A i \in DOMAIN slot : slot[i] = Nil
  BY DEF Init
<1>3. TypeOK
  <2>1. \E n \in Power : /\ SlotSize <= n /\ n <= HandleMask + 1
                         /\ slot \in [0..(n - 1) -> Ctx \cup {Nil}]
    BY <1>1, <1>2
  <2>2. name \in Seq([name: 1..NumName, handle: 1..HandleMask])
    BY DEF Init
  <2>3. handle \in [Ctx -> 0..HandleMask] /\ given \in [Launcher -> 0..HandleMask]
    BY <1>1 DEF Init
  <2>4. making \in [Launcher -> Ctx \cup {Nil}] /\ aborted \in BOOLEAN
    BY DEF Init
  <2>5. handleIndex \in 1..(HandleMask + 1)
    BY <1>1 DEF Init
  <2> QED
    BY <2>1, <2>2, <2>3, <2>4, <2>5 DEF TypeOK
<1>4. SlotsTrue /\ HandlesFound /\ GivenPlaced
  BY <1>2 DEF Init, SlotsTrue, HandlesFound, GivenPlaced
<1>5. InOrder(name) /\ ~aborted
  BY DEF Init, InOrder
<1> QED
  BY <1>3, <1>4, <1>5 DEF IInv

LEMMA StoreHandleStep ==
  ASSUME Serial, IInv, NEW l \in Launcher, StoreHandle(l)
  PROVE  IInv'
<1>1. PICK n : Sized(n) /\ n \in Nat \ {0, 1} /\ Size = n
  BY Shape DEF IInv
<1> DEFINE c == making[l]
           h == given[l]
<1>2. /\ slot \in [0..(n - 1) -> Ctx \cup {Nil}] /\ handle \in [Ctx -> 0..HandleMask]
      /\ DOMAIN slot = 0..(n - 1) /\ HandleMask \in Nat
      /\ \A k \in Launcher : k = l
  BY <1>1, Mask DEF Sized, IInv, TypeOK, Serial
<1>3. c \in Ctx /\ h \in 1..HandleMask /\ \A i \in 0..(n - 1) : slot[i] = c <=> i = h % n
  <2>1. c \in Ctx /\ h \in 0..HandleMask
    BY DEF StoreHandle, IInv, TypeOK
  <2>2. h # 0 /\ \A i \in 0..(n - 1) : slot[i] = c <=> i = h % n
    BY <1>1, <1>2 DEF StoreHandle, IInv, GivenPlaced
  <2> HIDE DEF c, h
  <2> QED
    BY <1>2, <2>1, <2>2
<1>4. /\ handle' = [handle EXCEPT ![c] = h] /\ making' = [making EXCEPT ![l] = Nil]
      /\ given' = [given EXCEPT ![l] = 0] /\ UNCHANGED <<slot, handleIndex, name, aborted>>
  BY DEF StoreHandle
<1>5. Size' = n /\ \A k \in Launcher : making'[k] = Nil
  BY <1>1, <1>2, <1>4 DEF Size, IInv, TypeOK
<1>6. TypeOK'
  <2>1. handle' \in [Ctx -> 0..HandleMask]
    BY <1>2, <1>3, <1>4
  <2>2. making' \in [Launcher -> Ctx \cup {Nil}] /\ given' \in [Launcher -> 0..HandleMask]
    BY <1>2, <1>4 DEF IInv, TypeOK
  <2> QED
    BY <1>4, <2>1, <2>2 DEF IInv, TypeOK
<1> HIDE DEF c, h
<1>7. h % n \in 0..(n - 1) /\ slot[h % n] = c
  BY <1>1, <1>2, <1>3, Divide
<1>8. \A d \in Ctx : handle'[d] = IF d = c THEN h ELSE handle[d]
  BY <1>2, <1>3, <1>4
<1>9. SlotsTrue'
  <2> SUFFICES ASSUME NEW i \in 0..(n - 1), slot[i] # Nil
               PROVE  handle'[slot[i]] # 0 /\ handle'[slot[i]] % n = i
    BY <1>2, <1>4, <1>5 DEF SlotsTrue
  <2>1. slot[i] \in Ctx
    BY <1>2
  <2>2. CASE slot[i] = c
    BY <1>3, <1>8, <2>1, <2>2
  <2>3. CASE slot[i] # c
    <3>1. ~(\E k \in Launcher : making[k] = slot[i])
      BY <1>2, <2>3 DEF c
    <3>2. handle[slot[i]] # 0 /\ handle[slot[i]] % n = i
      BY <1>1, <1>2, <3>1 DEF IInv, SlotsTrue
    <3> QED
      BY <1>8, <2>1, <2>3, <3>2
  <2> QED
    BY <2>2, <2>3
<1>10. HandlesFound'
  <2> SUFFICES ASSUME NEW d \in Ctx, handle'[d] # 0
               PROVE  slot[handle'[d] % n] = d
    BY <1>4, <1>5 DEF HandlesFound
  <2>1. CASE d = c
    BY <1>7, <1>8, <2>1
  <2>2. CASE d # c
    BY <1>1, <1>8, <2>2 DEF IInv, HandlesFound
  <2> QED
    BY <2>1, <2>2
<1>11. GivenPlaced'
  BY <1>5 DEF GivenPlaced
<1>12. InOrder(name)' /\ ~aborted'
  BY <1>4 DEF IInv, InOrder
<1> QED
  BY <1>6, <1>9, <1>10, <1>11, <1>12 DEF IInv

LEMMA RetireStep ==
  ASSUME IInv, NEW h \in 1..HandleMask, Retire(h)
  PROVE  IInv'
<1>1. PICK n : Sized(n) /\ n \in Nat \ {0, 1} /\ Size = n
  BY Shape DEF IInv
<1> DEFINE c == Grab(h)
<1>2. /\ slot \in [0..(n - 1) -> Ctx \cup {Nil}] /\ handle \in [Ctx -> 0..HandleMask]
      /\ DOMAIN slot = 0..(n - 1) /\ HandleMask \in Nat /\ h \in Nat
  BY <1>1, Mask DEF Sized, IInv, TypeOK
<1>3. h % n \in 0..(n - 1)
  BY <1>1, <1>2, Divide
<1>4. c = slot[h % n] /\ c \in Ctx /\ handle[c] = h
  BY <1>1, <1>2, <1>3 DEF Retire, Grab
<1>5. /\ slot' = [slot EXCEPT ![h % n] = Nil] /\ handle' = [handle EXCEPT ![c] = 0]
      /\ name' = Scrubbed(name, h) /\ UNCHANGED <<handleIndex, making, given, aborted>>
  BY <1>1 DEF Retire
<1> HIDE DEF c
<1>6. /\ slot' \in [0..(n - 1) -> Ctx \cup {Nil}] /\ DOMAIN slot' = 0..(n - 1)
      /\ handle' \in [Ctx -> 0..HandleMask]
      /\ \A i \in 0..(n - 1) : slot'[i] = IF i = h % n THEN Nil ELSE slot[i]
      /\ \A d \in Ctx : handle'[d] = IF d = c THEN 0 ELSE handle[d]
  BY <1>2, <1>3, <1>4, <1>5
<1>7. Size' = n
  BY <1>2, <1>6, <1>1 DEF Size
<1>8. name' \in Seq(Entry) /\ InOrder(name')
  BY <1>5, ScrubbedKeeps DEF IInv, TypeOK, Entry
<1>9. TypeOK'
  BY <1>1, <1>5, <1>6, <1>8 DEF IInv, TypeOK, Sized, Entry
<1>10. \A k \in Launcher : making[k] # c
  BY <1>4, <1>2 DEF IInv, HandlesFound
<1>11. SlotsTrue'
  <2> SUFFICES ASSUME NEW i \in 0..(n - 1), slot'[i] # Nil
               PROVE  IF \E l \in Launcher : making[l] = slot'[i]
                      THEN handle'[slot'[i]] = 0
                      ELSE handle'[slot'[i]] # 0 /\ handle'[slot'[i]] % n = i
    BY <1>5, <1>6, <1>7 DEF SlotsTrue
  <2>1. slot'[i] = slot[i] /\ i # h % n /\ slot[i] \in Ctx
    BY <1>2, <1>6
  <2>2. IF \E l \in Launcher : making[l] = slot[i]
        THEN handle[slot[i]] = 0
        ELSE handle[slot[i]] # 0 /\ handle[slot[i]] % n = i
    BY <1>1, <1>2, <2>1 DEF IInv, SlotsTrue
  <2>3. slot[i] # c
    BY <1>4, <1>10, <2>1, <2>2
  <2> QED
    BY <1>6, <2>1, <2>2, <2>3
<1>12. HandlesFound'
  <2> SUFFICES ASSUME NEW d \in Ctx, handle'[d] # 0
               PROVE  slot'[handle'[d] % n] = d /\ \A l \in Launcher : making[l] # d
    BY <1>5, <1>7 DEF HandlesFound
  <2>1. d # c /\ handle'[d] = handle[d] /\ handle[d] \in Nat /\ d # Nil
    BY <1>2, <1>6
  <2>2. slot[handle[d] % n] = d /\ \A l \in Launcher : making[l] # d
    BY <1>1, <2>1 DEF IInv, HandlesFound
  <2>3. handle[d] % n \in 0..(n - 1)
    BY <1>1, <2>1, Divide
  <2>4. handle[d] % n # h % n
    BY <1>4, <2>1, <2>2
  <2> QED
    BY <1>6, <2>1, <2>2, <2>3, <2>4
<1>13. GivenPlaced'
  <2> SUFFICES ASSUME NEW l \in Launcher, making[l] # Nil
               PROVE  /\ given[l] # 0
                      /\ \A i \in 0..(n - 1) : slot'[i] = making[l] <=> i = given[l] % n
    BY <1>5, <1>6, <1>7 DEF GivenPlaced
  <2>1. given[l] # 0 /\ \A i \in 0..(n - 1) : slot[i] = making[l] <=> i = given[l] % n
    BY <1>1, <1>2 DEF IInv, GivenPlaced
  <2>2. slot[h % n] # making[l]
    BY <1>4, <1>10
  <2> QED
    BY <1>3, <1>6, <2>1, <2>2
<1> QED
  BY <1>5, <1>8, <1>9, <1>11, <1>12, <1>13 DEF IInv

LEMMA NameHandleStep ==
  ASSUME IInv, NEW n \in 1..NumName, NEW h \in 1..HandleMask, NameHandle(n, h)
  PROVE  /\ IInv'
         /\ \E k \in 1..Len(name') : name'[k] = [name |-> n, handle |-> h]
         /\ \A k \in 1..Len(name') : \/ name'[k] = [name |-> n, handle |-> h]
                                     \/ \E j \in 1..Len(name) : name'[k] = name[j]
         /\ \A j \in 1..Len(name) : name[j].name # n /\ \E k \in 1..Len(name') : name'[k] = name[j]
<1> DEFINE r == Search(name, n)[<<0, Len(name) - 1>>]
           e == [name |-> n, handle |-> h]
           L == Len(name)
           at == r.at
<1>1. name \in Seq(Entry) /\ InOrder(name)
  BY DEF IInv, TypeOK, Entry
<1>2. Located(name, n, r)
  BY <1>1, LookupLocates
<1>3. ~r.found /\ name' = InsertNameBefore(name, e, at)
  BY DEF NameHandle, Lookup
<1>4. e \in Entry /\ e.name = n
  BY DEF Entry
<1> HIDE DEF r
<1>5. /\ at \in 0..L
      /\ \A k \in 1..L : IF k <= at THEN name[k].name < n ELSE n < name[k].name
  BY <1>2, <1>3 DEF Located
<1> HIDE DEF e, at, L
<1>6. Between(name, at, e.name)
  BY <1>4, <1>5 DEF Between, L
<1>7. L = Len(name)
  BY DEF L
<1> DEFINE t == name'
<1>8. t = InsertNameBefore(name, e, at)
  BY <1>3
<1> HIDE DEF t
<1>9. /\ t \in Seq(Entry) /\ InOrder(t)
      /\ \E k \in 1..Len(t) : t[k] = e
      /\ \A k \in 1..Len(t) : t[k] = e \/ \E j \in 1..L : t[k] = name[j]
      /\ \A j \in 1..L : \E k \in 1..Len(t) : t[k] = name[j]
  <2>1. at \in 0..Len(name)
    BY <1>5, <1>7
  <2> QED
    BY ONLY <1>1, <1>4, <1>6, <1>7, <1>8, <2>1, InsertedInOrder
<1>10. \A j \in 1..L : name[j].name # n
  <2> SUFFICES ASSUME NEW j \in 1..L
               PROVE  name[j].name # n
    OBVIOUS
  <2>1. name[j] \in Entry
    BY <1>1, <1>7
  <2>2. name[j].name \in Nat
    BY <2>1 DEF Entry
  <2> QED
    BY <1>5, <2>2
<1>11. UNCHANGED <<slot, handleIndex, handle, making, given, aborted>>
  BY DEF NameHandle
<1>12. name' \in Seq([name: 1..NumName, handle: 1..HandleMask]) /\ InOrder(name')
  BY <1>9 DEF t, Entry
<1>13. TypeOK'
  BY <1>11, <1>12 DEF IInv, TypeOK
<1>14. SlotsTrue' /\ HandlesFound' /\ GivenPlaced' /\ ~aborted'
  BY <1>11 DEF IInv, SlotsTrue, HandlesFound, GivenPlaced, Size
<1>15. IInv'
  BY <1>12, <1>13, <1>14 DEF IInv
<1> QED
  BY <1>9, <1>10, <1>15 DEF t, e, L

-----------------------------------------------------------------------------
(* The invariant, and what follows from it                                   *)

LEMMA NextStep ==
  ASSUME Serial, IInv, [Next]_vars
  PROVE  IInv'
<1>1. CASE UNCHANGED vars
  BY <1>1 DEF vars, IInv, TypeOK, SlotsTrue, HandlesFound, GivenPlaced, InOrder, Size
<1>2. ASSUME NEW l \in Launcher, NEW c \in Ctx, Register(l, c)
      PROVE  IInv'
  BY <1>2, RegisterStep
<1>3. ASSUME NEW l \in Launcher, StoreHandle(l)
      PROVE  IInv'
  BY <1>3, StoreHandleStep
<1>4. ASSUME NEW h \in 1..HandleMask, Retire(h)
      PROVE  IInv'
  BY <1>4, RetireStep
<1>5. ASSUME NEW n \in 1..NumName, NEW h \in 1..HandleMask, NameHandle(n, h)
      PROVE  IInv'
  BY <1>5, NameHandleStep
<1> QED
  BY <1>1, <1>2, <1>3, <1>4, <1>5 DEF Next

(* The handle storage with one creator: every context is in the slot of its  *)
(* handle, through any number of expansions and rounds of the handles, and   *)
(* the names stay in order.                                                  *)
THEOREM StorageInvariant ==
  ASSUME Serial
  PROVE  Spec => []IInv
<1>1. Init => IInv
  BY InitHolds
<1>2. IInv /\ [Next]_vars => IInv'
  BY NextStep
<1> QED
  BY <1>1, <1>2, PTL DEF Spec

(* The table always has a power of two of slots, within the mask.            *)
THEOREM StorageTyped ==
  ASSUME Serial
  PROVE  Spec => []TypeOK
<1>1. IInv => TypeOK
  BY DEF IInv
<1> QED
  BY <1>1, StorageInvariant, PTL

(* A registered service whose handle is stored is found under it.            *)
THEOREM AlwaysReachable ==
  ASSUME Serial
  PROVE  Spec => []Reachable
<1>1. ASSUME IInv
      PROVE  Reachable
  <2> SUFFICES ASSUME NEW c \in Registered, \A l \in Launcher : making[l] # c
               PROVE  handle[c] # 0 /\ Grab(handle[c]) = c
    BY DEF Reachable
  <2>1. PICK i \in DOMAIN slot : slot[i] = c /\ c # Nil
    BY DEF Registered
  <2>2. handle[c] # 0 /\ handle[c] % Size = i
    BY <1>1, <2>1 DEF IInv, SlotsTrue
  <2> QED
    BY <2>1, <2>2 DEF Grab
<1> QED
  BY <1>1, StorageInvariant, PTL

(* A handle is given to one service at a time, and never 0.                  *)
THEOREM HandlesFresh ==
  ASSUME Serial
  PROVE  Spec => []GivenFresh
<1>1. ASSUME IInv
      PROVE  GivenFresh
  <2> SUFFICES ASSUME NEW l \in Launcher, making[l] # Nil
               PROVE  /\ given[l] # 0
                      /\ \A c \in Registered : handle[c] # given[l]
                      /\ \A k \in Launcher \ {l} : given[k] # given[l]
    BY DEF GivenFresh
  <2>1. PICK n : Sized(n) /\ n \in Nat \ {0, 1} /\ Size = n
    BY <1>1, Shape DEF IInv
  <2>2. given[l] # 0 /\ \A i \in DOMAIN slot : slot[i] = making[l] <=> i = given[l] % Size
    BY <1>1 DEF IInv, GivenPlaced
  <2>3. DOMAIN slot = 0..(n - 1) /\ given[l] \in Nat /\ making[l] \in Ctx
    BY <1>1, <2>1, Mask DEF Sized, IInv, TypeOK
  <2>4. given[l] % n \in 0..(n - 1)
    BY <2>1, <2>3, Divide
  <2>5. slot[given[l] % n] = making[l]
    BY <2>1, <2>2, <2>3, <2>4
  <2>6. ASSUME NEW c \in Registered, handle[c] = given[l]
        PROVE  FALSE
    <3>1. c \in Ctx
      BY <2>1 DEF Registered, Sized
    <3>2. slot[handle[c] % n] = c /\ making[l] # c
      BY <1>1, <2>1, <2>2, <2>6, <3>1 DEF IInv, HandlesFound
    <3> QED
      BY <2>5, <2>6, <3>2
  <2>7. Launcher \ {l} = {}
    BY DEF Serial
  <2> QED
    BY <2>2, <2>6, <2>7
<1> QED
  BY <1>1, StorageInvariant, PTL

(* The assertion of the expansion never fails.                               *)
THEOREM ExpansionSafe ==
  ASSUME Serial
  PROVE  Spec => []ExpandAssert
<1>1. IInv => ExpandAssert
  BY DEF IInv, ExpandAssert
<1> QED
  BY <1>1, StorageInvariant, PTL

-----------------------------------------------------------------------------
(* The storage implements the registry                                       *)

\* Grab, of any table.
GrabOf(S, H, h) ==
    LET c == S[h % Cardinality(DOMAIN S)]
    IN  IF c # Nil /\ H[c] = h THEN c ELSE Nil

LEMMA GrabIs ==
  ASSUME NEW S, \E n \in Power : S \in [0..(n - 1) -> Ctx \cup {Nil}],
         NEW H \in [Ctx -> 0..HandleMask],
         \A c \in Ctx : H[c] # 0 => S[H[c] % Cardinality(DOMAIN S)] = c,
         NEW h \in 1..HandleMask
  PROVE  /\ GrabOf(S, H, h) \in Ctx \cup {Nil}
         /\ \A c \in Ctx : GrabOf(S, H, h) = c <=> H[c] = h
<1>1. PICK n \in Power : S \in [0..(n - 1) -> Ctx \cup {Nil}]
  OBVIOUS
<1>2. n \in Nat \ {0} /\ h \in Nat \ {0}
  BY Mask, PowerDivides
<1>3. Cardinality(DOMAIN S) = n
  BY <1>1, <1>2, SizeIs
<1>4. h % n \in 0..(n - 1)
  BY <1>2, Divide
<1>5. S[h % n] \in Ctx \cup {Nil}
  BY <1>1, <1>4
<1>6. GrabOf(S, H, h) = IF S[h % n] # Nil /\ H[S[h % n]] = h THEN S[h % n] ELSE Nil
  BY <1>3 DEF GrabOf
<1>7. ASSUME NEW c \in Ctx, H[c] = h
      PROVE  S[h % n] = c
  BY <1>2, <1>3, <1>7
<1> QED
  BY <1>5, <1>6, <1>7

Owner == [h \in 1..HandleMask |-> Grab(h)]
Named == [n \in 1..NumName |-> FindName(n)]

\* What a handle denotes, and a name: now and after the step.
LEMMA OwnerIs ==
  ASSUME IInv, IInv'
  PROVE  /\ \A h \in 1..HandleMask :
              /\ Owner[h] \in Ctx \cup {Nil} /\ Owner'[h] \in Ctx \cup {Nil}
              /\ \A c \in Ctx : /\ Owner[h] = c <=> handle[c] = h
                                /\ Owner'[h] = c <=> handle'[c] = h
         /\ \A n \in 1..NumName : Named[n] = FindOf(name, n) /\ Named'[n] = FindOf(name', n)
         /\ name \in Seq(Entry) /\ InOrder(name) /\ name' \in Seq(Entry) /\ InOrder(name')
<1>1. /\ \E n \in Power : slot \in [0..(n - 1) -> Ctx \cup {Nil}]
      /\ handle \in [Ctx -> 0..HandleMask]
      /\ \A c \in Ctx : handle[c] # 0 => slot[handle[c] % Cardinality(DOMAIN slot)] = c
  BY DEF IInv, TypeOK, HandlesFound, Size
<1>2. /\ \E n \in Power : slot' \in [0..(n - 1) -> Ctx \cup {Nil}]
      /\ handle' \in [Ctx -> 0..HandleMask]
      /\ \A c \in Ctx : handle'[c] # 0 => slot'[handle'[c] % Cardinality(DOMAIN slot')] = c
  BY DEF IInv, TypeOK, HandlesFound, Size
<1>3. \A h \in 1..HandleMask : /\ Owner[h] = GrabOf(slot, handle, h)
                               /\ Owner'[h] = GrabOf(slot', handle', h)
  BY DEF Owner, Grab, GrabOf, Size
<1>4. \A n \in 1..NumName : Named[n] = FindOf(name, n) /\ Named'[n] = FindOf(name', n)
  BY DEF Named, FindName, FindOf, Lookup
<1>5. name \in Seq(Entry) /\ InOrder(name) /\ name' \in Seq(Entry) /\ InOrder(name')
  BY DEF IInv, TypeOK, Entry, InOrder
<1>6. ASSUME NEW h \in 1..HandleMask
      PROVE  /\ GrabOf(slot, handle, h) \in Ctx \cup {Nil}
             /\ \A c \in Ctx : GrabOf(slot, handle, h) = c <=> handle[c] = h
  BY <1>1, GrabIs
<1>7. ASSUME NEW h \in 1..HandleMask
      PROVE  /\ GrabOf(slot', handle', h) \in Ctx \cup {Nil}
             /\ \A c \in Ctx : GrabOf(slot', handle', h) = c <=> handle'[c] = h
  BY <1>2, GrabIs
<1> QED
  BY <1>3, <1>4, <1>5, <1>6, <1>7

\* Functions that agree on every handle, and on every name, are the same.
LEMMA SameOwner ==
  ASSUME \A h \in 1..HandleMask : Owner'[h] = Owner[h]
  PROVE  Owner' = Owner
BY DEF Owner

LEMMA SameNamed ==
  ASSUME \A n \in 1..NumName : Named'[n] = Named[n]
  PROVE  Named' = Named
BY DEF Named

LEMMA RegisterMaps ==
  ASSUME IInv, IInv', NEW l \in Launcher, NEW c \in Ctx, Register(l, c)
  PROVE  Owner' = Owner /\ Named' = Named
<1>1. handle' = handle /\ name' = name
  BY DEF Register
<1>2. ASSUME NEW h \in 1..HandleMask
      PROVE  Owner'[h] = Owner[h]
  <2> DEFINE x == Owner[h]
             y == Owner'[h]
  <2>1. x \in Ctx \cup {Nil} /\ y \in Ctx \cup {Nil} /\ \A d \in Ctx : x = d <=> y = d
    BY <1>1, OwnerIs
  <2> HIDE DEF x, y
  <2>2. x = y
    BY <2>1
  <2> QED
    BY <2>2 DEF x, y
<1>3. \A n \in 1..NumName : Named'[n] = Named[n]
  BY <1>1, OwnerIs
<1> QED
  BY <1>2, <1>3, SameOwner, SameNamed

LEMMA StoreHandleMaps ==
  ASSUME IInv, IInv', NEW l \in Launcher, StoreHandle(l)
  PROVE  \E h \in 1..HandleMask, c \in Ctx :
            /\ Owner[h] = Nil
            /\ \A k \in 1..HandleMask : Owner[k] # c
            /\ Owner' = [Owner EXCEPT ![h] = c]
            /\ Named' = Named
<1> DEFINE c == making[l]
           h == given[l]
<1>1. c \in Ctx /\ h \in 0..HandleMask /\ h # 0 /\ HandleMask \in Nat
  BY Mask DEF StoreHandle, IInv, TypeOK, GivenPlaced
<1>2. /\ handle \in [Ctx -> 0..HandleMask] /\ handle' = [handle EXCEPT ![c] = h] /\ name' = name
  BY DEF StoreHandle, IInv, TypeOK
<1>3. handle[c] = 0
  BY <1>1 DEF IInv, HandlesFound
<1>4. \A d \in Ctx : handle[d] # h
  <2> SUFFICES ASSUME NEW d \in Ctx, handle[d] = h
               PROVE  FALSE
    OBVIOUS
  <2>1. PICK n : Sized(n) /\ n \in Nat \ {0, 1} /\ Size = n
    BY Shape DEF IInv
  <2>2. DOMAIN slot = 0..(n - 1) /\ h \in Nat /\ making[l] # Nil
    BY <1>1, <2>1 DEF Sized, StoreHandle
  <2>3. h % n \in 0..(n - 1)
    BY <2>1, <2>2, Divide
  <2>4. \A i \in DOMAIN slot : slot[i] = c <=> i = h % n
    BY <2>1, <2>2 DEF IInv, GivenPlaced
  <2>5. slot[h % n] = c
    BY <2>2, <2>3, <2>4
  <2>6. slot[h % n] = d /\ c # d
    BY <1>1, <2>1 DEF IInv, HandlesFound
  <2> QED
    BY <2>5, <2>6
<1> HIDE DEF c, h
<1>5. h \in 1..HandleMask
  BY <1>1
<1>6. \A d \in Ctx : handle'[d] = IF d = c THEN h ELSE handle[d]
  BY <1>1, <1>2
<1>7. Owner[h] = Nil
  BY <1>4, <1>5, OwnerIs
<1>8. \A k \in 1..HandleMask : Owner[k] # c
  <2>1. \A k \in 1..HandleMask : k # 0
    BY <1>1
  <2> QED
    BY <1>1, <1>3, <2>1, OwnerIs
<1>9. ASSUME NEW k \in 1..HandleMask
      PROVE  Owner'[k] = IF k = h THEN c ELSE Owner[k]
  <2> DEFINE x == Owner[k]
             y == Owner'[k]
  <2>1. x \in Ctx \cup {Nil} /\ y \in Ctx \cup {Nil}
        /\ \A d \in Ctx : (x = d <=> handle[d] = k) /\ (y = d <=> handle'[d] = k)
    BY OwnerIs
  <2>2. x # c
    BY <1>8
  <2> HIDE DEF x, y
  <2>3. y = IF k = h THEN c ELSE x
    <3>1. CASE k = h
      BY <1>1, <1>6, <2>1, <3>1
    <3>2. CASE k # h
      <4>1. y # c
        BY <1>1, <1>6, <2>1, <3>2
      <4>2. \A d \in Ctx : d # c => (x = d <=> y = d)
        BY <1>6, <2>1
      <4> QED
        BY <2>1, <2>2, <3>2, <4>1, <4>2
    <3> QED
      BY <3>1, <3>2
  <2> QED
    BY <2>3 DEF x, y
<1>10. Owner' = [Owner EXCEPT ![h] = c]
  BY <1>5, <1>9 DEF Owner
<1>11. Named' = Named
  BY <1>2, OwnerIs, SameNamed
<1> QED
  BY <1>1, <1>5, <1>7, <1>8, <1>10, <1>11

LEMMA RetireMaps ==
  ASSUME IInv, IInv', NEW h \in 1..HandleMask, Retire(h)
  PROVE  /\ Owner[h] # Nil
         /\ Owner' = [Owner EXCEPT ![h] = Nil]
         /\ Named' = [n \in 1..NumName |-> IF Named[n] = h THEN Nil ELSE Named[n]]
<1> DEFINE c == Grab(h)
<1>0. Owner[h] = c
  BY DEF Owner
<1>1. c \in Ctx /\ handle[c] = h
  BY <1>0, OwnerIs DEF Retire
<1>2. /\ handle \in [Ctx -> 0..HandleMask] /\ handle' = [handle EXCEPT ![c] = 0]
      /\ name' = Scrubbed(name, h)
  BY DEF Retire, IInv, TypeOK
<1> HIDE DEF c
<1>3. \A d \in Ctx : handle'[d] = IF d = c THEN 0 ELSE handle[d]
  BY <1>1, <1>2
<1>4. ASSUME NEW k \in 1..HandleMask
      PROVE  Owner'[k] = IF k = h THEN Nil ELSE Owner[k]
  <2> DEFINE x == Owner[k]
             y == Owner'[k]
  <2>1. x \in Ctx \cup {Nil} /\ y \in Ctx \cup {Nil}
        /\ \A d \in Ctx : (x = d <=> handle[d] = k) /\ (y = d <=> handle'[d] = k)
    BY OwnerIs
  <2>2. k = h => x = c
    BY <1>0
  <2>3. k # 0
    BY Mask
  <2> HIDE DEF x, y
  <2>4. \A d \in Ctx : d # c => (x = d <=> y = d)
    BY <1>3, <2>1
  <2>5. y # c
    BY <1>1, <1>3, <2>1, <2>3
  <2>6. x = c <=> k = h
    BY <1>1, <2>1
  <2>7. y = IF k = h THEN Nil ELSE x
    BY <2>1, <2>4, <2>5, <2>6
  <2> QED
    BY <2>7 DEF x, y
<1>5. Owner' = [Owner EXCEPT ![h] = Nil]
  BY <1>4 DEF Owner
<1>6. /\ name \in Seq(Entry) /\ InOrder(name) /\ name' \in Seq(Entry) /\ InOrder(name')
  BY OwnerIs
<1>7. /\ \A i \in 1..Len(name') :
               name'[i].handle # h /\ \E j \in 1..Len(name) : name'[i] = name[j]
      /\ \A j \in 1..Len(name) :
               name[j].handle # h => \E i \in 1..Len(name') : name'[i] = name[j]
  <2>1. LET kept == Scrubbed(name, h)
        IN  /\ \A i \in 1..Len(kept) :
                   kept[i].handle # h /\ \E j \in 1..Len(name) : kept[i] = name[j]
            /\ \A j \in 1..Len(name) :
                   name[j].handle # h => \E i \in 1..Len(kept) : kept[i] = name[j]
    BY <1>6, ScrubbedKeeps
  <2> QED
    BY <1>2, <2>1
<1>8. ASSUME NEW n \in 1..NumName
      PROVE  Named'[n] = IF Named[n] = h THEN Nil ELSE Named[n]
  <2> DEFINE x == FindOf(name, n)
             t == name'
             y == FindOf(t, n)
  <2>1. Named[n] = x /\ Named'[n] = y
    BY OwnerIs
  <2>2. /\ \A k \in 1..Len(name) : name[k].name = n => x = name[k].handle
        /\ (\A k \in 1..Len(name) : name[k].name # n) => x = Nil
        /\ x # Nil => \E k \in 1..Len(name) : name[k].name = n /\ x = name[k].handle
    BY <1>6, FindIs
  <2>t. t = name'
    OBVIOUS
  <2> HIDE DEF x, t
  <2>3. /\ \A k \in 1..Len(t) : t[k].name = n => y = t[k].handle
        /\ (\A k \in 1..Len(t) : t[k].name # n) => y = Nil
        /\ y # Nil => \E k \in 1..Len(t) : t[k].name = n /\ y = t[k].handle
    BY <1>6, <2>t, FindIs
  <2> HIDE DEF y
  <2>4. h # Nil
    OBVIOUS
  <2>5. CASE x = Nil
    <3>1. \A k \in 1..Len(name) : name[k].name = n => FALSE
      <4> SUFFICES ASSUME NEW k \in 1..Len(name), name[k].name = n
                   PROVE  FALSE
        OBVIOUS
      <4>1. name[k] \in Entry /\ name[k].handle = Nil
        BY <1>6, <2>2, <2>5
      <4>2. name[k].handle \in 1..HandleMask
        BY <4>1 DEF Entry
      <4> QED
        BY <4>1, <4>2
    <3>2. \A k \in 1..Len(t) : t[k].name # n
      BY <1>7, <2>t, <3>1
    <3> QED
      BY <2>1, <2>3, <2>4, <2>5, <3>2
  <2>6. CASE x = h
    <3>1. \A k \in 1..Len(t) : t[k].name # n
      BY <1>7, <2>t, <2>2, <2>6
    <3> QED
      BY <2>1, <2>3, <2>6, <3>1
  <2>7. CASE x # Nil /\ x # h
    <3>1. PICK k \in 1..Len(name) : name[k].name = n /\ x = name[k].handle
      BY <2>2, <2>7
    <3>2. PICK i \in 1..Len(t) : t[i] = name[k]
      BY <1>7, <2>t, <2>7, <3>1
    <3> QED
      BY <2>1, <2>3, <2>7, <3>1, <3>2
  <2> QED
    BY <2>5, <2>6, <2>7
<1>9. Named' = [n \in 1..NumName |-> IF Named[n] = h THEN Nil ELSE Named[n]]
  BY <1>8 DEF Named
<1> QED
  BY <1>0, <1>1, <1>5, <1>9

LEMMA NameHandleMaps ==
  ASSUME IInv, IInv', NEW n \in 1..NumName, NEW h \in 1..HandleMask, NameHandle(n, h)
  PROVE  /\ Named[n] = Nil
         /\ Named' = [Named EXCEPT ![n] = h]
         /\ Owner' = Owner
<1> DEFINE e == [name |-> n, handle |-> h]
           t == name'
<1>1. /\ \E k \in 1..Len(t) : t[k] = e
      /\ \A k \in 1..Len(t) : t[k] = e \/ \E j \in 1..Len(name) : t[k] = name[j]
      /\ \A j \in 1..Len(name) : name[j].name # n /\ \E k \in 1..Len(t) : t[k] = name[j]
  BY NameHandleStep
<1>2. name \in Seq(Entry) /\ InOrder(name) /\ t \in Seq(Entry) /\ InOrder(t)
  BY OwnerIs
<1>3. e.name = n /\ e.handle = h
  OBVIOUS
<1>4. \A m \in 1..NumName : Named[m] = FindOf(name, m) /\ Named'[m] = FindOf(t, m)
  BY OwnerIs
<1> HIDE DEF e, t
<1>5. Named[n] = Nil
  BY <1>1, <1>2, <1>4, FindIs
<1>6. ASSUME NEW m \in 1..NumName
      PROVE  Named'[m] = IF m = n THEN h ELSE Named[m]
  <2> DEFINE x == FindOf(name, m)
             y == FindOf(t, m)
  <2>2. /\ \A k \in 1..Len(name) : name[k].name = m => x = name[k].handle
        /\ (\A k \in 1..Len(name) : name[k].name # m) => x = Nil
    BY <1>2, FindIs
  <2>3. /\ \A k \in 1..Len(t) : t[k].name = m => y = t[k].handle
        /\ (\A k \in 1..Len(t) : t[k].name # m) => y = Nil
    BY <1>2, FindIs
  <2>4. Named[m] = x /\ Named'[m] = y
    BY <1>4
  <2> HIDE DEF x, y
  <2>5. CASE m = n
    BY <1>1, <1>3, <2>3, <2>4, <2>5
  <2>6. CASE m # n /\ \A k \in 1..Len(name) : name[k].name # m
    <3>1. \A k \in 1..Len(t) : t[k].name # m
      BY <1>1, <1>3, <2>6
    <3> QED
      BY <2>2, <2>3, <2>4, <2>6, <3>1
  <2>7. CASE m # n /\ \E k \in 1..Len(name) : name[k].name = m
    <3>1. PICK k \in 1..Len(name) : name[k].name = m
      BY <2>7
    <3>2. PICK i \in 1..Len(t) : t[i] = name[k]
      BY <1>1
    <3> QED
      BY <2>2, <2>3, <2>4, <2>7, <3>1, <3>2
  <2> QED
    BY <2>5, <2>6, <2>7
<1>7. Named' = [Named EXCEPT ![n] = h]
  BY <1>6 DEF Named
<1>8. Owner' = Owner
  BY DEF Owner, NameHandle, Grab, Size
<1> QED
  BY <1>5, <1>7, <1>8

(* The hash table, its expansions and the binary search over the sorted names*)
(* together are a map from handles to services and one from names to handles.*)
THEOREM StorageIsRegistry ==
  ASSUME Serial
  PROVE  Spec => ImplementsRegistry
<1> USE DEF Owner, Named
<1>1. Init => Registry!RegistryInit
  <2> SUFFICES ASSUME Init
               PROVE  Registry!RegistryInit
    OBVIOUS
  <2>1. IInv
    BY InitHolds
  <2>2. \A h \in 1..HandleMask : Grab(h) = Nil
    <3> SUFFICES ASSUME NEW h \in 1..HandleMask
                 PROVE  Grab(h) = Nil
      OBVIOUS
    <3>1. Grab(h) = GrabOf(slot, handle, h)
      BY DEF Grab, GrabOf, Size
    <3>2. GrabOf(slot, handle, h) \in Ctx \cup {Nil}
          /\ \A c \in Ctx : GrabOf(slot, handle, h) = c <=> handle[c] = h
      <4>1. /\ \E n \in Power : slot \in [0..(n - 1) -> Ctx \cup {Nil}]
            /\ handle \in [Ctx -> 0..HandleMask]
            /\ \A c \in Ctx : handle[c] # 0 => slot[handle[c] % Cardinality(DOMAIN slot)] = c
        BY <2>1 DEF IInv, TypeOK, HandlesFound, Size
      <4> QED
        BY <4>1, GrabIs
    <3>3. h # 0 /\ \A c \in Ctx : handle[c] = 0
      BY Mask DEF Init
    <3> QED
      BY <3>1, <3>2, <3>3
  <2>3. \A n \in 1..NumName : FindName(n) = Nil
    <3> SUFFICES ASSUME NEW n \in 1..NumName
                 PROVE  FindName(n) = Nil
      OBVIOUS
    <3>1. FindName(n) = FindOf(name, n)
      BY DEF FindName, FindOf, Lookup
    <3>2. name \in Seq(Entry) /\ InOrder(name) /\ Len(name) = 0
      BY <2>1 DEF IInv, TypeOK, Entry, Init
    <3>3. FindOf(name, n) = Nil
      <4>1. \A k \in 1..Len(name) : name[k].name # n
        BY <3>2
      <4> QED
        BY <3>2, <4>1, FindIs
    <3> QED
      BY <3>1, <3>3
  <2> QED
    BY <2>2, <2>3 DEF Registry!RegistryInit
<1>2. IInv /\ IInv' /\ [Next]_vars => [Registry!RegistryNext]_(Registry!registryVars)
  <2> SUFFICES ASSUME IInv, IInv', [Next]_vars
               PROVE  Registry!RegistryNext \/ UNCHANGED Registry!registryVars
    OBVIOUS
  <2>1. CASE UNCHANGED vars
    BY <2>1 DEF vars, Registry!registryVars, Grab, Size, FindName, Lookup
  <2>2. ASSUME NEW l \in Launcher, NEW c \in Ctx, Register(l, c)
        PROVE  UNCHANGED Registry!registryVars
    BY <2>2, RegisterMaps DEF Registry!registryVars
  <2>3. ASSUME NEW l \in Launcher, StoreHandle(l)
        PROVE  Registry!RegistryNext
    <3>1. PICK h \in 1..HandleMask, c \in Ctx :
            /\ Owner[h] = Nil
            /\ \A k \in 1..HandleMask : Owner[k] # c
            /\ Owner' = [Owner EXCEPT ![h] = c]
            /\ Named' = Named
      BY <2>3, StoreHandleMaps
    <3>2. Registry!Announce(h, c)
      BY <3>1 DEF Registry!Announce
    <3> QED
      BY <3>2 DEF Registry!RegistryNext
  <2>4. ASSUME NEW h \in 1..HandleMask, Retire(h)
        PROVE  Registry!RegistryNext
    <3>1. Registry!Withdraw(h)
      BY <2>4, RetireMaps DEF Registry!Withdraw
    <3> QED
      BY <3>1 DEF Registry!RegistryNext
  <2>5. ASSUME NEW n \in 1..NumName, NEW h \in 1..HandleMask, NameHandle(n, h)
        PROVE  Registry!RegistryNext
    <3>1. Registry!Baptise(n, h)
      BY <2>5, NameHandleMaps DEF Registry!Baptise
    <3> QED
      BY <3>1 DEF Registry!RegistryNext
  <2> QED
    BY <2>1, <2>2, <2>3, <2>4, <2>5 DEF Next
<1> QED
  BY <1>1, <1>2, StorageInvariant, PTL DEF Spec, ImplementsRegistry, Registry!RegistrySpec

=============================================================================
