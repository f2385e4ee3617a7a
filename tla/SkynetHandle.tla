---------------------------- MODULE SkynetHandle ----------------------------
(* The handle storage of the skynet core (skynet_handle.c): a hash table     *)
(* from handles to contexts that doubles when it is full, and an array of    *)
(* names sorted for binary search.  Each operation holds the lock, except    *)
(* that a creator stores the handle in its context only after the register   *)
(* call has returned (skynet_server.c:154).                                  *)
EXTENDS Integers, Sequences, FiniteSets

CONSTANTS
    Ctx,          \* contexts (memory that is used again)
    Launcher,     \* threads that create services; with one, one at a time
    NumName,      \* names are 1..NumName, in the order of strcmp
    SlotSize,     \* DEFAULT_SLOT_SIZE
    HandleMask,   \* HANDLE_MASK: the greatest handle
    Nil

\* The table and the handles are counted in powers of two: & is %.
Power == {2 ^ k : k \in 0..24}

ASSUME SlotSizePower == SlotSize \in Power \ {1}
ASSUME HandleMaskOnes == HandleMask \in Nat /\ HandleMask + 1 \in Power /\ SlotSize <= HandleMask
ASSUME NilIsNothing == Nil \notin Ctx /\ Nil \notin 1..HandleMask
ASSUME NumNameNat == NumName \in Nat

VARIABLES
    slot,         \* the hash table, indexed from 0
    handleIndex,  \* where the search for a free handle begins
    handle,       \* ctx->handle, 0 when it is not set
    making,       \* context a thread is creating
    given,        \* handle it was given, before it is stored
    name,         \* sorted sequence of named handles
    aborted       \* the assertion of the expansion failed

vars == <<slot, handleIndex, handle, making, given, name, aborted>>

Size == Cardinality(DOMAIN slot)
Registered == {slot[i] : i \in DOMAIN slot} \ {Nil}

Init ==
    /\ slot = [i \in 0..(SlotSize - 1) |-> Nil]
    /\ handleIndex = 1
    /\ handle = [c \in Ctx |-> 0]
    /\ making = [l \in Launcher |-> Nil]
    /\ given = [l \in Launcher |-> 0]
    /\ name = <<>>
    /\ aborted = FALSE

-----------------------------------------------------------------------------
(* skynet_handle_register                                                    *)
CandidateUnwrapped(i) == handleIndex + i

CandidateZero(i) == (handleIndex + i) % (HandleMask + 1)

\* The i-th handle tried: they wrap at the mask, and 0 is reserved.
Candidate(i) == ((handleIndex - 1 + i) % HandleMask) + 1

\* How many handles are tried before one whose slot in table s is free.
FreeTries(s) ==
    LET n == Cardinality(DOMAIN s)
    IN  {i \in 0..(n - 1) : s[Candidate(i) % n] = Nil}

First(S) == CHOOSE i \in S : \A j \in S : i <= j

\* Where the expansion puts the entry of slot i: where its handle says.
NewHash(i) == handle[slot[i]] % (2 * Size)

Entries == {i \in DOMAIN slot : slot[i] # Nil}

\* assert(new_slot[hash] == NULL)
ExpandClash == \E i, j \in Entries : i # j /\ NewHash(i) = NewHash(j)
ExpandInPlace == [k \in 0..(2 * Size - 1) |-> IF k < Size THEN slot[k] ELSE Nil]

Expand ==
    [k \in 0..(2 * Size - 1) |->
        IF \E i \in Entries : NewHash(i) = k
        THEN slot[CHOOSE i \in Entries : NewHash(i) = k]
        ELSE Nil]

PutIn(s, l, c) ==
    LET h == Candidate(First(FreeTries(s)))
    IN  /\ slot' = [s EXCEPT ![h % Cardinality(DOMAIN s)] = c]
        /\ handleIndex' = h + 1
        /\ given' = [given EXCEPT ![l] = h]
        /\ making' = [making EXCEPT ![l] = c]

\* One expansion is enough: half of the new table is free.
Register(l, c) ==
    /\ ~aborted
    /\ making[l] = Nil
    /\ c \notin Registered
    /\ \A k \in Launcher : making[k] # c
    /\ IF FreeTries(slot) # {}
       THEN PutIn(slot, l, c) /\ UNCHANGED aborted
       ELSE /\ 2 * Size - 1 <= HandleMask
            /\ IF ExpandClash
               THEN aborted' = TRUE /\ UNCHANGED <<slot, handleIndex, given, making>>
               ELSE PutIn(Expand, l, c) /\ UNCHANGED aborted
    /\ UNCHANGED <<handle, name>>
StoreHandleNot(l) ==
    /\ ~aborted
    /\ making[l] # Nil
    /\ making' = [making EXCEPT ![l] = Nil]
    /\ given' = [given EXCEPT ![l] = 0]
    /\ UNCHANGED <<slot, handleIndex, handle, name, aborted>>

\* skynet_context_new: ctx->handle = handle.
StoreHandle(l) ==
    /\ ~aborted
    /\ making[l] # Nil
    /\ handle' = [handle EXCEPT ![making[l]] = given[l]]
    /\ making' = [making EXCEPT ![l] = Nil]
    /\ given' = [given EXCEPT ![l] = 0]
    /\ UNCHANGED <<slot, handleIndex, name, aborted>>

-----------------------------------------------------------------------------
\* The names that are left when those of a handle are freed, in their order.
Scrubbed(names, h) ==
    LET kept[i \in 0..Len(names)] ==
            IF i = 0 THEN <<>>
            ELSE IF names[i].handle = h THEN kept[i - 1]
            ELSE Append(kept[i - 1], names[i])
    IN  kept[Len(names)]

\* skynet_handle_grab
Grab(h) ==
    LET c == slot[h % Size]
    IN  IF c # Nil /\ handle[c] = h THEN c ELSE Nil
RetireKeepsNames(h) ==
    /\ ~aborted
    /\ Grab(h) # Nil
    /\ slot' = [slot EXCEPT ![h % Size] = Nil]
    /\ handle' = [handle EXCEPT ![Grab(h)] = 0]
    /\ UNCHANGED <<handleIndex, making, given, name, aborted>>

\* skynet_handle_retire: the slot and the names of the handle are cleared,
\* and the context is released, which frees it sooner or later.
Retire(h) ==
    /\ ~aborted
    /\ Grab(h) # Nil
    /\ slot' = [slot EXCEPT ![h % Size] = Nil]
    /\ handle' = [handle EXCEPT ![Grab(h)] = 0]
    /\ name' = Scrubbed(name, h)
    /\ UNCHANGED <<handleIndex, making, given, aborted>>

-----------------------------------------------------------------------------
(* Names                                                                     *)

(* The binary search of findname and _insert_name: the bounds (begin and     *)
(* end, from 0 as in the code) are halved until the name is met, or begin is *)
(* where it belongs.                                                         *)
Bounds == (0..NumName) \X (-1..(NumName - 1))

Search(names, n) ==
    LET find[b \in Bounds] ==
            LET mid == (b[1] + b[2]) \div 2
            IN  IF b[1] > b[2] THEN [found |-> FALSE, at |-> b[1]]
                ELSE IF names[mid + 1].name = n THEN [found |-> TRUE, at |-> mid]
                ELSE IF names[mid + 1].name < n THEN find[<<mid + 1, b[2]>>]
                ELSE find[<<b[1], mid - 1>>]
    IN  find

Lookup(n) == Search(name, n)[<<0, Len(name) - 1>>]

\* skynet_handle_findname
FindName(n) == IF Lookup(n).found THEN name[Lookup(n).at + 1].handle ELSE Nil

InsertNameLast(names, entry, before) == Append(names, entry)

\* _insert_name_before
InsertNameBefore(names, entry, before) ==
    SubSeq(names, 1, before) \o <<entry>> \o SubSeq(names, before + 1, Len(names))

\* skynet_handle_namehandle: a name that is taken stays as it is, and nobody
\* asks whether the handle still denotes a service.
NameHandle(n, h) ==
    /\ ~aborted
    /\ ~Lookup(n).found
    /\ name' = InsertNameBefore(name, [name |-> n, handle |-> h], Lookup(n).at)
    /\ UNCHANGED <<slot, handleIndex, handle, making, given, aborted>>

-----------------------------------------------------------------------------
Next ==
    \/ \E l \in Launcher, c \in Ctx : Register(l, c)
    \/ \E l \in Launcher : StoreHandle(l)
    \/ \E h \in 1..HandleMask : Retire(h)
    \/ \E n \in 1..NumName, h \in 1..HandleMask : NameHandle(n, h)

Spec == Init /\ [][Next]_vars

-----------------------------------------------------------------------------
TypeOK ==
    /\ \E n \in Power : /\ SlotSize <= n /\ n <= HandleMask + 1
                         /\ slot \in [0..(n - 1) -> Ctx \cup {Nil}]
    /\ handleIndex \in 1..(HandleMask + 1)
    /\ handle \in [Ctx -> 0..HandleMask]
    /\ making \in [Launcher -> Ctx \cup {Nil}]
    /\ given \in [Launcher -> 0..HandleMask]
    /\ name \in Seq([name: 1..NumName, handle: 1..HandleMask])
    /\ aborted \in BOOLEAN

(* What the others rest on, when one thread creates: a context is in the slot*)
(* of its handle and in no other, and so while the creator has the handle and*)
(* the context has not; the names are in order.                              *)
SlotsTrue ==
    \A i \in DOMAIN slot : slot[i] # Nil =>
        IF \E l \in Launcher : making[l] = slot[i]
        THEN handle[slot[i]] = 0
        ELSE handle[slot[i]] # 0 /\ handle[slot[i]] % Size = i

HandlesFound ==
    \A c \in Ctx : handle[c] # 0 =>
        slot[handle[c] % Size] = c /\ \A l \in Launcher : making[l] # c

GivenPlaced ==
    \A l \in Launcher : making[l] # Nil =>
        /\ given[l] # 0
        /\ \A i \in DOMAIN slot : slot[i] = making[l] <=> i = given[l] % Size

InOrder(names) == \A i, j \in 1..Len(names) : i < j => names[i].name < names[j].name

IInv ==
    /\ TypeOK
    /\ SlotsTrue
    /\ HandlesFound
    /\ GivenPlaced
    /\ InOrder(name)
    /\ ~aborted

(* Once its handle is stored, a registered service is found under it, however*)
(* often the table was expanded or the handles wrapped since: no message to  *)
(* a live service is refused.                                                *)
Reachable ==
    \A c \in Registered :
        (\A l \in Launcher : making[l] # c) => handle[c] # 0 /\ Grab(handle[c]) = c

(* A handle that is given to a new service is neither that of another one    *)
(* nor 0, even after the handles have wrapped.                               *)
GivenFresh ==
    \A l \in Launcher :
        making[l] # Nil =>
            /\ given[l] # 0
            /\ \A c \in Registered : handle[c] # given[l]
            /\ \A k \in Launcher \ {l} : given[k] # given[l]

(* assert(new_slot[hash] == NULL), skynet_handle.c:66: no two services meet  *)
(* in one slot when the table is expanded.                                   *)
ExpandAssert == ~aborted

(* The hash table and the sorted array implement HandleRegistry: grab and    *)
(* findname answer what was registered and named.                            *)
Registry == INSTANCE HandleRegistry WITH
    Handle <- 1..HandleMask,
    Name <- 1..NumName,
    owner <- [h \in 1..HandleMask |-> Grab(h)],
    named <- [n \in 1..NumName |-> FindName(n)]

ImplementsRegistry == Registry!RegistrySpec

=============================================================================
