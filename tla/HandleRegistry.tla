--------------------------- MODULE HandleRegistry ---------------------------
(* What the handle storage of the skynet core promises: a handle denotes at  *)
(* most one service, from its registration to its retirement, and a name     *)
(* denotes the handle it was given first, until that handle is retired.      *)
CONSTANTS Ctx, Handle, Name, Nil

VARIABLES
    owner,        \* the context a handle denotes, or Nil
    named         \* the handle a name denotes, or Nil

registryVars == <<owner, named>>

RegistryInit ==
    /\ owner = [h \in Handle |-> Nil]
    /\ named = [n \in Name |-> Nil]

Announce(h, c) ==
    /\ owner[h] = Nil
    /\ \A k \in Handle : owner[k] # c
    /\ owner' = [owner EXCEPT ![h] = c]
    /\ UNCHANGED named

Withdraw(h) ==
    /\ owner[h] # Nil
    /\ owner' = [owner EXCEPT ![h] = Nil]
    /\ named' = [n \in Name |-> IF named[n] = h THEN Nil ELSE named[n]]

Baptise(n, h) ==
    /\ named[n] = Nil
    /\ named' = [named EXCEPT ![n] = h]
    /\ UNCHANGED owner

RegistryNext ==
    \/ \E h \in Handle, c \in Ctx : Announce(h, c)
    \/ \E h \in Handle : Withdraw(h)
    \/ \E n \in Name, h \in Handle : Baptise(n, h)

RegistrySpec == RegistryInit /\ [][RegistryNext]_registryVars

=============================================================================
