----------------------------- MODULE MCSession ------------------------------
(* Instances of Session for TLC.  Connections are interchangeable, and so are *)
(* gates: no definition tells one from another.                               *)
EXTENDS SessionInv, TLC

Alike == Permutations(Conn) \cup Permutations(Gate)
=============================================================================
