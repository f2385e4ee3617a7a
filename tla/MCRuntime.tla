----------------------------- MODULE MCRuntime ------------------------------
(* Instances of Runtime for TLC: of the two workers one takes one message of *)
(* a queue at a time (weight -1), the other the whole queue (weight 0).      *)
EXTENDS RuntimeInv, TLC

CONSTANTS w1, w2

Weights == w1 :> -1 @@ w2 :> 0

Alike == Permutations(Svc \ {Boot})
=============================================================================
