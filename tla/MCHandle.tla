------------------------------ MODULE MCHandle ------------------------------
(* Instances of SkynetHandle for TLC.  Contexts, and launching threads, are  *)
(* interchangeable.                                                          *)
EXTENDS SkynetHandle, TLC

Alike == Permutations(Ctx) \cup Permutations(Launcher)
=============================================================================
