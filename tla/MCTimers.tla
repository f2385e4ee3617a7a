------------------------------ MODULE MCTimers ------------------------------
(* The instance of LuaTimers for TLC: the wheel has a near list of 4 and one *)
(* level of 2 above it, so that the counter of ticks wraps after 8.          *)
EXTENDS LuaTimers
=============================================================================
