------------------------------ MODULE MCSocket ------------------------------
(* An instance of SocketServer for TLC: two connections in the slot, the     *)
(* owner sends two packets, another service one.                             *)
EXTENDS SocketInv, TLC

CONSTANTS gate, role

Services == {gate, role}
Sent == gate :> 2 @@ role :> 1
=============================================================================
