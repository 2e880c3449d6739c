------------------------------ MODULE MCBridge ------------------------------
(* Instances of Bridge for TLC: calls are told apart by their order, so     *)
(* there is no symmetry.                                                   *)
EXTENDS Bridge
=============================================================================
