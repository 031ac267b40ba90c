---------------------------- MODULE MCIdleMaint -----------------------------
(* Instances of IdleMaint for TLC. *)
EXTENDS IdleMaint
=============================================================================
