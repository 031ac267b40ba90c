---------------------------- MODULE MCBowRestore ----------------------------
(* Instances of BowRestore for TLC. *)
EXTENDS BowRestore
=============================================================================
