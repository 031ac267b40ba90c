----------------------------- MODULE MCUserKeys -----------------------------
(* Instances of UserKeys for TLC. *)
EXTENDS UserKeys
=============================================================================
