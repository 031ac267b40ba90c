--------------------------- MODULE MCUserStorage ---------------------------
(* The instance of UserStorage for TLC: the system user and one more. *)
EXTENDS UserStorage

\* Keys, secdiscardables and failures are counted, so the state space is finite.
MCUsers == {0, 10}
MCVolUsers == {10}
=============================================================================
