---------------------------- MODULE MCCheckpoint ----------------------------
(* Instances of Checkpoint for TLC. *)
EXTENDS Checkpoint

\* An A/B device whose health daemons commit when space runs low, and devices
\* without boot slots whose daemons commit, or abort, and whose userspace may
\* restart alone.
MCDevices == {[bootControl |-> TRUE, commitOnFull |-> TRUE, userspaceReboot |-> FALSE],
              [bootControl |-> FALSE, commitOnFull |-> TRUE, userspaceReboot |-> TRUE],
              [bootControl |-> FALSE, commitOnFull |-> FALSE, userspaceReboot |-> TRUE]}
=============================================================================
