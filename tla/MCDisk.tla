------------------------------- MODULE MCDisk -------------------------------
(* The instance of Disk for TLC: two cards, with a file system and no table, with an MBR, *)
(* or with a GPT that has partitions of another system and a private one of another phone. *)
EXTENDS Disk

MCTables == {
  [kind |-> "none", parts |-> <<>>, fs |-> TRUE],
  [kind |-> "mbr", parts |-> <<Part("public", 0)>>, fs |-> FALSE],
  [kind |-> "gpt", parts |-> <<Part("other", 0), Part("public", 0), Part("expand", 0)>>,
   fs |-> FALSE] }

Symmetry == Permutations(Cards)
=============================================================================
