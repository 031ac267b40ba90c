-------------------------- MODULE MCMetadataCrypt --------------------------
(* Instances of MetadataCrypt for TLC: two ext4 whose last group is short, with first data *)
(* blocks 0 and 1 and a group with an uninitialized bitmap; an f2fs with a hole; data that *)
(* neither library knows.  The devices have old and new options, right and wrong ones.     *)
EXTENDS MetadataCrypt

G(uninit, super, bitmap) == [uninit |-> uninit, super |-> super, bitmap |-> bitmap]

MCLayouts ==
  {[type |-> "ext4", first |-> 0, per |-> 3, len |-> 5, desc |-> 1,
    groups |-> <<G(FALSE, TRUE, {0, 1, 2}), G(FALSE, FALSE, {1, 2})>>],
   [type |-> "ext4", first |-> 1, per |-> 3, len |-> 6, desc |-> 1,
    groups |-> <<G(FALSE, TRUE, {0, 1, 2}), G(TRUE, TRUE, {})>>],
   [type |-> "f2fs", used |-> {0, 1, 2, 5}],
   [type |-> "none"]}

MCDevice(version, options) ==
  [version |-> version, options |-> options, set_dun |-> FALSE, checkpoint_blk |-> FALSE,
   zoned |-> FALSE, delete_all |-> FALSE, dsu_is_host |-> FALSE]

MCDevices ==
  {MCDevice(2, "wrappedkey"), MCDevice(2, "unknown"),
   [MCDevice(1, "") EXCEPT !.delete_all = TRUE, !.dsu_is_host = TRUE],
   [MCDevice(1, "") EXCEPT !.checkpoint_blk = TRUE],
   [MCDevice(2, "cipher") EXCEPT !.zoned = TRUE]}
=============================================================================
