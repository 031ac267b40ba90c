------------------------------ MODULE BowSpec -------------------------------
(***************************************************************************)
(* What a checkpoint on a dm-bow device promises: the blocks change while  *)
(* it is active, and then, in one step, either all blocks that were in use *)
(* go back to what they were, or all of them keep what was written.        *)
(***************************************************************************)
CONSTANTS Blocks, InUse

VARIABLES
  view,     \* view[b]: the contents of b are "old", "new" or, if unused, "lost"
  settled   \* the checkpoint is over

Init == view = [b \in Blocks |-> "old"] /\ settled = FALSE

Write(S) ==
  /\ ~settled /\ settled' = FALSE
  /\ view' = [b \in Blocks |-> IF b \in S THEN "new" ELSE view[b]]

GoBack == \A b \in InUse : view'[b] = "old"
Keep == \A b \in Blocks : b \in InUse \/ view[b] = "new" => view'[b] = view[b]

Settle ==
  /\ ~settled /\ settled' = TRUE
  /\ view' \in [Blocks -> {"old", "new", "lost"}]
  /\ GoBack \/ Keep

Next == Settle \/ \E S \in SUBSET Blocks : Write(S)

Spec == Init /\ [][Next]_<<view, settled>>
=============================================================================
