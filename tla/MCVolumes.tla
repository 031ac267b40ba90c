----------------------------- MODULE MCVolumes ------------------------------
\* A card (blank, public, or with both volumes) and the virtual disk, adopted or not.
EXTENDS Volumes, TLC

CONSTANTS sd, virt

MCTables == (sd :> {{}, {"public"}, Kinds}) @@ (virt :> {{}, {"private"}})
=============================================================================
