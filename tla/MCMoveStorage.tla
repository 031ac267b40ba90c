--------------------------- MODULE MCMoveStorage ----------------------------
\* One card, adopted or blank.
EXTENDS MoveStorage, TLC

CONSTANT sd

MCTables == sd :> {{}, {"private"}}
=============================================================================
