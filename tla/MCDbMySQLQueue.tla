---------------------------- MODULE MCDbMySQLQueue ----------------------------
EXTENDS QueueRefinement

CONSTANTS p1, p2, c1, c2    \* model values
=============================================================================
