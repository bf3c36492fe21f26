---------------------------- MODULE MCDbMySQLThread ----------------------------
EXTENDS ThreadRefinement

CONSTANTS p1, t1, t2    \* model values
=============================================================================
