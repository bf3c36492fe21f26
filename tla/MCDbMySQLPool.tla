----------------------------- MODULE MCDbMySQLPool -----------------------------
EXTENDS PoolRefinement

CONSTANTS c1, c2, m1, m2, k1, k2, k3    \* model values
=============================================================================
