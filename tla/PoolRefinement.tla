---------------------------- MODULE PoolRefinement ----------------------------
(***************************************************************************)
(* DbMySQLPool implements PoolOwnership: the list is the set of idle       *)
(* connections, the owner is the thread that was handed the connection.    *)
(***************************************************************************)
EXTENDS DbMySQLPool

idleOf == Range(m_clsStandByList)

ownerOf ==
    [c \in Conns |-> IF \E t \in Threads : c \in held[t]
                       THEN CHOOSE t \in Threads : c \in held[t]
                       ELSE NULL]

Abstract == INSTANCE PoolOwnership WITH idle <- idleOf, owner <- ownerOf

\* Every step of the pool hands out, takes back, adds or discards as the
\* abstract pool allows, or leaves the ownership as it is.
ImplementsOwnership == Abstract!Spec
=============================================================================
