---------------------------- MODULE PoolOwnership ----------------------------
(***************************************************************************)
(* What a connection pool promises its clients: every connection object is *)
(* unknown to the pool, idle in it, or owned by exactly one thread; a      *)
(* thread gets a connection only out of the idle ones and only the owner   *)
(* gives it back; only idle connections are ever taken out of service.     *)
(* DbMySQLPool implements this specification (PoolRefinement).             *)
(***************************************************************************)
CONSTANTS Threads, Conns, NULL

VARIABLES
    idle,       \* connections the pool can hand out
    owner       \* the thread that owns each connection, or NULL

vars == <<idle, owner>>

Init == idle = {} /\ owner = [c \in Conns |-> NULL]

Add(c) ==
    /\ c \notin idle /\ owner[c] = NULL
    /\ idle' = idle \cup {c}
    /\ UNCHANGED owner

HandOut(t, c) ==
    /\ c \in idle
    /\ idle' = idle \ {c}
    /\ owner' = [owner EXCEPT ![c] = t]

Return(t, c) ==
    /\ owner[c] = t
    /\ idle' = idle \cup {c}
    /\ owner' = [owner EXCEPT ![c] = NULL]

Discard == idle' = {} /\ UNCHANGED owner

Next ==
    \/ \E c \in Conns : Add(c)
    \/ \E t \in Threads, c \in Conns : HandOut(t, c) \/ Return(t, c)
    \/ Discard

Spec == Init /\ [][Next]_vars
=============================================================================
