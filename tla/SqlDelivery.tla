------------------------------ MODULE SqlDelivery ------------------------------
(***************************************************************************)
(* What the SQL queue and the SQL threads promise together: a statement    *)
(* that was accepted waits behind those accepted before it, is taken once, *)
(* by whoever takes the first that waits, and once that one is done with   *)
(* it, is never seen again.  DbMySQLQueue implements the part up to the    *)
(* taking (QueueRefinement), DbMySQLThread all of it (ThreadRefinement).   *)
(***************************************************************************)
EXTENDS Sequences

CONSTANT Sqls       \* the statements, each accepted at most once

VARIABLES
    waiting,    \* statements in the order in which they were accepted
    working,    \* statements somebody has taken
    done        \* statements nobody has to do with any more

vars == <<waiting, working, done>>

Init == waiting = <<>> /\ working = {} /\ done = {}

Put(s) ==
    /\ s \notin {waiting[k] : k \in DOMAIN waiting} \cup working \cup done
    /\ waiting' = Append(waiting, s)
    /\ UNCHANGED <<working, done>>

Take ==
    /\ waiting # <<>>
    /\ waiting' = Tail(waiting)
    /\ working' = working \cup {Head(waiting)}
    /\ UNCHANGED done

Finish(s) ==
    /\ s \in working
    /\ working' = working \ {s}
    /\ done' = done \cup {s}
    /\ UNCHANGED waiting

Next == Take \/ \E s \in Sqls : Put(s) \/ Finish(s)

Spec == Init /\ [][Next]_vars
=============================================================================
