---------------------------- MODULE ThreadRefinement ----------------------------
(***************************************************************************)
(* DbMySQLThread implements SqlDelivery: the list of the queue is what      *)
(* waits, an SQL thread works on the statement in its clsData, and done is  *)
(* what a thread executed or dropped.                                       *)
(***************************************************************************)
EXTENDS DbMySQLThread

waitingOf == [k \in DOMAIN m_clsList |-> m_clsList[k].n]

Abstract == INSTANCE SqlDelivery WITH
                Sqls <- 1..MaxInserts,
                waiting <- waitingOf, working <- WithThread, done <- Ended

\* However many SQL threads start, stop and fail to start, each statement is taken by
\* one of them, in the order of the inserts, and is executed or dropped once: none
\* goes back, is taken again or disappears (DbMySQLThread.cpp:66).
ImplementsDelivery == Abstract!Spec
=============================================================================
