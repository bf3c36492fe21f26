---------------------------- MODULE QueueRefinement ----------------------------
(***************************************************************************)
(* DbMySQLQueue implements SqlDelivery as far as the queue goes: its list   *)
(* is what waits, and what Select returned is with those who called it.    *)
(***************************************************************************)
EXTENDS DbMySQLQueue

Abstract == INSTANCE SqlDelivery WITH
                Sqls <- 1..MaxInserts,
                waiting <- m_clsList, working <- Range(taken), done <- {}

\* Whatever steps of other calls come between those of an Insert or a Select, a
\* statement is put behind all others once and the first is taken once: the calls
\* are one step each for those who use the queue (DbMySQLQueue.cpp:39, 77, 131).
ImplementsDelivery == Abstract!Spec
=============================================================================
