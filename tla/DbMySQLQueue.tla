----------------------------- MODULE DbMySQLQueue -----------------------------
(***************************************************************************)
(* CDbMySQLQueue (DbMySQLPool/DbMySQLQueue.cpp): a queue of SQL statements *)
(* between the threads of a program, with a condition variable             *)
(* (CSipMutexSignal, SipPlatform/SipMutex.cpp).  An SQL statement is the   *)
(* number of the Insert that brought it: 1, 2, 3, ...                      *)
(*                                                                         *)
(* Granularity.  m_iMaxSize is written without the mutex, so the two reads *)
(* of it in Insert are two steps; Signal broadcasts without the mutex, so  *)
(* the test for an empty list and the wait in Select are two steps.        *)
(***************************************************************************)
EXTENDS Integers, Sequences, Functions

CONSTANTS
    Producers, Consumers,   \* threads that insert, threads that select
    Nobody,                 \* the owner of a free mutex
    StartLimits,            \* values of m_iMaxSize before the threads run
    LaterLimits,            \* values SetMaxSize may be called with afterwards
    MaxInserts              \* bound: calls of Insert

ASSUME QueueAssumption ==
    /\ Nobody \notin Producers \cup Consumers
    /\ Producers \cap Consumers = {}
    /\ StartLimits \subseteq Int
    /\ LaterLimits \subseteq Int
    /\ Consumers # {}
    /\ MaxInserts \in Nat

VARIABLES
    m_clsList,      \* the queue
    m_iMaxSize,     \* its limit, 0 is "no limit"
    m_clsMutex,     \* owner of the mutex, or Nobody
    pc,             \* where each thread is
    limited,        \* the producer saw m_iMaxSize # 0 (line 47, 102)
    count,          \* calls of Insert so far
    accepted,       \* history: statements Insert returned true for, in order
    taken           \* history: statements Select returned, in order

history == <<count, accepted, taken>>
vars == <<m_clsList, m_iMaxSize, m_clsMutex, pc, limited, history>>

Threads == Producers \cup Consumers

TypeOK ==
    /\ m_clsList \in Seq(1..MaxInserts)
    /\ m_iMaxSize \in StartLimits \cup LaterLimits
    /\ m_clsMutex \in Threads \cup {Nobody}
    /\ pc \in [Threads -> {"idle", "insert", "empty", "waiting", "woken"}]
    /\ limited \in [Producers -> BOOLEAN]
    /\ count \in 0..MaxInserts
    /\ accepted \in Seq(1..MaxInserts)
    /\ taken \in Seq(1..MaxInserts)

Init ==
    /\ m_clsList = <<>>
    /\ m_iMaxSize \in StartLimits
    /\ m_clsMutex = Nobody
    /\ pc = [t \in Threads |-> "idle"]
    /\ limited = [p \in Producers |-> FALSE]
    /\ count = 0
    /\ accepted = <<>>
    /\ taken = <<>>

Goto(t, label) == pc' = [pc EXCEPT ![t] = label]

-----------------------------------------------------------------------------
(* The condition variable of CSipMutexSignal                               *)

Asleep == {c \in Consumers : pc[c] = "waiting"}

\* pc after the sleepers in W were woken.
Woken(W, next) == [t \in Threads |-> IF t \in W THEN "woken" ELSE next[t]]

\* pthread_cond_signal wakes one sleeper if there is one.
signalled(next) ==
    IF Asleep = {} THEN {next} ELSE {Woken({c}, next) : c \in Asleep}

\* pthread_cond_wait may also return without a signal.
SpuriousWakeup(c) ==
    /\ pc[c] = "waiting"
    /\ Goto(c, "woken")
    /\ UNCHANGED <<m_clsList, m_iMaxSize, m_clsMutex, limited, history>>

\* Signal( ): broadcast, without the mutex.
Signal ==
    /\ pc' = Woken(Asleep, pc)
    /\ UNCHANGED <<m_clsList, m_iMaxSize, m_clsMutex, limited, history>>

SetMaxSize(iMaxSize) ==
    /\ m_iMaxSize' = iMaxSize
    /\ UNCHANGED <<m_clsList, m_clsMutex, pc, limited, history>>

-----------------------------------------------------------------------------
(* Insert( pszSQL ) and Insert( pszSQL, iArgCount, ... )                   *)

\* acquire, and the test m_iMaxSize != 0.  (With a NULL argument Insert has
\* returned false before it gets here.)
InsertBegin(p) ==
    /\ pc[p] = "idle"
    /\ count < MaxInserts
    /\ m_clsMutex' = p
    /\ limited' = [limited EXCEPT ![p] = m_iMaxSize # 0]
    /\ count' = count + 1
    /\ Goto(p, "insert")
    /\ UNCHANGED <<m_clsList, m_iMaxSize, accepted, taken>>

InsertLock(p) == m_clsMutex = Nobody /\ InsertBegin(p)

\* The second read of m_iMaxSize.
Full(p) == limited[p] /\ Len(m_clsList) >= m_iMaxSize

InsertDrop(p) ==
    /\ pc[p] = "insert"
    /\ Full(p)
    /\ m_clsMutex' = Nobody
    /\ Goto(p, "idle")
    /\ UNCHANGED <<m_clsList, m_iMaxSize, limited, history>>

\* push_back; a signal only when the queue was empty.
Accept(p, list, wakes) ==
    /\ pc[p] = "insert"
    /\ m_clsList' = list
    /\ accepted' = Append(accepted, count)
    /\ LET next == [pc EXCEPT ![p] = "idle"] IN
          pc' \in IF wakes THEN signalled(next) ELSE {next}
    /\ m_clsMutex' = Nobody
    /\ UNCHANGED <<m_iMaxSize, limited, count, taken>>

\* Mutants: the limit is not tested; push_front; signal() when size() is 2.
AcceptUnlimited(p) ==
    Accept(p, Append(m_clsList, count), Len(m_clsList) = 0)
AcceptInFront(p) ==
    ~Full(p) /\ Accept(p, <<count>> \o m_clsList, Len(m_clsList) = 0)
AcceptSilently(p) ==
    ~Full(p) /\ Accept(p, Append(m_clsList, count), Len(m_clsList) = 1)

InsertAccept(p) ==
    ~Full(p) /\ Accept(p, Append(m_clsList, count), Len(m_clsList) = 0)

-----------------------------------------------------------------------------
(* Select( clsData, bWait )                                                *)

PopFront(c) ==
    /\ m_clsList # <<>>
    /\ taken' = Append(taken, Head(m_clsList))
    /\ m_clsList' = Tail(m_clsList)
    /\ Goto(c, "idle")
    /\ UNCHANGED <<m_iMaxSize, m_clsMutex, limited, count, accepted>>

\* The whole call when the list is not empty.
SelectTake(c) == pc[c] = "idle" /\ m_clsMutex = Nobody /\ PopFront(c)

\* bWait and an empty list: the mutex is held, wait() comes next.  (Without
\* bWait the call returns false and changes nothing.)
SelectEmpty(c) ==
    /\ pc[c] = "idle"
    /\ m_clsMutex = Nobody
    /\ m_clsList = <<>>
    /\ m_clsMutex' = c
    /\ Goto(c, "empty")
    /\ UNCHANGED <<m_clsList, m_iMaxSize, limited, history>>

\* wait() releases the mutex and puts the thread to sleep in one step.
SelectWait(c) ==
    /\ pc[c] = "empty"
    /\ m_clsMutex' = Nobody
    /\ Goto(c, "waiting")
    /\ UNCHANGED <<m_clsList, m_iMaxSize, limited, history>>

\* wait() returned and owns the mutex again: take what there is, or return
\* false although bWait was set; the list is not waited for a second time.
SelectWoken(c) ==
    /\ pc[c] = "woken"
    /\ m_clsMutex = Nobody
    /\ IF m_clsList # <<>>
         THEN PopFront(c)
         ELSE /\ Goto(c, "idle")
              /\ UNCHANGED <<m_clsList, m_iMaxSize, m_clsMutex, limited, history>>

-----------------------------------------------------------------------------

Produce(p) == InsertLock(p) \/ InsertDrop(p) \/ InsertAccept(p)
Consume(c) == SelectTake(c) \/ SelectEmpty(c) \/ SelectWait(c) \/ SelectWoken(c)

Next ==
    \/ \E p \in Producers : Produce(p)
    \/ \E c \in Consumers : Consume(c) \/ SpuriousWakeup(c)
    \/ \E n \in LaterLimits : SetMaxSize(n)
    \/ Signal

Spec == Init /\ [][Next]_vars

\* A call that runs goes on; a thread that sleeps in wait() is not woken but by
\* a signal, and nobody is forced to call Select again.
CallsEnd ==
    /\ \A p \in Producers : WF_vars(InsertDrop(p) \/ InsertAccept(p))
    /\ \A c \in Consumers : WF_vars(SelectWait(c)) /\ WF_vars(SelectWoken(c))

\* Consumers that call Select( clsData, true ) in a loop.
ConsumersLoop == \A c \in Consumers : WF_vars(Consume(c))

LoopSpec == Spec /\ CallsEnd /\ ConsumersLoop

-----------------------------------------------------------------------------
(* Properties                                                              *)

\* Statements leave in the order in which Insert accepted them, each once, and
\* those not taken yet are in the queue.
Fifo == accepted = taken \o m_clsList

\* No sleeping beauty: when there is something to take, somebody is awake to
\* take it, although Insert signals only when the queue was empty.
SomebodyAwake ==
    m_clsList # <<>> => \E c \in Consumers : pc[c] # "waiting"

\* A consumer on its way into wait() knows the queue to be empty: no Insert can
\* come between its test and its sleep.
NoInsertBeforeSleep ==
    \A c \in Consumers : pc[c] = "empty" => m_clsList = <<>> /\ m_clsMutex = c

\* With a limit set before the threads run, the queue never exceeds it.
LimitRespected == m_iMaxSize # 0 => Len(m_clsList) <= m_iMaxSize

\* Consumers in a loop take every accepted statement.
AllTaken ==
    \A n \in 1..MaxInserts : (n \in Range(m_clsList)) ~> (n \in Range(taken))
=============================================================================
