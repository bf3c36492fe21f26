----------------------------- MODULE DbMySQLPool -----------------------------
(***************************************************************************)
(* CDbMySQLPool (DbMySQLPool/DbMySQLPool.cpp): a pool of MySQL connections *)
(* shared by the threads of a program.                                     *)
(*                                                                         *)
(* Granularity.  A critical section of m_clsMutex that calls nothing slow  *)
(* is one step, possible only while nobody holds the mutex.  Create keeps  *)
(* the mutex while it connects to the server, so its section is several    *)
(* steps.  m_bDestroy is read and written WITHOUT the mutex, so each access *)
(* to it is a step of its own.                                             *)
(***************************************************************************)
EXTENDS Integers, Sequences, FiniteSets, Functions

CONSTANTS
    Threads,        \* threads of the program
    Clients,        \* those that select and release connections
    Managers,       \* those that create and destroy the pool
    Conns,          \* addresses of CDbMySQLConnection objects
    NULL,           \* "no thread" and "no connection"
    MaxPoolCount,   \* bound: largest iPoolCount of a Create
    MaxTries,       \* polls of Destroy before it gives up (500 in the code)
    MaxHeld         \* bound: connections one thread may hold at a time

ASSUME PoolAssumption ==
    /\ Clients \subseteq Threads
    /\ Managers \subseteq Threads
    /\ NULL \notin Threads \cup Conns
    /\ MaxPoolCount \in Nat
    /\ MaxTries \in Nat \ {0}
    /\ MaxHeld \in Nat

VARIABLES
    m_bDestroy,
    m_clsMutex,         \* the thread inside Create's critical section, or NULL
    m_clsStandByList,   \* idle connections, the head is handed out next
    m_clsUseMap,        \* connections handed out
    alive,              \* CDbMySQLConnection objects allocated, not deleted
    leaked,             \* objects whose Connect failed in Create
    pc,                 \* where each thread is in its call of the pool
    call,               \* which kind of Select a thread is in
    i,                  \* the loop counter of Create and of Destroy
    held,               \* the connections each thread was handed
    auto                \* m_pclsData of the thread's CAutoRelease, or NULL

pool == <<m_bDestroy, m_clsMutex, m_clsStandByList, m_clsUseMap>>
heap == <<alive, leaked>>
thread == <<pc, call, i, held, auto>>
vars == <<pool, heap, thread>>

Kinds == {"try", "wait", "auto"}    \* Select(p,false), Select(p,true), Execute...

PC == {"idle",
       "connect", "createError", "destroy", "poll", "close", "end",
       "loop", "lock", "running"}

TypeOK ==
    /\ m_bDestroy \in BOOLEAN
    /\ m_clsMutex \in Threads \cup {NULL}
    /\ m_clsStandByList \in Seq(Conns)
    /\ m_clsUseMap \subseteq Conns
    /\ alive \subseteq Conns
    /\ leaked \subseteq Conns
    /\ pc \in [Threads -> PC]
    /\ call \in [Threads -> Kinds]
    /\ i \in [Threads -> Nat]
    /\ held \in [Threads -> SUBSET Conns]
    /\ auto \in [Threads -> Conns \cup {NULL}]

Init ==
    /\ m_bDestroy = FALSE
    /\ m_clsMutex = NULL
    /\ m_clsStandByList = <<>>
    /\ m_clsUseMap = {}
    /\ alive = {}
    /\ leaked = {}
    /\ pc = [t \in Threads |-> "idle"]
    /\ call = [t \in Threads |-> "try"]
    /\ i = [t \in Threads |-> 0]
    /\ held = [t \in Threads |-> {}]
    /\ auto = [t \in Threads |-> NULL]

Goto(t, label) == pc' = [pc EXCEPT ![t] = label]
Unlocked == m_clsMutex = NULL

-----------------------------------------------------------------------------
(* Create( iPoolCount, ... )                                               *)

\* Line 48 refuses a count below 1 and changes nothing.  The second conjunct
\* bounds the model: there are addresses left for the objects to allocate.
Create(t, iPoolCount) ==
    /\ t \in Managers
    /\ pc[t] = "idle"
    /\ Cardinality(Conns \ alive) >= iPoolCount
    /\ Unlocked
    /\ m_clsMutex' = t
    /\ i' = [i EXCEPT ![t] = iPoolCount]
    /\ Goto(t, "connect")
    /\ UNCHANGED <<m_bDestroy, m_clsStandByList, m_clsUseMap, heap, call, held, auto>>

\* One turn of the loop: new, setters, Connect succeeds, push_back.
CreateTurn(t) ==
    /\ pc[t] = "connect"
    /\ \E c \in Conns \ alive :
          /\ alive' = alive \cup {c}
          /\ m_clsStandByList' = Append(m_clsStandByList, c)
    /\ i' = [i EXCEPT ![t] = @ - 1]
    /\ UNCHANGED <<m_bDestroy, m_clsMutex, m_clsUseMap, leaked, pc, call, held, auto>>

CreateConnect(t) == i[t] > 0 /\ CreateTurn(t)

\* Connect fails: the loop breaks, nobody keeps the address of the new object.
CreateConnectFails(t) ==
    /\ pc[t] = "connect"
    /\ i[t] > 0
    /\ \E c \in Conns \ alive :
          /\ alive' = alive \cup {c}
          /\ leaked' = leaked \cup {c}
    /\ Goto(t, "createError")
    /\ UNCHANGED <<pool, call, i, held, auto>>

\* The mutex is released; on an error Destroy runs next, as a call of its own.
CreateRelease(t) ==
    /\ \/ pc[t] = "connect" /\ i[t] = 0 /\ Goto(t, "idle")
       \/ pc[t] = "createError" /\ Goto(t, "destroy")
    /\ m_clsMutex' = NULL
    /\ UNCHANGED <<m_bDestroy, m_clsStandByList, m_clsUseMap, heap, call, i, held, auto>>

-----------------------------------------------------------------------------
(* Destroy( )                                                              *)

\* Called by the program (also by the destructor) or by a Create that failed.
Destroy(t) ==
    /\ \/ t \in Managers /\ pc[t] = "idle"
       \/ pc[t] = "destroy"
    /\ m_bDestroy' = TRUE
    /\ i' = [i EXCEPT ![t] = 0]
    /\ Goto(t, "poll")
    /\ UNCHANGED <<m_clsMutex, m_clsStandByList, m_clsUseMap, heap, call, held, auto>>

\* Mutant: wait for the clients without a limit.
DestroyPollForever(t) ==
    /\ pc[t] = "poll"
    /\ Unlocked
    /\ IF m_clsUseMap = {} THEN Goto(t, "close") ELSE UNCHANGED pc
    /\ UNCHANGED <<pool, heap, call, i, held, auto>>

\* Leave the loop when nothing is in use, or after the last try.
DestroyPoll(t) ==
    /\ pc[t] = "poll"
    /\ Unlocked
    /\ IF m_clsUseMap = {}
         THEN Goto(t, "close") /\ UNCHANGED i
         ELSE /\ i' = [i EXCEPT ![t] = @ + 1]
              /\ Goto(t, IF i'[t] < MaxTries THEN "poll" ELSE "close")
    /\ UNCHANGED <<pool, heap, call, held, auto>>

\* Close and delete connections, empty the idle list.
Discard(t, dead) ==
    /\ pc[t] = "close"
    /\ Unlocked
    /\ alive' = alive \ dead
    /\ m_clsStandByList' = <<>>
    /\ Goto(t, "end")
    /\ UNCHANGED <<m_bDestroy, m_clsMutex, m_clsUseMap, leaked, call, i, held, auto>>

\* Mutants: delete what is still in use as well; clear the list, delete nothing.
DestroyCloseAll(t) == Discard(t, Range(m_clsStandByList) \cup m_clsUseMap)
DestroyClearOnly(t) == Discard(t, {})

\* What is idle is deleted; what is in use stays in m_clsUseMap.
DestroyClose(t) == Discard(t, Range(m_clsStandByList))

DestroyEnd(t) ==
    /\ pc[t] = "end"
    /\ m_bDestroy' = FALSE
    /\ Goto(t, "idle")
    /\ UNCHANGED <<m_clsMutex, m_clsStandByList, m_clsUseMap, heap, call, i, held, auto>>

-----------------------------------------------------------------------------
(* Select( ppclsDbConn, bStandByUntilAvailable )                           *)

\* The first test of m_bDestroy (it returns false when set: no change).
\* Kind "auto" is Execute, Insert, Query or QueryOne of the pool: Select(true)
\* into a CAutoRelease, then the statement on the connection.
Select(t, kind) ==
    /\ t \in Clients
    /\ pc[t] = "idle"
    /\ Cardinality(held[t]) < MaxHeld
    /\ ~m_bDestroy
    /\ call' = [call EXCEPT ![t] = kind]
    /\ Goto(t, "loop")
    /\ UNCHANGED <<pool, heap, i, held, auto>>

\* The while condition, read without the mutex.
SelectLoop(t) ==
    /\ pc[t] = "loop"
    /\ Goto(t, IF m_bDestroy THEN "idle" ELSE "lock")
    /\ UNCHANGED <<pool, heap, call, i, held, auto>>

\* The critical section with an idle connection at hand: the first of the list
\* goes to t, "rest" stays in the list.  In a pool statement it goes to the
\* CAutoRelease of that statement.
HandOver(t, rest, scoped) ==
    /\ pc[t] = "lock"
    /\ Unlocked
    /\ m_clsStandByList # <<>>
    /\ LET c == Head(m_clsStandByList) IN
          /\ m_clsUseMap' = m_clsUseMap \cup {c}
          /\ held' = [held EXCEPT ![t] = @ \cup {c}]
          /\ auto' = IF scoped THEN [auto EXCEPT ![t] = c] ELSE auto
    /\ m_clsStandByList' = rest
    /\ Goto(t, IF call[t] = "auto" THEN "running" ELSE "idle")
    /\ UNCHANGED <<m_bDestroy, m_clsMutex, heap, call, i>>

\* Mutant: pop_front forgotten.
TakeWithoutPop(t) == HandOver(t, m_clsStandByList, call[t] = "auto")

SelectTake(t) == HandOver(t, Tail(m_clsStandByList), call[t] = "auto")

\* The critical section with none: return false, or sleep 20 ms and loop.
SelectNone(t) ==
    /\ pc[t] = "lock"
    /\ Unlocked
    /\ m_clsStandByList = <<>>
    /\ Goto(t, IF call[t] = "try" THEN "idle" ELSE "loop")
    /\ UNCHANGED <<pool, heap, call, i, held, auto>>

-----------------------------------------------------------------------------
(* Release( pclsDbConn )                                                   *)

\* Mutants: push_back whatever the caller passes; push_front for push_back.
PutBackAlways(c) ==
    /\ m_clsUseMap' = m_clsUseMap \ {c}
    /\ m_clsStandByList' = Append(m_clsStandByList, c)

PutBackInFront(c) ==
    IF c \in m_clsUseMap
      THEN /\ m_clsUseMap' = m_clsUseMap \ {c}
           /\ m_clsStandByList' = <<c>> \o m_clsStandByList
      ELSE UNCHANGED <<m_clsUseMap, m_clsStandByList>>

\* Only a connection that is in use goes back, to the end of the list.
PutBack(c) ==
    IF c \in m_clsUseMap
      THEN /\ m_clsUseMap' = m_clsUseMap \ {c}
           /\ m_clsStandByList' = Append(m_clsStandByList, c)
      ELSE UNCHANGED <<m_clsUseMap, m_clsStandByList>>

GiveBack(t, c) ==
    /\ Unlocked
    /\ PutBack(c)
    /\ held' = [held EXCEPT ![t] = @ \ {c}]
    /\ UNCHANGED <<m_bDestroy, m_clsMutex, heap, call, i>>

\* A client returns a connection it selected itself.
Release(t, c) ==
    /\ pc[t] = "idle"
    /\ c \in held[t]
    /\ GiveBack(t, c)
    /\ UNCHANGED <<pc, auto>>

\* A second Release, or one after Destroy deleted the connection: the address
\* is not in m_clsUseMap and nothing happens.  (A second Release of a
\* connection that another thread selected in between would take it away from
\* that thread; the clients of this model do not do that.)
ReleaseAgain(t, c) ==
    /\ t \in Clients
    /\ pc[t] = "idle"
    /\ c \notin m_clsUseMap
    /\ GiveBack(t, c)
    /\ UNCHANGED <<pc, auto>>

\* The statement is over: ~CAutoRelease returns its connection.
StatementEnd(t) ==
    /\ pc[t] = "running"
    /\ GiveBack(t, auto[t])
    /\ auto' = [auto EXCEPT ![t] = NULL]
    /\ Goto(t, "idle")

-----------------------------------------------------------------------------

\* The steps of a call already made; the program need never make another.
Step(t) ==
    \/ CreateConnect(t) \/ CreateConnectFails(t) \/ CreateRelease(t)
    \/ pc[t] = "destroy" /\ Destroy(t)
    \/ DestroyPoll(t) \/ DestroyClose(t) \/ DestroyEnd(t)
    \/ SelectLoop(t) \/ SelectTake(t) \/ SelectNone(t)
    \/ StatementEnd(t)

Call(t) ==
    \/ \E n \in 1..MaxPoolCount : Create(t, n)
    \/ pc[t] = "idle" /\ Destroy(t)
    \/ \E kind \in Kinds : Select(t, kind)
    \/ \E c \in held[t] : Release(t, c)
    \/ \E c \in Conns : ReleaseAgain(t, c)

Next == \E t \in Threads : Step(t) \/ Call(t)

Spec == Init /\ [][Next]_vars

\* A thread inside a call runs on: every loop of the pool sleeps and retries,
\* and every statement on the server ends (a connection has its timeouts).
FairSpec == Spec /\ \A t \in Threads : WF_vars(Step(t))

-----------------------------------------------------------------------------
(* Properties                                                              *)

\* The two containers and the threads agree on who has a connection: it is
\* queued at most once, never queued while in use, and used by one thread.
ExclusiveUse ==
    /\ IsInjective(m_clsStandByList)
    /\ Range(m_clsStandByList) \cap m_clsUseMap = {}
    /\ m_clsUseMap = UNION {held[t] : t \in Threads}
    /\ \A t, u \in Threads : t # u => held[t] \cap held[u] = {}

\* Whatever Destroy deletes, no thread is left with a deleted connection and
\* the list never offers one, even when Destroy gave up waiting.
NoDangling == Range(m_clsStandByList) \cup UNION {held[t] : t \in Threads} \subseteq alive

\* Every allocated object can still be reached through the pool, except those
\* whose Connect failed in Create.
Accounted == alive = Range(m_clsStandByList) \cup m_clsUseMap \cup leaked

\* A thread in a statement of the pool uses the connection its CAutoRelease
\* will give back; a CAutoRelease outlives no statement, so a connection that a
\* client selected itself is never given back behind its back.
ScopedConnection ==
    \A t \in Threads :
        IF pc[t] = "running" THEN auto[t] \in held[t] ELSE auto[t] = NULL

\* Destroy ends although clients may keep their connections for ever, since
\* it waits a bounded number of turns (DbMySQLPool.cpp:108).
DestroyEnds == \A t \in Threads : pc[t] \in {"destroy", "poll"} ~> pc[t] = "idle"

\* No idle connection is passed over for ever while threads wait in Select:
\* the list is used in rotation, from the front and to the back.
Waiting(t) == pc[t] \in {"loop", "lock"}
NoIdlePassedOver ==
    \A c \in Conns :
        []<>(c \notin Range(m_clsStandByList) \/ \A t \in Threads : ~Waiting(t))
=============================================================================
