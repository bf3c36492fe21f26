----------------------------- MODULE DbMySQLThread -----------------------------
(***************************************************************************)
(* The SQL threads (DbMySQLPool/DbMySQLThread.cpp): each takes statements  *)
(* from one queue and executes them on a connection of its own, until      *)
(* StopDbMySQLThread.                                                      *)
(*                                                                         *)
(* Granularity.  gbStopThread and giThreadCount are shared without a lock, *)
(* so every access is a step; ++ and -- of giThreadCount read and write    *)
(* under gclsMutex.  Insert and Select( , false ) of the queue are one     *)
(* step each (see DbMySQLQueue).                                           *)
(***************************************************************************)
EXTENDS Integers, Sequences, FiniteSets, Functions

CONSTANTS
    Programs,       \* threads of the program that start and stop SQL threads
    SqlThreads,     \* the threads that StartThread may create
    Nobody,
    MaxCount,       \* bound: iThreadCount of a StartDbMySQLThread
    MaxStarts,      \* bound: calls of StartDbMySQLThread
    MaxInserts      \* bound: statements inserted into the queue

ASSUME ThreadAssumption ==
    /\ Nobody \notin SqlThreads
    /\ IsFiniteSet(SqlThreads)
    /\ MaxCount \in Nat \ {0} /\ MaxStarts \in Nat /\ MaxInserts \in Nat

VARIABLES
    gbStopThread, gclsMutex, giThreadCount,
    m_clsList,      \* the queue
    pc,             \* where each SQL thread is
    iCount,         \* the value of giThreadCount it has read under the mutex
    clsData,        \* the statement it has taken, or None
    sp, left,       \* where each program thread is in StartDbMySQLThread; turns left
    single,         \* it is the StartDbMySQLThread that starts one thread
    result,         \* what its last StartDbMySQLThread returned
    failed,         \* history: whether that call met an error
    starts, inserts,    \* counters: calls and statements so far
    executed,       \* history: the statements sent to the server
    dropped         \*   and those an SQL thread is done with, not executed

queue == <<m_clsList, inserts>>
sqlThread == <<pc, iCount, clsData>>
program == <<sp, left, single, result, failed, starts>>
history == <<executed, dropped>>
vars == <<gbStopThread, gclsMutex, giThreadCount, queue, sqlThread, program, history>>

\* An SQL statement: its number, its arguments (m_clsArgList) and the
\* placeholders in its text.
Statement == [n : 1..MaxInserts, args : 0..1, params : 0..1]
None == [n |-> 0, args |-> 0, params |-> 0]

TypeOK ==
    /\ gbStopThread \in BOOLEAN
    /\ gclsMutex \in SqlThreads \cup {Nobody}
    /\ giThreadCount \in 0..Cardinality(SqlThreads)
    /\ m_clsList \in Seq(Statement)
    /\ pc \in [SqlThreads -> {"none", "spawned", "inc", "test", "select", "execute",
                              "close", "leave", "dec", "done"}]
    /\ iCount \in [SqlThreads -> 0..Cardinality(SqlThreads)]
    /\ clsData \in [SqlThreads -> Statement \cup {None}]
    /\ sp \in [Programs -> {"idle", "clear", "create", "error"}]
    /\ left \in [Programs -> 0..MaxCount] /\ single \in [Programs -> BOOLEAN]
    /\ result \in [Programs -> BOOLEAN] /\ failed \in [Programs -> BOOLEAN]
    /\ starts \in 0..MaxStarts /\ inserts \in 0..MaxInserts
    /\ executed \subseteq Statement /\ dropped \subseteq Statement

Init ==
    /\ gbStopThread = FALSE /\ gclsMutex = Nobody /\ giThreadCount = 0
    /\ m_clsList = <<>>
    /\ pc = [t \in SqlThreads |-> "none"]
    /\ iCount = [t \in SqlThreads |-> 0]
    /\ clsData = [t \in SqlThreads |-> None]
    /\ sp = [p \in Programs |-> "idle"]
    /\ left = [p \in Programs |-> 0] /\ single = [p \in Programs |-> FALSE]
    /\ result = [p \in Programs |-> TRUE] /\ failed = [p \in Programs |-> FALSE]
    /\ starts = 0 /\ inserts = 0
    /\ executed = {} /\ dropped = {}

Goto(t, label) == pc' = [pc EXCEPT ![t] = label]
ProgramGoto(p, label) == sp' = [sp EXCEPT ![p] = label]

-----------------------------------------------------------------------------
(* StartDbMySQLThread( iThreadCount, ... ) and StopDbMySQLThread( )        *)

StartTurns(p, iThreadCount, alone) ==
    /\ sp[p] = "idle"
    /\ starts < MaxStarts
    /\ starts' = starts + 1
    /\ left' = [left EXCEPT ![p] = iThreadCount]
    /\ single' = [single EXCEPT ![p] = alone]
    /\ failed' = [failed EXCEPT ![p] = FALSE]
    /\ ProgramGoto(p, "clear")
    /\ UNCHANGED <<gbStopThread, gclsMutex, giThreadCount, queue, sqlThread, result, history>>

\* StartDbMySQLThread( iThreadCount, ... ): a count below 1 starts nothing and
\* returns true.  Each turn makes a connection (whether it connects is not
\* looked at) and calls the other StartDbMySQLThread.
Start(p, iThreadCount) == StartTurns(p, iThreadCount, FALSE)

\* StartDbMySQLThread( pclsDbConn, ... ), called by the program itself.
StartOne(p) == StartTurns(p, 1, TRUE)

ClearStop(p) ==
    /\ sp[p] = "clear"
    /\ gbStopThread' = FALSE
    /\ ProgramGoto(p, "create")
    /\ UNCHANGED <<gclsMutex, giThreadCount, queue, sqlThread, left, single, result,
                   failed, starts, history>>

\* pthread_create succeeds: the next turn, or true after the last.
CreateThread(p) ==
    /\ sp[p] = "create"
    /\ \E t \in SqlThreads : pc[t] = "none" /\ Goto(t, "spawned")
    /\ left' = [left EXCEPT ![p] = @ - 1]
    /\ IF left[p] > 1
         THEN ProgramGoto(p, "clear") /\ UNCHANGED result
         ELSE ProgramGoto(p, "idle") /\ result' = [result EXCEPT ![p] = TRUE]
    /\ UNCHANGED <<gbStopThread, gclsMutex, giThreadCount, queue, iCount, clsData,
                   single, failed, starts, history>>

\* It fails: false for one thread; with a count the loop is left.
CreateFails(p) ==
    /\ sp[p] = "create"
    /\ failed' = [failed EXCEPT ![p] = TRUE]
    /\ IF single[p]
         THEN ProgramGoto(p, "idle") /\ result' = [result EXCEPT ![p] = FALSE]
         ELSE ProgramGoto(p, "error") /\ UNCHANGED result
    /\ UNCHANGED <<gbStopThread, gclsMutex, giThreadCount, queue, sqlThread, left,
                   single, starts, history>>

GiveUpWith(p, stop) ==
    /\ sp[p] = "error"
    /\ gbStopThread' = stop
    /\ result' = [result EXCEPT ![p] = TRUE]
    /\ ProgramGoto(p, "idle")
    /\ UNCHANGED <<gclsMutex, giThreadCount, queue, sqlThread, left, single, failed,
                   starts, history>>

\* Mutant: the threads created before the failure keep running.
GiveUpOnly(p) == GiveUpWith(p, gbStopThread)

\* The threads created before the failure are told to stop; true is returned.
GiveUp(p) == GiveUpWith(p, TRUE)

\* StopDbMySQLThread( ), by any thread at any time.
Stop ==
    /\ gbStopThread' = TRUE
    /\ UNCHANGED <<gclsMutex, giThreadCount, queue, sqlThread, program, history>>

\* CDbMySQLQueue::Insert( sql ) and Insert( sql, n, ... ), by any thread.
Insert(args, params) ==
    /\ inserts < MaxInserts
    /\ inserts' = inserts + 1
    /\ m_clsList' = Append(m_clsList, [n |-> inserts', args |-> args, params |-> params])
    /\ UNCHANGED <<gbStopThread, gclsMutex, giThreadCount, sqlThread, program, history>>

-----------------------------------------------------------------------------
(* DbMySQLThread( )                                                        *)

ReadCountStep(t) ==
    /\ \/ pc[t] = "spawned" /\ Goto(t, "inc")
       \/ pc[t] = "leave" /\ Goto(t, "dec")
    /\ gclsMutex' = t
    /\ iCount' = [iCount EXCEPT ![t] = giThreadCount]
    /\ UNCHANGED <<gbStopThread, giThreadCount, queue, clsData, program, history>>

\* Mutant: giThreadCount is changed without gclsMutex.
ReadCountUnlocked(t) == ReadCountStep(t)

\* acquire, and the read half of ++ (at the start) or -- (at the end).
ReadCount(t) == gclsMutex = Nobody /\ ReadCountStep(t)

\* The write half, and release.
WriteCount(t) ==
    /\ \/ pc[t] = "inc" /\ giThreadCount' = iCount[t] + 1 /\ Goto(t, "test")
       \/ pc[t] = "dec" /\ giThreadCount' = iCount[t] - 1 /\ Goto(t, "done")
    /\ gclsMutex' = Nobody
    /\ UNCHANGED <<gbStopThread, queue, iCount, clsData, program, history>>

\* The while condition.
TestStop(t) ==
    /\ pc[t] = "test"
    /\ Goto(t, IF gbStopThread THEN "close" ELSE "select")
    /\ UNCHANGED <<gbStopThread, gclsMutex, giThreadCount, queue, iCount, clsData,
                   program, history>>

Take(t, rest) ==
    /\ pc[t] = "select"
    /\ m_clsList # <<>>
    /\ clsData' = [clsData EXCEPT ![t] = Head(m_clsList)]
    /\ m_clsList' = rest
    /\ Goto(t, "execute")
    /\ UNCHANGED <<gbStopThread, gclsMutex, giThreadCount, inserts, iCount, program, history>>

\* Mutant: the statement is not removed from the queue.
PeekSql(t) == Take(t, m_clsList)

\* Select( clsData, false ) finds a statement ...
TakeSql(t) == Take(t, Tail(m_clsList))

FindNothing(t, next) ==
    /\ pc[t] = "select"
    /\ m_clsList = <<>>
    /\ Goto(t, next)
    /\ UNCHANGED <<gbStopThread, gclsMutex, giThreadCount, queue, iCount, clsData,
                   program, history>>

\* Mutant: the thread ends when there is nothing to do.
LeaveWhenEmpty(t) == FindNothing(t, "close")

\* ... or none, and the thread sleeps 20 ms.
Sleep(t) == FindNothing(t, "test")

\* Execute of the connection, on a server that does not fail.  A statement
\* without arguments is passed on as Execute( sql, true ), and that is
\* Execute( sql, iArgCount = 1, ... ): one argument is bound, whatever va_arg
\* reads, or refused when it reads NULL.  An argument that has no placeholder is
\* refused by Bind, and a statement with a refused argument is not executed.
Outcomes(data) ==
    IF data.args = 0
      THEN IF data.params = 0 THEN {FALSE} ELSE BOOLEAN
      ELSE {data.args <= data.params}

Execute(t) ==
    /\ pc[t] = "execute"
    /\ \E done \in Outcomes(clsData[t]) :
          IF done
            THEN executed' = executed \cup {clsData[t]} /\ UNCHANGED dropped
            ELSE dropped' = dropped \cup {clsData[t]} /\ UNCHANGED executed
    /\ clsData' = [clsData EXCEPT ![t] = None]
    /\ Goto(t, "test")
    /\ UNCHANGED <<gbStopThread, gclsMutex, giThreadCount, queue, iCount, program>>

\* The thread closes and deletes its connection.
CloseConnection(t) ==
    /\ pc[t] = "close"
    /\ Goto(t, "leave")
    /\ UNCHANGED <<gbStopThread, gclsMutex, giThreadCount, queue, iCount, clsData,
                   program, history>>

-----------------------------------------------------------------------------

SqlStep(t) ==
    \/ ReadCount(t) \/ WriteCount(t) \/ TestStop(t) \/ TakeSql(t) \/ Sleep(t)
    \/ Execute(t) \/ CloseConnection(t)

ProgramStep(p) == ClearStop(p) \/ CreateThread(p) \/ CreateFails(p) \/ GiveUp(p)

Next ==
    \/ \E t \in SqlThreads : SqlStep(t)
    \/ \E p \in Programs :
          ProgramStep(p) \/ StartOne(p) \/ \E n \in 1..MaxCount : Start(p, n)
    \/ Stop
    \/ \E args, params \in 0..1 : Insert(args, params)

Spec == Init /\ [][Next]_vars

\* The operating system runs every thread.  A thread that waits for gclsMutex
\* meets every other thread there at most twice, so weak fairness is enough.
FairSpec ==
    /\ Spec
    /\ \A t \in SqlThreads : WF_vars(SqlStep(t))
    /\ \A p \in Programs : WF_vars(ProgramStep(p))

-----------------------------------------------------------------------------
(* Properties                                                              *)

\* No update of giThreadCount is lost: it is the number of SQL threads between
\* their ++ and their --.
Counted == {t \in SqlThreads : pc[t] \in {"test", "select", "execute", "close", "leave", "dec"}}
CountExact == giThreadCount = Cardinality(Counted)

\* Each statement is in one place: in the queue, with one SQL thread, executed
\* or dropped; none is taken twice or disappears.
InQueue == {m_clsList[k].n : k \in DOMAIN m_clsList}
WithThread == {clsData[t].n : t \in SqlThreads} \ {0}
Ended == {s.n : s \in executed \cup dropped}
OnePlace ==
    /\ InQueue \cup WithThread \cup Ended = 1..inserts
    /\ Len(m_clsList) + Cardinality(WithThread) + Cardinality(Ended) = inserts
    /\ \A t, u \in SqlThreads : t # u /\ clsData[t] = clsData[u] => clsData[t] = None

\* A stop, or a StartDbMySQLThread that failed half way, that no later start takes
\* back ends every SQL thread.
Ends(t) == pc[t] \in {"none", "done"}
StopEnds ==
    (<>[](/\ gbStopThread \/ \E p \in Programs : failed[p] /\ ~single[p]
          /\ \A p \in Programs : sp[p] = "idle"))
        => <>[](\A t \in SqlThreads : Ends(t))

\* While SQL threads run and are not stopped, every statement is dealt with.
QueueServed ==
    ([]~gbStopThread /\ <>(\E t \in SqlThreads : pc[t] # "none"))
        => [](m_clsList # <<>> => <>(m_clsList = <<>>))

\* DbMySQLConnection.cpp:636 says Execute carries out the statement: none that
\* has an argument for each placeholder is dropped.
NoneDropped == \A s \in dropped : s.args # s.params
=============================================================================
