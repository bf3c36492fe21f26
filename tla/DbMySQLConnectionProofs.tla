------------------------ MODULE DbMySQLConnectionProofs ------------------------
(***************************************************************************)
(* Proofs about DbMySQLConnection for statements with any number of        *)
(* placeholders and rows, and any number of calls and faults.              *)
(***************************************************************************)
EXTENDS DbMySQLConnection, SequenceTheorems, TLAPS

\* What the place a call has reached says of the session and the statement.
Control ==
    /\ pc = "connect" => ~m_bConnected /\ call.kind # "PrepareExecute"
    /\ pc \in {"query", "prepare", "bind", "execute", "rows"} => m_bConnected
    /\ pc = "query" => call.kind \in Texts
    /\ pc = "prepare" => call.kind \in Bounds \cup {"Prepare"} /\ m_psttStmt = NULL
    /\ pc = "bind" => call.kind \in Bounds
    /\ pc = "execute" => call.kind \in Bounds \cup {"PrepareExecute"}
    /\ pc \in {"bind", "execute"} => m_psttStmt # NULL
    /\ pc = "rows" => call.kind \in {"Query", "QueryOne", "QueryOneArg"}

\* An execution before the last try was one whose reply was lost, and the lost
\* reply took the session along.
Executing ==
    /\ pc = "connect" => /\ executions <= i
                         /\ call.kind \notin Texts => executions = 0
    /\ pc = "query" => executions <= i + one(~live)
    /\ pc \in {"connect", "query"} /\ executions > 0 => lostReply
    /\ pc \in {"prepare", "bind"} => executions = 0
    /\ pc = "execute" => executions <= one(~live)
    /\ pc = "rows" => executions > 0
    /\ pc = "bind" => m_iBindCount = call.params
    /\ pc = "execute" /\ call.kind \in Bounds => call.args <= call.params

\* A call during which the server did not fail has a live session as soon as it
\* has tried once, and has executed nothing before the end.
Undisturbed ==
    /\ pc # "idle" /\ ~disturbed =>
          /\ up
          /\ pc \in {"query", "prepare"} /\ i = 1 => live
          /\ pc \in {"bind", "rows"} \/ (pc = "execute" /\ call.kind \in Bounds) => live
          /\ executions = one(pc = "rows")
          /\ pc # "rows" \/ call.kind # "Query" => fetched = 0
    /\ pc \in {"bind", "execute"} /\ call.kind \in Bounds =>
          m_psttStmt.prepared /\ m_psttStmt.sql = call.sql

IInv ==
    /\ TypeOK
    /\ Control
    /\ NothingLeaked /\ StatementOfSession /\ BindInBounds
    /\ Executing /\ ExecutionsBounded /\ TrueMeansExecuted /\ SurplusRefused
    /\ Undisturbed /\ Recovers

\* The part of the invariant that is about the session and what hangs on it.
Resources == NothingLeaked /\ StatementOfSession /\ BindInBounds

\* What mysql_stmt_init returns is a statement, never NULL.
LEMMA PreparedStatement ==
    ASSUME TypeOK, NEW ok \in BOOLEAN
    PROVE  LET stmt == [session |-> m_sttMySQL, sql |-> call.sql,
                        params |-> call.params, prepared |-> ok]
           IN  stmt \in Statement /\ stmt # NULL
BY ConnectionAssumption DEF TypeOK, Statement, CallRecord

\* The bind list of a statement with n placeholders, added to an empty one.
LEMMA FreshBinds ==
    ASSUME NEW n \in Nat
    PROVE  /\ <<>> \o [k \in 1..n |-> FALSE] \in Seq(BOOLEAN)
           /\ Len(<<>> \o [k \in 1..n |-> FALSE]) = n
<1>1. [k \in 1..n |-> FALSE] \in Seq(BOOLEAN) /\ Len([k \in 1..n |-> FALSE]) = n
  OBVIOUS
<1> QED
  BY <1>1, ConcatEmptySeq

\* A bind list that was cleared.
LEMMA NoBinds == <<>> \in Seq(BOOLEAN) /\ Len(<<>>) = 0
BY EmptySeq

\* Binding arguments keeps the length of the bind list.
LEMMA BoundBinds ==
    ASSUME TypeOK
    PROVE  /\ Bound(call.args) \in Seq(BOOLEAN)
           /\ Len(Bound(call.args)) = Len(m_clsBindList)
<1>1. PICK n \in Nat : m_clsBindList \in [1..n -> BOOLEAN] /\ Len(m_clsBindList) = n
  BY LenProperties, SMT DEF TypeOK
<1>2. DOMAIN m_clsBindList = 1..n
  BY <1>1
<1>3. \A k \in 1..n : (k <= call.args \/ m_clsBindList[k]) \in BOOLEAN
  BY Zenon
<1>4. Bound(call.args) = [k \in 1..n |-> k <= call.args \/ m_clsBindList[k]]
  BY <1>2, Zenon DEF Bound
<1>5. Bound(call.args) \in [1..n -> BOOLEAN]
  BY <1>3, <1>4, Zenon
<1>6. \A list \in [1..n -> BOOLEAN] : list \in Seq(BOOLEAN) /\ Len(list) = n
  OBVIOUS
<1> QED
  BY <1>1, <1>5, <1>6

\* Every step leads a call where its session and statement allow it.
LEMMA ControlStep == IInv /\ [Next]_vars => Control'
<1> SUFFICES ASSUME IInv, [Next]_vars PROVE Control'
  OBVIOUS
<1> USE ConnectionAssumption
<1> USE DEF object, statement, server, history, control, one, IInv, Control, TypeOK,
            CallRecord, ProgramCalls, Texts, Bounds, Selects, Runs, Kinds
<1>1. ASSUME NEW c \in ProgramCalls, ConnectCall(c) PROVE Control'
  BY <1>1 DEF ConnectCall, NewCall
<1>2. ASSUME NEW c \in ProgramCalls, StatementCall(c) PROVE Control'
  BY <1>2 DEF StatementCall, NewCall, Start, PrepareClose, Clear
<1>3. ASSUME NEW c \in ProgramCalls, PrepareExecuteCall(c) PROVE Control'
  BY <1>3 DEF PrepareExecuteCall, NewCall, StatementOfSession
<1>4. CASE CloseCall
  BY <1>4 DEF CloseCall, Close, Disconnect, PrepareClose, Clear
<1>5. CASE PrepareCloseCall
  BY <1>5 DEF PrepareCloseCall, PrepareClose, Clear
<1>6. ASSUME NEW iIndex \in 0..(MaxParams - 1), Bind(iIndex) PROVE Control'
  BY <1>6 DEF Bind
<1>7. CASE ConnectOk
  BY <1>7 DEF ConnectOk, Start, Return, PrepareClose, Clear
<1>8. CASE ConnectFails
  BY <1>8 DEF ConnectFails, Return, PrepareClose, Clear
<1>9. CASE QueryOk
  BY <1>9 DEF QueryOk, UseResult, Return, Goto
<1>10. CASE QueryError
  BY <1>10 DEF QueryError, Return
<1>11. CASE QueryGone
  BY <1>11 DEF QueryGone, Close, Disconnect, PrepareClose, Clear, Retry, Return
<1>12. CASE PrepareOk
  BY <1>12, PreparedStatement DEF PrepareOk, Return, Goto
<1>13. CASE PrepareError
  BY <1>13 DEF PrepareError, Clear, Return
<1>14. CASE PrepareGone
  BY <1>14 DEF PrepareGone, Clear, Disconnect, Retry
<1>15. CASE BindArgs
  BY <1>15 DEF BindArgs, PrepareClose, Clear, Return, Goto
<1>16. CASE ExecuteOk
  BY <1>16 DEF ExecuteOk, BindResult, PrepareClose, Clear, Return, Goto
<1>17. CASE ExecuteError
  BY <1>17 DEF ExecuteError, EndExecute, PrepareClose, Clear, Return
<1>18. CASE FetchRow
  BY <1>18 DEF FetchRow, FetchOne, PrepareClose, Clear, Return, Goto
<1>19. CASE FetchEnd
  BY <1>19 DEF FetchEnd, PrepareClose, Clear, Return
<1>20. CASE Drop
  BY <1>20 DEF Drop, fault
<1>21. CASE ReplyLost
  BY <1>21 DEF ReplyLost, fault
<1>22. CASE Down
  BY <1>22 DEF Down, fault
<1>23. CASE Up
  BY <1>23 DEF Up
<1>24. CASE UNCHANGED vars
  BY <1>24 DEF vars, control
<1> QED
  BY <1>1, <1>2, <1>3, <1>4, <1>5, <1>6, <1>7, <1>8, <1>9, <1>10, <1>11, <1>12,
     <1>13, <1>14, <1>15, <1>16, <1>17, <1>18, <1>19, <1>20, <1>21, <1>22, <1>23,
     <1>24 DEF Next, Program, Step, Server

\* The part that is about executions, and the part about calls that succeed.
Counting == Executing /\ ExecutionsBounded /\ TrueMeansExecuted /\ SurplusRefused
Recovery == Undisturbed /\ Recovers

\* Executions are counted right over retries and lost replies.
LEMMA ExecutingStep == IInv /\ [Next]_vars => Counting'
<1> SUFFICES ASSUME IInv, [Next]_vars PROVE Counting'
  OBVIOUS
<1> USE ConnectionAssumption
<1> USE DEF Counting, object, statement, server, history, control, one, IInv, Control,
            TypeOK,
            CallRecord, ProgramCalls, Texts, Bounds, Selects, Runs, Executing, ExecutionsBounded,
            TrueMeansExecuted, SurplusRefused
<1>1. ASSUME NEW c \in ProgramCalls, ConnectCall(c) PROVE Counting'
  BY <1>1 DEF ConnectCall, NewCall
<1>2. ASSUME NEW c \in ProgramCalls, StatementCall(c) PROVE Counting'
  <2>1. CASE m_bConnected /\ c.kind \in Texts
    BY <1>2, <2>1 DEF StatementCall, NewCall, Start
  <2>2. CASE m_bConnected /\ c.kind \notin Texts
    BY <1>2, <2>2 DEF StatementCall, NewCall, Start, PrepareClose, Clear
  <2>3. CASE ~m_bConnected
    BY <1>2, <2>3 DEF StatementCall, NewCall
  <2>4. QED
    BY <2>1, <2>2, <2>3
<1>3. ASSUME NEW c \in ProgramCalls, PrepareExecuteCall(c) PROVE Counting'
  BY <1>3 DEF PrepareExecuteCall, NewCall
<1>4. CASE CloseCall
  BY <1>4 DEF CloseCall, Close, Disconnect, PrepareClose, Clear
<1>5. CASE PrepareCloseCall
  BY <1>5 DEF PrepareCloseCall, PrepareClose, Clear
<1>6. ASSUME NEW iIndex \in 0..(MaxParams - 1), Bind(iIndex) PROVE Counting'
  BY <1>6 DEF Bind
<1>7. CASE ConnectOk
  BY <1>7, SMTT(30) DEF ConnectOk, Start, Return, PrepareClose, Clear
<1>8. CASE ConnectFails
  BY <1>8 DEF ConnectFails, Return, PrepareClose, Clear
<1>9. CASE QueryOk
  BY <1>9 DEF QueryOk, UseResult, Return, Goto
<1>10. CASE QueryError
  BY <1>10 DEF QueryError, Return
<1>11. CASE QueryGone
  <2>1. CASE Close /\ Retry
    BY <1>11, <2>1 DEF QueryGone, Close, Disconnect, PrepareClose, Clear, Retry
  <2>2. CASE i = 1 /\ Return(FALSE) /\ UNCHANGED <<object, statement, server>>
    BY <1>11, <2>2 DEF QueryGone, Return
  <2> QED
    BY <1>11, <2>1, <2>2 DEF QueryGone
<1>12. CASE PrepareOk
  BY <1>12 DEF PrepareOk, Return, Goto
<1>13. CASE PrepareError
  BY <1>13 DEF PrepareError, Clear, Return
<1>14. CASE PrepareGone
  BY <1>14 DEF PrepareGone, Clear, Disconnect, Retry
<1>15. CASE BindArgs
  BY <1>15 DEF BindArgs, PrepareClose, Clear, Return, Goto
<1>16. CASE ExecuteOk
  BY <1>16 DEF ExecuteOk, BindResult, PrepareClose, Clear, Return, Goto
<1>17. CASE ExecuteError
  BY <1>17 DEF ExecuteError, EndExecute, PrepareClose, Clear, Return
<1>18. CASE FetchRow
  BY <1>18 DEF FetchRow, FetchOne, PrepareClose, Clear, Return, Goto
<1>19. CASE FetchEnd
  BY <1>19 DEF FetchEnd, PrepareClose, Clear, Return
<1>20. CASE Drop
  BY <1>20 DEF Drop, fault
<1>21. CASE ReplyLost
  BY <1>21 DEF ReplyLost, fault
<1>22. CASE Down
  BY <1>22 DEF Down, fault
<1>23. CASE Up
  BY <1>23 DEF Up
<1>24. CASE UNCHANGED vars
  BY <1>24 DEF vars, control
<1> QED
  BY <1>1, <1>2, <1>3, <1>4, <1>5, <1>6, <1>7, <1>8, <1>9, <1>10, <1>11, <1>12,
     <1>13, <1>14, <1>15, <1>16, <1>17, <1>18, <1>19, <1>20, <1>21, <1>22, <1>23,
     <1>24 DEF Next, Program, Step, Server

\* A call during which the server does not fail gets through.
LEMMA UndisturbedStep == IInv /\ [Next]_vars => Recovery'
<1> SUFFICES ASSUME IInv, [Next]_vars PROVE Recovery'
  OBVIOUS
<1> USE ConnectionAssumption
<1> USE DEF Recovery, object, statement, server, history, control, one, IInv, Control,
            TypeOK,
            CallRecord, ProgramCalls, Texts, Bounds, Selects, Runs, Undisturbed, Recovers, Sound,
            BindInBounds, Executing
<1>1. ASSUME NEW c \in ProgramCalls, ConnectCall(c) PROVE Recovery'
  BY <1>1 DEF ConnectCall, NewCall
<1>2. ASSUME NEW c \in ProgramCalls, StatementCall(c) PROVE Recovery'
  <2>1. pc' \in {"connect", "query", "prepare"} /\ i' = 0 /\ executions' = 0 /\ fetched' = 0
    BY <1>2 DEF StatementCall, NewCall, Start
  <2>2. ~disturbed' => up'
    BY <1>2 DEF StatementCall, NewCall
  <2> QED
    BY <2>1, <2>2
<1>3. ASSUME NEW c \in ProgramCalls, PrepareExecuteCall(c) PROVE Recovery'
  BY <1>3 DEF PrepareExecuteCall, NewCall
<1>4. CASE CloseCall
  BY <1>4 DEF CloseCall, Close, Disconnect, PrepareClose, Clear
<1>5. CASE PrepareCloseCall
  BY <1>5 DEF PrepareCloseCall, PrepareClose, Clear
<1>6. ASSUME NEW iIndex \in 0..(MaxParams - 1), Bind(iIndex) PROVE Recovery'
  BY <1>6 DEF Bind
<1>7. CASE ConnectOk
  BY <1>7 DEF ConnectOk, Start, Return, PrepareClose, Clear
<1>8. CASE ConnectFails
  BY <1>8 DEF ConnectFails, Return, PrepareClose, Clear
<1>9. CASE QueryOk
  BY <1>9 DEF QueryOk, UseResult, Return, Goto
<1>10. CASE QueryError
  BY <1>10 DEF QueryError, Return
<1>11. CASE QueryGone
  <2>1. CASE Close /\ Retry
    BY <1>11, <2>1 DEF QueryGone, Close, Disconnect, PrepareClose, Clear, Retry
  <2>2. CASE i = 1 /\ Return(FALSE) /\ UNCHANGED <<object, statement, server>>
    BY <1>11, <2>2 DEF QueryGone, Return
  <2> QED
    BY <1>11, <2>1, <2>2 DEF QueryGone
<1>12. CASE PrepareOk
  BY <1>12 DEF PrepareOk, Return, Goto
<1>13. CASE PrepareError
  BY <1>13 DEF PrepareError, Clear, Return
<1>14. CASE PrepareGone
  BY <1>14 DEF PrepareGone, Clear, Disconnect, Retry
<1>15. CASE BindArgs
  BY <1>15 DEF BindArgs, PrepareClose, Clear, Return, Goto
<1>16. CASE ExecuteOk
  BY <1>16 DEF ExecuteOk, BindResult, PrepareClose, Clear, Return, Goto
<1>17. CASE ExecuteError
  BY <1>17 DEF ExecuteError, EndExecute, PrepareClose, Clear, Return
<1>18. CASE FetchRow
  BY <1>18 DEF FetchRow, FetchOne, PrepareClose, Clear, Return, Goto
<1>19. CASE FetchEnd
  BY <1>19 DEF FetchEnd, PrepareClose, Clear, Return
<1>20. CASE Drop
  BY <1>20 DEF Drop, fault
<1>21. CASE ReplyLost
  BY <1>21 DEF ReplyLost, fault
<1>22. CASE Down
  BY <1>22 DEF Down, fault
<1>23. CASE Up
  BY <1>23 DEF Up
<1>24. CASE UNCHANGED vars
  BY <1>24 DEF vars, control
<1> QED
  BY <1>1, <1>2, <1>3, <1>4, <1>5, <1>6, <1>7, <1>8, <1>9, <1>10, <1>11, <1>12,
     <1>13, <1>14, <1>15, <1>16, <1>17, <1>18, <1>19, <1>20, <1>21, <1>22, <1>23,
     <1>24 DEF Next, Program, Step, Server

\* Every step keeps session, statement, handles and arrays consistent.
LEMMA ResourcesStep == IInv /\ [Next]_vars => Resources'
<1> SUFFICES ASSUME IInv, [Next]_vars PROVE Resources'
  OBVIOUS
<1> USE ConnectionAssumption
<1> USE DEF object, statement, server, history, control, one, IInv, Control, TypeOK,
            CallRecord, ProgramCalls, Texts, Bounds, Selects, Runs, Resources, NothingLeaked,
            StatementOfSession, BindInBounds
<1>1. ASSUME NEW c \in ProgramCalls, ConnectCall(c) PROVE Resources'
  BY <1>1 DEF ConnectCall, NewCall
<1>2. ASSUME NEW c \in ProgramCalls, StatementCall(c) PROVE Resources'
  BY <1>2 DEF StatementCall, NewCall, Start, PrepareClose, Clear
<1>3. ASSUME NEW c \in ProgramCalls, PrepareExecuteCall(c) PROVE Resources'
  BY <1>3 DEF PrepareExecuteCall, NewCall
<1>4. CASE CloseCall
  BY <1>4 DEF CloseCall, Close, Disconnect, PrepareClose, Clear
<1>5. CASE PrepareCloseCall
  BY <1>5 DEF PrepareCloseCall, PrepareClose, Clear
<1>6. ASSUME NEW iIndex \in 0..(MaxParams - 1), Bind(iIndex) PROVE Resources'
  BY <1>6 DEF Bind
<1>7. CASE ConnectOk
  BY <1>7 DEF ConnectOk, Start, Return, PrepareClose, Clear
<1>8. CASE ConnectFails
  BY <1>8 DEF ConnectFails, Return, PrepareClose, Clear
<1>9. CASE QueryOk
  BY <1>9 DEF QueryOk, UseResult, Return, Goto
<1>10. CASE QueryError
  BY <1>10 DEF QueryError, Return
<1>11. CASE QueryGone
  <2>1. CASE Close /\ Retry
    BY <1>11, <2>1 DEF QueryGone, Close, Disconnect, PrepareClose, Clear, Retry
  <2>2. CASE i = 1 /\ Return(FALSE) /\ UNCHANGED <<object, statement, server>>
    BY <1>11, <2>2 DEF QueryGone, Return
  <2> QED
    BY <1>11, <2>1, <2>2 DEF QueryGone
<1>12. CASE PrepareOk
  <2>1. m_clsBindList = <<>> /\ call.params \in Nat
    BY <1>12, EmptySeq DEF PrepareOk
  <2>2. m_clsBindList' = <<>> \o [k \in 1..call.params |-> FALSE]
    BY <1>12, <2>1 DEF PrepareOk
  <2>3. Len(m_clsBindList') = call.params
    BY <2>1, <2>2, FreshBinds
  <2> QED
    <3>1. m_psttStmt' # NULL /\ m_psttStmt'.session = m_sttMySQL
      BY <1>12, PreparedStatement DEF PrepareOk
    <3>2. m_psttBind = NULL /\ m_psttStmt = NULL /\ m_bConnected
      BY <1>12 DEF PrepareOk
    <3>3. /\ m_iBindCount' = call.params
          /\ m_psttBind' = IF call.params > 0 THEN call.params ELSE NULL
          /\ blocks' = one(call.params > 0) /\ handles' = 1
      BY <1>12, <3>2 DEF PrepareOk
    <3>4. m_psttBind' # NULL <=> call.params > 0
      BY <2>1, <3>3
    <3>5. BindInBounds'
      BY <2>1, <2>3, <3>1, <3>3
    <3>6. ends' = ends /\ m_bConnected' = m_bConnected /\ m_sttMySQL' = m_sttMySQL
      BY <1>12 DEF PrepareOk
    <3> QED
      BY <3>1, <3>2, <3>3, <3>4, <3>5, <3>6
<1>13. CASE PrepareError
  <2>1. CASE call.kind = "QueryOneArg"
    BY <1>13, <2>1 DEF PrepareError, Clear, Return
  <2>2. CASE call.kind # "QueryOneArg"
    <3>1. m_psttStmt' = [session |-> m_sttMySQL, sql |-> call.sql,
                         params |-> call.params, prepared |-> FALSE]
      BY <1>13, <2>2 DEF PrepareError
    <3>2. m_psttStmt' # NULL /\ m_psttStmt'.session = m_sttMySQL
      BY <3>1, PreparedStatement
    <3> QED
      BY <1>13, <2>2, <3>2 DEF PrepareError, Return
  <2> QED
    BY <2>1, <2>2
<1>14. CASE PrepareGone
  BY <1>14 DEF PrepareGone, Clear, Disconnect, Retry
<1>15. CASE BindArgs
  <2>1. Len(Bound(call.args)) = Len(m_clsBindList)
    BY BoundBinds
  <2> QED
    BY <1>15, <2>1 DEF BindArgs, PrepareClose, Clear, Return, Goto
<1>16. CASE ExecuteOk
  BY <1>16 DEF ExecuteOk, BindResult, PrepareClose, Clear, Return, Goto
<1>17. CASE ExecuteError
  BY <1>17 DEF ExecuteError, EndExecute, PrepareClose, Clear, Return
<1>18. CASE FetchRow
  BY <1>18 DEF FetchRow, FetchOne, PrepareClose, Clear, Return, Goto
<1>19. CASE FetchEnd
  BY <1>19 DEF FetchEnd, PrepareClose, Clear, Return
<1>20. CASE Drop
  BY <1>20 DEF Drop, fault
<1>21. CASE ReplyLost
  BY <1>21 DEF ReplyLost, fault
<1>22. CASE Down
  BY <1>22 DEF Down, fault
<1>23. CASE Up
  BY <1>23 DEF Up
<1>24. CASE UNCHANGED vars
  BY <1>24 DEF vars, control
<1> QED
  BY <1>1, <1>2, <1>3, <1>4, <1>5, <1>6, <1>7, <1>8, <1>9, <1>10, <1>11, <1>12,
     <1>13, <1>14, <1>15, <1>16, <1>17, <1>18, <1>19, <1>20, <1>21, <1>22, <1>23,
     <1>24 DEF Next, Program, Step, Server

\* TypeOK in four parts: the members of the object that the session and the
\* statement take, the server, the call that runs, and its history.
StatementType ==
    /\ m_psttStmt \in Statement \cup {NULL}
    /\ m_psttBind \in 1..MaxParams \cup {NULL}
    /\ m_iBindCount \in 0..MaxParams
    /\ m_clsBindList \in Seq(BOOLEAN)
    /\ handles \in Nat /\ blocks \in Nat

ServerType ==
    /\ m_strDbHost \in BOOLEAN /\ m_bConnected \in BOOLEAN /\ m_sttMySQL \in Nat
    /\ up \in BOOLEAN /\ live \in BOOLEAN /\ ends \subseteq Nat
    /\ sessions \in Nat /\ faults \in 0..MaxFaults

CallType ==
    /\ pc \in {"idle", "connect", "query", "prepare", "bind", "execute", "rows"}
    /\ call \in CallRecord /\ i \in 0..1 /\ bRes \in BOOLEAN
    /\ calls \in 0..MaxCalls

HistoryType ==
    /\ executions \in 0..2 /\ fetched \in 0..MaxRows
    /\ disturbed \in BOOLEAN /\ lostReply \in BOOLEAN /\ stopped \in BOOLEAN

\* Every step that touches the statement clears it, prepares one or binds.
LEMMA StatementStep == IInv /\ [Next]_vars => StatementType'
<1> SUFFICES ASSUME IInv, [Next]_vars PROVE StatementType'
  OBVIOUS
<1> USE ConnectionAssumption
<1> USE DEF IInv, TypeOK, StatementType, statement
<1>1. \/ UNCHANGED statement \/ PrepareClose \/ Clear(handles)
      \/ PrepareOk \/ PrepareError \/ BindArgs
      \/ \E iIndex \in 0..(MaxParams - 1) : Bind(iIndex)
  BY DEF Next, Program, Step, Server, ConnectCall, StatementCall, Start,
         PrepareExecuteCall, CloseCall, Close, PrepareCloseCall, ConnectOk,
         ConnectFails, QueryOk, QueryError, QueryGone, PrepareGone, ExecuteOk, BindResult,
         ExecuteError, EndExecute, FetchRow, FetchOne, FetchEnd, Drop, ReplyLost, Down, Up,
         vars
<1>2. CASE UNCHANGED statement
  BY <1>2
<1>3. CASE PrepareClose \/ Clear(handles)
  <2>1. m_psttStmt' = NULL /\ m_psttBind' = NULL /\ m_iBindCount' = 0
    BY <1>3 DEF PrepareClose, Clear
  <2>2. m_clsBindList' \in Seq(BOOLEAN)
    BY <1>3, NoBinds DEF PrepareClose, Clear
  <2>3. handles' \in Nat /\ blocks' \in Nat
    BY <1>3 DEF PrepareClose, Clear, NothingLeaked, one
  <2> QED
    BY <2>1, <2>2, <2>3
<1>4. CASE PrepareOk
  <2>1. call.params \in 0..MaxParams /\ m_clsBindList = <<>>
    BY <1>4, EmptySeq DEF PrepareOk, Control, BindInBounds, CallRecord
  <2>2. m_psttStmt' \in Statement
    BY <1>4, PreparedStatement DEF PrepareOk
  <2>3. m_clsBindList' = <<>> \o [k \in 1..call.params |-> FALSE]
    BY <1>4, <2>1 DEF PrepareOk
  <2>4. m_clsBindList' \in Seq(BOOLEAN)
    <3>1. call.params \in Nat
      BY <2>1
    <3> QED
      BY <2>3, <3>1, FreshBinds, Zenon
  <2> QED
    BY <1>4, <2>1, <2>2, <2>4 DEF PrepareOk, one
<1>5. CASE PrepareError
  <2>1. m_psttStmt' \in Statement \cup {NULL}
    BY <1>5, PreparedStatement DEF PrepareError, Clear
  <2>2. CASE Clear(handles)
    BY <1>3, <2>2
  <2>3. CASE handles' = handles + 1 /\
             UNCHANGED <<m_psttBind, m_iBindCount, m_clsBindList, blocks>>
    BY <2>1, <2>3
  <2> QED
    BY <1>5, <2>2, <2>3 DEF PrepareError
<1>6. CASE BindArgs
  <2>1. CASE PrepareClose
    BY <1>3, <2>1
  <2>2. CASE m_clsBindList' = Bound(call.args) /\
             UNCHANGED <<m_psttStmt, m_psttBind, m_iBindCount, handles, blocks>>
    BY <2>2, BoundBinds
  <2> QED
    BY <1>6, <2>1, <2>2 DEF BindArgs
<1>7. CASE \E iIndex \in 0..(MaxParams - 1) : Bind(iIndex)
  BY <1>7, ExceptSeq DEF Bind, BindInBounds
<1> QED
  BY <1>1, <1>2, <1>3, <1>4, <1>5, <1>6, <1>7

\* Every step of the server or over the network leaves them their types.
LEMMA ServerStep == IInv /\ [Next]_vars => ServerType'
<1> SUFFICES ASSUME IInv, [Next]_vars PROVE ServerType'
  OBVIOUS
<1> USE ConnectionAssumption
<1> USE DEF IInv, TypeOK, ServerType, server, object
<1>1. \/ UNCHANGED <<object, server>>
      \/ m_strDbHost' = TRUE /\ UNCHANGED <<m_bConnected, m_sttMySQL, server>>
      \/ Disconnect \/ ConnectOk
      \/ fault /\ up' \in BOOLEAN /\ UNCHANGED <<object, ends, sessions>>
      \/ Up
  BY DEF Next, Program, Step, Server, ConnectCall, StatementCall,
         PrepareExecuteCall, CloseCall, Close, PrepareCloseCall, Bind,
         ConnectFails, QueryOk, QueryError, QueryGone, PrepareOk, PrepareError,
         PrepareGone, BindArgs, ExecuteOk, ExecuteError, EndExecute, FetchRow,
         FetchEnd, Drop, ReplyLost, Down, vars
<1>2. CASE UNCHANGED <<object, server>>
  BY <1>2
<1>3. CASE m_strDbHost' = TRUE /\ UNCHANGED <<m_bConnected, m_sttMySQL, server>>
  BY <1>3
<1>4. CASE Disconnect
  BY <1>4 DEF Disconnect
<1>5. CASE ConnectOk
  BY <1>5 DEF ConnectOk
<1>6. CASE fault /\ up' \in BOOLEAN /\ UNCHANGED <<object, ends, sessions>>
  <2>1. live' = FALSE /\ faults' \in 0..MaxFaults
    BY <1>6 DEF fault
  <2> QED
    BY <1>6, <2>1
<1>7. CASE Up
  BY <1>7 DEF Up
<1> QED
  BY <1>1, <1>2, <1>3, <1>4, <1>5, <1>6, <1>7
\* Every step leads from place to place and returns truth values.
LEMMA CallStep == IInv /\ [Next]_vars => CallType'
<1> SUFFICES ASSUME IInv, [Next]_vars PROVE CallType'
  OBVIOUS
<1> USE ConnectionAssumption
<1> USE DEF IInv, TypeOK, CallType, control
<1> DEFINE places == {"idle", "connect", "query", "prepare", "bind", "execute", "rows"}
<1>1. \/ UNCHANGED control
      \/ \E c \in ProgramCalls :
            NewCall(c) /\ pc' \in places /\ (bRes' = bRes \/ bRes' = FALSE)
      \/ \E res \in BOOLEAN : Return(res)
      \/ pc' \in places /\ UNCHANGED <<call, i, bRes, calls>>
      \/ Retry
  <2>1. ASSUME NEW c \in ProgramCalls,
               ConnectCall(c) \/ StatementCall(c) \/ PrepareExecuteCall(c)
        PROVE  NewCall(c) /\ pc' \in places /\ (bRes' = bRes \/ bRes' = FALSE)
    BY <2>1 DEF ConnectCall, StatementCall, PrepareExecuteCall, Start
  <2>2. CASE \/ CloseCall \/ PrepareCloseCall
             \/ \E iIndex \in 0..(MaxParams - 1) : Bind(iIndex)
             \/ Server \/ UNCHANGED vars
    BY <2>2 DEF CloseCall, PrepareCloseCall, Bind, Server, Drop, ReplyLost, Down,
                Up, vars
  <2>3. CASE \/ ConnectOk \/ ConnectFails \/ QueryOk \/ QueryError \/ QueryGone
             \/ PrepareOk \/ PrepareError \/ PrepareGone
    BY <2>3 DEF ConnectOk, Start, ConnectFails, QueryOk, UseResult, QueryError, QueryGone,
                PrepareOk, PrepareError, PrepareGone, Goto
  <2>4. CASE BindArgs \/ ExecuteOk \/ ExecuteError \/ FetchRow
    BY <2>4 DEF BindArgs, ExecuteOk, BindResult, ExecuteError, EndExecute, FetchRow, FetchOne,
                Goto
  <2>5. CASE FetchEnd
    BY <2>5, Zenon DEF FetchEnd
  <2> QED
    BY <2>1, <2>2, <2>3, <2>4, <2>5 DEF Next, Program, Step
<1>2. CASE UNCHANGED control
  BY <1>2
<1>3. CASE \E c \in ProgramCalls :
              NewCall(c) /\ pc' \in places /\ (bRes' = bRes \/ bRes' = FALSE)
  <2>1. PICK c \in ProgramCalls :
              NewCall(c) /\ pc' \in places /\ (bRes' = bRes \/ bRes' = FALSE)
    BY <1>3
  <2>2. call' \in CallRecord
    BY <2>1 DEF NewCall, ProgramCalls
  <2>3. i' \in 0..1 /\ calls' \in 0..MaxCalls
    BY <2>1 DEF NewCall
  <2>4. bRes' \in BOOLEAN
    BY <2>1, Zenon
  <2> QED
    BY <2>1, <2>2, <2>3, <2>4, Zenon
<1>4. CASE \E res \in BOOLEAN : Return(res)
  BY <1>4 DEF Return
<1>5. CASE pc' \in places /\ UNCHANGED <<call, i, bRes, calls>>
  BY <1>5
<1>6. CASE Retry
  BY <1>6 DEF Retry
<1> QED
  BY <1>1, <1>2, <1>3, <1>4, <1>5, <1>6

\* Every step counts executions and rows within their bounds.
LEMMA HistoryStep == IInv /\ [Next]_vars => HistoryType'
<1> SUFFICES ASSUME IInv, [Next]_vars PROVE HistoryType'
  OBVIOUS
<1> USE ConnectionAssumption
<1> USE DEF IInv, TypeOK, HistoryType, history
<1>1. \/ UNCHANGED history
      \/ \E c \in ProgramCalls : NewCall(c)
      \/ QueryOk \/ ExecuteOk \/ FetchRow \/ ReplyLost
      \/ fault /\ UNCHANGED <<executions, fetched, lostReply, stopped>>
  BY DEF Next, Program, Step, Server, ConnectCall, StatementCall,
         PrepareExecuteCall, CloseCall, PrepareCloseCall, Bind, ConnectOk,
         ConnectFails, QueryError, QueryGone, PrepareOk, PrepareError,
         PrepareGone, BindArgs, ExecuteError, EndExecute, FetchEnd, Drop, Down,
         Up, vars
<1>2. CASE UNCHANGED history
  BY <1>2
<1>3. CASE \E c \in ProgramCalls : NewCall(c)
  <2>1. executions' = 0 /\ fetched' = 0 /\ lostReply' = FALSE /\ stopped' = FALSE
    BY <1>3 DEF NewCall
  <2>2. disturbed' \in BOOLEAN
    BY <1>3, Zenon DEF NewCall
  <2>3. executions' \in 0..2 /\ fetched' \in 0..MaxRows
    BY <2>1
  <2> QED
    BY <2>1, <2>2, <2>3, Zenon
<1>4. CASE QueryOk \/ ExecuteOk
  <2>1. executions' \in Nat
    <3>1. executions' = executions + 1
      BY <1>4, Zenon DEF QueryOk, ExecuteOk
    <3> QED
      BY <3>1
  <2>2. executions' \in 0..2
    BY <2>1, ExecutingStep DEF Counting, ExecutionsBounded, one
  <2>3. UNCHANGED <<fetched, disturbed, lostReply, stopped>>
    BY <1>4 DEF QueryOk, ExecuteOk
  <2> QED
    BY <2>2, <2>3
<1>5. CASE FetchRow
  <2>1. fetched' \in 0..MaxRows
    BY <1>5 DEF FetchRow, FetchOne, CallRecord
  <2>2. stopped' \in BOOLEAN
    BY <1>5 DEF FetchRow
  <2> QED
    BY <1>5, <2>1, <2>2 DEF FetchRow
<1>6. CASE ReplyLost
  <2>1. executions \in 0..1
    BY <1>6 DEF ReplyLost, Executing, one
  <2>2. disturbed' \in BOOLEAN
    BY <1>6, Zenon DEF ReplyLost, fault
  <2>3. executions' \in 0..2 /\ lostReply' = TRUE /\ UNCHANGED <<fetched, stopped>>
    BY <1>6, <2>1 DEF ReplyLost
  <2> QED
    BY <2>2, <2>3
<1>7. CASE fault /\ UNCHANGED <<executions, fetched, lostReply, stopped>>
  <2>1. disturbed' \in BOOLEAN
    BY <1>7, Zenon DEF fault
  <2> QED
    BY <1>7, <2>1
<1> QED
  BY <1>1, <1>2, <1>3, <1>4, <1>5, <1>6, <1>7

\* The inductive invariant holds of a new object.
LEMMA InitIInv == Init => IInv
<1> SUFFICES ASSUME Init PROVE IInv
  OBVIOUS
<1> USE ConnectionAssumption DEF Init
<1>1. StatementType
  BY NoBinds DEF StatementType
<1>2. ServerType /\ HistoryType
  <2>1. ends \subseteq Nat /\ faults \in 0..MaxFaults /\ m_sttMySQL \in Nat /\ sessions \in Nat
    OBVIOUS
  <2>2. executions \in 0..2 /\ fetched \in 0..MaxRows
    OBVIOUS
  <2> QED
    BY <2>1, <2>2, Zenon DEF ServerType, HistoryType
<1>3. call \in CallRecord
  BY DEF CallRecord, Kinds, SQLs
<1>4. CallType
  BY <1>3 DEF CallType
<1>5. TypeOK
  BY <1>1, <1>2, <1>4 DEF TypeOK, StatementType, ServerType, CallType, HistoryType
<1>6. NothingLeaked /\ StatementOfSession /\ BindInBounds
  BY NoBinds DEF NothingLeaked, StatementOfSession, BindInBounds, one
<1>7. Control /\ Executing /\ Undisturbed
  BY DEF Control, Executing, Undisturbed
<1>8. ExecutionsBounded /\ TrueMeansExecuted /\ SurplusRefused /\ Recovers
  BY DEF ExecutionsBounded, TrueMeansExecuted, SurplusRefused, Recovers, one,
         Bounds, Texts
<1> QED
  BY <1>5, <1>6, <1>7, <1>8 DEF IInv

\* No step breaks the inductive invariant.
LEMMA NextIInv == IInv /\ [Next]_vars => IInv'
<1> SUFFICES ASSUME IInv, [Next]_vars PROVE IInv'
  OBVIOUS
<1>1. TypeOK'
  BY StatementStep, ServerStep, CallStep, HistoryStep
     DEF TypeOK, StatementType, ServerType, CallType, HistoryType
<1> QED
  BY <1>1, ControlStep, ResourcesStep, ExecutingStep, UndisturbedStep
     DEF IInv, Resources, Counting, Recovery

\* The inductive invariant holds in every state of every behaviour.
THEOREM InvariantHolds == Spec => []IInv
BY InitIInv, NextIInv, PTL DEF Spec

\* Every variable keeps its type: the calls of the connection stay in their
\* places and their counters within bounds.
THEOREM TypeCorrect == Spec => []TypeOK
BY InvariantHolds, PTL DEF IInv

\* Connect, Close, Prepare and PrepareClose leak no session, statement handle or
\* bind array, whatever fails between them.
THEOREM ResourcesReleased == Spec => []NothingLeaked
BY InvariantHolds, PTL DEF IInv

\* No statement handle survives the session it was prepared in.
THEOREM StatementsCurrent == Spec => []StatementOfSession
BY InvariantHolds, PTL DEF IInv

\* Bind stays inside the arrays, also after a Prepare that failed.
THEOREM BindsInside == Spec => []BindInBounds
BY InvariantHolds, PTL DEF IInv

\* The server executes a call at most twice, and twice only for a text statement
\* whose reply was lost.
THEOREM AtMostTwice == Spec => []ExecutionsBounded
BY InvariantHolds, PTL DEF IInv

\* A statement the program is told succeeded was executed.
THEOREM TrueIsExecuted == Spec => []TrueMeansExecuted
BY InvariantHolds, PTL DEF IInv

\* A statement with more arguments than placeholders is never executed.
THEOREM SurplusNeverRuns == Spec => []SurplusRefused
BY InvariantHolds, PTL DEF IInv

\* A call during which the server does not fail succeeds, whatever happened to
\* the session before it, and is executed once.
THEOREM CallsRecover == Spec => []Recovers
BY InvariantHolds, PTL DEF IInv
=============================================================================
