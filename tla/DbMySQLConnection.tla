--------------------------- MODULE DbMySQLConnection ---------------------------
(***************************************************************************)
(* CDbMySQLConnection (DbMySQLPool/DbMySQLConnection.cpp): one connection  *)
(* to a MySQL server, used by one thread at a time, which reconnects and   *)
(* tries once more when the server has closed the session.                 *)
(*                                                                         *)
(* Granularity: one step per round trip to the server (mysql_real_connect, *)
(* mysql_query, mysql_stmt_prepare, mysql_stmt_execute, a row fetched) with *)
(* the local work up to the next one.  Between the steps the server may    *)
(* drop the session, go down and come up.                                  *)
(***************************************************************************)
EXTENDS Integers, Sequences

CONSTANTS
    NULL,
    MaxParams,      \* bound: placeholders of a statement
    MaxRows,        \* bound: rows of a result
    MaxCalls,       \* bound: calls of the program
    MaxFaults       \* bound: sessions lost by faults

VARIABLES
    m_strDbHost,    \* Connect( pszHost, ... ) was called: the host is not empty
    m_bConnected,
    m_sttMySQL,     \* the session of the MYSQL handle (the last one it had)
    m_psttStmt,     \* the prepared statement, or NULL
    m_psttBind,     \* length of the allocated MYSQL_BIND array, or NULL
    m_iBindCount,
    m_clsBindList,  \* for each placeholder: was it bound?
    pc, call, i,    \* the call that runs or ran last; i counts its retries
    bRes,           \* what the last call returned
    up, live,       \* the server can be connected to; it has the session
    ends,           \* sessions whose client end is not closed
    handles,        \* MYSQL_STMT objects not closed
    blocks,         \* MYSQL_BIND arrays not freed
    executions,     \* history: how often the server executed the last call,
    fetched,        \*   how many rows the program got from it,
    disturbed,      \*   whether the server failed while it ran,
    lostReply,      \*   whether the reply to an execution was lost,
    stopped,        \*   whether FetchRow asked for no more rows
    sessions, calls, faults     \* counters: sessions so far, calls, faults

object == <<m_strDbHost, m_bConnected, m_sttMySQL>>
statement == <<m_psttStmt, m_psttBind, m_iBindCount, m_clsBindList, handles, blocks>>
server == <<up, live, ends, sessions, faults>>
history == <<executions, fetched, disturbed, lostReply, stopped>>
control == <<pc, call, i, bRes, calls>>
vars == <<object, statement, server, history, control>>

\* Execute( sql ), Insert: "Execute"; Query with FetchRow; QueryOne; Execute
\* with arguments; QueryOne with an argument; and the prepare interface.
Texts == {"Execute", "Query", "QueryOne"}
Bounds == {"ExecuteArgs", "QueryOneArg"}
Kinds == Texts \cup Bounds \cup {"Connect", "Prepare", "PrepareExecute"}

\* A statement is right, right but without a result (when one is asked for),
\* refused by the parser, or fails when it runs.
SQLs == {"good", "noResult", "syntax", "fails"}
Runs(sql) == sql \in {"good", "noResult"}

\* null: the first column of its first row is NULL.
CallRecord == [kind : Kinds, sql : SQLs, params : 0..MaxParams,
               args : 0..(MaxParams + 1), rows : 0..MaxRows, null : BOOLEAN]

\* The calls that ask for a result.
Selects == {"Query", "QueryOne", "QueryOneArg"}

\* The calls worth telling apart.
ProgramCalls ==
    {c \in CallRecord :
        /\ c.kind \notin Bounds \cup {"Prepare"} => c.params = 0
        /\ c.kind # "ExecuteArgs" => c.args = (IF c.kind = "QueryOneArg" THEN 1 ELSE 0)
        /\ c.kind \notin Selects => c.rows = 0 /\ c.sql # "noResult"
        /\ c.sql = "noResult" => c.rows = 0
        /\ c.null => c.kind = "QueryOne" /\ c.rows > 0
        /\ c.kind \in {"Connect", "PrepareExecute"} => c.sql = "good"}

Statement == [session : Nat, sql : SQLs, params : 0..MaxParams, prepared : BOOLEAN]

ASSUME ConnectionAssumption ==
    /\ MaxParams \in Nat /\ MaxRows \in Nat
    /\ MaxCalls \in Nat /\ MaxFaults \in Nat
    /\ NULL \notin Statement \cup Nat

TypeOK ==
    /\ m_strDbHost \in BOOLEAN /\ m_bConnected \in BOOLEAN /\ m_sttMySQL \in Nat
    /\ m_psttStmt \in Statement \cup {NULL}
    /\ m_psttBind \in 1..MaxParams \cup {NULL}
    /\ m_iBindCount \in 0..MaxParams
    /\ m_clsBindList \in Seq(BOOLEAN)
    /\ pc \in {"idle", "connect", "query", "prepare", "bind", "execute", "rows"}
    /\ call \in CallRecord /\ i \in 0..1 /\ bRes \in BOOLEAN
    /\ up \in BOOLEAN /\ live \in BOOLEAN /\ ends \subseteq Nat
    /\ handles \in Nat /\ blocks \in Nat
    /\ executions \in 0..2 /\ fetched \in 0..MaxRows
    /\ disturbed \in BOOLEAN /\ lostReply \in BOOLEAN /\ stopped \in BOOLEAN
    /\ sessions \in Nat /\ calls \in 0..MaxCalls /\ faults \in 0..MaxFaults

Init ==
    /\ m_strDbHost = FALSE /\ m_bConnected = FALSE /\ m_sttMySQL = 0
    /\ m_psttStmt = NULL /\ m_psttBind = NULL
    /\ m_iBindCount = 0 /\ m_clsBindList = <<>>
    /\ pc = "idle" /\ i = 0 /\ bRes = TRUE
    /\ call = [kind |-> "Connect", sql |-> "good", params |-> 0, args |-> 0, rows |-> 0,
               null |-> FALSE]
    /\ up \in BOOLEAN /\ live = FALSE /\ ends = {}
    /\ handles = 0 /\ blocks = 0
    /\ executions = 0 /\ fetched = 0
    /\ disturbed = FALSE /\ lostReply = FALSE /\ stopped = FALSE
    /\ sessions = 0 /\ calls = 0 /\ faults = 0

-----------------------------------------------------------------------------
(* What the operations are made of                                         *)

one(present) == IF present THEN 1 ELSE 0

\* Mutant: m_iBindCount is not reset.
ClearKeepsCount(n) ==
    /\ m_psttStmt' = NULL /\ m_psttBind' = NULL
    /\ m_clsBindList' = <<>>
    /\ handles' = n
    /\ blocks' = blocks - one(m_psttBind # NULL)
    /\ UNCHANGED m_iBindCount

\* The end of PrepareClose, with n statement handles still open.
Clear(n) ==
    /\ m_psttStmt' = NULL /\ m_psttBind' = NULL
    /\ m_iBindCount' = 0 /\ m_clsBindList' = <<>>
    /\ handles' = n
    /\ blocks' = blocks - one(m_psttBind # NULL)

PrepareClose == Clear(handles - one(m_psttStmt # NULL))

\* mysql_close.
Disconnect ==
    /\ m_bConnected' = FALSE
    /\ live' = FALSE
    /\ ends' = ends \ {m_sttMySQL}
    /\ UNCHANGED <<m_strDbHost, m_sttMySQL, up, sessions, faults>>

\* Mutant: Close without PrepareClose.
CloseSessionOnly == Disconnect /\ UNCHANGED statement

Close == PrepareClose /\ Disconnect

Return(res) == pc' = "idle" /\ bRes' = res /\ UNCHANGED <<call, i, calls>>
Goto(label) == pc' = label /\ UNCHANGED <<call, i, bRes, calls>>

\* Mutant: Prepare overwrites the statement of an earlier Prepare.
StartOverwriting(kind) ==
    /\ pc' = IF kind \in Texts THEN "query" ELSE "prepare"
    /\ UNCHANGED statement

\* What a call does first once there is a connection: Prepare closes the
\* statement of an earlier Prepare.
Start(kind) ==
    /\ pc' = IF kind \in Texts THEN "query" ELSE "prepare"
    /\ IF kind \in Texts THEN UNCHANGED statement ELSE PrepareClose

NewCall(c) ==
    /\ pc = "idle"
    /\ calls < MaxCalls
    /\ calls' = calls + 1
    /\ call' = c
    /\ i' = 0
    /\ executions' = 0 /\ fetched' = 0
    /\ disturbed' = ~up
    /\ lostReply' = FALSE /\ stopped' = FALSE

-----------------------------------------------------------------------------
(* Connecting                                                              *)

\* Connect( pszHost, ... ), called on an object that is not connected.
ConnectCall(c) ==
    /\ c.kind = "Connect"
    /\ ~m_bConnected
    /\ NewCall(c)
    /\ m_strDbHost' = TRUE
    /\ pc' = "connect"
    /\ UNCHANGED <<m_bConnected, m_sttMySQL, statement, server, bRes>>

\* Connect( ): mysql_init and mysql_real_connect.
ConnectOk ==
    /\ pc = "connect"
    /\ m_strDbHost /\ up
    /\ sessions' = sessions + 1
    /\ m_sttMySQL' = sessions'
    /\ ends' = ends \cup {sessions'}
    /\ live' = TRUE
    /\ m_bConnected' = TRUE
    /\ IF call.kind = "Connect"
         THEN Return(TRUE) /\ UNCHANGED statement
         ELSE Start(call.kind) /\ UNCHANGED <<call, i, bRes, calls>>
    /\ UNCHANGED <<m_strDbHost, up, faults, history>>

\* The handle that mysql_init opened is closed again.
ConnectFails ==
    /\ pc = "connect"
    /\ ~(m_strDbHost /\ up)
    /\ IF call.kind = "QueryOneArg" THEN PrepareClose ELSE UNCHANGED statement
    /\ Return(FALSE)
    /\ UNCHANGED <<object, server, history>>

\* Close( ), called by the program.
CloseCall ==
    /\ pc = "idle"
    /\ m_bConnected
    /\ Close
    /\ UNCHANGED <<history, control>>

-----------------------------------------------------------------------------
(* Calls that send a statement: Query( pszSQL ) and Prepare( pszSQL )      *)

StatementCall(c) ==
    /\ c.kind \notin {"Connect", "PrepareExecute"}
    /\ NewCall(c)
    /\ IF m_bConnected
         THEN Start(c.kind)
         ELSE pc' = "connect" /\ UNCHANGED statement
    /\ UNCHANGED <<object, server, bRes>>

\* CR_SERVER_GONE_ERROR or CR_SERVER_LOST is retried once, with a new session.
\* Mutant: as often as it happens.
RetryForEver == i' = 1 /\ pc' = "connect" /\ UNCHANGED <<call, bRes, calls>>

Retry == i = 0 /\ i' = 1 /\ pc' = "connect" /\ UNCHANGED <<call, bRes, calls>>

\* mysql_use_result is NULL when the statement has no result.
UseResult ==
    \/ call.sql = "noResult" /\ Return(FALSE)
    \/ call.sql = "good" /\ Goto("rows")

\* mysql_query succeeds.  Execute and Insert are over; the others read rows.
QueryOk ==
    /\ pc = "query"
    /\ live /\ Runs(call.sql)
    /\ executions' = executions + 1
    /\ \/ call.kind = "Execute" /\ Return(TRUE)
       \/ call.kind \in Selects /\ UseResult
    /\ UNCHANGED <<object, statement, server, fetched, disturbed, lostReply, stopped>>

\* The server refuses the statement: no second try.
QueryError ==
    /\ pc = "query"
    /\ live /\ ~Runs(call.sql)
    /\ Return(FALSE)
    /\ UNCHANGED <<object, statement, server, history>>

\* Mutant: a lost session is an error like any other.
QueryGoneNoRetry ==
    /\ pc = "query"
    /\ ~live
    /\ Return(FALSE)
    /\ UNCHANGED <<object, statement, server, history>>

\* The session is gone: close, reconnect and try again; the second time give
\* up, still connected as far as the object knows.
QueryGone ==
    /\ pc = "query"
    /\ ~live
    /\ \/ Close /\ Retry
       \/ i = 1 /\ Return(FALSE) /\ UNCHANGED <<object, statement, server>>
    /\ UNCHANGED history

\* mysql_stmt_init and mysql_stmt_prepare succeed: one bind per placeholder.
PrepareOk ==
    /\ pc = "prepare"
    /\ live /\ call.sql # "syntax"
    /\ m_psttStmt' = [session |-> m_sttMySQL, sql |-> call.sql,
                      params |-> call.params, prepared |-> TRUE]
    /\ handles' = handles + 1
    /\ m_iBindCount' = call.params
    /\ m_psttBind' = IF call.params > 0 THEN call.params ELSE m_psttBind
    /\ blocks' = blocks + one(call.params > 0)
    /\ m_clsBindList' = m_clsBindList \o [k \in 1..call.params |-> FALSE]
    /\ IF call.kind = "Prepare" THEN Return(TRUE) ELSE Goto("bind")
    /\ UNCHANGED <<object, server, history>>

\* mysql_stmt_prepare fails for good: Prepare returns with the new statement
\* still there; only QueryOne closes it.
PrepareError ==
    /\ pc = "prepare"
    /\ \/ live /\ call.sql = "syntax"
       \/ ~live /\ i = 1
    /\ IF call.kind = "QueryOneArg"
         THEN Clear(handles)
         ELSE /\ m_psttStmt' = [session |-> m_sttMySQL, sql |-> call.sql,
                                params |-> call.params, prepared |-> FALSE]
              /\ handles' = handles + 1
              /\ UNCHANGED <<m_psttBind, m_iBindCount, m_clsBindList, blocks>>
    /\ Return(FALSE)
    /\ UNCHANGED <<object, server, history>>

\* Close( ) takes the statement of the lost session along.
PrepareGone ==
    /\ pc = "prepare"
    /\ ~live
    /\ Clear(handles) /\ Disconnect /\ Retry
    /\ UNCHANGED history

-----------------------------------------------------------------------------
(* Bind, PrepareExecute, and the calls made of Prepare, Bind, ... *)

\* m_clsBindList after the first n placeholders were bound.
Bound(n) == [k \in DOMAIN m_clsBindList |-> k <= n \/ m_clsBindList[k]]

\* Bind( iIndex, pszVal ), called by the program; other indexes are refused.
Bind(iIndex) ==
    /\ pc = "idle"
    /\ m_psttStmt # NULL
    /\ iIndex < m_iBindCount
    /\ m_clsBindList' = [m_clsBindList EXCEPT ![iIndex + 1] = TRUE]
    /\ UNCHANGED <<object, m_psttStmt, m_psttBind, m_iBindCount, handles, blocks,
                   server, history, control>>

\* PrepareClose( ), called by the program.
PrepareCloseCall ==
    /\ pc = "idle"
    /\ m_psttStmt # NULL
    /\ PrepareClose
    /\ UNCHANGED <<object, server, history, control>>

\* The arguments of Execute or QueryOne: one that has no placeholder is an
\* error, a placeholder that has no argument is not.
BindArgs ==
    /\ pc = "bind"
    /\ IF call.args > m_iBindCount
         THEN PrepareClose /\ Return(FALSE)
         ELSE /\ m_clsBindList' = Bound(call.args)
              /\ Goto("execute")
              /\ UNCHANGED <<m_psttStmt, m_psttBind, m_iBindCount, handles, blocks>>
    /\ UNCHANGED <<object, server, history>>

PrepareExecuteCall(c) ==
    /\ c.kind = "PrepareExecute"
    /\ NewCall(c)
    /\ IF m_psttStmt = NULL
         THEN pc' = "idle" /\ bRes' = FALSE
         ELSE pc' = "execute" /\ UNCHANGED bRes
    /\ UNCHANGED <<object, statement, server>>

\* mysql_stmt_bind_result fails when the statement has no result.
BindResult ==
    \/ call.sql = "noResult" /\ Return(FALSE) /\ PrepareClose
    \/ call.sql = "good" /\ Goto("rows") /\ UNCHANGED statement

\* mysql_stmt_execute succeeds.  Only QueryOne reads a row.
ExecuteOk ==
    /\ pc = "execute"
    /\ live /\ m_psttStmt.prepared /\ Runs(m_psttStmt.sql)
    /\ executions' = executions + 1
    /\ \/ call.kind = "QueryOneArg" /\ BindResult
       \/ call.kind = "ExecuteArgs" /\ Return(TRUE) /\ PrepareClose
       \/ call.kind = "PrepareExecute" /\ Return(TRUE) /\ UNCHANGED statement
    /\ UNCHANGED <<object, server, fetched, disturbed, lostReply, stopped>>

\* It fails, or the statement was never prepared: no second try, whatever the
\* reason.
EndExecute(res) ==
    /\ pc = "execute"
    /\ ~(live /\ m_psttStmt.prepared /\ Runs(m_psttStmt.sql))
    /\ IF call.kind \in Bounds THEN PrepareClose ELSE UNCHANGED statement
    /\ Return(res)
    /\ UNCHANGED <<object, server, history>>

\* Mutant: the result of PrepareExecute is not looked at.
ExecuteErrorIgnored == EndExecute(TRUE)

ExecuteError == EndExecute(FALSE)

-----------------------------------------------------------------------------
(* Reading the rows of a result *)

\* A QueryOne whose value is NULL fails; one with an argument does not look.
FetchOne ==
    \/ call.kind = "QueryOne" /\ Return(~call.null) /\ UNCHANGED statement
    \/ call.kind = "QueryOneArg" /\ Return(TRUE) /\ PrepareClose

\* mysql_fetch_row, and FetchRow for a Query, which may ask for no more.
FetchRow ==
    /\ pc = "rows"
    /\ live /\ fetched < call.rows
    /\ fetched' = fetched + 1
    /\ \/ /\ call.kind = "Query"
          /\ \/ Goto("rows") /\ UNCHANGED stopped
             \/ Return(TRUE) /\ stopped' = TRUE
          /\ UNCHANGED statement
       \/ FetchOne /\ UNCHANGED stopped
    /\ UNCHANGED <<object, server, executions, disturbed, lostReply>>

\* No row came: the end of the result or of the session, nobody asks which.
FetchEnd ==
    /\ pc = "rows"
    /\ ~live \/ fetched = call.rows
    /\ Return(call.kind # "QueryOne")
    /\ IF call.kind = "QueryOneArg" THEN PrepareClose ELSE UNCHANGED statement
    /\ UNCHANGED <<object, server, history>>

-----------------------------------------------------------------------------
(* The server *)

fault ==
    /\ faults < MaxFaults
    /\ faults' = faults + 1
    /\ live' = FALSE
    /\ disturbed' = (disturbed \/ pc # "idle")

\* It drops the session (wait_timeout, a restart, a broken network).
Drop ==
    /\ live
    /\ fault
    /\ UNCHANGED <<object, statement, control, up, ends, sessions,
                   executions, fetched, lostReply, stopped>>

\* It executes the statement, but the session breaks before the reply is read.
ReplyLost ==
    /\ live
    /\ \/ pc = "query" /\ Runs(call.sql)
       \/ pc = "execute" /\ m_psttStmt.prepared /\ Runs(m_psttStmt.sql)
    /\ fault
    /\ executions' = executions + 1
    /\ lostReply' = TRUE
    /\ UNCHANGED <<object, statement, control, up, ends, sessions, fetched, stopped>>

Down ==
    /\ up
    /\ up' = FALSE
    /\ fault
    /\ UNCHANGED <<object, statement, control, ends, sessions,
                   executions, fetched, lostReply, stopped>>

Up ==
    /\ ~up
    /\ up' = TRUE
    /\ UNCHANGED <<object, statement, control, history, live, ends, sessions, faults>>

-----------------------------------------------------------------------------

Program ==
    \/ \E c \in ProgramCalls :
          ConnectCall(c) \/ StatementCall(c) \/ PrepareExecuteCall(c)
    \/ CloseCall \/ PrepareCloseCall
    \/ \E iIndex \in 0..(MaxParams - 1) : Bind(iIndex)

Step ==
    \/ ConnectOk \/ ConnectFails
    \/ QueryOk \/ QueryError \/ QueryGone
    \/ PrepareOk \/ PrepareError \/ PrepareGone
    \/ BindArgs \/ ExecuteOk \/ ExecuteError
    \/ FetchRow \/ FetchEnd

Server == Drop \/ ReplyLost \/ Down \/ Up

Next == Program \/ Step \/ Server

Spec == Init /\ [][Next]_vars

-----------------------------------------------------------------------------
(* Properties *)

\* However calls, retries and failures follow each other, exactly one client
\* end is open while the object is connected and none otherwise, and every
\* statement handle and bind array that was allocated can still be released.
NothingLeaked ==
    /\ ends = IF m_bConnected THEN {m_sttMySQL} ELSE {}
    /\ handles = one(m_psttStmt # NULL)
    /\ blocks = one(m_psttBind # NULL)

\* A statement handle belongs to the session of the connection: none survives
\* the Close of a retry, so no old statement is executed in a new session.
StatementOfSession ==
    m_psttStmt # NULL => m_bConnected /\ m_psttStmt.session = m_sttMySQL

\* What Bind relies on: m_iBindCount is the length of both arrays, also after a
\* Prepare that failed half way.
BindInBounds ==
    /\ Len(m_clsBindList) = m_iBindCount
    /\ m_psttBind = IF m_iBindCount = 0 THEN NULL ELSE m_iBindCount
    /\ m_iBindCount > 0 => m_psttStmt # NULL

\* The server executes the statement of one call once, and a second time only
\* for a statement sent as text, after the reply to the first was lost.
ExecutionsBounded ==
    executions <= 1 + one(call.kind \in Texts /\ lostReply)

\* A call that returns true was executed by the server.
TrueMeansExecuted ==
    (pc = "idle" /\ bRes /\ call.kind \notin {"Connect", "Prepare"}) => executions > 0

\* An argument without a placeholder keeps a statement from being executed.
SurplusRefused ==
    call.kind \in Bounds /\ executions > 0 => call.args <= call.params

\* Whatever happened to the session before the call: while the server stays up,
\* a right statement is executed, exactly once, and all of its result arrives.
Sound(c) ==
    /\ c.sql = "good"
    /\ c.kind # "PrepareExecute"
    /\ c.args <= c.params
    /\ c.kind = "QueryOne" => c.rows > 0 /\ ~c.null
Recovers ==
    (pc = "idle" /\ calls > 0 /\ m_strDbHost /\ ~disturbed /\ Sound(call)) =>
        /\ bRes
        /\ executions = one(call.kind \notin {"Connect", "Prepare"})
        /\ call.kind = "Query" => stopped \/ fetched = call.rows

\* DbMySQLConnection.cpp:115 says Query returns true when it succeeded: FetchRow
\* saw every row unless it asked for no more.
TrueMeansAllRows ==
    (pc = "idle" /\ call.kind = "Query" /\ bRes) => stopped \/ fetched = call.rows
=============================================================================
