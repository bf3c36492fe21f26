--------------------------- MODULE MySQLQueryMonitor ---------------------------
(***************************************************************************)
(* The program MySQLQueryMonitor: a query thread asks a MySQL server every  *)
(* few seconds which statements have been running for how long, keeps the   *)
(* longest in gclsQueryTimeList and sends the window a message to show them.*)
(* The window starts and stops the thread with one button.                  *)
(*                                                                          *)
(* Granularity.  A call of the server, a read of the setup file, a test of  *)
(* gbStop and the handling of a click or of a message are one step each.    *)
(* SendMessage waits until the window's thread handles the message, which   *)
(* it does between clicks and inside a MessageBox, but not while it waits   *)
(* in StopMySQLQueryThread.  A window behind a MessageBox takes no clicks.  *)
(***************************************************************************)
EXTENDS Integers, Sequences, FiniteSets, SequencesExt

CONSTANTS
    Threads,        \* query threads, each used again after it ended
    Sqls,           \* texts of statements
    MaxSecond,      \* bound: longest time of a statement
    MaxBatch,       \* bound: statements one query returns
    Counts,         \* values MaxQueryCount may have in the setup file
    DefaultCount    \* 10 in the code

ASSUME MonitorAssumption ==
    /\ MaxSecond \in Nat /\ MaxBatch \in Nat
    /\ Counts \subseteq Nat \ {0} /\ DefaultCount \in Nat \ {0}
    /\ "user" \notin Threads

VARIABLES
    gbRun, gbStop,      \* of MySQLQueryThread.cpp
    pc,                 \* where a query thread is, "none" before and after
    m_bStart,           \* the button of the window says "Start"
    ui,                 \* what the window's thread is at
    boxes,              \* open boxes, the last in front: of a thread's message or of the user
    m_iMaxQueryCount,
    list, shown,        \* gclsQueryTimeList and the list control
    longest,            \* longest time seen of each statement since the last clear
    least,              \* least m_iMaxQueryCount since then
    alone               \* the threads that live now were never two

flags == <<gbRun, gbStop>>
window == <<m_bStart, ui, boxes>>
seen == <<longest, least>>
vars == <<flags, pc, window, m_iMaxQueryCount, list, shown, seen, alone>>

PC == {"none", "created", "setup", "connect", "test", "query", "refresh", "error", "boxed",
       "sleep", "close"}

Entry == [sql : Sqls, sec : 1..MaxSecond]

TypeOK ==
    /\ gbRun \in BOOLEAN /\ gbStop \in BOOLEAN /\ m_bStart \in BOOLEAN /\ alone \in BOOLEAN
    /\ pc \in [Threads -> PC]
    /\ ui \in {"idle", "stopping", "cancelling", "closed"}
    /\ boxes \in Seq(Threads \cup {"user"})
    /\ m_iMaxQueryCount \in Nat \ {0} /\ least \in 1..m_iMaxQueryCount

Init ==
    /\ gbRun = FALSE /\ gbStop = FALSE /\ m_bStart = TRUE /\ alone = TRUE
    /\ pc = [t \in Threads |-> "none"]
    /\ ui = "idle" /\ boxes = <<>>
    /\ m_iMaxQueryCount = DefaultCount /\ least = DefaultCount
    /\ list = <<>> /\ shown = <<>>
    /\ longest = [s \in Sqls |-> 0]

Stopping == ui \in {"stopping", "cancelling"}

-----------------------------------------------------------------------------
(* CQueryTimeList                                                          *)

SameText(l, q) == {i \in DOMAIN l : l[i].sql = q.sql}
NotLonger(l, q) == {i \in DOMAIN l : q.sec >= l[i].sec}
First(S) == CHOOSE i \in S : \A j \in S : i <= j

\* A statement that is not in the list: before the first that is not longer, or,
\* with room left, at the end.
InsertNew(l, q) ==
    IF NotLonger(l, q) # {} THEN InsertAt(l, First(NotLonger(l, q)), q)
    ELSE IF m_iMaxQueryCount > Len(l) THEN Append(l, q) ELSE l

\* Mutant: the time of a statement that is in the list is not raised.
InsertKeepsTime(l, q) == IF SameText(l, q) # {} THEN l ELSE InsertNew(l, q)

\* Insert( CQueryTime & ): raise the time of a statement that is in the list.
InsertOne(l, q) ==
    IF SameText(l, q) # {}
      THEN [l EXCEPT ![First(SameText(l, q))].sec = IF q.sec > @ THEN q.sec ELSE @]
      ELSE InsertNew(l, q)

\* The list after each row of a batch.
Inserted(l, batch) ==
    LET after[n \in 0..Len(batch)] ==
            IF n = 0 THEN l ELSE InsertOne(after[n - 1], batch[n])
    IN  after

\* list::sort with CQueryTimeCompare: stable, longest first.
Rank(l, i) ==
    Cardinality({j \in DOMAIN l : l[j].sec > l[i].sec \/ (l[j].sec = l[i].sec /\ j <= i)})
Sorted(l) == [k \in DOMAIN l |-> l[CHOOSE i \in DOMAIN l : Rank(l, i) = k]]

Cut(l) == SubSeq(l, 1, IF Len(l) < m_iMaxQueryCount THEN Len(l) ELSE m_iMaxQueryCount)

\* Insert( QUERY_TIME_LIST & ), under the mutex of the list.
Insert(l, batch) == Cut(Sorted(Inserted(l, batch)[Len(batch)]))

\* The rows the server returns; none also when the query fails.
Batches == UNION {[1..n -> Entry] : n \in 0..MaxBatch}

Raised(batch) ==
    [s \in Sqls |->
        LET times == {batch[i].sec : i \in {j \in DOMAIN batch : batch[j].sql = s}}
        IN  CHOOSE m \in times \cup {longest[s]} : \A x \in times \cup {longest[s]} : x <= m]

-----------------------------------------------------------------------------
(* MySQLQueryThread                                                        *)

Goto(t, from, to) == pc[t] = from /\ pc' = [pc EXCEPT ![t] = to]

Run(t) ==
    /\ Goto(t, "created", "setup")
    /\ gbRun' = TRUE
    /\ UNCHANGED <<gbStop, window, m_iMaxQueryCount, list, shown, seen, alone>>

\* MaxQueryCount of the setup file: left alone when it is missing, the default
\* when it is not positive.  The next statement corrects such a value; only the list
\* reads m_iMaxQueryCount, in query threads, so that with one thread nobody sees it.
TakeCount(t) ==
    /\ Goto(t, "setup", "connect")
    /\ m_iMaxQueryCount' \in Counts \cup {m_iMaxQueryCount, DefaultCount}
    /\ least' = IF m_iMaxQueryCount' < least THEN m_iMaxQueryCount' ELSE least

\* CMySQLQueryMonitorSetup::Read( pszFileName )
Read(t) ==
    /\ \/ TakeCount(t)
       \/ Goto(t, "setup", "error") /\ UNCHANGED <<m_iMaxQueryCount, least>>
    /\ UNCHANGED <<flags, window, list, shown, longest, alone>>

Connect(t) ==
    /\ Goto(t, "connect", "test") \/ Goto(t, "connect", "error")
    /\ UNCHANGED <<flags, window, m_iMaxQueryCount, list, shown, seen, alone>>

\* Mutant: the flag is not looked at.
TestNothing(t) ==
    /\ Goto(t, "test", "query")
    /\ UNCHANGED <<flags, window, m_iMaxQueryCount, list, shown, seen, alone>>

Test(t) ==
    /\ Goto(t, "test", IF gbStop THEN "close" ELSE "query")
    /\ UNCHANGED <<flags, window, m_iMaxQueryCount, list, shown, seen, alone>>

\* The query of the process list and the insertion of what it returned.
Query(t) ==
    /\ Goto(t, "query", "refresh")
    /\ \E batch \in Batches : list' = Insert(list, batch) /\ longest' = Raised(batch)
    /\ UNCHANGED <<flags, window, m_iMaxQueryCount, shown, least, alone>>

\* Sleep( 1000 ) until the period is over or gbStop is set.
Wake(t) ==
    /\ Goto(t, "sleep", "test")
    /\ UNCHANGED <<flags, window, m_iMaxQueryCount, list, shown, seen, alone>>

\* Mutant: a thread that ends leaves the flag set.
CloseRunning(t) ==
    /\ Goto(t, "close", "none")
    /\ UNCHANGED <<flags, window, m_iMaxQueryCount, list, shown, seen, alone>>

Close(t) ==
    /\ Goto(t, "close", "none")
    /\ gbRun' = FALSE
    /\ UNCHANGED <<gbStop, window, m_iMaxQueryCount, list, shown, seen, alone>>

-----------------------------------------------------------------------------
(* CMySQLQueryMonitorDlg                                                   *)

Listening == ui = "idle"
Clickable == ui = "idle" /\ boxes = <<>>

\* PARAM_REFRESH.  The thread then sleeps, unless the query took the whole period.
Refresh(t) ==
    /\ Listening
    /\ Goto(t, "refresh", "sleep") \/ Goto(t, "refresh", "test")
    /\ shown' = list
    /\ UNCHANGED <<flags, window, m_iMaxQueryCount, list, seen, alone>>

\* PARAM_SETUP_ERROR and PARAM_CONNECT_ERROR open a box ...
ErrorBox(t) ==
    /\ Listening
    /\ Goto(t, "error", "boxed")
    /\ boxes' = Append(boxes, t)
    /\ UNCHANGED <<flags, m_bStart, ui, m_iMaxQueryCount, list, shown, seen, alone>>

\* Mutant: the button is left as it is.
AnswerErrorOnly(t) == pc' = [pc EXCEPT ![t] = "close"] /\ UNCHANGED m_bStart

\* ... and once it is answered the button says "Start" and the thread goes on.
AnswerError(t) == pc' = [pc EXCEPT ![t] = "close"] /\ m_bStart' = TRUE

CloseBox ==
    /\ ui = "idle" /\ boxes # <<>>
    /\ boxes' = Front(boxes)
    /\ IF Last(boxes) = "user" THEN UNCHANGED <<pc, m_bStart>> ELSE AnswerError(Last(boxes))
    /\ UNCHANGED <<flags, ui, m_iMaxQueryCount, list, shown, seen, alone>>

UserBox == boxes' = Append(boxes, "user")

\* OnNMDblclkSqlList
ClickSql ==
    /\ Clickable /\ shown # <<>>
    /\ UserBox
    /\ UNCHANGED <<flags, pc, m_bStart, ui, m_iMaxQueryCount, list, shown, seen, alone>>

\* OnBnClickedStart with the button at "Start": "already started", or a thread
\* that is created, or not.
ClickStart ==
    /\ Clickable /\ m_bStart
    /\ IF gbRun
         THEN UserBox /\ UNCHANGED <<pc, m_bStart, alone>>
         ELSE \/ \E t \in Threads :
                   /\ Goto(t, "none", "created")
                   /\ m_bStart' = FALSE
                   /\ LET others == {u \in Threads : pc[u] # "none"}
                      IN  alone' = (others = {})
                   /\ UNCHANGED boxes
              \/ UserBox /\ UNCHANGED <<pc, m_bStart, alone>>
    /\ UNCHANGED <<flags, ui, m_iMaxQueryCount, list, shown, seen>>

\* OnBnClickedStart with the button at "Stop", and OnBnClickedCancel: a thread
\* that runs is asked to stop and waited for.
ClickStop ==
    /\ Clickable /\ ~m_bStart
    /\ IF gbRun
         THEN gbStop' = TRUE /\ ui' = "stopping" /\ UNCHANGED m_bStart
         ELSE m_bStart' = TRUE /\ UNCHANGED <<gbStop, ui>>
    /\ UNCHANGED <<gbRun, pc, boxes, m_iMaxQueryCount, list, shown, seen, alone>>

ClickCancel ==
    /\ Clickable
    /\ IF gbRun
         THEN gbStop' = TRUE /\ ui' = "cancelling"
         ELSE ui' = "closed" /\ UNCHANGED gbStop
    /\ UNCHANGED <<gbRun, pc, m_bStart, boxes, m_iMaxQueryCount, list, shown, seen, alone>>

\* The end of StopMySQLQueryThread and of the click.
StopDone ==
    /\ Stopping /\ ~gbRun
    /\ gbStop' = FALSE
    /\ IF ui = "stopping"
         THEN ui' = "idle" /\ m_bStart' = TRUE
         ELSE ui' = "closed" /\ UNCHANGED m_bStart
    /\ UNCHANGED <<gbRun, pc, boxes, m_iMaxQueryCount, list, shown, seen, alone>>

\* OnBnClickedClear
ClickClear ==
    /\ Clickable
    /\ list' = <<>> /\ shown' = <<>>
    /\ longest' = [s \in Sqls |-> 0] /\ least' = m_iMaxQueryCount
    /\ UNCHANGED <<flags, pc, window, m_iMaxQueryCount, alone>>

-----------------------------------------------------------------------------

\* A thread whose message waits goes on when the window handles it.
Thread(t) ==
    \/ Run(t) \/ Read(t) \/ Connect(t) \/ Test(t) \/ Query(t)
    \/ Refresh(t) \/ ErrorBox(t) \/ Wake(t) \/ Close(t)

User ==
    \/ CloseBox \/ ClickSql \/ ClickStart \/ ClickStop \/ ClickCancel \/ ClickClear

\* A closed window ends the program and with it its threads.
Next == ui # "closed" /\ (User \/ StopDone \/ \E t \in Threads : Thread(t))

Spec == Init /\ [][Next]_vars

\* Threads run, the server answers, the window handles what is sent to it; the
\* user need not click anything.
FairSpec ==
    /\ Spec
    /\ \A t \in Threads : WF_vars(ui # "closed" /\ Thread(t))
    /\ WF_vars(StopDone)

-----------------------------------------------------------------------------
(* Properties                                                              *)

\* A statement that is missing from the list had to give way: the list holds as
\* many that ran at least as long as it was ever restricted to.  So many of its
\* first entries tell the longest time of their statement; a later one may have
\* been dropped and have come back with a shorter time.
TopQueries ==
    /\ \A s \in Sqls :
          longest[s] > 0 /\ (\A i \in DOMAIN list : list[i].sql # s)
              => Cardinality({i \in DOMAIN list : list[i].sec >= longest[s]}) >= least
    /\ \A i \in DOMAIN list : i <= least => list[i].sec = longest[list[i].sql]

\* The window shows the list, but for what a waiting message announces.
ShownIsList == (\A t \in Threads : pc[t] # "refresh") => shown = list

\* gbRun tells whether the thread runs, from its first line to its last, as long
\* as no second thread was started before the first had set it.
RunFlagTrue == alone => (gbRun <=> \E t \in Threads : pc[t] \notin {"none", "created"})

\* Whatever ended the threads, the user can start one again.
CanStartAgain == Clickable /\ (\A t \in Threads : pc[t] = "none") => m_bStart

\* A click on Stop or Cancel ends when no thread has passed its test of gbStop
\* and the threads that are starting get their setup and connection.  A thread
\* that is past the test sends a message to the window that waits for it.
Passed(t) == pc[t] \in {"query", "refresh"}
StopEnds ==
    Stopping /\ (\A t \in Threads : ~Passed(t)) ~> ~Stopping \/ \E t \in Threads : pc[t] = "error"

=============================================================================
