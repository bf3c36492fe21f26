------------------------ MODULE MySQLSlaveOverWatcher ------------------------
(***************************************************************************)
(* The service MySQLSlaveOverWatcher: once per period it asks a MySQL      *)
(* replication slave for its status and, while one of the slave's threads  *)
(* reports "No", stops it, skips one event and starts it again.  A changed *)
(* setup file is read again every second; a signal ends the service.       *)
(*                                                                         *)
(* Granularity.  A call of the server is one step, and so are ParseFile,   *)
(* stat and sleep.  A call fails exactly when the server is down, since    *)
(* CDbMySQLConnection reconnects inside the call.  Of the calls of         *)
(* CLog::Print, those that report a failed slave are a step of their own,  *)
(* inside the mutex of CLog: there a signal finds its own thread holding it.*)
(*                                                                         *)
(* The clock counts the seconds in which the file is edited, parsed or     *)
(* looked at by SetFileSizeTime: each of these steps falls into the second *)
(* of the one before it or into a later one, and nothing else matters.  An *)
(* edit leaves the file with the time at which it is made.                 *)
(***************************************************************************)
EXTENDS Integers, Sequences

CONSTANTS
    Files,          \* contents the setup file may have
    DefaultPeriod,  \* 60 in the code
    MaxPeriod,      \* bound: longest period
    MaxEvents,      \* bound: events the master sends
    MaxFaults,      \* bound: failures of the master and of the server
    MaxEdits        \* bound: changes of the setup file

\* The setup file is not there, not XML, without a Db element, without a
\* WatchPeriod in it, or with one (of 0 when it is not positive).
Kinds == {"gone", "broken", "noDb", "noPeriod", "period"}

ASSUME WatcherAssumption ==
    /\ MaxPeriod \in Nat
    /\ Files \subseteq [kind : Kinds, period : 0..MaxPeriod, size : Nat]
    /\ DefaultPeriod \in 1..MaxPeriod
    /\ MaxEvents \in Nat /\ MaxFaults \in Nat /\ MaxEdits \in Nat

VARIABLES
    pc,                 \* where ServiceMain is
    gbStop,
    iSecond,            \* seconds since the last check of the slave
    m_iDbWatchPeriod,
    m_iFileSize,        \* size and time of the setup file at the last stat
    m_iFileTime,
    readAt, statAt,     \* history: second of the last ParseFile and stat that succeeded
    file, time,         \* the setup file, time of its last edit
    now,                \* the clock, in seconds, at the last of these steps
    edits,              \* edits so far
    signalled,          \* a signal was delivered
    io, sql,            \* Slave_IO_Running and Slave_SQL_Running
    relay,              \* events of the relay log: "good" ones apply
    skip,               \* SQL_SLAVE_SKIP_COUNTER
    skipped, wasted,    \* events skipped so far; those that would have applied
    rounds,             \* turns of CheckSlave that set the counter
    sent, faults,       \* events sent, failures so far
    master, up          \* what the master answers; is the server up

service == <<pc, gbStop, iSecond>>
setup == <<m_iDbWatchPeriod, m_iFileSize, m_iFileTime, readAt, statAt, now>>
disk == <<file, time, edits>>
slave == <<io, sql, relay, skip, skipped, wasted>>
world == <<sent, faults, master, up>>
vars == <<service, setup, disk, signalled, slave, rounds, world>>

PC == {"start", "startStamp", "check", "report", "print", "stop", "skip", "startSlave",
       "loop", "change", "parse", "stamp", "blocked", "end"}

Events == {"good", "bad"}

Parses == file.kind \notin {"gone", "broken"}

TypeOK ==
    /\ pc \in PC
    /\ gbStop \in BOOLEAN /\ signalled \in BOOLEAN
    /\ iSecond \in 0..MaxPeriod + 1
    /\ m_iDbWatchPeriod \in 1..MaxPeriod
    /\ m_iFileSize \in Nat /\ m_iFileTime \in Nat
    /\ readAt \in Nat /\ statAt \in Nat
    /\ file \in Files /\ time \in Nat
    /\ now \in Nat /\ edits \in 0..MaxEdits
    /\ io \in {"Yes", "Connecting", "No"} /\ sql \in {"Yes", "No"}
    /\ relay \in Seq(Events)
    /\ skip \in 0..1 /\ skipped \in Nat /\ wasted \in Nat /\ rounds \in Nat
    /\ sent \in 0..MaxEvents /\ faults \in 0..MaxFaults
    /\ master \in {"ok", "unreachable", "refuses"} /\ up \in BOOLEAN

Init ==
    /\ pc = "start"
    /\ gbStop = FALSE /\ signalled = FALSE
    /\ iSecond = 0
    /\ m_iDbWatchPeriod = DefaultPeriod
    /\ m_iFileSize = 0 /\ m_iFileTime = 0
    /\ readAt = 0 /\ statAt = 0
    /\ file \in Files /\ time = 1
    /\ now = 2 /\ edits = 0
    /\ io = "Yes" /\ sql = "Yes" /\ relay = <<>>
    /\ skip = 0 /\ skipped = 0 /\ wasted = 0 /\ rounds = 0
    /\ sent = 0 /\ faults = 0
    /\ master = "ok" /\ up = TRUE

Goto(label) == pc' = label
Clock == now' \in {now, now + 1}
Over == signalled \/ pc = "end"

-----------------------------------------------------------------------------
(* The setup file                                                          *)

\* Read( clsXml ): a period that is not positive becomes 60; one that is missing,
\* or a missing Db element, leaves m_iDbWatchPeriod at what it was.
PeriodOf(period) == IF period > 0 THEN period ELSE DefaultPeriod
TakePeriod ==
    m_iDbWatchPeriod' = IF file.kind = "period" THEN PeriodOf(file.period) ELSE m_iDbWatchPeriod

\* The first Read( pszFileName ): without a file that parses and names the
\* server the service ends.
Start ==
    /\ pc = "start"
    /\ IF Parses /\ file.kind # "noDb"
         THEN TakePeriod /\ readAt' = now /\ Goto("startStamp")
         ELSE UNCHANGED <<m_iDbWatchPeriod, readAt>> /\ Goto("end")
    /\ UNCHANGED <<gbStop, iSecond, m_iFileSize, m_iFileTime, statAt, now, disk, signalled, slave,
                   rounds, world>>

\* SetFileSizeTime: size and time of the file as it is now, not as it was
\* parsed; both stay what they were when there is no file.
SetFileSizeTime(from, to) ==
    /\ pc = from
    /\ IF file.kind = "gone"
         THEN UNCHANGED <<m_iFileSize, m_iFileTime, now, statAt>>
         ELSE Clock /\ m_iFileSize' = file.size /\ m_iFileTime' = time /\ statAt' = now'
    /\ Goto(to)
    /\ UNCHANGED <<gbStop, iSecond, m_iDbWatchPeriod, readAt, disk, signalled, slave, rounds,
                   world>>

\* Mutant: only the size is compared.
ChangedSize == file.kind # "gone" /\ m_iFileSize # file.size

\* The test of IsChange: stat succeeds, and the size or the time differs.
Changed == file.kind # "gone" /\ (m_iFileSize # file.size \/ m_iFileTime # time)

IsChange ==
    /\ pc = "change"
    /\ Goto(IF Changed THEN "parse" ELSE "loop")
    /\ UNCHANGED <<gbStop, iSecond, setup, disk, signalled, slave, rounds, world>>

\* Read( ) of the loop: a file that does not parse is tried again next second.
Read ==
    /\ pc = "parse"
    /\ IF Parses
         THEN TakePeriod /\ Clock /\ readAt' = now' /\ Goto("stamp")
         ELSE UNCHANGED <<m_iDbWatchPeriod, now, readAt>> /\ Goto("loop")
    /\ UNCHANGED <<gbStop, iSecond, m_iFileSize, m_iFileTime, statAt, disk, signalled, slave,
                   rounds, world>>

-----------------------------------------------------------------------------
(* The loop of ServiceMain                                                 *)

Turn(count, checks) ==
    /\ pc = "loop"
    /\ iSecond' = count
    /\ Goto(IF checks THEN "check" ELSE "change")
    /\ UNCHANGED <<gbStop, setup, disk, signalled, slave, rounds, world>>

\* Mutants: the period ends without a check; gbStop is not looked at.
TickUnchecked ==
    /\ ~gbStop
    /\ Turn(IF iSecond + 1 = m_iDbWatchPeriod THEN 0
            ELSE IF iSecond <= MaxPeriod THEN iSecond + 1 ELSE iSecond, FALSE)
TickAlways ==
    Turn(IF iSecond <= MaxPeriod THEN iSecond + 1 ELSE iSecond, iSecond + 1 = m_iDbWatchPeriod)

\* sleep(1), ++iSecond, and the test of the count with "==".  A count above the
\* longest period stays there: the int behind it needs 68 years to come back.
Tick ==
    /\ ~gbStop
    /\ Turn(IF iSecond <= MaxPeriod THEN iSecond + 1 ELSE iSecond, iSecond + 1 = m_iDbWatchPeriod)

End ==
    /\ pc = "loop"
    /\ gbStop
    /\ Goto("end")
    /\ UNCHANGED <<gbStop, iSecond, setup, disk, signalled, slave, rounds, world>>

-----------------------------------------------------------------------------
(* CheckSlave                                                              *)

\* Return to ServiceMain: to the head of the loop from the check before it
\* (the count is 0 only then), to IsChange from a check inside it.
Leave ==
    /\ Goto(IF iSecond = 0 THEN "loop" ELSE "change")
    /\ iSecond' = 0

\* Mutant: only the IO thread is looked at.
IoSaysNo == io = "No"

\* The slave needs help when one of its threads says "No"; "Connecting" is
\* normal, and so is the empty status of a query that failed.
SaysNo == io = "No" \/ sql = "No"

Check ==
    /\ pc = "check"
    /\ IF up /\ SaysNo THEN Goto("report") /\ UNCHANGED iSecond ELSE Leave
    /\ UNCHANGED <<gbStop, setup, disk, signalled, slave, rounds, world>>

\* CLog::Print of the status: the mutex of CLog is acquired, then released.
Report ==
    /\ \/ pc = "report" /\ Goto("print")
       \/ pc = "print" /\ Goto("stop")
    /\ UNCHANGED <<gbStop, iSecond, setup, disk, signalled, slave, rounds, world>>

\* STOP SLAVE, whose result nobody looks at.
StopSlave ==
    /\ pc = "stop"
    /\ IF up THEN io' = "No" /\ sql' = "No" ELSE UNCHANGED <<io, sql>>
    /\ Goto("skip")
    /\ UNCHANGED <<gbStop, iSecond, setup, disk, signalled, relay, skip, skipped, wasted,
                   rounds, world>>

SetCounter == skip' = 1

\* SET GLOBAL SQL_SLAVE_SKIP_COUNTER = 1, refused while the SQL thread runs;
\* its result is not looked at either.
SkipOne ==
    /\ pc = "skip"
    /\ IF up /\ sql = "No"
         THEN SetCounter /\ rounds' = IF rounds <= MaxEvents THEN rounds + 1 ELSE rounds
         ELSE UNCHANGED <<skip, rounds>>
    /\ Goto("startSlave")
    /\ UNCHANGED <<gbStop, iSecond, setup, disk, signalled, io, sql, relay, skipped, wasted,
                   world>>

\* Mutant: the next turn begins without asking for the status.
StartSlaveUnasked ==
    /\ pc = "startSlave"
    /\ IF up THEN sql' = "Yes" /\ io' = "Yes" /\ Goto("stop") /\ UNCHANGED iSecond
             ELSE Leave /\ UNCHANGED <<io, sql>>
    /\ UNCHANGED <<gbStop, setup, disk, signalled, relay, skip, skipped, wasted, rounds, world>>

\* START SLAVE: when it fails CheckSlave gives up, else it asks again after
\* m_iDbReWatchPeriod milliseconds.
StartSlave ==
    /\ pc = "startSlave"
    /\ IF up
         THEN /\ sql' = "Yes"
              /\ io' = CASE master = "ok" -> "Yes"
                         [] master = "unreachable" -> "Connecting"
                         [] master = "refuses" -> "No"
              /\ Goto("check")
              /\ UNCHANGED iSecond
         ELSE Leave /\ UNCHANGED <<io, sql>>
    /\ UNCHANGED <<gbStop, setup, disk, signalled, relay, skip, skipped, wasted, rounds, world>>

-----------------------------------------------------------------------------
(* The world around the service                                            *)

\* LastMethod prints before it sets gbStop, on the thread it interrupts.  Before
\* ServerSignal has run a signal simply ends the process.
Signal ==
    /\ ~signalled
    /\ pc \notin {"end", "blocked"}
    /\ signalled' = TRUE
    /\ CASE pc \in {"start", "startStamp"} -> Goto("end") /\ UNCHANGED gbStop
         [] pc = "print" -> Goto("blocked") /\ UNCHANGED gbStop
         [] OTHER -> gbStop' = TRUE /\ UNCHANGED pc
    /\ UNCHANGED <<iSecond, setup, disk, slave, rounds, world>>

\* Somebody edits the setup file, takes it away or puts it back.
Edit ==
    /\ edits < MaxEdits
    /\ edits' = edits + 1
    /\ file' \in Files
    /\ Clock /\ time' = now'
    /\ UNCHANGED <<service, m_iDbWatchPeriod, m_iFileSize, m_iFileTime, readAt, statAt, signalled,
                   slave, rounds, world>>

\* The slave fetches an event of the master, one that will apply or not.
Fetch ==
    /\ up /\ io = "Yes" /\ master = "ok"
    /\ sent < MaxEvents
    /\ sent' = sent + 1
    /\ \E event \in Events : relay' = Append(relay, event)
    /\ UNCHANGED <<service, setup, disk, signalled, io, sql, skip, skipped, wasted, rounds,
                   faults, master, up>>

\* The SQL thread of the slave: it skips as many events as the counter says and
\* stops at an event it cannot apply.
SkipEvent ==
    /\ skip > 0
    /\ skip' = skip - 1
    /\ relay' = Tail(relay)
    /\ skipped' = skipped + 1
    /\ wasted' = IF Head(relay) = "good" THEN wasted + 1 ELSE wasted
    /\ UNCHANGED sql

ApplyEvent ==
    /\ skip = 0
    /\ IF Head(relay) = "good"
         THEN relay' = Tail(relay) /\ UNCHANGED sql
         ELSE sql' = "No" /\ UNCHANGED relay
    /\ UNCHANGED <<skip, skipped, wasted>>

SqlThread ==
    /\ up /\ sql = "Yes" /\ relay # <<>>
    /\ SkipEvent \/ ApplyEvent
    /\ UNCHANGED <<service, setup, disk, signalled, io, rounds, world>>

\* The master cannot be reached (the slave goes on connecting) or refuses the
\* slave (its IO thread ends), or recovers; the slave's server goes down or up.
MasterFails ==
    /\ faults < MaxFaults /\ master = "ok" /\ up
    /\ faults' = faults + 1
    /\ master' \in {"unreachable", "refuses"}
    /\ io' = IF io # "Yes" THEN io ELSE IF master' = "refuses" THEN "No" ELSE "Connecting"
    /\ UNCHANGED <<service, setup, disk, signalled, sql, relay, skip, skipped, wasted, rounds,
                   sent, up>>

MasterRecovers ==
    /\ master # "ok"
    /\ master' = "ok"
    /\ io' = IF io = "Connecting" THEN "Yes" ELSE io
    /\ UNCHANGED <<service, setup, disk, signalled, sql, relay, skip, skipped, wasted, rounds,
                   sent, faults, up>>

ServerDown ==
    /\ faults < MaxFaults /\ up
    /\ faults' = faults + 1
    /\ up' = FALSE
    /\ UNCHANGED <<service, setup, disk, signalled, slave, rounds, sent, master>>

\* A server that comes back starts its slave threads; the counter is lost.
ServerUp ==
    /\ ~up
    /\ up' = TRUE
    /\ sql' = "Yes" /\ skip' = 0
    /\ io' = CASE master = "ok" -> "Yes"
               [] master = "unreachable" -> "Connecting"
               [] master = "refuses" -> "No"
    /\ UNCHANGED <<service, setup, disk, signalled, relay, skipped, wasted, rounds, sent,
                   faults, master>>

-----------------------------------------------------------------------------

Service ==
    \/ Start \/ SetFileSizeTime("startStamp", "check")
    \/ Tick \/ End \/ IsChange \/ Read \/ SetFileSizeTime("stamp", "loop")
    \/ Check \/ Report \/ StopSlave \/ SkipOne \/ StartSlave

World ==
    \/ Signal \/ Edit \/ Fetch \/ SqlThread
    \/ MasterFails \/ MasterRecovers \/ ServerDown \/ ServerUp

Done == pc \in {"end", "blocked"} /\ UNCHANGED vars

Next == Service \/ World \/ Done

Spec == Init /\ [][Next]_vars

\* The service runs (sleep and the server's answers end), and so does the SQL
\* thread of the slave.  The world need not do anything else.
FairSpec == Spec /\ WF_vars(Service) /\ WF_vars(SqlThread)

-----------------------------------------------------------------------------
(* Properties                                                              *)

\* While master and server never fail, what is skipped is what failed: the
\* status is asked anew before each turn and nothing else stops the SQL thread.
OnlyFailedSkipped == wasted > 0 => faults > 0

\* However often START SLAVE fails and CheckSlave begins again, each turn that
\* sets the counter costs at most one event.
OneSkipPerTurn == skipped + skip <= rounds

\* When IsChange would find nothing, the settings are those of the file, unless
\* its last edit was made in the seconds in which it was read: only such an edit
\* is never seen, one between ParseFile and stat or one in the second of the stat
\* that leaves the size what it was.
Agrees == Parses /\ (file.kind = "period" => m_iDbWatchPeriod = PeriodOf(file.period))
SettingsCurrent ==
    file.kind # "gone" /\ ~Changed /\ time \notin readAt..statAt => Agrees

\* The count has passed the period outside a check: "==" will not meet it again.
InCheck == pc \in {"check", "report", "print", "blocked", "stop", "skip", "startSlave"}
Overrun == iSecond >= m_iDbWatchPeriod /\ ~InCheck

\* The count gets past the period in one way only: a setup file with a
\* shorter period is read.
OverrunOnlyByReload ==
    [][Overrun' /\ ~Overrun => m_iDbWatchPeriod' < m_iDbWatchPeriod]_vars

\* As long as the count is not past the period the next check comes.
CheckComes == ~Overrun ~> pc = "check" \/ Overrun \/ Over

\* A slave whose SQL thread stopped is started again, when master and server
\* stay available and the count does not stay past the period.
SlaveRestarted ==
    <>[](up /\ master = "ok" /\ ~Overrun) => (sql = "No" ~> sql = "Yes" \/ Over)

\* A signal ends the service once the master no longer refuses the slave,
\* unless it came while its own thread was printing.
StopEnds == <>[](master # "refuses") => (signalled ~> pc \in {"end", "blocked"})

\* ReadMe.md:32 says WatchPeriod is the period in which the slave is checked:
\* the service checks again and again.
WatchedForever == []<>(pc = "check" \/ Over)
=============================================================================
