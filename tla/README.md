# Verification of dbmysqlpool

TLA+ models of the MySQL connection pool library of this repository
(`src/DbMySQLPool`), of the programs built on it (query monitor, slave watcher) and
of what all of them stand on (`src/SipPlatform`, `src/XmlParser`). TLC checks them on
small instances; the main safety properties of all eight component models are
proved by TLAPS for every value of the constants. `PROJECT.json` maps every definition to the
lines it models and lists runs, mutants, findings, hazards and theorems.

## 1. The system

| Component | State | Operations | Used by |
|---|---|---|---|
| Connection pool, `CDbMySQLPool` | `m_clsStandByList` (idle connections, a FIFO), `m_clsUseMap` (handed out), `m_bDestroy`, a mutex | `Create`, `Destroy`, `Select`, `Release`, and `Execute`/`Insert`/`Query`/`QueryOne`, which select into a `CAutoRelease` | threads of a program |
| Connection, `CDbMySQLConnection` | host, `m_bConnected`, the `MYSQL` handle, `m_psttStmt`, `m_psttBind`, `m_iBindCount`, `m_clsBindList` | `Connect`, `Close`, text statements, `Prepare`/`Bind`/`PrepareExecute`/`PrepareClose`, and calls made of them | one thread at a time: through the pool or as the connection of an SQL thread |
| SQL queue, `CDbMySQLQueue` | `m_clsList`, `m_iMaxSize`, a mutex with a condition variable | `Insert`, `Select(bWait)`, `Signal`, `SetMaxSize`, `GetSize` | producers; SQL threads or a program's own consumers |
| SQL threads, `DbMySQLThread.cpp` | `gbStopThread`, `giThreadCount`, `gclsMutex` | `StartDbMySQLThread` (two), `StopDbMySQLThread`, `IsDbMySQLThreadRun`, the thread | a program; they call the queue and a connection each |
| Mutex and condition variable, `SipMutex.cpp` | owner, sleepers | `acquire`, `release`, `wait`, `signal`, `broadcast` | all of the above |
| SQL text helpers, `DbSetData.cpp`, `DbCheckSqlInjection.cpp` | none | pure conversions | programs |
| Query monitor (Windows), `MySQLQueryMonitor` | `gbStop`, `gbRun`, the list of longest queries `gclsQueryTimeList`, the window's rows and its one button | start, stop, cancel, clear; the thread sends every result to the window and waits for it | a user; uses a connection |
| Slave watcher, `MySQLSlaveOverWatcher` | a period and its count of seconds, size and time of the setup file, `gbStop` | once per period ask a replication slave, skip what it failed at, start it again; read a changed setup | uses a connection, XML, log |
| Log, `CLog` | current file and its size, limits of file and folder, size of the folder, a mutex | `Print` with rotation and deletion of old files, setters | everything |
| Server platform | a running flag, the service's state | daemon or service start, signal handler | the slave watcher |
| XML parser and searches, `CXmlElement`, `CXmlSearch` | a tree of elements | `Parse`, `ToString`, `Clear`, searches by name and index | setups |
| String, map, file, socket utilities | buffers | sequential | setups, log |
| Tools (`MySQLAlterTable`, `MySQLLogExecute`, `TestDbMySQLPool`) | none | sequential `main`s | a connection or the pool |
| MySQL client library (`src/mysql`, vendored) | | | the connection |

What is hard in this code, in the order of weight:

* **Interleavings.** `m_bDestroy`, `m_iMaxSize`, `gbStopThread` and
  `giThreadCount` are read without the mutex that guards the data they are
  about; `Create` holds the pool's mutex over network calls, `Destroy` drops and
  takes it again; `Signal` broadcasts without the mutex.
* **Failure.** The server closes a session at any time, also between the
  execution of a statement and its reply; a connect or `pthread_create` fails in
  the middle of a loop; `Destroy` gives up waiting.
* **Protocol.** `Release` of what nobody holds, a prepared statement left over by
  a failed call, a `Query` between `Prepare` and `PrepareExecute`.
* **The window.** A thread that sends a message and a window that waits for the
  thread; message boxes that handle other messages while a handler is not done.
* **Files that others change.** The setup file between its parsing and its stat; log
  files and the log folder while the log counts their sizes.
* **Text that ends early.** The parser calls itself and jumps over what a call
  consumed; a setup may be read while it is being written.
* **Progress.** Polling loops without order, a signal sent only for the first
  statement, threads that must notice a stop while they have nothing to do.

The full list, with the properties that watch each one, is `hazards` in
`PROJECT.json`. Where the code itself does what should not happen (a lost stop, a thread
that waits for itself, a waiter that starves) there is a note instead: no property of the
model can exclude it, and section 6 names it.

What makes each component correct: a pool never shares, loses or deletes a
connection somebody uses, and `Destroy` ends; a queue is a queue and wakes who
must wake; a connection leaks nothing, executes a statement a bounded number of
times, says true only for what was executed, and recovers; the SQL threads count
themselves, lose no statement, and stop; the monitor's list holds the longest
queries, the window shows it and can always be started again; the slave watcher skips
only what failed, one event at a time, and checks again; the log knows the size of its
files and bounds them; what the parser reads is what was written.

## 2. Plan

All modules of the plan are written; the order was the weight of their hazards.

1. `DbMySQLPool`, implementing `PoolOwnership` through `PoolRefinement`; proved.
2. `DbMySQLQueue`, 3. `DbMySQLConnection`, 4. `DbMySQLThread`; proved (safety). Queue
   and threads implement `SqlDelivery` through `QueueRefinement` and `ThreadRefinement`.
5. `MySQLQueryMonitor`: query thread, window, message boxes, list; proved (safety).
6. `MySQLSlaveOverWatcher`: check, period, setup file, signal; proved (safety).
7. `SipLog`: rotation, limits, deletion; proved (safety).
8. `XmlElement`, the scanner as a machine with a stack of calls, proved to stay in
   its text, to advance and to invent nothing; `XmlSearch`, the searches in what was read as
   another stack of calls, proved to find the one right element; `XmlDocument`, writing, with
   what reading has to do with it.

What could follow: an abstract "statement service" (a call that returns true was
executed once or twice, once when undisturbed) for the connection to implement.

Modules that are proved about hold no `RECURSIVE` operator, take their parameters as
`CONSTANTS` with one named assumption, have one action per operation or critical
section, and keep their theorems in a module `...Proofs` of their own.

## 3. The models

### The pool: `DbMySQLPool`

State variables carry the names of the members. `alive` and `leaked` are the heap
(`new`, `delete`), `held` and `auto` what the threads keep: the addresses `Select`
gave them and the `CAutoRelease` of a statement. A critical section that only
touches the containers is one step, enabled while nobody holds the mutex; the
variable `m_clsMutex` is needed only for `Create`, whose section connects to the
server and is as many steps as connections. Every read and write of `m_bDestroy`
is its own step, since no mutex protects it:

| Code | Actions |
|---|---|
| `Create` | `Create` (acquire), `CreateConnect` / `CreateConnectFails` (a turn), `CreateRelease` |
| `Destroy` | `Destroy` (flag), `DestroyPoll` (a turn of the wait), `DestroyClose`, `DestroyEnd` (flag) |
| `Select` | `Select` (first test), `SelectLoop` (the `while` test), `SelectTake`, `SelectNone` |
| `Release` | `Release`, `ReleaseAgain` (an address nobody holds) |
| `Execute`, `Insert`, `Query`, `QueryOne` | `Select` with kind `"auto"`, `SelectTake`, `StatementEnd` |

`PoolOwnership` is the promise: each connection is idle, unknown or owned by one
thread, and changes hands only through idle. `PoolRefinement` maps the pool to it.

Not in the model: `Create` with a count below 1 and `Select`/`Release` of NULL
(they return at once), the branch for a `new` that returns NULL (`new` throws),
the destructor (a `Destroy`), nested `Select`s inside a `FetchRow` callback, and a
second `Release` of a connection that has another owner by then.

### The queue: `DbMySQLQueue`

A statement is the number of the `Insert` that brought it. The two `Insert`s do the
same once the arguments are copied. `InsertLock` reads `m_iMaxSize` the first time,
`InsertDrop`/`InsertAccept` the second time, because `SetMaxSize` takes no mutex.
`SelectEmpty` and `SelectWait` are two steps, because `Signal` takes no mutex.
`wait` may return without a signal (`SpuriousWakeup`), and a woken thread takes the
mutex in competition with the others (`SelectWoken`).

`SqlDelivery` is the promise of queue and SQL threads: statements wait in the order in
which they were accepted, `Take` takes the first, `Finish` ends what was taken, and an
accepted statement is never accepted again. `QueueRefinement` maps the queue to it: the
steps of `Insert` and `Select` that change the list are `Put` and `Take`, all others
stutter, and what a consumer took stays `working`. This is why `DbMySQLThread` may treat
both calls as one step each.

### The connection: `DbMySQLConnection`

One object, used by one thread at a time (which `ExclusiveUse` of the pool grants).
A step is a round trip to the server with the local work up to the next. The
library and the server are the external part: a session dies (`Drop`), a statement
is executed and its reply lost (`ReplyLost`), the server goes `Down` and `Up`.
`ends`, `handles` and `blocks` count what has been opened and not released. A
statement is *good*, refused by the parser, fails when it runs, or has no result where one
is asked for (`noResult`: `mysql_use_result` is NULL, or the result cannot be bound); how
many placeholders, arguments and rows it has, and whether its first value is NULL, which
makes `QueryOne` return false, is all else that is kept of it. The retry of `Query` (line 359-394) and of `Prepare` (480-515) is the counter `i`.
Assumed of the library: `mysql_stmt_init` and `malloc` succeed; a connect
succeeds when the server is up.

### The SQL threads: `DbMySQLThread`

`++` and `--` of `giThreadCount` are a read and a write under `gclsMutex`
(`ReadCount`, `WriteCount`); `TestStop` is the loop's test of `gbStopThread`;
`TakeSql`/`Sleep` are the two outcomes of `Select( , false )`. Both
`StartDbMySQLThread` are `ClearStop` and `CreateThread`/`CreateFails`, in a loop for
the one with a count. `Execute` decides from arguments and placeholders whether
the statement reaches the server; the failures of the server are left to
`DbMySQLConnection`. `ThreadRefinement` maps the module to all of `SqlDelivery`: a
statement is `working` while an SQL thread has it in its `clsData`, and `done` when it was
executed or dropped.

### The query monitor: `MySQLQueryMonitor`

Three kinds of actors: query threads, the window's thread and a user. A thread goes
`Run`, `Read` (setup), `Connect`, then in a loop `Test`, `Query`, the message, and `Wake`
after its sleep, and `Close`. `SendMessage` is the thread at `refresh` or `error` until
the window's thread takes `Refresh` or `ErrorBox`. The window's thread does so when it
is idle and inside a `MessageBox` (`boxes`, the last in front), but not while it waits in
`StopMySQLQueryThread` (`ui` is `"stopping"` or `"cancelling"`, ended by `StopDone`). `ErrorBox`
opens the box, `CloseBox` and `AnswerError` close it and do the rest of the handler. A
thread can be started a second time before the first has set `gbRun`; `alone` says this
has not happened. The list operators (`InsertOne`, `Sorted`, `Cut`) are those of
`CQueryTimeList`; `Inserted` is its loop over the rows, as a function of how many were
inserted; `longest` and `least` only remember what was queried and the smallest
limit the list had. `TakeCount` reads `MaxQueryCount` and corrects a value that is not
positive in one step, where the code has two statements: only `QueryTimeList::Insert` reads
the value, in the query threads, so with one thread nothing comes between; a second thread
(after two starts at once) could see the uncorrected value, and that is left out. Left out
too: layout, the message box for an unreadable list, how the server orders the rows.

### The slave watcher: `MySQLSlaveOverWatcher`

`ServiceMain` and `CheckSlave` are one process (`pc`); every call of the server, `ParseFile`,
`stat` and `sleep` is a step. Beside it run a slave (`SqlThread` applies events or stops at
a bad one, the IO state follows `master`), a server that goes down and up, an editor
that changes the setup file (`Edit`) and `Signal`, which arrives at
any step; inside a `Print` it finds its own thread holding the log's mutex (`"blocked"`),
since the handler of `ServerSignal.cpp` prints.

The setup file has a content (absent, not XML, without `Db`, without `WatchPeriod`, or with
a period), a size, and the time of its last edit in whole seconds. `IsChange` compares size and
time as the code does, and both stay what they were when `stat` fails; a setup without
`WatchPeriod` leaves the period at what it was. `now` is a clock that may or may not reach
the next second at every step that edits, parses or stats the file; `readAt` and `statAt`
remember the seconds of the last `ParseFile` and `stat` that succeeded. So an edit is unseen
when it comes between the two, or after the stat in the same second with the same size.
`SettingsCurrent` says that there are no other unseen edits. An edit stamps the file with the
time it is made; putting an older file in its place (`mv`, `cp -p`) is not in the model.
`MCSlaveOverWatcher` has the contents of the runs. The relay log and the status words are those the code and MySQL use;
a call fails exactly when the server is down.

### The log: `SipLog`

`Print` is `Begin` (the clock, without the mutex), `Enter` (the mutex: is it a new day or is
the file full?), `OpenFile` (with the mutex, one turn from the label `OPEN_FILE`: close the
file, delete old ones, look at the file with this index, which is full, opened, or cannot be
opened) and `Write` (the mutex again: the record). The turns are steps, because the setters take
no mutex and may change the limits between them. A record has size 1; what a set of files holds is the
number of its records (`Total`).

Failures are counted by the code as if nothing had happened, and the model does the same:
`unlink` leaves some of the files (`stay`) whose size is taken off all the same, `fflush` or
`fprintf` do not get the record to the disk (`NotWritten`: the length is added, or the −1 that
was returned). `Remove` and `RemoveFolder` are somebody else. `gone` remembers what is counted and not
in the folder, `kept` what is in the folder and not counted. When the folder is missing
as old files are to be deleted, `CDirectory::FileList` prints inside the mutex (`PrintInside`)
and the thread waits for itself.

`Int32` is the conversion of `m_iMaxLogSize * 30` into an `int`. The setup file of the slave
watcher gives a folder limit of 0 when it has no `MaxFolderSize` (`Setup.cpp:170`), which the
setter is meant to raise to the room for 30 files; a product that overflows to 0 or less leaves
the 0, which is "no limit". The level is not in the model (its test is one line without effect
on the rest), nor are `SetDirectory` at run time and `Release`.

### XML: `XmlElement`, `XmlSearch`, `XmlDocument`

`XmlElement` is `Parse`: one step is one turn of the loop of the innermost call, `frames`
the calls in progress with their locals, `Child` a call and its return what the frame
below adopts. A character is one the scanner distinguishes or one that stands for all
others; the nine characters that open a CDATA section are one character `"C"`, and only
texts that hold them whole are read.

`XmlSearch` is `SelectElement` in its three forms. `XmlSpec` is a `Parse` and then any number
of searches in its element. `calls` are the calls in progress, each with the list of children
it goes through and its iterator; pointers to elements are paths, which is where the iterators
of the calls stand. One step is one turn of the innermost loop: `Hit` returns the element
through all calls, `Count` adds to `iCount` and goes on behind the element, `Descend` calls for
the children, `EndOfList` returns NULL to the caller, which goes on with its next child.
`iCount` is one variable, because the code passes it by reference. Typed wrappers that call
`SelectElement` and read one attribute or the data are not modelled.

`XmlDocument` has what writes a text (`XmlText` for `ToString`, `Wrapped` for
`InsertElementData`). `MCXmlDocument` gives the texts:
every written tree of the sets there, with newlines, nothing or a comment between
elements and a declaration or comment in front, and every beginning of such a text; and deeper
trees without data, whose elements have the same names inside one another, for the searches,
with every beginning of one of them (what a cut text leaves behind is searched too).

## 4. The runs

| Run | Instance | Shows |
|---|---|---|
| `PoolSafety` | 2 clients (2 connections each at most), 1 manager, 3 addresses, up to 2 per `Create`, 2 polls | `ExclusiveUse`, `NoDangling`, `Accounted`, `ImplementsOwnership`, `DestroyEnds`, `NoIdlePassedOver` |
| `Queue` | 2 producers, 2 consumers in a loop, 4 Inserts; limit 0, 1 or 2, possibly lifted while they run | `ImplementsDelivery`, `SomebodyAwake`, `LimitRespected`, `AllTaken` |
| `ConnectionSafety` | 4 calls, 3 faults, 1 placeholder, 2 rows | `NothingLeaked`, `StatementOfSession`, `BindInBounds`, `ExecutionsBounded`, `TrueMeansExecuted`, `Recovers` |
| `ConnectionRows` | 2 calls, 1 fault | refuted: `TrueMeansAllRows` |
| `Threads` | 1 program thread, stops and Inserts by anybody, 2 SQL threads, 2 starts, 2 statements | `CountExact`, `ImplementsDelivery`, `StopEnds`, `QueueServed` |
| `ThreadDropsSql` | 1 program thread, 1 start, 1 statement | refuted: `NoneDropped` |
| `SlaveWatcher` | files of every kind, periods 0, 1 and 2, two sizes; 2 events, 1 fault, 1 edit | `OnlyFailedSkipped`, `SettingsCurrent`, `CheckComes`, `SlaveRestarted`, `StopEnds` |
| `SlaveWatchStops` | no events or faults, 1 edit | refuted: `WatchedForever` |
| `QueryMonitor` | 2 query threads, 3 queries, times 1 and 2, 2 rows per query, lists of 1 and 2 | `TopQueries`, `RunFlagTrue`, `CanStartAgain`, `StopEnds` |
| `Log` | 2 threads, 2 days, 2 indexes, files of 1 or 2 records, folder limits 0 and 1 to be set, room for 2 files, an `int` up to 3, 1 removal or failure | `FileBounded`, `FolderExact`, `FolderBounded`, `OldestDeletedFirst`, `PrintEnds` |
| `LogDeletes` | the same | refuted: `DeletesOnlyWhenBig` |
| `Xml` | trees of two names, up to 2 children and 3 levels, 5 data texts, 3 attribute sets, whole and cut at every character; a new and a used object; searches for 1 to 3 names with indices −1 to 3 in trees of up to 4 levels | `InBounds`, `Faithful`, `CutNeverLies`, `CountsInOrder`, `Advances`, `SearchGoesForward` |

Why the bounds are enough. Two clients and one manager already give every pair of
overlapping calls; three addresses let a second `Create` run while one connection
is in use and one idle; two polls show a `Destroy` that waits and one that gives
up (the code's 500 only repeat the first). Two consumers and two statements are the
least in which a wakeup can be missed, and with four Inserts the queue reaches each limit and
goes past it once the limit is lifted. A limit that is lowered or raised at run
time is not in the runs: a queue may then be longer than a new limit by design.
Four calls are a `Connect` and three statements, so a failed `Prepare` is followed by
a lost session and that by a recovery; three faults exceed the two tries of one
call. Two starts on two SQL threads overlap each other's threads, a failure and a
stop; the program thread is one because `StartDbMySQLThread` shares nothing but
`gbStopThread` with another, which `Stop` changes at any time.
Periods of 1 and 2 are the smallest with a shorter one to change to, in both
directions; one fault and one edit fall on every step, also in the second in which the file is
read and with its size; two events are one to skip and one that must not be skipped. Two query threads are what a start before `gbRun` is set can
make; three queries fill a list of two and push one out. The log's numbers keep the
order of the real ones (smallest file limit below largest, folder below 30 files, the
product above the largest `int`, where it turns negative and a limit of 0 stays 0) and every
file is full after one or two records, so rotation, deletion and a second day meet in every
order; a file goes past its first index by filling up and by being found full; no record begins
behind `MaxIndex`, which ends the run. The
parser's trees contain each kind of element, and cutting at every character ends the
text in every state of the scanner. Four levels and three names let a list of names match on
the way, miss a level, match again below and end inside a match; index 3 is more than
some trees have.

`CHECK_DEADLOCK FALSE` is set for the connection (its program makes `MaxCalls` calls and
stops), the query monitor (a closed window ends the program; a thread past its test and
a window that waits for it stand still, see findings), the log (the days and
indexes end; a thread may wait for itself) and the parser (it returns).

Every property of a passing run is paired with a mutant of the code that breaks it
(`mutants` in `PROJECT.json`; the mutated operators stand beside the originals and
are marked `Mutant`).

### Fairness

* Pool, `FairSpec`: a thread inside a call goes on. `Destroy` and `Select` sleep
  20 ms and test again, a statement on the server ends by its reply or by a
  read or write timeout. Nobody must call again, and a client may keep a connection for
  ever. The mutex is not assumed to be fair: under this fairness one waiter may
  starve while another is served, and `NoIdlePassedOver` is about connections.
* Queue, `LoopSpec`: a call that runs goes on, but a sleeper is woken only by a
  signal; consumers call `Select( , true )` in a loop.
* SQL threads, `FairSpec`: the operating system runs every thread. Stop, start and
  insert are never forced.
* Query monitor, `FairSpec`: threads run, the server answers, and the window handles a
  message when it can; no user must click or answer a box.
* Slave watcher, `FairSpec`: the service and the slave's SQL thread run. Master, server,
  editor and signal are free; where a property needs them to settle it says so
  (`StopEnds`: the master does not refuse the slave for ever; `SlaveRestarted`: server
  and master stay available).
* Log, `FairSpec`: a thread in `OPEN_FILE`, which has the mutex, goes on (weak fairness); one
  that waits for the mutex gets it if it is free again and again (strong fairness, since the
  mutex is held over several steps). No thread must begin a `Print`.

## 5. The proofs

The theorems assume only the named assumption of each module: `NULL` or `Nobody` is
not one of the things it stands beside, the numbers are numbers, and the SQL threads
and the log's threads are finitely many, and texts are sequences of strings.

`DbMySQLPoolProofs`. The inductive invariant `IInv` is `TypeOK`, `ExclusiveUse`,
`Accounted`, `ScopedConnection` and `LeakedApart` (an object whose `Connect` failed is
in no container). `ExclusiveUse` alone is not inductive: `CreateConnect` needs to know
that a fresh address is in no container, which is `Accounted`; `StatementEnd` needs
to know that the address it gives back is the one it took, which is
`ScopedConnection`; and a connection that goes back must not be one of the failed
ones, which is `LeakedApart`. One lemma per operation (`CreateIInv`, `DestroyIInv`,
`SelectIInv`, `ReleaseIInv`) shows that its steps preserve `IInv`; `TypeCorrect`,
`ConnectionsExclusive`, `ConnectionsValid`, `ConnectionsAccounted` and
`StatementsScoped` read their part off it. `PoolImplementsOwnership` shows every step
to be a step or a stutter of `PoolOwnership`.

`DbMySQLQueueProofs`, for any producers, consumers and limits. `IInv` is `TypeOK`,
`NoInsertBeforeSleep`, `SomebodyAwake`, that whoever is inside a critical section owns
the mutex, and that nobody is inside `Insert` before the first one was counted.
`SomebodyAwake` is the delicate one: it holds because a signal is sent when the
queue becomes non-empty and because a consumer falls asleep only with the mutex and
an empty queue, which is `NoInsertBeforeSleep`. `FirstInFirstOut` says that the statements
taken and those that wait are, one behind the other, the accepted ones in their order.
`QueueImplementsDelivery` shows every step to be one of `SqlDelivery` or a stutter: since the
numbers given so far are below the next one (`Numbered`) an Insert puts a statement that
never was there (`AcceptPuts`), and a Select takes the first (`PopTakes`). `LimitKept` holds for limits that are set before the threads run and at
most lifted later; its invariant `LimitSeen` says that a producer between its two
reads of `m_iMaxSize` has seen the limit.

`DbMySQLConnectionProofs`, for any numbers of placeholders, rows, calls and faults.
`IInv` adds three parts to the checked invariants. `Control` says what the place of a
call implies (connected, a statement, no statement). `Executing` says how often the
statement can have been executed at each place: before the first try not at all,
and an execution before the last try lost its reply and with it the session.
`Undisturbed` says that a call during which the server does not fail has a live
session after its first try; `Recovers` follows at the end of the call. There is
one lemma per part and in it one step per action.

`DbMySQLThreadProofs`, for any programs and finitely many SQL threads. `CountExact`
needs `CountOwned`: between the halves of `++` or `--` the thread owns `gclsMutex` and
the value it read is still current. `OnePlace` counts elements and is not inductive;
it follows (`OnePlaceHolds`) from `LastInserted` (the queue holds the last
statements, consecutively), `TakenOrEnded` (all earlier ones are with a thread or
ended, not both) and `Holds` (a thread has a statement exactly while it executes
it, and no two have the same). `ThreadsImplementDelivery` rests on the same invariant:
`OnePlace` makes the number of an Insert a new one (`InsertPuts`), `Holds` makes the
statement that `Select` returns the only one the thread has (`SelectTakes`) and the one it
ends no other's (`ExecuteFinishes`).

`MySQLQueryMonitorProofs`, for any threads, queries and times. `BoxInv`: the boxes in front
of the window belong to threads that wait for their answer, each once, but for
the user's. `AloneInv` says what `gbRun` and the places of the threads have to do with
each other while there is one thread. `ButtonInv` says that the button shows "Stop" only
while a thread lives that has not begun to close. `RunFlagTrue`, `ShownIsList` and
`CanStartAgain` follow.

`LongestStay` (`TopQueries`) is about the list. Its invariant `TopInv` says that the list is
sorted and `Kept`: every statement is in it once and with a time that was seen, and what was
seen and is missing has `Enough` entries that lasted as long. Each operator keeps
`Kept`: raising a time, inserting and sorting move entries to places of their own without
shortening any (`Moves`, `KeptMoves`); a row that finds no room lasts less than a full list
of others; and cutting a sorted list leaves its first entries, which are enough
(`EnoughFirst`). That `Rank` sorts is `RankIsPlace`: it maps places to places one to one,
hence onto all of them. `InsertedRows` unfolds the recursive function `Inserted`; that a
function with its equation exists, and that every row keeps `Kept` (`BatchKeeps`), is shown
by looking at the least number of rows for which it fails, because the library's induction
takes a predicate as a parameter.

`MySQLSlaveOverWatcherProofs`, for any periods, events, faults and edits. `SkipInv` relates
skipped events, the counter and the turns. `Faultless` says what can be said of the slave
while nothing else fails: at `startSlave` the SQL thread is stopped because of the
first event of the relay log. `SettingsInv` says that a file edited before the second it was
parsed in agrees with the settings, and how the times follow one another: the time of the last
stat is not before the file's (`EditsSeen`, which is `SettingsCurrent`, follows, because an edit
after the second of the stat has another time). `CountInv` says that the count is 0 until the first check, so that only a reload can
make the period shorter than the count (`OverrunOnlyByReload`).

`SipLogProofs`, for any threads, limits, days and failures. The invariant is the types,
`LogSizeExact` and `Room`: the size of the open file and the number of threads that are
about to write stay below the largest limit plus one per thread and per failure.
`FileBounded` follows. The size of a set of files is the cardinality of the set of their
records, so what is known of finite sets says what happens to it when a file is deleted,
emptied or grows (`TotalUnion`, `TotalWithout`, `TotalSame`). What one turn of `OPEN_FILE` does to
the files is `TurnFiles`; `TurnKeeps` and `TurnFolder` show that it keeps the invariants.
`FolderInv` is `FolderExact` with the fact that a folder that is missing holds no files.

`FolderStaysBounded` (`FolderBounded`) is about steps: what `DeleteOldFile` leaves on purpose is below
the limit (`LeftBelow`), so that a file that is opened under a limit finds the others below it,
but for what is no longer counted (`TurnBelow`); and only the setter changes the limit
(`OnlySetter`), to one that leaves room where its product fits an `int` (`SetterLeavesRoom`).
That a limit is set is part of the statement: without one nothing is deleted, and the second
half says when a limit gets lost. `DeletesInOrder` (an action property) follows from the order of
`Older`.

`XmlProofs`, for any text and any object. `IInv` says of every call in progress what
`FrameOK` says: it began and a name or value it is reading began in front of the
position, and a type that reads one has a beginning, also behind a comment.
Each lemma `...Step` shows for one kind of turn that it keeps `IInv` and gets on.

`NothingInvented` (`ReadFromText`) says what the element that `Parse` returns has to do with
the text: its name, data and attributes are parts of the text in front of the length returned,
in their order and each value behind its name, and its children come from parts inside
its own that follow one another; the same of each child. An element is a tree of any depth, and
a definition by recursion over trees could not be reasoned about, so `ReadIn` says that
there is a set of elements with their parts, closed under children, that contains it. The
invariant is `ReadInv`: a call has read until where it is, or until where the call it waits
for began (`FrameRead`), and what it took ends in front of the start it will slice from
(`Started`), also across a comment. What such a part is follows from `WithinLonger`: a slice
taken behind the others keeps the order. That every call begins behind its caller's
"<" makes the parts of children properly smaller. `Reads` shows that `XmlSpec` implements the
specification of `Parse` alone, and with it these theorems hold of both.

The searches, for any text, names and index: `AnswersInOrder`, `SearchesGetOn` and
`TheOnlyAnswer`. What a search should give is said without a search: the elements are given by
levels (`Levels`), a list of names means an element when its tags are met greedily on the way
to it (`Meant`), and the answer is the hit with exactly `index` hits `Before` it. The invariant
`SearchInv` says of the calls in progress that each one's list are the children of what its
caller stands at (`StackOK`), that the name it looks for is the first not met on the way
(`CallOK`), and that `iCount` is the number of hits in front of the path. Each kind of step
keeps it because of what happens to the hits in front of the path: a turn to the next child adds
those in the child left (`FrontNext`), which is the child itself when it was counted; a call
adds none (`FrontDown`), a return adds none (`FrontUp`), and at the end of the outermost list
all are in front (`FrontEnd`). Below a counted element there is no other hit, because the names are met as
early as they can be. That there are enough levels comes from `ReadInv`: every level of what
was read is part of a shorter text (`LevelRead`), so depth is bounded by length, and a level
is looked at with the least number for which a statement fails, as above. `TheOnlyAnswer` says
that these conditions allow one answer only: `Before` is a total order of paths
(`BeforeTotal`), there are finitely many hits (`FiniteHits`), and two hits cannot have equally many in
front of them (`OneAnswer`). So the three functions agree wherever their names do.

Only model-checked: liveness (`DestroyEnds`, `NoIdlePassedOver`, `AllTaken`, `QueueServed`,
`StopEnds` of three modules, `CheckComes`, `SlaveRestarted`, `PrintEnds`), for which the
provers have no rules; the properties of `XmlDocument` (`Faithful`, `CutNeverLies`),
whose operators, what a tree is written as, are recursive over trees; and the refutations.

Only proved, and in no run, are the type invariants, the parts of an invariant that a
run's property rests on (`ScopedConnection`, `NoInsertBeforeSleep`, `SurplusRefused`,
`OneSkipPerTurn`, `ShownIsList`, `LogSizeExact`), `Fifo` and `OnePlace`, which
`ImplementsDelivery` of their modules goes beyond, `ReadFromText`, `SearchesAgree`, and
`OverrunOnlyByReload` and `RoomFor30`.

## 6. Findings

Four places where the code does not do what a comment or document of it says; each is
a run that TLC refutes:

1. `Query` returns true after a part of the rows (`ConnectionRows`).
2. Statements without arguments are never executed by the SQL threads, or with an
   argument nobody passed (`ThreadDropsSql`).
3. A setup file with a shorter period may end the checks of the slave for good
   (`SlaveWatchStops`): the count is compared with `==`.
4. Log files are deleted from a folder that is below its limit (`LogDeletes`): what
   others removed and what did not reach the disk stays counted.

Smaller divergences that the models contain and no run states. Pool and threads: one of
two threads that wait in `Select` may lose every race for a connection; the
flag `m_bDestroy` is not tested under the mutex, so a `Select` may succeed after a
`Destroy` has begun (`NoDangling` shows that no deleted connection is handed out), and of
two `Destroy`s the first to end lifts the other's ban; `Select( , true )` of the queue
may sleep although a statement is there, while another consumer is awake; it may
return false after a spurious wakeup; `StartDbMySQLThread` returns true after an error; a
stop is lost to a start before the threads saw it; a created thread that has not run is
not seen by `IsDbMySQLThreadRun`; a `SetMaxSize( 0 )` between the two reads of `Insert`
makes a queue that is then unlimited drop a statement; `QueryOne` with an argument
returns true without a value when its session breaks before the row.

Programs: a query thread that has passed its test of `gbStop` and a window that stops it
wait for each other for ever, which is why `StopEnds` of the monitor excludes such threads;
two quick starts make two query threads; the slave watcher also skips a good event when
only the slave's IO thread says "No" (`OnlyFailedSkipped` holds while nothing else fails);
its loop in `CheckSlave` does not look at `gbStop` as long as the slave reports "No"; a
signal during a `Print` blocks the service on its own mutex; an edit between `ParseFile`
and the stat, or one of the same size in the second of the stat, is not noticed until the
next edit.

Log and XML: `m_iMaxLogSize * 30` overflows for limits of 68.3 MB and more, so that a setup
without `MaxFolderSize` may have no folder limit and nothing is ever deleted; a failed
`fprintf` is counted as −1; a missing log
folder blocks every thread that prints once old files are to be deleted. The parser
accepts a text that ends early (`CutNeverLies` shows that nothing wrong is read) and adds
a child without a name when it ends behind the "<" of an end tag; an end tag is
compared by its beginning; a declaration inside an element resets the scanner, the
text of a comment inside data is kept (so the texts read have them only in front of
and between elements); CDATA is written back without its section, attribute values are not
escaped; elements inside one of the same name are not found by a search
(`XmlSearch.cpp:327`); numbers are written through 11 characters, which cuts long negative ones.

## 7. Not modelled, and why

Nearly two thirds of the lines under `src/` are the vendored headers of the MySQL
client library (third-party; what a connection sees of it is external in
`DbMySQLConnection`). Of the code of the repository itself:

* `DbSetData`, `DbCheckSqlInjection`, `StringUtility`, `SipMd5`, `TimeString`, `StringMap`,
  `MonitorString`: conversions and containers without states, orders or failures; a model
  would repeat their text.
* Typed wrappers of the XML classes (`SelectElementData`, `InsertAttribute` and the like for
  each number type): a conversion and one of the modelled calls.
* `CDirectory`, `CFileUtility`, `SipTcp`, `SipUdp`: single calls of the operating system.
* `CFileLog`: a second copy of the log's rotation that no program uses. `CLog::SetLevel`,
  `SetDirectory` on a log in use, `Release` and the callback for printed lines.
* `ServerMain`, `ServerService`: forking and registering, a sequence of system calls; the
  signal handler is part of the slave watcher's module.
* `MySQLAlterTable`, `MySQLLogExecute`, `TestDbMySQLPool`: sequential programs that make
  statements from text (`MySQLLogExecute` glues what is not a statement of the general log
  to the one before it) and use a connection or the pool as the models' environments do.
* A second `Connect` of a connected object, the setters of parameters, and fewer arguments
  than placeholders beyond "it is executed": no caller does the first, the last is
  decided inside the client library.
