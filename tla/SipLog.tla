------------------------------- MODULE SipLog -------------------------------
(***************************************************************************)
(* CLog of SipPlatform: threads print records into a file of the day in a   *)
(* log folder.  A file that is full is followed by one with the next index, *)
(* and when a file is opened while the folder is over its limit the oldest  *)
(* files are deleted.  CFileLog is a second copy of the same Print.         *)
(*                                                                          *)
(* Granularity.  Print reads the clock without the mutex and then holds the *)
(* mutex twice, to choose the file and to write the record, with other      *)
(* threads in between; each turn of OPEN_FILE is a step, as the limits are  *)
(* set without the mutex.  A record counts 1.  The level of the record is   *)
(* one that is printed.  m_iMaxLogSize is never 0, so the tests for that    *)
(* are left out.  Files that cannot be deleted and records that cannot be   *)
(* written are counted by the code as if they had been.                     *)
(***************************************************************************)
EXTENDS Integers, FiniteSets

CONSTANTS
    Threads,
    NULL,
    MinLogSize, MaxLogSize,     \* MIN_LOG_FILE_SIZE, MAX_LOG_FILE_SIZE
    DefaultLogSize, DefaultFolderSize,
    Files30,                    \* 30 in the code: files the folder has room for
    IntMax,                     \* the largest int
    LogSizes, FolderSizes,      \* arguments of the setters
    MaxDay,                     \* bound: days
    MaxIndex,                   \* bound: no record begins with a higher index
    MaxFaults                   \* bound: removals by others, failed calls

ASSUME LogAssumption ==
    /\ NULL \notin Nat \X Nat
    /\ IsFiniteSet(Threads)
    /\ MinLogSize \in Nat \ {0} /\ MaxLogSize \in Nat /\ MinLogSize <= MaxLogSize
    /\ DefaultLogSize \in MinLogSize..MaxLogSize /\ DefaultFolderSize \in Nat \ {0}
    /\ Files30 \in Nat \ {0} /\ IntMax \in Nat
    /\ LogSizes \subseteq Int /\ FolderSizes \subseteq Nat /\ IsFiniteSet(FolderSizes)
    /\ MaxDay \in Nat \ {0} /\ MaxIndex \in Nat /\ MaxFaults \in Nat

VARIABLES
    pc,                 \* where each thread is in Print
    szDate,             \* the day each thread read from the clock
    m_szDate,           \* the day of the last file, 0 before the first
    m_sttFd,            \* the open file, a pair of day and index, or NULL
    m_iIndex,
    m_iMaxLogSize, m_iLogSize,
    m_iMaxFolderSize, m_iFolderSize,
    today,
    folder,             \* the folder exists
    files,              \* size of each file in it
    gone,               \* records counted that are not in the folder
    kept,               \* records in the folder that are no longer counted
    faults

settings == <<m_iMaxLogSize, m_iMaxFolderSize>>
log == <<m_szDate, m_sttFd, m_iIndex, m_iLogSize, m_iFolderSize>>
disk == <<folder, files, gone, kept>>
vars == <<pc, szDate, settings, log, today, disk, faults>>

File == (1..MaxDay) \X (Nat \ {0})

TypeOK ==
    /\ pc \in [Threads -> {"idle", "enter", "open", "write", "stuck"}]
    /\ szDate \in [Threads -> 1..MaxDay]
    /\ m_szDate \in 0..MaxDay /\ today \in 1..MaxDay
    /\ m_sttFd \in File \cup {NULL}
    /\ m_iIndex \in Nat \ {0}
    /\ m_iLogSize \in Int /\ m_iFolderSize \in Int
    /\ m_iMaxLogSize \in MinLogSize..MaxLogSize
    /\ m_iMaxFolderSize \in Nat
    /\ folder \in BOOLEAN
    /\ DOMAIN files \subseteq File /\ files \in [DOMAIN files -> Nat]
    /\ gone \in Nat /\ kept \in Nat
    /\ faults \in 0..MaxFaults

\* After SetDirectory on a new folder.
Init ==
    /\ pc = [t \in Threads |-> "idle"]
    /\ szDate = [t \in Threads |-> 1]
    /\ m_szDate = 0 /\ m_sttFd = NULL /\ m_iIndex = 1
    /\ m_iMaxLogSize = DefaultLogSize /\ m_iMaxFolderSize = DefaultFolderSize
    /\ m_iLogSize = 0 /\ m_iFolderSize = 0
    /\ today = 1
    /\ folder = TRUE /\ files = [f \in {} |-> 0]
    /\ gone = 0 /\ kept = 0 /\ faults = 0

\* The records of a set of files, each numbered in its file, and how many they are.
Records(sizes, S) == UNION {{f} \X (1..sizes[f]) : f \in S}
Total(sizes, S) == Cardinality(Records(sizes, S))
Only(sizes, S) == [f \in S |-> sizes[f]]
SizeOf(sizes, f) == IF f \in DOMAIN sizes THEN sizes[f] ELSE 0

\* What an int keeps of a product.
Int32(x) == ((x + IntMax + 1) % (2 * (IntMax + 1))) - (IntMax + 1)

-----------------------------------------------------------------------------
(* Settings, written without the mutex when the setup file is read          *)

Clamp(size) ==
    m_iMaxLogSize' = IF size < MinLogSize THEN MinLogSize
                     ELSE IF size > MaxLogSize THEN MaxLogSize ELSE size

SetMaxLogSize ==
    /\ \E size \in LogSizes : Clamp(size)
    /\ UNCHANGED <<pc, szDate, m_iMaxFolderSize, log, today, disk, faults>>

\* Room for 30 files at least; the product is an int.
RaiseToRoom(size) ==
    LET room == Int32(m_iMaxLogSize * Files30)
    IN  m_iMaxFolderSize' = IF size < room THEN room ELSE size

SetMaxFolderSize ==
    /\ \E size \in FolderSizes : RaiseToRoom(size)
    /\ UNCHANGED <<pc, szDate, m_iMaxLogSize, log, today, disk, faults>>

-----------------------------------------------------------------------------
(* Print                                                                    *)

\* A thread in OPEN_FILE holds the mutex, and so does one that waits for it itself.
Free == \A t \in Threads : pc[t] \notin {"open", "stuck"}

Goto(t, from, to) == pc[t] = from /\ pc' = [pc EXCEPT ![t] = to]

Begin(t) ==
    /\ Goto(t, "idle", "enter")
    /\ m_iIndex <= MaxIndex
    /\ szDate' = [szDate EXCEPT ![t] = today]
    /\ UNCHANGED <<settings, log, today, disk, faults>>

\* Mutant: the comparison is the wrong way round.
Newer(f, g) == g[1] < f[1] \/ (f[1] = g[1] /\ g[2] < f[2])

\* LogFileCompare: by day, then by index as a number.
Older(f, g) == f[1] < g[1] \/ (f[1] = g[1] /\ f[2] < g[2])

\* Mutant: nothing is ever deleted.
DeleteNone == {}

OverLimit == m_iMaxFolderSize # 0 /\ m_iFolderSize >= m_iMaxFolderSize

\* DeleteOldFile: the files it removes, oldest first, until the folder is below
\* 80 percent of its limit.
DeleteOldFile ==
    {f \in DOMAIN files :
        /\ OverLimit
        /\ m_iFolderSize - Total(files, {g \in DOMAIN files : Older(g, f)})
              >= (m_iMaxFolderSize * 8) \div 10}

\* unlink may fail and leave some of them.  Their sizes are taken off all the same.
Delete(stay) ==
    /\ stay # {} => faults < MaxFaults
    /\ faults' = IF stay = {} THEN faults ELSE faults + 1
    /\ kept' = kept + Total(files, stay)
    /\ m_iFolderSize' = m_iFolderSize - Total(files, DeleteOldFile)

Left(stay) == (DOMAIN files \ DeleteOldFile) \cup stay

\* The list of the files fails when the folder is not there.  CDirectory prints
\* that with CLog::Print, inside the mutex.
PrintInside(t) ==
    /\ OverLimit /\ ~folder
    /\ Goto(t, "open", "stuck")
    /\ m_iLogSize' = 0 /\ m_sttFd' = NULL
    /\ UNCHANGED <<szDate, settings, m_szDate, m_iIndex, m_iFolderSize, today, disk, faults>>

\* Mutants: a file of just the maximum is not full; an open that failed returns at
\* once, with the mutex.
FullAbove(size) == size > m_iMaxLogSize
FailLocked(t) == m_sttFd' = NULL /\ Goto(t, "open", "stuck")

Full(size) == size >= m_iMaxLogSize

TakeSize(size) == m_iLogSize' = size

\* Records go to the standard output until another file is opened.
Fail(t) == m_sttFd' = NULL /\ Goto(t, "open", "write")

\* The file is full: another turn, with the next index.
NextIndex(sizes) ==
    /\ m_iIndex' = m_iIndex + 1
    /\ m_iLogSize' = 0 /\ m_sttFd' = NULL
    /\ files' = sizes
    /\ UNCHANGED <<pc, m_szDate>>

\* The file has room.
Open(t, file, sizes) ==
    /\ TakeSize(SizeOf(sizes, file))
    /\ \/ /\ folder
          /\ m_sttFd' = file /\ Goto(t, "open", "write")
          /\ files' = [g \in DOMAIN sizes \cup {file} |-> SizeOf(sizes, g)]
       \/ Fail(t) /\ files' = sizes
    /\ m_szDate' = szDate[t]
    /\ UNCHANGED m_iIndex

\* One turn of OPEN_FILE: close the open file, delete old ones, and look at the
\* file with this index.
Turn(t, stay) ==
    LET file == <<szDate[t], m_iIndex>>
        sizes == Only(files, Left(stay))
    IN  /\ Delete(stay)
        /\ \/ Full(SizeOf(sizes, file)) /\ NextIndex(sizes)
           \/ ~Full(SizeOf(sizes, file)) /\ Open(t, file, sizes)

OpenFile(t) ==
    /\ pc[t] = "open"
    /\ \/ /\ folder \/ ~OverLimit
          /\ \E stay \in SUBSET DeleteOldFile : Turn(t, stay)
          /\ UNCHANGED <<szDate, settings, today, folder, gone>>
       \/ PrintInside(t)

\* Inside the mutex for the first time: on to OPEN_FILE on a new day or when the
\* file is full.
Enter(t) ==
    /\ Free
    /\ \/ /\ m_szDate # szDate[t]
          /\ Goto(t, "enter", "open") /\ m_iIndex' = 1
       \/ /\ m_szDate = szDate[t] /\ Full(m_iLogSize)
          /\ Goto(t, "enter", "open") /\ m_iIndex' = m_iIndex + 1
       \/ /\ m_szDate = szDate[t] /\ ~Full(m_iLogSize)
          /\ Goto(t, "enter", "write") /\ UNCHANGED m_iIndex
    /\ UNCHANGED <<szDate, settings, m_szDate, m_sttFd, m_iLogSize, m_iFolderSize>>
    /\ UNCHANGED <<today, disk, faults>>

\* Mutant: the size of the folder is not counted.
CountFileOnly(iWrite) == m_iLogSize' = m_iLogSize + iWrite /\ UNCHANGED m_iFolderSize

Count(iWrite) ==
    /\ m_iLogSize' = m_iLogSize + iWrite
    /\ m_iFolderSize' = m_iFolderSize + iWrite

\* A file that was removed still takes records.
Written ==
    /\ Count(1)
    /\ IF m_sttFd \in DOMAIN files
         THEN files' = [files EXCEPT ![m_sttFd] = @ + 1] /\ UNCHANGED gone
         ELSE gone' = gone + 1 /\ UNCHANGED files
    /\ UNCHANGED <<kept, faults>>

\* Nothing reaches the disk: fflush fails, which is not looked at, or fprintf
\* returns -1, which is added like a length.
NotWritten ==
    /\ faults < MaxFaults /\ faults' = faults + 1
    /\ \/ Count(1) /\ gone' = gone + 1 /\ UNCHANGED kept
       \/ Count(-1) /\ kept' = kept + 1 /\ UNCHANGED gone
    /\ UNCHANGED files

\* Inside the mutex for the second time: the record goes into whatever file is
\* open now.
Write(t) ==
    /\ Free
    /\ Goto(t, "write", "idle")
    /\ \/ m_sttFd = NULL /\ UNCHANGED <<m_iLogSize, m_iFolderSize, files, gone, kept, faults>>
       \/ m_sttFd # NULL /\ (Written \/ NotWritten)
    /\ UNCHANGED <<szDate, settings, m_szDate, m_sttFd, m_iIndex, today, folder>>

-----------------------------------------------------------------------------
(* The world around the log                                                 *)

Midnight ==
    /\ today < MaxDay
    /\ today' = today + 1
    /\ UNCHANGED <<pc, szDate, settings, log, disk, faults>>

\* Somebody clears a file that is not open, or the whole folder.
Remove ==
    /\ faults < MaxFaults
    /\ faults' = faults + 1
    /\ \E f \in DOMAIN files \ {m_sttFd} :
          /\ gone' = gone + files[f]
          /\ files' = Only(files, DOMAIN files \ {f})
    /\ UNCHANGED <<pc, szDate, settings, log, today, folder, kept>>

RemoveFolder ==
    /\ folder /\ faults < MaxFaults
    /\ faults' = faults + 1
    /\ folder' = FALSE
    /\ gone' = gone + Total(files, DOMAIN files)
    /\ files' = [f \in {} |-> 0]
    /\ UNCHANGED <<pc, szDate, settings, log, today, kept>>

MakeFolder ==
    /\ ~folder
    /\ folder' = TRUE
    /\ UNCHANGED <<pc, szDate, settings, log, today, files, gone, kept, faults>>

-----------------------------------------------------------------------------

PrintStep(t) == Begin(t) \/ Enter(t) \/ OpenFile(t) \/ Write(t)

Next ==
    \/ \E t \in Threads : PrintStep(t)
    \/ SetMaxLogSize \/ SetMaxFolderSize
    \/ Midnight \/ Remove \/ RemoveFolder \/ MakeFolder

Spec == Init /\ [][Next]_vars

\* A thread inside Print runs on, and gets the mutex if it is free again and again.
FairSpec ==
    /\ Spec
    /\ \A t \in Threads : WF_vars(OpenFile(t)) /\ SF_vars(Enter(t) \/ Write(t))

-----------------------------------------------------------------------------
(* Properties                                                               *)

\* m_iLogSize is the size of the open file but for records that failed, though
\* threads of two days take turns in opening files and others remove files.
LogSizeExact ==
    m_sttFd \in DOMAIN files =>
        m_iLogSize <= files[m_sttFd] + faults /\ files[m_sttFd] <= m_iLogSize + faults

\* A file grows past its limit by one record of each thread at most: those that
\* had tested the size when the last record before the limit was written.  A
\* failed fprintf counts backwards and makes room for one more.
FileBounded ==
    \A f \in DOMAIN files : files[f] < MaxLogSize + Cardinality(Threads) + faults

\* m_iFolderSize is never read again from the disk.  It is the size of the folder,
\* with what others removed from it and without what could not be deleted.
FolderExact == m_iFolderSize + kept = Total(files, DOMAIN files) + gone

\* Deleting is enough: when a file is opened under a limit, the others are below
\* that limit, but for what is no longer counted.  And 0, no limit at all, is what
\* the setter leaves only if its product does not fit an int.
FolderBounded ==
    [][/\ m_sttFd' \notin {m_sttFd, NULL} /\ m_iMaxFolderSize # 0
            => Total(files', DOMAIN files' \ {m_sttFd'}) < m_iMaxFolderSize + kept'
       /\ m_iMaxFolderSize' = 0 /\ m_iMaxFolderSize # 0
            => m_iMaxLogSize * Files30 > IntMax]_vars

\* The log deletes its oldest files: what it leaves as it is is newer, unless it
\* could not be deleted.  (The newest may be emptied to be opened again.)
OldestDeletedFirst ==
    [][\A f, g \in DOMAIN files :
          faults' = faults /\ SizeOf(files', f) < files[f] /\ SizeOf(files', g) = files[g]
              => files[g] = 0 \/ f[1] < g[1] \/ (f[1] = g[1] /\ f[2] < g[2])]_vars

\* As long as the setters' products fit an int and the file limit is not
\* changed afterwards, the folder has room for 30 files.
RoomFor30 ==
    [][m_iMaxFolderSize' # m_iMaxFolderSize /\ m_iMaxLogSize * Files30 <= IntMax
          => m_iMaxFolderSize' >= m_iMaxLogSize * Files30]_vars

\* A Print that has begun ends, whoever else prints, unless the folder is missing
\* when old files are to be deleted: then the thread waits for itself and
\* everybody for it.
PrintEnds == []folder => \A t \in Threads : pc[t] = "enter" ~> pc[t] = "idle"

\* Log.cpp:435 says that old files are deleted when the folder is larger than its
\* limit.
DeletesOnlyWhenBig ==
    [][faults' = faults /\ (\E f \in DOMAIN files : SizeOf(files', f) < files[f])
          => Total(files, DOMAIN files) >= m_iMaxFolderSize]_vars
=============================================================================
