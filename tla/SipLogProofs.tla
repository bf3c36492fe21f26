----------------------------- MODULE SipLogProofs -----------------------------
(***************************************************************************)
(* Proofs about SipLog for any number of threads, any sizes and any bounds: *)
(* the size the log keeps is the size of its open file, no file grows past  *)
(* its limit by more than a record of each thread, the size it keeps of the *)
(* folder is exact, all but for what failed or others removed, and deleting *)
(* the oldest files first keeps the folder below its limit.                 *)
(***************************************************************************)
EXTENDS SipLog, FiniteSetTheorems, TLAPS

-----------------------------------------------------------------------------
(* The invariant                                                           *)

\* The types in four groups: the threads, what Print keeps for the log, its
\* settings, and the disk.
ThreadsOK ==
  /\ pc \in [Threads -> {"idle", "enter", "open", "write", "stuck"}]
  /\ szDate \in [Threads -> 1..MaxDay]
  /\ m_szDate \in 0..MaxDay /\ today \in 1..MaxDay

LogOK ==
  /\ m_sttFd \in File \cup {NULL}
  /\ m_iIndex \in Nat \ {0}
  /\ m_iLogSize \in Int /\ m_iFolderSize \in Int

SettingsOK ==
  /\ m_iMaxLogSize \in MinLogSize..MaxLogSize
  /\ m_iMaxFolderSize \in Nat

DiskOK ==
  /\ folder \in BOOLEAN
  /\ DOMAIN files \subseteq File /\ files \in [DOMAIN files -> Nat]
  /\ IsFiniteSet(DOMAIN files)
  /\ gone \in Nat /\ kept \in Nat
  /\ faults \in 0..MaxFaults

\* The threads that tested the size and have not written their record.
Writers == {t \in Threads : pc[t] = "write"}

\* The open file and the records that are on their way stay below the bound.
Room ==
  /\ FileBounded
  /\ m_sttFd \in DOMAIN files =>
       files[m_sttFd] + Cardinality(Writers) < MaxLogSize + Cardinality(Threads) + faults

IInv == ThreadsOK /\ LogOK /\ SettingsOK /\ DiskOK /\ LogSizeExact /\ Room

-----------------------------------------------------------------------------
(* Sums of sizes                                                           *)

\* A record is its file and its number there.
LEMMA RecordsIn ==
  ASSUME NEW sizes, NEW S, NEW r
  PROVE  r \in Records(sizes, S) <=> \E f \in S : \E n \in 1..sizes[f] : r = <<f, n>>
BY DEF Records

\* The records of two sets of files are those of both.
LEMMA RecordsUnion ==
  ASSUME NEW sizes, NEW S, NEW T
  PROVE  /\ Records(sizes, S \cup T) = Records(sizes, S) \cup Records(sizes, T)
         /\ S \cap T = {} => Records(sizes, S) \cap Records(sizes, T) = {}
<1>1. \A r : r \in Records(sizes, S \cup T) <=> r \in Records(sizes, S) \cup Records(sizes, T)
  BY RecordsIn
<1>2. ASSUME NEW r, r \in Records(sizes, S), r \in Records(sizes, T)
      PROVE  S \cap T # {}
  BY <1>2, RecordsIn
<1>3. QED
  BY <1>1, <1>2

\* One file has as many records as its size says.
LEMMA RecordsOfOne ==
  ASSUME NEW sizes, NEW f, sizes[f] \in Nat
  PROVE  IsFiniteSet(Records(sizes, {f})) /\ Total(sizes, {f}) = sizes[f]
<1> DEFINE numbers == 1..sizes[f]
<1>1. Records(sizes, {f}) = {f} \X numbers
  BY DEF Records
<1>2. IsFiniteSet({f}) /\ Cardinality({f}) = 1
  BY FS_Singleton
<1>3. IsFiniteSet(numbers) /\ Cardinality(numbers) = sizes[f]
  <2> DEFINE n == sizes[f]
  <2>1. 1 \in Int /\ n \in Int /\ n \in Nat
    OBVIOUS
  <2> HIDE DEF n
  <2>2. IsFiniteSet(1..n) /\ Cardinality(1..n) = IF 1 > n THEN 0 ELSE n - 1 + 1
    BY <2>1, FS_Interval
  <2>3. Cardinality(1..n) = n
    BY <2>1, <2>2
  <2>4. QED
    BY <2>2, <2>3 DEF n
<1> HIDE DEF numbers
<1>4. IsFiniteSet({f} \X numbers) /\ Cardinality({f} \X numbers) = 1 * sizes[f]
  BY <1>2, <1>3, FS_Product
<1>5. 1 * sizes[f] = sizes[f]
  OBVIOUS
<1>6. QED
  BY <1>1, <1>4, <1>5 DEF Total

\* A finite set of files has finitely many records: a smallest set that had not
\* would lose one file and still have infinitely many.
LEMMA RecordsFinite ==
  ASSUME NEW sizes, NEW S, IsFiniteSet(S), \A f \in S : sizes[f] \in Nat
  PROVE  IsFiniteSet(Records(sizes, S))
<1> DEFINE bad == {T \in SUBSET S : ~IsFiniteSet(Records(sizes, T))}
<1> SUFFICES ASSUME bad # {} PROVE FALSE
  OBVIOUS
<1>1. IsWellFoundedOn(StrictSubsetOrdering(S), SUBSET S)
  <2>1. FiniteSubsetsOf(S) = SUBSET S
    BY FS_FiniteSubsetsOfFinite
  <2>2. IsWellFoundedOn(StrictSubsetOrdering(S), FiniteSubsetsOf(S))
    BY FS_StrictSubsetOrderingWellFounded
  <2>3. QED
    BY <2>1, <2>2
<1>2. PICK T \in bad : \A U \in bad : <<U, T>> \notin StrictSubsetOrdering(S)
  <2>1. bad \subseteq SUBSET S
    OBVIOUS
  <2> HIDE DEF bad
  <2>2. QED
    BY <1>1, <2>1, WFMin
<1>3. Records(sizes, {}) = {}
  BY RecordsIn
<1>4. PICK f \in T : TRUE
  BY <1>2, <1>3, FS_EmptySet
<1>5. T \ {f} \notin bad
  <2>1. <<T \ {f}, T>> \in StrictSubsetOrdering(S)
    BY <1>2, <1>4 DEF StrictSubsetOrdering
  <2>2. QED
    BY <1>2, <2>1
<1>6. IsFiniteSet(Records(sizes, T \ {f})) /\ IsFiniteSet(Records(sizes, {f}))
  BY <1>2, <1>4, <1>5, RecordsOfOne
<1>7. Records(sizes, T) = Records(sizes, T \ {f}) \cup Records(sizes, {f})
  <2>1. T = (T \ {f}) \cup {f}
    BY <1>4
  <2>2. QED
    BY <2>1, RecordsUnion
<1>8. QED
  BY <1>2, <1>6, <1>7, FS_Union

\* Sizes of disjoint sets of files add up.
LEMMA TotalUnion ==
  ASSUME NEW sizes, NEW S, IsFiniteSet(S), NEW T, IsFiniteSet(T), S \cap T = {},
         \A f \in S \cup T : sizes[f] \in Nat
  PROVE  /\ Total(sizes, S) \in Nat /\ Total(sizes, T) \in Nat
         /\ Total(sizes, S \cup T) = Total(sizes, S) + Total(sizes, T)
<1>1. IsFiniteSet(Records(sizes, S)) /\ IsFiniteSet(Records(sizes, T))
  BY RecordsFinite
<1>2. Records(sizes, S) \cap Records(sizes, T) = {}
  BY RecordsUnion
<1>3. Cardinality(Records(sizes, S)) \in Nat /\ Cardinality(Records(sizes, T)) \in Nat
  BY <1>1, FS_CardinalityType
<1>4. Cardinality(Records(sizes, S) \cup Records(sizes, T))
        = Cardinality(Records(sizes, S)) + Cardinality(Records(sizes, T)) - Cardinality({})
  BY <1>1, <1>2, FS_Union
<1>5. Cardinality({}) = 0
  BY FS_EmptySet
<1>6. Cardinality(Records(sizes, S) \cup Records(sizes, T))
        = Cardinality(Records(sizes, S)) + Cardinality(Records(sizes, T))
  BY <1>3, <1>4, <1>5
<1>7. Records(sizes, S \cup T) = Records(sizes, S) \cup Records(sizes, T)
  BY RecordsUnion
<1>8. QED
  BY <1>3, <1>6, <1>7 DEF Total

\* The size of a set of files is a number, and no smaller than that of a part.
LEMMA TotalPart ==
  ASSUME NEW sizes, NEW S, IsFiniteSet(S), \A f \in S : sizes[f] \in Nat,
         NEW T, T \subseteq S
  PROVE  /\ Total(sizes, S) \in Nat /\ Total(sizes, T) \in Nat
         /\ Total(sizes, S \ T) \in Nat
         /\ Total(sizes, S) = Total(sizes, T) + Total(sizes, S \ T)
         /\ Total(sizes, T) <= Total(sizes, S)
<1>1. IsFiniteSet(T) /\ IsFiniteSet(S \ T)
  BY FS_Subset
<1>2. S = T \cup (S \ T) /\ T \cap (S \ T) = {}
  OBVIOUS
<1>3. /\ Total(sizes, T) \in Nat /\ Total(sizes, S \ T) \in Nat
      /\ Total(sizes, T \cup (S \ T)) = Total(sizes, T) + Total(sizes, S \ T)
  BY <1>1, <1>2, TotalUnion
<1>4. QED
  BY <1>2, <1>3

\* One file more or less.
LEMMA TotalWithout ==
  ASSUME NEW sizes, NEW S, IsFiniteSet(S), \A f \in S : sizes[f] \in Nat, NEW g \in S
  PROVE  Total(sizes, S) = sizes[g] + Total(sizes, S \ {g})
<1>1. {g} \subseteq S
  OBVIOUS
<1>2. Total(sizes, S) = Total(sizes, {g}) + Total(sizes, S \ {g})
  BY <1>1, TotalPart
<1>3. QED
  BY <1>2, RecordsOfOne

\* The sum depends on the sizes of its files alone, and no file has size 0.
LEMMA TotalSame ==
  ASSUME NEW sizes, NEW other, NEW S, \A f \in S : other[f] = sizes[f]
  PROVE  Total(other, S) = Total(sizes, S)
<1>1. \A r : r \in Records(other, S) <=> r \in Records(sizes, S)
  BY RecordsIn
<1>2. QED
  BY <1>1 DEF Total

LEMMA TotalEmpty == ASSUME NEW sizes PROVE Total(sizes, {}) = 0
<1>1. Records(sizes, {}) = {}
  BY RecordsIn
<1>2. QED
  BY <1>1, FS_EmptySet DEF Total

\* A finite set that is not empty has a least element in an order that is total on
\* it: a smallest set that had none would lose one element and still have none.
LEMMA LeastExists ==
  ASSUME NEW S, IsFiniteSet(S), S # {}, NEW R,
         \A x, y \in S : x = y \/ <<x, y>> \in R \/ <<y, x>> \in R,
         \A x, y, z \in S : <<x, y>> \in R /\ <<y, z>> \in R => <<x, z>> \in R
  PROVE  \E m \in S : \A x \in S : x = m \/ <<m, x>> \in R
<1> DEFINE bad == {T \in SUBSET S : T # {} /\ ~\E m \in T : \A x \in T : x = m \/ <<m, x>> \in R}
<1> SUFFICES ASSUME bad # {} PROVE FALSE
  OBVIOUS
<1>1. IsWellFoundedOn(StrictSubsetOrdering(S), SUBSET S)
  <2>1. FiniteSubsetsOf(S) = SUBSET S
    BY FS_FiniteSubsetsOfFinite
  <2>2. IsWellFoundedOn(StrictSubsetOrdering(S), FiniteSubsetsOf(S))
    BY FS_StrictSubsetOrderingWellFounded
  <2>3. QED
    BY <2>1, <2>2
<1>2. PICK T \in bad : \A U \in bad : <<U, T>> \notin StrictSubsetOrdering(S)
  <2>1. bad \subseteq SUBSET S
    OBVIOUS
  <2> HIDE DEF bad
  <2>2. QED
    BY <1>1, <2>1, WFMin
<1>3. PICK e \in T : TRUE
  BY <1>2
<1> DEFINE U == T \ {e}
<1>4. U # {}
  BY <1>2, <1>3
<1>5. U \notin bad
  <2>1. <<U, T>> \in StrictSubsetOrdering(S)
    BY <1>2, <1>3 DEF StrictSubsetOrdering
  <2>2. QED
    BY <1>2, <2>1
<1>6. PICK m \in U : \A x \in U : x = m \/ <<m, x>> \in R
  BY <1>2, <1>4, <1>5
<1>7. m \in S /\ e \in S /\ m # e /\ \A x \in T : x \in S
  BY <1>2, <1>3, <1>6
<1>8. CASE <<m, e>> \in R
  BY <1>2, <1>6, <1>7, <1>8
<1>9. CASE <<e, m>> \in R
  <2>1. \A x \in T : x = e \/ <<e, x>> \in R
    BY <1>6, <1>7, <1>9
  <2>2. QED
    BY <1>2, <1>3, <2>1
<1>10. QED
  BY <1>7, <1>8, <1>9

-----------------------------------------------------------------------------
(* Threads and files                                                       *)

\* NULL is not a file.
LEMMA NullIsNoFile == NULL \notin File
BY LogAssumption DEF File

\* The writers are some of the threads, now and after a step.
LEMMA WritersBounded ==
  /\ Cardinality(Threads) \in Nat
  /\ IsFiniteSet(Writers) /\ Cardinality(Writers) \in Nat
  /\ Cardinality(Writers) <= Cardinality(Threads)
  /\ Cardinality(Writers') <= Cardinality(Threads) /\ Cardinality(Writers') \in Nat
<1>1. IsFiniteSet(Threads) /\ Cardinality(Threads) \in Nat
  BY LogAssumption, FS_CardinalityType
<1>2. Writers \subseteq Threads /\ Writers' \subseteq Threads
  BY DEF Writers
<1>3. /\ IsFiniteSet(Writers) /\ Cardinality(Writers) <= Cardinality(Threads)
      /\ IsFiniteSet(Writers') /\ Cardinality(Writers') <= Cardinality(Threads)
  BY <1>1, <1>2, FS_Subset
<1>4. QED
  BY <1>1, <1>3, FS_CardinalityType

\* A thread that has written its record is no longer on its way.
LEMMA WriterLeaves ==
  ASSUME ThreadsOK, NEW t \in Threads, Goto(t, "write", "idle")
  PROVE  /\ Cardinality(Writers) >= 1
         /\ Cardinality(Writers') = Cardinality(Writers) - 1
<1>1. t \in Writers /\ Writers' = Writers \ {t}
  BY DEF Writers, Goto, ThreadsOK
<1>2. /\ Cardinality(Writers \ {t}) = Cardinality(Writers) - 1
      /\ IsFiniteSet(Writers \ {t})
  BY <1>1, WritersBounded, FS_RemoveElement
<1>3. Cardinality(Writers \ {t}) \in Nat
  BY <1>2, FS_CardinalityType
<1>4. QED
  BY <1>1, <1>2, <1>3, WritersBounded

\* The limit of a file is a number of bytes the setters allow.
LEMMA SizesAreNat == /\ MinLogSize \in Nat /\ MaxLogSize \in Nat /\ MaxDay \in Nat
                     /\ MaxFaults \in Nat
BY LogAssumption

\* The files are finitely many and have sizes.
LEMMA FilesOK ==
  ASSUME IInv
  PROVE  /\ IsFiniteSet(DOMAIN files) /\ \A f \in DOMAIN files : files[f] \in Nat
         /\ DOMAIN files \subseteq File
         /\ Total(files, DOMAIN files) \in Nat
         /\ \A S : S \subseteq DOMAIN files =>
              /\ Total(files, S) \in Nat /\ Total(files, DOMAIN files \ S) \in Nat
              /\ Total(files, DOMAIN files) = Total(files, S) + Total(files, DOMAIN files \ S)
<1>1. /\ IsFiniteSet(DOMAIN files) /\ \A f \in DOMAIN files : files[f] \in Nat
      /\ DOMAIN files \subseteq File
  BY DEF IInv, DiskOK
<1>2. Total(files, DOMAIN files) \in Nat
  BY <1>1, TotalPart
<1>3. ASSUME NEW S, S \subseteq DOMAIN files
      PROVE  /\ Total(files, S) \in Nat /\ Total(files, DOMAIN files \ S) \in Nat
             /\ Total(files, DOMAIN files) = Total(files, S) + Total(files, DOMAIN files \ S)
  <2> DEFINE all == DOMAIN files
  <2>1. IsFiniteSet(all) /\ (\A f \in all : files[f] \in Nat) /\ S \subseteq all
    BY <1>1, <1>3
  <2> HIDE DEF all
  <2>2. /\ Total(files, S) \in Nat /\ Total(files, all \ S) \in Nat
        /\ Total(files, all) = Total(files, S) + Total(files, all \ S)
    BY <2>1, TotalPart
  <2>3. QED
    BY <2>2 DEF all
<1>4. QED
  BY <1>1, <1>2, <1>3

\* A step that leaves the open file, all sizes and the writers alone.
LEMMA ElsewhereKeeps ==
  ASSUME IInv, UNCHANGED <<m_sttFd, m_iLogSize, m_iFolderSize, files, gone, kept, faults>>,
         Writers' = Writers, m_iIndex' \in Nat \ {0},
         ThreadsOK', SettingsOK', folder' \in BOOLEAN
  PROVE  IInv'
<1>1. LogOK' /\ DiskOK'
  BY DEF IInv, LogOK, DiskOK, File
<1>2. LogSizeExact'
  BY DEF IInv, LogSizeExact
<1>3. Room'
  BY DEF IInv, Room, FileBounded
<1>4. QED
  BY <1>1, <1>2, <1>3 DEF IInv

-----------------------------------------------------------------------------
(* Opening a file                                                          *)

\* Going on inside Print keeps the threads' types.
LEMMA GotoOK ==
  ASSUME ThreadsOK, NEW t \in Threads, NEW from,
         NEW to \in {"idle", "enter", "open", "write", "stuck"}, Goto(t, from, to)
  PROVE  pc' \in [Threads -> {"idle", "enter", "open", "write", "stuck"}]
BY DEF ThreadsOK, Goto

\* The sizes of the files that are left, and of one that may not be there yet.
LEMMA SizesOK ==
  ASSUME IInv, NEW left, left \subseteq DOMAIN files, NEW g
  PROVE  /\ IsFiniteSet(left) /\ left \subseteq File
         /\ DOMAIN Only(files, left) = left
         /\ \A h \in left : Only(files, left)[h] = files[h] /\ files[h] \in Nat
         /\ SizeOf(Only(files, left), g) \in Nat
         /\ g \in left => SizeOf(Only(files, left), g) = files[g]
         /\ g \notin left => SizeOf(Only(files, left), g) = 0
<1>1. \A h \in DOMAIN files : files[h] \in Nat
  BY DEF IInv, DiskOK
<1>2. IsFiniteSet(left) /\ left \subseteq File
  BY FS_Subset DEF IInv, DiskOK
<1>3. DOMAIN Only(files, left) = left /\ \A h \in left : Only(files, left)[h] = files[h]
  BY DEF Only
<1>4. QED
  BY <1>1, <1>2, <1>3 DEF SizeOf

\* Deleting, failed or not, leaves some of the files and moves the counters.
LEMMA DeleteOK ==
  ASSUME IInv, NEW stay \in SUBSET DeleteOldFile, Delete(stay)
  PROVE  /\ Left(stay) \subseteq DOMAIN files
         /\ DeleteOldFile \subseteq DOMAIN files
         /\ m_iFolderSize' \in Int /\ kept' \in Nat
         /\ faults' \in 0..MaxFaults /\ faults <= faults'
<1>1. DeleteOldFile \subseteq DOMAIN files
  BY DEF DeleteOldFile
<1>2. Left(stay) \subseteq DOMAIN files
  BY <1>1 DEF Left
<1>3. Total(files, DeleteOldFile) \in Nat /\ Total(files, stay) \in Nat
  BY <1>1, FilesOK
<1>4. m_iFolderSize' \in Int /\ kept' \in Nat
  BY <1>3 DEF Delete, IInv, LogOK, DiskOK
<1>5. faults' \in 0..MaxFaults /\ faults <= faults'
  BY SizesAreNat DEF Delete, IInv, DiskOK
<1>6. QED
  BY <1>1, <1>2, <1>4, <1>5

\* What one turn of OPEN_FILE does to the files: those that are left keep their
\* sizes, and an empty one may come.
LEMMA TurnFiles ==
  ASSUME IInv, NEW t \in Threads, NEW stay \in SUBSET DeleteOldFile, Turn(t, stay)
  PROVE  /\ Left(stay) \subseteq DOMAIN files'
         /\ DOMAIN files' \subseteq Left(stay) \cup {<<szDate[t], m_iIndex>>}
         /\ \A g \in Left(stay) : files'[g] = files[g]
         /\ \A g \in DOMAIN files' \ Left(stay) : files'[g] = 0
         /\ IsFiniteSet(DOMAIN files') /\ files' \in [DOMAIN files' -> Nat]
         /\ ~folder => DOMAIN files' = Left(stay)
<1> DEFINE left == Left(stay)
           sizes == Only(files, left)
           file == <<szDate[t], m_iIndex>>
<1>1. \/ folder /\ files' = [g \in DOMAIN sizes \cup {file} |-> SizeOf(sizes, g)]
      \/ files' = sizes
  BY DEF Turn, NextIndex, Open, Fail
<1>2. left \subseteq DOMAIN files
  BY DeleteOK DEF Turn
<1> HIDE DEF left
<1>3. /\ DOMAIN sizes = left /\ IsFiniteSet(left) /\ IsFiniteSet(left \cup {file})
      /\ \A g \in left : SizeOf(sizes, g) = files[g] /\ sizes[g] = files[g] /\ files[g] \in Nat
  BY <1>2, SizesOK, FS_AddElement
<1>4. \A g : g \notin left => SizeOf(sizes, g) = 0
  BY <1>2, SizesOK
<1>5. sizes = [g \in left |-> files[g]]
  BY DEF Only
<1> HIDE DEF sizes, file
<1>6. CASE folder /\ files' = [g \in DOMAIN sizes \cup {file} |-> SizeOf(sizes, g)]
  BY <1>3, <1>4, <1>6 DEF left, file
<1>7. CASE files' = sizes
  <2>1. DOMAIN files' = left /\ files' \in [left -> Nat]
    BY <1>3, <1>5, <1>7
  <2>2. QED
    BY <1>3, <1>7, <2>1 DEF left
<1>8. QED
  BY <1>1, <1>6, <1>7

\* A turn of OPEN_FILE keeps the invariant, whether it finds a file that has room,
\* cannot open it or goes on to the next index.
LEMMA TurnKeeps ==
  ASSUME IInv, NEW t \in Threads, pc[t] = "open", NEW stay \in SUBSET DeleteOldFile,
         Turn(t, stay), UNCHANGED <<szDate, settings, today, folder, gone>>
  PROVE  IInv'
<1> DEFINE left == Left(stay)
           sizes == Only(files, left)
           file == <<szDate[t], m_iIndex>>
           size == SizeOf(sizes, file)
<1>1. /\ left \subseteq DOMAIN files
      /\ m_iFolderSize' \in Int /\ kept' \in Nat
      /\ faults' \in 0..MaxFaults /\ faults <= faults'
  BY DeleteOK DEF Turn
<1>2. /\ left \subseteq DOMAIN files' /\ DOMAIN files' \subseteq left \cup {file}
      /\ \A g \in left : files'[g] = files[g]
      /\ \A g \in DOMAIN files' \ left : files'[g] = 0
      /\ IsFiniteSet(DOMAIN files') /\ files' \in [DOMAIN files' -> Nat]
  BY TurnFiles
<1>3. \/ Full(size) /\ NextIndex(sizes)
      \/ ~Full(size) /\ Open(t, file, sizes)
  BY DEF Turn
<1> HIDE DEF left
<1>4. size \in Nat /\ IsFiniteSet(left) /\ left \subseteq File
  BY <1>1, SizesOK
<1>5. file \in File
  BY DEF IInv, ThreadsOK, LogOK, File
<1>6. DiskOK' /\ SettingsOK'
  BY <1>1, <1>2, <1>4, <1>5 DEF IInv, DiskOK, SettingsOK, settings, File
<1>7. \A g \in DOMAIN files' : files'[g] < MaxLogSize + Cardinality(Threads) + faults'
  <2>1. \A g \in left : files'[g] < MaxLogSize + Cardinality(Threads) + faults
    BY <1>1, <1>2 DEF IInv, Room, FileBounded
  <2>2. 0 < MaxLogSize + Cardinality(Threads) + faults
    BY LogAssumption, WritersBounded DEF IInv, DiskOK
  <2>3. faults \in Nat /\ faults' \in Nat /\ \A g \in DOMAIN files' : files'[g] \in Nat
    BY <1>1, <1>2 DEF IInv, DiskOK
  <2>4. \A g \in DOMAIN files' : files'[g] < MaxLogSize + Cardinality(Threads) + faults
    BY <1>2, <2>1, <2>2
  <2>5. QED
    BY <1>1, <2>3, <2>4, SizesAreNat, WritersBounded
<1>8. FileBounded'
  BY <1>7 DEF FileBounded
<1>9. CASE m_sttFd' = NULL /\ m_iLogSize' \in Int /\ m_iIndex' \in Nat \ {0} /\ ThreadsOK'
  <2>1. m_sttFd' \notin DOMAIN files'
    BY <1>2, <1>4, <1>5, <1>9, NullIsNoFile
  <2>2. LogOK' /\ LogSizeExact' /\ Room'
    BY <1>1, <1>8, <1>9, <2>1 DEF LogOK, LogSizeExact, Room
  <2>3. QED
    BY <1>6, <1>9, <2>2 DEF IInv
<1>10. CASE Full(size) /\ NextIndex(sizes)
  <2>1. m_sttFd' = NULL /\ m_iLogSize' = 0 /\ m_iIndex' = m_iIndex + 1
        /\ UNCHANGED <<pc, m_szDate>>
    BY <1>10 DEF NextIndex
  <2>2. ThreadsOK' /\ m_iIndex' \in Nat \ {0}
    BY <2>1 DEF IInv, ThreadsOK, LogOK
  <2>3. QED
    BY <1>9, <2>1, <2>2
<1>11. CASE ~Full(size) /\ Open(t, file, sizes)
  <2>1. m_iLogSize' = size /\ m_szDate' = szDate[t] /\ m_iIndex' = m_iIndex
        /\ Goto(t, "open", "write")
    BY <1>11 DEF Open, TakeSize, Fail
  <2>2. ThreadsOK'
    BY <2>1, GotoOK DEF IInv, ThreadsOK
  <2>3. m_iIndex' \in Nat \ {0} /\ m_iLogSize' \in Int
    BY <1>4, <2>1 DEF IInv, LogOK
  <2>4. CASE m_sttFd' = NULL
    BY <1>9, <2>2, <2>3, <2>4
  <2>5. CASE /\ m_sttFd' = file
             /\ files' = [g \in DOMAIN sizes \cup {file} |-> SizeOf(sizes, g)]
    <3>1. file \in DOMAIN files' /\ files'[file] = size
      BY <2>5
    <3>2. size < MaxLogSize
      <4>1. ~(size >= m_iMaxLogSize)
        BY <1>11 DEF Full
      <4>2. QED
        BY <1>4, <4>1, SizesAreNat DEF IInv, SettingsOK
    <3> HIDE DEF size, file
    <3>3. LogOK'
      BY <1>1, <1>5, <2>3, <2>5 DEF LogOK, File
    <3>4. LogSizeExact'
      <4>1. faults' \in Nat
        BY <1>1, SizesAreNat
      <4>2. size <= size + faults'
        <5>1. \A n \in Nat : size <= size + n
          BY <1>4
        <5>2. QED
          BY <4>1, <5>1
      <4>3. m_iLogSize' = size /\ files'[m_sttFd'] = size
        BY <2>1, <2>5, <3>1 DEF size
      <4>4. m_iLogSize' <= files'[m_sttFd'] + faults' /\ files'[m_sttFd'] <= m_iLogSize' + faults'
        BY <4>2, <4>3, Zenon
      <4>5. QED
        BY <4>4, Zenon DEF LogSizeExact
    <3>5. size + Cardinality(Writers') < MaxLogSize + Cardinality(Threads) + faults'
      BY <1>1, <1>4, <3>2, WritersBounded, SizesAreNat
    <3>6. Room'
      BY <1>8, <2>5, <3>1, <3>5 DEF Room
    <3>7. QED
      BY <1>6, <2>2, <3>3, <3>4, <3>6 DEF IInv
  <2>6. QED
    BY <1>11, <2>4, <2>5 DEF Open, Fail
<1>12. QED
  BY <1>3, <1>10, <1>11

LEMMA PrintInsideKeeps ==
  ASSUME IInv, NEW t \in Threads, PrintInside(t)
  PROVE  IInv'
<1>1. /\ Goto(t, "open", "stuck")
      /\ m_iLogSize' = 0 /\ m_sttFd' = NULL
      /\ UNCHANGED <<szDate, settings, m_szDate, m_iIndex, m_iFolderSize, today, disk, faults>>
  BY DEF PrintInside
<1>2. ThreadsOK'
  BY <1>1, GotoOK DEF IInv, ThreadsOK
<1>3. LogOK' /\ SettingsOK' /\ DiskOK'
  BY <1>1 DEF IInv, LogOK, SettingsOK, DiskOK, settings, disk, File
<1>4. m_sttFd' \notin DOMAIN files'
  BY <1>1, NullIsNoFile DEF IInv, DiskOK, disk
<1>5. LogSizeExact' /\ Room'
  BY <1>1, <1>4 DEF IInv, LogSizeExact, Room, FileBounded, disk
<1>6. QED
  BY <1>2, <1>3, <1>5 DEF IInv

LEMMA OpenFileKeeps ==
  ASSUME IInv, NEW t \in Threads, OpenFile(t)
  PROVE  IInv'
BY TurnKeeps, PrintInsideKeeps DEF OpenFile

-----------------------------------------------------------------------------
(* The other steps of Print                                                *)

LEMMA BeginKeeps ==
  ASSUME IInv, NEW t \in Threads, Begin(t)
  PROVE  IInv'
<1>1. Goto(t, "idle", "enter") /\ UNCHANGED <<settings, log, today, disk, faults>>
      /\ szDate' = [szDate EXCEPT ![t] = today]
  BY DEF Begin
<1>2. ThreadsOK'
  BY <1>1, GotoOK DEF IInv, ThreadsOK, log
<1>3. Writers' = Writers
  BY <1>1 DEF Writers, Goto, IInv, ThreadsOK
<1>4. SettingsOK' /\ folder' \in BOOLEAN /\ m_iIndex' \in Nat \ {0}
  BY <1>1 DEF IInv, SettingsOK, DiskOK, LogOK, settings, disk, log
<1>5. QED
  BY <1>1, <1>2, <1>3, <1>4, ElsewhereKeeps DEF log, disk

LEMMA EnterKeeps ==
  ASSUME IInv, NEW t \in Threads, Enter(t)
  PROVE  IInv'
<1>1. /\ UNCHANGED <<szDate, settings, m_szDate, m_sttFd, m_iLogSize, m_iFolderSize>>
      /\ UNCHANGED <<today, disk, faults>>
  BY DEF Enter
<1>2. m_iIndex' \in Nat \ {0}
  BY DEF Enter, IInv, LogOK
<1>3. SettingsOK' /\ folder' \in BOOLEAN
  BY <1>1 DEF IInv, SettingsOK, DiskOK, settings, disk
<1>4. CASE Goto(t, "enter", "open")
  <2>1. ThreadsOK'
    BY <1>1, <1>4, GotoOK DEF IInv, ThreadsOK
  <2>2. Writers' = Writers
    BY <1>4 DEF Writers, Goto, IInv, ThreadsOK
  <2>3. QED
    BY <1>1, <1>2, <1>3, <2>1, <2>2, ElsewhereKeeps DEF disk
<1>5. CASE ~Full(m_iLogSize) /\ Goto(t, "enter", "write")
  <2>1. ThreadsOK'
    BY <1>1, <1>5, GotoOK DEF IInv, ThreadsOK
  <2>2. LogOK' /\ DiskOK'
    BY <1>1, <1>2 DEF IInv, LogOK, DiskOK, disk, File
  <2>3. LogSizeExact' /\ FileBounded'
    BY <1>1 DEF IInv, LogSizeExact, Room, FileBounded, disk
  <2>4. m_iLogSize < MaxLogSize
    <3>1. ~(m_iLogSize >= m_iMaxLogSize)
      BY <1>5 DEF Full
    <3>2. QED
      BY <3>1, SizesAreNat DEF IInv, LogOK, SettingsOK
  <2>5. m_sttFd' \in DOMAIN files' =>
          files'[m_sttFd'] + Cardinality(Writers') < MaxLogSize + Cardinality(Threads) + faults'
    <3> SUFFICES ASSUME m_sttFd \in DOMAIN files
                 PROVE  files[m_sttFd] + Cardinality(Writers')
                          < MaxLogSize + Cardinality(Threads) + faults
      BY <1>1 DEF disk
    <3>1. files[m_sttFd] <= m_iLogSize + faults /\ files[m_sttFd] \in Nat
      BY DEF IInv, LogSizeExact, DiskOK
    <3>2. m_iLogSize \in Int /\ faults \in Nat
      BY DEF IInv, LogOK, DiskOK
    <3>3. QED
      BY <2>4, <3>1, <3>2, WritersBounded, SizesAreNat
  <2>6. Room'
    BY <2>3, <2>5 DEF Room
  <2>7. QED
    BY <1>3, <2>1, <2>2, <2>3, <2>6 DEF IInv
<1>6. QED
  BY <1>4, <1>5 DEF Enter

LEMMA WriteKeeps ==
  ASSUME IInv, NEW t \in Threads, Write(t)
  PROVE  IInv'
<1>1. /\ Goto(t, "write", "idle")
      /\ UNCHANGED <<szDate, settings, m_szDate, m_sttFd, m_iIndex, today, folder>>
  BY DEF Write
<1>2. ThreadsOK' /\ SettingsOK'
  BY <1>1, GotoOK DEF IInv, ThreadsOK, SettingsOK, settings
<1>3. Cardinality(Writers) >= 1 /\ Cardinality(Writers') = Cardinality(Writers) - 1
  BY <1>1, WriterLeaves DEF IInv
<1>4. /\ m_iLogSize \in Int /\ m_iFolderSize \in Int /\ gone \in Nat /\ kept \in Nat
      /\ faults \in 0..MaxFaults /\ MaxFaults \in Nat
  BY SizesAreNat DEF IInv, LogOK, DiskOK
<1>5. CASE /\ files' = files
           /\ m_iLogSize' \in Int /\ m_iFolderSize' \in Int /\ gone' \in Nat /\ kept' \in Nat
           /\ faults' \in 0..MaxFaults /\ faults <= faults'
           /\ m_sttFd \in DOMAIN files =>
                m_iLogSize' + faults <= m_iLogSize + faults'
                /\ m_iLogSize + faults <= m_iLogSize' + faults'
  <2>1. LogOK' /\ DiskOK'
    BY <1>1, <1>5 DEF IInv, LogOK, DiskOK, File
  <2>2. LogSizeExact'
    <3> SUFFICES ASSUME m_sttFd \in DOMAIN files
                 PROVE  m_iLogSize' <= files[m_sttFd] + faults'
                        /\ files[m_sttFd] <= m_iLogSize' + faults'
      BY <1>1, <1>5 DEF LogSizeExact
    <3>1. m_iLogSize <= files[m_sttFd] + faults /\ files[m_sttFd] <= m_iLogSize + faults
          /\ files[m_sttFd] \in Nat
      BY DEF IInv, LogSizeExact, DiskOK
    <3>2. m_iLogSize' \in Int /\ faults' \in Int /\ faults \in Int /\ files[m_sttFd] \in Int
      BY <1>4, <1>5, <3>1
    <3>3. /\ m_iLogSize' + faults <= m_iLogSize + faults'
          /\ m_iLogSize + faults <= m_iLogSize' + faults'
      BY <1>5
    <3>4. ASSUME NEW size1 \in Int, NEW fails1 \in Int,
                 size1 + faults <= m_iLogSize + fails1,
                 m_iLogSize + faults <= size1 + fails1
          PROVE  size1 <= files[m_sttFd] + fails1 /\ files[m_sttFd] <= size1 + fails1
      <4> DEFINE x == files[m_sttFd]
      <4>1. x \in Int /\ m_iLogSize <= x + faults /\ x <= m_iLogSize + faults
        BY <3>1
      <4> HIDE DEF x
      <4>2. size1 <= x + fails1 /\ x <= size1 + fails1
        BY <1>4, <3>4, <4>1
      <4>3. QED
        BY <4>2 DEF x
    <3>5. QED
      BY <3>2, <3>3, <3>4, Zenon
  <2>3. Room'
    <3>1. \A f \in DOMAIN files : files[f] < MaxLogSize + Cardinality(Threads) + faults
                                  /\ files[f] \in Nat
      BY DEF IInv, Room, FileBounded, DiskOK
    <3>2. \A f \in DOMAIN files : files[f] < MaxLogSize + Cardinality(Threads) + faults'
      BY <1>4, <1>5, <3>1, WritersBounded, SizesAreNat
    <3>3. m_sttFd \in DOMAIN files =>
            files[m_sttFd] + Cardinality(Writers')
              < MaxLogSize + Cardinality(Threads) + faults'
      <4> SUFFICES ASSUME m_sttFd \in DOMAIN files
                   PROVE  files[m_sttFd] + Cardinality(Writers')
                            < MaxLogSize + Cardinality(Threads) + faults'
        OBVIOUS
      <4>1. files[m_sttFd] + Cardinality(Writers)
              < MaxLogSize + Cardinality(Threads) + faults
        BY DEF IInv, Room
      <4>2. files[m_sttFd] \in Nat
        BY DEF IInv, DiskOK
      <4>3. QED
        BY <1>3, <1>4, <1>5, <4>1, <4>2, WritersBounded, SizesAreNat
    <3>4. QED
      BY <1>1, <1>5, <3>2, <3>3 DEF Room, FileBounded
  <2>4. QED
    BY <1>2, <2>1, <2>2, <2>3 DEF IInv
<1>6. CASE m_sttFd = NULL /\ UNCHANGED <<m_iLogSize, m_iFolderSize, files, gone, kept, faults>>
  BY <1>4, <1>5, <1>6
<1>7. CASE NotWritten
  BY <1>4, <1>5, <1>7 DEF NotWritten, Count
<1>8. CASE Written /\ m_sttFd \notin DOMAIN files
  BY <1>4, <1>5, <1>8 DEF Written, Count
<1>9. CASE Written /\ m_sttFd \in DOMAIN files
  <2>1. /\ m_iLogSize' = m_iLogSize + 1 /\ m_iFolderSize' = m_iFolderSize + 1
        /\ files' = [files EXCEPT ![m_sttFd] = @ + 1]
        /\ UNCHANGED <<gone, kept, faults>>
    BY <1>9 DEF Written, Count
  <2>2. /\ files' \in [DOMAIN files -> Nat] /\ DOMAIN files' = DOMAIN files
        /\ files'[m_sttFd] = files[m_sttFd] + 1 /\ files[m_sttFd] \in Nat
        /\ \A f \in DOMAIN files : f # m_sttFd => files'[f] = files[f]
    BY <1>9, <2>1 DEF IInv, DiskOK
  <2>3. LogOK' /\ DiskOK'
    BY <1>1, <2>1, <2>2 DEF IInv, LogOK, DiskOK, File
  <2>4. LogSizeExact'
    <3>1. m_iLogSize <= files[m_sttFd] + faults /\ files[m_sttFd] <= m_iLogSize + faults
      BY <1>9 DEF IInv, LogSizeExact
    <3>2. m_iLogSize + 1 <= files[m_sttFd] + 1 + faults
          /\ files[m_sttFd] + 1 <= m_iLogSize + 1 + faults
      BY <1>4, <2>2, <3>1
    <3>3. /\ m_iLogSize' = m_iLogSize + 1 /\ faults' = faults
          /\ m_sttFd' = m_sttFd /\ files'[m_sttFd] = files[m_sttFd] + 1
      BY <1>1, <2>1, <2>2
    <3>4. m_iLogSize' <= files'[m_sttFd'] + faults' /\ files'[m_sttFd'] <= m_iLogSize' + faults'
      BY <1>4, <2>2, <3>2, <3>3
    <3>5. QED
      BY <3>4, Zenon DEF LogSizeExact
  <2>5. files[m_sttFd] + Cardinality(Writers) < MaxLogSize + Cardinality(Threads) + faults
    BY <1>9 DEF IInv, Room
  <2>6. /\ files'[m_sttFd] < MaxLogSize + Cardinality(Threads) + faults
        /\ files'[m_sttFd] + Cardinality(Writers') < MaxLogSize + Cardinality(Threads) + faults
    BY <1>3, <1>4, <2>2, <2>5, WritersBounded, SizesAreNat
  <2>7. FileBounded'
    BY <2>1, <2>2, <2>6 DEF IInv, Room, FileBounded
  <2>8. Room'
    BY <1>1, <2>1, <2>6, <2>7 DEF Room
  <2>9. QED
    BY <1>2, <2>3, <2>4, <2>8 DEF IInv
<1>10. QED
  BY <1>6, <1>7, <1>8, <1>9 DEF Write

-----------------------------------------------------------------------------
(* The steps of the setup and of the world                                 *)

\* What an int keeps is a number.
LEMMA Int32IsInt == \A x \in Int : Int32(x) \in Int
BY LogAssumption DEF Int32

LEMMA SetMaxLogSizeKeeps == ASSUME IInv, SetMaxLogSize PROVE IInv'
<1>1. UNCHANGED <<pc, szDate, m_iMaxFolderSize, log, today, disk, faults>>
  BY DEF SetMaxLogSize
<1>2. m_iMaxLogSize' \in MinLogSize..MaxLogSize
  BY LogAssumption DEF SetMaxLogSize, Clamp
<1>3. SettingsOK' /\ ThreadsOK' /\ Writers' = Writers /\ folder' \in BOOLEAN
  BY <1>1, <1>2 DEF IInv, SettingsOK, ThreadsOK, DiskOK, Writers, log, disk
<1>4. m_iIndex' \in Nat \ {0}
  BY <1>1 DEF IInv, LogOK, log
<1>5. QED
  BY <1>1, <1>3, <1>4, ElsewhereKeeps DEF disk, log

LEMMA SetMaxFolderSizeKeeps == ASSUME IInv, SetMaxFolderSize PROVE IInv'
<1>1. UNCHANGED <<pc, szDate, m_iMaxLogSize, log, today, disk, faults>>
  BY DEF SetMaxFolderSize
<1>2. PICK size \in FolderSizes : RaiseToRoom(size)
  BY DEF SetMaxFolderSize
<1>3. m_iMaxFolderSize' \in Nat
  <2> DEFINE room == Int32(m_iMaxLogSize * Files30)
  <2>1. m_iMaxLogSize * Files30 \in Int
    BY LogAssumption DEF IInv, SettingsOK
  <2>2. room \in Int /\ size \in Nat
    BY <2>1, Int32IsInt, LogAssumption
  <2>3. m_iMaxFolderSize' = IF size < room THEN room ELSE size
    BY <1>2 DEF RaiseToRoom
  <2> HIDE DEF room
  <2>4. QED
    BY <2>2, <2>3
<1>4. SettingsOK' /\ ThreadsOK' /\ Writers' = Writers /\ folder' \in BOOLEAN
  BY <1>1, <1>3 DEF IInv, SettingsOK, ThreadsOK, DiskOK, Writers, log, disk
<1>5. m_iIndex' \in Nat \ {0}
  BY <1>1 DEF IInv, LogOK, log
<1>6. QED
  BY <1>1, <1>4, <1>5, ElsewhereKeeps DEF disk, log

LEMMA MidnightKeeps == ASSUME IInv, Midnight PROVE IInv'
<1>1. UNCHANGED <<pc, szDate, settings, log, disk, faults>>
      /\ today < MaxDay /\ today' = today + 1
  BY DEF Midnight
<1>2. SettingsOK' /\ ThreadsOK' /\ Writers' = Writers /\ folder' \in BOOLEAN
  BY <1>1, SizesAreNat
     DEF IInv, SettingsOK, ThreadsOK, DiskOK, Writers, log, disk, settings
<1>3. m_iIndex' \in Nat \ {0}
  BY <1>1 DEF IInv, LogOK, log
<1>4. QED
  BY <1>1, <1>2, <1>3, ElsewhereKeeps DEF disk, log

LEMMA MakeFolderKeeps == ASSUME IInv, MakeFolder PROVE IInv'
<1>1. UNCHANGED <<pc, szDate, settings, log, today, files, gone, kept, faults>> /\ folder' = TRUE
  BY DEF MakeFolder
<1>2. SettingsOK' /\ ThreadsOK' /\ Writers' = Writers /\ folder' \in BOOLEAN
  BY <1>1 DEF IInv, SettingsOK, ThreadsOK, Writers, log, settings
<1>3. m_iIndex' \in Nat \ {0}
  BY <1>1 DEF IInv, LogOK, log
<1>4. QED
  BY <1>1, <1>2, <1>3, ElsewhereKeeps DEF log

LEMMA RemoveKeeps == ASSUME IInv, Remove PROVE IInv'
<1>1. UNCHANGED <<pc, szDate, settings, log, today, folder, kept>>
      /\ faults < MaxFaults /\ faults' = faults + 1
  BY DEF Remove
<1>2. PICK f \in DOMAIN files \ {m_sttFd} :
        gone' = gone + files[f] /\ files' = Only(files, DOMAIN files \ {f})
  BY DEF Remove
<1>3. /\ DOMAIN files' = DOMAIN files \ {f}
      /\ \A g \in DOMAIN files \ {f} : files'[g] = files[g] /\ files[g] \in Nat
  BY <1>2, SizesOK
<1>4. files' \in [DOMAIN files \ {f} -> Nat]
  BY <1>2, <1>3 DEF Only
<1>5. IsFiniteSet(DOMAIN files \ {f})
  BY SizesOK
<1>6. faults' \in 0..MaxFaults /\ faults <= faults' /\ gone' \in Nat /\ kept' \in Nat
  BY <1>1, <1>2, SizesAreNat DEF IInv, DiskOK
<1>7. DiskOK'
  BY <1>1, <1>3, <1>4, <1>5, <1>6 DEF IInv, DiskOK, File
<1>8. ThreadsOK' /\ SettingsOK' /\ LogOK' /\ Writers' = Writers
  BY <1>1 DEF IInv, SettingsOK, ThreadsOK, LogOK, Writers, log, settings, File
<1>9. LogSizeExact'
  <2> SUFFICES ASSUME m_sttFd \in DOMAIN files
               PROVE  m_iLogSize <= files[m_sttFd] + faults'
                      /\ files[m_sttFd] <= m_iLogSize + faults'
    BY <1>1, <1>2, <1>3 DEF LogSizeExact, log
  <2>1. /\ m_iLogSize <= files[m_sttFd] + faults /\ files[m_sttFd] <= m_iLogSize + faults
        /\ m_iLogSize \in Int /\ files[m_sttFd] \in Nat /\ faults \in Nat
    BY DEF IInv, LogSizeExact, LogOK, DiskOK
  <2>2. QED
    BY <1>1, <2>1
<1>10. Room'
  <2>1. \A g \in DOMAIN files : files[g] < MaxLogSize + Cardinality(Threads) + faults
                                /\ files[g] \in Nat
    BY DEF IInv, Room, FileBounded, DiskOK
  <2>2. \A g \in DOMAIN files : files[g] < MaxLogSize + Cardinality(Threads) + faults'
    BY <1>1, <2>1, WritersBounded, SizesAreNat DEF IInv, DiskOK
  <2>3. m_sttFd \in DOMAIN files =>
          files[m_sttFd] + Cardinality(Writers) < MaxLogSize + Cardinality(Threads) + faults'
    <3>1. m_sttFd \in DOMAIN files =>
            files[m_sttFd] + Cardinality(Writers) < MaxLogSize + Cardinality(Threads) + faults
            /\ files[m_sttFd] \in Nat
      BY DEF IInv, Room, DiskOK
    <3>2. QED
      BY <1>1, <3>1, WritersBounded, SizesAreNat DEF IInv, DiskOK
  <2>4. QED
    BY <1>1, <1>3, <1>8, <2>2, <2>3 DEF Room, FileBounded, log
<1>11. QED
  BY <1>7, <1>8, <1>9, <1>10 DEF IInv

LEMMA RemoveFolderKeeps ==
  ASSUME IInv, RemoveFolder
  PROVE  IInv'
<1>1. UNCHANGED <<pc, szDate, settings, log, today, kept>>
      /\ gone' = gone + Total(files, DOMAIN files)
      /\ faults < MaxFaults /\ faults' = faults + 1 /\ folder' = FALSE
      /\ files' = [f \in {} |-> 0]
  BY DEF RemoveFolder
<1>2. DOMAIN files' = {} /\ files' \in [{} -> Nat]
  BY <1>1
<1>3. IsFiniteSet(DOMAIN files')
  BY <1>2, FS_EmptySet
<1>4. faults' \in 0..MaxFaults /\ gone' \in Nat /\ kept' \in Nat
  BY <1>1, SizesAreNat, FilesOK DEF IInv, DiskOK
<1>5. DiskOK'
  BY <1>1, <1>2, <1>3, <1>4 DEF DiskOK
<1>6. ThreadsOK' /\ SettingsOK' /\ LogOK'
  BY <1>1 DEF IInv, SettingsOK, ThreadsOK, LogOK, log, settings, File
<1>7. LogSizeExact' /\ Room'
  BY <1>2 DEF LogSizeExact, Room, FileBounded
<1>8. QED
  BY <1>5, <1>6, <1>7 DEF IInv

-----------------------------------------------------------------------------
(* The theorems about the files                                            *)

LEMMA InitIInv == Init => IInv
<1> SUFFICES ASSUME Init PROVE IInv
  OBVIOUS
<1>1. ThreadsOK
  BY LogAssumption DEF Init, ThreadsOK
<1>2. LogOK /\ SettingsOK
  BY LogAssumption DEF Init, LogOK, SettingsOK
<1>3. DOMAIN files = {} /\ files \in [{} -> Nat] /\ faults = 0 /\ folder = TRUE
      /\ gone = 0 /\ kept = 0
  BY DEF Init
<1>4. DiskOK
  BY <1>3, FS_EmptySet, SizesAreNat DEF DiskOK
<1>5. LogSizeExact /\ Room
  BY <1>3 DEF LogSizeExact, Room, FileBounded
<1>6. QED
  BY <1>1, <1>2, <1>4, <1>5 DEF IInv

LEMMA NextIInv == IInv /\ [Next]_vars => IInv'
<1> SUFFICES ASSUME IInv, [Next]_vars PROVE IInv'
  OBVIOUS
<1>1. CASE Next
  <2>1. CASE \E t \in Threads : PrintStep(t)
    BY <2>1, BeginKeeps, EnterKeeps, OpenFileKeeps, WriteKeeps DEF PrintStep
  <2>2. CASE SetMaxLogSize \/ SetMaxFolderSize
    BY <2>2, SetMaxLogSizeKeeps, SetMaxFolderSizeKeeps
  <2>3. CASE Midnight \/ Remove \/ RemoveFolder \/ MakeFolder
    BY <2>3, MidnightKeeps, RemoveKeeps, RemoveFolderKeeps, MakeFolderKeeps
  <2>4. QED
    BY <1>1, <2>1, <2>2, <2>3 DEF Next
<1>2. CASE UNCHANGED vars
  <2>1. /\ ThreadsOK' /\ SettingsOK' /\ Writers' = Writers /\ folder' \in BOOLEAN
        /\ m_iIndex' \in Nat \ {0}
    BY <1>2 DEF vars, IInv, ThreadsOK, SettingsOK, LogOK, DiskOK, Writers, log, settings, disk
  <2>2. QED
    BY <1>2, <2>1, ElsewhereKeeps DEF vars, log, disk
<1>3. QED
  BY <1>1, <1>2

LEMMA IInvHolds == Spec => []IInv
BY InitIInv, NextIInv, PTL DEF Spec

\* Every variable has its type (Log.cpp:36-90).
THEOREM TypeCorrect == Spec => []TypeOK
<1>1. IInv => TypeOK
  BY DEF IInv, ThreadsOK, LogOK, SettingsOK, DiskOK, TypeOK
<1>2. QED
  BY <1>1, IInvHolds, PTL

\* The log knows the size of its open file but for the records that failed, however
\* many threads print around midnight and whatever is removed (Log.cpp:191-232, 261).
THEOREM LogSizeCorrect == Spec => []LogSizeExact
BY IInvHolds, PTL DEF IInv

\* No file is longer than its limit by more than a record of each thread and one for
\* each failure (Log.cpp:234, 246): the size is tested in another critical section
\* than it is counted in.
THEOREM FilesBounded == Spec => []FileBounded
BY IInvHolds, PTL DEF IInv, Room

\* The folder limit is set in one place.
LEMMA OnlySetter ==
  ASSUME Next, m_iMaxFolderSize' # m_iMaxFolderSize
  PROVE  SetMaxFolderSize
BY DEF Next, PrintStep, Begin, Enter, OpenFile, PrintInside, Write, SetMaxLogSize,
       Midnight, Remove, RemoveFolder, MakeFolder, settings

\* It leaves room for 30 files, where the product fits an int.
LEMMA SetterLeavesRoom ==
  ASSUME IInv, SetMaxFolderSize, m_iMaxLogSize * Files30 <= IntMax
  PROVE  m_iMaxFolderSize' >= m_iMaxLogSize * Files30
<1>1. PICK size \in FolderSizes : RaiseToRoom(size)
  BY DEF SetMaxFolderSize
<1> DEFINE product == m_iMaxLogSize * Files30
<1>2. product \in Nat /\ product <= IntMax /\ IntMax \in Nat /\ size \in Nat
  <2>1. m_iMaxLogSize \in Nat /\ Files30 \in Nat
    BY LogAssumption DEF IInv, SettingsOK
  <2>2. QED
    BY <2>1, LogAssumption
<1> HIDE DEF product
<1>3. Int32(product) = product
  <2>1. (product + IntMax + 1) % (2 * (IntMax + 1)) = product + IntMax + 1
    BY <1>2
  <2>2. QED
    BY <1>2, <2>1 DEF Int32
<1>4. m_iMaxFolderSize' = IF size < product THEN product ELSE size
  BY <1>1, <1>3 DEF RaiseToRoom, product
<1>5. QED
  BY <1>2, <1>4 DEF product

\* A limit of the folder that is set leaves room for 30 files, where the product
\* fits an int (Log.cpp:383-402).
THEOREM RoomAssured == Spec => RoomFor30
<1>1. IInv /\ [Next]_vars =>
        [m_iMaxFolderSize' # m_iMaxFolderSize /\ m_iMaxLogSize * Files30 <= IntMax
           => m_iMaxFolderSize' >= m_iMaxLogSize * Files30]_vars
  BY OnlySetter, SetterLeavesRoom DEF vars, settings
<1>2. QED
  BY <1>1, IInvHolds, PTL DEF Spec, RoomFor30

-----------------------------------------------------------------------------
(* The folder                                                              *)

\* The size the log keeps for the folder.
FolderInv ==
  /\ FolderExact
  /\ ~folder => DOMAIN files = {}

\* Files are in a total order.
LEMMA OlderOrders ==
  /\ \A f, g \in File : f = g \/ Older(f, g) \/ Older(g, f)
  /\ \A f, g \in File : ~(Older(f, g) /\ Older(g, f)) /\ ~Older(f, f)
  /\ \A f, g, h \in File : Older(f, g) /\ Older(g, h) => Older(f, h)
<1>1. \A f \in File : f = <<f[1], f[2]>> /\ f[1] \in Nat /\ f[2] \in Nat
  BY SizesAreNat DEF File
<1>2. \A f, g \in File : f[1] = g[1] /\ f[2] = g[2] => f = g
  BY <1>1
<1>3. \A f, g \in File : f = g \/ Older(f, g) \/ Older(g, f)
  BY <1>1, <1>2 DEF Older
<1>4. \A f, g \in File : ~(Older(f, g) /\ Older(g, f)) /\ ~Older(f, f)
  BY <1>1 DEF Older
<1>5. \A f, g, h \in File : Older(f, g) /\ Older(g, h) => Older(f, h)
  BY <1>1 DEF Older
<1>6. QED
  BY <1>3, <1>4, <1>5

\* What DeleteOldFile removes goes up to some age.
LEMMA DeletesOldest ==
  ASSUME IInv, m_iFolderSize \in Int, m_iMaxFolderSize \in Int,
         NEW f \in DeleteOldFile, NEW g \in DOMAIN files, Older(g, f)
  PROVE  g \in DeleteOldFile
<1> DEFINE older(x) == {h \in DOMAIN files : Older(h, x)}
<1>1. f \in DOMAIN files /\ OverLimit
      /\ m_iFolderSize - Total(files, older(f)) >= (m_iMaxFolderSize * 8) \div 10
  BY DEF DeleteOldFile
<1>2. older(g) \subseteq older(f)
  BY <1>1, FilesOK, OlderOrders
<1>3. IsFiniteSet(older(f)) /\ \A h \in older(f) : files[h] \in Nat
  BY FilesOK, FS_Subset
<1>4. /\ Total(files, older(g)) \in Nat /\ Total(files, older(f)) \in Nat
      /\ Total(files, older(g)) <= Total(files, older(f))
  BY <1>2, <1>3, TotalPart
<1>5. (m_iMaxFolderSize * 8) \div 10 \in Int
  OBVIOUS
<1>6. m_iFolderSize - Total(files, older(g)) >= (m_iMaxFolderSize * 8) \div 10
  BY <1>1, <1>4, <1>5
<1>7. QED
  BY <1>1, <1>6 DEF DeleteOldFile

\* What a turn of OPEN_FILE takes from the folder: what DeleteOldFile removes, but
\* for the files that stay.
LEMMA TurnTotal ==
  ASSUME IInv, NEW t \in Threads, NEW stay \in SUBSET DeleteOldFile, Turn(t, stay)
  PROVE  LET rest == DOMAIN files \ DeleteOldFile
         IN  /\ Total(files', DOMAIN files') = Total(files, rest) + Total(files, stay)
             /\ \A S : S \subseteq DOMAIN files' =>
                  Total(files', S) \in Nat /\ Total(files', S) <= Total(files', DOMAIN files')
             /\ Total(files, DeleteOldFile) \in Nat /\ Total(files, rest) \in Nat
             /\ Total(files, stay) \in Nat
             /\ Total(files, DOMAIN files) = Total(files, DeleteOldFile) + Total(files, rest)
<1> DEFINE rest == DOMAIN files \ DeleteOldFile
           left == Left(stay)
           new == DOMAIN files' \ left
<1>1. /\ left \subseteq DOMAIN files' /\ IsFiniteSet(DOMAIN files')
      /\ \A g \in left : files'[g] = files[g]
      /\ \A g \in new : files'[g] = 0
      /\ \A g \in DOMAIN files' : files'[g] \in Nat
  BY TurnFiles
<1>2. DeleteOldFile \subseteq DOMAIN files
  BY DEF DeleteOldFile
<1>3. /\ Total(files, DeleteOldFile) \in Nat /\ Total(files, rest) \in Nat
      /\ Total(files, DOMAIN files) = Total(files, DeleteOldFile) + Total(files, rest)
  BY <1>2, FilesOK
<1>4. /\ Total(files, stay) \in Nat
      /\ Total(files, left) = Total(files, rest) + Total(files, stay)
  <2>1. left = rest \cup stay /\ rest \cap stay = {}
    BY DEF Left
  <2>2. /\ IsFiniteSet(rest) /\ IsFiniteSet(stay)
        /\ \A f \in rest \cup stay : files[f] \in Nat
    BY <1>2, FilesOK, FS_Subset
  <2> HIDE DEF left, rest
  <2>3. QED
    BY <2>1, <2>2, TotalUnion
<1>5. Total(files', new) = 0
  <2>1. Records(files', new) = {}
    BY <1>1, RecordsIn
  <2>2. QED
    BY <2>1, FS_EmptySet DEF Total
<1>6. Total(files', left) = Total(files, left)
  BY <1>1, TotalSame
<1>7. Total(files', DOMAIN files') = Total(files', left) + Total(files', new)
  BY <1>1, TotalPart
<1>8. Total(files', DOMAIN files') = Total(files, rest) + Total(files, stay)
  BY <1>3, <1>4, <1>5, <1>6, <1>7
<1>9. \A S : S \subseteq DOMAIN files' =>
        Total(files', S) \in Nat /\ Total(files', S) <= Total(files', DOMAIN files')
  BY <1>1, TotalPart
<1>10. QED
  BY <1>3, <1>4, <1>8, <1>9

\* What DeleteOldFile leaves on purpose is below the limit of the folder.
LEMMA LeftBelow ==
  ASSUME IInv, FolderInv, m_iMaxFolderSize # 0
  PROVE  Total(files, DOMAIN files \ DeleteOldFile) < m_iMaxFolderSize + kept
<1> DEFINE left == DOMAIN files \ DeleteOldFile
<1>1. DeleteOldFile \subseteq DOMAIN files
  BY DEF DeleteOldFile
<1>2. /\ Total(files, DeleteOldFile) \in Nat /\ Total(files, left) \in Nat
      /\ Total(files, DOMAIN files) \in Nat
      /\ Total(files, DOMAIN files) = Total(files, DeleteOldFile) + Total(files, left)
  BY <1>1, FilesOK
<1>3. /\ m_iFolderSize + kept = Total(files, DOMAIN files) + gone
      /\ gone \in Nat /\ kept \in Nat /\ m_iFolderSize \in Int
      /\ m_iMaxFolderSize \in Nat \ {0}
  BY DEF FolderInv, FolderExact, IInv, DiskOK, LogOK, SettingsOK
<1>4. CASE ~OverLimit
  <2>1. m_iFolderSize < m_iMaxFolderSize
    BY <1>3, <1>4 DEF OverLimit
  <2> HIDE DEF left
  <2>2. Total(files, left) < m_iMaxFolderSize + kept
    BY <1>2, <1>3, <2>1
  <2>3. QED
    BY <2>2 DEF left
<1>5. CASE OverLimit /\ left = {}
  <2>1. Total(files, left) = 0
    BY <1>5, TotalEmpty
  <2>2. QED
    BY <1>3, <2>1
<1>6. CASE OverLimit /\ left # {}
  <2> DEFINE R == {p \in left \X left : Older(p[1], p[2])}
  <2>1. left \subseteq File /\ IsFiniteSet(left)
    BY FilesOK, FS_Subset
  <2>2. \A x, y \in left : <<x, y>> \in R <=> Older(x, y)
    OBVIOUS
  <2> HIDE DEF R
  <2>3. PICK f \in left : \A x \in left : x = f \/ <<f, x>> \in R
    <3>1. \A x, y \in left : x = y \/ <<x, y>> \in R \/ <<y, x>> \in R
      BY <2>1, <2>2, OlderOrders
    <3>2. \A x, y, z \in left : <<x, y>> \in R /\ <<y, z>> \in R => <<x, z>> \in R
      BY <2>1, <2>2, OlderOrders
    <3> HIDE DEF left
    <3>3. QED
      BY <1>6, <2>1, <3>1, <3>2, LeastExists
  <2> DEFINE older == {g \in DOMAIN files : Older(g, f)}
  <2>4. older \subseteq DeleteOldFile
    BY <2>1, <2>2, <2>3, OlderOrders
  <2>5. Total(files, older) \in Nat /\ Total(files, older) <= Total(files, DeleteOldFile)
    <3>1. IsFiniteSet(DeleteOldFile) /\ \A g \in DeleteOldFile : files[g] \in Nat
      BY <1>1, FilesOK, FS_Subset
    <3>2. QED
      BY <2>4, <3>1, TotalPart
  <2>6. ~(m_iFolderSize - Total(files, older) >= (m_iMaxFolderSize * 8) \div 10)
    BY <1>6, <2>3 DEF DeleteOldFile
  <2> HIDE DEF older, left
  <2>7. (m_iMaxFolderSize * 8) \div 10 \in Int
        /\ (m_iMaxFolderSize * 8) \div 10 <= m_iMaxFolderSize
    BY <1>3
  <2>8. Total(files, left) < m_iMaxFolderSize + kept
    BY <1>2, <1>3, <2>5, <2>6, <2>7
  <2>9. QED
    BY <2>8 DEF left
<1>7. QED
  BY <1>4, <1>5, <1>6

\* A turn of OPEN_FILE keeps what the log knows of the folder.
LEMMA TurnFolder ==
  ASSUME IInv, FolderInv, NEW t \in Threads, NEW stay \in SUBSET DeleteOldFile,
         Turn(t, stay), UNCHANGED <<szDate, settings, today, folder, gone>>
  PROVE  FolderInv'
<1> DEFINE rest == DOMAIN files \ DeleteOldFile
<1>1. /\ Total(files', DOMAIN files') = Total(files, rest) + Total(files, stay)
      /\ Total(files, DeleteOldFile) \in Nat /\ Total(files, rest) \in Nat
      /\ Total(files, stay) \in Nat
      /\ Total(files, DOMAIN files) = Total(files, DeleteOldFile) + Total(files, rest)
  BY TurnTotal
<1>2. /\ m_iFolderSize' = m_iFolderSize - Total(files, DeleteOldFile)
      /\ kept' = kept + Total(files, stay)
  BY DEF Turn, Delete
<1>3. m_iFolderSize \in Int /\ kept \in Nat /\ gone \in Nat
  BY DEF IInv, LogOK, DiskOK
<1>4. FolderExact'
  <2> HIDE DEF rest
  <2>1. m_iFolderSize + kept = Total(files, DOMAIN files) + gone /\ gone' = gone
    BY DEF FolderInv, FolderExact
  <2>2. m_iFolderSize' + kept' = m_iFolderSize + kept - Total(files, DeleteOldFile) + Total(files, stay)
    BY <1>1, <1>2, <1>3
  <2>3. m_iFolderSize' + kept' = Total(files, rest) + Total(files, stay) + gone
    BY <1>1, <1>3, <2>1, <2>2
  <2>4. m_iFolderSize' + kept' = Total(files', DOMAIN files') + gone'
    BY <1>1, <2>1, <2>3
  <2>5. QED
    BY <2>4 DEF FolderExact
<1>5. ~folder' => DOMAIN files' = {}
  <2>1. Left(stay) \subseteq DOMAIN files
    BY DeleteOK DEF Turn
  <2>2. QED
    BY <2>1, TurnFiles DEF FolderInv
<1>6. QED
  BY <1>4, <1>5 DEF FolderInv

\* A file that is opened under a limit finds the others below it.
LEMMA TurnBelow ==
  ASSUME IInv, FolderInv, NEW t \in Threads, NEW stay \in SUBSET DeleteOldFile,
         Turn(t, stay), m_iMaxFolderSize # 0
  PROVE  Total(files', DOMAIN files' \ {m_sttFd'}) < m_iMaxFolderSize + kept'
<1> DEFINE rest == DOMAIN files \ DeleteOldFile
           others == DOMAIN files' \ {m_sttFd'}
<1>1. /\ Total(files', DOMAIN files') = Total(files, rest) + Total(files, stay)
      /\ Total(files', others) \in Nat
      /\ Total(files', others) <= Total(files', DOMAIN files')
      /\ Total(files, rest) \in Nat /\ Total(files, stay) \in Nat
  BY TurnTotal
<1>2. Total(files, rest) < m_iMaxFolderSize + kept
  BY LeftBelow
<1>3. kept' = kept + Total(files, stay)
  BY DEF Turn, Delete
<1>4. kept \in Nat /\ m_iMaxFolderSize \in Nat
  BY DEF IInv, DiskOK, SettingsOK
<1> HIDE DEF rest, others
<1>5. Total(files', others) < m_iMaxFolderSize + kept'
  BY <1>1, <1>2, <1>3, <1>4
<1>6. QED
  BY <1>5 DEF others

\* Writing a record makes the open file and the folder longer by one.
LEMMA WriteFolder ==
  ASSUME IInv, FolderInv, NEW t \in Threads, Write(t)
  PROVE  FolderInv'
<1>1. UNCHANGED <<m_sttFd, folder>>
  BY DEF Write
<1>2. /\ m_iFolderSize \in Int /\ gone \in Nat /\ kept \in Nat
      /\ Total(files, DOMAIN files) \in Nat
      /\ m_iFolderSize + kept = Total(files, DOMAIN files) + gone
  BY FilesOK DEF IInv, LogOK, DiskOK, FolderInv, FolderExact
<1>3. CASE files' = files /\ m_iFolderSize' + kept' = Total(files, DOMAIN files) + gone'
  BY <1>1, <1>3 DEF FolderInv, FolderExact
<1>4. CASE UNCHANGED <<m_iLogSize, m_iFolderSize, files, gone, kept, faults>>
  BY <1>2, <1>3, <1>4
<1>5. CASE NotWritten
  <2>1. /\ files' = files
        /\ \/ m_iFolderSize' = m_iFolderSize + 1 /\ gone' = gone + 1 /\ kept' = kept
           \/ m_iFolderSize' = m_iFolderSize + (-1) /\ kept' = kept + 1 /\ gone' = gone
    BY <1>5 DEF NotWritten, Count
  <2>2. m_iFolderSize' + kept' = Total(files, DOMAIN files) + gone'
    BY <1>2, <2>1
  <2>3. QED
    BY <1>3, <2>1, <2>2
<1>6. CASE Written /\ m_sttFd \notin DOMAIN files
  <2>1. /\ files' = files /\ m_iFolderSize' = m_iFolderSize + 1
        /\ gone' = gone + 1 /\ kept' = kept
    BY <1>6 DEF Written, Count
  <2>2. m_iFolderSize' + kept' = Total(files, DOMAIN files) + gone'
    BY <1>2, <2>1
  <2>3. QED
    BY <1>3, <2>1, <2>2
<1>7. CASE Written /\ m_sttFd \in DOMAIN files
  <2>1. /\ files' = [files EXCEPT ![m_sttFd] = @ + 1] /\ UNCHANGED <<gone, kept>>
        /\ m_iFolderSize' = m_iFolderSize + 1
    BY <1>7 DEF Written, Count
  <2> DEFINE all == DOMAIN files
             others == all \ {m_sttFd}
  <2>2. /\ DOMAIN files' = all
        /\ files'[m_sttFd] = files[m_sttFd] + 1
        /\ \A f \in others : files'[f] = files[f]
        /\ files[m_sttFd] \in Nat /\ IsFiniteSet(all)
        /\ \A f \in all : files[f] \in Nat /\ files'[f] \in Nat
    BY <1>7, <2>1, FilesOK
  <2>3. Total(files', others) = Total(files, others)
    BY <2>2, TotalSame
  <2>4. Total(files, all) = files[m_sttFd] + Total(files, others)
        /\ Total(files', all) = files'[m_sttFd] + Total(files', others)
    BY <1>7, <2>2, TotalWithout
  <2>5. Total(files, others) \in Nat
    BY FilesOK
  <2>6. Total(files', DOMAIN files') = Total(files, DOMAIN files) + 1
    BY <2>2, <2>3, <2>4, <2>5
  <2>7. FolderExact'
    BY <1>2, <2>1, <2>6 DEF FolderExact
  <2>8. QED
    BY <1>1, <1>7, <2>2, <2>7 DEF FolderInv
<1>8. QED
  BY <1>4, <1>5, <1>6, <1>7 DEF Write

\* A file that somebody removes is counted on.
LEMMA RemoveFolderInv ==
  ASSUME IInv, FolderInv, Remove
  PROVE  FolderInv'
<1>1. UNCHANGED <<m_iFolderSize, folder, kept>>
  BY DEF Remove, log
<1>2. PICK f \in DOMAIN files \ {m_sttFd} :
        gone' = gone + files[f] /\ files' = Only(files, DOMAIN files \ {f})
  BY DEF Remove
<1> DEFINE rest == DOMAIN files \ {f}
<1>3. DOMAIN files' = rest /\ \A g \in rest : files'[g] = files[g]
  BY <1>2, SizesOK
<1>4. Total(files', rest) = Total(files, rest)
  BY <1>3, TotalSame
<1>5. Total(files, DOMAIN files) = files[f] + Total(files, rest) /\ files[f] \in Nat
  BY FilesOK, TotalWithout
<1>6. Total(files, rest) \in Nat /\ gone \in Nat /\ kept \in Nat /\ m_iFolderSize \in Int
  BY FilesOK DEF IInv, LogOK, DiskOK
<1>7. FolderExact'
  BY <1>1, <1>2, <1>3, <1>4, <1>5, <1>6 DEF FolderInv, FolderExact
<1>8. QED
  BY <1>1, <1>2, <1>3, <1>7 DEF FolderInv

\* Nothing is left of a folder that is removed.
LEMMA RemoveAllFolderInv ==
  ASSUME IInv, FolderInv, RemoveFolder
  PROVE  FolderInv'
<1>1. /\ UNCHANGED <<m_iFolderSize, kept>>
      /\ gone' = gone + Total(files, DOMAIN files)
      /\ files' = [f \in {} |-> 0]
  BY DEF RemoveFolder, log
<1>2. DOMAIN files' = {}
  BY <1>1
<1>3. Total(files', {}) = 0 /\ Total(files, DOMAIN files) \in Nat
  BY FilesOK, TotalEmpty
<1>4. gone \in Nat /\ kept \in Nat /\ m_iFolderSize \in Int
  BY DEF IInv, LogOK, DiskOK
<1>5. QED
  BY <1>1, <1>2, <1>3, <1>4 DEF FolderInv, FolderExact

\* Every step keeps it.
LEMMA NextFolderInv ==
  ASSUME IInv, FolderInv, [Next]_vars
  PROVE  FolderInv'
<1>1. ASSUME UNCHANGED <<m_iFolderSize, files, gone, kept>>,
             folder' = folder \/ folder' = TRUE
      PROVE  FolderInv'
  BY <1>1 DEF FolderInv, FolderExact
<1>2. CASE \E t \in Threads : PrintStep(t)
  <2>1. PICK t \in Threads : Begin(t) \/ Enter(t) \/ OpenFile(t) \/ Write(t)
    BY <1>2 DEF PrintStep
  <2>2. CASE Begin(t)
    BY <1>1, <2>2 DEF Begin, log, disk
  <2>3. CASE Enter(t)
    BY <1>1, <2>3 DEF Enter, disk
  <2>4. CASE OpenFile(t)
    <3>1. CASE PrintInside(t)
      BY <1>1, <3>1 DEF PrintInside, disk
    <3>2. QED
      BY <2>4, <3>1, TurnFolder DEF OpenFile
  <2>5. CASE Write(t)
    BY <2>5, WriteFolder
  <2>6. QED
    BY <2>1, <2>2, <2>3, <2>4, <2>5
<1>3. CASE SetMaxLogSize \/ SetMaxFolderSize
  BY <1>1, <1>3 DEF SetMaxLogSize, SetMaxFolderSize, log, disk
<1>4. CASE Midnight \/ MakeFolder
  BY <1>1, <1>4 DEF Midnight, MakeFolder, log, disk
<1>5. CASE Remove \/ RemoveFolder
  BY <1>5, RemoveFolderInv, RemoveAllFolderInv
<1>6. CASE UNCHANGED vars
  BY <1>1, <1>6 DEF vars, log, disk
<1>7. QED
  BY <1>2, <1>3, <1>4, <1>5, <1>6 DEF Next

LEMMA InitFolderInv == Init => FolderInv
<1> SUFFICES ASSUME Init PROVE FolderInv
  OBVIOUS
<1>1. DOMAIN files = {} /\ gone = 0 /\ kept = 0 /\ m_iFolderSize = 0 /\ folder = TRUE
  BY DEF Init
<1>2. Total(files, {}) = 0
  BY TotalEmpty
<1>3. QED
  BY <1>1, <1>2 DEF FolderInv, FolderExact

LEMMA FolderInvHolds == Spec => []FolderInv
BY InitFolderInv, NextFolderInv, IInvHolds, PTL DEF Spec

-----------------------------------------------------------------------------
(* The theorems about the folder                                           *)

\* m_iFolderSize is the size of the folder, with all that others removed from it or
\* that was not written, and without what could not be deleted, though it is only
\* counted and never read again (Log.cpp:261, 463): whatever threads open, fill and
\* delete.
THEOREM FolderSizeExact == Spec => []FolderExact
<1>1. FolderInv => FolderExact
  BY DEF FolderInv
<1>2. QED
  BY <1>1, FolderInvHolds, PTL

\* A file that is opened under a limit finds the others below it, and a folder
\* loses its limit only where the setter's product does not fit an int
\* (Log.cpp:383-402, 439-466).
THEOREM FolderStaysBounded == Spec => FolderBounded
<1> DEFINE Below == m_sttFd' \notin {m_sttFd, NULL} /\ m_iMaxFolderSize # 0
             => Total(files', DOMAIN files' \ {m_sttFd'}) < m_iMaxFolderSize + kept'
           Lifted == m_iMaxFolderSize' = 0 /\ m_iMaxFolderSize # 0
             => m_iMaxLogSize * Files30 > IntMax
<1>1. IInv /\ FolderInv /\ [Next]_vars => [Below]_vars
  <2> SUFFICES ASSUME IInv, FolderInv, Next,
                      m_sttFd' \notin {m_sttFd, NULL}, m_iMaxFolderSize # 0
               PROVE  Total(files', DOMAIN files' \ {m_sttFd'}) < m_iMaxFolderSize + kept'
    OBVIOUS
  <2>1. PICK t \in Threads : OpenFile(t)
    BY DEF Next, PrintStep, Begin, Enter, Write, SetMaxLogSize, SetMaxFolderSize, Midnight,
           Remove, RemoveFolder, MakeFolder, log
  <2>2. ~PrintInside(t)
    BY DEF PrintInside
  <2>3. QED
    BY <2>1, <2>2, TurnBelow DEF OpenFile
<1>2. IInv /\ [Next]_vars => [Lifted]_vars
  <2> SUFFICES ASSUME IInv, Next, m_iMaxFolderSize' = 0, m_iMaxFolderSize # 0
               PROVE  m_iMaxLogSize * Files30 > IntMax
    OBVIOUS
  <2>1. SetMaxFolderSize
    BY OnlySetter
  <2> SUFFICES ASSUME ~(m_iMaxLogSize * Files30 > IntMax) PROVE FALSE
    OBVIOUS
  <2>2. m_iMaxLogSize * Files30 \in Nat \ {0}
    <3>1. m_iMaxLogSize \in Nat \ {0} /\ Files30 \in Nat \ {0}
      BY LogAssumption DEF IInv, SettingsOK
    <3>2. QED
      BY <3>1
  <2>3. m_iMaxFolderSize' >= m_iMaxLogSize * Files30
    BY <2>1, <2>2, LogAssumption, SetterLeavesRoom
  <2>4. QED
    BY <2>2, <2>3
<1>3. IInv /\ FolderInv /\ [Next]_vars => [Below /\ Lifted]_vars
  BY <1>1, <1>2
<1>4. QED
  BY <1>3, IInvHolds, FolderInvHolds, PTL DEF Spec, FolderBounded

\* DeleteOldFile deletes the oldest files (Log.cpp:413-430, 449-466).
THEOREM DeletesInOrder == Spec => OldestDeletedFirst
<1> DEFINE Ordered ==
      \A f, g \in DOMAIN files :
        faults' = faults /\ SizeOf(files', f) < files[f] /\ SizeOf(files', g) = files[g]
          => files[g] = 0 \/ f[1] < g[1] \/ (f[1] = g[1] /\ f[2] < g[2])
<1>1. IInv /\ FolderInv /\ [Next]_vars => [Ordered]_vars
  <2> SUFFICES ASSUME IInv, FolderInv, Next PROVE Ordered
    OBVIOUS
  <2> SUFFICES ASSUME NEW f \in DOMAIN files, NEW g \in DOMAIN files, faults' = faults,
                      SizeOf(files', f) < files[f], SizeOf(files', g) = files[g]
               PROVE  files[g] = 0 \/ Older(f, g)
    BY DEF Older
  <2>1. files[f] \in Nat /\ files[g] \in Nat /\ f \in File /\ g \in File
    BY FilesOK
  <2>2. files' # files
    BY <2>1 DEF SizeOf
  <2>3. PICK t \in Threads : OpenFile(t) \/ Write(t)
    <3>1. ~Remove /\ ~RemoveFolder
      BY DEF Remove, RemoveFolder, IInv, DiskOK
    <3>2. QED
      BY <2>2, <3>1 DEF Next, PrintStep, Begin, Enter, SetMaxLogSize, SetMaxFolderSize,
         Midnight, MakeFolder, disk
  <2>4. ~Write(t)
    <3> SUFFICES ASSUME Write(t) PROVE FALSE
      OBVIOUS
    <3>1. m_sttFd \in DOMAIN files /\ files' = [files EXCEPT ![m_sttFd] = @ + 1]
      BY <2>2 DEF Write, Written, NotWritten
    <3>2. f \in DOMAIN files' /\ (files'[f] = files[f] \/ files'[f] = files[f] + 1)
      BY <3>1
    <3>3. QED
      BY <2>1, <3>2 DEF SizeOf
  <2>5. Turn(t, {})
    <3>1. ~PrintInside(t)
      BY <2>2 DEF PrintInside, disk
    <3>2. PICK stay \in SUBSET DeleteOldFile : Turn(t, stay)
      BY <2>3, <2>4, <3>1 DEF OpenFile
    <3>3. stay = {}
      BY <3>2 DEF Turn, Delete, IInv, DiskOK
    <3>4. QED
      BY <3>2, <3>3
  <2>6. /\ DOMAIN files \ DeleteOldFile \subseteq DOMAIN files'
        /\ \A h \in DOMAIN files \ DeleteOldFile : files'[h] = files[h]
        /\ \A h \in DOMAIN files' : h \in DeleteOldFile => files'[h] = 0
    <3>1. Left({}) = DOMAIN files \ DeleteOldFile
      BY DEF Left
    <3>2. {} \in SUBSET DeleteOldFile
      OBVIOUS
    <3>3. QED
      BY <2>5, <3>1, <3>2, TurnFiles
  <2>7. f \in DeleteOldFile
    <3> SUFFICES ASSUME f \notin DeleteOldFile PROVE FALSE
      OBVIOUS
    <3>1. f \in DOMAIN files' /\ files'[f] = files[f]
      BY <2>6
    <3>2. QED
      BY <2>1, <3>1 DEF SizeOf
  <2>8. CASE g \in DeleteOldFile
    <3>1. SizeOf(files', g) = 0
      BY <2>6, <2>8 DEF SizeOf
    <3>2. QED
      BY <3>1
  <2>9. CASE g \notin DeleteOldFile
    <3>1. m_iFolderSize \in Int /\ m_iMaxFolderSize \in Int
      BY DEF IInv, LogOK, SettingsOK
    <3>2. f # g /\ ~Older(g, f)
      BY <2>7, <2>9, <3>1, DeletesOldest
    <3>3. QED
      BY <2>1, <3>2, OlderOrders
  <2>10. QED
    BY <2>8, <2>9
<1>2. QED
  BY <1>1, IInvHolds, FolderInvHolds, PTL DEF Spec, OldestDeletedFirst
=============================================================================
