---------------------- MODULE MySQLSlaveOverWatcherProofs ----------------------
(***************************************************************************)
(* Proofs about MySQLSlaveOverWatcher for any periods, events, failures    *)
(* and changes of the setup file.                                          *)
(***************************************************************************)
EXTENDS MySQLSlaveOverWatcher, SequenceTheorems, TLAPS

-----------------------------------------------------------------------------
(* Types                                                                   *)

\* The variables of the service, of its setup and of the world around it.
TypeService == /\ pc \in PC /\ gbStop \in BOOLEAN /\ iSecond \in 0..MaxPeriod + 1
               /\ signalled \in BOOLEAN /\ rounds \in Nat
TypeSetup == /\ m_iDbWatchPeriod \in 1..MaxPeriod
             /\ m_iFileSize \in Nat /\ m_iFileTime \in Nat
             /\ readAt \in Nat /\ statAt \in Nat /\ now \in Nat
             /\ file \in Files /\ time \in Nat /\ edits \in 0..MaxEdits
TypeSlave == /\ io \in {"Yes", "Connecting", "No"} /\ sql \in {"Yes", "No"}
             /\ relay \in Seq(Events)
             /\ skip \in 0..1 /\ skipped \in Nat /\ wasted \in Nat
TypeWorld == /\ sent \in 0..MaxEvents /\ faults \in 0..MaxFaults
             /\ master \in {"ok", "unreachable", "refuses"} /\ up \in BOOLEAN

\* A period that Read takes is one that the setup file may have, or the default.
LEMMA PeriodTaken == TypeOK /\ TakePeriod => m_iDbWatchPeriod' \in 1..MaxPeriod
<1> SUFFICES ASSUME TypeOK, TakePeriod PROVE m_iDbWatchPeriod' \in 1..MaxPeriod
  OBVIOUS
<1>1. file.period \in 0..MaxPeriod
  BY WatcherAssumption DEF TypeOK
<1>2. m_iDbWatchPeriod \in 1..MaxPeriod /\ DefaultPeriod \in 1..MaxPeriod
  BY WatcherAssumption DEF TypeOK
<1>3. QED
  BY <1>1, <1>2, WatcherAssumption DEF TakePeriod, PeriodOf

\* Every step of the service, of the world, and no step, keeps the types.
LEMMA TypeKept == TypeOK /\ [Next]_vars => TypeOK'
<1> SUFFICES ASSUME TypeOK, [Next]_vars PROVE TypeOK'
  OBVIOUS
<1> USE WatcherAssumption DEF TypeOK, PC, Events, Goto, Clock, vars, service, setup, disk, slave, world
<1>1. CASE Start
  <2>1. TypeService'
    BY <1>1 DEF TypeService, Start, TakePeriod
  <2>2. TypeSetup'
    BY <1>1, PeriodTaken DEF TypeSetup, Start
  <2>3. TypeSlave'
    BY <1>1 DEF TypeSlave, Start, TakePeriod
  <2>4. TypeWorld'
    BY <1>1 DEF TypeWorld, Start, TakePeriod
  <2>5. QED
    BY <2>1, <2>2, <2>3, <2>4 DEF TypeService, TypeSetup, TypeSlave, TypeWorld
<1>2. ASSUME NEW from \in PC, NEW to \in PC, SetFileSizeTime(from, to) PROVE TypeOK'
  BY <1>2 DEF SetFileSizeTime
<1>3. CASE Tick
  BY <1>3 DEF Tick, Turn
<1>4. CASE End
  BY <1>4 DEF End
<1>5. CASE IsChange
  BY <1>5 DEF IsChange
<1>6. CASE Read
  <2>1. TypeService'
    BY <1>6 DEF TypeService, Read, TakePeriod
  <2>2. TypeSetup'
    BY <1>6, PeriodTaken DEF TypeSetup, Read
  <2>3. TypeSlave'
    BY <1>6 DEF TypeSlave, Read, TakePeriod
  <2>4. TypeWorld'
    BY <1>6 DEF TypeWorld, Read, TakePeriod
  <2>5. QED
    BY <2>1, <2>2, <2>3, <2>4 DEF TypeService, TypeSetup, TypeSlave, TypeWorld
<1>7. CASE Check
  BY <1>7 DEF Check, Leave
<1>8. CASE Report
  BY <1>8 DEF Report
<1>9. CASE StopSlave
  BY <1>9 DEF StopSlave
<1>10. CASE SkipOne
  BY <1>10 DEF SkipOne, SetCounter
<1>11. CASE StartSlave
  <2>1. sql' \in {"Yes", "No"} /\ io' \in {"Yes", "Connecting", "No"}
    BY <1>11 DEF StartSlave
  <2>2. pc' \in PC /\ iSecond' \in 0..MaxPeriod + 1
    <3>1. CASE up
      <4>1. pc' = "check" /\ iSecond' = iSecond
        BY <1>11, <3>1 DEF StartSlave
      <4>2. QED
        BY <4>1
    <3>2. CASE ~up
      <4>1. Leave
        BY <1>11, <3>2 DEF StartSlave
      <4>2. iSecond' = 0 /\ pc' \in {"loop", "change"}
        BY <4>1 DEF Leave
      <4>3. QED
        BY <4>2
    <3>3. QED
      BY <3>1, <3>2
  <2>3. /\ UNCHANGED <<gbStop, signalled, setup, disk>>
        /\ UNCHANGED <<relay, skip, skipped, wasted, rounds, sent, faults, master, up>>
    BY <1>11 DEF StartSlave, Leave
  <2> QED
    BY <2>1, <2>2, <2>3
<1>12. CASE Signal
  <2>1. pc' \in PC /\ gbStop' \in BOOLEAN /\ signalled' \in BOOLEAN
    BY <1>12 DEF Signal
  <2>2. QED
    BY <1>12, <2>1 DEF Signal
<1>13. CASE Edit
  BY <1>13 DEF Edit
<1>14. CASE Fetch
  BY <1>14, AppendProperties DEF Fetch
<1>15. CASE SqlThread
  <2>1. TypeService'
    BY <1>15, HeadTailProperties DEF TypeService, SqlThread, SkipEvent, ApplyEvent
  <2>2. TypeSetup'
    BY <1>15, HeadTailProperties DEF TypeSetup, SqlThread, SkipEvent, ApplyEvent
  <2>3. TypeSlave'
    <3>1. relay # <<>> /\ UNCHANGED io
      BY <1>15 DEF SqlThread
    <3>2. Tail(relay) \in Seq(Events)
      BY <3>1, HeadTailProperties
    <3>3. CASE SkipEvent
      <4>1. skip' \in 0..1 /\ skipped' \in Nat
        BY <3>3 DEF SkipEvent
      <4>2. wasted' \in Nat
        BY <3>3 DEF SkipEvent
      <4>3. relay' \in Seq(Events) /\ UNCHANGED <<io, sql>>
        BY <3>1, <3>2, <3>3 DEF SkipEvent
      <4>4. QED
        BY <4>1, <4>2, <4>3 DEF TypeSlave
    <3>4. CASE ApplyEvent
      BY <3>1, <3>2, <3>4 DEF TypeSlave, ApplyEvent
    <3>5. QED
      BY <1>15, <3>3, <3>4 DEF SqlThread
  <2>4. TypeWorld'
    BY <1>15, HeadTailProperties DEF TypeWorld, SqlThread, SkipEvent, ApplyEvent
  <2>5. QED
    BY <2>1, <2>2, <2>3, <2>4 DEF TypeService, TypeSetup, TypeSlave, TypeWorld
<1>16. CASE MasterFails
  BY <1>16 DEF MasterFails
<1>17. CASE MasterRecovers
  BY <1>17 DEF MasterRecovers
<1>18. CASE ServerDown
  <2>1. TypeService'
    BY <1>18 DEF TypeService, ServerDown
  <2>2. TypeSetup'
    BY <1>18 DEF TypeSetup, ServerDown
  <2>3. TypeSlave'
    BY <1>18 DEF TypeSlave, ServerDown
  <2>4. TypeWorld'
    <3>1. faults' \in 0..MaxFaults
      BY <1>18 DEF ServerDown
    <3>2. up' \in BOOLEAN
      BY <1>18 DEF ServerDown
    <3>3. UNCHANGED <<sent, master>>
      BY <1>18 DEF ServerDown
    <3>4. QED
      BY <3>1, <3>2, <3>3 DEF TypeWorld
  <2>5. QED
    BY <2>1, <2>2, <2>3, <2>4 DEF TypeService, TypeSetup, TypeSlave, TypeWorld
<1>19. CASE ServerUp
  BY <1>19 DEF ServerUp
<1>20. CASE UNCHANGED vars
  BY <1>20
<1>21. QED
  BY <1>1, <1>2, <1>3, <1>4, <1>5, <1>6, <1>7, <1>8, <1>9, <1>10, <1>11, <1>12, <1>13, <1>14,
     <1>15, <1>16, <1>17, <1>18, <1>19, <1>20 DEF Next, Service, World, Done

-----------------------------------------------------------------------------
(* Skipping                                                                *)

\* What is skipped left the relay log, which holds only what the master sent.
EventsSent == skipped + Len(relay) <= sent

\* The counter never asks for more than the turns account for; rounds stops at
\* MaxEvents + 1, which no number of events exceeds.
SkipInv == EventsSent /\ OneSkipPerTurn /\ rounds <= MaxEvents + 1

\* Every step keeps it: setting the counter, skipping, and losing it.
LEMMA SkipKept == TypeOK /\ SkipInv /\ [Next]_vars => SkipInv'
<1> SUFFICES ASSUME TypeOK /\ SkipInv, [Next]_vars PROVE SkipInv'
  OBVIOUS
<1> USE DEF TypeOK, SkipInv, EventsSent, OneSkipPerTurn, vars, service, setup, disk, slave, world
<1>1. CASE Start
  BY <1>1 DEF Start, TakePeriod, Goto
<1>2. CASE \/ SetFileSizeTime("startStamp", "check")
          \/ SetFileSizeTime("stamp", "loop")
  BY <1>2 DEF SetFileSizeTime, Goto
<1>3. CASE Tick
  BY <1>3 DEF Tick, Turn, Goto
<1>4. CASE End
  BY <1>4 DEF End, Goto
<1>5. CASE IsChange
  BY <1>5 DEF IsChange, Goto
<1>6. CASE Read
  BY <1>6 DEF Read, TakePeriod, Goto
<1>7. CASE Check
  BY <1>7 DEF Check, Leave, SaysNo, Goto
<1>8. CASE Report
  BY <1>8 DEF Report, Goto
<1>9. CASE StopSlave
  BY <1>9 DEF StopSlave, Goto
<1>10. CASE SkipOne
  <2>1. skipped <= MaxEvents
    BY WatcherAssumption, LenProperties
  <2>2. QED
    BY <1>10, <2>1, WatcherAssumption, LenProperties DEF SkipOne, SetCounter
<1>11. CASE StartSlave
  BY <1>11 DEF StartSlave, Leave, Goto
<1>12. CASE Signal
  BY <1>12 DEF Signal, Goto
<1>13. CASE Edit
  BY <1>13 DEF Edit
<1>14. CASE Fetch
  <2>1. Len(relay') = Len(relay) + 1
    BY <1>14, AppendProperties DEF Fetch
  <2>2. QED
    BY <1>14, <2>1, LenProperties DEF Fetch
<1>15. CASE SqlThread
  <2>1. Len(Tail(relay)) = Len(relay) - 1
    BY <1>15, HeadTailProperties DEF SqlThread
  <2>2. CASE SkipEvent
    <3>1. Len(relay) \in Nat /\ skip' = skip - 1 /\ skipped' = skipped + 1
      BY <2>2, LenProperties DEF SkipEvent
    <3>2. Len(relay') = Len(relay) - 1
      BY <2>1, <2>2 DEF SkipEvent
    <3>3. UNCHANGED <<rounds, sent>>
      BY <1>15 DEF SqlThread
    <3>4. QED
      BY <3>1, <3>2, <3>3
  <2>3. CASE ApplyEvent
    BY <1>15, <2>1, <2>3, LenProperties DEF SqlThread, ApplyEvent
  <2>4. QED
    BY <1>15, <2>2, <2>3 DEF SqlThread
<1>16. CASE MasterFails
  BY <1>16 DEF MasterFails
<1>17. CASE MasterRecovers
  BY <1>17 DEF MasterRecovers
<1>18. CASE ServerDown
  BY <1>18 DEF ServerDown
<1>19. CASE ServerUp
  BY <1>19 DEF ServerUp
<1>20. CASE UNCHANGED vars
  BY <1>20
<1>21. QED
  BY <1>1, <1>2, <1>3, <1>4, <1>5, <1>6, <1>7, <1>8, <1>9, <1>10, <1>11, <1>12, <1>13, <1>14,
     <1>15, <1>16, <1>17, <1>18, <1>19, <1>20 DEF Next, Service, World, Done


\* While nothing fails: the SQL thread is stopped by an event that does not
\* apply, and that event is still the first one when the counter is set.
FirstIsBad == relay # <<>> /\ Head(relay) = "bad"
Faultless ==
    faults = 0 =>
        /\ up = TRUE /\ master = "ok" /\ wasted = 0
        /\ sql = "No" => FirstIsBad
        /\ skip > 0 => FirstIsBad
        /\ pc \in {"report", "print", "stop", "skip", "startSlave"} => sql = "No"
        /\ pc \notin {"skip", "startSlave"} => io = "Yes"

\* Every step keeps it; a fault ends it.
LEMMA FaultlessKept == TypeOK /\ Faultless /\ [Next]_vars => Faultless'
<1> SUFFICES ASSUME TypeOK /\ Faultless, [Next]_vars PROVE Faultless'
  OBVIOUS
<1> USE DEF TypeOK, Faultless, FirstIsBad, vars, service, setup, disk, slave, world
<1>1. CASE Start
  BY <1>1 DEF Start, TakePeriod, Goto
<1>2. CASE \/ SetFileSizeTime("startStamp", "check")
          \/ SetFileSizeTime("stamp", "loop")
  BY <1>2 DEF SetFileSizeTime, Goto
<1>3. CASE Tick
  BY <1>3 DEF Tick, Turn, Goto
<1>4. CASE End
  BY <1>4 DEF End, Goto
<1>5. CASE IsChange
  BY <1>5 DEF IsChange, Goto
<1>6. CASE Read
  BY <1>6 DEF Read, TakePeriod, Goto
<1>7. CASE Check
  BY <1>7 DEF Check, Leave, SaysNo, Goto
<1>8. CASE Report
  BY <1>8 DEF Report, Goto
<1>9. CASE StopSlave
  BY <1>9 DEF StopSlave, Goto
<1>10. CASE SkipOne
  BY <1>10 DEF SkipOne, SetCounter, Goto
<1>11. CASE StartSlave
  BY <1>11 DEF StartSlave, Leave, Goto
<1>12. CASE Signal
  BY <1>12 DEF Signal, Goto
<1>13. CASE Edit
  BY <1>13 DEF Edit
<1>14. CASE Fetch
  <2>1. relay # <<>> => relay' # <<>> /\ Head(relay') = Head(relay)
    BY <1>14, HeadTailAppend, AppendProperties DEF Fetch
  <2>2. FirstIsBad => FirstIsBad'
    BY <2>1
  <2>3. UNCHANGED <<faults, up, master, wasted, sql, skip, pc, io>>
    BY <1>14 DEF Fetch
  <2>4. QED
    BY <2>2, <2>3
<1>15. CASE SqlThread
  <2>1. sql = "Yes" /\ UNCHANGED <<faults, up, master, pc, io>>
    BY <1>15 DEF SqlThread
  <2>2. CASE SkipEvent
    <3>1. skip > 0 /\ skip' = 0 /\ sql' = "Yes"
      BY <2>1, <2>2 DEF SkipEvent
    <3>2. Head(relay) = "bad" => wasted' = wasted
      BY <2>2 DEF SkipEvent
    <3>3. QED
      BY <2>1, <3>1, <3>2
  <2>3. CASE ApplyEvent
    <3>1. relay # <<>> /\ Head(relay) \in Events
      BY <1>15, HeadTailProperties DEF SqlThread
    <3>2. QED
      BY <2>1, <2>3, <3>1 DEF ApplyEvent, Events
  <2>4. QED
    BY <1>15, <2>2, <2>3 DEF SqlThread
<1>16. CASE MasterFails
  BY <1>16 DEF MasterFails
<1>17. CASE MasterRecovers
  BY <1>17 DEF MasterRecovers
<1>18. CASE ServerDown
  BY <1>18 DEF ServerDown
<1>19. CASE ServerUp
  BY <1>19 DEF ServerUp
<1>20. CASE UNCHANGED vars
  BY <1>20
<1>21. QED
  BY <1>1, <1>2, <1>3, <1>4, <1>5, <1>6, <1>7, <1>8, <1>9, <1>10, <1>11, <1>12, <1>13, <1>14,
     <1>15, <1>16, <1>17, <1>18, <1>19, <1>20 DEF Next, Service, World, Done


-----------------------------------------------------------------------------
(* The setup file                                                          *)

\* The times are in order, and nothing was edited after the last look at the
\* clock; a file whose last edit is older than the last ParseFile was read as it
\* is now.  The time 0 of the setup that was never read is no time of a file.
SettingsInv ==
    /\ 0 < time /\ time <= now /\ readAt <= now /\ m_iFileTime <= statAt /\ statAt <= now
    /\ file.kind # "gone" /\ time < readAt => Agrees

\* Every step keeps it: reading, SetFileSizeTime, and an edit between the two.
LEMMA SettingsKept == TypeOK /\ SettingsInv /\ [Next]_vars => SettingsInv'
<1> SUFFICES ASSUME TypeOK /\ SettingsInv, [Next]_vars PROVE SettingsInv'
  OBVIOUS
<1> USE DEF TypeOK, PC, SettingsInv, SettingsCurrent, Agrees, Parses, Changed, Clock, vars, service, setup, disk, slave, world
<1>1. CASE Start
  BY <1>1 DEF Start, TakePeriod, Goto
<1>2. CASE \/ SetFileSizeTime("startStamp", "check")
          \/ SetFileSizeTime("stamp", "loop")
  <2>1. UNCHANGED <<file, time, readAt, m_iDbWatchPeriod>>
    BY <1>2 DEF SetFileSizeTime
  <2>2. \/ UNCHANGED <<m_iFileTime, statAt, now>>
        \/ m_iFileTime' = time /\ statAt' = now' /\ now' \in {now, now + 1}
    BY <1>2 DEF SetFileSizeTime
  <2>3. Agrees' = Agrees
    BY <2>1
  <2>4. /\ 0 < time' /\ time' <= now' /\ readAt' <= now'
        /\ m_iFileTime' <= statAt' /\ statAt' <= now'
    BY <2>1, <2>2
  <2>5. QED
    BY <2>1, <2>3, <2>4
<1>3. CASE Tick
  BY <1>3 DEF Tick, Turn, Goto
<1>4. CASE End
  BY <1>4 DEF End, Goto
<1>5. CASE IsChange
  BY <1>5 DEF IsChange, Goto
<1>6. CASE Read
  BY <1>6 DEF Read, TakePeriod, Goto
<1>7. CASE Check
  BY <1>7 DEF Check, Leave, SaysNo, Goto
<1>8. CASE Report
  BY <1>8 DEF Report, Goto
<1>9. CASE StopSlave
  BY <1>9 DEF StopSlave, Goto
<1>10. CASE SkipOne
  BY <1>10 DEF SkipOne, SetCounter, Goto
<1>11. CASE StartSlave
  BY <1>11 DEF StartSlave, Leave, Goto
<1>12. CASE Signal
  BY <1>12 DEF Signal, Goto
<1>13. CASE Edit
  BY <1>13 DEF Edit
<1>14. CASE Fetch
  BY <1>14 DEF Fetch
<1>15. CASE SqlThread
  BY <1>15 DEF SqlThread, SkipEvent, ApplyEvent
<1>16. CASE MasterFails
  BY <1>16 DEF MasterFails
<1>17. CASE MasterRecovers
  BY <1>17 DEF MasterRecovers
<1>18. CASE ServerDown
  BY <1>18 DEF ServerDown
<1>19. CASE ServerUp
  BY <1>19 DEF ServerUp
<1>20. CASE UNCHANGED vars
  BY <1>20
<1>21. QED
  BY <1>1, <1>2, <1>3, <1>4, <1>5, <1>6, <1>7, <1>8, <1>9, <1>10, <1>11, <1>12, <1>13, <1>14,
     <1>15, <1>16, <1>17, <1>18, <1>19, <1>20 DEF Next, Service, World, Done


-----------------------------------------------------------------------------
(* The count of the seconds                                                *)

\* Before the first check the count is 0, and a check leaves it at 0.
CountInv == pc \in {"start", "startStamp"} => iSecond = 0

\* Every step keeps it.
LEMMA CountKept == TypeOK /\ CountInv /\ [Next]_vars => CountInv'
<1> SUFFICES ASSUME TypeOK /\ CountInv, [Next]_vars PROVE CountInv'
  OBVIOUS
<1> USE DEF TypeOK, PC, CountInv, vars, service, setup, disk, slave, world
<1>1. CASE Start
  BY <1>1 DEF Start, TakePeriod, Goto
<1>2. CASE \/ SetFileSizeTime("startStamp", "check")
          \/ SetFileSizeTime("stamp", "loop")
  BY <1>2 DEF SetFileSizeTime, Goto
<1>3. CASE Tick
  BY <1>3 DEF Tick, Turn, Goto
<1>4. CASE End
  BY <1>4 DEF End, Goto
<1>5. CASE IsChange
  BY <1>5 DEF IsChange, Goto
<1>6. CASE Read
  BY <1>6 DEF Read, TakePeriod, Goto
<1>7. CASE Check
  BY <1>7 DEF Check, Leave, SaysNo, Goto
<1>8. CASE Report
  BY <1>8 DEF Report, Goto
<1>9. CASE StopSlave
  BY <1>9 DEF StopSlave, Goto
<1>10. CASE SkipOne
  BY <1>10 DEF SkipOne, SetCounter, Goto
<1>11. CASE StartSlave
  BY <1>11 DEF StartSlave, Leave, Goto
<1>12. CASE Signal
  BY <1>12 DEF Signal, Goto
<1>13. CASE Edit
  BY <1>13 DEF Edit
<1>14. CASE Fetch
  BY <1>14 DEF Fetch
<1>15. CASE SqlThread
  BY <1>15 DEF SqlThread, SkipEvent, ApplyEvent
<1>16. CASE MasterFails
  BY <1>16 DEF MasterFails
<1>17. CASE MasterRecovers
  BY <1>17 DEF MasterRecovers
<1>18. CASE ServerDown
  BY <1>18 DEF ServerDown
<1>19. CASE ServerUp
  BY <1>19 DEF ServerUp
<1>20. CASE UNCHANGED vars
  BY <1>20
<1>21. QED
  BY <1>1, <1>2, <1>3, <1>4, <1>5, <1>6, <1>7, <1>8, <1>9, <1>10, <1>11, <1>12, <1>13, <1>14,
     <1>15, <1>16, <1>17, <1>18, <1>19, <1>20 DEF Next, Service, World, Done

\* No step takes the count past the period, except one that shortens the period.
LEMMA OverrunStep == TypeOK /\ CountInv /\ [Next]_vars => (Overrun' /\ ~Overrun => m_iDbWatchPeriod' < m_iDbWatchPeriod)
<1> SUFFICES ASSUME TypeOK /\ CountInv, [Next]_vars PROVE (Overrun' /\ ~Overrun => m_iDbWatchPeriod' < m_iDbWatchPeriod)
  OBVIOUS
<1> USE DEF TypeOK, PC, CountInv, Overrun, InCheck, vars, service, setup, disk, slave, world
<1>1. CASE Start
  BY <1>1, TypeKept DEF Start, TakePeriod, Goto
<1>2. CASE \/ SetFileSizeTime("startStamp", "check")
          \/ SetFileSizeTime("stamp", "loop")
  BY <1>2 DEF SetFileSizeTime, Goto
<1>3. CASE Tick
  BY <1>3 DEF Tick, Turn, Goto
<1>4. CASE End
  BY <1>4 DEF End, Goto
<1>5. CASE IsChange
  BY <1>5 DEF IsChange, Goto
<1>6. CASE Read
  BY <1>6, TypeKept DEF Read, TakePeriod, Goto
<1>7. CASE Check
  BY <1>7 DEF Check, Leave, SaysNo, Goto
<1>8. CASE Report
  BY <1>8 DEF Report, Goto
<1>9. CASE StopSlave
  BY <1>9 DEF StopSlave, Goto
<1>10. CASE SkipOne
  BY <1>10 DEF SkipOne, SetCounter, Goto
<1>11. CASE StartSlave
  BY <1>11 DEF StartSlave, Leave, Goto
<1>12. CASE Signal
  BY <1>12 DEF Signal, Goto
<1>13. CASE Edit
  BY <1>13 DEF Edit
<1>14. CASE Fetch
  BY <1>14 DEF Fetch
<1>15. CASE SqlThread
  BY <1>15 DEF SqlThread, SkipEvent, ApplyEvent
<1>16. CASE MasterFails
  BY <1>16 DEF MasterFails
<1>17. CASE MasterRecovers
  BY <1>17 DEF MasterRecovers
<1>18. CASE ServerDown
  BY <1>18 DEF ServerDown
<1>19. CASE ServerUp
  BY <1>19 DEF ServerUp
<1>20. CASE UNCHANGED vars
  BY <1>20
<1>21. QED
  BY <1>1, <1>2, <1>3, <1>4, <1>5, <1>6, <1>7, <1>8, <1>9, <1>10, <1>11, <1>12, <1>13, <1>14,
     <1>15, <1>16, <1>17, <1>18, <1>19, <1>20 DEF Next, Service, World, Done


-----------------------------------------------------------------------------
(* The theorems                                                            *)

IInv == TypeOK /\ SkipInv /\ Faultless /\ SettingsInv /\ CountInv

\* The service begins in the invariant.
LEMMA InitIInv == Init => IInv
<1> SUFFICES ASSUME Init PROVE IInv
  OBVIOUS
<1> USE WatcherAssumption DEF Init
<1>1. relay \in Seq(Events) /\ Len(relay) = 0
  BY EmptySeq
<1>2. TypeOK
  <2>1. TypeService
    <3>1. iSecond \in 0..MaxPeriod + 1 /\ rounds \in Nat
      OBVIOUS
    <3>2. pc \in PC /\ gbStop \in BOOLEAN /\ signalled \in BOOLEAN
      BY Zenon DEF PC
    <3>3. QED
      BY <3>1, <3>2 DEF TypeService
  <2>2. TypeSetup
    BY DEF TypeSetup
  <2>3. TypeSlave
    BY <1>1 DEF TypeSlave
  <2>4. TypeWorld
    BY DEF TypeWorld
  <2>5. QED
    BY <2>1, <2>2, <2>3, <2>4 DEF TypeOK, TypeService, TypeSetup, TypeSlave, TypeWorld
<1>3. SkipInv
  BY <1>1 DEF SkipInv, EventsSent, OneSkipPerTurn
<1>4. Faultless
  BY DEF Faultless
<1>5. SettingsInv /\ CountInv
  BY DEF SettingsInv, CountInv
<1>6. QED
  BY <1>2, <1>3, <1>4, <1>5 DEF IInv

\* The invariant always holds.
LEMMA Invariance == Spec => []IInv
<1>1. IInv /\ [Next]_vars => IInv'
  BY TypeKept, SkipKept, FaultlessKept, SettingsKept, CountKept DEF IInv
<1>2. QED
  BY InitIInv, <1>1, PTL DEF Spec

\* The variables of the service and of the slave keep their types.
THEOREM TypeCorrect == Spec => []TypeOK
<1>1. IInv => TypeOK
  BY DEF IInv
<1>2. QED
  BY Invariance, <1>1, PTL

\* CheckSlave's loop (MySQLSlaveOverWatcher.cpp:63-97) costs at most one event a
\* turn, however often the server fails between the three statements of a turn.
THEOREM OneEventPerTurn == Spec => []OneSkipPerTurn
<1>1. IInv => OneSkipPerTurn
  BY DEF IInv, SkipInv
<1>2. QED
  BY Invariance, <1>1, PTL

\* Without a failure of the master or of the server no event is skipped that
\* would have applied: the status asked for at line 69 is still true at line 91.
THEOREM GoodEventsKept == Spec => []OnlyFailedSkipped
<1>1. IInv => OnlyFailedSkipped
  BY DEF IInv, Faultless, OnlyFailedSkipped, TypeOK
<1>2. QED
  BY Invariance, <1>1, PTL

\* When size and time of the file are those in memory, the settings are those
\* of the file, unless it was last edited in the seconds from ParseFile to stat
\* (MySQLSlaveOverWatcherSetup.cpp:106-118, 188-213).
THEOREM EditsSeen == Spec => []SettingsCurrent
<1>1. IInv => SettingsCurrent
  BY DEF IInv, SettingsInv, SettingsCurrent, Changed, TypeOK
<1>2. QED
  BY Invariance, <1>1, PTL

\* The comparison with "==" (line 139) can be passed over in one way only: the
\* setup file is read with a shorter period.
THEOREM ReloadAloneOverruns == Spec => OverrunOnlyByReload
<1>1. IInv /\ [Next]_vars => [Overrun' /\ ~Overrun => m_iDbWatchPeriod' < m_iDbWatchPeriod]_vars
  BY OverrunStep DEF IInv
<1>2. QED
  BY Invariance, <1>1, PTL DEF Spec, OverrunOnlyByReload
=============================================================================
