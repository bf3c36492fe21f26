-------------------------- MODULE DbMySQLThreadProofs --------------------------
(***************************************************************************)
(* Proofs about DbMySQLThread for any programs, SQL threads, starts and    *)
(* statements.                                                             *)
(***************************************************************************)
EXTENDS ThreadRefinement, FiniteSetTheorems, SequenceTheorems, TLAPS

\* Between the two halves of ++ or -- an SQL thread owns gclsMutex, and the
\* value it has read is still the value of giThreadCount.
CountOwned ==
    \A t \in SqlThreads :
        pc[t] \in {"inc", "dec"} => gclsMutex = t /\ iCount[t] = giThreadCount

\* A thread in the loop of StartDbMySQLThread has turns left.
TurnsLeft == \A p \in Programs : sp[p] \in {"clear", "create"} => left[p] > 0

\* The queue holds the last statements in the order of their Inserts.
LastInserted ==
    /\ Len(m_clsList) <= inserts
    /\ \A k \in 1..Len(m_clsList) : m_clsList[k].n = inserts - Len(m_clsList) + k

\* An SQL thread has a statement exactly while it executes it, and no other has
\* the same.
Holds ==
    /\ \A t \in SqlThreads : pc[t] = "execute" <=> clsData[t] # None
    /\ \A t, u \in SqlThreads :
          t # u /\ clsData[t].n = clsData[u].n => clsData[t] = None

\* The statements that left the queue are with one SQL thread or ended.
TakenOrEnded ==
    /\ WithThread \cup Ended = 1..(inserts - Len(m_clsList))
    /\ WithThread \cap Ended = {}

IInv ==
    /\ TypeOK
    /\ CountOwned /\ CountExact
    /\ TurnsLeft
    /\ LastInserted /\ Holds /\ TakenOrEnded

-----------------------------------------------------------------------------
(* The count of the threads                                                *)

\* The threads that are counted are a finite set.
LEMMA CountedFinite == IsFiniteSet(Counted) /\ Cardinality(Counted) <= Cardinality(SqlThreads)
BY ThreadAssumption, FS_Subset DEF Counted

\* A step that leaves an SQL thread counted or not, as it was, and does not
\* change the counter keeps the counter exact.
LEMMA MoveKeepsCount ==
    ASSUME IInv, NEW t \in SqlThreads, NEW label, Goto(t, label),
           pc[t] \notin {"inc", "dec"}, label \notin {"inc", "dec"},
           pc[t] \in {"test", "select", "execute", "close", "leave"} <=>
               label \in {"test", "select", "execute", "close", "leave"},
           UNCHANGED <<gclsMutex, giThreadCount, iCount>>
    PROVE  (CountOwned /\ CountExact)'
<1>1. \A u \in SqlThreads : pc'[u] = IF u = t THEN label ELSE pc[u]
  BY DEF IInv, TypeOK, Goto
<1>2. Counted' = Counted
  BY <1>1 DEF Counted
<1>3. CountOwned'
  BY <1>1 DEF IInv, CountOwned
<1> QED
  BY <1>2, <1>3 DEF IInv, CountExact

\* Every step keeps the counter exact.
LEMMA CountStep == IInv /\ [Next]_vars => (CountOwned /\ CountExact)'
<1> SUFFICES ASSUME IInv, [Next]_vars PROVE (CountOwned /\ CountExact)'
  OBVIOUS
<1>1. CASE UNCHANGED <<gclsMutex, giThreadCount, pc, iCount>>
  BY <1>1 DEF IInv, CountOwned, CountExact, Counted
<1>2. ASSUME NEW p \in Programs, CreateThread(p) PROVE (CountOwned /\ CountExact)'
  <2>1. PICK t \in SqlThreads : pc[t] = "none" /\ Goto(t, "spawned")
    BY <1>2 DEF CreateThread
  <2>2. UNCHANGED <<gclsMutex, giThreadCount, iCount>>
    BY <1>2 DEF CreateThread
  <2> QED
    BY <2>1, <2>2, MoveKeepsCount
<1>3. ASSUME NEW t \in SqlThreads, ReadCount(t) PROVE (CountOwned /\ CountExact)'
  <2>1. PICK label \in {"inc", "dec"} :
            Goto(t, label) /\ pc[t] = IF label = "inc" THEN "spawned" ELSE "leave"
    BY <1>3 DEF ReadCount, ReadCountStep
  <2>2. \A u \in SqlThreads : pc'[u] = IF u = t THEN label ELSE pc[u]
    BY <2>1 DEF IInv, TypeOK, Goto
  <2>3. Counted' = Counted
    BY <2>1, <2>2 DEF Counted
  <2>4. /\ gclsMutex = Nobody /\ gclsMutex' = t /\ giThreadCount' = giThreadCount
        /\ iCount' = [iCount EXCEPT ![t] = giThreadCount]
    BY <1>3 DEF ReadCount, ReadCountStep
  <2>5. \A u \in SqlThreads : pc[u] \notin {"inc", "dec"}
    BY <2>4, ThreadAssumption DEF IInv, CountOwned
  <2>6. CountOwned'
    BY <2>2, <2>4, <2>5 DEF CountOwned, IInv, TypeOK
  <2> QED
    BY <2>3, <2>4, <2>6 DEF IInv, CountExact
<1>4. ASSUME NEW t \in SqlThreads, WriteCount(t) PROVE (CountOwned /\ CountExact)'
  <2>1. pc[t] \in {"inc", "dec"} /\ iCount[t] = giThreadCount
    BY <1>4 DEF WriteCount, IInv, CountOwned
  <2>2. \A u \in SqlThreads \ {t} : pc[u] \notin {"inc", "dec"}
    BY <2>1 DEF IInv, CountOwned
  <2>3. CASE pc[t] = "inc"
    <3>1. giThreadCount' = giThreadCount + 1 /\ Goto(t, "test")
      BY <1>4, <2>1, <2>3 DEF WriteCount
    <3>2. \A u \in SqlThreads : pc'[u] = IF u = t THEN "test" ELSE pc[u]
      BY <3>1 DEF IInv, TypeOK, Goto
    <3>3. Counted' = Counted \cup {t} /\ t \notin Counted
      BY <2>3, <3>2 DEF Counted
    <3>4. Cardinality(Counted') = Cardinality(Counted) + 1
      BY <3>3, CountedFinite, FS_AddElement
    <3>5. CountOwned'
      BY <2>2, <3>2 DEF CountOwned
    <3> QED
      BY <3>1, <3>4, <3>5 DEF IInv, CountExact
  <2>4. CASE pc[t] = "dec"
    <3>1. giThreadCount' = giThreadCount - 1 /\ Goto(t, "done")
      BY <1>4, <2>1, <2>4 DEF WriteCount
    <3>2. \A u \in SqlThreads : pc'[u] = IF u = t THEN "done" ELSE pc[u]
      BY <3>1 DEF IInv, TypeOK, Goto
    <3>3. Counted' = Counted \ {t} /\ t \in Counted
      BY <2>4, <3>2 DEF Counted
    <3>4. Cardinality(Counted') = Cardinality(Counted) - 1
      BY <3>3, CountedFinite, FS_RemoveElement
    <3>5. CountOwned'
      BY <2>2, <3>2 DEF CountOwned
    <3> QED
      BY <3>1, <3>4, <3>5 DEF IInv, CountExact
  <2> QED
    BY <2>1, <2>3, <2>4
<1>5. ASSUME NEW t \in SqlThreads,
             TestStop(t) \/ TakeSql(t) \/ Sleep(t) \/ Execute(t) \/ CloseConnection(t)
      PROVE  (CountOwned /\ CountExact)'
  <2>1. UNCHANGED <<gclsMutex, giThreadCount, iCount>>
    BY <1>5 DEF TestStop, TakeSql, Take, Sleep, FindNothing, Execute, CloseConnection
  <2>2. PICK label \in {"test", "select", "execute", "close", "leave"} : Goto(t, label)
    BY <1>5 DEF TestStop, TakeSql, Take, Sleep, FindNothing, Execute, CloseConnection
  <2>3. pc[t] \in {"test", "select", "execute", "close"}
    BY <1>5 DEF TestStop, TakeSql, Take, Sleep, FindNothing, Execute, CloseConnection
  <2> QED
    BY <2>1, <2>2, <2>3, MoveKeepsCount
<1> QED
  BY <1>1, <1>2, <1>3, <1>4, <1>5
     DEF Next, SqlStep, ProgramStep, ClearStop, CreateFails, GiveUp, GiveUpWith,
         StartOne, Start, StartTurns, Stop, Insert, sqlThread, vars

-----------------------------------------------------------------------------
(* The statements                                                          *)

\* The number of what an SQL thread has tells whether it has a statement.
LEMMA NumberOfNone ==
    ASSUME TypeOK, NEW t \in SqlThreads
    PROVE  clsData[t].n \in Nat /\ (clsData[t].n = 0 <=> clsData[t] = None)
BY ThreadAssumption DEF TypeOK, Statement, None

\* Every step moves a statement on along its way.
LEMMA QueueStep == IInv /\ [Next]_vars => (LastInserted /\ Holds /\ TakenOrEnded)'
<1> SUFFICES ASSUME IInv, [Next]_vars PROVE (LastInserted /\ Holds /\ TakenOrEnded)'
  OBVIOUS
<1> USE DEF IInv, queue, history
<1>1. CASE UNCHANGED <<queue, clsData, history>> /\
           \A t \in SqlThreads : pc'[t] = "execute" <=> pc[t] = "execute"
  BY <1>1 DEF LastInserted, Holds, TakenOrEnded, WithThread, Ended
<1>2. ASSUME NEW args \in 0..1, NEW params \in 0..1, Insert(args, params)
      PROVE  (LastInserted /\ Holds /\ TakenOrEnded)'
  <2> DEFINE data == [n |-> inserts + 1, args |-> args, params |-> params]
  <2>1. /\ inserts' = inserts + 1 /\ m_clsList' = Append(m_clsList, data)
        /\ UNCHANGED <<pc, clsData, executed, dropped>>
    BY <1>2 DEF Insert, sqlThread
  <2>2. data \in Statement /\ inserts \in Nat
    BY <1>2, ThreadAssumption DEF Insert, TypeOK, Statement
  <2>3. /\ Len(m_clsList') = Len(m_clsList) + 1
        /\ \A k \in 1..Len(m_clsList) : m_clsList'[k] = m_clsList[k]
        /\ m_clsList'[Len(m_clsList) + 1] = data
    BY <2>1, <2>2, AppendProperties DEF TypeOK
  <2>4. Len(m_clsList) \in Nat
    BY LenProperties DEF TypeOK
  <2>5. LastInserted'
    <3>1. ASSUME NEW k \in 1..Len(m_clsList')
          PROVE  m_clsList'[k].n = inserts' - Len(m_clsList') + k
      BY <2>1, <2>2, <2>3, <2>4 DEF LastInserted
    <3> QED
      BY <2>1, <2>2, <2>3, <2>4, <3>1 DEF LastInserted
  <2>6. inserts' - Len(m_clsList') = inserts - Len(m_clsList)
    BY <2>1, <2>2, <2>3, <2>4
  <2> QED
    <3>1. Holds'
      BY <2>1 DEF Holds
    <3>2. WithThread' = WithThread /\ Ended' = Ended
      BY <2>1 DEF WithThread, Ended
    <3> QED
      BY <2>5, <2>6, <3>1, <3>2 DEF TakenOrEnded
<1>3. ASSUME NEW t \in SqlThreads, TakeSql(t)
      PROVE  (LastInserted /\ Holds /\ TakenOrEnded)'
  <2>1. /\ pc[t] = "select" /\ m_clsList # <<>> /\ m_clsList' = Tail(m_clsList)
        /\ clsData' = [clsData EXCEPT ![t] = Head(m_clsList)]
        /\ pc' = [pc EXCEPT ![t] = "execute"]
        /\ UNCHANGED <<inserts, executed, dropped>>
    BY <1>3 DEF TakeSql, Take, Goto
  <2>2. /\ Len(m_clsList) \in Nat \ {0} /\ Len(m_clsList') = Len(m_clsList) - 1
        /\ Head(m_clsList) \in Statement
        /\ \A k \in 1..Len(m_clsList') : m_clsList'[k] = m_clsList[k + 1]
    BY <2>1, HeadTailProperties, EmptySeq DEF TypeOK
  <2>3. inserts \in Nat /\ Len(m_clsList) <= inserts
    BY ThreadAssumption DEF TypeOK, LastInserted
  <2> DEFINE m == inserts - Len(m_clsList) + 1
  <2>4. Head(m_clsList).n = m /\ m \in Nat \ {0}
    <3>1. Head(m_clsList) = m_clsList[1] /\ 1 \in 1..Len(m_clsList)
      BY <2>1, <2>2
    <3>2. m_clsList[1].n = m
      BY <3>1 DEF LastInserted
    <3> QED
      BY <2>2, <2>3, <3>1, <3>2
  <2>5. LastInserted'
    <3>1. ASSUME NEW k \in 1..Len(m_clsList')
          PROVE  m_clsList'[k].n = inserts' - Len(m_clsList') + k
      BY <2>1, <2>2, <2>3 DEF LastInserted
    <3> QED
      BY <2>1, <2>2, <2>3, <3>1 DEF LastInserted
  <2>6. /\ clsData[t] = None /\ Head(m_clsList) # None
        /\ \A u \in SqlThreads :
              /\ clsData'[u] = IF u = t THEN Head(m_clsList) ELSE clsData[u]
              /\ pc'[u] = IF u = t THEN "execute" ELSE pc[u]
    BY <2>1, <2>4 DEF Holds, TypeOK, None
  <2>7. m \notin WithThread \cup Ended
    BY <2>2, <2>3 DEF TakenOrEnded
  <2>8. \A u \in SqlThreads : clsData[u].n # m
    BY <2>4, <2>7 DEF WithThread
  <2>9. Holds'
    BY <2>4, <2>6, <2>8 DEF Holds
  <2>10. WithThread' = WithThread \cup {m}
    <3>1. clsData[t].n = 0
      BY <2>6 DEF None
    <3>2. clsData'[t].n = m
      BY <2>4, <2>6
    <3> QED
      BY <2>4, <2>6, <3>1, <3>2 DEF WithThread
  <2>11. Ended' = Ended
    BY <2>1 DEF Ended
  <2>12. 1..(inserts' - Len(m_clsList')) = 1..(inserts - Len(m_clsList)) \cup {m}
    BY <2>1, <2>2, <2>3
  <2> QED
    BY <2>5, <2>7, <2>9, <2>10, <2>11, <2>12 DEF TakenOrEnded
<1>4. ASSUME NEW t \in SqlThreads, Execute(t)
      PROVE  (LastInserted /\ Holds /\ TakenOrEnded)'
  <2>1. /\ pc[t] = "execute" /\ pc' = [pc EXCEPT ![t] = "test"]
        /\ clsData' = [clsData EXCEPT ![t] = None]
        /\ executed' \cup dropped' = executed \cup dropped \cup {clsData[t]}
        /\ UNCHANGED <<m_clsList, inserts>>
    BY <1>4 DEF Execute, Goto
  <2>2. clsData[t] # None /\ clsData[t].n \in Nat \ {0}
    BY <2>1, NumberOfNone DEF Holds
  <2>3. \A u \in SqlThreads :
              /\ clsData'[u] = IF u = t THEN None ELSE clsData[u]
              /\ pc'[u] = IF u = t THEN "test" ELSE pc[u]
    BY <2>1 DEF TypeOK
  <2>4. \A u \in SqlThreads \ {t} : clsData[u].n # clsData[t].n
    BY <2>2 DEF Holds
  <2>5. Holds'
    <3>1. \A u \in SqlThreads : clsData[u].n = None.n => clsData[u] = None
      BY NumberOfNone DEF None
    <3> QED
      BY <2>1, <2>2, <2>3, <3>1 DEF Holds
  <2>6. WithThread' = WithThread \ {clsData[t].n} /\ clsData[t].n \in WithThread
    <3>1. None.n = 0
      BY DEF None
    <3> QED
      BY <2>2, <2>3, <2>4, <3>1 DEF WithThread
  <2>7. Ended' = Ended \cup {clsData[t].n}
    BY <2>1 DEF Ended
  <2> QED
    BY <2>1, <2>5, <2>6, <2>7 DEF LastInserted, TakenOrEnded
<1>5. ASSUME NEW t \in SqlThreads,
             ReadCount(t) \/ WriteCount(t) \/ TestStop(t) \/ Sleep(t) \/ CloseConnection(t)
      PROVE  (LastInserted /\ Holds /\ TakenOrEnded)'
  <2>1. UNCHANGED <<queue, clsData, history>>
    BY <1>5 DEF ReadCount, ReadCountStep, WriteCount, TestStop, Sleep, FindNothing,
                CloseConnection
  <2>2. pc[t] # "execute" /\ \E label : label # "execute" /\ Goto(t, label)
    BY <1>5 DEF ReadCount, ReadCountStep, WriteCount, TestStop, Sleep, FindNothing,
                CloseConnection
  <2> QED
    BY <1>1, <2>1, <2>2 DEF Goto, TypeOK
<1>6. ASSUME NEW p \in Programs, CreateThread(p)
      PROVE  (LastInserted /\ Holds /\ TakenOrEnded)'
  <2>1. UNCHANGED <<queue, clsData, history>>
    BY <1>6 DEF CreateThread
  <2>2. \E t \in SqlThreads : pc[t] = "none" /\ Goto(t, "spawned")
    BY <1>6 DEF CreateThread
  <2> QED
    BY <1>1, <2>1, <2>2 DEF Goto, TypeOK
<1> QED
  BY <1>1, <1>2, <1>3, <1>4, <1>5, <1>6
     DEF Next, SqlStep, ProgramStep, ClearStop, CreateFails, GiveUp, GiveUpWith,
         StartOne, Start, StartTurns, Stop, sqlThread, vars

\* What the inductive invariant says of the statements is OnePlace.
LEMMA OnePlaceHolds == IInv => OnePlace
<1> SUFFICES ASSUME IInv PROVE OnePlace
  OBVIOUS
<1> DEFINE m == inserts - Len(m_clsList)
<1>1. inserts \in Nat /\ Len(m_clsList) \in Nat /\ Len(m_clsList) <= inserts /\ m \in Nat
  BY ThreadAssumption, LenProperties DEF IInv, TypeOK, LastInserted
<1>2. InQueue = (m + 1)..inserts
  <2>1. DOMAIN m_clsList = 1..Len(m_clsList)
    BY DEF IInv, TypeOK
  <2>2. InQueue = {m + k : k \in 1..Len(m_clsList)}
    BY <2>1 DEF InQueue, IInv, LastInserted
  <2>3. ASSUME NEW n \in (m + 1)..inserts PROVE n \in InQueue
    <3>1. n - m \in 1..Len(m_clsList) /\ n = m + (n - m)
      BY <1>1
    <3> QED
      BY <2>2, <3>1
  <2>4. ASSUME NEW n \in InQueue PROVE n \in (m + 1)..inserts
    BY <1>1, <2>2
  <2> QED
    BY <2>3, <2>4
<1>3. WithThread \cup Ended = 1..m /\ WithThread \cap Ended = {}
  BY DEF IInv, TakenOrEnded
<1> HIDE DEF m
<1>4. IsFiniteSet(1..m) /\ Cardinality(1..m) = m
  <2>1. 1 \in Int /\ m \in Int
    BY <1>1
  <2>2. IsFiniteSet(1..m) /\ Cardinality(1..m) = IF 1 > m THEN 0 ELSE m - 1 + 1
    BY <2>1, FS_Interval, Zenon
  <2> QED
    BY <1>1, <2>2
<1>5. IsFiniteSet(WithThread) /\ IsFiniteSet(Ended)
  BY <1>3, <1>4, FS_Subset
<1>6. Cardinality(WithThread) \in Nat /\ Cardinality(Ended) \in Nat
  BY <1>5, FS_CardinalityType
<1>7. Cardinality(WithThread) + Cardinality(Ended) = m
  <2>1. Cardinality(WithThread \cup Ended) =
            Cardinality(WithThread) + Cardinality(Ended) - Cardinality({})
    BY <1>3, <1>5, FS_Union
  <2> QED
    <3>1. Cardinality({}) = 0
      BY FS_EmptySet, Zenon
    <3>2. Cardinality(WithThread \cup Ended) = m
      BY <1>3, <1>4, Zenon
    <3> QED
      BY <1>1, <1>6, <2>1, <3>1, <3>2
<1>8. InQueue \cup WithThread \cup Ended = 1..inserts
  BY <1>1, <1>2, <1>3 DEF m
<1>9. Len(m_clsList) + Cardinality(WithThread) + Cardinality(Ended) = inserts
  BY <1>1, <1>6, <1>7 DEF m
<1>10. \A t, u \in SqlThreads : t # u /\ clsData[t] = clsData[u] => clsData[t] = None
  BY DEF IInv, Holds
<1> QED
  BY <1>8, <1>9, <1>10 DEF OnePlace

-----------------------------------------------------------------------------
(* Types                                                                   *)

\* Every step leaves an SQL thread in a place of its loop, and the counter
\* between zero and the number of threads.
LEMMA SqlThreadStep ==
    IInv /\ [Next]_vars =>
        /\ gclsMutex' \in SqlThreads \cup {Nobody}
        /\ giThreadCount' \in 0..Cardinality(SqlThreads)
        /\ pc' \in [SqlThreads -> {"none", "spawned", "inc", "test", "select", "execute",
                                   "close", "leave", "dec", "done"}]
        /\ iCount' \in [SqlThreads -> 0..Cardinality(SqlThreads)]
<1> SUFFICES ASSUME IInv, [Next]_vars
             PROVE  /\ gclsMutex' \in SqlThreads \cup {Nobody}
                    /\ giThreadCount' \in 0..Cardinality(SqlThreads)
                    /\ pc' \in [SqlThreads -> {"none", "spawned", "inc", "test", "select",
                                  "execute", "close", "leave", "dec", "done"}]
                    /\ iCount' \in [SqlThreads -> 0..Cardinality(SqlThreads)]
  OBVIOUS
<1> DEFINE places == {"none", "spawned", "inc", "test", "select", "execute",
                      "close", "leave", "dec", "done"}
<1>1. giThreadCount' \in 0..Cardinality(SqlThreads)
  <2>1. giThreadCount' = Cardinality(Counted')
    BY CountStep DEF CountExact
  <2>2. IsFiniteSet(Counted') /\ Cardinality(Counted') <= Cardinality(SqlThreads)
    BY ThreadAssumption, FS_Subset DEF Counted
  <2> QED
    BY <2>1, <2>2, ThreadAssumption, FS_CardinalityType
<1>2. pc' = pc \/ \E t \in SqlThreads : \E label \in places : Goto(t, label)
  BY DEF Next, SqlStep, ProgramStep, ReadCount, ReadCountStep, WriteCount, TestStop,
         TakeSql, Take, Sleep, FindNothing, Execute, CloseConnection, ClearStop,
         CreateThread, CreateFails, GiveUp, GiveUpWith, StartOne, Start, StartTurns,
         Stop, Insert, sqlThread, vars
<1>3. pc' \in [SqlThreads -> places]
  BY <1>2 DEF Goto, IInv, TypeOK
<1>4. \/ UNCHANGED <<gclsMutex, iCount>>
      \/ \E t \in SqlThreads : gclsMutex' = t /\
                              iCount' = [iCount EXCEPT ![t] = giThreadCount]
      \/ gclsMutex' = Nobody /\ iCount' = iCount
  BY DEF Next, SqlStep, ProgramStep, ReadCount, ReadCountStep, WriteCount, TestStop,
         TakeSql, Take, Sleep, FindNothing, Execute, CloseConnection, ClearStop,
         CreateThread, CreateFails, GiveUp, GiveUpWith, StartOne, Start, StartTurns,
         Stop, Insert, sqlThread, vars
<1> QED
  BY <1>1, <1>3, <1>4 DEF IInv, TypeOK

\* Every step leaves statements in the queue, with the threads and behind them.
LEMMA StatementStep ==
    IInv /\ [Next]_vars =>
        /\ m_clsList' \in Seq(Statement) /\ inserts' \in 0..MaxInserts
        /\ clsData' \in [SqlThreads -> Statement \cup {None}]
        /\ executed' \subseteq Statement /\ dropped' \subseteq Statement
<1> SUFFICES ASSUME IInv, [Next]_vars
             PROVE  /\ m_clsList' \in Seq(Statement) /\ inserts' \in 0..MaxInserts
                    /\ clsData' \in [SqlThreads -> Statement \cup {None}]
                    /\ executed' \subseteq Statement /\ dropped' \subseteq Statement
  OBVIOUS
<1> USE DEF IInv, TypeOK, queue, history
<1>1. CASE UNCHANGED <<queue, clsData, history>>
  BY <1>1
<1>2. ASSUME NEW args \in 0..1, NEW params \in 0..1, Insert(args, params)
      PROVE  /\ m_clsList' \in Seq(Statement) /\ inserts' \in 0..MaxInserts
             /\ UNCHANGED <<clsData, history>>
  <2> DEFINE data == [n |-> inserts + 1, args |-> args, params |-> params]
  <2>1. data \in Statement /\ inserts + 1 \in 0..MaxInserts
    BY <1>2, ThreadAssumption DEF Insert, Statement
  <2>2. m_clsList' = Append(m_clsList, data) /\ inserts' = inserts + 1
    BY <1>2 DEF Insert
  <2>3. m_clsList' \in Seq(Statement)
    BY <2>1, <2>2, AppendProperties
  <2> QED
    BY <1>2, <2>1, <2>2, <2>3 DEF Insert, sqlThread
<1>3. ASSUME NEW t \in SqlThreads, TakeSql(t)
      PROVE  /\ m_clsList' \in Seq(Statement)
             /\ clsData' \in [SqlThreads -> Statement \cup {None}]
             /\ UNCHANGED <<inserts, history>>
  <2>1. Head(m_clsList) \in Statement /\ Tail(m_clsList) \in Seq(Statement)
    BY <1>3, HeadTailProperties DEF TakeSql, Take
  <2> QED
    BY <1>3, <2>1 DEF TakeSql, Take
<1>4. ASSUME NEW t \in SqlThreads, Execute(t)
      PROVE  /\ clsData' \in [SqlThreads -> Statement \cup {None}]
             /\ executed' \subseteq Statement /\ dropped' \subseteq Statement
             /\ UNCHANGED queue
  <2>1. clsData[t] \in Statement
    BY <1>4 DEF Execute, Holds
  <2> QED
    BY <1>4, <2>1 DEF Execute
<1> QED
  BY <1>1, <1>2, <1>3, <1>4
     DEF Next, SqlStep, ProgramStep, ReadCount, ReadCountStep, WriteCount, TestStop,
         Sleep, FindNothing, CloseConnection, ClearStop, CreateThread, CreateFails,
         GiveUp, GiveUpWith, StartOne, Start, StartTurns, Stop, sqlThread, vars

\* Every step of StartDbMySQLThread leaves its turns within the count.
LEMMA ProgramTypeStep ==
    IInv /\ [Next]_vars =>
        /\ TurnsLeft'
        /\ gbStopThread' \in BOOLEAN
        /\ sp' \in [Programs -> {"idle", "clear", "create", "error"}]
        /\ left' \in [Programs -> 0..MaxCount] /\ single' \in [Programs -> BOOLEAN]
        /\ result' \in [Programs -> BOOLEAN] /\ failed' \in [Programs -> BOOLEAN]
        /\ starts' \in 0..MaxStarts
<1> DEFINE Typed ==
        /\ sp \in [Programs -> {"idle", "clear", "create", "error"}]
        /\ left \in [Programs -> 0..MaxCount] /\ single \in [Programs -> BOOLEAN]
        /\ result \in [Programs -> BOOLEAN] /\ failed \in [Programs -> BOOLEAN]
        /\ starts \in 0..MaxStarts
<1> SUFFICES ASSUME IInv, [Next]_vars
             PROVE  TurnsLeft' /\ gbStopThread' \in BOOLEAN /\ Typed'
  OBVIOUS
<1> USE ThreadAssumption
<1> USE DEF IInv, TypeOK, program
<1>1. gbStopThread' \in BOOLEAN
  <2>1. gbStopThread' = gbStopThread \/ gbStopThread' = TRUE \/ gbStopThread' = FALSE
    BY Zenon
       DEF Next, SqlStep, ProgramStep, ReadCount, ReadCountStep, WriteCount, TestStop,
           TakeSql, Take, Sleep, FindNothing, Execute, CloseConnection, ClearStop,
           CreateThread, CreateFails, GiveUp, GiveUpWith, StartOne, Start, StartTurns,
           Stop, Insert, vars
  <2> QED
    BY <2>1, Zenon
<1>2. CASE UNCHANGED program
  <2>1. TurnsLeft'
    BY <1>2 DEF TurnsLeft
  <2>2. Typed'
    BY <1>2, Zenon
  <2> QED
    BY <1>1, <2>1, <2>2
<1>3. ASSUME NEW p \in Programs, NEW n \in 1..MaxCount, NEW alone \in BOOLEAN,
             StartTurns(p, n, alone)
      PROVE  TurnsLeft' /\ Typed'
  BY <1>3 DEF StartTurns, ProgramGoto, TurnsLeft
<1>4. ASSUME NEW p \in Programs, ClearStop(p) PROVE TurnsLeft' /\ Typed'
  BY <1>4 DEF ClearStop, ProgramGoto, TurnsLeft
<1>5. ASSUME NEW p \in Programs, CreateThread(p) PROVE TurnsLeft' /\ Typed'
  <2>1. /\ left' = [left EXCEPT ![p] = left[p] - 1] /\ left[p] \in 1..MaxCount
        /\ UNCHANGED <<single, failed, starts>>
    BY <1>5 DEF CreateThread, TurnsLeft
  <2>2. \/ left[p] > 1 /\ sp' = [sp EXCEPT ![p] = "clear"] /\ result' = result
        \/ sp' = [sp EXCEPT ![p] = "idle"] /\ result' = [result EXCEPT ![p] = TRUE]
    BY <1>5 DEF CreateThread, ProgramGoto
  <2>3. left' \in [Programs -> 0..MaxCount]
    BY <2>1
  <2>4. sp' \in [Programs -> {"idle", "clear", "create", "error"}] /\ TurnsLeft'
    <3>1. CASE left[p] > 1 /\ sp' = [sp EXCEPT ![p] = "clear"]
      BY <2>1, <3>1 DEF TurnsLeft
    <3>2. CASE sp' = [sp EXCEPT ![p] = "idle"]
      BY <2>1, <3>2 DEF TurnsLeft
    <3> QED
      BY <2>2, <3>1, <3>2
  <2>5. result' \in [Programs -> BOOLEAN]
    BY <2>2
  <2>6. /\ single' \in [Programs -> BOOLEAN] /\ failed' \in [Programs -> BOOLEAN]
        /\ starts' \in 0..MaxStarts
    BY <2>1, Zenon
  <2> QED
    BY <2>3, <2>4, <2>5, <2>6, Zenon
<1>6. ASSUME NEW p \in Programs, CreateFails(p) PROVE TurnsLeft' /\ Typed'
  BY <1>6 DEF CreateFails, ProgramGoto, TurnsLeft
<1>7. ASSUME NEW p \in Programs, GiveUp(p) PROVE TurnsLeft' /\ Typed'
  BY <1>7 DEF GiveUp, GiveUpWith, ProgramGoto, TurnsLeft
<1>8. CASE \/ \E t \in SqlThreads : SqlStep(t)
           \/ Stop \/ \E args, params \in 0..1 : Insert(args, params)
  BY <1>2, <1>8 DEF SqlStep, ReadCount, ReadCountStep, WriteCount, TestStop, TakeSql,
                    Take, Sleep, FindNothing, Execute, CloseConnection, Stop, Insert
<1>9. 1 \in 1..MaxCount
  OBVIOUS
<1> HIDE DEF Typed
<1> QED
  BY <1>1, <1>2, <1>3, <1>4, <1>5, <1>6, <1>7, <1>8, <1>9
     DEF Next, ProgramStep, StartOne, Start, vars

-----------------------------------------------------------------------------
(* The theorems                                                            *)

\* The inductive invariant holds before any thread was started.
LEMMA InitIInv == Init => IInv
<1> SUFFICES ASSUME Init PROVE IInv
  OBVIOUS
<1> USE ThreadAssumption DEF Init
<1>1. Cardinality(SqlThreads) \in Nat
  BY FS_CardinalityType
<1>2. m_clsList \in Seq(Statement) /\ Len(m_clsList) = 0
  BY EmptySeq
<1>3. TypeOK
  <2>1. /\ giThreadCount \in 0..Cardinality(SqlThreads) /\ gclsMutex \in SqlThreads \cup {Nobody}
        /\ iCount \in [SqlThreads -> 0..Cardinality(SqlThreads)]
    BY <1>1
  <2>2. /\ pc \in [SqlThreads -> {"none", "spawned", "inc", "test", "select", "execute",
                                  "close", "leave", "dec", "done"}]
        /\ clsData \in [SqlThreads -> Statement \cup {None}]
    OBVIOUS
  <2>3. /\ sp \in [Programs -> {"idle", "clear", "create", "error"}]
        /\ left \in [Programs -> 0..MaxCount]
    OBVIOUS
  <2>4. /\ single \in [Programs -> BOOLEAN] /\ result \in [Programs -> BOOLEAN]
        /\ failed \in [Programs -> BOOLEAN]
    OBVIOUS
  <2>5. starts \in 0..MaxStarts /\ inserts \in 0..MaxInserts
    OBVIOUS
  <2>6. executed \subseteq Statement /\ dropped \subseteq Statement
    OBVIOUS
  <2>7. gbStopThread \in BOOLEAN
    OBVIOUS
  <2> QED
    BY <1>2, <2>1, <2>2, <2>3, <2>4, <2>5, <2>6, <2>7, Zenon DEF TypeOK
<1>4. Counted = {}
  BY DEF Counted
<1>5. CountExact
  BY <1>4, FS_EmptySet DEF CountExact
<1>6. CountOwned /\ TurnsLeft
  BY DEF CountOwned, TurnsLeft
<1>7. LastInserted /\ Holds
  BY <1>2 DEF LastInserted, Holds, None
<1>8. WithThread = {} /\ Ended = {}
  BY DEF WithThread, Ended, None
<1>9. TakenOrEnded
  BY <1>2, <1>8 DEF TakenOrEnded
<1> QED
  BY <1>3, <1>5, <1>6, <1>7, <1>9 DEF IInv

\* No step breaks the inductive invariant.
LEMMA NextIInv == IInv /\ [Next]_vars => IInv'
<1> SUFFICES ASSUME IInv, [Next]_vars PROVE IInv'
  OBVIOUS
<1>1. TypeOK'
  BY SqlThreadStep, StatementStep, ProgramTypeStep DEF TypeOK
<1> QED
  BY <1>1, CountStep, QueueStep, ProgramTypeStep DEF IInv

\* The inductive invariant holds in every state of every behaviour.
THEOREM InvariantHolds == Spec => []IInv
BY InitIInv, NextIInv, PTL DEF Spec

\* Every variable keeps its type: the counter never leaves zero to the number
\* of SQL threads.
THEOREM TypeCorrect == Spec => []TypeOK
BY InvariantHolds, PTL DEF IInv

\* No ++ or -- of giThreadCount is lost, however starts and ends overlap.
THEOREM CountCorrect == Spec => []CountExact
BY InvariantHolds, PTL DEF IInv

\* No statement is lost between the queue and an SQL thread, and none is taken
\* by two threads or twice.
THEOREM StatementsOnce == Spec => []OnePlace
BY InvariantHolds, OnePlaceHolds, PTL

-----------------------------------------------------------------------------
(* The queue and the SQL threads implement SqlDelivery                     *)

\* The numbers of a list of statements.
LEMMA NumbersOf ==
    ASSUME NEW l \in Seq(Statement), NEW w, w = [k \in DOMAIN l |-> l[k].n]
    PROVE  /\ w \in Seq(Nat) /\ Len(w) = Len(l) /\ Len(l) \in Nat
           /\ DOMAIN w = 1..Len(l) /\ DOMAIN l = 1..Len(l)
           /\ \A k \in 1..Len(l) : w[k] = l[k].n
<1>1. /\ Len(l) \in Nat /\ DOMAIN l = 1..Len(l)
      /\ \A k \in 1..Len(l) : l[k] \in Statement
  BY LenProperties, ElementOfSeq
<1>2. \A k \in 1..Len(l) : l[k].n \in Nat
  BY <1>1, ThreadAssumption DEF Statement
<1>3. w \in [1..Len(l) -> Nat] /\ \A k \in 1..Len(l) : w[k] = l[k].n
  BY <1>1, <1>2
<1>4. w \in Seq(Nat)
  BY <1>1, <1>3, SeqDef
<1>5. DOMAIN w = 1..Len(l) /\ DOMAIN w = 1..Len(w) /\ Len(w) \in Nat
  BY <1>3, <1>4, LenProperties
<1>6. Len(w) = Len(l)
  BY <1>1, <1>5
<1> QED
  BY <1>1, <1>3, <1>4, <1>5, <1>6

\* The numbers of the statements in the queue.
LEMMA NumbersWaiting ==
    ASSUME TypeOK
    PROVE  /\ waitingOf \in Seq(Nat) /\ Len(waitingOf) = Len(m_clsList)
           /\ DOMAIN waitingOf = 1..Len(m_clsList) /\ DOMAIN m_clsList = 1..Len(m_clsList)
           /\ Len(m_clsList) \in Nat
           /\ \A k \in 1..Len(m_clsList) : waitingOf[k] = m_clsList[k].n
           /\ {waitingOf[k] : k \in DOMAIN waitingOf} = InQueue
<1>1. m_clsList \in Seq(Statement)
  BY DEF TypeOK
<1>2. waitingOf = [k \in DOMAIN m_clsList |-> m_clsList[k].n]
  BY DEF waitingOf
<1>3. /\ waitingOf \in Seq(Nat) /\ Len(waitingOf) = Len(m_clsList)
      /\ DOMAIN waitingOf = 1..Len(m_clsList) /\ DOMAIN m_clsList = 1..Len(m_clsList)
      /\ Len(m_clsList) \in Nat
      /\ \A k \in 1..Len(m_clsList) : waitingOf[k] = m_clsList[k].n
  BY <1>1, <1>2, NumbersOf
<1>4. {waitingOf[k] : k \in DOMAIN waitingOf} = InQueue
  BY <1>2, <1>3 DEF InQueue
<1> QED
  BY <1>3, <1>4

\* Two sequences with the same elements are the same.
LEMMA SameNumbers ==
    ASSUME NEW s \in Seq(Nat), NEW t \in Seq(Nat), Len(s) = Len(t),
           \A k \in 1..Len(s) : s[k] = t[k]
    PROVE  s = t
BY SeqEqual

\* An Insert puts a number that was never there behind the others.
LEMMA InsertPuts ==
    ASSUME IInv, TypeOK', NEW args \in 0..1, NEW params \in 0..1, Insert(args, params)
    PROVE  Abstract!Put(inserts') /\ inserts' \in 1..MaxInserts
<1> DEFINE data == [n |-> inserts + 1, args |-> args, params |-> params]
<1>1. /\ inserts' = inserts + 1 /\ inserts < MaxInserts
      /\ m_clsList' = Append(m_clsList, data)
      /\ UNCHANGED <<clsData, executed, dropped>>
  BY DEF Insert, sqlThread, history
<1>2. /\ inserts \in Nat /\ inserts' \in 1..MaxInserts /\ inserts' \in Nat
      /\ inserts' \notin 1..inserts
  BY <1>1, ThreadAssumption DEF IInv, TypeOK
<1>3. data \in Statement
  BY <1>1, <1>2 DEF Statement
<1>4. /\ Len(m_clsList') = Len(m_clsList) + 1
      /\ \A k \in 1..Len(m_clsList) : m_clsList'[k] = m_clsList[k]
      /\ m_clsList'[Len(m_clsList) + 1] = data
  BY <1>1, <1>3, AppendProperties DEF IInv, TypeOK
<1>5. TypeOK
  BY DEF IInv
<1>6. /\ waitingOf \in Seq(Nat) /\ Len(waitingOf) = Len(m_clsList) /\ Len(m_clsList) \in Nat
      /\ \A k \in 1..Len(m_clsList) : waitingOf[k] = m_clsList[k].n
      /\ {waitingOf[k] : k \in DOMAIN waitingOf} = InQueue
  BY <1>5, NumbersWaiting
<1>7. /\ waitingOf' \in Seq(Nat) /\ Len(waitingOf') = Len(m_clsList')
      /\ \A k \in 1..Len(m_clsList') : waitingOf'[k] = m_clsList'[k].n
  <2>1. m_clsList' \in Seq(Statement)
    BY DEF TypeOK
  <2>2. waitingOf' = [k \in DOMAIN m_clsList' |-> m_clsList'[k].n]
    BY DEF waitingOf
  <2> QED
    BY <2>1, <2>2, NumbersOf
<1>8. waitingOf' = Append(waitingOf, inserts')
  <2> DEFINE new == Append(waitingOf, inserts')
  <2>1. /\ new \in Seq(Nat) /\ Len(new) = Len(m_clsList) + 1
        /\ \A k \in 1..Len(m_clsList) : new[k] = waitingOf[k]
        /\ new[Len(m_clsList) + 1] = inserts'
    BY <1>2, <1>6, AppendProperties
  <2> HIDE DEF new
  <2>2. ASSUME NEW k \in 1..Len(waitingOf') PROVE waitingOf'[k] = new[k]
    <3>1. k \in 1..Len(m_clsList) \/ k = Len(m_clsList) + 1
      BY <1>4, <1>6, <1>7
    <3>2. k \in 1..Len(m_clsList')
      BY <1>7
    <3>3. CASE k \in 1..Len(m_clsList)
      BY <1>4, <1>6, <1>7, <2>1, <3>2, <3>3
    <3>4. CASE k = Len(m_clsList) + 1
      <4>1. waitingOf'[k] = data.n
        BY <1>4, <1>7, <3>2, <3>4
      <4> QED
        BY <1>1, <2>1, <3>4, <4>1
    <3> QED
      BY <3>1, <3>3, <3>4
  <2>3. waitingOf' = new
    BY <1>4, <1>7, <2>1, <2>2, SameNumbers
  <2> QED
    BY <2>3 DEF new
<1>9. inserts' \notin {waitingOf[k] : k \in DOMAIN waitingOf} \cup WithThread \cup Ended
  BY <1>2, <1>6, OnePlaceHolds DEF OnePlace
<1>10. WithThread' = WithThread /\ Ended' = Ended
  BY <1>1 DEF WithThread, Ended
<1> QED
  BY <1>2, <1>8, <1>9, <1>10 DEF Abstract!Put

\* A Select of an SQL thread takes the first.
LEMMA SelectTakes ==
    ASSUME IInv, TypeOK', NEW t \in SqlThreads, TakeSql(t)
    PROVE  Abstract!Take
<1>1. /\ pc[t] = "select" /\ m_clsList # <<>> /\ m_clsList' = Tail(m_clsList)
      /\ clsData' = [clsData EXCEPT ![t] = Head(m_clsList)]
      /\ UNCHANGED <<executed, dropped>>
  BY DEF TakeSql, Take, history
<1>2. TypeOK
  BY DEF IInv
<1>3. /\ Len(m_clsList) \in Nat \ {0} /\ Len(m_clsList') = Len(m_clsList) - 1
      /\ Head(m_clsList) = m_clsList[1] /\ Head(m_clsList) \in Statement
      /\ \A k \in 1..Len(m_clsList') : m_clsList'[k] = m_clsList[k + 1]
  BY <1>1, <1>2, HeadTailProperties, EmptySeq DEF TypeOK
<1>4. /\ waitingOf \in Seq(Nat) /\ Len(waitingOf) = Len(m_clsList)
      /\ \A k \in 1..Len(m_clsList) : waitingOf[k] = m_clsList[k].n
  BY <1>2, NumbersWaiting
<1>5. /\ waitingOf' \in Seq(Nat) /\ Len(waitingOf') = Len(m_clsList')
      /\ \A k \in 1..Len(m_clsList') : waitingOf'[k] = m_clsList'[k].n
  <2>1. m_clsList' \in Seq(Statement)
    BY DEF TypeOK
  <2>2. waitingOf' = [k \in DOMAIN m_clsList' |-> m_clsList'[k].n]
    BY DEF waitingOf
  <2> QED
    BY <2>1, <2>2, NumbersOf
<1>6. waitingOf # <<>>
  BY <1>3, <1>4, EmptySeq
<1> DEFINE rest == Tail(waitingOf)
<1>7. /\ rest \in Seq(Nat) /\ Len(rest) = Len(waitingOf) - 1
      /\ \A k \in 1..Len(rest) : rest[k] = waitingOf[k + 1]
      /\ Head(waitingOf) = waitingOf[1]
  BY <1>4, <1>6, HeadTailProperties
<1> HIDE DEF rest
<1>8. waitingOf' = rest
  <2>1. Len(rest) = Len(waitingOf') /\ Len(waitingOf') = Len(m_clsList')
    BY <1>3, <1>4, <1>5, <1>7
  <2>2. ASSUME NEW k \in 1..Len(waitingOf') PROVE waitingOf'[k] = rest[k]
    <3>1. k \in 1..Len(m_clsList') /\ k \in 1..Len(rest) /\ k + 1 \in 1..Len(m_clsList)
      BY <1>3, <2>1
    <3>2. waitingOf'[k] = m_clsList[k + 1].n
      BY <1>3, <1>5, <3>1
    <3>3. rest[k] = m_clsList[k + 1].n
      BY <1>4, <1>7, <3>1
    <3> QED
      BY <3>2, <3>3
  <2> QED
    BY <1>5, <1>7, <2>1, <2>2, SameNumbers
<1>9. Head(waitingOf) = Head(m_clsList).n
  <2>1. 1 \in 1..Len(m_clsList)
    BY <1>3
  <2> QED
    BY <1>3, <1>4, <1>7, <2>1
<1>10. Head(m_clsList).n \in Nat \ {0}
  BY <1>3, ThreadAssumption DEF Statement
<1>11. clsData[t] = None /\ clsData[t].n = 0
  BY <1>1, <1>2, NumberOfNone DEF IInv, Holds
<1>12. \A u \in SqlThreads : clsData'[u] = IF u = t THEN Head(m_clsList) ELSE clsData[u]
  BY <1>1, <1>2 DEF TypeOK
<1>13. WithThread' = WithThread \cup {Head(m_clsList).n}
  BY <1>10, <1>11, <1>12 DEF WithThread
<1>14. Ended' = Ended
  BY <1>1 DEF Ended
<1> QED
  BY <1>6, <1>8, <1>9, <1>13, <1>14 DEF Abstract!Take, rest

\* An SQL thread is done with a statement, executed or dropped.
LEMMA ExecuteFinishes ==
    ASSUME IInv, NEW t \in SqlThreads, Execute(t)
    PROVE  Abstract!Finish(clsData[t].n) /\ clsData[t].n \in 1..MaxInserts
<1>1. /\ pc[t] = "execute"
      /\ clsData' = [clsData EXCEPT ![t] = None]
      /\ executed' \cup dropped' = executed \cup dropped \cup {clsData[t]}
      /\ UNCHANGED m_clsList
  BY DEF Execute, queue
<1>2. clsData[t] # None /\ clsData[t].n \in Nat \ {0} /\ clsData[t].n \in 1..MaxInserts
  <2>1. clsData[t] # None /\ clsData[t].n \in Nat \ {0}
    BY <1>1, NumberOfNone DEF IInv, Holds
  <2>2. clsData[t] \in Statement
    BY <2>1 DEF IInv, TypeOK
  <2> QED
    BY <2>1, <2>2 DEF Statement
<1>3. \A u \in SqlThreads : clsData'[u] = IF u = t THEN None ELSE clsData[u]
  BY <1>1 DEF IInv, TypeOK
<1>4. \A u \in SqlThreads \ {t} : clsData[u].n # clsData[t].n
  BY <1>2 DEF IInv, Holds
<1>5. WithThread' = WithThread \ {clsData[t].n} /\ clsData[t].n \in WithThread
  <2>1. None.n = 0
    BY DEF None
  <2> QED
    BY <1>2, <1>3, <1>4, <2>1 DEF WithThread
<1>6. Ended' = Ended \cup {clsData[t].n}
  BY <1>1 DEF Ended
<1>7. waitingOf' = waitingOf
  BY <1>1 DEF waitingOf
<1> QED
  BY <1>2, <1>5, <1>6, <1>7 DEF Abstract!Finish

\* Every step is one of SqlDelivery or does not concern it.
LEMMA StepDelivery == IInv /\ IInv' /\ [Next]_vars => [Abstract!Next]_(Abstract!vars)
<1> SUFFICES ASSUME IInv, IInv', [Next]_vars PROVE [Abstract!Next]_(Abstract!vars)
  OBVIOUS
<1>1. TypeOK'
  BY DEF IInv
<1>2. ASSUME UNCHANGED <<m_clsList, clsData, executed, dropped>>
      PROVE  UNCHANGED Abstract!vars
  BY <1>2 DEF Abstract!vars, waitingOf, WithThread, Ended
<1>3. ASSUME NEW args \in 0..1, NEW params \in 0..1, Insert(args, params)
      PROVE  Abstract!Next
  BY <1>1, <1>3, InsertPuts DEF Abstract!Next
<1>4. ASSUME NEW t \in SqlThreads, TakeSql(t) PROVE Abstract!Next
  BY <1>1, <1>4, SelectTakes DEF Abstract!Next
<1>5. ASSUME NEW t \in SqlThreads, Execute(t) PROVE Abstract!Next
  BY <1>5, ExecuteFinishes DEF Abstract!Next
<1>6. ASSUME NEW t \in SqlThreads,
             ReadCount(t) \/ WriteCount(t) \/ TestStop(t) \/ Sleep(t) \/ CloseConnection(t)
      PROVE  UNCHANGED Abstract!vars
  BY <1>2, <1>6 DEF ReadCount, ReadCountStep, WriteCount, TestStop, Sleep, FindNothing,
                    CloseConnection, queue, history
<1>7. ASSUME NEW p \in Programs,
             ProgramStep(p) \/ StartOne(p) \/ \E n \in 1..MaxCount : Start(p, n)
      PROVE  UNCHANGED Abstract!vars
  BY <1>2, <1>7 DEF ProgramStep, ClearStop, CreateThread, CreateFails, GiveUp, GiveUpWith,
                    StartOne, Start, StartTurns, queue, sqlThread, history
<1>8. CASE Stop \/ UNCHANGED vars
  BY <1>2, <1>8 DEF Stop, vars, queue, sqlThread, history
<1> QED
  BY <1>3, <1>4, <1>5, <1>6, <1>7, <1>8 DEF Next, SqlStep

\* However many SQL threads run, start, stop or fail to start, each statement is taken
\* once, in the order of the inserts, by one of them, and is executed or dropped once.
THEOREM ThreadsImplementDelivery == Spec => ImplementsDelivery
<1>1. Init => Abstract!Init
  <2> SUFFICES ASSUME Init PROVE Abstract!Init
    OBVIOUS
  <2>1. waitingOf = <<>>
    BY DEF Init, waitingOf
  <2>2. WithThread = {} /\ Ended = {}
    BY DEF Init, WithThread, Ended, None
  <2> QED
    BY <2>1, <2>2 DEF Abstract!Init
<1> QED
  BY <1>1, InvariantHolds, StepDelivery, PTL DEF Spec, ImplementsDelivery, Abstract!Spec
=============================================================================
