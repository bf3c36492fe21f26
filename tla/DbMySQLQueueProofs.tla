-------------------------- MODULE DbMySQLQueueProofs --------------------------
(***************************************************************************)
(* Proofs about DbMySQLQueue for any number of producers, consumers and    *)
(* statements and for any limits, changed at any time.                     *)
(***************************************************************************)
EXTENDS QueueRefinement, SequenceTheorems, TLAPS

\* Whoever is inside a critical section that spans several steps owns the mutex.
OwnsMutex ==
    \A t \in Threads : pc[t] \in {"insert", "empty"} => m_clsMutex = t

IInv ==
    /\ TypeOK
    /\ OwnsMutex
    /\ NoInsertBeforeSleep
    /\ SomebodyAwake
    /\ (count > 0) \/ \A p \in Producers : pc[p] # "insert"

\* A step of the condition variable only turns sleepers into woken threads.
LEMMA SignalledPC ==
    ASSUME TypeOK, NEW p \in Producers, pc[p] = "insert",
           NEW wakes \in BOOLEAN,
           LET next == [pc EXCEPT ![p] = "idle"] IN
              pc' \in IF wakes THEN signalled(next) ELSE {next}
    PROVE  /\ pc' \in [Threads -> {"idle", "insert", "empty", "waiting", "woken"}]
           /\ pc'[p] = "idle"
           /\ \A t \in Threads \ {p} : pc'[t] = pc[t] \/ (pc[t] = "waiting" /\ pc'[t] = "woken")
           /\ wakes => \/ \A c \in Consumers : pc[c] # "waiting"
                       \/ \E c \in Consumers : pc'[c] = "woken"
<1> DEFINE next == [pc EXCEPT ![p] = "idle"]
<1>1. /\ next \in [Threads -> {"idle", "insert", "empty", "waiting", "woken"}]
      /\ next[p] = "idle"
      /\ \A t \in Threads \ {p} : next[t] = pc[t]
      /\ p \notin Asleep
  BY DEF TypeOK, Threads, Asleep
<1>2. CASE pc' = next
  <2>1. wakes => Asleep = {}
    <3> SUFFICES ASSUME wakes, NEW c \in Asleep PROVE FALSE
      OBVIOUS
    <3>1. PICK d \in Asleep : pc' = Woken({d}, next)
      BY DEF signalled
    <3>2. pc'[d] = "woken" /\ next[d] = "waiting"
      BY <3>1, <1>1 DEF Woken, Asleep, Threads
    <3> QED
      BY <1>2, <3>2
  <2> QED
    BY <1>1, <1>2, <2>1 DEF Asleep
<1>3. CASE wakes /\ \E c \in Asleep : pc' = Woken({c}, next)
  <2>1. PICK c \in Asleep : pc' = Woken({c}, next)
    BY <1>3
  <2>2. c \in Consumers /\ pc[c] = "waiting" /\ c \in Threads
    BY DEF Asleep, Threads
  <2> QED
    BY <1>1, <2>1, <2>2 DEF Woken, Threads
<1> QED
  BY <1>2, <1>3 DEF signalled

\* The inductive invariant holds of a new queue.
LEMMA InitIInv == Init => IInv
<1> USE QueueAssumption DEF Init
<1>1. Init => TypeOK
  BY DEF TypeOK
<1>2. Init => OwnsMutex /\ NoInsertBeforeSleep /\ SomebodyAwake
  BY DEF OwnsMutex, NoInsertBeforeSleep, SomebodyAwake, Threads
<1> QED
  BY <1>1, <1>2 DEF IInv, Threads

\* Steps that leave the list and the histories alone and wake or move threads.
LEMMA ThreadMoves ==
    ASSUME IInv, TypeOK', UNCHANGED <<m_clsList, count>>,
           NEW t \in Threads, NEW label, Goto(t, label),
           label # "insert", label # "empty",
           label = "waiting" => m_clsList = <<>>,
           m_clsMutex' \in {m_clsMutex, Nobody},
           m_clsMutex' # m_clsMutex => m_clsMutex = t
    PROVE  IInv'
<1> USE DEF IInv, Goto
<1>1. \A u \in Threads : pc'[u] = IF u = t THEN label ELSE pc[u]
  BY DEF TypeOK
<1>2. Producers \subseteq Threads /\ Consumers \subseteq Threads
  BY DEF Threads
<1>3. OwnsMutex' /\ NoInsertBeforeSleep'
  BY <1>1, <1>2 DEF OwnsMutex, NoInsertBeforeSleep
<1>4. SomebodyAwake'
  BY <1>1, <1>2 DEF SomebodyAwake
<1>5. (count' > 0) \/ \A p \in Producers : pc'[p] # "insert"
  BY <1>1, <1>2
<1> QED
  BY <1>3, <1>4, <1>5

\* The steps of Insert preserve it.
LEMMA ProduceIInv ==
    ASSUME IInv, NEW p \in Producers, Produce(p)
    PROVE  IInv'
<1> USE QueueAssumption DEF IInv
<1>0. p \in Threads /\ Producers \subseteq Threads /\ Consumers \subseteq Threads
  BY DEF Threads
<1>1. CASE InsertLock(p)
  <2> USE <1>1 DEF InsertLock, InsertBegin, Goto
  <2>1. TypeOK'
    BY <1>0 DEF TypeOK
  <2>2. \A t \in Threads : pc'[t] = IF t = p THEN "insert" ELSE pc[t]
    BY DEF TypeOK
  <2>3. \A t \in Threads : pc[t] \notin {"insert", "empty"}
    BY <1>0 DEF OwnsMutex, Threads
  <2>4. OwnsMutex' /\ NoInsertBeforeSleep'
    BY <1>0, <2>2, <2>3 DEF OwnsMutex, NoInsertBeforeSleep
  <2>5. SomebodyAwake'
    BY <1>0, <2>2 DEF SomebodyAwake
  <2>6. count' > 0
    BY DEF TypeOK
  <2> QED
    BY <2>1, <2>4, <2>5, <2>6
<1>2. CASE InsertDrop(p)
  <2>1. TypeOK'
    BY <1>2 DEF InsertDrop, Goto, TypeOK, history
  <2>2. m_clsMutex = p
    BY <1>0, <1>2 DEF InsertDrop, OwnsMutex
  <2> QED
    BY <1>0, <1>2, <2>1, <2>2, ThreadMoves DEF InsertDrop, history
<1>3. CASE InsertAccept(p)
  <2> DEFINE wakes == Len(m_clsList) = 0
  <2> USE <1>3 DEF InsertAccept, Accept
  <2>1. count \in 1..MaxInserts
    BY DEF TypeOK
  <2>2. /\ pc' \in [Threads -> {"idle", "insert", "empty", "waiting", "woken"}]
        /\ pc'[p] = "idle"
        /\ \A t \in Threads \ {p} : pc'[t] = pc[t] \/ (pc[t] = "waiting" /\ pc'[t] = "woken")
        /\ wakes => \/ \A c \in Consumers : pc[c] # "waiting"
                    \/ \E c \in Consumers : pc'[c] = "woken"
    <3>1. wakes \in BOOLEAN
      OBVIOUS
    <3>2. LET next == [pc EXCEPT ![p] = "idle"] IN
             pc' \in IF wakes THEN signalled(next) ELSE {next}
      OBVIOUS
    <3> HIDE DEF wakes
    <3> QED
      BY <3>1, <3>2, SignalledPC
  <2>3. TypeOK'
    BY <2>1, <2>2 DEF TypeOK
  <2>4. \A t \in Threads : pc'[t] \notin {"insert", "empty"}
    <3>1. \A t \in Threads \ {p} : pc[t] \notin {"insert", "empty"}
      BY <1>0 DEF OwnsMutex
    <3> QED
      BY <2>2, <3>1
  <2>5. OwnsMutex' /\ NoInsertBeforeSleep'
    BY <1>0, <2>4 DEF OwnsMutex, NoInsertBeforeSleep
  <2>6. SomebodyAwake'
    <3>1. CASE wakes
      <4>1. CASE \A c \in Consumers : pc[c] # "waiting"
        <5>1. PICK c \in Consumers : pc[c] # "waiting"
          BY <4>1
        <5>2. c # p /\ c \in Threads
          BY <1>0
        <5>3. pc'[c] # "waiting"
          BY <2>2, <5>1, <5>2
        <5> QED
          BY <5>3 DEF SomebodyAwake
      <4>2. CASE \E c \in Consumers : pc'[c] = "woken"
        BY <4>2 DEF SomebodyAwake
      <4> QED
        BY <2>2, <3>1, <4>1, <4>2
    <3>2. CASE ~wakes
      <4>1. m_clsList # <<>>
        BY <3>2
      <4>2. PICK c \in Consumers : pc[c] # "waiting"
        BY <4>1 DEF SomebodyAwake
      <4>3. c # p /\ c \in Threads
        BY <1>0
      <4>4. pc'[c] # "waiting"
        BY <2>2, <4>2, <4>3
      <4> QED
        BY <4>4 DEF SomebodyAwake
    <3> QED
      BY <3>1, <3>2
  <2> QED
    BY <1>0, <2>3, <2>4, <2>5, <2>6
<1> QED
  BY <1>1, <1>2, <1>3 DEF Produce

\* The steps of Select preserve it.
LEMMA ConsumeIInv ==
    ASSUME IInv, NEW c \in Consumers, Consume(c) \/ SpuriousWakeup(c)
    PROVE  IInv'
<1> USE QueueAssumption DEF IInv
<1>0. c \in Threads /\ Producers \subseteq Threads /\ Consumers \subseteq Threads
  BY DEF Threads
<1>1. ASSUME PopFront(c), m_clsMutex = Nobody PROVE IInv'
  <2> USE <1>1 DEF PopFront, Goto
  <2>1. Head(m_clsList) \in 1..MaxInserts /\ Tail(m_clsList) \in Seq(1..MaxInserts)
    BY DEF TypeOK
  <2>2. TypeOK'
    <3>1. m_clsList' \in Seq(1..MaxInserts) /\ taken' \in Seq(1..MaxInserts)
      BY <2>1 DEF TypeOK
    <3>2. pc' \in [Threads -> {"idle", "insert", "empty", "waiting", "woken"}]
      BY DEF TypeOK
    <3> QED
      BY <3>1, <3>2 DEF TypeOK
  <2>3. \A t \in Threads : pc'[t] = IF t = c THEN "idle" ELSE pc[t]
    BY DEF TypeOK
  <2>4. OwnsMutex'
    BY <2>3 DEF OwnsMutex
  <2>5. NoInsertBeforeSleep' /\ SomebodyAwake'
    BY <1>0, <2>3 DEF NoInsertBeforeSleep, SomebodyAwake
  <2>6. (count' > 0) \/ \A p \in Producers : pc'[p] # "insert"
    BY <1>0, <2>3
  <2> QED
    BY <2>2, <2>4, <2>5, <2>6
<1>2. CASE SelectTake(c)
  BY <1>1, <1>2 DEF SelectTake
<1>3. CASE SelectEmpty(c)
  <2> USE <1>3 DEF SelectEmpty, Goto, history
  <2>1. TypeOK'
    BY <1>0 DEF TypeOK
  <2>2. \A t \in Threads : pc'[t] = IF t = c THEN "empty" ELSE pc[t]
    BY DEF TypeOK
  <2>3. \A t \in Threads : pc[t] \notin {"insert", "empty"}
    BY <1>0 DEF OwnsMutex, Threads
  <2>4. OwnsMutex' /\ NoInsertBeforeSleep' /\ SomebodyAwake'
    BY <1>0, <2>2, <2>3 DEF OwnsMutex, NoInsertBeforeSleep, SomebodyAwake
  <2> QED
    BY <1>0, <2>1, <2>2, <2>3, <2>4
<1>4. CASE SelectWait(c)
  <2>1. TypeOK'
    BY <1>4 DEF SelectWait, Goto, history, TypeOK
  <2>2. m_clsList = <<>> /\ m_clsMutex = c
    BY <1>4 DEF SelectWait, NoInsertBeforeSleep
  <2> QED
    BY <1>0, <1>4, <2>1, <2>2, ThreadMoves DEF SelectWait, history
<1>5. CASE SelectWoken(c)
  <2>1. CASE m_clsList # <<>>
    BY <1>1, <1>5, <2>1 DEF SelectWoken
  <2>2. CASE m_clsList = <<>>
    <3>1. TypeOK'
      BY <1>5, <2>2 DEF SelectWoken, Goto, history, TypeOK
    <3> QED
      BY <1>0, <1>5, <2>2, <3>1, ThreadMoves DEF SelectWoken, history
  <2> QED
    BY <2>1, <2>2
<1>6. CASE SpuriousWakeup(c)
  <2>1. TypeOK'
    BY <1>6 DEF SpuriousWakeup, Goto, history, TypeOK
  <2> QED
    BY <1>0, <1>6, <2>1, ThreadMoves DEF SpuriousWakeup, history
<1> QED
  BY <1>2, <1>3, <1>4, <1>5, <1>6 DEF Consume

\* A broadcast preserves it: nobody sleeps afterwards.
LEMMA SignalIInv == ASSUME IInv, Signal PROVE IInv'
<1> USE DEF IInv, Signal, history
<1>1. \A t \in Threads :
        pc'[t] = pc[t] \/ (pc[t] = "waiting" /\ pc'[t] = "woken")
  BY DEF Woken, Asleep
<1>2. pc' \in [Threads -> {"idle", "insert", "empty", "waiting", "woken"}]
  BY DEF Woken, TypeOK
<1>3. TypeOK'
  BY <1>2 DEF TypeOK
<1>4. OwnsMutex' /\ NoInsertBeforeSleep' /\ SomebodyAwake'
  BY <1>1 DEF OwnsMutex, NoInsertBeforeSleep, SomebodyAwake, Threads
<1> QED
  BY <1>1, <1>3, <1>4 DEF Threads

\* Every step of the queue preserves it.
LEMMA NextIInv == IInv /\ [Next]_vars => IInv'
<1> SUFFICES ASSUME IInv, [Next]_vars PROVE IInv'
  OBVIOUS
<1>1. CASE UNCHANGED vars
  BY <1>1 DEF IInv, vars, history, TypeOK, OwnsMutex, NoInsertBeforeSleep, SomebodyAwake
<1>2. ASSUME NEW n \in LaterLimits, SetMaxSize(n) PROVE IInv'
  BY <1>2 DEF SetMaxSize, IInv, history, TypeOK, OwnsMutex,
              NoInsertBeforeSleep, SomebodyAwake
<1> QED
  BY <1>1, <1>2, ProduceIInv, ConsumeIInv, SignalIInv DEF Next

\* The inductive invariant holds in every reachable state of the queue.
THEOREM InvariantHolds == Spec => []IInv
BY InitIInv, NextIInv, PTL DEF Spec

\* Every variable keeps its type.
THEOREM TypeCorrect == Spec => []TypeOK
BY InvariantHolds, PTL DEF IInv

\* The test of Select for an empty list is still true when it falls asleep.
THEOREM TestStillTrue == Spec => []NoInsertBeforeSleep
BY InvariantHolds, PTL DEF IInv

\* As long as there is something to take, not all consumers sleep, whatever the
\* numbers of producers and consumers and however often m_iMaxSize changes.
THEOREM NotAllAsleep == Spec => []SomebodyAwake
BY InvariantHolds, PTL DEF IInv

-----------------------------------------------------------------------------
(* First in, first out.                                                    *)

\* push_back at the end of a concatenation.
LEMMA AppendToConcat ==
    ASSUME NEW S, NEW s \in Seq(S), NEW t \in Seq(S), NEW e \in S
    PROVE  Append(s \o t, e) = s \o Append(t, e)
<1>1. s \o t \in Seq(S) /\ <<e>> \in Seq(S)
  BY ConcatProperties
<1>2. Append(s \o t, e) = (s \o t) \o <<e>>
  BY <1>1, AppendIsConcat
<1>3. (s \o t) \o <<e>> = s \o (t \o <<e>>)
  BY <1>1, ConcatAssociative
<1>4. t \o <<e>> = Append(t, e)
  BY AppendIsConcat
<1> QED
  BY <1>2, <1>3, <1>4

\* pop_front of the second sequence and push_back to the first.
LEMMA MoveHead ==
    ASSUME NEW S, NEW s \in Seq(S), NEW t \in Seq(S), t # <<>>
    PROVE  s \o t = Append(s, Head(t)) \o Tail(t)
<1> DEFINE h == Head(t)
           r == Tail(t)
<1>1. h \in S /\ r \in Seq(S) /\ <<h>> \in Seq(S)
  BY HeadTailProperties
<1>2. t = <<h>> \o r
  <2>1. <<h>> \o r \in Seq(S) /\ Len(<<h>> \o r) = Len(t)
    BY <1>1, HeadTailProperties, ConcatProperties, LenProperties
  <2>2. \A k \in 1..Len(t) : t[k] = (<<h>> \o r)[k]
    BY <1>1
  <2> QED
    BY <2>1, <2>2, SeqEqual
<1> HIDE DEF h, r
<1>3. s \o (<<h>> \o r) = (s \o <<h>>) \o r
  BY <1>1, ConcatAssociative
<1>4. s \o <<h>> = Append(s, h)
  BY <1>1, AppendIsConcat
<1> QED
  BY <1>2, <1>3, <1>4 DEF h, r

\* An accepted statement goes to the end of the queue and of the history.
LEMMA AcceptFifo ==
    ASSUME IInv, Fifo, NEW p \in Producers, InsertAccept(p)
    PROVE  Fifo'
<1> DEFINE S == 1..MaxInserts
           newList == Append(m_clsList, count)
           newAccepted == Append(accepted, count)
<1>1. m_clsList \in Seq(S) /\ taken \in Seq(S)
  BY DEF IInv, TypeOK
<1>2. count \in S
  BY DEF InsertAccept, Accept, IInv, TypeOK
<1>3. m_clsList' = newList /\ accepted' = newAccepted /\ taken' = taken
  BY DEF InsertAccept, Accept
<1>4. accepted = taken \o m_clsList
  BY DEF Fifo
<1>5. \A s, t \in Seq(S) : \A e \in S : Append(s \o t, e) = s \o Append(t, e)
  BY AppendToConcat
<1> HIDE DEF S
<1>6. Append(taken \o m_clsList, count) = taken \o Append(m_clsList, count)
  BY <1>1, <1>2, <1>5, Zenon
<1>7. newAccepted = taken \o newList
  BY <1>4, <1>6, Zenon
<1> HIDE DEF newList, newAccepted
<1> QED
  BY <1>3, <1>7, Zenon DEF Fifo

\* Statements leave the queue once each, in the order of the Inserts that
\* returned true.
THEOREM FirstInFirstOut == Spec => []Fifo
<1>1. Init => Fifo
  BY DEF Init, Fifo
<1>2. IInv /\ Fifo /\ [Next]_vars => Fifo'
  <2> SUFFICES ASSUME IInv, Fifo, [Next]_vars PROVE Fifo'
    OBVIOUS
  <2>1. CASE UNCHANGED <<m_clsList, accepted, taken>>
    BY <2>1 DEF Fifo
  <2>2. ASSUME NEW p \in Producers, InsertAccept(p) PROVE Fifo'
    BY <2>2, AcceptFifo
  <2>3. ASSUME NEW c \in Consumers, PopFront(c) PROVE Fifo'
    BY <2>3, MoveHead DEF PopFront, TypeOK, IInv, Fifo
  <2> QED
    BY <2>1, <2>2, <2>3
       DEF Next, vars, history, Produce, Consume, InsertLock, InsertBegin,
           InsertDrop, SelectTake, SelectEmpty, SelectWait, SelectWoken,
           SpuriousWakeup, SetMaxSize, Signal
<1> QED
  BY <1>1, <1>2, InvariantHolds, PTL DEF Spec

-----------------------------------------------------------------------------
(* The limit                                                               *)

\* While there is a limit, a producer between its two reads of m_iMaxSize has
\* seen it.
LimitSeen ==
    m_iMaxSize # 0 =>
        /\ Len(m_clsList) <= m_iMaxSize
        /\ \A p \in Producers : pc[p] = "insert" => limited[p]

\* The steps that move only a thread that is not inside Insert.
LEMMA LimitUntouched ==
    ASSUME IInv, LimitSeen, UNCHANGED <<m_iMaxSize, limited>>,
           Len(m_clsList') <= Len(m_clsList), m_clsList' \in Seq(1..MaxInserts),
           \A p \in Producers : pc'[p] = "insert" => pc[p] = "insert"
    PROVE  LimitSeen'
<1>1. Len(m_clsList) \in Nat /\ Len(m_clsList') \in Nat /\ m_iMaxSize \in Int
  BY LenProperties, QueueAssumption DEF IInv, TypeOK
<1> QED
  BY <1>1 DEF LimitSeen

\* A limit set before the threads run, and at most lifted later, is never
\* exceeded, although Insert reads it twice and SetMaxSize takes no mutex.
THEOREM LimitKept ==
    ASSUME StartLimits \subseteq Nat, LaterLimits \subseteq {0}
    PROVE  Spec => []LimitRespected
<1> USE QueueAssumption
<1>1. Init => LimitSeen
  BY DEF Init, LimitSeen, Threads
<1>2. IInv /\ LimitSeen /\ [Next]_vars => LimitSeen'
  <2> SUFFICES ASSUME IInv, LimitSeen, [Next]_vars PROVE LimitSeen'
    OBVIOUS
  <2>0. /\ Producers \subseteq Threads /\ Producers \cap Consumers = {}
        /\ m_iMaxSize \in Int /\ Len(m_clsList) \in Nat
        /\ m_clsList \in Seq(1..MaxInserts)
        /\ pc \in [Threads -> {"idle", "insert", "empty", "waiting", "woken"}]
        /\ limited \in [Producers -> BOOLEAN]
    BY LenProperties DEF Threads, IInv, TypeOK
  <2>1. CASE UNCHANGED <<m_clsList, m_iMaxSize, limited>> /\
             \A p \in Producers : pc'[p] = "insert" => pc[p] = "insert"
    BY <2>0, <2>1, LimitUntouched
  <2>2. ASSUME NEW p \in Producers, InsertLock(p) PROVE LimitSeen'
    <3>1. /\ UNCHANGED <<m_clsList, m_iMaxSize>>
          /\ limited' = [limited EXCEPT ![p] = m_iMaxSize # 0]
          /\ pc' = [pc EXCEPT ![p] = "insert"]
      BY <2>2 DEF InsertLock, InsertBegin, Goto
    <3>2. ASSUME m_iMaxSize # 0, NEW q \in Producers, pc'[q] = "insert"
          PROVE  limited'[q]
      BY <2>0, <3>1, <3>2 DEF LimitSeen
    <3> QED
      BY <3>1, <3>2 DEF LimitSeen
  <2>3. ASSUME NEW p \in Producers, InsertAccept(p) PROVE LimitSeen'
    <3>1. /\ pc[p] = "insert" /\ UNCHANGED <<m_iMaxSize, limited>>
          /\ m_clsList' = Append(m_clsList, count)
          /\ ~(limited[p] /\ Len(m_clsList) >= m_iMaxSize)
      BY <2>3 DEF InsertAccept, Accept, Full
    <3>2. Len(m_clsList') = Len(m_clsList) + 1
      BY <2>0, <3>1
    <3>3. m_iMaxSize' # 0 => Len(m_clsList') <= m_iMaxSize'
      BY <2>0, <3>1, <3>2 DEF LimitSeen
    <3>4. \A q \in Producers : pc'[q] = "insert" => pc[q] = "insert"
      BY <2>0, <2>3 DEF InsertAccept, Accept, signalled, Woken
    <3> QED
      BY <3>1, <3>3, <3>4 DEF LimitSeen
  <2>4. ASSUME NEW p \in Producers, InsertDrop(p) PROVE LimitSeen'
    BY <2>0, <2>1, <2>4 DEF InsertDrop, Goto, history
  <2>5. ASSUME NEW c \in Consumers, Consume(c) \/ SpuriousWakeup(c) PROVE LimitSeen'
    <3>1. UNCHANGED <<m_iMaxSize, limited>>
      BY <2>5 DEF Consume, SpuriousWakeup, SelectTake, SelectEmpty, SelectWait,
                  SelectWoken, PopFront
    <3>2. m_clsList' = m_clsList \/ (m_clsList # <<>> /\ m_clsList' = Tail(m_clsList))
      BY <2>5 DEF Consume, SpuriousWakeup, SelectTake, SelectEmpty, SelectWait,
                  SelectWoken, PopFront
    <3>3. m_clsList' \in Seq(1..MaxInserts) /\ Len(m_clsList') <= Len(m_clsList)
      <4>1. CASE m_clsList' = m_clsList
        BY <2>0, <4>1
      <4>2. CASE m_clsList # <<>> /\ m_clsList' = Tail(m_clsList)
        BY <2>0, <4>2, HeadTailProperties
      <4> QED
        BY <3>2, <4>1, <4>2
    <3>4. \E label : label # "insert" /\ pc' = [pc EXCEPT ![c] = label]
      BY <2>5 DEF Consume, SpuriousWakeup, SelectTake, SelectEmpty, SelectWait,
                  SelectWoken, PopFront, Goto
    <3> QED
      BY <2>0, <3>1, <3>3, <3>4, LimitUntouched
  <2>6. ASSUME NEW n \in LaterLimits, SetMaxSize(n) PROVE LimitSeen'
    BY <2>6 DEF SetMaxSize, LimitSeen
  <2>7. CASE Signal
    BY <2>0, <2>1, <2>7 DEF Signal, Woken, Asleep
  <2> QED
    BY <2>1, <2>2, <2>3, <2>4, <2>5, <2>6, <2>7 DEF Next, Produce, vars
<1>3. LimitSeen => LimitRespected
  BY DEF LimitSeen, LimitRespected
<1> QED
  BY <1>1, <1>2, <1>3, InvariantHolds, PTL DEF Spec

-----------------------------------------------------------------------------
(* The queue implements SqlDelivery                                        *)

\* The elements of a sequence with one more.
LEMMA RangeOfAppend ==
    ASSUME NEW S, NEW s \in Seq(S), NEW e \in S
    PROVE  Range(Append(s, e)) = Range(s) \cup {e}
<1>1. /\ Len(s) \in Nat /\ DOMAIN s = 1..Len(s)
      /\ DOMAIN Append(s, e) = 1..Len(s) + 1
      /\ \A k \in 1..Len(s) : Append(s, e)[k] = s[k]
      /\ Append(s, e)[Len(s) + 1] = e
  BY AppendProperties, LenProperties
<1>2. \A k : k \in 1..Len(s) + 1 <=> k \in 1..Len(s) \/ k = Len(s) + 1
  BY <1>1
<1> QED
  BY <1>1, <1>2 DEF Range

\* And those of a sequence without its first.
LEMMA RangeOfTail ==
    ASSUME NEW S, NEW s \in Seq(S), s # <<>>
    PROVE  Range(Tail(s)) \subseteq Range(s) /\ Head(s) \in Range(s)
<1>1. /\ Len(s) \in Nat /\ Len(s) # 0 /\ DOMAIN s = 1..Len(s)
      /\ Tail(s) \in Seq(S) /\ Len(Tail(s)) = Len(s) - 1
      /\ \A k \in 1..Len(Tail(s)) : Tail(s)[k] = s[k + 1]
      /\ Head(s) = s[1]
  BY HeadTailProperties, LenProperties, EmptySeq
<1>2. DOMAIN Tail(s) = 1..Len(s) - 1
  BY <1>1, LenProperties
<1>3. \A k \in 1..Len(s) - 1 : k + 1 \in DOMAIN s /\ Tail(s)[k] = s[k + 1]
  BY <1>1
<1>4. 1 \in DOMAIN s
  BY <1>1
<1> QED
  BY <1>1, <1>2, <1>3, <1>4 DEF Range

\* The statements that were accepted are numbers of Inserts that began, and not that
\* of the one that runs: Insert keeps the mutex from its number to its push_back.
Numbered ==
    \A n \in Range(m_clsList) \cup Range(taken) :
        /\ n <= count
        /\ \A p \in Producers : pc[p] = "insert" => n < count

\* An accepted statement is a new one.
LEMMA AcceptPuts ==
    ASSUME IInv, Numbered, NEW p \in Producers, InsertAccept(p)
    PROVE  Numbered' /\ Abstract!Put(count) /\ count \in 1..MaxInserts
<1>1. /\ m_clsList \in Seq(1..MaxInserts) /\ count \in 1..MaxInserts /\ count \in Nat
      /\ pc[p] = "insert" /\ p \in Threads /\ p \notin Consumers
  BY QueueAssumption DEF IInv, TypeOK, InsertAccept, Accept, Threads
<1>2. m_clsList' = Append(m_clsList, count) /\ UNCHANGED <<taken, count>>
  BY DEF InsertAccept, Accept
<1>3. Range(m_clsList') = Range(m_clsList) \cup {count}
  <2> DEFINE S == 1..MaxInserts
  <2>1. \A s \in Seq(S), e \in S : Range(Append(s, e)) = Range(s) \cup {e}
    BY RangeOfAppend
  <2>2. m_clsList \in Seq(S) /\ count \in S
    BY <1>1
  <2> HIDE DEF S
  <2>3. Range(Append(m_clsList, count)) = Range(m_clsList) \cup {count}
    BY <2>1, <2>2
  <2> QED
    BY <1>2, <2>3
<1>4. \A n \in Range(m_clsList) \cup Range(taken) : n < count
  BY <1>1 DEF Numbered
<1>5. count \notin Range(m_clsList) \cup Range(taken)
  BY <1>1, <1>4
<1>6. \A q \in Producers : pc'[q] # "insert"
  <2>1. \A q \in Producers : q # p => pc[q] # "insert"
    BY <1>1 DEF IInv, OwnsMutex, Threads
  <2>2. \A t \in Threads \ {p} : pc'[t] = pc[t] \/ pc'[t] = "woken"
    BY SignalledPC DEF IInv, InsertAccept, Accept
  <2>3. pc'[p] = "idle"
    BY SignalledPC DEF IInv, InsertAccept, Accept
  <2> QED
    BY <2>1, <2>2, <2>3 DEF Threads
<1>7. Numbered'
  BY <1>1, <1>2, <1>3, <1>4, <1>6 DEF Numbered
<1> QED
  <2>1. Range(taken') = Range(taken)
    BY <1>2
  <2>2. Abstract!Put(count)
    BY <1>2, <1>5, <2>1 DEF Abstract!Put, Range
  <2> QED
    BY <1>1, <1>7, <2>2

\* The statement that leaves the queue is the first.
LEMMA PopTakes ==
    ASSUME IInv, Numbered, NEW c \in Consumers, PopFront(c)
    PROVE  Numbered' /\ Abstract!Take
<1>1. /\ m_clsList \in Seq(1..MaxInserts) /\ m_clsList # <<>> /\ taken \in Seq(1..MaxInserts)
      /\ Head(m_clsList) \in 1..MaxInserts
  BY HeadTailProperties DEF IInv, TypeOK, PopFront
<1>2. /\ m_clsList' = Tail(m_clsList) /\ taken' = Append(taken, Head(m_clsList))
      /\ UNCHANGED count
  BY DEF PopFront
<1>3. Range(taken') = Range(taken) \cup {Head(m_clsList)}
  BY <1>1, <1>2, RangeOfAppend
<1>4. Range(m_clsList') \subseteq Range(m_clsList) /\ Head(m_clsList) \in Range(m_clsList)
  BY <1>1, <1>2, RangeOfTail
<1>5. \A q \in Producers : pc'[q] = pc[q]
  BY QueueAssumption DEF IInv, TypeOK, PopFront, Goto, Threads
<1>6. Numbered'
  BY <1>2, <1>3, <1>4, <1>5 DEF Numbered
<1> QED
  BY <1>1, <1>2, <1>3, <1>6 DEF Abstract!Take

\* Every step is one of SqlDelivery or does not concern it.
LEMMA StepDelivery ==
    IInv /\ Numbered /\ [Next]_vars => Numbered' /\ [Abstract!Next]_(Abstract!vars)
<1> SUFFICES ASSUME IInv, Numbered, [Next]_vars
             PROVE  Numbered' /\ [Abstract!Next]_(Abstract!vars)
  OBVIOUS
<1>1. ASSUME UNCHANGED <<m_clsList, taken, count>>,
             \A p \in Producers : pc'[p] = "insert" => pc[p] = "insert"
      PROVE  Numbered' /\ UNCHANGED Abstract!vars
  BY <1>1 DEF Numbered, Abstract!vars
<1>2. /\ Producers \subseteq Threads /\ Producers \cap Consumers = {}
      /\ Consumers \subseteq Threads
      /\ pc \in [Threads -> {"idle", "insert", "empty", "waiting", "woken"}]
  BY QueueAssumption DEF Threads, IInv, TypeOK
<1>3. ASSUME NEW p \in Producers, InsertLock(p) PROVE Numbered' /\ UNCHANGED Abstract!vars
  <2>1. UNCHANGED <<m_clsList, taken>> /\ count' = count + 1
    BY <1>3 DEF InsertLock, InsertBegin
  <2>2. \A n \in Range(m_clsList) \cup Range(taken) : n \in Int
    <3>1. m_clsList \in Seq(1..MaxInserts) /\ taken \in Seq(1..MaxInserts)
      BY DEF IInv, TypeOK
    <3>2. \A n \in Range(m_clsList) \cup Range(taken) : n \in 1..MaxInserts
      BY <3>1, RangeOfSeq
    <3> QED
      BY <3>2
  <2>3. count \in Int
    BY DEF IInv, TypeOK
  <2>4. \A n \in Range(m_clsList) \cup Range(taken) : n < count + 1 /\ n <= count + 1
    BY <2>2, <2>3 DEF Numbered
  <2> QED
    BY <2>1, <2>4 DEF Numbered, Abstract!vars
<1>4. ASSUME NEW p \in Producers, InsertAccept(p) PROVE Numbered' /\ Abstract!Next
  BY <1>4, AcceptPuts DEF Abstract!Next
<1>5. ASSUME NEW c \in Consumers, PopFront(c) PROVE Numbered' /\ Abstract!Next
  BY <1>5, PopTakes DEF Abstract!Next
<1>6. ASSUME NEW p \in Producers, InsertDrop(p) PROVE Numbered' /\ UNCHANGED Abstract!vars
  BY <1>1, <1>2, <1>6 DEF InsertDrop, Goto, history
<1>7. ASSUME NEW c \in Consumers, Consume(c) \/ SpuriousWakeup(c), ~PopFront(c)
      PROVE  Numbered' /\ UNCHANGED Abstract!vars
  <2>1. UNCHANGED <<m_clsList, taken, count>>
    BY <1>7 DEF Consume, SpuriousWakeup, SelectTake, SelectEmpty, SelectWait, SelectWoken,
                history
  <2>2. \E label : label # "insert" /\ pc' = [pc EXCEPT ![c] = label]
    BY <1>7 DEF Consume, SpuriousWakeup, SelectTake, SelectEmpty, SelectWait, SelectWoken,
                Goto
  <2> QED
    BY <1>1, <1>2, <2>1, <2>2
<1>8. CASE Signal \/ (\E n \in LaterLimits : SetMaxSize(n)) \/ UNCHANGED vars
  <2>1. UNCHANGED <<m_clsList, taken, count>>
    BY <1>8 DEF Signal, SetMaxSize, vars, history
  <2>2. \A p \in Producers : pc'[p] = "insert" => pc[p] = "insert"
    BY <1>2, <1>8 DEF Signal, SetMaxSize, vars, Woken, Asleep
  <2> QED
    BY <1>1, <2>1, <2>2
<1> QED
  BY <1>3, <1>4, <1>5, <1>6, <1>7, <1>8 DEF Next, Produce

\* Insert and Select of the queue are one step each for those who call them, as the
\* SQL threads take them to be, although each is several under a mutex, with a wait
\* in between, while m_iMaxSize and the signals need no mutex.
THEOREM QueueImplementsDelivery == Spec => ImplementsDelivery
<1>1. Init => Numbered /\ Abstract!Init
  <2>1. Range(<<>>) = {}
    BY DEF Range
  <2> QED
    BY <2>1 DEF Init, Numbered, Abstract!Init
<1> QED
  BY <1>1, InvariantHolds, StepDelivery, PTL DEF Spec, ImplementsDelivery, Abstract!Spec
=============================================================================
