------------------------ MODULE MySQLQueryMonitorProofs ------------------------
(***************************************************************************)
(* Proofs about MySQLQueryMonitor for any threads, statements, batches and *)
(* values of the setup file: the window, its button and its query threads. *)
(***************************************************************************)
EXTENDS MySQLQueryMonitor, SequenceTheorems, FiniteSetTheorems, TLAPS

-----------------------------------------------------------------------------
(* Types                                                                   *)

\* A sequence without its last element, as the boxes when one is answered.
LEMMA FrontBox ==
    ASSUME NEW S, NEW s \in Seq(S), s # <<>>
    PROVE  /\ Last(s) \in S /\ Len(s) \in Nat \ {0}
           /\ Front(s) \in Seq(S)
           /\ Len(Front(s)) = Len(s) - 1
           /\ \A i \in 1..Len(s) - 1 : Front(s)[i] = s[i]
<1>1. Len(s) \in Nat \ {0}
  BY EmptySeq, LenProperties
<1>2. Last(s) \in S
  BY <1>1, ElementOfSeq DEF Last
<1>3. \A i \in 1..Len(s) - 1 : s[i] \in S
  BY <1>1, ElementOfSeq
<1>4. 1 \in Int /\ Len(s) - 1 \in Int
  BY <1>1
<1>5. Front(s) \in Seq(S)
  BY <1>3, <1>4, SubSeqProperties DEF Front
<1>6. Len(Front(s)) = Len(s) - 1
  <2>1. \A n \in 0..Len(s) : Len(SubSeq(s, 1, n)) = n
    OBVIOUS
  <2>2. Len(s) - 1 \in 0..Len(s)
    BY <1>1
  <2>3. Len(SubSeq(s, 1, Len(s) - 1)) = Len(s) - 1
    BY <2>1, <2>2, Zenon
  <2>4. QED
    BY <2>3, Zenon DEF Front
<1>7. \A i \in 1..Len(s) - 1 : Front(s)[i] = s[i]
  BY <1>1, <1>3, <1>4, SubSeqProperties DEF Front
<1>8. QED
  BY <1>1, <1>2, <1>5, <1>6, <1>7

TypeBoxes == boxes \in Seq(Threads \cup {"user"})

\* Every step keeps the types.
LEMMA TypeKept == TypeOK /\ [Next]_vars => TypeOK'
<1> SUFFICES ASSUME TypeOK, [Next]_vars PROVE TypeOK'
  OBVIOUS
<1> USE DEF TypeOK, PC, vars, flags, window, seen
<1>1. ASSUME NEW t \in Threads, Thread(t) PROVE TypeOK'
  <2>1. CASE Run(t)
    BY <2>1 DEF Run, Goto
  <2>2. CASE Read(t)
    <3>1. m_iMaxQueryCount' \in Nat \ {0}
      BY <2>2, MonitorAssumption DEF Read, TakeCount
    <3>2. least' \in 1..m_iMaxQueryCount'
      BY <2>2, <3>1 DEF Read, TakeCount
    <3>3. pc' \in [Threads -> PC]
      BY <2>2 DEF Read, TakeCount, Goto
    <3>4. QED
      BY <2>2, <3>1, <3>2, <3>3 DEF Read
  <2>3. CASE Connect(t)
    BY <2>3 DEF Connect, Goto
  <2>4. CASE Test(t)
    BY <2>4 DEF Test, Goto
  <2>5. CASE Query(t)
    BY <2>5 DEF Query, Goto
  <2>6. CASE Refresh(t)
    BY <2>6 DEF Refresh, Goto
  <2>7. CASE ErrorBox(t)
    <3>1. TypeBoxes'
      BY <2>7, AppendProperties DEF ErrorBox, TypeBoxes
    <3>2. QED
      BY <2>7, <3>1 DEF ErrorBox, Goto, TypeBoxes
  <2>8. CASE Wake(t)
    BY <2>8 DEF Wake, Goto
  <2>9. CASE Close(t)
    BY <2>9 DEF Close, Goto
  <2>10. QED
    BY <1>1, <2>1, <2>2, <2>3, <2>4, <2>5, <2>6, <2>7, <2>8, <2>9 DEF Thread
<1>2. CASE CloseBox
  <2>1. TypeBoxes' /\ Last(boxes) \in Threads \cup {"user"}
    BY <1>2, FrontBox DEF CloseBox, TypeBoxes
  <2>2. pc' \in [Threads -> PC] /\ m_bStart' \in BOOLEAN
    BY <1>2, <2>1 DEF CloseBox, AnswerError
  <2>3. QED
    BY <1>2, <2>1, <2>2 DEF CloseBox, TypeBoxes
<1>3. CASE ClickSql
  <2>1. TypeBoxes'
    BY <1>3, AppendProperties DEF ClickSql, UserBox, TypeBoxes
  <2>2. QED
    BY <1>3, <2>1 DEF ClickSql, TypeBoxes
<1>4. CASE ClickStart
  <2>1. TypeBoxes'
    <3>1. boxes' = boxes \/ UserBox
      BY <1>4 DEF ClickStart
    <3>2. QED
      BY <3>1, AppendProperties DEF UserBox, TypeBoxes
  <2>2. pc' \in [Threads -> PC] /\ m_bStart' \in BOOLEAN /\ alone' \in BOOLEAN
    BY <1>4 DEF ClickStart, Goto
  <2>3. QED
    BY <1>4, <2>1, <2>2 DEF ClickStart, TypeBoxes
<1>5. CASE ClickStop
  BY <1>5 DEF ClickStop, Clickable
<1>6. CASE ClickCancel
  BY <1>6 DEF ClickCancel, Clickable
<1>7. CASE ClickClear
  BY <1>7 DEF ClickClear, Clickable
<1>8. CASE StopDone
  BY <1>8 DEF StopDone, Stopping
<1>9. CASE UNCHANGED vars
  BY <1>9
<1>10. QED
  BY <1>1, <1>2, <1>3, <1>4, <1>5, <1>6, <1>7, <1>8, <1>9 DEF Next, User


-----------------------------------------------------------------------------
(* The boxes                                                               *)

\* A thread whose message opened a box waits for it, and no thread has two.
BoxInv ==
    /\ \A i \in 1..Len(boxes) : boxes[i] # "user" => pc[boxes[i]] = "boxed"
    /\ \A i, j \in 1..Len(boxes) : i < j /\ boxes[i] # "user" => boxes[i] # boxes[j]

\* A box of the user, or none, in front does not disturb it.
LEMMA UserBoxKeeps ==
    ASSUME TypeOK, BoxInv, UserBox \/ boxes' = boxes,
           \A t \in Threads : pc[t] = "boxed" => pc'[t] = "boxed"
    PROVE  BoxInv'
<1>1. \A i \in 1..Len(boxes) : boxes[i] \in Threads \cup {"user"}
  BY ElementOfSeq DEF TypeOK
<1>2. CASE UserBox
  <2>1. /\ Len(boxes') = Len(boxes) + 1
        /\ \A i \in 1..Len(boxes) : boxes'[i] = boxes[i]
        /\ boxes'[Len(boxes) + 1] = "user"
    BY <1>2, AppendProperties DEF UserBox, TypeOK
  <2>2. Len(boxes) \in Nat
    BY LenProperties DEF TypeOK
  <2>3. \A i \in 1..Len(boxes') : i \in 1..Len(boxes) \/ i = Len(boxes) + 1
    BY <2>1, <2>2
  <2>4. QED
    BY <1>1, <2>1, <2>2, <2>3 DEF BoxInv
<1>3. CASE boxes' = boxes
  BY <1>1, <1>3 DEF BoxInv
<1>4. QED
  BY <1>2, <1>3

\* Every step keeps it.
LEMMA BoxKept == TypeOK /\ BoxInv /\ [Next]_vars => BoxInv'
<1> SUFFICES ASSUME TypeOK /\ BoxInv, [Next]_vars PROVE BoxInv'
  OBVIOUS
<1> USE DEF TypeOK, PC, vars, flags, window, seen
<1>1. ASSUME NEW t \in Threads, Thread(t) PROVE BoxInv'
  <2>1. CASE Run(t)
    BY <2>1, UserBoxKeeps DEF Run, Goto
  <2>2. CASE Read(t)
    BY <2>2, UserBoxKeeps DEF Read, TakeCount, Goto
  <2>3. CASE Connect(t)
    BY <2>3, UserBoxKeeps DEF Connect, Goto
  <2>4. CASE Test(t)
    BY <2>4, UserBoxKeeps DEF Test, Goto
  <2>5. CASE Query(t)
    BY <2>5, UserBoxKeeps DEF Query, Goto
  <2>6. CASE Refresh(t)
    BY <2>6, UserBoxKeeps DEF Refresh, Goto
  <2>7. CASE ErrorBox(t)
    <3>1. /\ Len(boxes') = Len(boxes) + 1
          /\ \A i \in 1..Len(boxes) : boxes'[i] = boxes[i]
          /\ boxes'[Len(boxes) + 1] = t
      BY <2>7, AppendProperties DEF ErrorBox
    <3>2. Len(boxes) \in Nat /\ \A i \in 1..Len(boxes) : boxes[i] \in Threads \cup {"user"}
      BY LenProperties, ElementOfSeq
    <3>3. pc[t] = "error" /\ pc' = [pc EXCEPT ![t] = "boxed"]
      BY <2>7 DEF ErrorBox, Goto
    <3>4. \A i \in 1..Len(boxes) : boxes[i] # t
      BY <3>3, MonitorAssumption DEF BoxInv
    <3>5. \A i \in 1..Len(boxes') : i \in 1..Len(boxes) \/ i = Len(boxes) + 1
      BY <3>1, <3>2
    <3>6. QED
      BY <3>1, <3>2, <3>3, <3>4, <3>5 DEF BoxInv
  <2>8. CASE Wake(t)
    BY <2>8, UserBoxKeeps DEF Wake, Goto
  <2>9. CASE Close(t)
    BY <2>9, UserBoxKeeps DEF Close, Goto
  <2>10. QED
    BY <1>1, <2>1, <2>2, <2>3, <2>4, <2>5, <2>6, <2>7, <2>8, <2>9 DEF Thread
<1>2. CASE CloseBox
  <2>1. /\ Len(boxes) \in Nat \ {0} /\ Len(boxes') = Len(boxes) - 1
        /\ \A i \in 1..Len(boxes) - 1 : boxes'[i] = boxes[i]
    BY <1>2, FrontBox DEF CloseBox
  <2>2. \A i \in 1..Len(boxes) : boxes[i] \in Threads \cup {"user"}
    BY ElementOfSeq
  <2>3. CASE Last(boxes) = "user"
    BY <1>2, <2>1, <2>2, <2>3 DEF CloseBox, BoxInv
  <2>4. CASE Last(boxes) # "user"
    <3>1. pc' = [pc EXCEPT ![boxes[Len(boxes)]] = "close"]
      BY <1>2, <2>4 DEF CloseBox, AnswerError, Last
    <3>2. \A i \in 1..Len(boxes) - 1 : boxes[i] # "user" => boxes[i] # boxes[Len(boxes)]
      BY <2>1 DEF BoxInv
    <3>3. QED
      BY <2>1, <2>2, <3>1, <3>2 DEF BoxInv
  <2>5. QED
    BY <2>3, <2>4
<1>3. CASE ClickSql
  BY <1>3, UserBoxKeeps DEF ClickSql, UserBox, Clickable
<1>4. CASE ClickStart
  BY <1>4, UserBoxKeeps DEF ClickStart, UserBox, Clickable, Goto
<1>5. CASE ClickStop
  BY <1>5, UserBoxKeeps DEF ClickStop, Clickable
<1>6. CASE ClickCancel
  BY <1>6, UserBoxKeeps DEF ClickCancel, Clickable
<1>7. CASE ClickClear
  BY <1>7, UserBoxKeeps DEF ClickClear, Clickable
<1>8. CASE StopDone
  BY <1>8, UserBoxKeeps DEF StopDone, Stopping
<1>9. CASE UNCHANGED vars
  BY <1>9 DEF BoxInv
<1>10. QED
  BY <1>1, <1>2, <1>3, <1>4, <1>5, <1>6, <1>7, <1>8, <1>9 DEF Next, User


\* The thread of the box in front waits for it.
LEMMA InFront ==
    ASSUME TypeOK, BoxInv, boxes # <<>>, Last(boxes) # "user"
    PROVE  Last(boxes) \in Threads /\ pc[Last(boxes)] = "boxed"
<1>1. Last(boxes) \in Threads \cup {"user"} /\ Len(boxes) \in Nat \ {0}
  BY FrontBox DEF TypeOK
<1>2. QED
  BY <1>1 DEF BoxInv, Last

-----------------------------------------------------------------------------
(* The flag of the thread                                                  *)

\* While no second thread was started there is one at most, and the flag is its.
AloneInv ==
    /\ alone => \A t, u \in Threads : pc[t] # "none" /\ pc[u] # "none" => t = u
    /\ RunFlagTrue

\* Every step keeps it.
LEMMA AloneKept == TypeOK /\ BoxInv /\ AloneInv /\ [Next]_vars => AloneInv'
<1> SUFFICES ASSUME TypeOK /\ BoxInv /\ AloneInv, [Next]_vars PROVE AloneInv'
  OBVIOUS
<1> USE DEF TypeOK, PC, AloneInv, RunFlagTrue, vars, flags, window, seen
<1>1. ASSUME NEW t \in Threads, Thread(t) PROVE AloneInv'
  <2>1. CASE Run(t)
    BY <2>1 DEF Run, Goto
  <2>2. CASE Read(t)
    BY <2>2 DEF Read, TakeCount, Goto
  <2>3. CASE Connect(t)
    BY <2>3 DEF Connect, Goto
  <2>4. CASE Test(t)
    BY <2>4 DEF Test, Goto
  <2>5. CASE Query(t)
    BY <2>5 DEF Query, Goto
  <2>6. CASE Refresh(t)
    BY <2>6 DEF Refresh, Goto
  <2>7. CASE ErrorBox(t)
    BY <2>7 DEF ErrorBox, Goto
  <2>8. CASE Wake(t)
    BY <2>8 DEF Wake, Goto
  <2>9. CASE Close(t)
    BY <2>9 DEF Close, Goto
  <2>10. QED
    BY <1>1, <2>1, <2>2, <2>3, <2>4, <2>5, <2>6, <2>7, <2>8, <2>9 DEF Thread
<1>2. CASE CloseBox
  <2>1. gbRun' = gbRun /\ alone' = alone
    BY <1>2 DEF CloseBox
  <2>2. CASE Last(boxes) = "user"
    BY <1>2, <2>1, <2>2 DEF CloseBox
  <2>3. CASE Last(boxes) # "user"
    <3>1. Last(boxes) \in Threads /\ pc[Last(boxes)] = "boxed"
      BY <1>2, <2>3, InFront DEF CloseBox
    <3>2. pc' = [pc EXCEPT ![Last(boxes)] = "close"]
      BY <1>2, <2>3 DEF CloseBox, AnswerError
    <3>3. QED
      BY <2>1, <3>1, <3>2
  <2>4. QED
    BY <2>2, <2>3
<1>3. CASE ClickSql
  BY <1>3 DEF ClickSql, UserBox, Clickable
<1>4. CASE ClickStart
  <2>1. gbRun' = gbRun
    BY <1>4 DEF ClickStart
  <2>2. CASE UNCHANGED <<pc, alone>>
    BY <2>1, <2>2
  <2>3. ASSUME NEW t \in Threads, Goto(t, "none", "created"), ~gbRun,
               alone' = ({u \in Threads : pc[u] # "none"} = {})
        PROVE  AloneInv'
    <3>1. SUFFICES ASSUME alone' PROVE AloneInv'
      BY <2>1
    <3>2. \A u \in Threads : pc[u] = "none"
      BY <2>3, <3>1
    <3>3. \A u \in Threads : pc'[u] = IF u = t THEN "created" ELSE "none"
      BY <2>3, <3>2 DEF Goto
    <3>4. QED
      BY <2>1, <2>3, <3>3
  <2>4. QED
    BY <1>4, <2>2, <2>3 DEF ClickStart
<1>5. CASE ClickStop
  BY <1>5 DEF ClickStop, Clickable
<1>6. CASE ClickCancel
  BY <1>6 DEF ClickCancel, Clickable
<1>7. CASE ClickClear
  BY <1>7 DEF ClickClear, Clickable
<1>8. CASE StopDone
  BY <1>8 DEF StopDone, Stopping
<1>9. CASE UNCHANGED vars
  BY <1>9
<1>10. QED
  BY <1>1, <1>2, <1>3, <1>4, <1>5, <1>6, <1>7, <1>8, <1>9 DEF Next, User


-----------------------------------------------------------------------------
(* What the window shows, and its button                                   *)

\* Every step keeps the list control at the list, or a message waits.
LEMMA ShownKept == TypeOK /\ BoxInv /\ ShownIsList /\ [Next]_vars => ShownIsList'
<1> SUFFICES ASSUME TypeOK /\ BoxInv /\ ShownIsList, [Next]_vars PROVE ShownIsList'
  OBVIOUS
<1> USE DEF TypeOK, PC, ShownIsList, vars, flags, window, seen
<1>1. ASSUME NEW t \in Threads, Thread(t) PROVE ShownIsList'
  <2>1. CASE Run(t)
    BY <2>1 DEF Run, Goto
  <2>2. CASE Read(t)
    BY <2>2 DEF Read, TakeCount, Goto
  <2>3. CASE Connect(t)
    BY <2>3 DEF Connect, Goto
  <2>4. CASE Test(t)
    BY <2>4 DEF Test, Goto
  <2>5. CASE Query(t)
    BY <2>5 DEF Query, Goto
  <2>6. CASE Refresh(t)
    BY <2>6 DEF Refresh, Goto
  <2>7. CASE ErrorBox(t)
    BY <2>7 DEF ErrorBox, Goto
  <2>8. CASE Wake(t)
    BY <2>8 DEF Wake, Goto
  <2>9. CASE Close(t)
    BY <2>9 DEF Close, Goto
  <2>10. QED
    BY <1>1, <2>1, <2>2, <2>3, <2>4, <2>5, <2>6, <2>7, <2>8, <2>9 DEF Thread
<1>2. CASE CloseBox
  <2>1. shown' = shown /\ list' = list
    BY <1>2 DEF CloseBox
  <2>2. CASE Last(boxes) = "user"
    BY <1>2, <2>1, <2>2 DEF CloseBox
  <2>3. CASE Last(boxes) # "user"
    <3>1. Last(boxes) \in Threads /\ pc[Last(boxes)] = "boxed"
      BY <1>2, <2>3, InFront DEF CloseBox
    <3>2. pc' = [pc EXCEPT ![Last(boxes)] = "close"]
      BY <1>2, <2>3 DEF CloseBox, AnswerError
    <3>3. QED
      BY <2>1, <3>1, <3>2
  <2>4. QED
    BY <2>2, <2>3
<1>3. CASE ClickSql
  BY <1>3 DEF ClickSql, UserBox, Clickable
<1>4. CASE ClickStart
  BY <1>4 DEF ClickStart, UserBox, Clickable, Goto
<1>5. CASE ClickStop
  BY <1>5 DEF ClickStop, Clickable
<1>6. CASE ClickCancel
  BY <1>6 DEF ClickCancel, Clickable
<1>7. CASE ClickClear
  BY <1>7 DEF ClickClear, Clickable
<1>8. CASE StopDone
  BY <1>8 DEF StopDone, Stopping
<1>9. CASE UNCHANGED vars
  BY <1>9
<1>10. QED
  BY <1>1, <1>2, <1>3, <1>4, <1>5, <1>6, <1>7, <1>8, <1>9 DEF Next, User


\* A window that waits for clicks has its button at "Stop" only while a thread
\* is there that nothing has ended yet; gbStop is set only while it waits for one.
ButtonInv ==
    /\ ui = "idle" /\ ~m_bStart => \E t \in Threads : pc[t] \notin {"none", "close"}
    /\ gbStop => ui # "idle"

\* Every step keeps it: what ends a thread puts the button back.
LEMMA ButtonKept == TypeOK /\ BoxInv /\ ButtonInv /\ [Next]_vars => ButtonInv'
<1> SUFFICES ASSUME TypeOK /\ BoxInv /\ ButtonInv, [Next]_vars PROVE ButtonInv'
  OBVIOUS
<1> USE DEF TypeOK, PC, ButtonInv, vars, flags, window, seen
<1>1. ASSUME NEW t \in Threads, Thread(t) PROVE ButtonInv'
  <2>1. CASE Run(t)
    BY <2>1 DEF Run, Goto
  <2>2. CASE Read(t)
    BY <2>2 DEF Read, TakeCount, Goto
  <2>3. CASE Connect(t)
    BY <2>3 DEF Connect, Goto
  <2>4. CASE Test(t)
    BY <2>4 DEF Test, Goto
  <2>5. CASE Query(t)
    BY <2>5 DEF Query, Goto
  <2>6. CASE Refresh(t)
    BY <2>6 DEF Refresh, Goto
  <2>7. CASE ErrorBox(t)
    BY <2>7 DEF ErrorBox, Goto
  <2>8. CASE Wake(t)
    BY <2>8 DEF Wake, Goto
  <2>9. CASE Close(t)
    BY <2>9 DEF Close, Goto
  <2>10. QED
    BY <1>1, <2>1, <2>2, <2>3, <2>4, <2>5, <2>6, <2>7, <2>8, <2>9 DEF Thread
<1>2. CASE CloseBox
  BY <1>2 DEF CloseBox, AnswerError
<1>3. CASE ClickSql
  BY <1>3 DEF ClickSql, UserBox, Clickable
<1>4. CASE ClickStart
  BY <1>4 DEF ClickStart, UserBox, Clickable, Goto
<1>5. CASE ClickStop
  BY <1>5 DEF ClickStop, Clickable
<1>6. CASE ClickCancel
  BY <1>6 DEF ClickCancel, Clickable
<1>7. CASE ClickClear
  BY <1>7 DEF ClickClear, Clickable
<1>8. CASE StopDone
  BY <1>8 DEF StopDone, Stopping
<1>9. CASE UNCHANGED vars
  BY <1>9
<1>10. QED
  BY <1>1, <1>2, <1>3, <1>4, <1>5, <1>6, <1>7, <1>8, <1>9 DEF Next, User


-----------------------------------------------------------------------------
(* The theorems                                                            *)

IInv == TypeOK /\ BoxInv /\ AloneInv /\ ShownIsList /\ ButtonInv

\* The program begins in the invariant.
LEMMA InitIInv == Init => IInv
<1> SUFFICES ASSUME Init PROVE IInv
  OBVIOUS
<1>1. Len(boxes) = 0 /\ boxes \in Seq(Threads \cup {"user"})
  BY EmptySeq DEF Init
<1>2. TypeOK
  <2>1. /\ gbRun \in BOOLEAN /\ gbStop \in BOOLEAN /\ m_bStart \in BOOLEAN /\ alone \in BOOLEAN
        /\ pc \in [Threads -> PC] /\ ui = "idle"
    BY DEF Init, PC
  <2>2. m_iMaxQueryCount \in Nat \ {0} /\ least \in 1..m_iMaxQueryCount
    BY MonitorAssumption DEF Init
  <2>3. QED
    BY <1>1, <2>1, <2>2 DEF TypeOK
<1>3. BoxInv
  BY <1>1 DEF BoxInv
<1>4. AloneInv /\ ShownIsList /\ ButtonInv
  BY DEF Init, AloneInv, RunFlagTrue, ShownIsList, ButtonInv
<1>5. QED
  BY <1>2, <1>3, <1>4 DEF IInv

\* The invariant always holds.
LEMMA Invariance == Spec => []IInv
<1>1. IInv /\ [Next]_vars => IInv'
  BY TypeKept, BoxKept, AloneKept, ShownKept, ButtonKept DEF IInv
<1>2. QED
  BY InitIInv, <1>1, PTL DEF Spec

\* The flags, the window and the threads keep their types; the count is never 0.
THEOREM TypeCorrect == Spec => []TypeOK
<1>1. IInv => TypeOK
  BY DEF IInv
<1>2. QED
  BY Invariance, <1>1, PTL

\* gbRun (MySQLQueryThread.cpp:48, 96) is the thread's life, from its first line to
\* its last, as long as no second thread was started before the first had set it.
THEOREM RunFlagCorrect == Spec => []RunFlagTrue
<1>1. IInv => RunFlagTrue
  BY DEF IInv, AloneInv
<1>2. QED
  BY Invariance, <1>1, PTL

\* Messages that wait behind each other, behind boxes and behind a Clear leave
\* nothing old in the list control (MySQLQueryMonitorDlg.cpp:233-263).
THEOREM WindowShowsList == Spec => []ShownIsList
<1>1. IInv => ShownIsList
  BY DEF IInv
<1>2. QED
  BY Invariance, <1>1, PTL

\* Whatever ended the threads, a stop, an error of the setup or of the connection,
\* the button says "Start" again (MySQLQueryMonitorDlg.cpp:196-225, 275-281).
THEOREM ButtonReturns == Spec => []CanStartAgain
<1>1. IInv => CanStartAgain
  BY DEF IInv, ButtonInv, CanStartAgain, Clickable, TypeOK, PC
<1>2. QED
  BY Invariance, <1>1, PTL

-----------------------------------------------------------------------------
(* Least and greatest numbers, and functions by recursion                  *)

\* A set of natural numbers that is not empty has a least element.
LEMMA LeastExists ==
    ASSUME NEW S, S \subseteq Nat, S # {}
    PROVE  \E m \in S : \A x \in S : m <= x
<1>1. IsWellFoundedOn(OpToRel(<, Nat), Nat)
  BY NatLessThanWellFounded
<1>2. PICK m \in S : \A x \in S : <<x, m>> \notin OpToRel(<, Nat)
  BY <1>1, WFMin
<1>3. \A x \in S : ~(x < m)
  BY <1>2 DEF OpToRel
<1>4. \A x \in S : x \in Int
  OBVIOUS
<1>5. QED
  BY <1>3, <1>4

\* And a greatest one where it is bounded.
LEMMA GreatestExists ==
    ASSUME NEW S, S \subseteq Nat, S # {}, NEW b \in Nat, \A x \in S : x <= b
    PROVE  \E m \in S : \A x \in S : x <= m
<1> DEFINE bounds == {n \in Nat : \A x \in S : x <= n}
<1>1. PICK m \in bounds : \A n \in bounds : m <= n
  <2>1. b \in bounds /\ bounds \subseteq Nat
    OBVIOUS
  <2> HIDE DEF bounds
  <2>2. QED
    BY <2>1, LeastExists
<1>2. m \in Nat /\ \A x \in S : x <= m /\ x \in Nat
  BY <1>1
<1>3. m \in S
  <2> SUFFICES ASSUME m \notin S PROVE FALSE
    OBVIOUS
  <2>1. \A x \in S : x <= m - 1
    BY <1>2
  <2>2. m - 1 \in Nat
    <3>1. PICK y \in S : TRUE
      OBVIOUS
    <3>2. y \in Nat /\ y <= m - 1
      BY <2>1, <3>1
    <3>3. QED
      BY <1>2, <3>2
  <2>3. m - 1 \in bounds
    BY <2>1, <2>2
  <2>4. QED
    BY <1>1, <1>2, <2>3
<1>4. QED
  BY <1>2, <1>3

\* The list after the rows of a batch is what its definition says: there is such a
\* function for every number of rows, or there were a least number without.
LEMMA InsertedRows ==
    ASSUME NEW l, NEW batch, Len(batch) \in Nat
    PROVE  /\ Inserted(l, batch)[0] = l
           /\ \A n \in 1..Len(batch) :
                Inserted(l, batch)[n] = InsertOne(Inserted(l, batch)[n - 1], batch[n])
<1> DEFINE Rows(after, k) ==
             after = [n \in 0..k |-> IF n = 0 THEN l ELSE InsertOne(after[n - 1], batch[n])]
           bad == {k \in Nat : ~\E after : Rows(after, k)}
<1>1. bad = {}
  <2> SUFFICES ASSUME bad # {} PROVE FALSE
    OBVIOUS
  <2>1. PICK k \in bad : \A j \in bad : k <= j
    <3>1. bad \subseteq Nat
      OBVIOUS
    <3> HIDE DEF bad
    <3>2. QED
      BY <3>1, LeastExists
  <2>2. CASE k = 0
    <3> DEFINE after == [n \in 0..0 |-> l]
    <3>1. Rows(after, 0)
      OBVIOUS
    <3>2. QED
      BY <2>1, <2>2, <3>1
  <2>3. CASE k # 0
    <3>1. k \in Nat
      OBVIOUS
    <3>2. PICK h : Rows(h, k - 1)
      <4>1. k - 1 \in Nat /\ ~(k <= k - 1)
        BY <2>3, <3>1
      <4>2. k - 1 \notin bad
        BY <2>1, <4>1
      <4>3. QED
        BY <4>1, <4>2
    <3> DEFINE after == [n \in 0..k |-> IF n < k THEN h[n] ELSE InsertOne(h[k - 1], batch[k])]
    <3>3. \A n \in 0..k : after[n] = IF n = 0 THEN l ELSE InsertOne(after[n - 1], batch[n])
      <4>1. \A n \in 0..k - 1 : h[n] = IF n = 0 THEN l ELSE InsertOne(h[n - 1], batch[n])
        BY <3>2
      <4>2. QED
        BY <2>3, <3>1, <4>1
    <3>4. Rows(after, k)
      BY <3>3
    <3>5. QED
      BY <2>1, <3>4
  <2>4. QED
    BY <2>2, <2>3
<1>2. PICK h : Rows(h, Len(batch))
  BY <1>1
<1>3. Rows(Inserted(l, batch), Len(batch))
  BY <1>2 DEF Inserted
<1>4. QED
  BY <1>3

-----------------------------------------------------------------------------
(* The longest statements                                                  *)

\* As many entries last v seconds at least as the list was ever restricted to.
Enough(l, v) == Cardinality({i \in DOMAIN l : l[i].sec >= v}) >= least

\* A list that remembers a set of statements with their times: each statement once, no
\* time that was not seen, and what is missing gave way to enough others.
Kept(l, S) ==
    /\ l \in Seq(Entry)
    /\ \A i, j \in DOMAIN l : l[i].sql = l[j].sql => i = j
    /\ \A i \in DOMAIN l : \E v \in Nat : <<l[i].sql, v>> \in S /\ l[i].sec <= v
    /\ \A s \in Sqls, v \in Nat :
          <<s, v>> \in S =>
            (\E i \in DOMAIN l : l[i].sql = s /\ l[i].sec >= v) \/ Enough(l, v)

\* An entry of a list.
LEMMA EntryOf ==
    ASSUME NEW l \in Seq(Entry)
    PROVE  /\ Len(l) \in Nat /\ DOMAIN l = 1..Len(l) /\ IsFiniteSet(DOMAIN l)
           /\ Cardinality(DOMAIN l) = Len(l)
           /\ \A i \in DOMAIN l :
                l[i] \in Entry /\ l[i].sec \in Nat /\ l[i].sql \in Sqls /\ i \in Nat
           /\ \A v : IsFiniteSet({i \in DOMAIN l : l[i].sec >= v})
                       /\ Cardinality({i \in DOMAIN l : l[i].sec >= v}) \in Nat
<1>1. Len(l) \in Nat /\ DOMAIN l = 1..Len(l)
  BY LenProperties
<1>2. IsFiniteSet(1..Len(l)) /\ Cardinality(1..Len(l)) = Len(l)
  BY <1>1, FS_Interval
<1>3. ASSUME NEW i \in DOMAIN l
      PROVE  l[i] \in Entry /\ l[i].sec \in Nat /\ l[i].sql \in Sqls /\ i \in Nat
  <2>1. i \in Nat /\ l[i] \in Entry
    BY <1>1, ElementOfSeq
  <2>2. QED
    BY <2>1, MonitorAssumption DEF Entry
<1>4. ASSUME NEW v
      PROVE  IsFiniteSet({i \in DOMAIN l : l[i].sec >= v})
               /\ Cardinality({i \in DOMAIN l : l[i].sec >= v}) \in Nat
  <2>1. {i \in DOMAIN l : l[i].sec >= v} \subseteq DOMAIN l /\ IsFiniteSet(DOMAIN l)
    BY <1>1, <1>2
  <2>2. QED
    BY <2>1, FS_Subset, FS_CardinalityType
<1>5. QED
  BY <1>1, <1>2, <1>3, <1>4

\* Enough stays enough when each entry goes to a place of its own and lasts no less.
LEMMA EnoughMoves ==
    ASSUME NEW l \in Seq(Entry), NEW m \in Seq(Entry), NEW f \in [DOMAIN l -> DOMAIN m],
           \A i, j \in DOMAIN l : f[i] = f[j] => i = j,
           \A i \in DOMAIN l : m[f[i]].sec >= l[i].sec,
           NEW v \in Nat, Enough(l, v), least \in Nat
    PROVE  Enough(m, v)
<1> DEFINE before == {i \in DOMAIN l : l[i].sec >= v}
           after == {i \in DOMAIN m : m[i].sec >= v}
           g == [i \in before |-> f[i]]
<1>1. \A i \in before : f[i] \in after
  <2> SUFFICES ASSUME NEW i \in before PROVE f[i] \in after
    OBVIOUS
  <2>1. f[i] \in DOMAIN m /\ m[f[i]].sec >= l[i].sec /\ l[i].sec >= v
    OBVIOUS
  <2>2. m[f[i]].sec \in Int /\ l[i].sec \in Int
    BY <2>1, EntryOf
  <2>3. QED
    BY <2>1, <2>2
<1>2. g \in Injection(before, after)
  BY <1>1 DEF Injection, IsInjective
<1>3. IsFiniteSet(after) /\ Cardinality(after) \in Nat
      /\ IsFiniteSet(before) /\ Cardinality(before) \in Nat
  BY EntryOf
<1>4. Cardinality(before) >= least
  BY DEF Enough
<1> HIDE DEF before, after, g
<1>5. Cardinality(before) <= Cardinality(after)
  BY <1>2, <1>3, FS_Injection
<1>6. Cardinality(after) >= least
  BY <1>3, <1>4, <1>5
<1>7. QED
  BY <1>6 DEF Enough, after

\* Every entry of l goes to a place of its own in m and lasts no less.
Moves(l, m, f) ==
    /\ f \in [DOMAIN l -> DOMAIN m]
    /\ \A i, j \in DOMAIN l : f[i] = f[j] => i = j
    /\ \A i \in DOMAIN l : m[f[i]].sec >= l[i].sec /\ m[f[i]].sql = l[i].sql

\* What is remembered is remembered at other places: every entry goes to a place of
\* its own and lasts no less, and what else there is was seen too.
LEMMA KeptMoves ==
    ASSUME NEW l, NEW S, Kept(l, S), NEW m \in Seq(Entry), NEW T, S \subseteq T,
           NEW f, Moves(l, m, f),
           \A i, j \in DOMAIN m : m[i].sql = m[j].sql => i = j,
           \A i \in DOMAIN m : \E v \in Nat : <<m[i].sql, v>> \in T /\ m[i].sec <= v,
           \A s \in Sqls, v \in Nat : <<s, v>> \in T \ S =>
              (\E i \in DOMAIN m : m[i].sql = s /\ m[i].sec >= v) \/ Enough(m, v),
           least \in Nat
    PROVE  Kept(m, T)
<1>1. l \in Seq(Entry)
  BY DEF Kept
<1>2. ASSUME NEW s \in Sqls, NEW v \in Nat, <<s, v>> \in S
      PROVE  (\E i \in DOMAIN m : m[i].sql = s /\ m[i].sec >= v) \/ Enough(m, v)
  <2>1. CASE Enough(l, v)
    BY <1>1, <2>1, EnoughMoves DEF Moves
  <2>2. CASE \E i \in DOMAIN l : l[i].sql = s /\ l[i].sec >= v
    <3>1. PICK i \in DOMAIN l : l[i].sql = s /\ l[i].sec >= v
      BY <2>2
    <3>2. /\ f[i] \in DOMAIN m /\ m[f[i]].sql = s /\ m[f[i]].sec >= l[i].sec
          /\ l[i].sec \in Nat
      BY <1>1, <3>1, EntryOf DEF Moves
    <3>3. m[f[i]].sec \in Nat
      BY <3>2, EntryOf
    <3>4. m[f[i]].sec >= v
      BY <3>1, <3>2, <3>3
    <3>5. QED
      BY <3>2, <3>4
  <2>3. QED
    BY <1>2, <2>1, <2>2 DEF Kept
<1>3. QED
  BY <1>2 DEF Kept

\* The first of some positions.
LEMMA FirstOf ==
    ASSUME NEW S, S \subseteq Nat, S # {}
    PROVE  First(S) \in S /\ \A j \in S : First(S) <= j
BY LeastExists DEF First

\* m is l with an entry put at p, and those behind it one place further.
PutAt(m, l, p, e) ==
    /\ m \in Seq(Entry) /\ Len(m) = Len(l) + 1 /\ m[p] = e
    /\ \A i \in 1..p - 1 : m[i] = l[i]
    /\ \A i \in p..Len(l) : m[i + 1] = l[i]

\* That is what InsertAt does.
LEMMA InsertAtPuts ==
    ASSUME NEW l \in Seq(Entry), NEW p \in 1..Len(l), NEW e \in Entry
    PROVE  PutAt(InsertAt(l, p, e), l, p, e)
<1> DEFINE a == SubSeq(l, 1, p - 1)
           b == SubSeq(l, p, Len(l))
<1>1. Len(l) \in Nat /\ p \in Nat \ {0} /\ p <= Len(l) /\ \A i \in 1..Len(l) : l[i] \in Entry
  BY LenProperties, ElementOfSeq
<1>2. a \in Seq(Entry) /\ Len(a) = p - 1 /\ \A i \in 1..p - 1 : a[i] = l[i]
  <2>1. 1 \in Int /\ p - 1 \in Int /\ \A i \in 1..p - 1 : l[i] \in Entry
    BY <1>1
  <2>2. /\ a \in Seq(Entry) /\ Len(a) = IF 1 <= p - 1 THEN p - 1 - 1 + 1 ELSE 0
        /\ \A i \in 1..p - 1 - 1 + 1 : a[i] = l[1 + i - 1]
    BY <2>1, SubSeqProperties
  <2> HIDE DEF a
  <2>3. QED
    BY <1>1, <2>2
<1>3. b \in Seq(Entry) /\ Len(b) = Len(l) - p + 1 /\ \A i \in 1..Len(l) - p + 1 : b[i] = l[p + i - 1]
  <2>1. p \in Int /\ Len(l) \in Int /\ \A i \in p..Len(l) : l[i] \in Entry
    BY <1>1
  <2>2. /\ b \in Seq(Entry) /\ Len(b) = IF p <= Len(l) THEN Len(l) - p + 1 ELSE 0
        /\ \A i \in 1..Len(l) - p + 1 : b[i] = l[p + i - 1]
    BY <2>1, SubSeqProperties
  <2> HIDE DEF b
  <2>3. QED
    BY <1>1, <2>2
<1>4. /\ <<e>> \in Seq(Entry) /\ Len(<<e>>) = 1 /\ <<e>>[1] = e
  OBVIOUS
<1> DEFINE c == a \o <<e>>
<1> HIDE DEF a, b
<1>5. /\ c \in Seq(Entry) /\ Len(c) = p
      /\ \A i \in 1..p : c[i] = IF i <= p - 1 THEN l[i] ELSE e
  <2>1. /\ c \in Seq(Entry) /\ Len(c) = Len(a) + 1
        /\ \A i \in 1..Len(a) + 1 : c[i] = IF i <= Len(a) THEN a[i] ELSE <<e>>[i - Len(a)]
    BY <1>2, <1>4, ConcatProperties
  <2> HIDE DEF c
  <2>2. ASSUME NEW i \in 1..p PROVE c[i] = IF i <= p - 1 THEN l[i] ELSE e
    <3>1. CASE i <= p - 1
      BY <1>1, <1>2, <2>1, <3>1
    <3>2. CASE ~(i <= p - 1)
      <4>1. i - Len(a) = 1 /\ ~(i <= Len(a)) /\ i \in 1..Len(a) + 1
        BY <1>1, <1>2, <3>2
      <4>2. QED
        BY <1>4, <2>1, <3>2, <4>1
    <3>3. QED
      BY <3>1, <3>2
  <2>3. QED
    BY <1>1, <1>2, <2>1, <2>2
<1> DEFINE m == c \o b
<1> HIDE DEF c
<1>6. /\ m \in Seq(Entry) /\ Len(m) = Len(c) + Len(b)
      /\ \A i \in 1..Len(c) + Len(b) : m[i] = IF i <= Len(c) THEN c[i] ELSE b[i - Len(c)]
  BY <1>3, <1>5, ConcatProperties
<1>7. m = InsertAt(l, p, e)
  BY DEF InsertAt, a, b, c
<1> HIDE DEF m
<1>8. Len(m) = Len(l) + 1
  BY <1>1, <1>3, <1>5, <1>6
<1>9. m[p] = e
  <2>1. p \in 1..Len(c) + Len(b) /\ p <= Len(c) /\ p \in 1..p /\ ~(p <= p - 1)
    BY <1>1, <1>3, <1>5
  <2>2. QED
    BY <1>5, <1>6, <2>1
<1>10. ASSUME NEW i \in 1..p - 1 PROVE m[i] = l[i]
  <2>1. i \in 1..Len(c) + Len(b) /\ i <= Len(c) /\ i \in 1..p /\ i <= p - 1
    BY <1>1, <1>3, <1>5
  <2>2. QED
    BY <1>5, <1>6, <2>1
<1>11. ASSUME NEW i \in p..Len(l) PROVE m[i + 1] = l[i]
  <2> DEFINE j == i + 1
             k == j - Len(c)
  <2>1. /\ j \in 1..Len(c) + Len(b) /\ ~(j <= Len(c))
        /\ k \in 1..Len(l) - p + 1 /\ p + k - 1 = i
    BY <1>1, <1>3, <1>5
  <2> HIDE DEF j
  <2>2. m[j] = b[k]
    BY <1>6, <2>1
  <2> HIDE DEF k
  <2>3. b[k] = l[p + k - 1]
    BY <1>3, <2>1
  <2>4. m[j] = l[i]
    BY <2>1, <2>2, <2>3
  <2>5. QED
    BY <2>4 DEF j
<1>12. QED
  BY <1>6, <1>7, <1>8, <1>9, <1>10, <1>11 DEF PutAt

-----------------------------------------------------------------------------
(* The list                                                                *)

\* What a row adds to what was seen.
With(S, q) == S \cup {<<q.sql, q.sec>>}

\* A row raises the time of its statement.
LEMMA RaiseKeeps ==
    ASSUME NEW l, NEW S, Kept(l, S), NEW q \in Entry, least \in Nat, SameText(l, q) # {}
    PROVE  Kept(InsertOne(l, q), With(S, q))
<1> DEFINE p == First(SameText(l, q))
           sec == IF q.sec > l[p].sec THEN q.sec ELSE l[p].sec
           m == InsertOne(l, q)
<1>1. /\ l \in Seq(Entry) /\ Len(l) \in Nat /\ DOMAIN l = 1..Len(l)
      /\ \A i \in DOMAIN l : l[i] \in Entry /\ l[i].sec \in Nat /\ l[i].sql \in Sqls
  BY EntryOf DEF Kept
<1>2. p \in DOMAIN l /\ l[p].sql = q.sql
  <2>1. SameText(l, q) \subseteq Nat
    BY <1>1 DEF SameText
  <2>2. p \in SameText(l, q)
    BY <2>1, FirstOf
  <2>3. QED
    BY <2>2 DEF SameText
<1>3. m = [l EXCEPT ![p].sec = IF q.sec > @ THEN q.sec ELSE @]
  BY DEF InsertOne
<1> HIDE DEF p
<1>4. q.sec \in 1..MaxSecond /\ q.sec \in Nat /\ l[p].sec \in Nat /\ l[p].sec \in 1..MaxSecond
  BY <1>1, <1>2, MonitorAssumption DEF Entry
<1>5. l[p] = [sql |-> l[p].sql, sec |-> l[p].sec]
  BY <1>1, <1>2 DEF Entry
<1>6. /\ DOMAIN m = DOMAIN l
      /\ \A i \in DOMAIN l : m[i] = IF i = p THEN [sql |-> q.sql, sec |-> sec] ELSE l[i]
  BY <1>2, <1>3, <1>5
<1> HIDE DEF m
<1>7. sec \in 1..MaxSecond /\ sec \in Nat /\ sec >= l[p].sec /\ sec >= q.sec
  BY <1>4
<1>8. m \in Seq(Entry)
  <2>1. \A i \in 1..Len(l) : m[i] \in Entry
    BY <1>1, <1>6, <1>7 DEF Entry
  <2>2. m \in [1..Len(l) -> Entry]
    BY <1>1, <1>3, <1>6, <2>1 DEF m
  <2>3. QED
    BY <1>1, <2>2, SeqDef
<1> DEFINE f == [i \in DOMAIN l |-> i]
<1>9. f \in [DOMAIN l -> DOMAIN m] /\ \A i, j \in DOMAIN l : f[i] = f[j] => i = j
  BY <1>6
<1>10. \A i \in DOMAIN l : m[f[i]].sec >= l[i].sec /\ m[f[i]].sql = l[i].sql
  BY <1>1, <1>2, <1>6, <1>7
<1>11. \A i, j \in DOMAIN m : m[i].sql = m[j].sql => i = j
  BY <1>2, <1>6 DEF Kept
<1>12. ASSUME NEW i \in DOMAIN m
       PROVE  \E v \in Nat : <<m[i].sql, v>> \in With(S, q) /\ m[i].sec <= v
  <2>1. PICK v \in Nat : <<l[i].sql, v>> \in S /\ l[i].sec <= v
    BY <1>6 DEF Kept
  <2>2. CASE i = p /\ q.sec > l[p].sec
    BY <1>4, <1>6, <2>2 DEF With
  <2>3. CASE ~(i = p /\ q.sec > l[p].sec)
    <3>1. m[i].sec = l[i].sec /\ m[i].sql = l[i].sql
      BY <1>2, <1>6, <2>3
    <3>2. QED
      BY <2>1, <3>1 DEF With
  <2>4. QED
    BY <2>2, <2>3
<1>13. ASSUME NEW s \in Sqls, NEW v \in Nat, <<s, v>> \in With(S, q) \ S
       PROVE  (\E i \in DOMAIN m : m[i].sql = s /\ m[i].sec >= v) \/ Enough(m, v)
  <2>1. s = q.sql /\ v = q.sec
    BY <1>13 DEF With
  <2>2. QED
    BY <1>2, <1>6, <1>7, <2>1
<1>14. S \subseteq With(S, q)
  BY DEF With
<1> HIDE DEF f
<1>15. Moves(l, m, f)
  BY <1>9, <1>10 DEF Moves
<1>16. QED
  BY <1>8, <1>15, <1>11, <1>12, <1>13, <1>14, KeptMoves DEF m

\* A row whose statement is new goes before the first that does not last longer.
LEMMA PutKeeps ==
    ASSUME NEW l, NEW S, Kept(l, S), NEW q \in Entry, least \in Nat, SameText(l, q) = {},
           NEW p \in 1..Len(l) + 1, NEW m, PutAt(m, l, p, q)
    PROVE  Kept(m, With(S, q))
<1>0. /\ m \in Seq(Entry) /\ Len(m) = Len(l) + 1 /\ m[p] = q
      /\ \A i \in 1..p - 1 : m[i] = l[i]
      /\ \A i \in p..Len(l) : m[i + 1] = l[i]
  BY DEF PutAt
<1>1. /\ l \in Seq(Entry) /\ Len(l) \in Nat /\ DOMAIN l = 1..Len(l) /\ DOMAIN m = 1..Len(l) + 1
      /\ \A i \in DOMAIN l : l[i] \in Entry /\ l[i].sec \in Nat /\ l[i].sql \in Sqls
  BY <1>0, EntryOf DEF Kept
<1>2. \A i \in DOMAIN l : l[i].sql # q.sql
  BY DEF SameText
<1>3. q.sec \in Nat
  BY MonitorAssumption DEF Entry
<1> DEFINE f == [i \in DOMAIN l |-> IF i < p THEN i ELSE i + 1]
<1>4. /\ f \in [DOMAIN l -> DOMAIN m] /\ \A i, j \in DOMAIN l : f[i] = f[j] => i = j
      /\ \A i \in DOMAIN l : f[i] # p
  BY <1>1
<1>5. \A i \in DOMAIN l : m[f[i]] = l[i]
  <2> SUFFICES ASSUME NEW i \in DOMAIN l PROVE m[f[i]] = l[i]
    OBVIOUS
  <2>1. CASE i < p
    <3>1. f[i] = i /\ i \in 1..p - 1
      BY <1>1, <2>1
    <3>2. QED
      BY <1>0, <3>1
  <2>2. CASE ~(i < p)
    <3>1. f[i] = i + 1 /\ i \in p..Len(l)
      BY <1>1, <2>2
    <3>2. QED
      BY <1>0, <3>1
  <2>3. QED
    BY <2>1, <2>2
<1>6. \A k \in DOMAIN m : k = p \/ \E i \in DOMAIN l : f[i] = k
  <2> SUFFICES ASSUME NEW k \in DOMAIN m, k # p PROVE \E i \in DOMAIN l : f[i] = k
    OBVIOUS
  <2>1. CASE k < p
    <3>1. k \in DOMAIN l /\ f[k] = k
      BY <1>1, <2>1
    <3>2. QED
      BY <3>1
  <2>2. CASE k > p
    <3>1. k - 1 \in DOMAIN l /\ ~(k - 1 < p) /\ (k - 1) + 1 = k
      BY <1>1, <2>2
    <3>2. f[k - 1] = k
      BY <3>1
    <3>3. QED
      BY <3>1, <3>2
  <2>3. QED
    BY <1>1, <2>1, <2>2
<1> HIDE DEF f
<1>7. \A i \in DOMAIN l : m[f[i]].sec >= l[i].sec /\ m[f[i]].sql = l[i].sql
  BY <1>1, <1>5
<1>8. \A i, j \in DOMAIN m : m[i].sql = m[j].sql => i = j
  <2>1. \A i, j \in DOMAIN l : l[i].sql = l[j].sql => i = j
    BY DEF Kept
  <2> SUFFICES ASSUME NEW k \in DOMAIN m, NEW n \in DOMAIN m, m[k].sql = m[n].sql PROVE k = n
    OBVIOUS
  <2>2. CASE k = p \/ n = p
    <3>1. \A i \in DOMAIN l : m[f[i]].sql # q.sql
      BY <1>2, <1>5
    <3>2. \A i \in DOMAIN m : i # p => m[i].sql # q.sql
      BY <1>6, <3>1
    <3>3. QED
      BY <1>0, <2>2, <3>2
  <2>3. CASE k # p /\ n # p
    <3>1. PICK i \in DOMAIN l, j \in DOMAIN l : f[i] = k /\ f[j] = n
      BY <1>6, <2>3
    <3>2. l[i].sql = l[j].sql
      BY <1>5, <3>1
    <3>3. QED
      BY <2>1, <3>1, <3>2
  <2>4. QED
    BY <2>2, <2>3
<1>9. ASSUME NEW k \in DOMAIN m
      PROVE  \E v \in Nat : <<m[k].sql, v>> \in With(S, q) /\ m[k].sec <= v
  <2>1. CASE k = p
    BY <1>0, <1>3, <2>1 DEF With
  <2>2. CASE k # p
    <3>1. PICK i \in DOMAIN l : m[k] = l[i]
      BY <1>5, <1>6, <2>2
    <3>2. PICK v \in Nat : <<l[i].sql, v>> \in S /\ l[i].sec <= v
      BY DEF Kept
    <3>3. QED
      BY <3>1, <3>2 DEF With
  <2>3. QED
    BY <2>1, <2>2
<1>10. ASSUME NEW s \in Sqls, NEW v \in Nat, <<s, v>> \in With(S, q) \ S
       PROVE  (\E i \in DOMAIN m : m[i].sql = s /\ m[i].sec >= v) \/ Enough(m, v)
  <2>1. s = q.sql /\ v = q.sec /\ p \in DOMAIN m
    BY <1>1, <1>10 DEF With
  <2>2. QED
    BY <1>0, <1>3, <2>1
<1>11. S \subseteq With(S, q)
  BY DEF With
<1>12. Moves(l, m, f)
  BY <1>4, <1>7 DEF Moves
<1>13. m \in Seq(Entry)
  BY <1>0
<1>14. QED
  BY <1>8, <1>9, <1>10, <1>11, <1>12, <1>13, KeptMoves

\* A row that is left out has a list of longer ones before it that is full.
LEMMA InsertOneKeeps ==
    ASSUME NEW l, NEW S, Kept(l, S), NEW q \in Entry, m_iMaxQueryCount \in Nat, least \in Nat,
           least <= m_iMaxQueryCount
    PROVE  Kept(InsertOne(l, q), With(S, q))
<1>1. /\ l \in Seq(Entry) /\ Len(l) \in Nat /\ DOMAIN l = 1..Len(l)
      /\ \A i \in DOMAIN l : l[i] \in Entry /\ l[i].sec \in Nat /\ l[i].sql \in Sqls
      /\ Cardinality(DOMAIN l) = Len(l)
  BY EntryOf DEF Kept
<1>2. q.sec \in Nat
  BY MonitorAssumption DEF Entry
<1>3. CASE SameText(l, q) # {}
  BY <1>3, RaiseKeeps
<1>4. CASE SameText(l, q) = {} /\ NotLonger(l, q) # {}
  <2> DEFINE p == First(NotLonger(l, q))
  <2>1. p \in 1..Len(l)
    <3>1. NotLonger(l, q) \subseteq 1..Len(l)
      BY <1>1 DEF NotLonger
    <3>2. NotLonger(l, q) \subseteq Nat
      BY <3>1
    <3>3. p \in NotLonger(l, q)
      BY <1>4, <3>2, FirstOf
    <3>4. QED
      BY <3>1, <3>3
  <2>2. InsertOne(l, q) = InsertAt(l, p, q)
    BY <1>4 DEF InsertOne, InsertNew
  <2> HIDE DEF p
  <2>3. PutAt(InsertAt(l, p, q), l, p, q)
    BY <1>1, <2>1, InsertAtPuts
  <2>4. p \in 1..Len(l) + 1
    BY <1>1, <2>1
  <2>5. QED
    BY <1>4, <2>2, <2>3, <2>4, PutKeeps
<1>5. CASE SameText(l, q) = {} /\ NotLonger(l, q) = {} /\ m_iMaxQueryCount > Len(l)
  <2> DEFINE m == Append(l, q)
  <2>1. InsertOne(l, q) = m
    BY <1>5 DEF InsertOne, InsertNew
  <2>2. /\ m \in Seq(Entry) /\ Len(m) = Len(l) + 1 /\ m[Len(l) + 1] = q
        /\ \A i \in 1..Len(l) : m[i] = l[i]
    BY <1>1, AppendProperties
  <2> HIDE DEF m
  <2>3. Len(l) + 1 \in 1..Len(l) + 1 /\ PutAt(m, l, Len(l) + 1, q)
    BY <1>1, <2>2 DEF PutAt
  <2>4. Kept(m, With(S, q))
    BY <1>5, <2>3, PutKeeps
  <2>5. QED
    BY <2>1, <2>4
<1>6. CASE SameText(l, q) = {} /\ NotLonger(l, q) = {} /\ ~(m_iMaxQueryCount > Len(l))
  <2>1. InsertOne(l, q) = l
    BY <1>6 DEF InsertOne, InsertNew
  <2>2. Enough(l, q.sec)
    <3>1. \A i \in DOMAIN l : l[i].sec >= q.sec
      BY <1>1, <1>2, <1>6 DEF NotLonger
    <3>2. {i \in DOMAIN l : l[i].sec >= q.sec} = DOMAIN l
      BY <3>1
    <3>3. Cardinality(DOMAIN l) >= least
      BY <1>1, <1>6
    <3>4. QED
      BY <3>2, <3>3 DEF Enough
  <2>3. \A s, v : <<s, v>> \in With(S, q) => <<s, v>> \in S \/ v = q.sec
    BY DEF With
  <2>4. QED
    BY <2>1, <2>2, <2>3 DEF Kept, With
<1>7. QED
  BY <1>3, <1>4, <1>5, <1>6

\* The statements of the first rows of a batch, with their times.
Told(batch, n) == {<<batch[i].sql, batch[i].sec>> : i \in 1..n}

\* A batch is a sequence of entries.
LEMMA BatchRows ==
    ASSUME NEW batch \in Batches
    PROVE  /\ batch \in Seq(Entry) /\ Len(batch) \in Nat /\ DOMAIN batch = 1..Len(batch)
           /\ \A i \in DOMAIN batch :
                batch[i] \in Entry /\ batch[i].sec \in 1..MaxSecond /\ batch[i].sec \in Nat
<1>1. PICK n \in 0..MaxBatch : batch \in [1..n -> Entry]
  BY DEF Batches
<1>2. n \in Nat
  BY <1>1, MonitorAssumption
<1>3. batch \in Seq(Entry)
  BY <1>1, <1>2, SeqDef
<1>4. Len(batch) \in Nat /\ DOMAIN batch = 1..Len(batch)
  BY <1>3, LenProperties
<1>5. ASSUME NEW i \in DOMAIN batch
      PROVE  batch[i] \in Entry /\ batch[i].sec \in 1..MaxSecond /\ batch[i].sec \in Nat
  <2>1. batch[i] \in Entry
    BY <1>3, <1>4, ElementOfSeq
  <2>2. batch[i].sec \in 1..MaxSecond
    BY <2>1 DEF Entry
  <2>3. QED
    BY <2>1, <2>2, MonitorAssumption
<1>6. QED
  BY <1>3, <1>4, <1>5

\* The rows of a batch, one after the other: there is no first that breaks the list.
LEMMA BatchKeeps ==
    ASSUME NEW l, NEW S, Kept(l, S), NEW batch \in Batches, m_iMaxQueryCount \in Nat,
           least \in Nat, least <= m_iMaxQueryCount
    PROVE  Kept(Inserted(l, batch)[Len(batch)], S \cup Told(batch, Len(batch)))
<1> DEFINE after == Inserted(l, batch)
           bad == {n \in 0..Len(batch) : ~Kept(after[n], S \cup Told(batch, n))}
<1>1. Len(batch) \in Nat /\ \A i \in 1..Len(batch) : batch[i] \in Entry
  BY BatchRows
<1>2. /\ after[0] = l
      /\ \A n \in 1..Len(batch) : after[n] = InsertOne(after[n - 1], batch[n])
  BY <1>1, InsertedRows
<1> HIDE DEF after
<1>3. bad = {}
  <2> SUFFICES ASSUME bad # {} PROVE FALSE
    OBVIOUS
  <2>1. PICK n \in bad : \A k \in bad : n <= k
    <3>1. bad \subseteq Nat
      BY <1>1
    <3> HIDE DEF bad
    <3>2. QED
      BY <3>1, LeastExists
  <2>2. n # 0
    <3>1. Told(batch, 0) = {}
      BY DEF Told
    <3>2. S \cup Told(batch, 0) = S
      BY <3>1
    <3>3. Kept(after[0], S \cup Told(batch, 0))
      BY <1>2, <3>2
    <3>4. QED
      BY <2>1, <3>3
  <2>3. n - 1 \in 0..Len(batch) /\ n \in 1..Len(batch) /\ ~(n <= n - 1)
    BY <1>1, <2>1, <2>2
  <2>4. Kept(after[n - 1], S \cup Told(batch, n - 1))
    BY <2>1, <2>3
  <2>5. Kept(after[n], With(S \cup Told(batch, n - 1), batch[n]))
    <3>1. Kept(InsertOne(after[n - 1], batch[n]), With(S \cup Told(batch, n - 1), batch[n]))
      BY <1>1, <2>3, <2>4, InsertOneKeeps
    <3>2. QED
      BY <1>2, <2>3, <3>1
  <2>6. With(S \cup Told(batch, n - 1), batch[n]) = S \cup Told(batch, n)
    <3>1. \A i : i \in 1..n <=> i \in 1..n - 1 \/ i = n
      BY <1>1, <2>3
    <3>2. QED
      BY <3>1 DEF With, Told
  <2>7. QED
    BY <2>1, <2>5, <2>6
<1>4. Len(batch) \in 0..Len(batch)
  BY <1>1
<1>5. QED
  BY <1>3, <1>4 DEF after

-----------------------------------------------------------------------------
(* The order                                                               *)

\* No entry lasts longer than one before it.
Down(l) == \A i, j \in DOMAIN l : i <= j => l[i].sec >= l[j].sec

\* The entries an entry comes behind, with itself.
Above(l, i) == {j \in DOMAIN l : l[j].sec > l[i].sec \/ (l[j].sec = l[i].sec /\ j <= i)}

\* A longer entry, or one as long before it, gets a smaller place.
LEMMA RankOrders ==
    ASSUME NEW l \in Seq(Entry), NEW i \in DOMAIN l, NEW j \in DOMAIN l,
           l[i].sec > l[j].sec \/ (l[i].sec = l[j].sec /\ i < j)
    PROVE  Rank(l, i) < Rank(l, j)
<1>1. /\ IsFiniteSet(DOMAIN l)
      /\ \A k \in DOMAIN l : l[k].sec \in Nat /\ k \in Nat
  BY EntryOf
<1>2. Above(l, i) \subseteq Above(l, j)
  BY <1>1 DEF Above
<1>3. j \in Above(l, j) /\ j \notin Above(l, i)
  BY <1>1 DEF Above
<1>4. Above(l, j) \subseteq DOMAIN l
  BY DEF Above
<1>5. IsFiniteSet(Above(l, j))
  BY <1>1, <1>4, FS_Subset
<1>6. /\ Cardinality(Above(l, i)) <= Cardinality(Above(l, j))
      /\ Cardinality(Above(l, i)) # Cardinality(Above(l, j))
      /\ IsFiniteSet(Above(l, i))
  BY <1>2, <1>3, <1>5, FS_Subset
<1>7. Cardinality(Above(l, i)) \in Nat /\ Cardinality(Above(l, j)) \in Nat
  BY <1>5, <1>6, FS_CardinalityType
<1>8. Rank(l, i) = Cardinality(Above(l, i)) /\ Rank(l, j) = Cardinality(Above(l, j))
  BY DEF Rank, Above
<1>9. QED
  BY <1>6, <1>7, <1>8

\* Each entry has a place of its own in the list.
LEMMA RankIsPlace ==
    ASSUME NEW l \in Seq(Entry)
    PROVE  /\ \A i \in DOMAIN l : Rank(l, i) \in DOMAIN l
           /\ \A i, j \in DOMAIN l : Rank(l, i) = Rank(l, j) => i = j
           /\ \A k \in DOMAIN l : \E i \in DOMAIN l : Rank(l, i) = k
<1>1. /\ IsFiniteSet(DOMAIN l) /\ Len(l) \in Nat /\ DOMAIN l = 1..Len(l)
      /\ Cardinality(DOMAIN l) = Len(l)
      /\ \A i \in DOMAIN l : l[i].sec \in Nat /\ i \in Nat
  BY EntryOf
<1>2. ASSUME NEW i \in DOMAIN l PROVE Rank(l, i) \in DOMAIN l
  <2>1. Above(l, i) \subseteq DOMAIN l /\ i \in Above(l, i)
    BY <1>1 DEF Above
  <2>2. IsFiniteSet(Above(l, i)) /\ Cardinality(Above(l, i)) <= Len(l)
    BY <1>1, <2>1, FS_Subset
  <2>3. Cardinality(Above(l, i)) # 0
    BY <2>1, <2>2, FS_EmptySet
  <2>4. Cardinality(Above(l, i)) \in Nat
    BY <2>2, FS_CardinalityType
  <2>5. Cardinality(Above(l, i)) \in 1..Len(l)
    BY <1>1, <2>2, <2>3, <2>4
  <2>6. QED
    BY <1>1, <2>5 DEF Rank, Above
<1>3. ASSUME NEW i \in DOMAIN l, NEW j \in DOMAIN l, i # j
      PROVE  Rank(l, i) # Rank(l, j)
  <2>1. \/ l[i].sec > l[j].sec \/ (l[i].sec = l[j].sec /\ i < j)
        \/ l[j].sec > l[i].sec \/ (l[j].sec = l[i].sec /\ j < i)
    BY <1>1, <1>3
  <2>2. Rank(l, i) < Rank(l, j) \/ Rank(l, j) < Rank(l, i)
    BY <2>1, RankOrders
  <2>3. Rank(l, i) \in Nat /\ Rank(l, j) \in Nat
    BY <1>1, <1>2
  <2>4. QED
    BY <2>2, <2>3
<1> DEFINE f == [i \in DOMAIN l |-> Rank(l, i)]
<1>4. f \in Injection(DOMAIN l, DOMAIN l)
  BY <1>2, <1>3 DEF Injection, IsInjective
<1>5. f \in Surjection(DOMAIN l, DOMAIN l)
  <2> HIDE DEF f
  <2>1. QED
    BY <1>1, <1>4, FS_Injection
<1>6. \A k \in DOMAIN l : \E i \in DOMAIN l : Rank(l, i) = k
  BY <1>5 DEF Surjection
<1>7. QED
  BY <1>2, <1>3, <1>6

\* The sorted list has every entry at its place, in order.
LEMMA SortedKeeps ==
    ASSUME NEW l, NEW S, Kept(l, S), least \in Nat
    PROVE  Kept(Sorted(l), S) /\ Down(Sorted(l))
<1> DEFINE m == Sorted(l)
           from(k) == CHOOSE i \in DOMAIN l : Rank(l, i) = k
           f == [i \in DOMAIN l |-> Rank(l, i)]
<1>1. /\ l \in Seq(Entry) /\ Len(l) \in Nat /\ DOMAIN l = 1..Len(l)
      /\ \A i \in DOMAIN l : l[i] \in Entry /\ l[i].sec \in Nat /\ i \in Nat
  BY EntryOf DEF Kept
<1>2. /\ \A i \in DOMAIN l : Rank(l, i) \in DOMAIN l
      /\ \A i, j \in DOMAIN l : Rank(l, i) = Rank(l, j) => i = j
      /\ \A k \in DOMAIN l : \E i \in DOMAIN l : Rank(l, i) = k
  BY <1>1, RankIsPlace
<1>3. \A k \in DOMAIN l : from(k) \in DOMAIN l /\ Rank(l, from(k)) = k
  BY <1>2
<1>4. m = [k \in DOMAIN l |-> l[from(k)]]
  BY DEF Sorted
<1> HIDE DEF m, from
<1>5. DOMAIN m = DOMAIN l /\ \A k \in DOMAIN l : m[k] = l[from(k)]
  BY <1>4
<1>6. m \in Seq(Entry)
  <2>1. m \in [1..Len(l) -> Entry]
    BY <1>1, <1>3, <1>4
  <2>2. QED
    BY <1>1, <2>1, SeqDef
<1>7. \A i \in DOMAIN l : m[Rank(l, i)] = l[i]
  BY <1>2, <1>3, <1>5
<1>8. Moves(l, m, f)
  <2>1. f \in [DOMAIN l -> DOMAIN m] /\ \A i \in DOMAIN l : f[i] = Rank(l, i)
    BY <1>2, <1>5
  <2> HIDE DEF f
  <2>2. QED
    BY <1>1, <1>2, <1>7, <2>1 DEF Moves
<1>9. \A i, j \in DOMAIN m : m[i].sql = m[j].sql => i = j
  BY <1>3, <1>5 DEF Kept
<1>10. \A i \in DOMAIN m : \E v \in Nat : <<m[i].sql, v>> \in S /\ m[i].sec <= v
  BY <1>3, <1>5 DEF Kept
<1>11. Kept(m, S)
  <2>1. S \subseteq S /\ S \ S = {}
    OBVIOUS
  <2> HIDE DEF f
  <2>2. QED
    BY <1>6, <1>8, <1>9, <1>10, <2>1, KeptMoves
<1>12. Down(m)
  <2> SUFFICES ASSUME NEW i \in DOMAIN m, NEW j \in DOMAIN m, i <= j, ~(m[i].sec >= m[j].sec)
               PROVE  FALSE
    BY DEF Down
  <2>1. /\ from(i) \in DOMAIN l /\ from(j) \in DOMAIN l
        /\ Rank(l, from(i)) = i /\ Rank(l, from(j)) = j
    BY <1>3, <1>5
  <2>2. l[from(j)].sec > l[from(i)].sec
    BY <1>1, <1>5, <2>1
  <2>3. j < i
    BY <1>1, <2>1, <2>2, RankOrders
  <2>4. QED
    BY <1>1, <1>5, <2>3
<1>13. QED
  BY <1>11, <1>12 DEF m

\* In a list in order the entries that last long enough are the first.
LEMMA EnoughFirst ==
    ASSUME NEW l \in Seq(Entry), Down(l), NEW v \in Nat, least \in Nat, least >= 1
    PROVE  Enough(l, v) <=> least <= Len(l) /\ \A i \in 1..least : l[i].sec >= v
<1> DEFINE B == {i \in DOMAIN l : l[i].sec >= v}
<1>1. /\ Len(l) \in Nat /\ DOMAIN l = 1..Len(l) /\ IsFiniteSet(DOMAIN l)
      /\ Cardinality(DOMAIN l) = Len(l)
      /\ \A i \in DOMAIN l : l[i].sec \in Nat
      /\ IsFiniteSet(B) /\ Cardinality(B) \in Nat
  BY EntryOf
<1>2. B \subseteq DOMAIN l
  OBVIOUS
<1>3. ASSUME least <= Len(l), \A i \in 1..least : l[i].sec >= v
      PROVE  Cardinality(B) >= least
  <2>1. 1..least \subseteq B
    BY <1>1, <1>3
  <2>2. Cardinality(1..least) = least
    BY FS_Interval
  <2> HIDE DEF B
  <2>3. Cardinality(1..least) <= Cardinality(B)
    BY <1>1, <2>1, FS_Subset
  <2>4. QED
    BY <1>1, <2>2, <2>3
<1>4. ASSUME Cardinality(B) >= least
      PROVE  least <= Len(l)
  <2> HIDE DEF B
  <2>1. Cardinality(B) <= Len(l)
    BY <1>1, <1>2, FS_Subset
  <2>2. QED
    BY <1>1, <1>4, <2>1
<1>5. ASSUME Cardinality(B) >= least, NEW i \in 1..least, ~(l[i].sec >= v)
      PROVE  FALSE
  <2>1. i \in DOMAIN l /\ i \in Nat /\ i - 1 \in Int
    BY <1>1, <1>4, <1>5
  <2>2. B \subseteq 1..i - 1
    <3> SUFFICES ASSUME NEW j \in B, ~(j <= i - 1) PROVE FALSE
      BY <1>1
    <3>1. j \in DOMAIN l /\ l[j].sec >= v /\ i <= j
      BY <1>1, <2>1
    <3>2. l[i].sec >= l[j].sec
      BY <2>1, <3>1 DEF Down
    <3>3. QED
      BY <1>1, <1>5, <2>1, <3>1, <3>2
  <2>3. IsFiniteSet(1..i - 1) /\ Cardinality(1..i - 1) = i - 1
    <3>1. PICK k \in Int : k = i - 1
      BY <2>1
    <3>2. IsFiniteSet(1..k) /\ Cardinality(1..k) = IF 1 > k THEN 0 ELSE k - 1 + 1
      BY FS_Interval
    <3>3. k >= 0
      BY <1>5, <3>1
    <3>4. Cardinality(1..k) = k
      BY <3>2, <3>3
    <3>5. QED
      BY <3>1, <3>2, <3>4
  <2> HIDE DEF B
  <2>4. Cardinality(B) <= i - 1
    BY <2>2, <2>3, FS_Subset
  <2>5. QED
    BY <1>1, <1>5, <2>1, <2>4
<1>6. QED
  BY <1>3, <1>4, <1>5 DEF Enough

\* The list is cut behind what it was ever restricted to.
LEMMA CutKeeps ==
    ASSUME NEW l, NEW S, Kept(l, S), Down(l), m_iMaxQueryCount \in Nat, least \in Nat,
           least >= 1, least <= m_iMaxQueryCount
    PROVE  Kept(Cut(l), S) /\ Down(Cut(l))
<1> DEFINE m == Cut(l)
<1>1. /\ l \in Seq(Entry) /\ Len(l) \in Nat /\ DOMAIN l = 1..Len(l)
      /\ \A i \in DOMAIN l : l[i] \in Entry /\ l[i].sec \in Nat
  BY EntryOf DEF Kept
<1> DEFINE n == Len(l)
<1>0. n \in Nat
  BY <1>1
<1>2. PICK c \in Nat : c <= n /\ (c = n \/ least <= c) /\ Cut(l) = SubSeq(l, 1, c)
  <2>1. CASE Len(l) < m_iMaxQueryCount
    <3>1. Cut(l) = SubSeq(l, 1, n)
      BY <2>1 DEF Cut
    <3> HIDE DEF n
    <3>2. QED
      BY <1>0, <3>1
  <2>2. CASE ~(Len(l) < m_iMaxQueryCount)
    <3>1. Cut(l) = SubSeq(l, 1, m_iMaxQueryCount)
      BY <2>2 DEF Cut
    <3>2. m_iMaxQueryCount <= Len(l)
      BY <1>1, <2>2
    <3>3. QED
      BY <3>1, <3>2
  <2>3. QED
    BY <2>1, <2>2
<1>3. m = SubSeq(l, 1, c)
  BY <1>2
<1>11. DOMAIN l = 1..n
  BY <1>1
<1> HIDE DEF m, n
<1>4. /\ m \in Seq(Entry) /\ Len(m) = c /\ DOMAIN m = 1..c
      /\ \A i \in 1..c : m[i] = l[i] /\ i \in DOMAIN l
  <2>1. ASSUME NEW i \in 1..c PROVE i \in DOMAIN l /\ l[i] \in Entry
    <3>1. i \in Nat /\ 1 <= i /\ i <= c
      BY <1>2
    <3>2. i <= n
      BY <1>0, <1>2, <3>1
    <3>3. i \in 1..Len(l)
      BY <1>0, <1>11, <3>1, <3>2 DEF n
    <3>4. QED
      BY <1>1, <3>3
  <2>2. 1 \in Int /\ c \in Int
    BY <1>2
  <2>3. /\ m \in Seq(Entry) /\ Len(m) = IF 1 <= c THEN c - 1 + 1 ELSE 0
        /\ \A i \in 1..c - 1 + 1 : m[i] = l[1 + i - 1]
    BY <1>3, <2>1, <2>2, SubSeqProperties
  <2>4. Len(m) = c /\ \A i \in 1..c : m[i] = l[i]
    BY <1>2, <2>3
  <2>5. DOMAIN m = 1..Len(m)
    BY <2>3, LenProperties
  <2>6. QED
    BY <2>1, <2>3, <2>4, <2>5
<1>5. Down(m)
  BY <1>4 DEF Down
<1>6. ASSUME NEW v \in Nat, Enough(l, v) PROVE Enough(m, v)
  <2>1. least <= Len(l) /\ \A i \in 1..least : l[i].sec >= v
    BY <1>1, <1>6, EnoughFirst
  <2>2. least <= c
    BY <1>2, <2>1 DEF n
  <2>3. \A i \in 1..least : m[i].sec >= v
    BY <1>2, <1>4, <2>1, <2>2
  <2>4. QED
    BY <1>4, <1>5, <2>2, <2>3, EnoughFirst
<1>7. ASSUME NEW s \in Sqls, NEW v \in Nat, <<s, v>> \in S
      PROVE  (\E i \in DOMAIN m : m[i].sql = s /\ m[i].sec >= v) \/ Enough(m, v)
  <2>1. CASE Enough(l, v)
    BY <1>6, <2>1
  <2>2. CASE \E i \in DOMAIN l : l[i].sql = s /\ l[i].sec >= v
    <3>1. PICK i \in DOMAIN l : l[i].sql = s /\ l[i].sec >= v
      BY <2>2
    <3>2. CASE i <= c
      <4>1. i \in 1..c
        BY <1>1, <3>2
      <4>2. QED
        BY <1>4, <3>1, <4>1
    <3>3. CASE ~(i <= c)
      <4>1. least <= c
        <5>1. i <= n /\ i \in Nat
          BY <1>0, <1>11, <3>1
        <5>2. QED
          BY <1>0, <1>2, <3>3, <5>1
      <4>2. ASSUME NEW j \in 1..least PROVE m[j].sec >= v
        <5>1. j \in 1..c /\ j \in DOMAIN l /\ j <= i
          <6>1. j \in 1..c
            BY <1>2, <4>1
          <6>2. i \in Nat /\ j \in Nat /\ j <= c /\ c < i
            BY <1>11, <1>2, <3>1, <3>3, <6>1
          <6>3. j <= i
            BY <1>2, <6>2
          <6>4. QED
            BY <1>4, <6>1, <6>3
        <5>2. l[j].sec >= l[i].sec
          BY <5>1 DEF Down
        <5>3. m[j] = l[j]
          BY <1>4, <5>1
        <5>4. l[j].sec \in Nat /\ l[i].sec \in Nat
          BY <1>1, <5>1
        <5>5. QED
          BY <3>1, <5>2, <5>3, <5>4
      <4>3. QED
        BY <1>4, <1>5, <4>1, <4>2, EnoughFirst
    <3>4. QED
      BY <3>2, <3>3
  <2>3. QED
    BY <1>7, <2>1, <2>2 DEF Kept
<1>8. \A i, j \in DOMAIN m : m[i].sql = m[j].sql => i = j
  BY <1>4 DEF Kept
<1>9. \A i \in DOMAIN m : \E v \in Nat : <<m[i].sql, v>> \in S /\ m[i].sec <= v
  BY <1>4 DEF Kept
<1>10. Kept(m, S)
  BY <1>4, <1>7, <1>8, <1>9 DEF Kept
<1>12. QED
  BY <1>5, <1>10 DEF m

-----------------------------------------------------------------------------
(* What is remembered                                                      *)

\* The statements seen since the last clear with their longest times.
SeenOf(lg) == {<<s, lg[s]>> : s \in {u \in Sqls : lg[u] > 0}}

\* The longest time of every statement is what the rows and the past say.
LEMMA RaisedIsLongest ==
    ASSUME longest \in [Sqls -> 0..MaxSecond], NEW batch \in Batches, NEW l,
           Kept(l, SeenOf(longest) \cup Told(batch, Len(batch)))
    PROVE  Raised(batch) \in [Sqls -> 0..MaxSecond] /\ Kept(l, SeenOf(Raised(batch)))
<1> DEFINE times(s) == {batch[i].sec : i \in {j \in DOMAIN batch : batch[j].sql = s}}
           all(s) == times(s) \cup {longest[s]}
           S == SeenOf(longest) \cup Told(batch, Len(batch))
<1>1. /\ Len(batch) \in Nat /\ DOMAIN batch = 1..Len(batch)
      /\ \A i \in DOMAIN batch :
           batch[i] \in Entry /\ batch[i].sec \in 1..MaxSecond /\ batch[i].sec \in Nat
  BY BatchRows
<1>2. \A s \in Sqls : longest[s] \in 0..MaxSecond /\ longest[s] \in Nat
  BY MonitorAssumption
<1>3. ASSUME NEW s \in Sqls
      PROVE  /\ Raised(batch)[s] \in all(s) /\ \A x \in all(s) : x <= Raised(batch)[s]
             /\ Raised(batch)[s] \in 0..MaxSecond
  <2>1. all(s) \subseteq 0..MaxSecond /\ all(s) # {}
    BY <1>1, <1>2
  <2>2. all(s) \subseteq Nat /\ \A x \in all(s) : x <= MaxSecond
    BY <2>1, MonitorAssumption
  <2>3. Raised(batch)[s] = CHOOSE m \in all(s) : \A x \in all(s) : x <= m
    BY DEF Raised
  <2> HIDE DEF all
  <2>4. \E m \in all(s) : \A x \in all(s) : x <= m
    BY <2>1, <2>2, MonitorAssumption, GreatestExists
  <2>5. QED
    BY <2>1, <2>3, <2>4
<1>4. Raised(batch) \in [Sqls -> 0..MaxSecond]
  <2> DEFINE r(s) == CHOOSE m \in all(s) : \A x \in all(s) : x <= m
  <2>1. Raised(batch) = [s \in Sqls |-> r(s)]
    BY DEF Raised
  <2> HIDE DEF r
  <2>2. \A s \in Sqls : r(s) \in 0..MaxSecond
    BY <1>3, <2>1
  <2>3. QED
    BY <2>1, <2>2
<1>5. ASSUME NEW s, NEW v, <<s, v>> \in S
      PROVE  s \in Sqls /\ v \in Nat /\ v <= Raised(batch)[s]
  <2>1. CASE <<s, v>> \in SeenOf(longest)
    BY <1>2, <1>3, <2>1 DEF SeenOf
  <2>2. CASE <<s, v>> \in Told(batch, Len(batch))
    <3>1. PICK i \in 1..Len(batch) : s = batch[i].sql /\ v = batch[i].sec
      BY <2>2 DEF Told
    <3>2. s \in Sqls /\ v \in Nat /\ v \in all(s)
      BY <1>1, <3>1 DEF Entry
    <3>3. QED
      BY <1>3, <3>2
  <2>3. QED
    BY <1>5, <2>1, <2>2
<1>6. ASSUME NEW s \in Sqls, NEW v, <<s, v>> \in SeenOf(Raised(batch))
      PROVE  <<s, v>> \in S
  <2>1. v = Raised(batch)[s] /\ v > 0
    BY <1>6 DEF SeenOf
  <2>2. CASE v = longest[s]
    BY <2>1, <2>2 DEF SeenOf
  <2>3. CASE v \in times(s)
    BY <1>1, <2>3 DEF Told
  <2>4. QED
    BY <1>3, <2>1, <2>2, <2>3
<1>7. Kept(l, S)
  OBVIOUS
<1> HIDE DEF S, all, times
<1>8. ASSUME NEW i \in DOMAIN l
      PROVE  \E v \in Nat : <<l[i].sql, v>> \in SeenOf(Raised(batch)) /\ l[i].sec <= v
  <2>1. PICK v \in Nat : <<l[i].sql, v>> \in S /\ l[i].sec <= v
    BY <1>7 DEF Kept
  <2>2. /\ l[i].sql \in Sqls /\ v <= Raised(batch)[l[i].sql]
        /\ Raised(batch)[l[i].sql] \in Nat
    BY <1>3, <1>5, <2>1, MonitorAssumption
  <2>3. l[i].sec \in Nat /\ l[i].sec > 0
    <3>1. l[i] \in Entry
      BY <1>7, EntryOf DEF Kept
    <3>2. QED
      BY <3>1, MonitorAssumption DEF Entry
  <2>4. Raised(batch)[l[i].sql] > 0 /\ l[i].sec <= Raised(batch)[l[i].sql]
    BY <2>1, <2>2, <2>3
  <2>5. QED
    BY <2>2, <2>4 DEF SeenOf
<1>9. QED
  BY <1>4, <1>6, <1>7, <1>8 DEF Kept

-----------------------------------------------------------------------------
(* The list of the program                                                 *)

\* The list remembers the statements since the last clear, longest first.
TopInv ==
    /\ longest \in [Sqls -> 0..MaxSecond]
    /\ Kept(list, SeenOf(longest))
    /\ Down(list)

\* A query of the process list.
LEMMA QueryTop ==
    ASSUME TypeOK, TopInv, NEW t \in Threads, Query(t)
    PROVE  TopInv'
<1>1. PICK batch \in Batches : list' = Insert(list, batch) /\ longest' = Raised(batch)
  BY DEF Query
<1>2. least' = least
  BY DEF Query
<1>3. m_iMaxQueryCount \in Nat /\ least \in Nat /\ least >= 1 /\ least <= m_iMaxQueryCount
  BY DEF TypeOK
<1> DEFINE S == SeenOf(longest) \cup Told(batch, Len(batch))
           after == Inserted(list, batch)[Len(batch)]
<1>4. Kept(after, S)
  BY <1>3, BatchKeeps DEF TopInv
<1> HIDE DEF S, after
<1>5. Kept(Sorted(after), S) /\ Down(Sorted(after))
  BY <1>3, <1>4, SortedKeeps
<1>6. Kept(Cut(Sorted(after)), S) /\ Down(Cut(Sorted(after)))
  BY <1>3, <1>5, CutKeeps
<1>7. list' = Cut(Sorted(after))
  BY <1>1 DEF Insert, after
<1>8. Kept(list', S) /\ Down(list')
  BY <1>6, <1>7
<1>9. longest' \in [Sqls -> 0..MaxSecond] /\ Kept(list', SeenOf(longest'))
  BY <1>1, <1>8, RaisedIsLongest DEF TopInv, S
<1>10. QED
  BY <1>2, <1>8, <1>9 DEF TopInv, Kept, Enough, Down, SeenOf

\* An empty list remembers what was never seen.
LEMMA EmptyTop ==
    ASSUME NEW l, l = <<>>, NEW lg, lg = [s \in Sqls |-> 0]
    PROVE  lg \in [Sqls -> 0..MaxSecond] /\ Kept(l, SeenOf(lg)) /\ Down(l)
<1>1. l \in Seq(Entry) /\ DOMAIN l = {}
  OBVIOUS
<1>2. SeenOf(lg) = {}
  BY DEF SeenOf
<1>3. lg \in [Sqls -> 0..MaxSecond]
  BY MonitorAssumption
<1>4. QED
  BY <1>1, <1>2, <1>3 DEF Kept, Down

\* Every step keeps the list.
LEMMA TopKept == TypeOK /\ TopInv /\ [Next]_vars => TopInv'
<1> SUFFICES ASSUME TypeOK, TopInv, [Next]_vars PROVE TopInv'
  OBVIOUS
<1>1. ASSUME list' = list, longest' = longest, least' \in Nat, least' <= least PROVE TopInv'
  <2>1. least \in Nat
    BY DEF TypeOK
  <2>2. \A v : Enough(list, v) => Enough(list, v)'
    <3> SUFFICES ASSUME NEW v, Enough(list, v) PROVE Enough(list, v)'
      OBVIOUS
    <3>1. Cardinality({i \in DOMAIN list : list[i].sec >= v}) \in Nat
      BY EntryOf DEF TopInv, Kept
    <3>2. Cardinality({i \in DOMAIN list : list[i].sec >= v}) >= least'
      BY <1>1, <2>1, <3>1 DEF Enough
    <3>3. QED
      BY <1>1, <3>2 DEF Enough
  <2>3. QED
    BY <1>1, <2>2 DEF TopInv, Kept, Down, SeenOf
<1>2. ASSUME UNCHANGED <<list, longest, least>> PROVE TopInv'
  BY <1>1, <1>2 DEF TypeOK
<1>3. ASSUME NEW t \in Threads, Thread(t) PROVE TopInv'
  <2>1. CASE Read(t)
    <3>1. list' = list /\ longest' = longest
      BY <2>1 DEF Read
    <3>2. least' = least \/ (least' = m_iMaxQueryCount' /\ m_iMaxQueryCount' < least)
      BY <2>1 DEF Read, TakeCount
    <3>3. least \in Nat /\ m_iMaxQueryCount' \in Nat
      BY TypeKept DEF TypeOK
    <3>4. least' \in Nat /\ least' <= least
      BY <3>2, <3>3
    <3>5. QED
      BY <1>1, <3>1, <3>4
  <2>2. CASE Query(t)
    BY <2>2, QueryTop
  <2>3. CASE Run(t) \/ Connect(t) \/ Test(t) \/ Refresh(t) \/ ErrorBox(t) \/ Wake(t) \/ Close(t)
    BY <1>2, <2>3 DEF Run, Connect, Test, Refresh, ErrorBox, Wake, Close, seen
  <2>4. QED
    BY <1>3, <2>1, <2>2, <2>3 DEF Thread
<1>4. CASE CloseBox \/ ClickSql \/ ClickStart \/ ClickStop \/ ClickCancel \/ StopDone
  BY <1>2, <1>4 DEF CloseBox, ClickSql, ClickStart, ClickStop, ClickCancel, StopDone, seen
<1>5. CASE ClickClear
  <2>1. list' = <<>> /\ longest' = [s \in Sqls |-> 0]
    BY <1>5 DEF ClickClear
  <2>2. QED
    BY <2>1, EmptyTop DEF TopInv, Kept, Down, SeenOf, Enough
<1>6. CASE UNCHANGED vars
  BY <1>2, <1>6 DEF vars, seen
<1>7. QED
  BY <1>3, <1>4, <1>5, <1>6 DEF Next, User

\* And what it remembers are the longest.
LEMMA TopFollows == TypeOK /\ TopInv => TopQueries
<1> SUFFICES ASSUME TypeOK, TopInv PROVE TopQueries
  OBVIOUS
<1>1. /\ list \in Seq(Entry) /\ Len(list) \in Nat /\ DOMAIN list = 1..Len(list)
      /\ \A i \in DOMAIN list :
           list[i].sec \in Nat /\ list[i].sql \in Sqls /\ i \in Nat
  BY EntryOf DEF TopInv, Kept
<1>2. least \in Nat /\ least >= 1
  BY DEF TypeOK
<1>3. \A s \in Sqls : longest[s] \in Nat
  BY MonitorAssumption DEF TopInv
<1>4. \A s \in Sqls : longest[s] > 0 => <<s, longest[s]>> \in SeenOf(longest)
  BY DEF SeenOf
<1>5. ASSUME NEW s \in Sqls, longest[s] > 0, \A i \in DOMAIN list : list[i].sql # s
      PROVE  Cardinality({i \in DOMAIN list : list[i].sec >= longest[s]}) >= least
  <2>1. Enough(list, longest[s])
    BY <1>3, <1>4, <1>5 DEF TopInv, Kept
  <2>2. QED
    BY <2>1 DEF Enough
<1>6. ASSUME NEW i \in DOMAIN list, i <= least, list[i].sec # longest[list[i].sql]
      PROVE  FALSE
  <2> DEFINE s == list[i].sql
             v == longest[s]
  <2>1. PICK u \in Nat : <<s, u>> \in SeenOf(longest) /\ list[i].sec <= u
    BY DEF TopInv, Kept
  <2>2. u = v /\ v > 0
    BY <2>1 DEF SeenOf
  <2>3. s \in Sqls /\ v \in Nat /\ list[i].sec < v
    BY <1>1, <1>3, <1>6, <2>1, <2>2
  <2>4. <<s, v>> \in SeenOf(longest)
    BY <2>1, <2>2
  <2>5. (\E j \in DOMAIN list : list[j].sql = s /\ list[j].sec >= v) \/ Enough(list, v)
    BY <2>3, <2>4 DEF TopInv, Kept
  <2>6. CASE \E j \in DOMAIN list : list[j].sql = s /\ list[j].sec >= v
    <3>1. PICK j \in DOMAIN list : list[j].sql = s /\ list[j].sec >= v
      BY <2>6
    <3>2. j = i
      BY <3>1 DEF TopInv, Kept
    <3>3. QED
      BY <1>1, <2>3, <3>1, <3>2
  <2>7. CASE Enough(list, v)
    <3>1. \A j \in 1..least : list[j].sec >= v
      BY <1>1, <1>2, <2>3, <2>7, EnoughFirst DEF TopInv
    <3>2. i \in 1..least
      BY <1>1, <1>2, <1>6
    <3>3. QED
      BY <1>1, <2>3, <3>1, <3>2
  <2>8. QED
    BY <2>5, <2>6, <2>7
<1>7. QED
  BY <1>5, <1>6 DEF TopQueries

\* It holds at the start.
LEMMA InitTop == Init => TopInv
BY EmptyTop DEF Init, TopInv

\* The list of statements never lies about the longest: one that is missing gave way to
\* as many as the list was ever restricted to that last no less, and so many of the
\* first entries tell the longest time of their statement, whatever the batches and
\* however the setup file changed between them.
THEOREM LongestStay == Spec => []TopQueries
<1>1. TypeOK /\ TopInv /\ [Next]_vars => TypeOK' /\ TopInv'
  BY TypeKept, TopKept
<1>2. Init => TypeOK /\ TopInv
  BY InitIInv, InitTop DEF IInv
<1>3. TypeOK /\ TopInv => TopQueries
  BY TopFollows
<1>4. QED
  BY <1>1, <1>2, <1>3, PTL DEF Spec

=============================================================================
