-------------------------- MODULE DbMySQLPoolProofs --------------------------
(***************************************************************************)
(* Proofs about DbMySQLPool for every set of threads, every set of         *)
(* addresses and every bound: types, exclusive use of the connections and  *)
(* the absence of dangling pointers, and that the pool implements          *)
(* PoolOwnership.                                                          *)
(***************************************************************************)
EXTENDS PoolRefinement, TLAPS

\* A failed object is outside of the pool for good.
LeakedApart ==
    leaked \cap (Range(m_clsStandByList) \cup m_clsUseMap) = {}

\* The inductive invariant.
IInv ==
    /\ TypeOK
    /\ ExclusiveUse
    /\ Accounted
    /\ LeakedApart
    /\ ScopedConnection

-----------------------------------------------------------------------------
(* The three ways the list changes.                                        *)

\* push_back of a connection that is not in the list keeps it free of
\* duplicates.
LEMMA AppendFresh ==
    ASSUME NEW S, NEW s \in Seq(S), IsInjective(s), NEW c \in S, c \notin Range(s)
    PROVE  /\ Append(s, c) \in Seq(S)
           /\ IsInjective(Append(s, c))
           /\ Range(Append(s, c)) = Range(s) \cup {c}
<1> DEFINE a == Append(s, c)
<1>1. /\ a \in Seq(S)
      /\ DOMAIN a = 1..(Len(s) + 1)
      /\ DOMAIN s = 1..Len(s)
      /\ \A k \in 1..Len(s) : a[k] = s[k]
      /\ a[Len(s) + 1] = c
  OBVIOUS
<1>2. IsInjective(a)
  BY <1>1 DEF IsInjective, Range
<1>3. Range(a) = Range(s) \cup {c}
  BY <1>1 DEF Range
<1> QED
  BY <1>1, <1>2, <1>3

\* pop_front of a list without duplicates removes exactly its first element.
LEMMA TailOfInjective ==
    ASSUME NEW S, NEW s \in Seq(S), IsInjective(s), s # <<>>
    PROVE  /\ Head(s) \in S
           /\ Head(s) \in Range(s)
           /\ Tail(s) \in Seq(S)
           /\ IsInjective(Tail(s))
           /\ Range(Tail(s)) = Range(s) \ {Head(s)}
<1> DEFINE r == Tail(s)
<1>1. /\ r \in Seq(S)
      /\ Len(s) \in Nat \ {0}
      /\ DOMAIN r = 1..(Len(s) - 1)
      /\ DOMAIN s = 1..Len(s)
      /\ \A k \in 1..(Len(s) - 1) : r[k] = s[k + 1]
      /\ Head(s) = s[1]
      /\ Head(s) \in S
  OBVIOUS
<1>2. IsInjective(r)
  BY <1>1 DEF IsInjective
<1>3. Range(r) \subseteq Range(s) \ {Head(s)}
  BY <1>1 DEF IsInjective, Range
<1>4. Range(s) \ {Head(s)} \subseteq Range(r)
  <2> SUFFICES ASSUME NEW k \in 1..Len(s), s[k] # s[1]
               PROVE  s[k] \in Range(r)
    BY <1>1 DEF Range
  <2>1. k - 1 \in 1..(Len(s) - 1) /\ r[k - 1] = s[k]
    BY <1>1
  <2> QED
    BY <2>1, <1>1 DEF Range
<1>5. Head(s) \in Range(s)
  BY <1>1 DEF Range
<1> QED
  BY <1>1, <1>2, <1>3, <1>4, <1>5

\* The list of a new pool has no element.
LEMMA EmptyList ==
    ASSUME NEW S
    PROVE  <<>> \in Seq(S) /\ IsInjective(<<>>) /\ Range(<<>>) = {}
BY DEF IsInjective, Range

-----------------------------------------------------------------------------
(* The inductive invariant holds.                                          *)

\* It holds of a new pool.
LEMMA InitIInv == Init => IInv
<1> SUFFICES ASSUME Init PROVE IInv
  OBVIOUS
<1> USE PoolAssumption DEF Init
<1>1. TypeOK
  BY EmptyList DEF TypeOK, PC, Kinds
<1>2. ExclusiveUse
  BY EmptyList DEF ExclusiveUse
<1>3. Accounted /\ LeakedApart /\ ScopedConnection
  BY EmptyList DEF Accounted, LeakedApart, ScopedConnection
<1> QED
  BY <1>1, <1>2, <1>3 DEF IInv

\* A step that moves no connection and neither starts nor ends a statement.
LEMMA NothingMoves ==
    ASSUME IInv, TypeOK', NEW t \in Threads, NEW label \in PC \ {"running"},
           pc[t] # "running", Goto(t, label),
           UNCHANGED <<m_clsStandByList, m_clsUseMap, heap, held, auto>>
    PROVE  IInv'
<1> USE DEF IInv, heap
<1>1. ExclusiveUse' /\ Accounted' /\ LeakedApart'
  BY DEF ExclusiveUse, Accounted, LeakedApart
<1>2. ScopedConnection'
  BY DEF ScopedConnection, Goto, TypeOK
<1> QED
  BY <1>1, <1>2

\* Create: the mutex is taken, connections are appended, the mutex is freed.
LEMMA CreateIInv ==
    ASSUME IInv, NEW t \in Threads,
           \/ \E n \in 1..MaxPoolCount : Create(t, n)
           \/ CreateConnect(t) \/ CreateConnectFails(t) \/ CreateRelease(t)
    PROVE  IInv'
<1> USE PoolAssumption DEF IInv
<1>1. ASSUME NEW n \in 1..MaxPoolCount, Create(t, n) PROVE IInv'
  <2>1. TypeOK'
    BY <1>1 DEF Create, Goto, heap, TypeOK, PC
  <2> QED
    BY <1>1, <2>1, NothingMoves DEF Create, PC
<1>2. ASSUME CreateConnect(t) PROVE IInv'
  <2> USE <1>2 DEF CreateConnect, CreateTurn
  <2>1. PICK c \in Conns \ alive :
              /\ alive' = alive \cup {c}
              /\ m_clsStandByList' = Append(m_clsStandByList, c)
    OBVIOUS
  <2>2. c \notin Range(m_clsStandByList) \cup m_clsUseMap \cup leaked
    BY DEF Accounted
  <2>3. /\ m_clsStandByList' \in Seq(Conns)
        /\ IsInjective(m_clsStandByList')
        /\ Range(m_clsStandByList') = Range(m_clsStandByList) \cup {c}
    BY <2>1, <2>2, AppendFresh DEF TypeOK, ExclusiveUse
  <2>4. TypeOK'
    BY <2>1, <2>3 DEF TypeOK
  <2>5. ExclusiveUse'
    BY <2>2, <2>3 DEF ExclusiveUse
  <2>6. Accounted' /\ LeakedApart' /\ ScopedConnection'
    BY <2>1, <2>2, <2>3 DEF Accounted, LeakedApart, ScopedConnection
  <2> QED
    BY <2>4, <2>5, <2>6
<1>3. ASSUME CreateConnectFails(t) PROVE IInv'
  BY <1>3 DEF CreateConnectFails, Goto, pool, TypeOK, PC, ExclusiveUse,
              Accounted, LeakedApart, ScopedConnection
<1>4. ASSUME CreateRelease(t) PROVE IInv'
  <2>1. TypeOK'
    BY <1>4 DEF CreateRelease, Goto, heap, TypeOK, PC
  <2> QED
    BY <1>4, <2>1, NothingMoves DEF CreateRelease, PC
<1> QED
  BY <1>1, <1>2, <1>3, <1>4

\* Destroy: only DestroyClose touches connections, and only idle ones.
LEMMA DestroyIInv ==
    ASSUME IInv, NEW t \in Threads,
           Destroy(t) \/ DestroyPoll(t) \/ DestroyClose(t) \/ DestroyEnd(t)
    PROVE  IInv'
<1> USE PoolAssumption DEF IInv
<1>1. ASSUME Destroy(t) PROVE IInv'
  <2>1. TypeOK'
    BY <1>1 DEF Destroy, Goto, heap, TypeOK, PC
  <2> QED
    BY <1>1, <2>1, NothingMoves DEF Destroy, PC
<1>2. ASSUME DestroyPoll(t) PROVE IInv'
  <2>1. PICK label \in {"poll", "close"} : Goto(t, label)
    BY <1>2 DEF DestroyPoll
  <2>2. i' \in [Threads -> Nat]
    BY <1>2 DEF DestroyPoll, TypeOK
  <2>3. pc' \in [Threads -> PC]
    BY <2>1 DEF Goto, TypeOK, PC
  <2>4. TypeOK'
    BY <1>2, <2>2, <2>3 DEF DestroyPoll, pool, heap, TypeOK
  <2> QED
    BY <1>2, <2>1, <2>4, NothingMoves DEF DestroyPoll, pool, PC
<1>3. ASSUME DestroyClose(t) PROVE IInv'
  <2> USE <1>3 DEF DestroyClose, Discard, Goto
  <2>1. /\ m_clsStandByList' \in Seq(Conns)
        /\ IsInjective(m_clsStandByList')
        /\ Range(m_clsStandByList') = {}
    BY EmptyList
  <2>2. TypeOK'
    BY <2>1 DEF TypeOK, PC
  <2>3. ExclusiveUse'
    BY <2>1 DEF ExclusiveUse
  <2>4. Accounted' /\ LeakedApart'
    BY <2>1 DEF Accounted, LeakedApart, ExclusiveUse
  <2>5. ScopedConnection'
    BY DEF ScopedConnection, TypeOK
  <2> QED
    BY <2>2, <2>3, <2>4, <2>5
<1>4. ASSUME DestroyEnd(t) PROVE IInv'
  <2>1. TypeOK'
    BY <1>4 DEF DestroyEnd, Goto, heap, TypeOK, PC
  <2> QED
    BY <1>4, <2>1, NothingMoves DEF DestroyEnd, PC
<1> QED
  BY <1>1, <1>2, <1>3, <1>4

\* Select and Release move one connection between the list and a thread.
LEMMA SelectIInv ==
    ASSUME IInv, NEW t \in Threads,
           \/ \E kind \in Kinds : Select(t, kind)
           \/ SelectLoop(t) \/ SelectTake(t) \/ SelectNone(t)
    PROVE  IInv'
<1> USE PoolAssumption DEF IInv
<1>1. ASSUME NEW kind \in Kinds, Select(t, kind) PROVE IInv'
  <2>1. TypeOK'
    BY <1>1 DEF Select, Goto, pool, heap, TypeOK, PC
  <2> QED
    BY <1>1, <2>1, NothingMoves DEF Select, pool, PC
<1>2. ASSUME SelectLoop(t) PROVE IInv'
  <2>1. PICK label \in {"idle", "lock"} : Goto(t, label)
    BY <1>2 DEF SelectLoop
  <2>2. TypeOK'
    BY <1>2, <2>1 DEF SelectLoop, Goto, pool, heap, TypeOK, PC
  <2> QED
    BY <1>2, <2>1, <2>2, NothingMoves DEF SelectLoop, pool, PC
<1>3. ASSUME SelectNone(t) PROVE IInv'
  <2>1. PICK label \in {"idle", "loop"} : Goto(t, label)
    BY <1>3 DEF SelectNone
  <2>2. TypeOK'
    BY <1>3, <2>1 DEF SelectNone, Goto, pool, heap, TypeOK, PC
  <2> QED
    BY <1>3, <2>1, <2>2, NothingMoves DEF SelectNone, pool, PC
<1>4. ASSUME SelectTake(t) PROVE IInv'
  <2> DEFINE c == Head(m_clsStandByList)
  <2> USE <1>4 DEF SelectTake, HandOver, Goto, heap
  <2>1. /\ c \in Range(m_clsStandByList) /\ c \in Conns
        /\ m_clsStandByList' \in Seq(Conns)
        /\ IsInjective(m_clsStandByList')
        /\ Range(m_clsStandByList') = Range(m_clsStandByList) \ {c}
    BY TailOfInjective DEF TypeOK, ExclusiveUse
  <2>2. /\ m_clsUseMap' = m_clsUseMap \cup {c}
        /\ held' = [held EXCEPT ![t] = @ \cup {c}]
        /\ auto' = [auto EXCEPT ![t] = IF call[t] = "auto" THEN c ELSE @]
    BY DEF TypeOK
  <2> HIDE DEF c
  <2>3. c \notin m_clsUseMap /\ c \notin leaked /\ \A u \in Threads : c \notin held[u]
    BY <2>1 DEF ExclusiveUse, LeakedApart
  <2>4. TypeOK'
    BY <2>1, <2>2 DEF TypeOK, PC
  <2>5. ExclusiveUse'
    <3>1. m_clsUseMap' = UNION {held'[u] : u \in Threads}
      BY <2>2 DEF ExclusiveUse, TypeOK
    <3>2. \A u, v \in Threads : u # v => held'[u] \cap held'[v] = {}
      BY <2>2, <2>3 DEF ExclusiveUse, TypeOK
    <3>3. Range(m_clsStandByList') \cap m_clsUseMap' = {}
      BY <2>1, <2>2 DEF ExclusiveUse
    <3> QED
      BY <2>1, <3>1, <3>2, <3>3 DEF ExclusiveUse
  <2>6. Accounted' /\ LeakedApart'
    BY <2>1, <2>2, <2>3 DEF Accounted, LeakedApart
  <2>7. ScopedConnection'
    <3> SUFFICES ASSUME NEW u \in Threads
                 PROVE  IF pc'[u] = "running" THEN auto'[u] \in held'[u]
                                              ELSE auto'[u] = NULL
      BY DEF ScopedConnection
    <3>1. CASE u = t
      <4>1. auto[t] = NULL
        BY DEF ScopedConnection
      <4>2. pc'[t] = IF call[t] = "auto" THEN "running" ELSE "idle"
        BY DEF TypeOK
      <4>3. /\ c \in held'[t]
            /\ auto'[t] = IF call[t] = "auto" THEN c ELSE auto[t]
        BY <2>2 DEF TypeOK
      <4> QED
        BY <3>1, <4>1, <4>2, <4>3
    <3>2. CASE u # t
      BY <3>2, <2>2 DEF ScopedConnection, TypeOK
    <3> QED
      BY <3>1, <3>2
  <2> QED
    BY <2>4, <2>5, <2>6, <2>7
<1> QED
  BY <1>1, <1>2, <1>3, <1>4

\* Release and the end of a statement put back what the thread holds.
LEMMA ReleaseIInv ==
    ASSUME IInv, NEW t \in Threads,
           \/ \E c \in held[t] : Release(t, c)
           \/ \E c \in Conns : ReleaseAgain(t, c)
           \/ StatementEnd(t)
    PROVE  IInv'
<1> USE PoolAssumption DEF IInv
<1>1. ASSUME NEW c \in held[t], GiveBack(t, c),
             \/ UNCHANGED <<pc, auto>> /\ pc[t] # "running"
             \/ /\ auto[t] = c
                /\ auto' = [auto EXCEPT ![t] = NULL]
                /\ Goto(t, "idle")
      PROVE  IInv'
  <2> USE <1>1 DEF GiveBack, heap
  <2>1. c \in Conns /\ c \in m_clsUseMap
    BY DEF TypeOK, ExclusiveUse
  <2>2. /\ m_clsUseMap' = m_clsUseMap \ {c}
        /\ m_clsStandByList' = Append(m_clsStandByList, c)
    BY <2>1 DEF PutBack
  <2>3. /\ m_clsStandByList' \in Seq(Conns)
        /\ IsInjective(m_clsStandByList')
        /\ Range(m_clsStandByList') = Range(m_clsStandByList) \cup {c}
    BY <2>1, <2>2, AppendFresh DEF TypeOK, ExclusiveUse
  <2>4. TypeOK'
    BY <2>2, <2>3 DEF TypeOK, Goto, PC
  <2>5. ExclusiveUse'
    <3>1. \A u \in Threads : held'[u] = IF u = t THEN held[t] \ {c} ELSE held[u]
      BY DEF TypeOK
    <3>2. \A u \in Threads : u # t => c \notin held[u]
      BY DEF ExclusiveUse
    <3>3. m_clsUseMap' = UNION {held'[u] : u \in Threads}
      BY <2>2, <3>1, <3>2 DEF ExclusiveUse
    <3>4. \A u, v \in Threads : u # v => held'[u] \cap held'[v] = {}
      BY <3>1 DEF ExclusiveUse
    <3>5. Range(m_clsStandByList') \cap m_clsUseMap' = {}
      BY <2>2, <2>3 DEF ExclusiveUse
    <3> QED
      BY <2>3, <3>3, <3>4, <3>5 DEF ExclusiveUse
  <2>6. Accounted' /\ LeakedApart'
    BY <2>1, <2>2, <2>3 DEF Accounted, LeakedApart
  <2>7. ScopedConnection'
    BY DEF ScopedConnection, TypeOK, Goto
  <2> QED
    BY <2>4, <2>5, <2>6, <2>7
<1>2. ASSUME NEW c \in held[t], Release(t, c) PROVE IInv'
  BY <1>1, <1>2 DEF Release
<1>3. ASSUME StatementEnd(t) PROVE IInv'
  <2>1. auto[t] \in held[t]
    BY <1>3 DEF StatementEnd, ScopedConnection
  <2> QED
    BY <1>1, <1>3, <2>1 DEF StatementEnd
<1>4. ASSUME NEW c \in Conns, ReleaseAgain(t, c) PROVE IInv'
  <2> USE <1>4 DEF ReleaseAgain, GiveBack, PutBack, heap
  <2>1. c \notin held[t]
    BY DEF ExclusiveUse
  <2>2. UNCHANGED vars
    BY <2>1 DEF TypeOK, vars, pool, thread
  <2> QED
    BY <2>2 DEF vars, pool, heap, thread, TypeOK, ExclusiveUse, Accounted,
                LeakedApart, ScopedConnection
<1> QED
  BY <1>2, <1>3, <1>4

\* Every step of the pool preserves it.
LEMMA NextIInv == IInv /\ [Next]_vars => IInv'
<1> SUFFICES ASSUME IInv, [Next]_vars PROVE IInv'
  OBVIOUS
<1>1. CASE UNCHANGED vars
  BY <1>1 DEF IInv, vars, pool, heap, thread, TypeOK, ExclusiveUse, Accounted,
              LeakedApart, ScopedConnection
<1>2. CASE Next
  <2>1. PICK t \in Threads : Step(t) \/ Call(t)
    BY <1>2 DEF Next
  <2> QED
    BY <2>1, CreateIInv, DestroyIInv, SelectIInv, ReleaseIInv DEF Step, Call
<1> QED
  BY <1>1, <1>2

\* The inductive invariant holds in every reachable state of the pool.
THEOREM InvariantHolds == Spec => []IInv
BY InitIInv, NextIInv, PTL DEF Spec

\* Every variable keeps its type.
THEOREM TypeCorrect == Spec => []TypeOK
BY InvariantHolds, PTL DEF IInv

\* A connection is queued at most once and used by at most one thread, and the
\* map of used connections is exactly what the threads hold.
THEOREM ConnectionsExclusive == Spec => []ExclusiveUse
BY InvariantHolds, PTL DEF IInv

\* Destroy, interrupted or not, never deletes a connection somebody can still
\* reach: neither the holder of a connection nor the list points to freed memory.
THEOREM ConnectionsValid == Spec => []NoDangling
<1>1. IInv => NoDangling
  BY DEF IInv, NoDangling, Accounted, ExclusiveUse
<1> QED
  BY <1>1, InvariantHolds, PTL

\* No connection object is lost but those whose Connect failed.
THEOREM ConnectionsAccounted == Spec => []Accounted
BY InvariantHolds, PTL DEF IInv

\* The connection a statement uses is the one its CAutoRelease gives back.
THEOREM StatementsScoped == Spec => []ScopedConnection
BY InvariantHolds, PTL DEF IInv

-----------------------------------------------------------------------------
(* The pool implements PoolOwnership.                                      *)

\* With exclusive use the owner of a connection is the thread that holds it.
LEMMA OwnerIsHolder ==
    ASSUME IInv, NEW c \in Conns
    PROVE  /\ \A t \in Threads : c \in held[t] => ownerOf[c] = t
           /\ (\A t \in Threads : c \notin held[t]) => ownerOf[c] = NULL
<1>1. ASSUME NEW t \in Threads, c \in held[t] PROVE ownerOf[c] = t
  <2>1. \A u \in Threads : c \in held[u] => u = t
    BY <1>1 DEF IInv, ExclusiveUse
  <2> QED
    BY <1>1, <2>1 DEF ownerOf
<1> QED
  BY <1>1 DEF ownerOf

\* A step that leaves every thread what it holds leaves the owners.
LEMMA SameOwners == ASSUME UNCHANGED held PROVE UNCHANGED ownerOf
BY DEF ownerOf

\* The same fact about the state after a step.
LEMMA NextOwner ==
    ASSUME IInv, IInv', NEW t \in Threads, NEW c \in Conns, NEW S,
           held' = [held EXCEPT ![t] = S],
           \A d \in Conns \ {c} : d \in S <=> d \in held[t]
    PROVE  \A d \in Conns \ {c} : ownerOf'[d] = ownerOf[d]
<1> SUFFICES ASSUME NEW d \in Conns, d # c PROVE ownerOf'[d] = ownerOf[d]
  OBVIOUS
<1>1. \A u \in Threads : d \in held'[u] <=> d \in held[u]
  BY DEF IInv, TypeOK
<1> QED
  BY <1>1 DEF ownerOf

\* A new pool owns nothing.
LEMMA InitOwnership == Init => Abstract!Init
<1> SUFFICES ASSUME Init PROVE idleOf = {} /\ ownerOf = [c \in Conns |-> NULL]
  BY DEF Abstract!Init
<1> QED
  BY EmptyList DEF Init, idleOf, ownerOf

\* Every step of the pool is a step of the ownership specification or a stutter.
LEMMA StepOwnership ==
    ASSUME IInv, IInv', [Next]_vars
    PROVE  [Abstract!Next]_Abstract!vars
<1> USE DEF Abstract!vars, IInv
<1>1. CASE UNCHANGED <<m_clsStandByList, held>>
  BY <1>1, SameOwners DEF idleOf
<1>2. CASE UNCHANGED vars
  BY <1>1, <1>2 DEF vars, pool, thread
<1>3. ASSUME NEW t \in Threads, CreateConnect(t) PROVE Abstract!Next
  <2>1. PICK c \in Conns \ alive : m_clsStandByList' = Append(m_clsStandByList, c)
    BY <1>3 DEF CreateConnect, CreateTurn
  <2>2. c \notin idleOf /\ \A u \in Threads : c \notin held[u]
    BY DEF Accounted, ExclusiveUse, idleOf
  <2>3. idleOf' = idleOf \cup {c}
    BY <2>1, <2>2, AppendFresh DEF TypeOK, ExclusiveUse, idleOf
  <2>4. Abstract!Add(c)
    BY <1>3, <2>2, <2>3, OwnerIsHolder, SameOwners
       DEF CreateConnect, CreateTurn, Abstract!Add
  <2> QED
    BY <2>4 DEF Abstract!Next
<1>4. ASSUME NEW t \in Threads, DestroyClose(t) PROVE Abstract!Next
  <2>1. idleOf' = {} /\ UNCHANGED ownerOf
    BY <1>4, EmptyList, SameOwners DEF DestroyClose, Discard, idleOf
  <2> QED
    BY <2>1 DEF Abstract!Next, Abstract!Discard
<1>5. ASSUME NEW t \in Threads, SelectTake(t) PROVE Abstract!Next
  <2> DEFINE c == Head(m_clsStandByList)
  <2> USE <1>5 DEF SelectTake, HandOver
  <2>1. c \in idleOf /\ c \in Conns /\ idleOf' = idleOf \ {c}
    BY TailOfInjective DEF TypeOK, ExclusiveUse, idleOf
  <2>2. held' = [held EXCEPT ![t] = held[t] \cup {c}]
    OBVIOUS
  <2> HIDE DEF c
  <2>3. c \in held'[t]
    BY <2>2 DEF TypeOK
  <2>4. ownerOf'[c] = t
    <3>1. \A u \in Threads : c \in held'[u] => u = t
      BY <2>3 DEF ExclusiveUse
    <3> QED
      BY <2>1, <2>3, <3>1 DEF ownerOf
  <2>5. \A d \in Conns \ {c} : ownerOf'[d] = ownerOf[d]
    <3> DEFINE S == held[t] \cup {c}
    <3>1. held' = [held EXCEPT ![t] = S] /\ \A d \in Conns \ {c} : d \in S <=> d \in held[t]
      BY <2>2
    <3> HIDE DEF S
    <3> QED
      BY <2>1, <3>1, NextOwner
  <2>6. ownerOf' = [ownerOf EXCEPT ![c] = t]
    BY <2>1, <2>4, <2>5 DEF ownerOf
  <2>7. Abstract!HandOut(t, c)
    BY <2>1, <2>6 DEF Abstract!HandOut
  <2> QED
    BY <2>1, <2>7 DEF Abstract!Next
<1>6. ASSUME NEW t \in Threads, NEW c \in held[t], GiveBack(t, c) PROVE Abstract!Next
  <2>1. c \in Conns /\ c \in m_clsUseMap /\ c \notin Range(m_clsStandByList)
    BY DEF TypeOK, ExclusiveUse
  <2>2. idleOf' = idleOf \cup {c}
    <3>1. m_clsStandByList' = Append(m_clsStandByList, c)
      BY <1>6, <2>1 DEF GiveBack, PutBack
    <3>2. m_clsStandByList \in Seq(Conns) /\ IsInjective(m_clsStandByList)
      BY DEF TypeOK, ExclusiveUse
    <3> QED
      BY <2>1, <3>1, <3>2, AppendFresh DEF idleOf
  <2>3. held' = [held EXCEPT ![t] = held[t] \ {c}]
    BY <1>6 DEF GiveBack
  <2>4. ownerOf[c] = t
    BY <2>1, OwnerIsHolder
  <2>5. ownerOf'[c] = NULL
    <3>1. \A u \in Threads : u # t => c \notin held[u]
      BY DEF ExclusiveUse
    <3>2. \A u \in Threads : c \notin held'[u]
      BY <2>3, <3>1 DEF TypeOK
    <3> QED
      BY <2>1, <3>2 DEF ownerOf
  <2>6. \A d \in Conns \ {c} : ownerOf'[d] = ownerOf[d]
    <3> DEFINE S == held[t] \ {c}
    <3>1. held' = [held EXCEPT ![t] = S] /\ \A d \in Conns \ {c} : d \in S <=> d \in held[t]
      BY <2>3
    <3> HIDE DEF S
    <3> QED
      BY <2>1, <3>1, NextOwner
  <2>7. ownerOf' = [ownerOf EXCEPT ![c] = NULL]
    BY <2>1, <2>5, <2>6 DEF ownerOf
  <2>8. Abstract!Return(t, c)
    BY <2>2, <2>4, <2>7 DEF Abstract!Return
  <2> QED
    BY <2>1, <2>8 DEF Abstract!Next
<1>7. ASSUME NEW t \in Threads, Step(t) \/ Call(t) PROVE [Abstract!Next]_Abstract!vars
  <2>1. CASE \/ \E n \in 1..MaxPoolCount : Create(t, n)
             \/ CreateConnectFails(t) \/ CreateRelease(t) \/ Destroy(t)
             \/ DestroyPoll(t) \/ DestroyEnd(t) \/ SelectLoop(t) \/ SelectNone(t)
             \/ \E kind \in Kinds : Select(t, kind)
    BY <1>1, <2>1 DEF Create, CreateConnectFails, CreateRelease, Destroy,
                      DestroyPoll, DestroyEnd, SelectLoop, SelectNone, Select, pool
  <2>2. CASE StatementEnd(t)
    <3>1. auto[t] \in held[t] /\ GiveBack(t, auto[t])
      BY <2>2 DEF StatementEnd, ScopedConnection
    <3> QED
      BY <1>6, <3>1
  <2>3. CASE \E c \in held[t] : Release(t, c)
    BY <1>6, <2>3 DEF Release
  <2>4. CASE \E c \in Conns : ReleaseAgain(t, c)
    <3>1. PICK c \in Conns : ReleaseAgain(t, c)
      BY <2>4
    <3>2. c \notin held[t]
      BY <3>1 DEF ReleaseAgain, ExclusiveUse
    <3> QED
      BY <1>1, <3>1, <3>2 DEF ReleaseAgain, GiveBack, PutBack, TypeOK
  <2> QED
    BY <1>3, <1>4, <1>5, <1>7, <2>1, <2>2, <2>3, <2>4 DEF Step, Call
<1> QED
  BY <1>2, <1>7 DEF Next

\* The pool keeps the promise of PoolOwnership: every step hands an idle
\* connection to one thread, takes one back from its owner, adds or discards
\* idle ones, or changes no ownership.
THEOREM PoolImplementsOwnership == Spec => ImplementsOwnership
BY InvariantHolds, InitOwnership, StepOwnership, PTL
   DEF Spec, ImplementsOwnership, Abstract!Spec
=============================================================================
