------------------------ MODULE FiberScheduler_proofs ------------------------
(* Theorems about FiberScheduler for every number of threads, fibers and
   callbacks. *)
EXTENDS FiberScheduler, SequenceTheorems, FiniteSetTheorems, TLAPS

(* What taking the i-th element out of a sequence leaves: the erase() of the
   run loop's scan. *)
LEMMA RemoveAtFacts ==
  ASSUME NEW S, NEW q \in Seq(S), NEW i \in 1..Len(q)
  PROVE  /\ RemoveAt(q, i) \in Seq(S)
         /\ Len(RemoveAt(q, i)) = Len(q) - 1
         /\ \A k \in 1..Len(RemoveAt(q, i)) :
              RemoveAt(q, i)[k] = IF k < i THEN q[k] ELSE q[k + 1]
<1> DEFINE a == SubSeq(q, 1, i - 1)
           b == SubSeq(q, i + 1, Len(q))
<1>1. a \in Seq(S) /\ Len(a) = i - 1 /\ \A k \in 1..(i - 1) : a[k] = q[k]
  BY SubSeqProperties
<1>2. b \in Seq(S) /\ Len(b) = Len(q) - i
  BY SubSeqProperties
<1>3. \A k \in 1..(Len(q) - i) : b[k] = q[k + i]
  BY SubSeqProperties
<1>4. RemoveAt(q, i) = a \o b
  BY DEF RemoveAt
<1> HIDE DEF a, b
<1>5. a \o b \in Seq(S) /\ Len(a \o b) = Len(q) - 1
  BY <1>1, <1>2
<1>6. \A k \in 1..Len(a \o b) : (a \o b)[k] = IF k < i THEN q[k] ELSE q[k + 1]
  <2>1. TAKE k \in 1..Len(a \o b)
  <2>2. (a \o b)[k] = IF k <= Len(a) THEN a[k] ELSE b[k - Len(a)]
    BY <1>1, <1>2, <2>1
  <2>3. CASE k < i
    BY <2>2, <2>3, <1>1, <1>5
  <2>4. CASE k >= i
    <3>1. b[k - Len(a)] = q[k - Len(a) + i]
      BY <1>1, <1>3, <1>5, <2>4
    <3> QED
      BY <3>1, <2>2, <2>4, <1>1, <1>5
  <2> QED
    BY <2>3, <2>4, <1>5
<1> QED
  BY <1>4, <1>5, <1>6

(* From swapIn to the bookkeeping behind it a run loop has a fiber in hand. *)
OnFiberPcs == {"body", "parking", "switching", "back", "post"}
HasFiber == \A t \in Threads : pc[t] \in OnFiberPcs => Running(t) \in Fibers

TInv == TypeOK /\ HasFiber

LEMMA InitTInv == Init => TInv
<1> SUFFICES ASSUME Init PROVE TInv
  OBVIOUS
<1> USE DEF Init
<1>1. NoEntry \in Entry
  BY DEF NoEntry, Entry
<1>2. m_fibers \in Seq(Entry)
  OBVIOUS
<1>3. m_state \in [Fibers -> States] /\ m_cb \in [Fibers -> Work \cup {None}]
  BY DEF States, Work
<1>4. pc \in [Threads -> RunPcs] /\ mpc \in ClientPcs
  BY DEF RunPcs, ClientPcs
<1>5. /\ ft \in [Threads -> Entry] /\ cb_fiber \in [Threads -> Fibers \cup {None}]
      /\ yields \in [Fibers -> Nat]
  BY <1>1
<1>6. TypeOK
  <2>1. m_activeThreadCount \in Int /\ m_idleThreadcount \in Int
    OBVIOUS
  <2>4. m_stopping \in BOOLEAN /\ m_autoStop \in BOOLEAN
    OBVIOUS
  <2>2. m_threads \in SUBSET Workers /\ idleTerm \in SUBSET Threads
    OBVIOUS
  <2>3. armed \in SUBSET Fibers /\ fresh \in SUBSET Work /\ finished \in SUBSET Work
    OBVIOUS
  <2>5. m_threadCount \in Nat /\ use_caller \in BOOLEAN
    <3>1. PICK c \in Configs : m_threadCount = c[1] /\ use_caller = c[2]
      OBVIOUS
    <3>2. c \in Nat \X BOOLEAN
      BY ConstantsAssumption
    <3> QED
      BY <3>1, <3>2
  <2> QED
    BY <1>2, <1>3, <1>4, <1>5, <2>1, <2>2, <2>3, <2>4, <2>5 DEF TypeOK
<1>7. HasFiber
  BY DEF HasFiber, OnFiberPcs
<1> QED
  BY <1>6, <1>7 DEF TInv

LEMMA NextTInv == TInv /\ [Next]_vars => TInv'
<1> SUFFICES ASSUME TInv, [Next]_vars PROVE TInv'
  OBVIOUS
<1>0. m_threadCount' = m_threadCount /\ use_caller' = use_caller
  BY DEF Next, Terminated, vars, ctorVars
<1> USE <1>0 DEF TInv, TypeOK, HasFiber, OnFiberPcs, queueVars, fiberVars, loopVars
<1>1. ASSUME ClientSchedule PROVE TInv'
  BY <1>1 DEF ClientSchedule, Schedule, PinTargets, Threads, ItemEntry,
     FiberEntry, Entry, Fibers, Work, Running
<1>2. ASSUME ClientScheduleBatch PROVE TInv'
  BY <1>2 DEF ClientScheduleBatch, PinTargets, ItemEntry, FiberEntry, Entry,
     Fibers, Work, Running
<1>3. ASSUME ClientScheduleEnded PROVE TInv'
  BY <1>3 DEF ClientScheduleEnded, PinTargets, Threads, FiberEntry, Entry,
     Fibers, Running
<1>4. ASSUME Start PROVE TInv'
  BY <1>4 DEF Start, RunPcs, ClientPcs, Running
<1>5. ASSUME StopBegin PROVE TInv'
  BY <1>5 DEF StopBegin, ClientPcs, Running
<1>6. ASSUME StopQuick PROVE TInv'
  BY <1>6 DEF StopQuick, ClientPcs, Running
<1>7. ASSUME StopMark PROVE TInv'
  BY <1>7 DEF StopMark, ClientPcs, Running
<1>8. ASSUME StopCheck PROVE TInv'
  BY <1>8 DEF StopCheck, ClientPcs, Running
<1>9. ASSUME StopCall PROVE TInv'
  BY <1>9 DEF StopCall, RunPcs, ClientPcs, Running
<1>10. ASSUME StopRooted PROVE TInv'
  BY <1>10 DEF StopRooted, ClientPcs, Running
<1>11. ASSUME StopJoin PROVE TInv'
  BY <1>11 DEF StopJoin, ClientPcs, Running
<1>12. ASSUME NEW t \in Threads, ScanTake(t) PROVE TInv'
  <2>1. PICK i \in 1..Len(m_fibers) :
             ft' = [ft EXCEPT ![t] = m_fibers[i]] /\ m_fibers' = RemoveAt(m_fibers, i)
    BY <1>12 DEF ScanTake
  <2>2. m_fibers' \in Seq(Entry)
    BY <2>1, RemoveAtFacts
  <2>3. m_fibers[i] \in Entry
    OBVIOUS
  <2>4. pc' = [pc EXCEPT ![t] = "got"]
    BY <1>12 DEF ScanTake, Goto
  <2>5. TypeOK'
    BY <1>12, <2>1, <2>2, <2>3, <2>4 DEF ScanTake, RunPcs, ActivePcs
  <2>6. HasFiber'
    BY <1>12, <2>1, <2>4 DEF ScanTake, Running
  <2> QED
    BY <2>5, <2>6
<1>13. ASSUME NEW t \in Threads, ScanNothing(t) PROVE TInv'
  BY <1>13 DEF ScanNothing, Goto, Running, RunPcs, ActivePcs
<1>14. ASSUME NEW t \in Threads, ResumeFiber(t) PROVE TInv'
  <2>1. ft[t].fiber \in Fibers /\ Running(t) = ft[t].fiber
    BY <1>14 DEF ResumeFiber, Running, Entry
  <2>2. TypeOK'
    BY <1>14 DEF ResumeFiber, Goto, RunPcs, ActivePcs, States
  <2>3. HasFiber'
    BY <1>14, <2>1 DEF ResumeFiber, Goto, Running
  <2> QED
    BY <2>2, <2>3
<1>15. ASSUME NEW t \in Threads, RunCallback(t) PROVE TInv'
  BY <1>15 DEF RunCallback, Goto, Running, RunPcs, ActivePcs, States, NoEntry,
     Entry, Fibers, Work
<1>16. ASSUME NEW t \in Threads, DropEnded(t) PROVE TInv'
  BY <1>16 DEF DropEnded, Goto, Running, RunPcs, NoEntry, Entry
<1>17. ASSUME NEW t \in Threads, Leave(t) PROVE TInv'
  BY <1>17 DEF Leave, Goto, Running, RunPcs, ActivePcs
<1>18. ASSUME NEW t \in Threads, Requeue(t) PROVE TInv'
  <2>1. pc[t] = "post" /\ Running(t) \in Fibers
    BY <1>18 DEF Requeue
  <2>2. TypeOK'
    BY <1>18, <2>1 DEF Requeue, Goto, RunPcs, NoEntry, Entry, FiberEntry
  <2>3. HasFiber'
    BY <1>18, <2>1 DEF Requeue, Goto, Running, NoEntry
  <2> QED
    BY <2>2, <2>3
<1>19. ASSUME NEW t \in Threads, Release(t) PROVE TInv'
  <2>1. pc[t] = "post" /\ Running(t) \in Fibers
    BY <1>19 DEF Release
  <2>2. TypeOK'
    BY <1>19, <2>1 DEF Release, Goto, RunPcs, NoEntry, Entry, States
  <2>3. HasFiber'
    BY <1>19, <2>1 DEF Release, Goto, Running, NoEntry
  <2> QED
    BY <2>2, <2>3
<1>20. ASSUME NEW t \in Threads, Park(t) PROVE TInv'
  <2>1. pc[t] = "post" /\ Running(t) \in Fibers
    BY <1>20 DEF Park
  <2>2. TypeOK'
    BY <1>20, <2>1 DEF Park, Goto, RunPcs, NoEntry, Entry, States
  <2>3. HasFiber'
    BY <1>20, <2>1 DEF Park, Goto, Running, NoEntry
  <2> QED
    BY <2>2, <2>3
<1>21. ASSUME NEW t \in Threads, EnterIdle(t) PROVE TInv'
  BY <1>21 DEF EnterIdle, Goto, Running, RunPcs, ActivePcs
<1>22. ASSUME NEW t \in Threads, Idle(t) PROVE TInv'
  BY <1>22 DEF Idle, Goto, Running, RunPcs, ActivePcs
<1>23. ASSUME NEW t \in Threads, Exit(t) PROVE TInv'
  BY <1>23 DEF Exit, Goto, Running, RunPcs, ActivePcs
<1>24. ASSUME NEW t \in Threads, BodySchedule(t) PROVE TInv'
  BY <1>24 DEF BodySchedule, Goto, Running, Schedule, PinTargets, Threads,
     ItemEntry, FiberEntry, Entry, Fibers, Work
<1>25. ASSUME NEW t \in Threads, YieldToReady(t) PROVE TInv'
  <2>1. pc[t] = "body" /\ Running(t) \in Fibers
    BY <1>25 DEF YieldToReady
  <2>2. TypeOK'
    BY <1>25, <2>1 DEF YieldToReady, Goto, RunPcs, ActivePcs, States
  <2>3. HasFiber'
    BY <1>25, <2>1 DEF YieldToReady, Goto, Running, NoEntry
  <2> QED
    BY <2>2, <2>3
<1>26. ASSUME NEW t \in Threads, ArmWake(t) PROVE TInv'
  <2>1. pc[t] = "body" /\ Running(t) \in Fibers
    BY <1>26 DEF ArmWake
  <2>2. TypeOK'
    BY <1>26, <2>1 DEF ArmWake, Goto, RunPcs, ActivePcs
  <2>3. HasFiber'
    BY <1>26, <2>1 DEF ArmWake, Goto, Running, NoEntry
  <2> QED
    BY <2>2, <2>3
<1>27. ASSUME NEW t \in Threads, YieldToHold(t) PROVE TInv'
  <2>1. pc[t] = "parking" /\ Running(t) \in Fibers
    BY <1>27 DEF YieldToHold
  <2>2. TypeOK'
    BY <1>27, <2>1 DEF YieldToHold, Goto, RunPcs, ActivePcs, States
  <2>3. HasFiber'
    BY <1>27, <2>1 DEF YieldToHold, Goto, Running, NoEntry
  <2> QED
    BY <2>2, <2>3
<1>28. ASSUME NEW t \in Threads, Finish(t) PROVE TInv'
  <2>1. pc[t] = "body" /\ Running(t) \in Fibers
    BY <1>28 DEF Finish
  <2>2. TypeOK'
    BY <1>28, <2>1 DEF Finish, Goto, RunPcs, ActivePcs, States
  <2>3. HasFiber'
    BY <1>28, <2>1 DEF Finish, Goto, Running, NoEntry
  <2> QED
    BY <2>2, <2>3
<1>29. ASSUME NEW t \in Threads, SwitchOut(t) PROVE TInv'
  BY <1>29 DEF SwitchOut, Goto, Running, RunPcs, ActivePcs
<1>30. ASSUME NEW f \in Fibers, Wake(f) PROVE TInv'
  BY <1>30 DEF Wake, FiberEntry, Entry, Running
<1>31. ASSUME UNCHANGED vars PROVE TInv'
  BY <1>31 DEF vars, Running
<1> QED
  BY <1>1, <1>2, <1>3, <1>4, <1>5, <1>6, <1>7, <1>8, <1>9, <1>10, <1>11, <1>12,
     <1>13, <1>14, <1>15, <1>16, <1>17, <1>18, <1>19, <1>20, <1>21, <1>22,
     <1>23, <1>24, <1>25, <1>26, <1>27, <1>28, <1>29, <1>30, <1>31 DEF Next,
     Client, Stop, RunLoop, Body, Terminated

(* The variables keep their types: the queue stays a sequence of entries, every
   fiber state one of Fiber::State, and no loop loses the fiber it runs. *)
THEOREM TypeCorrect == Spec => []TypeOK
<1>1. TInv => TypeOK
  BY DEF TInv
<1> QED
  BY InitTInv, NextTInv, <1>1, PTL DEF Spec

-----------------------------------------------------------------------------
(* The threads at a set of places, and how one thread's move changes their
   number. *)
At(P) == {u \in Threads : pc[u] \in P}

LEMMA CountStep ==
  ASSUME NEW P, NEW t \in Threads, \A u \in Threads \ {t} : pc'[u] = pc[u]
  PROVE  /\ Cardinality(At(P)) \in Int
         /\ (pc[t] \in P <=> pc'[t] \in P) => At(P)' = At(P)
         /\ pc[t] \notin P /\ pc'[t] \in P => Cardinality(At(P)') = Cardinality(At(P)) + 1
         /\ pc[t] \in P /\ pc'[t] \notin P => Cardinality(At(P)') = Cardinality(At(P)) - 1
<1>1. IsFiniteSet(Threads)
  BY ConstantsAssumption, FS_Singleton, FS_EmptySet, FS_Union DEF Threads
<1>2. IsFiniteSet(At(P)) /\ Cardinality(At(P)) \in Nat
  BY <1>1, FS_Subset, FS_CardinalityType DEF At
<1>3. (pc[t] \in P <=> pc'[t] \in P) => At(P)' = At(P)
  BY DEF At
<1>4. pc[t] \notin P /\ pc'[t] \in P => At(P)' = At(P) \cup {t} /\ t \notin At(P)
  BY DEF At
<1>5. pc[t] \in P /\ pc'[t] \notin P => At(P)' = At(P) \ {t} /\ t \in At(P)
  BY DEF At
<1>6. t \notin At(P) => Cardinality(At(P) \cup {t}) = Cardinality(At(P)) + 1
  BY <1>2, FS_AddElement
<1>7. t \in At(P) => Cardinality(At(P) \ {t}) = Cardinality(At(P)) - 1
  BY <1>2, FS_RemoveElement
<1>8. ASSUME pc[t] \notin P, pc'[t] \in P
      PROVE  Cardinality(At(P)') = Cardinality(At(P)) + 1
  BY <1>4, <1>6, <1>8, Zenon
<1>9. ASSUME pc[t] \in P, pc'[t] \notin P
      PROVE  Cardinality(At(P)') = Cardinality(At(P)) - 1
  BY <1>5, <1>7, <1>9, Zenon
<1> QED
  BY <1>2, <1>3, <1>8, <1>9

(* The counters follow a step of t from pc[t] to pc'[t]. *)
LEMMA CountersMove ==
  ASSUME CountersExact, NEW t \in Threads, \A u \in Threads \ {t} : pc'[u] = pc[u],
         m_activeThreadCount' = m_activeThreadCount
           + (IF pc'[t] \in ActivePcs THEN 1 ELSE 0) - (IF pc[t] \in ActivePcs THEN 1 ELSE 0),
         m_idleThreadcount' = m_idleThreadcount
           + (IF pc'[t] = "idle" THEN 1 ELSE 0) - (IF pc[t] = "idle" THEN 1 ELSE 0)
  PROVE  CountersExact'
<1> DEFINE I == {"idle"}
<1>1. /\ m_activeThreadCount = Cardinality(At(ActivePcs))
      /\ m_idleThreadcount = Cardinality(At(I))
  BY DEF CountersExact, At
<1>3. m_activeThreadCount' = Cardinality(At(ActivePcs)')
  <2>1. /\ Cardinality(At(ActivePcs)) \in Int
        /\ (pc[t] \in ActivePcs <=> pc'[t] \in ActivePcs) => At(ActivePcs)' = At(ActivePcs)
        /\ pc[t] \notin ActivePcs /\ pc'[t] \in ActivePcs
             => Cardinality(At(ActivePcs)') = Cardinality(At(ActivePcs)) + 1
        /\ pc[t] \in ActivePcs /\ pc'[t] \notin ActivePcs
             => Cardinality(At(ActivePcs)') = Cardinality(At(ActivePcs)) - 1
    BY CountStep
  <2> QED
    BY <1>1, <2>1
<1>4. m_idleThreadcount' = Cardinality(At(I)')
  <2>1. /\ Cardinality(At(I)) \in Int
        /\ (pc[t] \in I <=> pc'[t] \in I) => At(I)' = At(I)
        /\ pc[t] \notin I /\ pc'[t] \in I => Cardinality(At(I)') = Cardinality(At(I)) + 1
        /\ pc[t] \in I /\ pc'[t] \notin I => Cardinality(At(I)') = Cardinality(At(I)) - 1
    <3> HIDE DEF I
    <3> QED BY CountStep
  <2> QED
    BY <1>1, <2>1
<1> QED
  BY <1>3, <1>4 DEF CountersExact, At

LEMMA InitCounters == Init => CountersExact
<1> SUFFICES ASSUME Init PROVE CountersExact
  OBVIOUS
<1>1. {t \in Threads : pc[t] \in ActivePcs} = {} /\ {t \in Threads : pc[t] = "idle"} = {}
  BY DEF Init, ActivePcs
<1> QED
  BY <1>1, FS_EmptySet DEF Init, CountersExact

LEMMA NextCounters == TypeOK /\ CountersExact /\ [Next]_vars => CountersExact'
<1> SUFFICES ASSUME TypeOK, CountersExact, [Next]_vars PROVE CountersExact'
  OBVIOUS
<1> USE DEF queueVars, fiberVars, loopVars
<1>1. m_activeThreadCount \in Int /\ m_idleThreadcount \in Int /\ pc \in [Threads -> RunPcs]
  BY DEF TypeOK
<1>2. ASSUME UNCHANGED <<pc, m_activeThreadCount, m_idleThreadcount>> PROVE CountersExact'
  BY <1>2 DEF CountersExact
<1>3. ASSUME ClientSchedule PROVE CountersExact'
  BY <1>2, <1>3 DEF ClientSchedule
<1>4. ASSUME ClientScheduleBatch PROVE CountersExact'
  BY <1>2, <1>4 DEF ClientScheduleBatch
<1>5. ASSUME ClientScheduleEnded PROVE CountersExact'
  BY <1>2, <1>5 DEF ClientScheduleEnded
<1>6. ASSUME StopBegin PROVE CountersExact'
  BY <1>2, <1>6 DEF StopBegin
<1>7. ASSUME StopQuick PROVE CountersExact'
  BY <1>2, <1>7 DEF StopQuick
<1>8. ASSUME StopMark PROVE CountersExact'
  BY <1>2, <1>8 DEF StopMark
<1>9. ASSUME StopCheck PROVE CountersExact'
  BY <1>2, <1>9 DEF StopCheck
<1>10. ASSUME StopRooted PROVE CountersExact'
  BY <1>2, <1>10 DEF StopRooted
<1>11. ASSUME StopJoin PROVE CountersExact'
  BY <1>2, <1>11 DEF StopJoin
<1>12. ASSUME Start PROVE CountersExact'
  <2>3. PICK new \in SUBSET {w \in Workers : pc[w] = "off"} :
          pc' = [t \in Threads |-> IF t \in new THEN "scan" ELSE pc[t]]
    BY <1>12 DEF Start
  <2>4. \A w \in new : pc[w] = "off"
    OBVIOUS
  <2>1. \A t \in Threads : pc[t] = pc'[t] \/ (pc[t] = "off" /\ pc'[t] = "scan")
    <3> TAKE t \in Threads
    <3>1. pc'[t] = IF t \in new THEN "scan" ELSE pc[t]
      BY <2>3
    <3> QED
      BY <3>1, <2>4
  <2>2. At(ActivePcs)' = At(ActivePcs) /\ At({"idle"})' = At({"idle"})
    BY <2>1 DEF At, ActivePcs
  <2> QED
    BY <2>2, <1>12 DEF Start, CountersExact, At
<1>13. ASSUME StopCall PROVE CountersExact'
  <2>1. Caller \in Threads \/ pc' = pc
    BY <1>13, <1>1 DEF StopCall
  <2> QED
    BY <2>1, <1>1, <1>2, <1>13, CountersMove DEF StopCall, ActivePcs
<1>14. ASSUME NEW t \in Threads, ScanTake(t) PROVE CountersExact'
  <2>1. /\ pc[t] = "scan" /\ pc'[t] = "got" /\ \A u \in Threads \ {t} : pc'[u] = pc[u]
        /\ m_activeThreadCount' = m_activeThreadCount + 1
        /\ m_idleThreadcount' = m_idleThreadcount
    BY <1>1, <1>14 DEF ScanTake, Goto
  <2> QED
    BY <1>1, <2>1, CountersMove DEF ActivePcs
<1>15. ASSUME NEW t \in Threads, ScanNothing(t) PROVE CountersExact'
  <2>1. /\ pc[t] = "scan" /\ pc'[t] = "notask" /\ \A u \in Threads \ {t} : pc'[u] = pc[u]
        /\ m_activeThreadCount' = m_activeThreadCount
        /\ m_idleThreadcount' = m_idleThreadcount
    BY <1>1, <1>15 DEF ScanNothing, Goto
  <2> QED
    BY <1>1, <2>1, CountersMove DEF ActivePcs
<1>16. ASSUME NEW t \in Threads, ResumeFiber(t) PROVE CountersExact'
  <2>1. /\ pc[t] = "got" /\ pc'[t] = "body" /\ \A u \in Threads \ {t} : pc'[u] = pc[u]
        /\ m_activeThreadCount' = m_activeThreadCount
        /\ m_idleThreadcount' = m_idleThreadcount
    BY <1>1, <1>16 DEF ResumeFiber, Goto
  <2> QED
    BY <1>1, <2>1, CountersMove DEF ActivePcs
<1>17. ASSUME NEW t \in Threads, RunCallback(t) PROVE CountersExact'
  <2>1. /\ pc[t] = "got" /\ pc'[t] = "body" /\ \A u \in Threads \ {t} : pc'[u] = pc[u]
        /\ m_activeThreadCount' = m_activeThreadCount
        /\ m_idleThreadcount' = m_idleThreadcount
    BY <1>1, <1>17 DEF RunCallback, Goto
  <2> QED
    BY <1>1, <2>1, CountersMove DEF ActivePcs
<1>18. ASSUME NEW t \in Threads, DropEnded(t) PROVE CountersExact'
  <2>1. /\ pc[t] = "got" /\ pc'[t] = "scan" /\ \A u \in Threads \ {t} : pc'[u] = pc[u]
        /\ m_activeThreadCount' = m_activeThreadCount - 1
        /\ m_idleThreadcount' = m_idleThreadcount
    BY <1>1, <1>18 DEF DropEnded, Goto
  <2> QED
    BY <1>1, <2>1, CountersMove DEF ActivePcs
<1>19. ASSUME NEW t \in Threads, Leave(t) PROVE CountersExact'
  <2>1. /\ pc[t] = "back" /\ pc'[t] = "post" /\ \A u \in Threads \ {t} : pc'[u] = pc[u]
        /\ m_activeThreadCount' = m_activeThreadCount - 1
        /\ m_idleThreadcount' = m_idleThreadcount
    BY <1>1, <1>19 DEF Leave, Goto
  <2> QED
    BY <1>1, <2>1, CountersMove DEF ActivePcs
<1>20. ASSUME NEW t \in Threads, Requeue(t) PROVE CountersExact'
  <2>1. /\ pc[t] = "post" /\ pc'[t] = "scan" /\ \A u \in Threads \ {t} : pc'[u] = pc[u]
        /\ m_activeThreadCount' = m_activeThreadCount
        /\ m_idleThreadcount' = m_idleThreadcount
    BY <1>1, <1>20 DEF Requeue, Goto
  <2> QED
    BY <1>1, <2>1, CountersMove DEF ActivePcs
<1>21. ASSUME NEW t \in Threads, Release(t) PROVE CountersExact'
  <2>1. /\ pc[t] = "post" /\ pc'[t] = "scan" /\ \A u \in Threads \ {t} : pc'[u] = pc[u]
        /\ m_activeThreadCount' = m_activeThreadCount
        /\ m_idleThreadcount' = m_idleThreadcount
    BY <1>1, <1>21 DEF Release, Goto
  <2> QED
    BY <1>1, <2>1, CountersMove DEF ActivePcs
<1>22. ASSUME NEW t \in Threads, Park(t) PROVE CountersExact'
  <2>1. /\ pc[t] = "post" /\ pc'[t] = "scan" /\ \A u \in Threads \ {t} : pc'[u] = pc[u]
        /\ m_activeThreadCount' = m_activeThreadCount
        /\ m_idleThreadcount' = m_idleThreadcount
    BY <1>1, <1>22 DEF Park, Goto
  <2> QED
    BY <1>1, <2>1, CountersMove DEF ActivePcs
<1>23. ASSUME NEW t \in Threads, EnterIdle(t) PROVE CountersExact'
  <2>1. /\ pc[t] = "notask" /\ pc'[t] = "idle" /\ \A u \in Threads \ {t} : pc'[u] = pc[u]
        /\ m_activeThreadCount' = m_activeThreadCount
        /\ m_idleThreadcount' = m_idleThreadcount + 1
    BY <1>1, <1>23 DEF EnterIdle, Goto
  <2> QED
    BY <1>1, <2>1, CountersMove DEF ActivePcs
<1>24. ASSUME NEW t \in Threads, Idle(t) PROVE CountersExact'
  <2>1. /\ pc[t] = "idle" /\ pc'[t] = "scan" /\ \A u \in Threads \ {t} : pc'[u] = pc[u]
        /\ m_activeThreadCount' = m_activeThreadCount
        /\ m_idleThreadcount' = m_idleThreadcount - 1
    BY <1>1, <1>24 DEF Idle, Goto
  <2> QED
    BY <1>1, <2>1, CountersMove DEF ActivePcs
<1>25. ASSUME NEW t \in Threads, Exit(t) PROVE CountersExact'
  <2>1. /\ pc[t] = "notask" /\ pc'[t] = "done" /\ \A u \in Threads \ {t} : pc'[u] = pc[u]
        /\ m_activeThreadCount' = m_activeThreadCount
        /\ m_idleThreadcount' = m_idleThreadcount
    BY <1>1, <1>25 DEF Exit, Goto
  <2> QED
    BY <1>1, <2>1, CountersMove DEF ActivePcs
<1>26. ASSUME NEW t \in Threads, YieldToReady(t) PROVE CountersExact'
  <2>1. /\ pc[t] = "body" /\ pc'[t] = "switching" /\ \A u \in Threads \ {t} : pc'[u] = pc[u]
        /\ m_activeThreadCount' = m_activeThreadCount
        /\ m_idleThreadcount' = m_idleThreadcount
    BY <1>1, <1>26 DEF YieldToReady, Goto
  <2> QED
    BY <1>1, <2>1, CountersMove DEF ActivePcs
<1>27. ASSUME NEW t \in Threads, ArmWake(t) PROVE CountersExact'
  <2>1. /\ pc[t] = "body" /\ pc'[t] = "parking" /\ \A u \in Threads \ {t} : pc'[u] = pc[u]
        /\ m_activeThreadCount' = m_activeThreadCount
        /\ m_idleThreadcount' = m_idleThreadcount
    BY <1>1, <1>27 DEF ArmWake, Goto
  <2> QED
    BY <1>1, <2>1, CountersMove DEF ActivePcs
<1>28. ASSUME NEW t \in Threads, YieldToHold(t) PROVE CountersExact'
  <2>1. /\ pc[t] = "parking" /\ pc'[t] = "switching" /\ \A u \in Threads \ {t} : pc'[u] = pc[u]
        /\ m_activeThreadCount' = m_activeThreadCount
        /\ m_idleThreadcount' = m_idleThreadcount
    BY <1>1, <1>28 DEF YieldToHold, Goto
  <2> QED
    BY <1>1, <2>1, CountersMove DEF ActivePcs
<1>29. ASSUME NEW t \in Threads, Finish(t) PROVE CountersExact'
  <2>1. /\ pc[t] = "body" /\ pc'[t] = "switching" /\ \A u \in Threads \ {t} : pc'[u] = pc[u]
        /\ m_activeThreadCount' = m_activeThreadCount
        /\ m_idleThreadcount' = m_idleThreadcount
    BY <1>1, <1>29 DEF Finish, Goto
  <2> QED
    BY <1>1, <2>1, CountersMove DEF ActivePcs
<1>30. ASSUME NEW t \in Threads, SwitchOut(t) PROVE CountersExact'
  <2>1. /\ pc[t] = "switching" /\ pc'[t] = "back" /\ \A u \in Threads \ {t} : pc'[u] = pc[u]
        /\ m_activeThreadCount' = m_activeThreadCount
        /\ m_idleThreadcount' = m_idleThreadcount
    BY <1>1, <1>30 DEF SwitchOut, Goto
  <2> QED
    BY <1>1, <2>1, CountersMove DEF ActivePcs
<1>31. ASSUME NEW t \in Threads, BodySchedule(t) PROVE CountersExact'
  BY <1>2, <1>31 DEF BodySchedule
<1>32. ASSUME NEW f \in Fibers, Wake(f) PROVE CountersExact'
  BY <1>2, <1>32 DEF Wake
<1>33. ASSUME UNCHANGED vars PROVE CountersExact'
  BY <1>2, <1>33 DEF vars
<1> QED
  BY <1>3, <1>4, <1>5, <1>6, <1>7, <1>8, <1>9, <1>10, <1>11, <1>12, <1>13,
     <1>14, <1>15, <1>16, <1>17, <1>18, <1>19, <1>20, <1>21, <1>22, <1>23,
     <1>24, <1>25, <1>26, <1>27, <1>28, <1>29, <1>30, <1>31, <1>32, <1>33 DEF
     Next, Client, Stop, RunLoop, Body, Terminated

(* m_activeThreadCount and m_idleThreadcount count exactly the loops that hold a
   task and the loops that idle: every ++ of Scheduler::run meets its --. *)
THEOREM CountersCorrect == Spec => []CountersExact
<1>1. TInv => TypeOK
  BY DEF TInv
<1>2. TInv /\ CountersExact /\ [Next]_vars => CountersExact'
  BY <1>1, NextCounters
<1> QED
  BY InitTInv, NextTInv, InitCounters, <1>2, PTL DEF Spec

-----------------------------------------------------------------------------
(* A fiber is in one place: the proof. *)

(* A run loop that has a task in hand, or the fiber of one. *)
BusyPcs == ActivePcs \cup {"post"}
ParkPcs == {"parking", "switching", "back", "post"}
Unplaced(f) == Queued(f) = {} /\ Owners(f) = {} /\ f \notin armed
EntryShape(e) == e.cb # None => e.fiber = None

(* A thread holds an entry only while it is busy, and beside it at most the
   fiber it keeps for callbacks, which is another one. *)
ThreadOwns(t) ==
  /\ cb_fiber[t] \in PoolFibers \cup {None}
  /\ ft[t].fiber # None => pc[t] \in BusyPcs /\ cb_fiber[t] # ft[t].fiber
  /\ EntryShape(ft[t])

(* InOnePlace for one fiber, with what a parked fiber's state and thread are, and the fibers
   that are nowhere yet. *)
FiberOwned(f) ==
  /\ \A i, j \in Queued(f) : i = j
  /\ \A t, u \in Owners(f) : t = u
  /\ Queued(f) # {} => Owners(f) = {} /\ f \notin armed
  /\ f \in armed => m_state[f] \in {"EXEC", "HOLD"}
  /\ f \in armed => \A t \in Owners(f) : Running(t) = f /\ pc[t] \in ParkPcs
  /\ m_state[f] = "FREE" => f \in PoolFibers /\ Unplaced(f)
  /\ f \in fresh => Unplaced(f) /\ m_state[f] \notin Ended

EntriesShaped == \A i \in 1..Len(m_fibers) : EntryShape(m_fibers[i])
OwnInv ==
  /\ EntriesShaped
  /\ \A t \in Threads : ThreadOwns(t)
  /\ \A f \in Fibers : FiberOwned(f)
  /\ StateAssertions

(* The strengthened invariant implies the property. *)
LEMMA OwnInvOneOwner == OwnInv => OneOwner
<1> SUFFICES ASSUME OwnInv PROVE OneOwner
  OBVIOUS
<1>1. ASSUME NEW f \in Fibers
      PROVE  /\ \A i, j \in Queued(f) : i = j
             /\ \A t, u \in Owners(f) : t = u
             /\ Queued(f) # {} => Owners(f) = {} /\ f \notin armed
             /\ f \in armed => \A t \in Owners(f) : pc[t] \in {"parking", "switching", "back", "post"}
  <2>1. FiberOwned(f)
    BY DEF OwnInv
  <2> QED
    BY <2>1, Zenon DEF FiberOwned, ParkPcs
<1>2. InOnePlace
  BY <1>1, Zenon DEF InOnePlace
<1> QED
  BY <1>2 DEF OwnInv, OneOwner

(* Before start() no thread holds a fiber and nothing is queued. *)
LEMMA InitOwnInv == Init => OwnInv
<1> SUFFICES ASSUME Init PROVE OwnInv
  OBVIOUS
<1>1. m_fibers = <<>> /\ armed = {} /\ \A t \in Threads : ft[t] = NoEntry /\ cb_fiber[t] = None /\ pc[t] = "off"
  BY DEF Init
<1>2. \A f \in Fibers : Unplaced(f)
  BY <1>1, ConstantsAssumption DEF Unplaced, Queued, Owners, NoEntry
<1>3. \A f \in Fibers : m_state[f] = "FREE" => f \in PoolFibers
  BY DEF Init, Fibers
<1>6. \A f \in Fibers : m_state[f] \notin Ended
  BY DEF Init, Ended
<1>4. \A f \in Fibers : FiberOwned(f)
  BY <1>2, <1>3, <1>6 DEF FiberOwned, Unplaced
<1>5. \A t \in Threads : ThreadOwns(t)
  BY <1>1 DEF ThreadOwns, EntryShape, NoEntry
<1> QED
  BY <1>1, <1>4, <1>5 DEF OwnInv, EntriesShaped, StateAssertions

(* What appending entries does to the places of a fiber. *)
LEMMA AppendQueued ==
  ASSUME m_fibers \in Seq(Entry), NEW s \in Seq(Entry), m_fibers' = m_fibers \o s, NEW f \in Fibers
  PROVE  /\ (\A i \in 1..Len(s) : s[i].fiber # f) => Queued(f)' = Queued(f)
         /\ (\A i, j \in 1..Len(s) : s[i].fiber = f /\ s[j].fiber = f => i = j) /\ Queued(f) = {}
              => \A i, j \in Queued(f)' : i = j
<1>1. /\ Len(m_fibers') = Len(m_fibers) + Len(s) /\ Len(m_fibers) \in Nat /\ Len(s) \in Nat
      /\ \A i \in 1..Len(m_fibers) : m_fibers'[i] = m_fibers[i]
      /\ \A i \in 1..Len(m_fibers') : i > Len(m_fibers) => m_fibers'[i] = s[i - Len(m_fibers)]
  OBVIOUS
<1>2. \A i \in 1..Len(m_fibers') : i > Len(m_fibers) => i - Len(m_fibers) \in 1..Len(s)
  BY <1>1
<1>3. ASSUME \A i \in 1..Len(s) : s[i].fiber # f PROVE Queued(f)' = Queued(f)
  BY <1>1, <1>2, <1>3 DEF Queued
<1>4. ASSUME \A i, j \in 1..Len(s) : s[i].fiber = f /\ s[j].fiber = f => i = j, Queued(f) = {}
      PROVE  \A i, j \in Queued(f)' : i = j
  <2>1. \A i \in Queued(f)' : i \in 1..Len(m_fibers') /\ i > Len(m_fibers) /\ s[i - Len(m_fibers)].fiber = f
    BY <1>1, <1>4 DEF Queued
  <2>2. TAKE i, j \in Queued(f)'
  <2>3. i - Len(m_fibers) = j - Len(m_fibers)
    BY <2>1, <2>2, <1>2, <1>4
  <2> QED
    BY <2>1, <2>2, <2>3, <1>1
<1> QED
  BY <1>3, <1>4

(* Appended entries are a fiber or a callback, as ItemEntry and FiberEntry build them. *)
LEMMA AppendShaped ==
  ASSUME m_fibers \in Seq(Entry), NEW s \in Seq(Entry), m_fibers' = m_fibers \o s,
         EntriesShaped, \A i \in 1..Len(s) : EntryShape(s[i])
  PROVE  EntriesShaped'
<1>1. /\ Len(m_fibers') = Len(m_fibers) + Len(s) /\ Len(m_fibers) \in Nat /\ Len(s) \in Nat
      /\ \A i \in 1..Len(m_fibers) : m_fibers'[i] = m_fibers[i]
      /\ \A i \in 1..Len(m_fibers') : i > Len(m_fibers) => m_fibers'[i] = s[i - Len(m_fibers)]
  OBVIOUS
<1>2. \A i \in 1..Len(m_fibers') : i > Len(m_fibers) => i - Len(m_fibers) \in 1..Len(s)
  BY <1>1
<1> QED
  BY <1>1, <1>2 DEF EntriesShaped, EntryShape

(* What the scan's erase does to the places of a fiber: taking its entry takes its only one. *)
LEMMA RemoveQueued ==
  ASSUME m_fibers \in Seq(Entry), NEW k \in 1..Len(m_fibers), m_fibers' = RemoveAt(m_fibers, k),
         NEW f \in Fibers, \A i, j \in Queued(f) : i = j
  PROVE  /\ m_fibers[k].fiber # f => (Queued(f)' = {} <=> Queued(f) = {})
         /\ m_fibers[k].fiber = f => Queued(f) # {} /\ Queued(f)' = {}
         /\ \A i, j \in Queued(f)' : i = j
         /\ EntriesShaped => EntriesShaped'
<1>1. /\ Len(m_fibers') = Len(m_fibers) - 1 /\ Len(m_fibers) \in Nat
      /\ \A i \in 1..Len(m_fibers') : m_fibers'[i] = IF i < k THEN m_fibers[i] ELSE m_fibers[i + 1]
  BY RemoveAtFacts
<1>2. \A i \in Queued(f)' : i \in Nat /\ (IF i < k THEN i ELSE i + 1) \in Queued(f)
  BY <1>1 DEF Queued
<1>3. \A i \in Queued(f) : i # k => (IF i < k THEN i ELSE i - 1) \in Queued(f)'
  BY <1>1 DEF Queued
<1>4. m_fibers[k].fiber = f => k \in Queued(f)
  BY DEF Queued
<1>5. m_fibers[k].fiber # f => k \notin Queued(f)
  BY DEF Queued
<1>6. \A i, j \in Queued(f)' : i = j
  BY <1>2
<1>7. m_fibers[k].fiber = f => Queued(f)' = {}
  <2> SUFFICES ASSUME m_fibers[k].fiber = f, NEW i \in Queued(f)' PROVE FALSE
    OBVIOUS
  <2>1. (IF i < k THEN i ELSE i + 1) = k
    BY <1>2, <1>4
  <2> QED
    BY <2>1, <1>2
<1>8. m_fibers[k].fiber # f => (Queued(f)' = {} <=> Queued(f) = {})
  <2>1. Queued(f) = {} => Queued(f)' = {}
    BY <1>2
  <2>2. m_fibers[k].fiber # f /\ Queued(f) # {} => Queued(f)' # {}
    BY <1>3, <1>5
  <2> QED
    BY <2>1, <2>2
<1>9. EntriesShaped => EntriesShaped'
  BY <1>1, SMTT(30) DEF EntriesShaped, EntryShape
<1> QED
  BY <1>4, <1>6, <1>7, <1>8, <1>9

(* A fiber that a step leaves where it is. *)
LEMMA FiberKept ==
  ASSUME NEW f \in Fibers, FiberOwned(f), Queued(f)' = {} <=> Queued(f) = {},
         \A i, j \in Queued(f)' : i = j, Owners(f)' = Owners(f), f \in armed' <=> f \in armed,
         m_state'[f] = m_state[f], fresh' \subseteq fresh,
         f \in armed => \A t \in Owners(f) : Running(t)' = f /\ pc'[t] \in ParkPcs
  PROVE  FiberOwned(f)'
BY DEF FiberOwned, Unplaced

(* A thread that a step leaves what it holds. *)
LEMMA ThreadKept ==
  ASSUME NEW t \in Threads, ThreadOwns(t), ft'[t] = ft[t], cb_fiber'[t] = cb_fiber[t],
         pc[t] \in BusyPcs => pc'[t] \in BusyPcs
  PROVE  ThreadOwns(t)'
BY DEF ThreadOwns, EntryShape

(* Steps of loops that move no fiber. *)
LEMMA LoopStep ==
  ASSUME OwnInv, UNCHANGED <<m_fibers, m_state, ft, cb_fiber, armed>>, fresh' \subseteq fresh,
         \A t \in Threads : \/ pc'[t] = pc[t]
                            \/ pc[t] \notin BusyPcs /\ pc'[t] \notin BusyPcs
                            \/ pc[t] \in ParkPcs /\ pc'[t] \in {"back", "post"}
  PROVE  OwnInv'
<1>1. ASSUME NEW f \in Fibers PROVE FiberOwned(f)'
  <2>1. FiberOwned(f)
    BY DEF OwnInv
  <2>2. Queued(f)' = Queued(f) /\ Owners(f)' = Owners(f)
    BY DEF Queued, Owners
  <2>3. \A i, j \in Queued(f)' : i = j
    BY <2>1, <2>2 DEF FiberOwned
  <2>4. f \in armed => \A t \in Owners(f) : t \in Threads /\ Running(t) = f /\ pc[t] \in ParkPcs
    BY <2>1 DEF FiberOwned, Owners
  <2>5. f \in armed => \A t \in Owners(f) : Running(t)' = f /\ pc'[t] \in ParkPcs
    BY <2>4 DEF Running, ParkPcs, BusyPcs, ActivePcs
  <2> QED
    BY <2>1, <2>2, <2>3, <2>5, FiberKept
<1>2. ASSUME NEW t \in Threads PROVE ThreadOwns(t)'
  <2>1. ThreadOwns(t)
    BY DEF OwnInv
  <2> QED
    BY <2>1, ThreadKept DEF BusyPcs, ActivePcs
<1>3. StateAssertions'
  BY DEF OwnInv, StateAssertions, Running, BusyPcs, ActivePcs
<1> QED
  BY <1>1, <1>2, <1>3 DEF OwnInv, EntriesShaped

(* Steps that put entries into the queue: the fibers among them were nowhere, or are
   just given up by the wake-up they waited for. *)
LEMMA QueueStep ==
  ASSUME OwnInv, m_fibers \in Seq(Entry), NEW s \in Seq(Entry), m_fibers' = m_fibers \o s,
         UNCHANGED <<m_state, ft, cb_fiber, pc>>, fresh' \subseteq fresh, armed' \subseteq armed,
         \A i \in 1..Len(s) : EntryShape(s[i]),
         \A i, j \in 1..Len(s) : s[i].fiber \in Fibers /\ s[i].fiber = s[j].fiber => i = j,
         \A i \in 1..Len(s) : s[i].fiber \in Fibers =>
           /\ Queued(s[i].fiber) = {} /\ Owners(s[i].fiber) = {}
           /\ s[i].fiber \notin armed' \cup fresh' /\ m_state[s[i].fiber] # "FREE",
         \A f \in armed \ armed' : \E i \in 1..Len(s) : s[i].fiber = f
  PROVE  OwnInv'
<1>1. ASSUME NEW f \in Fibers PROVE FiberOwned(f)'
  <2>1. FiberOwned(f)
    BY DEF OwnInv
  <2>2. Owners(f)' = Owners(f)
    BY DEF Owners
  <2>3. CASE \A i \in 1..Len(s) : s[i].fiber # f
    <3>1. Queued(f)' = Queued(f)
      BY <2>3, AppendQueued
    <3>2. \A i, j \in Queued(f)' : i = j
      BY <2>1, <3>1 DEF FiberOwned
    <3>3. f \in armed => \A t \in Owners(f) : Running(t)' = f /\ pc'[t] \in ParkPcs
      BY <2>1 DEF FiberOwned, Running
    <3>4. f \in armed' <=> f \in armed
      BY <2>3
    <3> QED
      BY <2>1, <2>2, <3>1, <3>2, <3>3, <3>4, FiberKept
  <2>4. CASE \E i \in 1..Len(s) : s[i].fiber = f
    <3>1. Queued(f) = {} /\ Owners(f) = {} /\ f \notin armed' \cup fresh' /\ m_state[f] # "FREE"
      BY <2>4
    <3>2. \A i, j \in 1..Len(s) : s[i].fiber = f /\ s[j].fiber = f => i = j
      OBVIOUS
    <3>3. \A i, j \in Queued(f)' : i = j
      BY <3>1, <3>2, AppendQueued
    <3> QED
      BY <2>2, <3>1, <3>3 DEF FiberOwned
  <2> QED
    BY <2>3, <2>4
<1>2. \A t \in Threads : ThreadOwns(t)'
  BY DEF OwnInv, ThreadOwns, EntryShape
<1>3. StateAssertions'
  BY DEF OwnInv, StateAssertions, Running
<1>4. EntriesShaped'
  BY AppendShaped DEF OwnInv
<1> QED
  BY <1>1, <1>2, <1>3, <1>4 DEF OwnInv

(* One entry appended, for a fiber that was not queued. *)
LEMMA AppendOne ==
  ASSUME m_fibers \in Seq(Entry), NEW e \in Entry, m_fibers' = Append(m_fibers, e),
         EntriesShaped, EntryShape(e), NEW g \in Fibers, e.fiber = g, Queued(g) = {}
  PROVE  /\ \A f \in Fibers \ {g} : Queued(f)' = Queued(f)
         /\ \A i, j \in Queued(g)' : i = j
         /\ EntriesShaped'
<1> DEFINE s == <<e>>
<1>1. s \in Seq(Entry) /\ Len(s) = 1 /\ s[1] = e
  OBVIOUS
<1>2. Append(m_fibers, e) = m_fibers \o s
  OBVIOUS
<1> HIDE DEF s
<1>3. \A i \in 1..Len(s) : i = 1 /\ s[i] = e
  BY <1>1
<1>4. \A f \in Fibers \ {g} : Queued(f)' = Queued(f)
  BY <1>1, <1>2, <1>3, AppendQueued
<1>5. \A i, j \in Queued(g)' : i = j
  BY <1>1, <1>2, <1>3, AppendQueued
<1>6. EntriesShaped'
  BY <1>1, <1>2, <1>3, AppendShaped
<1> QED
  BY <1>4, <1>5, <1>6

(* QueueStep for one entry: schedule() of one item and the wake-up of a parked fiber. *)
LEMMA QueueOne ==
  ASSUME OwnInv, m_fibers \in Seq(Entry), NEW e \in Entry, m_fibers' = Append(m_fibers, e),
         UNCHANGED <<m_state, ft, cb_fiber, pc>>, fresh' \subseteq fresh, armed' \subseteq armed,
         EntryShape(e),
         e.fiber \in Fibers => /\ Queued(e.fiber) = {} /\ Owners(e.fiber) = {}
                               /\ e.fiber \notin armed' \cup fresh' /\ m_state[e.fiber] # "FREE",
         \A f \in armed \ armed' : e.fiber = f
  PROVE  OwnInv'
<1> DEFINE s == <<e>>
<1>1. s \in Seq(Entry) /\ Len(s) = 1 /\ s[1] = e
  OBVIOUS
<1>2. Append(m_fibers, e) = m_fibers \o s
  OBVIOUS
<1> HIDE DEF s
<1>3. 1 \in 1..Len(s) /\ \A i \in 1..Len(s) : i = 1 /\ s[i] = e
  BY <1>1
<1>4. /\ \A i \in 1..Len(s) : EntryShape(s[i])
      /\ \A i, j \in 1..Len(s) : s[i].fiber \in Fibers /\ s[i].fiber = s[j].fiber => i = j
      /\ \A i \in 1..Len(s) : s[i].fiber \in Fibers =>
           /\ Queued(s[i].fiber) = {} /\ Owners(s[i].fiber) = {}
           /\ s[i].fiber \notin armed' \cup fresh' /\ m_state[s[i].fiber] # "FREE"
      /\ \A f \in armed \ armed' : \E i \in 1..Len(s) : s[i].fiber = f
  BY <1>3
<1> QED
  BY <1>1, <1>2, <1>4, QueueStep

(* Steps in which thread t goes on with the fiber g it runs, and writes its state. *)
LEMMA BodyStep ==
  ASSUME TInv, OwnInv, NEW t \in Threads, NEW g \in Fibers, Running(t) = g, pc[t] \in BusyPcs,
         UNCHANGED <<m_fibers, ft, cb_fiber>>, fresh' \subseteq fresh, armed \subseteq armed',
         armed' \subseteq armed \cup {g}, pc'[t] \in ParkPcs \cup {"body"}, \A u \in Threads \ {t} : pc'[u] = pc[u],
         \A f \in Fibers \ {g} : m_state'[f] = m_state[f],
         m_state'[g] # "FREE", g \in armed' => m_state'[g] \in {"EXEC", "HOLD"},
         pc'[t] \in {"body", "parking"} => m_state'[g] = "EXEC", g \in armed' => pc'[t] \in ParkPcs
  PROVE  OwnInv'
<1>0. t \in Owners(g)
  BY DEF Running, Owners
<1>1. ASSUME NEW f \in Fibers, f # g PROVE FiberOwned(f)'
  <2>1. FiberOwned(f)
    BY DEF OwnInv
  <2>2. Queued(f)' = Queued(f) /\ Owners(f)' = Owners(f)
    BY DEF Queued, Owners
  <2>3. \A i, j \in Queued(f)' : i = j
    BY <2>1, <2>2 DEF FiberOwned
  <2>4. f \in armed => \A u \in Owners(f) : u \in Threads \ {t} /\ Running(u) = f /\ pc[u] \in ParkPcs
    BY <1>1, <2>1 DEF FiberOwned, Owners
  <2>5. f \in armed => \A u \in Owners(f) : Running(u)' = f /\ pc'[u] \in ParkPcs
    BY <2>4 DEF Running
  <2>6. (f \in armed' <=> f \in armed) /\ m_state'[f] = m_state[f]
    BY <1>1
  <2> QED
    BY <2>1, <2>2, <2>3, <2>5, <2>6, FiberKept
<1>2. FiberOwned(g)'
  <2>1. FiberOwned(g)
    BY DEF OwnInv
  <2>2. Queued(g)' = Queued(g) /\ Owners(g)' = Owners(g)
    BY DEF Queued, Owners
  <2>3. Queued(g) = {} /\ Owners(g) = {t} /\ g \notin fresh
    BY <2>1, <1>0 DEF FiberOwned, Unplaced
  <2>4. Running(t)' = g
    BY DEF Running
  <2> QED
    BY <2>2, <2>3, <2>4 DEF FiberOwned
<1>3. ASSUME NEW u \in Threads PROVE ThreadOwns(u)'
  <2>1. ThreadOwns(u)
    BY DEF OwnInv
  <2>2. pc[u] \in BusyPcs => pc'[u] \in BusyPcs
    BY DEF ParkPcs, BusyPcs, ActivePcs
  <2> QED
    BY <2>1, <2>2, ThreadKept
<1>4. StateAssertions'
  <2>1. ASSUME NEW u \in Threads, pc'[u] \in {"body", "parking"} PROVE m_state'[Running(u)'] = "EXEC"
    <3>1. CASE u = t
      BY <2>1, <3>1 DEF Running, ParkPcs
    <3>2. CASE u # t
      <4>1. pc[u] \in {"body", "parking"} /\ Running(u)' = Running(u) /\ m_state[Running(u)] = "EXEC"
        BY <2>1, <3>2 DEF OwnInv, StateAssertions, Running
      <4>2. Running(u) \in Fibers /\ u \in Owners(Running(u))
        BY <4>1 DEF TInv, HasFiber, OnFiberPcs, Owners, Running
      <4>3. Running(u) # g
        BY <1>0, <3>2, <4>2 DEF OwnInv, FiberOwned
      <4> QED
        BY <4>1, <4>2, <4>3
    <3> QED
      BY <3>1, <3>2
  <2>2. ASSUME NEW u \in Threads, pc'[u] = "got", ft'[u].fiber # None PROVE m_state'[ft'[u].fiber] # "EXEC"
    <3>1. u # t /\ pc[u] = "got" /\ m_state[ft[u].fiber] # "EXEC"
      BY <2>2 DEF ParkPcs, OwnInv, StateAssertions
    <3>2. ft[u].fiber \in Fibers /\ u \in Owners(ft[u].fiber)
      BY <2>2 DEF TInv, TypeOK, Entry, Owners
    <3>3. ft[u].fiber # g
      BY <1>0, <3>1, <3>2 DEF OwnInv, FiberOwned
    <3> QED
      BY <3>1, <3>2, <3>3
  <2> QED
    BY <2>1, <2>2 DEF StateAssertions
<1> QED
  BY <1>1, <1>2, <1>3, <1>4 DEF OwnInv, EntriesShaped

(* Who holds a fiber after a step that may change the entry and the callback fiber of
   thread t only. *)
LEMMA OwnersOf ==
  ASSUME NEW t \in Threads, NEW f \in Fibers,
         \A u \in Threads \ {t} : ft'[u] = ft[u] /\ cb_fiber'[u] = cb_fiber[u]
  PROVE  /\ Owners(f)' \ {t} = Owners(f) \ {t}
         /\ t \in Owners(f)' <=> ft'[t].fiber = f \/ cb_fiber'[t] = f
         /\ (t \in Owners(f)' <=> t \in Owners(f)) => Owners(f)' = Owners(f)
<1>1. \A u \in Threads \ {t} : u \in Owners(f)' <=> u \in Owners(f)
  BY DEF Owners
<1>2. Owners(f) \subseteq Threads /\ Owners(f)' \subseteq Threads
  BY DEF Owners
<1>3. Owners(f)' \ {t} = Owners(f) \ {t}
  BY <1>1, <1>2
<1>4. t \in Owners(f)' <=> ft'[t].fiber = f \/ cb_fiber'[t] = f
  BY DEF Owners
<1>5. ASSUME t \in Owners(f)' <=> t \in Owners(f) PROVE Owners(f)' = Owners(f)
  BY <1>1, <1>2, <1>5
<1> QED
  BY <1>3, <1>4, <1>5

(* Assertions of the threads other than t, whose fibers t does not write. *)
LEMMA OthersAssert ==
  ASSUME TInv, OwnInv, NEW t \in Threads, NEW u \in Threads, u # t,
         pc'[u] = pc[u], ft'[u] = ft[u], cb_fiber'[u] = cb_fiber[u],
         \A f \in Fibers : u \in Owners(f) => m_state'[f] = m_state[f]
  PROVE  /\ pc'[u] \in {"body", "parking"} => m_state'[Running(u)'] = "EXEC"
         /\ pc'[u] = "got" /\ ft'[u].fiber # None => m_state'[ft'[u].fiber] # "EXEC"
<1>1. ASSUME pc'[u] \in {"body", "parking"} PROVE m_state'[Running(u)'] = "EXEC"
  <2>1. Running(u)' = Running(u) /\ m_state[Running(u)] = "EXEC"
    BY <1>1 DEF OwnInv, StateAssertions, Running
  <2>2. Running(u) \in Fibers /\ u \in Owners(Running(u))
    BY <1>1 DEF TInv, HasFiber, OnFiberPcs, Owners, Running
  <2> QED
    BY <2>1, <2>2
<1>2. ASSUME pc'[u] = "got", ft'[u].fiber # None PROVE m_state'[ft'[u].fiber] # "EXEC"
  <2>1. m_state[ft[u].fiber] # "EXEC"
    BY <1>2 DEF OwnInv, StateAssertions
  <2>2. ft[u].fiber \in Fibers /\ u \in Owners(ft[u].fiber)
    BY <1>2 DEF TInv, TypeOK, Entry, Owners
  <2> QED
    BY <2>1, <2>2
<1> QED
  BY <1>1, <1>2

(* Steps in which thread t gives up the fiber g. *)
LEMMA GiveUpStep ==
  ASSUME TInv, OwnInv, NEW t \in Threads, NEW g \in Fibers, Running(t) = g,
         ft' = [ft EXCEPT ![t] = NoEntry], pc' = [pc EXCEPT ![t] = "scan"],
         \/ cb_fiber' = cb_fiber
         \/ ft[t].fiber = None /\ cb_fiber' = [cb_fiber EXCEPT ![t] = None],
         UNCHANGED <<armed, fresh>>, \A f \in Fibers \ {g} : m_state'[f] = m_state[f],
         \A f \in Fibers \ {g} : Queued(f)' = Queued(f),
         EntriesShaped', FiberOwned(g)'
  PROVE  OwnInv'
<1>0. ft \in [Threads -> Entry] /\ cb_fiber \in [Threads -> Fibers \cup {None}] /\ pc \in [Threads -> RunPcs]
  BY DEF TInv, TypeOK
<1>1. /\ ft'[t] = NoEntry /\ pc'[t] = "scan" /\ t \in Owners(g)
      /\ \A u \in Threads \ {t} : ft'[u] = ft[u] /\ cb_fiber'[u] = cb_fiber[u] /\ pc'[u] = pc[u]
  BY <1>0 DEF Owners, Running
<1>2. ASSUME NEW f \in Fibers, f # g PROVE FiberOwned(f)'
  <2>1. FiberOwned(f)
    BY DEF OwnInv
  <2>2. t \in Owners(f)' <=> t \in Owners(f)
    BY <1>0, <1>1, <1>2, ConstantsAssumption DEF Owners, Running, NoEntry
  <2>3. Owners(f)' = Owners(f)
    BY <1>1, <2>2, OwnersOf
  <2>4. Queued(f)' = Queued(f) /\ \A i, j \in Queued(f)' : i = j
    BY <1>2, <2>1 DEF FiberOwned
  <2>5. f \in armed => \A u \in Owners(f) : u \in Threads \ {t} /\ Running(u) = f /\ pc[u] \in ParkPcs
    BY <1>2, <2>1 DEF FiberOwned, Owners
  <2>6. f \in armed => \A u \in Owners(f) : Running(u)' = f /\ pc'[u] \in ParkPcs
    BY <1>1, <2>5 DEF Running
  <2> QED
    BY <1>2, <2>1, <2>3, <2>4, <2>6, FiberKept
<1>3. ASSUME NEW u \in Threads PROVE ThreadOwns(u)'
  <2>1. ThreadOwns(u)
    BY DEF OwnInv
  <2>2. CASE u = t
    BY <1>0, <1>1, <2>1, <2>2 DEF ThreadOwns, NoEntry, EntryShape
  <2>3. CASE u # t
    BY <1>1, <2>1, <2>3, ThreadKept
  <2> QED
    BY <2>2, <2>3
<1>4. StateAssertions'
  <2>1. ASSUME NEW u \in Threads
        PROVE  /\ pc'[u] \in {"body", "parking"} => m_state'[Running(u)'] = "EXEC"
               /\ pc'[u] = "got" /\ ft'[u].fiber # None => m_state'[ft'[u].fiber] # "EXEC"
    <3>1. CASE u = t
      BY <1>1, <3>1
    <3>2. CASE u # t
      <4>1. \A f \in Fibers : u \in Owners(f) => m_state'[f] = m_state[f]
        BY <1>1, <3>2 DEF OwnInv, FiberOwned
      <4> QED
        BY <1>1, <3>2, <4>1, OthersAssert
    <3> QED
      BY <3>1, <3>2
  <2> QED
    BY <2>1 DEF StateAssertions
<1> QED
  BY <1>2, <1>3, <1>4 DEF OwnInv

(* The fiber that t gives up is nobody's then. *)
LEMMA GivenUp ==
  ASSUME TInv, OwnInv, NEW t \in Threads, NEW g \in Fibers, Running(t) = g, 
         ft' = [ft EXCEPT ![t] = NoEntry],
         \/ cb_fiber' = cb_fiber
         \/ ft[t].fiber = None /\ cb_fiber' = [cb_fiber EXCEPT ![t] = None]
  PROVE  /\ Queued(g) = {} /\ Owners(g) = {t} /\ g \notin fresh
         /\ m_state[g] # "FREE"
         /\ ft[t].fiber = g \/ cb_fiber' # cb_fiber => Owners(g)' = {}
         /\ Owners(g)' \subseteq {t}
<1>0. ft \in [Threads -> Entry] /\ cb_fiber \in [Threads -> Fibers \cup {None}]
  BY DEF TInv, TypeOK
<1>1. /\ ft'[t] = NoEntry /\ t \in Owners(g)
      /\ \A u \in Threads \ {t} : ft'[u] = ft[u] /\ cb_fiber'[u] = cb_fiber[u]
  BY <1>0 DEF Owners, Running
<1>2. FiberOwned(g) /\ ThreadOwns(t)
  BY DEF OwnInv
<1>3. Queued(g) = {} /\ Owners(g) = {t} /\ g \notin fresh /\ m_state[g] # "FREE"
  BY <1>1, <1>2 DEF FiberOwned, Unplaced
<1>4. Owners(g)' \subseteq {t} /\ (t \in Owners(g)' <=> ft'[t].fiber = g \/ cb_fiber'[t] = g)
  BY <1>1, <1>3, OwnersOf
<1>5. ft[t].fiber = g \/ cb_fiber' # cb_fiber => cb_fiber'[t] # g
  BY <1>0, <1>2, ConstantsAssumption DEF ThreadOwns
<1>6. ft'[t].fiber # g
  BY <1>1, ConstantsAssumption DEF NoEntry
<1> QED
  BY <1>3, <1>4, <1>5, <1>6

(* Every step of the client, the loops, the fibers and the wake-ups keeps a fiber in one
   place, when wake-ups come after the loop let go. *)
LEMMA NextOwnInv ==
  ASSUME EarlyWake = FALSE
  PROVE  TInv /\ OwnInv /\ [Next]_vars => OwnInv'
<1> SUFFICES ASSUME TInv, OwnInv, [Next]_vars PROVE OwnInv'
  OBVIOUS
<1> USE DEF queueVars, fiberVars, loopVars
<1>0. /\ m_fibers \in Seq(Entry) /\ pc \in [Threads -> RunPcs] /\ ft \in [Threads -> Entry]
      /\ m_state \in [Fibers -> States] /\ cb_fiber \in [Threads -> Fibers \cup {None}]
      /\ fresh \subseteq Work /\ m_threads \subseteq Threads
  BY DEF TInv, TypeOK, Threads
<1>1. None \notin Fibers /\ Fibers \cap Callbacks = {} /\ ClientFibers \cap PoolFibers = {} /\ None \notin Work
  BY ConstantsAssumption
<1>2. \A t \in Threads : pc[t] \in OnFiberPcs =>
        Running(t) \in Fibers /\ t \in Owners(Running(t)) /\ FiberOwned(Running(t))
  BY DEF TInv, HasFiber, Owners, Running, OwnInv
<1>3. \A t \in Threads : pc[t] \in {"body", "got"} => \A f \in armed : t \notin Owners(f)
  BY DEF OwnInv, FiberOwned, ParkPcs, TInv, TypeOK
<1>4. \A f \in ClientFibers : m_state[f] # "FREE"
  BY <1>1 DEF OwnInv, FiberOwned, Fibers
<1>5. \A w \in Work, th \in PinTargets : ItemEntry(w, th) \in Entry /\ EntryShape(ItemEntry(w, th))
  BY <1>0, <1>1 DEF ItemEntry, FiberEntry, Entry, EntryShape, Work, Fibers, PinTargets, Threads
<1>6. \A f \in Fibers, th \in PinTargets \cup {AnyThread} :
         FiberEntry(f, th) \in Entry /\ EntryShape(FiberEntry(f, th))
  BY <1>0 DEF FiberEntry, Entry, EntryShape, PinTargets, Threads
(* schedule(), from wherever it is called *)
<1>8. ASSUME NEW w \in fresh, NEW th \in PinTargets, Schedule(w, th),
             UNCHANGED <<m_state, ft, cb_fiber, pc, armed>>
      PROVE  OwnInv'
  <2> DEFINE e == ItemEntry(w, th)
  <2>1. e \in Entry /\ EntryShape(e) /\ m_fibers' = Append(m_fibers, e) /\ fresh' = fresh \ {w}
    BY <1>0, <1>5, <1>8 DEF Schedule
  <2>2. e.fiber \in Fibers => e.fiber = w /\ w \in ClientFibers
    BY <1>1 DEF ItemEntry, FiberEntry
  <2>3. e.fiber \in Fibers => Unplaced(e.fiber) /\ m_state[e.fiber] # "FREE" /\ e.fiber \notin fresh'
    BY <1>4, <2>1, <2>2 DEF OwnInv, FiberOwned, Fibers
  <2> HIDE DEF e
  <2> QED
    BY <1>0, <1>8, <2>1, <2>3, QueueOne DEF Unplaced
<1>9. ASSUME ClientSchedule PROVE OwnInv'
  BY <1>8, <1>9 DEF ClientSchedule
<1>10. ASSUME ClientScheduleBatch PROVE OwnInv'
  <2>1. PICK v \in fresh, w \in fresh :
          /\ v # w
          /\ m_fibers' = m_fibers \o <<ItemEntry(v, AnyThread), ItemEntry(w, AnyThread)>>
          /\ fresh' = fresh \ {v, w}
    BY <1>10 DEF ClientScheduleBatch
  <2> DEFINE a == ItemEntry(v, AnyThread)
             b == ItemEntry(w, AnyThread)
             s == <<a, b>>
  <2>2. a \in Entry /\ b \in Entry /\ EntryShape(a) /\ EntryShape(b)
    BY <1>0, <1>5 DEF PinTargets
  <2>3. /\ a.fiber \in Fibers => a.fiber = v /\ v \in ClientFibers
        /\ b.fiber \in Fibers => b.fiber = w /\ w \in ClientFibers
    BY <1>1 DEF ItemEntry, FiberEntry
  <2>4. /\ a.fiber \in Fibers => Unplaced(a.fiber) /\ m_state[a.fiber] # "FREE" /\ a.fiber \notin fresh'
        /\ b.fiber \in Fibers => Unplaced(b.fiber) /\ m_state[b.fiber] # "FREE" /\ b.fiber \notin fresh'
        /\ a.fiber \in Fibers => a.fiber # b.fiber
    BY <1>4, <2>1, <2>3 DEF OwnInv, FiberOwned, Fibers
  <2> HIDE DEF a, b
  <2>5. s \in Seq(Entry) /\ Len(s) = 2 /\ s[1] = a /\ s[2] = b
    BY <2>2
  <2> HIDE DEF s
  <2>6. /\ \A i \in 1..Len(s) : (i = 1 /\ s[i] = a) \/ (i = 2 /\ s[i] = b)
        /\ \A i \in 1..Len(s) : s[i] \in {a, b}
    BY <2>5
  <2>7. UNCHANGED <<m_state, ft, cb_fiber, pc, armed>> /\ m_fibers' = m_fibers \o s
    BY <1>10, <2>1 DEF ClientScheduleBatch, a, b, s
  <2>8. /\ \A i \in 1..Len(s) : EntryShape(s[i])
        /\ \A i, j \in 1..Len(s) : s[i].fiber \in Fibers /\ s[i].fiber = s[j].fiber => i = j
        /\ \A i \in 1..Len(s) : s[i].fiber \in Fibers =>
             /\ Queued(s[i].fiber) = {} /\ Owners(s[i].fiber) = {}
             /\ s[i].fiber \notin armed' \cup fresh' /\ m_state[s[i].fiber] # "FREE"
    <3>1. \A i \in 1..Len(s) : EntryShape(s[i])
      BY <2>2, <2>6
    <3>2. \A i, j \in 1..Len(s) : s[i].fiber \in Fibers /\ s[i].fiber = s[j].fiber => i = j
      BY <2>4, <2>6
    <3>3. \A i \in 1..Len(s) : s[i].fiber \in Fibers =>
            /\ Queued(s[i].fiber) = {} /\ Owners(s[i].fiber) = {}
            /\ s[i].fiber \notin armed' \cup fresh' /\ m_state[s[i].fiber] # "FREE"
      BY <2>4, <2>7, <2>6 DEF Unplaced
    <3> QED
      BY <3>1, <3>2, <3>3
  <2> QED
    BY <1>0, <2>1, <2>5, <2>7, <2>8, QueueStep
<1>11. ASSUME ClientScheduleEnded PROVE OwnInv'
  <2>1. PICK f \in ClientFibers, th \in PinTargets :
          /\ m_state[f] \in Ended /\ Holders(f) = {}
          /\ \A i \in 1..Len(m_fibers) : m_fibers[i].fiber # f
          /\ m_fibers' = Append(m_fibers, FiberEntry(f, th))
    BY <1>11 DEF ClientScheduleEnded
  <2> DEFINE e == FiberEntry(f, th)
  <2>2. f \in Fibers /\ e.fiber = f /\ e \in Entry /\ EntryShape(e)
    BY <1>6 DEF FiberEntry, Fibers
  <2>3. Queued(f) = {} /\ f \notin armed /\ m_state[f] # "FREE"
    BY <2>1, <2>2 DEF Queued, Ended, OwnInv, FiberOwned
  <2>4. ASSUME NEW t \in Owners(f) PROVE FALSE
    <3>1. t \in Threads /\ ft[t].fiber = f /\ pc[t] \in BusyPcs
      BY <1>1, <2>2, <2>4 DEF Owners, OwnInv, ThreadOwns
    <3>2. t \in Holders(f)
      BY <1>1, <2>2, <3>1 DEF Holders, BusyPcs, Running
    <3> QED
      BY <2>1, <3>2
  <2>5. f \notin fresh
    BY <2>1, <2>2 DEF OwnInv, FiberOwned
  <2> HIDE DEF e
  <2> QED
    BY <1>0, <1>11, <2>1, <2>2, <2>3, <2>4, <2>5, QueueOne DEF ClientScheduleEnded, e
<1>12. ASSUME NEW f \in Fibers, Wake(f) PROVE OwnInv'
  <2> DEFINE e == FiberEntry(f, AnyThread)
  <2>1. e \in Entry /\ EntryShape(e) /\ e.fiber = f /\ m_fibers' = Append(m_fibers, e)
    BY <1>0, <1>6, <1>12 DEF Wake, FiberEntry
  <2>2. f \in armed /\ armed' = armed \ {f} /\ Holders(f) = {}
    BY <1>12 DEF Wake
  <2>3. FiberOwned(f)
    BY DEF OwnInv
  <2>4. Owners(f) = {}
    BY <2>2, <2>3 DEF FiberOwned, Owners, Holders, ParkPcs, ActivePcs
  <2>5. Queued(f) = {} /\ f \notin fresh /\ m_state[f] # "FREE"
    BY <2>2, <2>3 DEF FiberOwned, Unplaced
  <2> HIDE DEF e
  <2> QED
    BY <1>0, <1>12, <2>1, <2>2, <2>4, <2>5, QueueOne DEF Wake
<1>13. ASSUME NEW t \in Threads, BodySchedule(t) PROVE OwnInv'
  BY <1>8, <1>13 DEF BodySchedule
<1>14. ASSUME StopBegin PROVE OwnInv'
  BY <1>0, <1>14, LoopStep DEF StopBegin, BusyPcs, ActivePcs
<1>15. ASSUME StopQuick PROVE OwnInv'
  BY <1>0, <1>15, LoopStep DEF StopQuick, BusyPcs, ActivePcs
<1>16. ASSUME StopMark PROVE OwnInv'
  BY <1>0, <1>16, LoopStep DEF StopMark, BusyPcs, ActivePcs
<1>17. ASSUME StopCheck PROVE OwnInv'
  BY <1>0, <1>17, LoopStep DEF StopCheck, BusyPcs, ActivePcs
<1>18. ASSUME StopRooted PROVE OwnInv'
  BY <1>0, <1>18, LoopStep DEF StopRooted, BusyPcs, ActivePcs
<1>19. ASSUME StopJoin PROVE OwnInv'
  BY <1>0, <1>19, LoopStep DEF StopJoin, BusyPcs, ActivePcs
<1>20. ASSUME StopCall PROVE OwnInv'
  BY <1>0, <1>20, LoopStep DEF StopCall, BusyPcs, ActivePcs
<1>21. ASSUME Start PROVE OwnInv'
  <2>1. PICK new \in SUBSET {w \in Workers : pc[w] = "off"} :
          pc' = [t \in Threads |-> IF t \in new THEN "scan" ELSE pc[t]]
    BY <1>21 DEF Start
  <2>2. \A t \in Threads : pc'[t] = pc[t] \/ (pc[t] = "off" /\ pc'[t] = "scan")
    BY <2>1
  <2> QED
    BY <1>21, <2>2, LoopStep DEF Start, BusyPcs, ActivePcs
<1>22. ASSUME NEW t \in Threads, ScanNothing(t) PROVE OwnInv'
  BY <1>0, <1>22, LoopStep DEF ScanNothing, Goto, BusyPcs, ActivePcs, ParkPcs
<1>23. ASSUME NEW t \in Threads, EnterIdle(t) PROVE OwnInv'
  BY <1>0, <1>23, LoopStep DEF EnterIdle, Goto, BusyPcs, ActivePcs, ParkPcs
<1>24. ASSUME NEW t \in Threads, Idle(t) PROVE OwnInv'
  BY <1>0, <1>24, LoopStep DEF Idle, Goto, BusyPcs, ActivePcs, ParkPcs
<1>25. ASSUME NEW t \in Threads, Exit(t) PROVE OwnInv'
  BY <1>0, <1>25, LoopStep DEF Exit, Goto, BusyPcs, ActivePcs, ParkPcs
<1>26. ASSUME NEW t \in Threads, Leave(t) PROVE OwnInv'
  BY <1>0, <1>26, LoopStep DEF Leave, Goto, BusyPcs, ActivePcs, ParkPcs
<1>27. ASSUME NEW t \in Threads, SwitchOut(t) PROVE OwnInv'
  BY <1>0, <1>27, LoopStep DEF SwitchOut, Goto, BusyPcs, ActivePcs, ParkPcs
<1>28. ASSUME UNCHANGED vars PROVE OwnInv'
  BY <1>28, LoopStep DEF vars
<1>29. ASSUME NEW t \in Threads, ResumeFiber(t) PROVE OwnInv'
  <2> DEFINE g == ft[t].fiber
  <2>1. g \in Fibers /\ t \in Owners(g) /\ Running(t) = g /\ pc[t] = "got"
    BY <1>0, <1>29 DEF ResumeFiber, Entry, Owners, Running
  <2>2. m_state[g] # "FREE" /\ g \notin armed
    BY <1>3, <2>1 DEF OwnInv, FiberOwned, Unplaced
  <2> QED
    BY <1>0, <1>29, <2>1, <2>2, BodyStep DEF ResumeFiber, Goto, BusyPcs, ActivePcs
<1>30. ASSUME NEW t \in Threads, YieldToReady(t) PROVE OwnInv'
  <2> DEFINE g == Running(t)
  <2>1. pc[t] = "body" /\ g \in Fibers /\ t \in Owners(g) /\ m_state[g] = "EXEC"
    BY <1>2, <1>30 DEF YieldToReady, OnFiberPcs, OwnInv, StateAssertions
  <2>2. pc[t] = "body" => g \notin armed
    BY <1>3, <2>1
  <2> QED
    BY <1>0, <1>30, <2>1, <2>2, BodyStep DEF YieldToReady, Goto, BusyPcs, ActivePcs, ParkPcs
<1>31. ASSUME NEW t \in Threads, ArmWake(t) PROVE OwnInv'
  <2> DEFINE g == Running(t)
  <2>1. pc[t] = "body" /\ g \in Fibers /\ t \in Owners(g) /\ m_state[g] = "EXEC"
    BY <1>2, <1>31 DEF ArmWake, OnFiberPcs, OwnInv, StateAssertions
  <2>2. pc[t] = "body" => g \notin armed
    BY <1>3, <2>1
  <2> QED
    BY <1>0, <1>31, <2>1, <2>2, BodyStep DEF ArmWake, Goto, BusyPcs, ActivePcs, ParkPcs
<1>32. ASSUME NEW t \in Threads, YieldToHold(t) PROVE OwnInv'
  <2> DEFINE g == Running(t)
  <2>1. pc[t] = "parking" /\ g \in Fibers /\ t \in Owners(g) /\ m_state[g] = "EXEC"
    BY <1>2, <1>32 DEF YieldToHold, OnFiberPcs, OwnInv, StateAssertions
  <2>2. pc[t] = "body" => g \notin armed
    BY <1>3, <2>1
  <2> QED
    BY <1>0, <1>32, <2>1, <2>2, BodyStep DEF YieldToHold, Goto, BusyPcs, ActivePcs, ParkPcs
<1>33. ASSUME NEW t \in Threads, Finish(t) PROVE OwnInv'
  <2> DEFINE g == Running(t)
  <2>1. pc[t] = "body" /\ g \in Fibers /\ t \in Owners(g) /\ m_state[g] = "EXEC"
    BY <1>2, <1>33 DEF Finish, OnFiberPcs, OwnInv, StateAssertions
  <2>2. pc[t] = "body" => g \notin armed
    BY <1>3, <2>1
  <2> QED
    BY <1>0, <1>33, <2>1, <2>2, BodyStep DEF Finish, Goto, BusyPcs, ActivePcs, ParkPcs
<1>34. ASSUME NEW t \in Threads, ScanTake(t) PROVE OwnInv'
  <2>1. PICK i \in 1..Len(m_fibers) :
          /\ Eligible(t, m_fibers[i])
          /\ ft' = [ft EXCEPT ![t] = m_fibers[i]] /\ m_fibers' = RemoveAt(m_fibers, i)
    BY <1>34 DEF ScanTake
  <2>0. PICK e \in Entry : e = m_fibers[i]
    BY <1>0
  <2>2. EntryShape(e)
    BY <2>0 DEF OwnInv, EntriesShaped
  <2>3. /\ pc[t] = "scan" /\ pc'[t] = "got" /\ ft'[t] = e /\ ft[t].fiber = None /\ cb_fiber' = cb_fiber
        /\ \A u \in Threads \ {t} : pc'[u] = pc[u] /\ ft'[u] = ft[u] /\ cb_fiber'[u] = cb_fiber[u]
        /\ UNCHANGED <<m_state, armed, fresh>>
    BY <1>0, <1>34, <2>0, <2>1 DEF ScanTake, Goto, OwnInv, ThreadOwns, BusyPcs, ActivePcs
  <2>4. ASSUME NEW f \in Fibers
        PROVE  /\ e.fiber # f => (Queued(f)' = {} <=> Queued(f) = {})
               /\ e.fiber = f => Queued(f) # {} /\ Queued(f)' = {}
               /\ \A j, k \in Queued(f)' : j = k
    <3>1. \A j, k \in Queued(f) : j = k
      BY DEF OwnInv, FiberOwned
    <3> QED
      BY <1>0, <2>0, <2>1, <3>1, RemoveQueued
  <2>5. EntriesShaped'
    <3>1. /\ Len(m_fibers') = Len(m_fibers) - 1 /\ Len(m_fibers) \in Nat
          /\ \A k \in 1..Len(m_fibers') : m_fibers'[k] = IF k < i THEN m_fibers[k] ELSE m_fibers[k + 1]
      BY <1>0, <2>1, RemoveAtFacts, SMTT(30)
    <3> QED
      BY <3>1 DEF OwnInv, EntriesShaped, EntryShape
  <2>6. ASSUME NEW f \in Fibers, f # e.fiber PROVE FiberOwned(f)'
    <3>1. FiberOwned(f)
      BY DEF OwnInv
    <3>2. Owners(f)' = Owners(f)
      BY <1>1, <2>3, <2>6, OwnersOf DEF Owners
    <3>3. f \in armed => \A u \in Owners(f) : Running(u)' = f /\ pc'[u] \in ParkPcs
      BY <2>3, <3>1 DEF FiberOwned, Owners, Running, ParkPcs
    <3> QED
      BY <2>3, <2>4, <2>6, <3>1, <3>2, <3>3, FiberKept
  <2>7. ASSUME e.fiber \in Fibers PROVE FiberOwned(e.fiber)'
    <3>1. FiberOwned(e.fiber) /\ Queued(e.fiber) # {} /\ Queued(e.fiber)' = {}
      BY <2>4, <2>7 DEF OwnInv
    <3>2. Owners(e.fiber) = {} /\ e.fiber \notin armed /\ e.fiber \notin fresh /\ m_state[e.fiber] # "FREE"
      BY <3>1 DEF FiberOwned, Unplaced
    <3>3. Owners(e.fiber)' \subseteq {t}
      BY <2>3, <2>7, <3>2, OwnersOf
    <3> QED
      BY <2>3, <3>1, <3>2, <3>3 DEF FiberOwned
  <2>8. ASSUME NEW u \in Threads PROVE ThreadOwns(u)'
    <3>1. ThreadOwns(u)
      BY DEF OwnInv
    <3>2. CASE u = t
      <4>1. e.fiber # None => cb_fiber[t] # e.fiber
        <5>1. SUFFICES ASSUME e.fiber # None, cb_fiber[t] = e.fiber PROVE FALSE
          OBVIOUS
        <5>2. e.fiber \in Fibers /\ t \in Owners(e.fiber)
          BY <2>2, <5>1 DEF Entry, Owners
        <5>3. Queued(e.fiber) # {} /\ FiberOwned(e.fiber)
          BY <2>4, <5>2 DEF OwnInv
        <5> QED
          BY <5>2, <5>3 DEF FiberOwned
      <4> QED
        BY <2>2, <2>3, <3>1, <3>2, <4>1 DEF ThreadOwns, BusyPcs, ActivePcs, EntryShape
    <3>3. CASE u # t
      BY <2>3, <3>1, <3>3, ThreadKept
    <3> QED
      BY <3>2, <3>3
  <2>9. StateAssertions'
    <3>1. ASSUME NEW u \in Threads
          PROVE  /\ pc'[u] \in {"body", "parking"} => m_state'[Running(u)'] = "EXEC"
                 /\ pc'[u] = "got" /\ ft'[u].fiber # None => m_state'[ft'[u].fiber] # "EXEC"
      <4>1. CASE u = t
        BY <2>0, <2>1, <2>3, <4>1 DEF Eligible
      <4>2. CASE u # t
        BY <2>3, <4>2, OthersAssert
      <4> QED
        BY <4>1, <4>2
    <3> QED
      BY <3>1 DEF StateAssertions
  <2> QED
    BY <2>5, <2>6, <2>7, <2>8, <2>9 DEF OwnInv
<1>35. ASSUME NEW t \in Threads, RunCallback(t) PROVE OwnInv'
  <2>1. PICK g \in Fibers :
          /\ \/ cb_fiber[t] # None /\ g = cb_fiber[t]
             \/ cb_fiber[t] = None /\ g \in PoolFibers /\ m_state[g] = "FREE"
          /\ cb_fiber' = [cb_fiber EXCEPT ![t] = g]
          /\ m_state' = [m_state EXCEPT ![g] = "EXEC"]
    BY <1>0, <1>35 DEF RunCallback, Fibers
  <2>2. /\ pc[t] = "got" /\ pc'[t] = "body" /\ ft'[t] = NoEntry /\ ft[t].fiber = None /\ cb_fiber'[t] = g
        /\ \A u \in Threads \ {t} : pc'[u] = pc[u] /\ ft'[u] = ft[u] /\ cb_fiber'[u] = cb_fiber[u]
        /\ UNCHANGED <<m_fibers, armed, fresh>> /\ m_state'[g] = "EXEC"
        /\ \A f \in Fibers \ {g} : m_state'[f] = m_state[f]
    BY <1>0, <1>35, <2>1 DEF RunCallback, Goto, OwnInv, ThreadOwns, EntryShape
  <2>3. /\ Queued(g) = {} /\ g \notin armed /\ g \notin fresh /\ Owners(g) \subseteq {t}
    <3>1. FiberOwned(g)
      BY DEF OwnInv
    <3>2. CASE cb_fiber[t] = g
      <4>1. t \in Owners(g)
        BY <3>2 DEF Owners
      <4> QED
        BY <1>3, <2>2, <3>1, <4>1 DEF FiberOwned, Unplaced
    <3>3. CASE m_state[g] = "FREE"
      BY <1>0, <1>1, <3>1, <3>3 DEF FiberOwned, Unplaced, Work
    <3> QED
      BY <2>1, <3>2, <3>3
  <2>4. g \in PoolFibers
    BY <1>1, <2>1 DEF OwnInv, ThreadOwns
  <2>5. \A f \in Fibers : Queued(f)' = Queued(f)
    BY <2>2 DEF Queued
  <2>6. ASSUME NEW f \in Fibers, f # g PROVE FiberOwned(f)'
    <3>1. FiberOwned(f)
      BY DEF OwnInv
    <3>2. t \notin Owners(f)' /\ t \notin Owners(f)
      BY <1>1, <2>1, <2>2, <2>6 DEF Owners, NoEntry
    <3>3. Owners(f)' = Owners(f)
      BY <2>2, <3>2, OwnersOf
    <3>4. f \in armed => \A u \in Owners(f) : Running(u)' = f /\ pc'[u] \in ParkPcs
      BY <2>2, <3>1, <3>2 DEF FiberOwned, Owners, Running
    <3>5. \A i, j \in Queued(f)' : i = j
      BY <2>5, <3>1 DEF FiberOwned
    <3> QED
      BY <2>2, <2>5, <2>6, <3>1, <3>3, <3>4, <3>5, FiberKept
  <2>7. FiberOwned(g)'
    <3>1. Owners(g)' \subseteq {t}
      BY <2>2, <2>3, OwnersOf
    <3> QED
      BY <2>2, <2>3, <2>5, <3>1 DEF FiberOwned
  <2>8. ASSUME NEW u \in Threads PROVE ThreadOwns(u)'
    <3>1. ThreadOwns(u)
      BY DEF OwnInv
    <3>2. CASE u = t
      BY <2>2, <2>4, <3>2 DEF ThreadOwns, NoEntry, EntryShape
    <3>3. CASE u # t
      BY <2>2, <3>1, <3>3, ThreadKept
    <3> QED
      BY <3>2, <3>3
  <2>9. StateAssertions'
    <3>1. ASSUME NEW u \in Threads
          PROVE  /\ pc'[u] \in {"body", "parking"} => m_state'[Running(u)'] = "EXEC"
                 /\ pc'[u] = "got" /\ ft'[u].fiber # None => m_state'[ft'[u].fiber] # "EXEC"
      <4>1. CASE u = t
        BY <2>2, <4>1 DEF Running, NoEntry
      <4>2. CASE u # t
        <5>1. \A f \in Fibers : u \in Owners(f) => m_state'[f] = m_state[f]
          BY <2>2, <2>3, <4>2
        <5> QED
          BY <2>2, <4>2, <5>1, OthersAssert
      <4> QED
        BY <4>1, <4>2
    <3> QED
      BY <3>1 DEF StateAssertions
  <2> QED
    BY <2>2, <2>6, <2>7, <2>8, <2>9 DEF OwnInv, EntriesShaped
<1>36. ASSUME NEW t \in Threads, DropEnded(t) PROVE OwnInv'
  <2>0. PICK g \in Fibers : g = ft[t].fiber
    BY <1>0, <1>36 DEF DropEnded, Entry
  <2>1. /\ Running(t) = g /\ pc[t] = "got" /\ UNCHANGED <<cb_fiber, m_fibers, armed, fresh, m_state>>
        /\ ft' = [ft EXCEPT ![t] = NoEntry] /\ pc' = [pc EXCEPT ![t] = "scan"]
    BY <1>0, <1>36, <2>0 DEF DropEnded, Running, Goto
  <2>2. \A f \in Fibers : Queued(f)' = Queued(f)
    BY <2>1 DEF Queued
  <2>3. Queued(g) = {} /\ Owners(g)' = {} /\ g \notin fresh /\ m_state[g] # "FREE"
    BY <2>0, <2>1, GivenUp
  <2>4. FiberOwned(g)'
    <3>1. FiberOwned(g)
      BY DEF OwnInv
    <3> QED
      BY <2>1, <2>2, <2>3, <3>1 DEF FiberOwned
  <2>5. EntriesShaped'
    BY <2>1 DEF OwnInv, EntriesShaped
  <2> QED
    BY <2>1, <2>2, <2>4, <2>5, GiveUpStep
(* What the three branches behind a switch have in common. *)
<1>37. ASSUME NEW t \in Threads, Requeue(t) \/ Release(t) \/ Park(t)
       PROVE  /\ pc[t] = "post" /\ Running(t) \in Fibers /\ t \in Owners(Running(t)) /\ FiberOwned(Running(t))
              /\ UNCHANGED <<armed, fresh>>
              /\ ft' = [ft EXCEPT ![t] = NoEntry] /\ pc' = [pc EXCEPT ![t] = "scan"]
              /\ \/ cb_fiber' = cb_fiber
                 \/ ft[t].fiber = None /\ cb_fiber' = [cb_fiber EXCEPT ![t] = None]
  BY <1>2, <1>37 DEF Requeue, Release, Park, Goto, OnFiberPcs
<1>38. ASSUME NEW t \in Threads, Requeue(t) PROVE OwnInv'
  <2>0. PICK g \in Fibers : g = Running(t)
    BY <1>37, <1>38
  <2>1. /\ pc[t] = "post" /\ t \in Owners(g) /\ FiberOwned(g) /\ UNCHANGED <<armed, fresh>>
        /\ ft' = [ft EXCEPT ![t] = NoEntry] /\ pc' = [pc EXCEPT ![t] = "scan"]
        /\ \/ cb_fiber' = cb_fiber
           \/ ft[t].fiber = None /\ cb_fiber' = [cb_fiber EXCEPT ![t] = None]
    BY <1>37, <1>38, <2>0
  <2> DEFINE e == FiberEntry(g, AnyThread)
  <2>2. /\ m_fibers' = Append(m_fibers, e) /\ m_state[g] = "READY" /\ m_state' = m_state
        /\ ft[t].fiber = g \/ cb_fiber' # cb_fiber
    BY <1>0, <1>1, <1>38, <2>0, <2>1 DEF Requeue, Running
  <2>3. e \in Entry /\ e.fiber = g /\ EntryShape(e)
    BY <1>6 DEF FiberEntry
  <2>4. Queued(g) = {} /\ Owners(g)' = {} /\ g \notin fresh
    BY <2>0, <2>1, <2>2, GivenUp
  <2>5. g \notin armed
    BY <2>0, <2>1, <2>2 DEF FiberOwned
  <2> HIDE DEF e
  <2>6. /\ \A f \in Fibers \ {g} : Queued(f)' = Queued(f)
        /\ \A i, j \in Queued(g)' : i = j
        /\ EntriesShaped'
    BY <1>0, <2>2, <2>3, <2>4, AppendOne DEF OwnInv
  <2>7. FiberOwned(g)'
    BY <2>0, <2>1, <2>2, <2>4, <2>5, <2>6 DEF FiberOwned
  <2> QED
    BY <2>0, <2>1, <2>2, <2>3, <2>6, <2>7, GiveUpStep
<1>39. ASSUME NEW t \in Threads, Release(t) PROVE OwnInv'
  <2>0. PICK g \in Fibers : g = Running(t)
    BY <1>37, <1>39
  <2>1. /\ pc[t] = "post" /\ t \in Owners(g) /\ FiberOwned(g) /\ UNCHANGED <<armed, fresh>>
        /\ ft' = [ft EXCEPT ![t] = NoEntry] /\ pc' = [pc EXCEPT ![t] = "scan"]
        /\ \/ cb_fiber' = cb_fiber
           \/ ft[t].fiber = None /\ cb_fiber' = [cb_fiber EXCEPT ![t] = None]
    BY <1>37, <1>39, <2>0
  <2>2. /\ m_fibers' = m_fibers /\ m_state[g] \in Ended /\ m_state'[g] # "FREE" /\ m_state'[g] # "EXEC"
        /\ \A f \in Fibers \ {g} : m_state'[f] = m_state[f]
    BY <1>0, <1>1, <1>39, <2>0, <2>1 DEF Release, Running, Ended
  <2>3. Queued(g) = {} /\ Owners(g)' \subseteq {t} /\ g \notin fresh
    BY <2>0, <2>1, GivenUp
  <2>4. \A f \in Fibers : Queued(f)' = Queued(f)
    BY <2>2 DEF Queued
  <2>5. g \notin armed
    BY <2>0, <2>1, <2>2 DEF FiberOwned, Ended
  <2>6. FiberOwned(g)'
    BY <2>0, <2>1, <2>2, <2>3, <2>4, <2>5 DEF FiberOwned
  <2>7. EntriesShaped'
    BY <2>2 DEF OwnInv, EntriesShaped
  <2> QED
    BY <2>0, <2>1, <2>2, <2>4, <2>6, <2>7, GiveUpStep
<1>40. ASSUME NEW t \in Threads, Park(t) PROVE OwnInv'
  <2>0. PICK g \in Fibers : g = Running(t)
    BY <1>37, <1>40
  <2>1. /\ pc[t] = "post" /\ t \in Owners(g) /\ FiberOwned(g) /\ UNCHANGED <<armed, fresh>>
        /\ ft' = [ft EXCEPT ![t] = NoEntry] /\ pc' = [pc EXCEPT ![t] = "scan"]
        /\ \/ cb_fiber' = cb_fiber
           \/ ft[t].fiber = None /\ cb_fiber' = [cb_fiber EXCEPT ![t] = None]
    BY <1>37, <1>40, <2>0
  <2>2. /\ m_fibers' = m_fibers /\ m_state'[g] = "HOLD" /\ (ft[t].fiber = g \/ cb_fiber' # cb_fiber)
        /\ \A f \in Fibers \ {g} : m_state'[f] = m_state[f]
    BY <1>0, <1>1, <1>40, <2>0, <2>1 DEF Park, Running
  <2>3. Queued(g) = {} /\ Owners(g)' = {} /\ g \notin fresh
    BY <2>0, <2>1, <2>2, GivenUp
  <2>4. \A f \in Fibers : Queued(f)' = Queued(f)
    BY <2>2 DEF Queued
  <2>6. FiberOwned(g)'
    BY <2>0, <2>1, <2>2, <2>3, <2>4 DEF FiberOwned
  <2>7. EntriesShaped'
    BY <2>2 DEF OwnInv, EntriesShaped
  <2> QED
    BY <2>0, <2>1, <2>2, <2>4, <2>6, <2>7, GiveUpStep
<1> QED
  BY <1>9, <1>10, <1>11, <1>12, <1>13, <1>14, <1>15, <1>16, <1>17, <1>18, <1>19, <1>20, <1>21,
     <1>22, <1>23, <1>24, <1>25, <1>26, <1>27, <1>28, <1>29, <1>30, <1>31, <1>32, <1>33, <1>34,
     <1>35, <1>36, <1>38, <1>39, <1>40 DEF Next, Client, Stop, RunLoop, Body, Terminated

(* When a wake-up comes only after the loop has let go of the fiber, a fiber is in one
   place, and the states that swapIn and YieldTo* assert are those the loops left: no two
   threads resume one fiber. *)
THEOREM OwnersCorrect ==
  ASSUME EarlyWake = FALSE
  PROVE  Spec => []OneOwner
<1>1. TInv /\ OwnInv /\ [Next]_vars => OwnInv'
  BY NextOwnInv
<1> QED
  BY InitTInv, NextTInv, InitOwnInv, <1>1, OwnInvOneOwner, PTL DEF Spec
-----------------------------------------------------------------------------
(* Work is neither lost nor done twice: the proof. *)

(* Who carries a callback: positions of the queue, threads that took it and have not
   begun, and callback fibers that have not ended. *)
QueuedCb(w) == {i \in 1..Len(m_fibers) : m_fibers[i].cb = w}
Hands(w) == {t \in Threads : ft[t].cb = w}
Bodies(w) == {f \in PoolFibers : m_cb[f] = w /\ m_state[f] \notin Ended}
Carried(w) == QueuedCb(w) # {} \/ Hands(w) # {} \/ Bodies(w) # {}

(* A callback has one carrier from schedule() to its end, and none before and after. *)
CarriedOnce(w) ==
  /\ \A i, j \in QueuedCb(w) : i = j
  /\ \A t, u \in Hands(w) : t = u
  /\ \A f, g \in Bodies(w) : f = g
  /\ QueuedCb(w) # {} => Hands(w) = {} /\ Bodies(w) = {}
  /\ Hands(w) # {} => Bodies(w) = {}
  /\ Carried(w) <=> w \notin fresh \cup finished
  /\ ~(w \in fresh /\ w \in finished)

(* A thread holds a callback only until it begins; the fiber it keeps for callbacks is
   empty unless it runs it; and the fiber it comes back from has ended, is READY, or
   has somebody to wake it. *)
ThreadWorks(t) ==
  /\ ft[t].cb \in Callbacks \cup {None}
  /\ ft[t].cb # None => pc[t] = "got"
  /\ cb_fiber[t] # None /\ ~(pc[t] \in OnFiberPcs /\ ft[t].fiber = None)
       => m_cb[cb_fiber[t]] = None
  /\ pc[t] = "parking" => Running(t) \in armed
  /\ pc[t] \in {"switching", "back", "post"} =>
        m_state[Running(t)] \in Ended \cup {"READY"} \/ Running(t) \in armed

(* A client's fiber keeps its own function until it has ended, which is when it counts
   as finished; and what has a function to run is somewhere. *)
ClientWorks(f) ==
  /\ m_cb[f] \in {f, None}
  /\ m_cb[f] = None => m_state[f] \in Ended
  /\ f \in finished <=> m_state[f] \in Ended
  /\ f \notin fresh \cup finished => Placed(f)
PoolWorks(f) ==
  /\ m_cb[f] \in Callbacks \cup {None}
  /\ m_state[f] = "FREE" => m_cb[f] = None
  /\ m_cb[f] # None /\ m_state[f] \notin Ended => Placed(f)
FiberWorks(f) == /\ f \in ClientFibers => ClientWorks(f)
                 /\ f \in PoolFibers => PoolWorks(f)

EntriesCb == \A i \in 1..Len(m_fibers) : m_fibers[i].cb \in Callbacks \cup {None}
WorkInv ==
  /\ EntriesCb
  /\ \A t \in Threads : ThreadWorks(t)
  /\ \A f \in Fibers : FiberWorks(f)
  /\ \A w \in Callbacks : CarriedOnce(w)

(* Nothing is scheduled at first: no callback has a carrier. *)
LEMMA InitWorkInv == Init => WorkInv
<1> SUFFICES ASSUME Init PROVE WorkInv
  OBVIOUS
<1>1. /\ m_fibers = <<>> /\ armed = {} /\ fresh = Work /\ finished = {}
      /\ \A t \in Threads : ft[t] = NoEntry /\ cb_fiber[t] = None /\ pc[t] = "off"
      /\ \A f \in Fibers : m_cb[f] = IF f \in ClientFibers THEN f ELSE None
      /\ \A f \in Fibers : m_state[f] \in {"INIT", "FREE"}
  BY DEF Init
<1>2. None \notin Fibers /\ None \notin Work /\ ClientFibers \cap PoolFibers = {}
  BY ConstantsAssumption
<1>3. ASSUME NEW w \in Callbacks PROVE CarriedOnce(w)
  <2>1. QueuedCb(w) = {}
    BY <1>1 DEF QueuedCb
  <2>2. Hands(w) = {}
    BY <1>1, <1>2, <1>3 DEF Hands, NoEntry, Work
  <2>3. Bodies(w) = {}
    BY <1>1, <1>2, <1>3 DEF Bodies, Work, Fibers
  <2> QED
    BY <1>1, <2>1, <2>2, <2>3 DEF CarriedOnce, Carried, Work
<1>4. ASSUME NEW t \in Threads PROVE ThreadWorks(t)
  BY <1>1 DEF ThreadWorks, NoEntry
<1>5. ASSUME NEW f \in Fibers PROVE FiberWorks(f)
  BY <1>1, <1>2 DEF FiberWorks, ClientWorks, PoolWorks, Ended, Fibers, Work
<1>6. EntriesCb
  BY <1>1 DEF EntriesCb
<1> QED
  BY <1>3, <1>4, <1>5, <1>6 DEF WorkInv

(* The invariant says where the work is that was scheduled and is not done. *)
LEMMA WorkInvKept == WorkInv => Kept
<1> SUFFICES ASSUME WorkInv, NEW w \in Work \ (fresh \cup finished)
             PROVE  \/ \E i \in 1..Len(m_fibers) : m_fibers[i].cb = w
                    \/ \E t \in Threads : ft[t].cb = w
                    \/ \E f \in Fibers : m_cb[f] = w /\ Placed(f)
  BY DEF Kept
<1>1. CASE w \in ClientFibers
  <2>1. ClientWorks(w) /\ w \in Fibers
    BY <1>1 DEF WorkInv, FiberWorks, Fibers
  <2>2. m_cb[w] = w /\ Placed(w)
    BY <2>1 DEF ClientWorks
  <2> QED
    BY <2>1, <2>2
<1>2. CASE w \in Callbacks
  <2>1. QueuedCb(w) # {} \/ Hands(w) # {} \/ Bodies(w) # {}
    BY <1>2 DEF WorkInv, CarriedOnce, Carried
  <2>2. ASSUME NEW f \in Bodies(w) PROVE f \in Fibers /\ m_cb[f] = w /\ Placed(f)
    <3>1. f \in Fibers /\ PoolWorks(f) /\ m_cb[f] = w /\ m_state[f] \notin Ended
      BY DEF Bodies, WorkInv, FiberWorks, Fibers
    <3>2. w # None
      BY ConstantsAssumption
    <3> QED
      BY <3>1, <3>2 DEF PoolWorks
  <2> QED
    BY <2>1, <2>2 DEF QueuedCb, Hands
<1> QED
  BY <1>1, <1>2 DEF Work
(* What appending entries does to the places of a callback, and of a fiber. *)
LEMMA AppendCarries ==
  ASSUME m_fibers \in Seq(Entry), NEW s \in Seq(Entry), m_fibers' = m_fibers \o s
  PROVE  /\ \A w : (\A i \in 1..Len(s) : s[i].cb # w) => QueuedCb(w)' = QueuedCb(w)
         /\ \A w : (\E i \in 1..Len(s) : s[i].cb = w) => QueuedCb(w)' # {}
         /\ \A w : /\ \A i, j \in 1..Len(s) : s[i].cb = w /\ s[j].cb = w => i = j
                   /\ QueuedCb(w) = {}
              => \A i, j \in QueuedCb(w)' : i = j
         /\ \A f : Queued(f) # {} => Queued(f)' # {}
         /\ \A f : (\E i \in 1..Len(s) : s[i].fiber = f) => Queued(f)' # {}
         /\ EntriesCb /\ (\A i \in 1..Len(s) : s[i].cb \in Callbacks \cup {None}) => EntriesCb'
<1>1. /\ Len(m_fibers') = Len(m_fibers) + Len(s) /\ Len(m_fibers) \in Nat /\ Len(s) \in Nat
      /\ \A i \in 1..Len(m_fibers) : i \in 1..Len(m_fibers') /\ m_fibers'[i] = m_fibers[i]
      /\ \A i \in 1..Len(m_fibers') : i > Len(m_fibers) => m_fibers'[i] = s[i - Len(m_fibers)]
  OBVIOUS
<1>2. \A i \in 1..Len(m_fibers') : i > Len(m_fibers) => i - Len(m_fibers) \in 1..Len(s)
  BY <1>1
<1>3. \A i \in 1..Len(s) : i + Len(m_fibers) \in 1..Len(m_fibers') /\ m_fibers'[i + Len(m_fibers)] = s[i]
  BY <1>1
<1>4. ASSUME NEW w, \A i \in 1..Len(s) : s[i].cb # w PROVE QueuedCb(w)' = QueuedCb(w)
  BY <1>1, <1>2, <1>4 DEF QueuedCb
<1>5. ASSUME NEW w, NEW i \in 1..Len(s), s[i].cb = w PROVE QueuedCb(w)' # {}
  BY <1>3, <1>5 DEF QueuedCb
<1>6. ASSUME NEW w, \A i, j \in 1..Len(s) : s[i].cb = w /\ s[j].cb = w => i = j, QueuedCb(w) = {}
      PROVE  \A i, j \in QueuedCb(w)' : i = j
  <2>0. \A i \in QueuedCb(w)' : i \in 1..Len(m_fibers') /\ m_fibers'[i].cb = w
    BY DEF QueuedCb
  <2>4. \A i \in 1..Len(m_fibers) : m_fibers[i].cb # w
    BY <1>6 DEF QueuedCb
  <2>1. \A i \in QueuedCb(w)' : i \in 1..Len(m_fibers') /\ i > Len(m_fibers) /\ s[i - Len(m_fibers)].cb = w
    BY <1>1, <2>0, <2>4
  <2>2. TAKE i, j \in QueuedCb(w)'
  <2>3. i - Len(m_fibers) = j - Len(m_fibers)
    BY <2>1, <2>2, <1>2, <1>6
  <2> QED
    BY <2>1, <2>2, <2>3, <1>1
<1>7. ASSUME NEW f, Queued(f) # {} PROVE Queued(f)' # {}
  BY <1>1, <1>7 DEF Queued
<1>8. ASSUME NEW f, NEW i \in 1..Len(s), s[i].fiber = f PROVE Queued(f)' # {}
  BY <1>3, <1>8 DEF Queued
<1>9. ASSUME EntriesCb, \A i \in 1..Len(s) : s[i].cb \in Callbacks \cup {None} PROVE EntriesCb'
  BY <1>1, <1>2, <1>9, SMTT(30) DEF EntriesCb
<1>10. \A w : (\A i \in 1..Len(s) : s[i].cb # w) => QueuedCb(w)' = QueuedCb(w)
  BY <1>4
<1>11. \A w : (\E i \in 1..Len(s) : s[i].cb = w) => QueuedCb(w)' # {}
  BY <1>5
<1>12. \A w : /\ \A i, j \in 1..Len(s) : s[i].cb = w /\ s[j].cb = w => i = j
              /\ QueuedCb(w) = {}
         => \A i, j \in QueuedCb(w)' : i = j
  BY <1>6
<1>13. \A f : Queued(f) # {} => Queued(f)' # {}
  BY <1>7
<1>14. \A f : (\E i \in 1..Len(s) : s[i].fiber = f) => Queued(f)' # {}
  BY <1>8
<1> QED
  BY <1>9, <1>10, <1>11, <1>12, <1>13, <1>14, Zenon

(* What the scan's erase does to the places of a callback. *)
LEMMA RemoveCarries ==
  ASSUME m_fibers \in Seq(Entry), NEW k \in 1..Len(m_fibers), m_fibers' = RemoveAt(m_fibers, k),
         NEW w, \A i, j \in QueuedCb(w) : i = j
  PROVE  /\ m_fibers[k].cb # w => (QueuedCb(w)' = {} <=> QueuedCb(w) = {})
         /\ m_fibers[k].cb = w => QueuedCb(w) # {} /\ QueuedCb(w)' = {}
         /\ \A i, j \in QueuedCb(w)' : i = j
         /\ EntriesCb => EntriesCb'
<1>1. /\ Len(m_fibers') = Len(m_fibers) - 1 /\ Len(m_fibers) \in Nat
      /\ \A i \in 1..Len(m_fibers') : m_fibers'[i] = IF i < k THEN m_fibers[i] ELSE m_fibers[i + 1]
  BY RemoveAtFacts
<1>2. \A i \in QueuedCb(w)' : i \in Nat /\ (IF i < k THEN i ELSE i + 1) \in QueuedCb(w)
  BY <1>1 DEF QueuedCb
<1>3. \A i \in QueuedCb(w) : i # k => (IF i < k THEN i ELSE i - 1) \in QueuedCb(w)'
  BY <1>1 DEF QueuedCb
<1>4. m_fibers[k].cb = w => k \in QueuedCb(w)
  BY DEF QueuedCb
<1>5. m_fibers[k].cb # w => k \notin QueuedCb(w)
  BY DEF QueuedCb
<1>6. \A i, j \in QueuedCb(w)' : i = j
  BY <1>2
<1>7. m_fibers[k].cb = w => QueuedCb(w)' = {}
  <2> SUFFICES ASSUME m_fibers[k].cb = w, NEW i \in QueuedCb(w)' PROVE FALSE
    OBVIOUS
  <2>1. (IF i < k THEN i ELSE i + 1) = k
    BY <1>2, <1>4
  <2> QED
    BY <2>1, <1>2
<1>8. m_fibers[k].cb # w => (QueuedCb(w)' = {} <=> QueuedCb(w) = {})
  <2>1. QueuedCb(w) = {} => QueuedCb(w)' = {}
    BY <1>2
  <2>2. m_fibers[k].cb # w /\ QueuedCb(w) # {} => QueuedCb(w)' # {}
    BY <1>3, <1>5
  <2> QED
    BY <2>1, <2>2
<1>9. EntriesCb => EntriesCb'
  BY <1>1 DEF EntriesCb
<1> QED
  BY <1>4, <1>6, <1>7, <1>8, <1>9

(* A callback whose carriers a step leaves alone. *)
LEMMA CarriedKept ==
  ASSUME NEW w, CarriedOnce(w), QueuedCb(w)' = {} <=> QueuedCb(w) = {},
         \A i, j \in QueuedCb(w)' : i = j, Hands(w)' = Hands(w), Bodies(w)' = Bodies(w),
         w \in fresh' <=> w \in fresh, w \in finished' <=> w \in finished
  PROVE  CarriedOnce(w)'
BY DEF CarriedOnce, Carried

(* A fiber that keeps its function, its state and a place. *)
LEMMA FiberWorksKept ==
  ASSUME NEW f, FiberWorks(f), m_cb'[f] = m_cb[f], m_state'[f] = m_state[f],
         f \in finished' <=> f \in finished,
         f \in fresh => f \in fresh' \/ Placed(f)', Placed(f) => Placed(f)'
  PROVE  FiberWorks(f)'
BY DEF FiberWorks, ClientWorks, PoolWorks

(* The threads other than t, when a step of t writes only the fiber g, which is t's or nobody's. *)
LEMMA OthersWork ==
  ASSUME TInv, NEW t \in Threads, NEW u \in Threads, u # t, NEW g \in Fibers,
         Owners(g) \subseteq {t}, ThreadWorks(u),
         pc'[u] = pc[u], ft'[u] = ft[u], cb_fiber'[u] = cb_fiber[u], armed \subseteq armed',
         \A f \in Fibers \ {g} : m_state'[f] = m_state[f] /\ m_cb'[f] = m_cb[f]
  PROVE  ThreadWorks(u)'
<1>1. u \notin Owners(g)
  OBVIOUS
<1>2. cb_fiber[u] # None => cb_fiber[u] \in Fibers \ {g}
  BY <1>1 DEF Owners, TInv, TypeOK
<1>3. Running(u)' = Running(u)
  BY DEF Running
<1>4. pc[u] \in {"switching", "back", "post"} => Running(u) \in Fibers \ {g}
  BY <1>1 DEF Owners, TInv, HasFiber, OnFiberPcs, Running
<1> QED
  BY <1>2, <1>3, <1>4 DEF ThreadWorks

(* What each thread knows of the fiber it runs. *)
LEMMA RunningFacts ==
  ASSUME TInv, OwnInv, WorkInv, NEW t \in Threads, pc[t] \in OnFiberPcs
  PROVE  /\ Running(t) \in Fibers /\ Owners(Running(t)) = {t} /\ ft[t].cb = None
         /\ FiberOwned(Running(t)) /\ FiberWorks(Running(t)) /\ Running(t) \notin fresh
         /\ m_state[Running(t)] # "FREE" /\ Queued(Running(t)) = {}
<1>1. Running(t) \in Fibers /\ t \in Owners(Running(t))
  BY DEF TInv, HasFiber, Owners, Running
<1>2. FiberOwned(Running(t)) /\ FiberWorks(Running(t)) /\ ThreadWorks(t)
  BY <1>1 DEF OwnInv, WorkInv
<1> QED
  BY <1>1, <1>2 DEF FiberOwned, Unplaced, ThreadWorks, OnFiberPcs, Owners

(* Steps of loops that move no work. *)
LEMMA LoopStepWork ==
  ASSUME WorkInv, UNCHANGED <<m_fibers, m_state, m_cb, ft, cb_fiber, armed, fresh, finished>>,
         \A t \in Threads : \/ pc'[t] = pc[t]
                            \/ pc[t] \notin BusyPcs /\ pc'[t] \notin BusyPcs
                            \/ pc[t] \in {"switching", "back"} /\ pc'[t] \in {"back", "post"}
  PROVE  WorkInv'
<1>1. ASSUME NEW t \in Threads PROVE ThreadWorks(t)'
  <2>1. ThreadWorks(t)
    BY DEF WorkInv
  <2> QED
    BY <2>1 DEF ThreadWorks, Running, BusyPcs, ActivePcs, OnFiberPcs
<1>2. ASSUME NEW f \in Fibers PROVE FiberWorks(f)'
  BY DEF WorkInv, FiberWorks, ClientWorks, PoolWorks, Placed, Queued, Owners
<1>3. ASSUME NEW w \in Callbacks PROVE CarriedOnce(w)'
  BY DEF WorkInv, CarriedOnce, Carried, QueuedCb, Hands, Bodies
<1> QED
  BY <1>1, <1>2, <1>3 DEF WorkInv, EntriesCb
(* Steps that put entries into the queue: what they carry was given to no one before, and
   a fiber whose wake-up comes has been let go. *)
LEMMA QueueStepWork ==
  ASSUME TInv, WorkInv, NEW s \in Seq(Entry), m_fibers' = m_fibers \o s,
         UNCHANGED <<m_state, m_cb, ft, cb_fiber, pc, finished>>, fresh' \subseteq fresh, armed' \subseteq armed,
         \A i \in 1..Len(s) : s[i].cb \in (Callbacks \cap (fresh \ fresh')) \cup {None},
         \A i, j \in 1..Len(s) : s[i].cb # None /\ s[i].cb = s[j].cb => i = j,
         \A w \in fresh \ fresh' : \E i \in 1..Len(s) : s[i].cb = w \/ (w \in Fibers /\ s[i].fiber = w),
         \A f \in armed \ armed' : Holders(f) = {} /\ \E i \in 1..Len(s) : s[i].fiber = f
  PROVE  WorkInv'
<1>0. m_fibers \in Seq(Entry)
  BY DEF TInv, TypeOK
<1>1. /\ \A w : (\A i \in 1..Len(s) : s[i].cb # w) => QueuedCb(w)' = QueuedCb(w)
      /\ \A w : (\E i \in 1..Len(s) : s[i].cb = w) => QueuedCb(w)' # {}
      /\ \A w : /\ \A i, j \in 1..Len(s) : s[i].cb = w /\ s[j].cb = w => i = j
                /\ QueuedCb(w) = {}
           => \A i, j \in QueuedCb(w)' : i = j
      /\ \A f : Queued(f) # {} => Queued(f)' # {}
      /\ \A f : (\E i \in 1..Len(s) : s[i].fiber = f) => Queued(f)' # {}
      /\ EntriesCb /\ (\A i \in 1..Len(s) : s[i].cb \in Callbacks \cup {None}) => EntriesCb'
  BY <1>0, AppendCarries, Zenon
<1>2. EntriesCb'
  BY <1>1 DEF WorkInv
<1>3. None \notin Fibers /\ None \notin Callbacks /\ Fibers \cap Callbacks = {}
  BY ConstantsAssumption DEF Work
<1>4. ASSUME NEW t \in Threads PROVE ThreadWorks(t)'
  <2>1. ThreadWorks(t) /\ Running(t)' = Running(t)
    BY DEF WorkInv, Running
  <2>2. pc[t] \in ParkPcs /\ Running(t) \in armed => Running(t) \in armed'
    BY DEF Holders, ParkPcs, ActivePcs
  <2> QED
    BY <2>1, <2>2 DEF ThreadWorks, ParkPcs
<1>5. ASSUME NEW f \in Fibers PROVE FiberWorks(f)'
  <2>1. FiberWorks(f)
    BY DEF WorkInv
  <2>2. f \in fresh => f \in fresh' \/ Placed(f)'
    <3>1. SUFFICES ASSUME f \in fresh \ fresh' PROVE Queued(f)' # {}
      BY DEF Placed
    <3>2. PICK i \in 1..Len(s) : s[i].cb = f \/ s[i].fiber = f
      BY <3>1
    <3>3. s[i].cb # f
      BY <1>3
    <3> QED
      BY <1>1, <3>2, <3>3
  <2>3. Placed(f) => Placed(f)'
    <3>1. Queued(f) # {} => Queued(f)' # {}
      BY <1>1
    <3>2. Owners(f)' = Owners(f)
      BY DEF Owners
    <3>3. f \in armed => f \in armed' \/ Queued(f)' # {}
      BY <1>1
    <3> QED
      BY <3>1, <3>2, <3>3 DEF Placed
  <2>4. m_cb'[f] = m_cb[f] /\ m_state'[f] = m_state[f] /\ (f \in finished' <=> f \in finished)
    OBVIOUS
  <2> QED
    BY <2>1, <2>2, <2>3, <2>4, FiberWorksKept
<1>6. ASSUME NEW w \in Callbacks PROVE CarriedOnce(w)'
  <2>1. CarriedOnce(w) /\ Hands(w)' = Hands(w) /\ Bodies(w)' = Bodies(w)
    BY DEF WorkInv, Hands, Bodies
  <2>2. CASE \A i \in 1..Len(s) : s[i].cb # w
    <3>1. QueuedCb(w)' = QueuedCb(w)
      BY <1>1, <2>2
    <3>2. (w \in fresh' <=> w \in fresh) /\ (w \in finished' <=> w \in finished)
      BY <1>3, <2>2
    <3>3. \A i, j \in QueuedCb(w)' : i = j
      BY <2>1, <3>1 DEF CarriedOnce
    <3> QED
      BY <2>1, <3>1, <3>2, <3>3, CarriedKept
  <2>3. CASE \E i \in 1..Len(s) : s[i].cb = w
    <3>1. w \in fresh /\ w \notin fresh' /\ w \notin finished'
      BY <1>3, <2>1, <2>3 DEF CarriedOnce
    <3>2. QueuedCb(w) = {} /\ Hands(w) = {} /\ Bodies(w) = {}
      BY <2>1, <3>1 DEF CarriedOnce, Carried
    <3>3. \A i, j \in 1..Len(s) : s[i].cb = w /\ s[j].cb = w => i = j
      BY <1>3
    <3>4. QueuedCb(w)' # {} /\ \A i, j \in QueuedCb(w)' : i = j
      BY <1>1, <2>3, <3>2, <3>3
    <3> QED
      BY <2>1, <3>1, <3>2, <3>4 DEF CarriedOnce, Carried
  <2> QED
    BY <2>2, <2>3
<1> QED
  BY <1>2, <1>4, <1>5, <1>6 DEF WorkInv

(* The same for one entry. *)
LEMMA QueueOneWork ==
  ASSUME TInv, WorkInv, NEW e \in Entry, m_fibers' = Append(m_fibers, e),
         UNCHANGED <<m_state, m_cb, ft, cb_fiber, pc, finished>>, fresh' \subseteq fresh, armed' \subseteq armed,
         e.cb \in (Callbacks \cap (fresh \ fresh')) \cup {None},
         \A w \in fresh \ fresh' : e.cb = w \/ (w \in Fibers /\ e.fiber = w),
         \A f \in armed \ armed' : Holders(f) = {} /\ e.fiber = f
  PROVE  WorkInv'
<1> DEFINE s == <<e>>
<1>0. m_fibers \in Seq(Entry)
  BY DEF TInv, TypeOK
<1>1. s \in Seq(Entry) /\ Len(s) = 1 /\ s[1] = e
  OBVIOUS
<1>2. Append(m_fibers, e) = m_fibers \o s
  BY <1>0
<1> HIDE DEF s
<1>3. 1 \in 1..Len(s) /\ \A i \in 1..Len(s) : i = 1 /\ s[i] = e
  BY <1>1
<1>4. /\ \A i \in 1..Len(s) : s[i].cb \in (Callbacks \cap (fresh \ fresh')) \cup {None}
      /\ \A i, j \in 1..Len(s) : s[i].cb # None /\ s[i].cb = s[j].cb => i = j
  BY <1>3
<1>5. \A w \in fresh \ fresh' : \E i \in 1..Len(s) : s[i].cb = w \/ (w \in Fibers /\ s[i].fiber = w)
  BY <1>3
<1>6. \A f \in armed \ armed' : Holders(f) = {} /\ \E i \in 1..Len(s) : s[i].fiber = f
  BY <1>3
<1> QED
  BY <1>1, <1>2, <1>4, <1>5, <1>6, QueueStepWork

(* Steps in which thread t goes on with the fiber g, which has not ended. *)
LEMMA BodyStepWork ==
  ASSUME TInv, OwnInv, WorkInv, NEW t \in Threads, NEW g \in Fibers, Owners(g) = {t}, Running(t) = g,
         pc[t] \in OnFiberPcs \/ ft[t].fiber = g, ft[t].cb = None,
         UNCHANGED <<m_fibers, ft, cb_fiber, m_cb, fresh, finished>>, armed \subseteq armed',
         pc'[t] \in {"body", "parking", "switching"}, \A u \in Threads \ {t} : pc'[u] = pc[u],
         \A f \in Fibers \ {g} : m_state'[f] = m_state[f],
         m_state[g] \notin Ended, m_state'[g] \notin Ended \cup {"FREE"},
         pc'[t] = "parking" => g \in armed',
         pc'[t] = "switching" => m_state'[g] = "READY" \/ g \in armed'
  PROVE  WorkInv'
<1>1. ASSUME NEW u \in Threads PROVE ThreadWorks(u)'
  <2>1. ThreadWorks(u)
    BY DEF WorkInv
  <2>2. CASE u = t
    <3>1. Running(t)' = g
      BY DEF Running
    <3>2. ft'[t] = ft[t] /\ cb_fiber'[t] = cb_fiber[t] /\ m_cb' = m_cb
      OBVIOUS
    <3>3. cb_fiber[t] # None /\ ft[t].fiber # None => m_cb[cb_fiber[t]] = None
      BY <2>1, <2>2 DEF ThreadWorks
    <3>4. pc'[t] \in OnFiberPcs
      BY DEF OnFiberPcs
    <3> QED
      BY <2>2, <3>1, <3>2, <3>3, <3>4 DEF ThreadWorks
  <2>3. CASE u # t
    BY <2>1, <2>3, OthersWork
  <2> QED
    BY <2>2, <2>3
<1>2. ASSUME NEW f \in Fibers PROVE FiberWorks(f)'
  <2>1. FiberWorks(f)
    BY DEF WorkInv
  <2>2. Placed(f) => Placed(f)'
    BY DEF Placed, Queued, Owners
  <2>3. m_cb'[f] = m_cb[f] /\ (f \in finished' <=> f \in finished) /\ (f \in fresh' <=> f \in fresh)
    OBVIOUS
  <2>4. CASE f # g
    BY <2>1, <2>2, <2>3, <2>4, FiberWorksKept
  <2>5. CASE f = g
    BY <2>1, <2>2, <2>3, <2>5 DEF FiberWorks, ClientWorks, PoolWorks
  <2> QED
    BY <2>4, <2>5
<1>3. ASSUME NEW w \in Callbacks PROVE CarriedOnce(w)'
  <2>1. QueuedCb(w)' = QueuedCb(w) /\ Hands(w)' = Hands(w)
    BY DEF QueuedCb, Hands
  <2>2. \A f \in PoolFibers : m_state'[f] \in Ended <=> m_state[f] \in Ended
    BY DEF Fibers
  <2>3. Bodies(w)' = Bodies(w)
    BY <2>2 DEF Bodies
  <2> QED
    BY <2>1, <2>3, CarriedKept DEF WorkInv, CarriedOnce
<1> QED
  BY <1>1, <1>2, <1>3 DEF WorkInv, EntriesCb
(* Steps in which thread t lets go of the fiber g: g keeps its work elsewhere or has none. *)
LEMMA GiveUpWork ==
  ASSUME TInv, OwnInv, WorkInv, NEW t \in Threads, NEW g \in Fibers, Owners(g) = {t}, Running(t) = g,
         ft[t].cb = None, ft' = [ft EXCEPT ![t] = NoEntry], pc' = [pc EXCEPT ![t] = "scan"],
         \/ cb_fiber' = cb_fiber
         \/ ft[t].fiber = None /\ cb_fiber' = [cb_fiber EXCEPT ![t] = None],
         UNCHANGED <<armed, fresh, finished>>,
         \A f \in Fibers \ {g} : m_state'[f] = m_state[f] /\ m_cb'[f] = m_cb[f],
         \A f \in Fibers : Queued(f) # {} => Queued(f)' # {},
         \A w \in Callbacks : QueuedCb(w)' = QueuedCb(w),
         EntriesCb', FiberWorks(g)',
         \A w \in Callbacks : g \in Bodies(w)' <=> g \in Bodies(w),
         cb_fiber'[t] # None => m_cb'[cb_fiber'[t]] = None
  PROVE  WorkInv'
<1>0. ft \in [Threads -> Entry] /\ cb_fiber \in [Threads -> Fibers \cup {None}] /\ pc \in [Threads -> RunPcs]
  BY DEF TInv, TypeOK
<1>1. /\ ft'[t] = NoEntry /\ pc'[t] = "scan"
      /\ \A u \in Threads \ {t} : ft'[u] = ft[u] /\ cb_fiber'[u] = cb_fiber[u] /\ pc'[u] = pc[u]
  BY <1>0
<1>2. None \notin Fibers /\ None \notin Callbacks
  BY ConstantsAssumption DEF Work
<1>3. ASSUME NEW u \in Threads PROVE ThreadWorks(u)'
  <2>1. CASE u = t
    BY <1>1, <2>1 DEF ThreadWorks, NoEntry, OnFiberPcs
  <2>2. CASE u # t
    <3>1. ThreadWorks(u)
      BY DEF WorkInv
    <3> QED
      BY <1>1, <2>2, <3>1, OthersWork
  <2> QED
    BY <2>1, <2>2
<1>4. ASSUME NEW f \in Fibers, f # g PROVE FiberWorks(f)'
  <2>1. FiberWorks(f)
    BY DEF WorkInv
  <2>2. t \in Owners(f)' <=> t \in Owners(f)
    BY <1>0, <1>1, <1>2, <1>4 DEF Owners, Running, NoEntry
  <2>3. Owners(f)' = Owners(f)
    BY <1>1, <2>2, OwnersOf
  <2>4. Placed(f) => Placed(f)'
    BY <2>3 DEF Placed
  <2> QED
    BY <1>4, <2>1, <2>4, FiberWorksKept
<1>5. ASSUME NEW w \in Callbacks PROVE CarriedOnce(w)'
  <2>1. CarriedOnce(w) /\ QueuedCb(w)' = QueuedCb(w)
    BY DEF WorkInv
  <2>2. t \notin Hands(w) /\ t \notin Hands(w)'
    BY <1>1, <1>2 DEF Hands, NoEntry
  <2>3. Hands(w)' = Hands(w)
    BY <1>1, <2>2 DEF Hands
  <2>4. \A f \in PoolFibers \ {g} : f \in Bodies(w)' <=> f \in Bodies(w)
    BY DEF Bodies, Fibers
  <2>5. Bodies(w) \subseteq PoolFibers /\ Bodies(w)' \subseteq PoolFibers
    BY DEF Bodies
  <2>6. Bodies(w)' = Bodies(w)
    BY <2>4, <2>5
  <2> QED
    BY <2>1, <2>3, <2>6, CarriedKept DEF CarriedOnce
<1> QED
  BY <1>3, <1>4, <1>5 DEF WorkInv
(* Every step keeps the work with its one carrier, when wake-ups come after the loop let go. *)
LEMMA NextWorkInv ==
  ASSUME EarlyWake = FALSE
  PROVE  TInv /\ OwnInv /\ WorkInv /\ [Next]_vars => WorkInv'
<1> SUFFICES ASSUME TInv, OwnInv, WorkInv, [Next]_vars PROVE WorkInv'
  OBVIOUS
<1> USE DEF queueVars, fiberVars, loopVars
<1>0. /\ m_fibers \in Seq(Entry) /\ pc \in [Threads -> RunPcs] /\ ft \in [Threads -> Entry]
      /\ m_state \in [Fibers -> States] /\ cb_fiber \in [Threads -> Fibers \cup {None}]
      /\ m_cb \in [Fibers -> Work \cup {None}] /\ fresh \subseteq Work /\ m_threads \subseteq Threads
  BY DEF TInv, TypeOK, Threads
<1>1. None \notin Fibers /\ Fibers \cap Callbacks = {} /\ ClientFibers \cap PoolFibers = {} /\ None \notin Work
  BY ConstantsAssumption
<1>5. \A w \in Work, th \in PinTargets : ItemEntry(w, th) \in Entry
  BY <1>0, <1>1 DEF ItemEntry, FiberEntry, Entry, Work, Fibers, PinTargets, Threads
<1>6. \A f \in Fibers, th \in PinTargets \cup {AnyThread} : FiberEntry(f, th) \in Entry
  BY <1>0 DEF FiberEntry, Entry, PinTargets, Threads
<1>7. \A w \in Work, th \in PinTargets \cup {AnyThread} :
        \/ w \in ClientFibers /\ w \in Fibers /\ ItemEntry(w, th).fiber = w /\ ItemEntry(w, th).cb = None
        \/ w \in Callbacks /\ ItemEntry(w, th).cb = w
  BY DEF ItemEntry, FiberEntry, Work, Fibers
(* schedule(), from wherever it is called *)
<1>8. ASSUME NEW w \in fresh, NEW th \in PinTargets, Schedule(w, th),
             UNCHANGED <<m_state, m_cb, ft, cb_fiber, pc, armed, finished>>
      PROVE  WorkInv'
  <2> DEFINE e == ItemEntry(w, th)
  <2>1. e \in Entry /\ m_fibers' = Append(m_fibers, e) /\ fresh' = fresh \ {w}
    BY <1>0, <1>5, <1>8 DEF Schedule
  <2>2. \/ w \in Fibers /\ e.fiber = w /\ e.cb = None
        \/ w \in Callbacks /\ e.cb = w
    BY <1>0, <1>7
  <2> HIDE DEF e
  <2>3. fresh \ fresh' = {w} /\ fresh' \subseteq fresh /\ armed' = armed
    BY <1>8, <2>1
  <2>4. /\ e.cb \in (Callbacks \cap (fresh \ fresh')) \cup {None}
        /\ \A x \in fresh \ fresh' : e.cb = x \/ (x \in Fibers /\ e.fiber = x)
    BY <2>2, <2>3
  <2> QED
    BY <1>8, <2>1, <2>3, <2>4, QueueOneWork
<1>9. ASSUME ClientSchedule PROVE WorkInv'
  BY <1>8, <1>9 DEF ClientSchedule
<1>10. ASSUME ClientScheduleBatch PROVE WorkInv'
  <2>1. PICK v \in fresh, w \in fresh :
          /\ v # w
          /\ m_fibers' = m_fibers \o <<ItemEntry(v, AnyThread), ItemEntry(w, AnyThread)>>
          /\ fresh' = fresh \ {v, w}
    BY <1>10 DEF ClientScheduleBatch
  <2> DEFINE a == ItemEntry(v, AnyThread)
             b == ItemEntry(w, AnyThread)
             s == <<a, b>>
  <2>2. a \in Entry /\ b \in Entry
    BY <1>0, <1>5 DEF PinTargets
  <2>3. /\ (v \in Fibers /\ a.fiber = v /\ a.cb = None) \/ (v \in Callbacks /\ a.cb = v)
        /\ (w \in Fibers /\ b.fiber = w /\ b.cb = None) \/ (w \in Callbacks /\ b.cb = w)
    BY <1>0, <1>7
  <2>7. UNCHANGED <<m_state, m_cb, ft, cb_fiber, pc, armed, finished>> /\ m_fibers' = m_fibers \o s
    BY <1>10, <2>1 DEF ClientScheduleBatch
  <2> HIDE DEF a, b
  <2>5. s \in Seq(Entry) /\ Len(s) = 2 /\ s[1] = a /\ s[2] = b
    BY <2>2
  <2> HIDE DEF s
  <2>6. /\ \A i \in 1..Len(s) : (i = 1 /\ s[i] = a) \/ (i = 2 /\ s[i] = b)
        /\ 1 \in 1..Len(s) /\ 2 \in 1..Len(s)
    BY <2>5
  <2>8. \A i \in 1..Len(s) : s[i].cb \in (Callbacks \cap (fresh \ fresh')) \cup {None}
    BY <2>1, <2>3, <2>6
  <2>9. \A i, j \in 1..Len(s) : s[i].cb # None /\ s[i].cb = s[j].cb => i = j
    BY <2>1, <2>3, <2>6
  <2>10. \A x \in fresh \ fresh' : \E i \in 1..Len(s) : s[i].cb = x \/ (x \in Fibers /\ s[i].fiber = x)
    <3>1. TAKE x \in fresh \ fresh'
    <3>2. x = v \/ x = w
      BY <2>1
    <3>3. ASSUME x = v PROVE \E i \in 1..Len(s) : s[i].cb = x \/ (x \in Fibers /\ s[i].fiber = x)
      <4>1. s[1].cb = x \/ (x \in Fibers /\ s[1].fiber = x)
        BY <2>3, <2>5, <3>3
      <4> QED
        BY <2>6, <4>1
    <3>4. ASSUME x = w PROVE \E i \in 1..Len(s) : s[i].cb = x \/ (x \in Fibers /\ s[i].fiber = x)
      <4>1. s[2].cb = x \/ (x \in Fibers /\ s[2].fiber = x)
        BY <2>3, <2>5, <3>4
      <4> QED
        BY <2>6, <4>1
    <3> QED
      BY <3>2, <3>3, <3>4
  <2> QED
    BY <2>1, <2>5, <2>7, <2>8, <2>9, <2>10, QueueStepWork
<1>11. ASSUME ClientScheduleEnded PROVE WorkInv'
  <2>1. PICK f \in ClientFibers, th \in PinTargets : m_fibers' = Append(m_fibers, FiberEntry(f, th))
    BY <1>11 DEF ClientScheduleEnded
  <2>2. FiberEntry(f, th) \in Entry /\ FiberEntry(f, th).cb = None
    BY <1>6 DEF FiberEntry, Fibers
  <2> QED
    BY <1>11, <2>1, <2>2, QueueOneWork DEF ClientScheduleEnded
<1>12. ASSUME NEW f \in Fibers, Wake(f) PROVE WorkInv'
  <2> DEFINE e == FiberEntry(f, AnyThread)
  <2>1. e \in Entry /\ e.fiber = f /\ e.cb = None /\ m_fibers' = Append(m_fibers, e)
    BY <1>6, <1>12 DEF Wake, FiberEntry
  <2>2. armed' = armed \ {f} /\ Holders(f) = {}
    BY <1>12 DEF Wake
  <2> HIDE DEF e
  <2> QED
    BY <1>12, <2>1, <2>2, QueueOneWork DEF Wake
<1>13. ASSUME NEW t \in Threads, BodySchedule(t) PROVE WorkInv'
  BY <1>8, <1>13 DEF BodySchedule
<1>14. ASSUME StopBegin PROVE WorkInv'
  BY <1>14, LoopStepWork DEF StopBegin
<1>15. ASSUME StopQuick PROVE WorkInv'
  BY <1>15, LoopStepWork DEF StopQuick
<1>16. ASSUME StopMark PROVE WorkInv'
  BY <1>16, LoopStepWork DEF StopMark
<1>17. ASSUME StopCheck PROVE WorkInv'
  BY <1>17, LoopStepWork DEF StopCheck
<1>18. ASSUME StopRooted PROVE WorkInv'
  BY <1>18, LoopStepWork DEF StopRooted
<1>19. ASSUME StopJoin PROVE WorkInv'
  BY <1>19, LoopStepWork DEF StopJoin
<1>20. ASSUME StopCall PROVE WorkInv'
  BY <1>0, <1>20, LoopStepWork DEF StopCall, BusyPcs, ActivePcs
<1>21. ASSUME Start PROVE WorkInv'
  <2>1. PICK new \in SUBSET {w \in Workers : pc[w] = "off"} :
          pc' = [t \in Threads |-> IF t \in new THEN "scan" ELSE pc[t]]
    BY <1>21 DEF Start
  <2>2. \A t \in Threads : pc'[t] = pc[t] \/ (pc[t] = "off" /\ pc'[t] = "scan")
    BY <2>1
  <2> QED
    BY <1>21, <2>2, LoopStepWork DEF Start, BusyPcs, ActivePcs
<1>22. ASSUME NEW t \in Threads, ScanNothing(t) PROVE WorkInv'
  BY <1>0, <1>22, LoopStepWork DEF ScanNothing, Goto, BusyPcs, ActivePcs
<1>23. ASSUME NEW t \in Threads, EnterIdle(t) PROVE WorkInv'
  BY <1>0, <1>23, LoopStepWork DEF EnterIdle, Goto, BusyPcs, ActivePcs
<1>24. ASSUME NEW t \in Threads, Idle(t) PROVE WorkInv'
  BY <1>0, <1>24, LoopStepWork DEF Idle, Goto, BusyPcs, ActivePcs
<1>25. ASSUME NEW t \in Threads, Exit(t) PROVE WorkInv'
  BY <1>0, <1>25, LoopStepWork DEF Exit, Goto, BusyPcs, ActivePcs
<1>26. ASSUME NEW t \in Threads, Leave(t) PROVE WorkInv'
  BY <1>0, <1>26, LoopStepWork DEF Leave, Goto, BusyPcs, ActivePcs
<1>27. ASSUME NEW t \in Threads, SwitchOut(t) PROVE WorkInv'
  BY <1>0, <1>27, LoopStepWork DEF SwitchOut, Goto, BusyPcs, ActivePcs
<1>28. ASSUME UNCHANGED vars PROVE WorkInv'
  BY <1>28, LoopStepWork DEF vars
<1>29. ASSUME NEW t \in Threads, ResumeFiber(t) PROVE WorkInv'
  <2> DEFINE g == ft[t].fiber
  <2>1. g \in Fibers /\ t \in Owners(g) /\ Running(t) = g /\ pc[t] = "got" /\ m_state[g] \notin Ended
    BY <1>0, <1>29 DEF ResumeFiber, Entry, Owners, Running
  <2>2. Owners(g) = {t} /\ ft[t].cb = None
    BY <1>1, <2>1 DEF OwnInv, FiberOwned, ThreadOwns, EntryShape
  <2>3. /\ m_state'[g] = "EXEC" /\ pc'[t] = "body" /\ \A u \in Threads \ {t} : pc'[u] = pc[u]
        /\ \A f \in Fibers \ {g} : m_state'[f] = m_state[f]
        /\ UNCHANGED <<m_fibers, ft, cb_fiber, m_cb, fresh, finished, armed>>
    BY <1>0, <1>29, <2>1 DEF ResumeFiber, Goto
  <2> QED
    BY <2>1, <2>2, <2>3, BodyStepWork DEF Ended
(* What the steps of a fiber's body start from. *)
<1>30. ASSUME NEW t \in Threads, pc[t] \in {"body", "parking"}
       PROVE  /\ Running(t) \in Fibers /\ Owners(Running(t)) = {t} /\ ft[t].cb = None
              /\ pc[t] \in OnFiberPcs /\ m_state[Running(t)] = "EXEC"
  BY <1>30, RunningFacts DEF OnFiberPcs, OwnInv, StateAssertions
<1>31. ASSUME NEW t \in Threads, YieldToReady(t) PROVE WorkInv'
  <2> DEFINE g == Running(t)
  <2>1. pc[t] = "body"
    BY <1>31 DEF YieldToReady
  <2>2. /\ m_state'[g] = "READY" /\ pc'[t] = "switching" /\ \A u \in Threads \ {t} : pc'[u] = pc[u]
        /\ \A f \in Fibers \ {g} : m_state'[f] = m_state[f]
        /\ UNCHANGED <<m_fibers, ft, cb_fiber, m_cb, fresh, finished, armed>>
    BY <1>0, <1>30, <1>31, <2>1 DEF YieldToReady, Goto
  <2> QED
    BY <1>30, <2>1, <2>2, BodyStepWork DEF Ended
<1>32. ASSUME NEW t \in Threads, ArmWake(t) PROVE WorkInv'
  <2> DEFINE g == Running(t)
  <2>1. pc[t] = "body"
    BY <1>32 DEF ArmWake
  <2>2. /\ m_state' = m_state /\ pc'[t] = "parking" /\ \A u \in Threads \ {t} : pc'[u] = pc[u]
        /\ armed' = armed \cup {g}
        /\ UNCHANGED <<m_fibers, ft, cb_fiber, m_cb, fresh, finished>>
    BY <1>0, <1>32 DEF ArmWake, Goto
  <2> QED
    BY <1>30, <2>1, <2>2, BodyStepWork DEF Ended
<1>33. ASSUME NEW t \in Threads, YieldToHold(t) PROVE WorkInv'
  <2> DEFINE g == Running(t)
  <2>1. pc[t] = "parking" /\ g \in armed
    BY <1>33 DEF YieldToHold, WorkInv, ThreadWorks
  <2>2. /\ m_state'[g] = "HOLD" /\ pc'[t] = "switching" /\ \A u \in Threads \ {t} : pc'[u] = pc[u]
        /\ \A f \in Fibers \ {g} : m_state'[f] = m_state[f]
        /\ UNCHANGED <<m_fibers, ft, cb_fiber, m_cb, fresh, finished, armed>>
    BY <1>0, <1>30, <1>33, <2>1 DEF YieldToHold, Goto
  <2> QED
    BY <1>30, <2>1, <2>2, BodyStepWork DEF Ended
<1>34. ASSUME NEW t \in Threads, Finish(t) PROVE WorkInv'
  <2>0. PICK g \in Fibers : g = Running(t) /\ pc[t] = "body"
    BY <1>30, <1>34 DEF Finish
  <2>1. /\ Owners(g) = {t} /\ ft[t].cb = None /\ m_state[g] = "EXEC" /\ g \notin fresh
        /\ FiberWorks(g) /\ Running(t)' = g
    BY <1>30, <1>34, <2>0, RunningFacts DEF Finish, OnFiberPcs, Running
  <2>2. /\ m_state'[g] \in Ended /\ m_cb'[g] \in {m_cb[g], None}
        /\ finished' = finished \cup ({m_cb[g]} \ {None})
        /\ pc'[t] = "switching" /\ \A u \in Threads \ {t} : pc'[u] = pc[u]
        /\ \A f \in Fibers \ {g} : m_state'[f] = m_state[f] /\ m_cb'[f] = m_cb[f]
        /\ UNCHANGED <<m_fibers, ft, cb_fiber, fresh, armed>>
    BY <1>0, <1>34, <2>0 DEF Finish, Goto, Ended
  <2>3. ASSUME NEW u \in Threads PROVE ThreadWorks(u)'
    <3>1. ThreadWorks(u)
      BY DEF WorkInv
    <3>2. CASE u = t
      <4>1. cb_fiber[t] # None /\ ft[t].fiber # None => cb_fiber[t] \in Fibers \ {g}
        BY <1>0, <2>0 DEF OwnInv, ThreadOwns, Running
      <4>2. cb_fiber[t] # None /\ ft[t].fiber # None => m_cb'[cb_fiber[t]] = None
        BY <2>2, <3>1, <3>2, <4>1 DEF ThreadWorks
      <4> QED
        BY <2>1, <2>2, <3>2, <4>2 DEF ThreadWorks, OnFiberPcs
    <3>3. CASE u # t
      BY <2>1, <2>2, <3>1, <3>3, OthersWork
    <3> QED
      BY <3>2, <3>3
  <2>4. ASSUME NEW f \in Fibers PROVE FiberWorks(f)'
    <3>1. FiberWorks(f)
      BY DEF WorkInv
    <3>2. Placed(f) => Placed(f)'
      BY <2>2 DEF Placed, Queued, Owners
    <3>3. CASE f = g
      BY <1>1, <2>1, <2>2, <3>1, <3>2, <3>3 DEF FiberWorks, ClientWorks, PoolWorks, Ended, Fibers
    <3>4. CASE f # g
      <4>1. f \in finished' <=> f \in finished
        BY <1>1, <2>1, <2>2, <3>4 DEF FiberWorks, ClientWorks, PoolWorks, Fibers
      <4> QED
        BY <2>2, <3>1, <3>2, <3>4, <4>1, FiberWorksKept
    <3> QED
      BY <3>3, <3>4
  <2>5. ASSUME NEW w \in Callbacks PROVE CarriedOnce(w)'
    <3>1. CarriedOnce(w) /\ QueuedCb(w)' = QueuedCb(w) /\ Hands(w)' = Hands(w)
      BY <2>2 DEF WorkInv, QueuedCb, Hands
    <3>2. CASE m_cb[g] = w
      <4>1. g \in PoolFibers /\ g \in Bodies(w)
        BY <1>1, <2>1, <3>2 DEF FiberWorks, ClientWorks, Fibers, Bodies, Ended
      <4>2. QueuedCb(w) = {} /\ Hands(w) = {} /\ Bodies(w) = {g} /\ w \notin fresh
        BY <3>1, <4>1 DEF CarriedOnce, Carried
      <4>3. \A f \in PoolFibers \ {g} : f \notin Bodies(w) /\ f \notin Bodies(w)'
        BY <2>2, <4>2 DEF Bodies, Fibers
      <4>4. Bodies(w)' = {}
        BY <2>2, <4>3 DEF Bodies
      <4>5. w \in finished'
        BY <1>1, <2>2, <3>2 DEF Work
      <4> QED
        <5>1. QueuedCb(w)' = {} /\ Hands(w)' = {} /\ w \notin fresh'
          BY <2>2, <3>1, <4>2
        <5> QED
          BY <4>4, <4>5, <5>1 DEF CarriedOnce, Carried
    <3>3. CASE m_cb[g] # w
      <4>1. g \notin Bodies(w) /\ g \notin Bodies(w)'
        BY <1>1, <2>2, <3>3 DEF Bodies, Work
      <4>2. Bodies(w)' = Bodies(w)
        BY <2>2, <4>1 DEF Bodies, Fibers
      <4> QED
        BY <2>2, <3>1, <3>3, <4>2, CarriedKept DEF CarriedOnce
    <3> QED
      BY <3>2, <3>3
  <2> QED
    BY <2>2, <2>3, <2>4, <2>5 DEF WorkInv, EntriesCb
<1>35. ASSUME NEW t \in Threads, ScanTake(t) PROVE WorkInv'
  <2>1. PICK i \in 1..Len(m_fibers) : ft' = [ft EXCEPT ![t] = m_fibers[i]] /\ m_fibers' = RemoveAt(m_fibers, i)
    BY <1>35 DEF ScanTake
  <2>2. PICK e \in Entry : e = m_fibers[i]
    BY <1>0
  <2>3. /\ pc[t] = "scan" /\ pc'[t] = "got" /\ ft'[t] = e /\ cb_fiber' = cb_fiber
        /\ \A u \in Threads \ {t} : pc'[u] = pc[u] /\ ft'[u] = ft[u]
        /\ UNCHANGED <<m_state, m_cb, armed, fresh, finished>>
    BY <1>0, <1>35, <2>1, <2>2 DEF ScanTake, Goto
  <2>4. ft[t].fiber = None /\ ft[t].cb = None /\ ThreadWorks(t)
    BY <2>3 DEF OwnInv, ThreadOwns, WorkInv, ThreadWorks, BusyPcs, ActivePcs
  <2>5. e.cb \in Callbacks \cup {None}
    BY <2>2 DEF WorkInv, EntriesCb
  <2>6. ASSUME NEW u \in Threads PROVE ThreadWorks(u)'
    <3>1. CASE u = t
      BY <2>3, <2>4, <2>5, <3>1 DEF ThreadWorks, OnFiberPcs
    <3>2. CASE u # t
      BY <2>3, <3>2 DEF WorkInv, ThreadWorks, Running
    <3> QED
      BY <3>1, <3>2
  <2>7. ASSUME NEW f \in Fibers PROVE FiberWorks(f)'
    <3>1. FiberWorks(f) /\ \A j, k \in Queued(f) : j = k
      BY DEF WorkInv, OwnInv, FiberOwned
    <3>2. e.fiber # f => (Queued(f)' = {} <=> Queued(f) = {})
      BY <1>0, <2>1, <2>2, <3>1, RemoveQueued
    <3>3. e.fiber = f => t \in Owners(f)'
      BY <2>3 DEF Owners
    <3>4. Owners(f) \subseteq Owners(f)'
      BY <1>1, <2>3, <2>4 DEF Owners
    <3>5. Placed(f) => Placed(f)'
      BY <2>3, <3>2, <3>3, <3>4 DEF Placed
    <3> QED
      BY <2>3, <3>1, <3>5, FiberWorksKept
  <2>8. ASSUME NEW w \in Callbacks PROVE CarriedOnce(w)'
    <3>1. CarriedOnce(w) /\ Bodies(w)' = Bodies(w)
      BY <2>3 DEF WorkInv, Bodies
    <3>2. /\ e.cb # w => (QueuedCb(w)' = {} <=> QueuedCb(w) = {})
          /\ e.cb = w => QueuedCb(w) # {} /\ QueuedCb(w)' = {}
          /\ \A j, k \in QueuedCb(w)' : j = k
      <4>1. \A j, k \in QueuedCb(w) : j = k
        BY <3>1 DEF CarriedOnce
      <4> QED
        BY <1>0, <2>1, <2>2, <4>1, RemoveCarries
    <3>3. CASE e.cb # w
      <4>1. t \notin Hands(w) /\ t \notin Hands(w)'
        BY <1>1, <2>3, <2>4, <3>3 DEF Hands, Work
      <4>2. Hands(w)' = Hands(w)
        BY <2>3, <4>1 DEF Hands
      <4> QED
        BY <2>3, <3>1, <3>2, <3>3, <4>2, CarriedKept
    <3>4. CASE e.cb = w
      <4>1. Hands(w) = {} /\ Bodies(w)' = {} /\ w \notin fresh \cup finished
        BY <3>1, <3>2, <3>4 DEF CarriedOnce, Carried
      <4>2. Hands(w)' = {t}
        <5>1. \A u \in Threads \ {t} : u \notin Hands(w)'
          BY <2>3, <4>1 DEF Hands
        <5>2. t \in Hands(w)'
          BY <2>3, <3>4 DEF Hands
        <5> QED
          BY <5>1, <5>2 DEF Hands
      <4>3. QueuedCb(w)' = {} /\ w \notin fresh' \cup finished'
        BY <2>3, <3>2, <3>4, <4>1
      <4> QED
        BY <4>1, <4>2, <4>3 DEF CarriedOnce, Carried
    <3> QED
      BY <3>3, <3>4
  <2>9. EntriesCb'
    <3>1. /\ Len(m_fibers') = Len(m_fibers) - 1 /\ Len(m_fibers) \in Nat
          /\ \A k \in 1..Len(m_fibers') : m_fibers'[k] = IF k < i THEN m_fibers[k] ELSE m_fibers[k + 1]
      BY <1>0, <2>1, RemoveAtFacts, SMTT(30)
    <3> QED
      BY <3>1 DEF WorkInv, EntriesCb
  <2> QED
    BY <2>6, <2>7, <2>8, <2>9 DEF WorkInv
<1>36. ASSUME NEW t \in Threads, RunCallback(t) PROVE WorkInv'
  <2> DEFINE v == ft[t].cb
  <2>1. PICK g \in Fibers :
          /\ \/ cb_fiber[t] # None /\ g = cb_fiber[t]
             \/ cb_fiber[t] = None /\ g \in PoolFibers /\ m_state[g] = "FREE"
          /\ cb_fiber' = [cb_fiber EXCEPT ![t] = g]
          /\ m_cb' = [m_cb EXCEPT ![g] = v]
          /\ m_state' = [m_state EXCEPT ![g] = "EXEC"]
    BY <1>0, <1>36 DEF RunCallback, Fibers
  <2>2. /\ pc[t] = "got" /\ pc'[t] = "body" /\ ft'[t] = NoEntry /\ ft[t].fiber = None /\ cb_fiber'[t] = g
        /\ \A u \in Threads \ {t} : pc'[u] = pc[u] /\ ft'[u] = ft[u] /\ cb_fiber'[u] = cb_fiber[u]
        /\ UNCHANGED <<m_fibers, armed, fresh, finished>> /\ m_state'[g] = "EXEC" /\ m_cb'[g] = v
        /\ \A f \in Fibers \ {g} : m_state'[f] = m_state[f] /\ m_cb'[f] = m_cb[f]
    BY <1>0, <1>36, <2>1 DEF RunCallback, Goto, OwnInv, ThreadOwns, EntryShape
  <2>3. v \in Callbacks /\ g \in PoolFibers /\ ThreadWorks(t) /\ FiberWorks(g) /\ FiberOwned(g)
    <3>1. v # None
      BY <1>36 DEF RunCallback
    <3> QED
      BY <2>1, <3>1 DEF WorkInv, OwnInv, ThreadOwns, ThreadWorks
  <2>4. m_cb[g] = None
    BY <1>1, <2>1, <2>2, <2>3 DEF ThreadWorks, OnFiberPcs, FiberWorks, PoolWorks
  <2>5. Owners(g) \subseteq {t} /\ t \in Owners(g)'
    <3>1. t \in Owners(g)'
      BY <2>2 DEF Owners
    <3>2. CASE cb_fiber[t] = g
      <4>1. t \in Owners(g)
        BY <3>2 DEF Owners
      <4> QED
        BY <2>3, <3>1, <4>1 DEF FiberOwned
    <3>3. CASE m_state[g] = "FREE"
      BY <2>3, <3>1, <3>3 DEF FiberOwned, Unplaced
    <3> QED
      BY <2>1, <3>2, <3>3
  <2> HIDE DEF v
  <2>6. ASSUME NEW u \in Threads PROVE ThreadWorks(u)'
    <3>1. CASE u = t
      BY <2>2, <3>1 DEF ThreadWorks, NoEntry, OnFiberPcs
    <3>2. CASE u # t
      <4>1. ThreadWorks(u)
        BY DEF WorkInv
      <4> QED
        BY <2>2, <2>5, <3>2, <4>1, OthersWork
    <3> QED
      BY <3>1, <3>2
  <2>7. ASSUME NEW f \in Fibers PROVE FiberWorks(f)'
    <3>1. CASE f = g
      BY <1>1, <2>2, <2>3, <2>5, <3>1 DEF FiberWorks, PoolWorks, Placed
    <3>2. CASE f # g
      <4>1. FiberWorks(f)
        BY DEF WorkInv
      <4>2. t \notin Owners(f)' /\ t \notin Owners(f)
        BY <1>1, <2>1, <2>2, <3>2 DEF Owners, NoEntry
      <4>3. Owners(f)' = Owners(f)
        BY <2>2, <4>2, OwnersOf
      <4>4. Placed(f) => Placed(f)'
        BY <2>2, <4>3 DEF Placed, Queued
      <4> QED
        BY <2>2, <3>2, <4>1, <4>4, FiberWorksKept
    <3> QED
      BY <3>1, <3>2
  <2>8. ASSUME NEW w \in Callbacks PROVE CarriedOnce(w)'
    <3>1. CarriedOnce(w) /\ QueuedCb(w)' = QueuedCb(w) /\ w # None
      BY <1>1, <2>2 DEF WorkInv, QueuedCb, Work
    <3>2. \A f \in PoolFibers \ {g} : f \in Bodies(w)' <=> f \in Bodies(w)
      BY <2>2 DEF Bodies, Fibers
    <3>3. g \notin Bodies(w) /\ (g \in Bodies(w)' <=> v = w)
      BY <2>2, <2>3, <2>4, <3>1 DEF Bodies, Ended
    <3>4. /\ Bodies(w) \subseteq PoolFibers /\ Bodies(w)' \subseteq PoolFibers
          /\ Hands(w) \subseteq Threads /\ Hands(w)' \subseteq Threads
      BY DEF Bodies, Hands
    <3>5. (\A u \in Threads \ {t} : u \in Hands(w)' <=> u \in Hands(w)) /\ t \notin Hands(w)' /\ (t \in Hands(w) <=> v = w)
      BY <2>2, <3>1 DEF Hands, NoEntry, v
    <3>6. CASE v = w
      <4>1. t \in Hands(w)
        BY <3>5, <3>6
      <4>2. QueuedCb(w) = {} /\ Hands(w) = {t} /\ Bodies(w) = {} /\ w \notin fresh \cup finished
        BY <3>1, <4>1 DEF CarriedOnce, Carried
      <4>3. Hands(w)' = {} /\ Bodies(w)' = {g}
        BY <3>2, <3>3, <3>4, <3>5, <3>6, <4>2
      <4>4. QueuedCb(w)' = {} /\ w \notin fresh' \cup finished'
        BY <2>2, <3>1, <4>2
      <4> QED
        BY <4>3, <4>4 DEF CarriedOnce, Carried
    <3>7. CASE v # w
      <4>1. Hands(w)' = Hands(w) /\ Bodies(w)' = Bodies(w)
        BY <3>2, <3>3, <3>4, <3>5, <3>7
      <4> QED
        BY <2>2, <3>1, <4>1, CarriedKept DEF CarriedOnce
    <3> QED
      BY <3>6, <3>7
  <2> QED
    BY <2>2, <2>6, <2>7, <2>8 DEF WorkInv, EntriesCb
<1>37. ASSUME NEW t \in Threads, DropEnded(t) PROVE WorkInv'
  <2>0. PICK g \in Fibers : g = ft[t].fiber
    BY <1>0, <1>37 DEF DropEnded, Entry
  <2>1. /\ Running(t) = g /\ pc[t] = "got" /\ UNCHANGED <<cb_fiber, m_fibers, armed, fresh, finished, m_state, m_cb>>
        /\ ft' = [ft EXCEPT ![t] = NoEntry] /\ pc' = [pc EXCEPT ![t] = "scan"] /\ m_state[g] \in Ended
    BY <1>0, <1>37, <2>0 DEF DropEnded, Running, Goto
  <2>2. Owners(g) = {t}
    BY <2>0, <2>1, GivenUp
  <2>3. ft[t].cb = None /\ ThreadWorks(t) /\ FiberWorks(g)
    BY <1>1, <2>0 DEF OwnInv, ThreadOwns, EntryShape, WorkInv
  <2>4. FiberWorks(g)'
    BY <2>1, <2>3 DEF FiberWorks, ClientWorks, PoolWorks, Ended
  <2>5. cb_fiber'[t] # None => m_cb'[cb_fiber'[t]] = None
    BY <2>1, <2>3 DEF ThreadWorks, OnFiberPcs
  <2>6. (\A f \in Fibers : Queued(f)' = Queued(f)) /\ (\A w \in Callbacks : QueuedCb(w)' = QueuedCb(w)) /\ EntriesCb'
    BY <2>1 DEF Queued, QueuedCb, EntriesCb, WorkInv
  <2>7. \A w \in Callbacks : Bodies(w)' = Bodies(w)
    BY <2>1 DEF Bodies
  <2> QED
    BY <2>1, <2>2, <2>3, <2>4, <2>5, <2>6, <2>7, GiveUpWork
(* What the three branches behind a switch have in common. *)
<1>38. ASSUME NEW t \in Threads, Requeue(t) \/ Release(t) \/ Park(t)
       PROVE  /\ pc[t] = "post" /\ Running(t) \in Fibers /\ Owners(Running(t)) = {t} /\ ft[t].cb = None
              /\ ThreadOwns(t) /\ ThreadWorks(t) /\ FiberWorks(Running(t))
              /\ UNCHANGED <<armed, fresh, finished>>
              /\ ft' = [ft EXCEPT ![t] = NoEntry] /\ pc' = [pc EXCEPT ![t] = "scan"]
              /\ \/ cb_fiber' = cb_fiber
                 \/ ft[t].fiber = None /\ cb_fiber' = [cb_fiber EXCEPT ![t] = None]
  <2>1. pc[t] = "post"
    BY <1>38 DEF Requeue, Release, Park
  <2>2. /\ UNCHANGED <<armed, fresh, finished>>
        /\ ft' = [ft EXCEPT ![t] = NoEntry] /\ pc' = [pc EXCEPT ![t] = "scan"]
        /\ \/ cb_fiber' = cb_fiber
           \/ ft[t].fiber = None /\ cb_fiber' = [cb_fiber EXCEPT ![t] = None]
    BY <1>38 DEF Requeue, Release, Park, Goto
  <2> QED
    BY <2>1, <2>2, RunningFacts DEF OnFiberPcs, OwnInv, WorkInv
(* The fiber kept for callbacks is empty when another one comes back. *)
<1>39. ASSUME NEW t \in Threads, Requeue(t) \/ Release(t) \/ Park(t), ft[t].fiber # None
       PROVE  cb_fiber[t] # None => m_cb[cb_fiber[t]] = None /\ cb_fiber[t] \in Fibers \ {Running(t)}
  BY <1>0, <1>38, <1>39 DEF ThreadWorks, ThreadOwns, Running
<1>40. ASSUME NEW t \in Threads, Requeue(t) PROVE WorkInv'
  <2>0. PICK g \in Fibers : g = Running(t)
    BY <1>38, <1>40
  <2> DEFINE e == FiberEntry(g, AnyThread)
             s == <<e>>
  <2>1. /\ UNCHANGED <<m_state, m_cb>> /\ m_fibers' = Append(m_fibers, e)
        /\ m_state[g] = "READY"
    BY <1>40, <2>0 DEF Requeue
  <2>2. e \in Entry /\ e.fiber = g /\ e.cb = None
    BY <1>6 DEF FiberEntry
  <2>3. s \in Seq(Entry) /\ Len(s) = 1 /\ s[1] = e /\ Append(m_fibers, e) = m_fibers \o s
    BY <1>0, <2>2
  <2> HIDE DEF e, s
  <2>4. 1 \in 1..Len(s) /\ \A i \in 1..Len(s) : s[i] = e
    BY <2>3
  <2>5. /\ \A w \in Callbacks : QueuedCb(w)' = QueuedCb(w)
        /\ \A f \in Fibers : Queued(f) # {} => Queued(f)' # {}
        /\ Queued(g)' # {} /\ EntriesCb'
    <3>0. m_fibers' = m_fibers \o s
      BY <2>1, <2>3
    <3>1. \A w \in Callbacks : \A i \in 1..Len(s) : s[i].cb # w
      BY <1>1, <2>2, <2>4 DEF Work
    <3>2. \E i \in 1..Len(s) : s[i].fiber = g
      BY <2>2, <2>4
    <3>3. \A i \in 1..Len(s) : s[i].cb \in Callbacks \cup {None}
      BY <2>2, <2>4
    <3>4. EntriesCb
      BY DEF WorkInv
    <3> QED
      BY <1>0, <2>3, <3>0, <3>1, <3>2, <3>3, <3>4, AppendCarries
  <2>6. FiberWorks(g)'
    <3>1. FiberWorks(g) /\ Placed(g)'
      BY <1>38, <1>40, <2>0, <2>5 DEF Placed
    <3>2. g \in finished' <=> g \in finished
      BY <1>38, <1>40
    <3> QED
      BY <2>1, <3>1, <3>2, FiberWorksKept
  <2>7. cb_fiber'[t] # None => m_cb'[cb_fiber'[t]] = None
    <3>1. CASE ft[t].fiber = None
      BY <1>0, <1>40, <3>1 DEF Requeue
    <3>2. CASE ft[t].fiber # None
      BY <1>39, <1>40, <2>1, <3>2 DEF Requeue
    <3> QED
      BY <3>1, <3>2
  <2>8. \A w \in Callbacks : Bodies(w)' = Bodies(w)
    BY <2>1 DEF Bodies
  <2> QED
    BY <1>38, <1>40, <2>0, <2>1, <2>5, <2>6, <2>7, <2>8, GiveUpWork
<1>41. ASSUME NEW t \in Threads, Release(t) PROVE WorkInv'
  <2>0. PICK g \in Fibers : g = Running(t)
    BY <1>38, <1>41
  <2>1. /\ m_fibers' = m_fibers /\ m_state[g] \in Ended /\ cb_fiber' = cb_fiber
        /\ \A f \in Fibers \ {g} : m_state'[f] = m_state[f] /\ m_cb'[f] = m_cb[f]
        /\ \/ ft[t].fiber = None /\ g = cb_fiber[t] /\ m_state'[g] = "INIT" /\ m_cb'[g] = None
           \/ ft[t].fiber # None /\ m_state'[g] = m_state[g] /\ m_cb'[g] = m_cb[g]
    BY <1>0, <1>41, <2>0 DEF Release, Running
  <2>2. /\ Owners(g) = {t} /\ ft[t].cb = None /\ ThreadOwns(t) /\ FiberWorks(g)
        /\ UNCHANGED <<armed, fresh, finished>>
    BY <1>38, <1>41, <2>0
  <2>3. FiberWorks(g)'
    <3>1. CASE ft[t].fiber = None
      <4>1. g \in PoolFibers
        BY <1>1, <2>1, <2>2, <3>1 DEF ThreadOwns
      <4> QED
        BY <1>1, <2>1, <3>1, <4>1 DEF FiberWorks, PoolWorks
    <3>2. CASE ft[t].fiber # None
      BY <2>1, <2>2, <3>2 DEF FiberWorks, ClientWorks, PoolWorks, Ended
    <3> QED
      BY <3>1, <3>2
  <2>4. \A w \in Callbacks : g \notin Bodies(w) /\ g \notin Bodies(w)'
    BY <1>1, <2>1 DEF Bodies, Work
  <2>5. cb_fiber'[t] # None => m_cb'[cb_fiber'[t]] = None
    BY <1>39, <1>41, <2>0, <2>1
  <2>6. (\A f \in Fibers : Queued(f)' = Queued(f)) /\ (\A w \in Callbacks : QueuedCb(w)' = QueuedCb(w)) /\ EntriesCb'
    BY <2>1 DEF Queued, QueuedCb, EntriesCb, WorkInv
  <2> QED
    BY <1>38, <1>41, <2>0, <2>1, <2>3, <2>4, <2>5, <2>6, GiveUpWork
<1>42. ASSUME NEW t \in Threads, Park(t) PROVE WorkInv'
  <2>0. PICK g \in Fibers : g = Running(t)
    BY <1>38, <1>42
  <2>1. /\ m_fibers' = m_fibers /\ m_state[g] \notin Ended \cup {"READY"} /\ m_state'[g] = "HOLD" /\ m_cb' = m_cb
        /\ \A f \in Fibers \ {g} : m_state'[f] = m_state[f]
    BY <1>0, <1>42, <2>0 DEF Park
  <2>2. /\ Owners(g) = {t} /\ ft[t].cb = None /\ FiberWorks(g) /\ pc[t] = "post" /\ ThreadWorks(t)
        /\ UNCHANGED <<armed, fresh, finished>>
    BY <1>38, <1>42, <2>0
  <2>3. g \in armed'
    BY <2>0, <2>1, <2>2 DEF ThreadWorks
  <2>4. FiberWorks(g)'
    BY <2>1, <2>2, <2>3 DEF FiberWorks, ClientWorks, PoolWorks, Ended, Placed
  <2>5. \A w \in Callbacks : g \in Bodies(w)' <=> g \in Bodies(w)
    BY <2>1 DEF Bodies, Ended
  <2>6. cb_fiber'[t] # None => m_cb'[cb_fiber'[t]] = None
    <3>1. CASE ft[t].fiber = None
      BY <1>0, <1>42, <3>1 DEF Park
    <3>2. CASE ft[t].fiber # None
      BY <1>39, <1>42, <2>1, <3>2 DEF Park
    <3> QED
      BY <3>1, <3>2
  <2>7. (\A f \in Fibers : Queued(f)' = Queued(f)) /\ (\A w \in Callbacks : QueuedCb(w)' = QueuedCb(w)) /\ EntriesCb'
    BY <2>1 DEF Queued, QueuedCb, EntriesCb, WorkInv
  <2> QED
    BY <1>38, <1>42, <2>0, <2>1, <2>4, <2>5, <2>6, <2>7, GiveUpWork
<1> QED
  BY <1>9, <1>10, <1>11, <1>12, <1>13, <1>14, <1>15, <1>16, <1>17, <1>18, <1>19, <1>20, <1>21,
     <1>22, <1>23, <1>24, <1>25, <1>26, <1>27, <1>28, <1>29, <1>31, <1>32, <1>33, <1>34,
     <1>35, <1>36, <1>37, <1>40, <1>41, <1>42 DEF Next, Client, Stop, RunLoop, Body, Terminated
(* A fiber at the end of its function runs work that had not been finished. *)
LEMMA FinishesOnce == TInv /\ OwnInv /\ WorkInv => Finishes
<1> SUFFICES ASSUME TInv, OwnInv, WorkInv, NEW t \in Threads, NEW w \in Work,
                    pc[t] = "body", m_cb[Running(t)] = w
             PROVE  w \notin finished
  BY DEF Finishes
<1>1. PICK g \in Fibers : g = Running(t) /\ m_state[g] = "EXEC" /\ FiberWorks(g)
  BY RunningFacts DEF OnFiberPcs, OwnInv, StateAssertions
<1>2. None \notin Work /\ Fibers \cap Callbacks = {}
  BY ConstantsAssumption
<1>3. CASE g \in ClientFibers
  BY <1>1, <1>2, <1>3 DEF FiberWorks, ClientWorks, Ended
<1>4. CASE g \in PoolFibers
  <2>1. w \in Callbacks /\ g \in Bodies(w)
    BY <1>1, <1>2, <1>4 DEF FiberWorks, PoolWorks, Bodies, Ended
  <2> QED
    BY <2>1 DEF WorkInv, CarriedOnce, Carried
<1> QED
  BY <1>3, <1>4 DEF Fibers

(* Work that was given to schedule() and is not done is in the queue, with a loop, or in a
   fiber that is queued, held or to be woken, and it comes to its end at most once: no path of
   Scheduler::run drops a task or runs it twice, when wake-ups come after the loop let go. *)
THEOREM NothingLostCorrect ==
  ASSUME EarlyWake = FALSE
  PROVE  Spec => NothingLost
<1>1. TInv /\ OwnInv /\ [Next]_vars => OwnInv'
  BY NextOwnInv
<1>2. TInv /\ OwnInv /\ WorkInv /\ [Next]_vars => WorkInv'
  BY NextWorkInv
<1>3. TInv /\ OwnInv /\ WorkInv /\ WorkInv' => [Kept' /\ Finishes]_vars
  <2>1. WorkInv' => Kept'
    BY WorkInvKept, PTL
  <2> QED
    BY <2>1, FinishesOnce
<1> QED
  BY InitTInv, NextTInv, InitOwnInv, InitWorkInv, <1>1, <1>2, <1>3, PTL DEF Spec, NothingLost
-----------------------------------------------------------------------------
(* stop() drains: the proof. *)

(* A thread that will look at the queue again before it leaves Scheduler::run. *)
Alive(t) == \/ pc[t] \in BusyPcs \cup {"scan"}
            \/ pc[t] \in {"notask", "idle"} /\ t \notin idleTerm
(* The run loops that are to empty the queue have been started. *)
LoopsUp == m_threads # {} \/ mpc \in {"rooting", "join", "stopped"}

(* A fiber in EXEC is held, so that what is queued is eligible for every loop. *)
ExecOwned == \A f \in Fibers : m_state[f] = "EXEC" => Owners(f) # {}
Unpinned == \A i \in 1..Len(m_fibers) : m_fibers[i].thread = AnyThread

(* Which threads are in Scheduler::run: those of the current start(), and the caller within
   stop(). While nobody has asked to stop, none of them has left or is about to. *)
InLoops ==
  /\ m_threadCount > 0 \/ use_caller
  /\ m_threadCount = 0 => m_threads = {}
  /\ \A t \in Threads : pc[t] = "off" => t \notin idleTerm
  /\ \A w \in Workers \ m_threads : pc[w] \in {"off", "done"}
  /\ mpc # "rooting" => pc[Caller] \in {"off", "done"}
  /\ mpc \in {"created", "quick", "stopped"} => m_threads = {}
  /\ mpc \notin {"created", "stopped"} => use_caller \/ m_threads # {}
  /\ mpc = "running" => ~m_stopping
  /\ ~m_stopping => \A t \in m_threads : pc[t] \notin {"off", "done"} /\ t \notin idleTerm

(* As long as something is queued, some loop will look at the queue again. *)
SomeoneLooks == LoopsUp /\ m_fibers # <<>> => \E t \in Threads : Alive(t)

DrainInv == armed = {} /\ ExecOwned /\ Unpinned /\ InLoops /\ SomeoneLooks

LEMMA InitDrainInv ==
  ASSUME \A c \in Configs : c[1] > 0 \/ c[2]
  PROVE  Init => DrainInv
<1> SUFFICES ASSUME Init PROVE DrainInv
  OBVIOUS
<1>1. /\ m_fibers = <<>> /\ armed = {} /\ m_threads = {} /\ idleTerm = {} /\ mpc = "created" /\ m_stopping = TRUE
      /\ \A t \in Threads : pc[t] = "off"
      /\ \A f \in Fibers : m_state[f] \in {"INIT", "FREE"}
  BY DEF Init
<1>2. m_threadCount > 0 \/ use_caller
  <2>1. PICK c \in Configs : m_threadCount = c[1] /\ use_caller = c[2]
    BY DEF Init
  <2> QED
    BY <2>1
<1>3. InLoops
  BY <1>1, <1>2 DEF InLoops, Threads
<1> QED
  BY <1>1, <1>3 DEF DrainInv, ExecOwned, Unpinned, SomeoneLooks

(* Steps in which thread t goes from one place to another inside Scheduler::run, or leaves it. *)
LEMMA DrainMove ==
  ASSUME TInv, InLoops, SomeoneLooks, NEW t \in Threads, pc[t] \notin {"off", "done"}, pc'[t] # "off",
         \A u \in Threads \ {t} : pc'[u] = pc[u] /\ (u \in idleTerm' <=> u \in idleTerm),
         UNCHANGED <<m_threadCount, use_caller, m_stopping, m_threads, mpc>>,
         pc'[t] = "done" \/ t \in idleTerm' => m_stopping \/ t \notin m_threads,
         m_fibers' # <<>> => Alive(t)' \/ (~Alive(t) /\ m_fibers # <<>>)
  PROVE  InLoops' /\ SomeoneLooks'
<1>0. m_threads \subseteq Threads /\ Workers \subseteq Threads /\ Caller \in Threads
  BY DEF TInv, TypeOK, Threads
<1>1. InLoops'
  <2>1. \A u \in Threads : pc'[u] = "off" => u \notin idleTerm'
    BY DEF InLoops
  <2>2. \A w \in Workers \ m_threads : pc'[w] \in {"off", "done"}
    BY <1>0 DEF InLoops
  <2>3. mpc # "rooting" => pc'[Caller] \in {"off", "done"}
    BY <1>0 DEF InLoops
  <2>4. ~m_stopping => \A u \in m_threads : pc'[u] \notin {"off", "done"} /\ u \notin idleTerm'
    BY <1>0 DEF InLoops
  <2> QED
    BY <2>1, <2>2, <2>3, <2>4 DEF InLoops
<1>2. ASSUME LoopsUp', m_fibers' # <<>> PROVE \E u \in Threads : Alive(u)'
  <2>1. CASE Alive(t)'
    BY <2>1
  <2>2. CASE ~Alive(t) /\ m_fibers # <<>>
    <3>1. LoopsUp
      BY <1>2 DEF LoopsUp
    <3>2. PICK u \in Threads : Alive(u)
      BY <2>2, <3>1 DEF SomeoneLooks
    <3>3. u # t /\ pc'[u] = pc[u] /\ (u \in idleTerm' <=> u \in idleTerm)
      BY <2>2, <3>2
    <3>4. Alive(u)'
      BY <3>2, <3>3 DEF Alive
    <3> QED
      BY <3>4
  <2> QED
    BY <1>2, <2>1, <2>2
<1>3. SomeoneLooks'
  BY <1>2 DEF SomeoneLooks
<1> QED
  BY <1>1, <1>3

(* A fiber in EXEC stays with the thread that runs it. *)
LEMMA ExecMove ==
  ASSUME TInv, OwnInv, ExecOwned, NEW t \in Threads, NEW g \in Fibers,
         \A u \in Threads \ {t} : ft'[u] = ft[u] /\ cb_fiber'[u] = cb_fiber[u],
         \A f \in Fibers \ {g} : m_state'[f] = m_state[f],
         \A f \in Fibers \ {g} : t \in Owners(f) => t \in Owners(f)',
         m_state'[g] = "EXEC" => t \in Owners(g)'
  PROVE  ExecOwned'
<1> SUFFICES ASSUME NEW f \in Fibers, m_state'[f] = "EXEC" PROVE Owners(f)' # {}
  BY DEF ExecOwned
<1>1. CASE f = g
  BY <1>1
<1>2. CASE f # g
  <2>1. PICK u \in Owners(f) : TRUE
    BY <1>2 DEF ExecOwned
  <2>2. u \in Threads
    BY DEF Owners
  <2>3. u \in Owners(f)'
    BY <1>2, <2>2 DEF Owners
  <2> QED
    BY <2>3
<1> QED
  BY <1>1, <1>2
LEMMA NextExecOwned == TInv /\ OwnInv /\ ExecOwned /\ [Next]_vars => ExecOwned'
<1> SUFFICES ASSUME TInv, OwnInv, ExecOwned, [Next]_vars PROVE ExecOwned'
  OBVIOUS
<1> USE DEF queueVars, fiberVars, loopVars
<1>0. /\ pc \in [Threads -> RunPcs] /\ ft \in [Threads -> Entry]
      /\ m_state \in [Fibers -> States] /\ cb_fiber \in [Threads -> Fibers \cup {None}]
  BY DEF TInv, TypeOK
<1>1. None \notin Fibers
  BY ConstantsAssumption
<1>2. ASSUME UNCHANGED <<m_state, ft, cb_fiber>> PROVE ExecOwned'
  BY <1>2 DEF ExecOwned, Owners
<1>3. CASE Client \/ Stop \/ (\E f \in Fibers : Wake(f)) \/ UNCHANGED vars
  BY <1>2, <1>3 DEF Client, Stop, Wake, ClientSchedule, ClientScheduleBatch, ClientScheduleEnded, Start,
     StopBegin, StopQuick, StopMark, StopCheck, StopCall, StopRooted, StopJoin, vars
<1>4. ASSUME NEW t \in Threads,
             \/ ScanNothing(t) \/ Leave(t) \/ EnterIdle(t) \/ Idle(t) \/ Exit(t)
             \/ BodySchedule(t) \/ ArmWake(t) \/ SwitchOut(t)
      PROVE  ExecOwned'
  BY <1>2, <1>4 DEF ScanNothing, Leave, EnterIdle, Idle, Exit, BodySchedule, ArmWake, SwitchOut
<1>5. ASSUME NEW t \in Threads, ScanTake(t) PROVE ExecOwned'
  <2>1. /\ pc[t] = "scan" /\ UNCHANGED <<m_state, cb_fiber>>
        /\ \A u \in Threads \ {t} : ft'[u] = ft[u]
    BY <1>0, <1>5 DEF ScanTake
  <2>2. ft[t].fiber = None
    BY <2>1 DEF OwnInv, ThreadOwns, BusyPcs, ActivePcs
  <2>3. \A f \in Fibers : Owners(f) \subseteq Owners(f)'
    BY <1>1, <2>1, <2>2 DEF Owners
  <2> QED
    BY <2>1, <2>3 DEF ExecOwned
<1>6. ASSUME NEW t \in Threads, ResumeFiber(t) PROVE ExecOwned'
  <2>1. ft[t].fiber \in Fibers /\ t \in Owners(ft[t].fiber)
    BY <1>0, <1>6 DEF ResumeFiber, Entry, Owners
  <2>2. /\ UNCHANGED <<ft, cb_fiber>> /\ \A f \in Fibers \ {ft[t].fiber} : m_state'[f] = m_state[f]
    BY <1>0, <1>6 DEF ResumeFiber
  <2>3. \A f \in Fibers : Owners(f)' = Owners(f)
    BY <2>2 DEF Owners
  <2> QED
    BY <2>1, <2>2, <2>3, ExecMove
<1>7. ASSUME NEW t \in Threads, YieldToReady(t) \/ YieldToHold(t) \/ Finish(t) PROVE ExecOwned'
  <2>1. pc[t] \in OnFiberPcs /\ UNCHANGED <<ft, cb_fiber>>
    BY <1>7 DEF YieldToReady, YieldToHold, Finish, OnFiberPcs
  <2>2. Running(t) \in Fibers /\ t \in Owners(Running(t))
    BY <2>1 DEF TInv, HasFiber, Owners, Running
  <2>3. \A f \in Fibers \ {Running(t)} : m_state'[f] = m_state[f]
    BY <1>0, <1>7 DEF YieldToReady, YieldToHold, Finish
  <2>4. \A f \in Fibers : Owners(f)' = Owners(f)
    BY <2>1 DEF Owners
  <2> QED
    BY <2>1, <2>2, <2>3, <2>4, ExecMove
<1>8. ASSUME NEW t \in Threads, RunCallback(t) PROVE ExecOwned'
  <2>1. PICK g \in Fibers :
          /\ cb_fiber[t] # None => g = cb_fiber[t]
          /\ cb_fiber' = [cb_fiber EXCEPT ![t] = g]
          /\ m_state' = [m_state EXCEPT ![g] = "EXEC"]
    BY <1>0, <1>8 DEF RunCallback, Fibers
  <2>2. /\ ft[t].fiber = None /\ cb_fiber'[t] = g
        /\ \A u \in Threads \ {t} : ft'[u] = ft[u] /\ cb_fiber'[u] = cb_fiber[u]
        /\ \A f \in Fibers \ {g} : m_state'[f] = m_state[f]
    BY <1>0, <1>8, <2>1 DEF RunCallback, OwnInv, ThreadOwns, EntryShape
  <2>3. t \in Owners(g)'
    BY <2>2 DEF Owners
  <2>4. \A f \in Fibers \ {g} : t \notin Owners(f)
    BY <1>1, <2>1, <2>2 DEF Owners
  <2> QED
    BY <2>2, <2>3, <2>4, ExecMove
<1>9. ASSUME NEW t \in Threads, DropEnded(t) \/ Requeue(t) \/ Release(t) \/ Park(t) PROVE ExecOwned'
  <2>1. PICK g \in Fibers : g = Running(t) /\ (ft[t].fiber # None => ft[t].fiber = g)
    <3>1. CASE DropEnded(t)
      BY <1>0, <3>1 DEF DropEnded, Entry, Running
    <3>2. CASE Requeue(t) \/ Release(t) \/ Park(t)
      BY <3>2 DEF Requeue, Release, Park, TInv, HasFiber, OnFiberPcs, Running
    <3> QED
      BY <1>9, <3>1, <3>2
  <2>2. /\ ft' = [ft EXCEPT ![t] = NoEntry]
        /\ \/ cb_fiber' = cb_fiber
           \/ ft[t].fiber = None /\ cb_fiber' = [cb_fiber EXCEPT ![t] = None]
    BY <1>9 DEF DropEnded, Requeue, Release, Park
  <2>3. \A u \in Threads \ {t} : ft'[u] = ft[u] /\ cb_fiber'[u] = cb_fiber[u]
    BY <1>0, <2>2
  <2>4. m_state'[g] # "EXEC" /\ \A f \in Fibers \ {g} : m_state'[f] = m_state[f]
    <3>1. CASE DropEnded(t)
      BY <1>0, <1>1, <2>1, <3>1 DEF DropEnded, Ended
    <3>2. CASE Requeue(t)
      BY <1>0, <2>1, <3>2 DEF Requeue
    <3>3. CASE Release(t)
      BY <1>0, <2>1, <3>3 DEF Release, Ended, Running
    <3>4. CASE Park(t)
      BY <1>0, <2>1, <3>4 DEF Park
    <3> QED
      BY <1>9, <3>1, <3>2, <3>3, <3>4
  <2>5. \A f \in Fibers \ {g} : t \in Owners(f) => t \in Owners(f)'
    BY <1>0, <1>1, <2>1, <2>2 DEF Owners, Running
  <2> QED
    BY <2>3, <2>4, <2>5, ExecMove
<1> QED
  BY <1>3, <1>4, <1>5, <1>6, <1>7, <1>8, <1>9 DEF Next, RunLoop, Body, Terminated
(* Without pins every entry may be taken by every loop. *)
LEMMA NextUnpinned ==
  ASSUME Pinning = FALSE
  PROVE  TypeOK /\ Unpinned /\ [Next]_vars => Unpinned'
<1> SUFFICES ASSUME TypeOK, Unpinned, [Next]_vars PROVE Unpinned'
  OBVIOUS
<1> USE DEF queueVars, fiberVars, loopVars
<1>0. m_fibers \in Seq(Entry) /\ PinTargets = {AnyThread} /\ fresh \subseteq Work
  BY DEF TypeOK, PinTargets
<1>1. /\ \A w \in Work : ItemEntry(w, AnyThread) \in Entry /\ ItemEntry(w, AnyThread).thread = AnyThread
      /\ \A f \in Fibers : FiberEntry(f, AnyThread) \in Entry /\ FiberEntry(f, AnyThread).thread = AnyThread
  BY DEF ItemEntry, FiberEntry, Entry, Work, Fibers
<1>2. ASSUME m_fibers' = m_fibers PROVE Unpinned'
  BY <1>2 DEF Unpinned
<1>3. ASSUME NEW e \in Entry, e.thread = AnyThread, m_fibers' = Append(m_fibers, e) PROVE Unpinned'
  BY <1>0, <1>3 DEF Unpinned
<1>4. CASE ClientScheduleBatch
  <2>1. PICK v \in fresh, w \in fresh :
          m_fibers' = m_fibers \o <<ItemEntry(v, AnyThread), ItemEntry(w, AnyThread)>>
    BY <1>4 DEF ClientScheduleBatch
  <2> DEFINE a == ItemEntry(v, AnyThread)
             b == ItemEntry(w, AnyThread)
  <2>2. a \in Entry /\ b \in Entry /\ a.thread = AnyThread /\ b.thread = AnyThread
    BY <1>0, <1>1
  <2> HIDE DEF a, b
  <2>3. m_fibers' = m_fibers \o <<a, b>>
    BY <2>1 DEF a, b
  <2> QED
    BY <1>0, <2>2, <2>3 DEF Unpinned
<1>5. CASE ClientSchedule \/ ClientScheduleEnded
  <2>1. \E e \in Entry : e.thread = AnyThread /\ m_fibers' = Append(m_fibers, e)
    BY <1>0, <1>1, <1>5 DEF ClientSchedule, ClientScheduleEnded, Schedule, Fibers
  <2> QED
    BY <1>3, <2>1
<1>6. ASSUME NEW f \in Fibers, Wake(f) PROVE Unpinned'
  BY <1>1, <1>3, <1>6 DEF Wake
<1>7. ASSUME NEW t \in Threads, BodySchedule(t) PROVE Unpinned'
  BY <1>0, <1>1, <1>3, <1>7 DEF BodySchedule, Schedule
<1>8. ASSUME NEW t \in Threads, Requeue(t) PROVE Unpinned'
  <2>1. /\ m_fibers' = Append(m_fibers, FiberEntry(Running(t), AnyThread))
    BY <1>8 DEF Requeue
  <2>2. FiberEntry(Running(t), AnyThread).thread = AnyThread
    BY DEF FiberEntry
  <2> QED
    BY <1>0, <2>1, <2>2 DEF Unpinned
<1>9. ASSUME NEW t \in Threads, ScanTake(t) PROVE Unpinned'
  <2>1. PICK i \in 1..Len(m_fibers) : m_fibers' = RemoveAt(m_fibers, i)
    BY <1>9 DEF ScanTake
  <2>2. /\ Len(m_fibers') = Len(m_fibers) - 1 /\ Len(m_fibers) \in Nat
        /\ \A k \in 1..Len(m_fibers') : m_fibers'[k] = IF k < i THEN m_fibers[k] ELSE m_fibers[k + 1]
    BY <1>0, <2>1, RemoveAtFacts
  <2> QED
    BY <2>2 DEF Unpinned
<1>10. CASE Start \/ StopBegin \/ Stop \/ UNCHANGED vars
  BY <1>2, <1>10 DEF Start, StopBegin, Stop, StopQuick, StopMark, StopCheck, StopCall, StopRooted, StopJoin, vars
<1>11. ASSUME NEW t \in Threads,
              \/ ScanNothing(t) \/ ResumeFiber(t) \/ RunCallback(t) \/ DropEnded(t) \/ Leave(t)
              \/ Release(t) \/ Park(t) \/ EnterIdle(t) \/ Idle(t) \/ Exit(t)
       PROVE  Unpinned'
  BY <1>2, <1>11 DEF ScanNothing, ResumeFiber, RunCallback, DropEnded, Leave, Release, Park, EnterIdle, Idle, Exit
<1>12. ASSUME NEW t \in Threads,
              YieldToReady(t) \/ ArmWake(t) \/ YieldToHold(t) \/ Finish(t) \/ SwitchOut(t)
       PROVE  Unpinned'
  BY <1>2, <1>12 DEF YieldToReady, ArmWake, YieldToHold, Finish, SwitchOut
<1> QED
  BY <1>4, <1>5, <1>6, <1>7, <1>8, <1>9, <1>10, <1>11, <1>12 DEF Next, Client, RunLoop, Body, Terminated

(* Without parking nobody waits for a wake-up. *)
LEMMA NoneArmed ==
  ASSUME Parking = FALSE
  PROVE  armed = {} /\ [Next]_vars => armed' = {}
<1> SUFFICES ASSUME armed = {}, [Next]_vars PROVE armed' = {}
  OBVIOUS
<1>1. CASE Client \/ Stop \/ (\E f \in Fibers : Wake(f)) \/ UNCHANGED vars
  BY <1>1 DEF Client, Stop, Wake, ClientSchedule, ClientScheduleBatch, ClientScheduleEnded, Start,
     StopBegin, StopQuick, StopMark, StopCheck, StopCall, StopRooted, StopJoin, vars
<1>2. ASSUME NEW t \in Threads, RunLoop(t) PROVE armed' = {}
  BY <1>2 DEF RunLoop, ScanTake, ScanNothing, ResumeFiber, RunCallback, DropEnded, Leave, Requeue,
     Release, Park, EnterIdle, Idle, Exit
<1>3. ASSUME NEW t \in Threads, Body(t) PROVE armed' = {}
  BY <1>3 DEF Body, BodySchedule, YieldToReady, ArmWake, YieldToHold, Finish, SwitchOut
<1> QED
  BY <1>1, <1>2, <1>3 DEF Next, Terminated

(* Places of the threads and the queue, step by step. *)
LEMMA NextLoops ==
  ASSUME Parking = FALSE
  PROVE  TInv /\ OwnInv /\ DrainInv /\ [Next]_vars => InLoops' /\ SomeoneLooks'
<1> SUFFICES ASSUME TInv, OwnInv, DrainInv, [Next]_vars PROVE InLoops' /\ SomeoneLooks'
  OBVIOUS
<1> USE DEF queueVars, fiberVars, loopVars
<1>0. /\ m_fibers \in Seq(Entry) /\ pc \in [Threads -> RunPcs] /\ Caller \in Threads
      /\ m_threads \subseteq Threads /\ Workers \subseteq Threads /\ m_threadCount \in Nat /\ Caller \notin Workers
      /\ m_threads \subseteq Workers /\ m_stopping \in BOOLEAN /\ mpc \in ClientPcs
  BY ConstantsAssumption DEF TInv, TypeOK, Threads
<1>1. InLoops /\ SomeoneLooks /\ armed = {} /\ Unpinned /\ ExecOwned
  BY DEF DrainInv
<1>2. UNCHANGED <<m_threadCount, use_caller>>
  BY DEF Next, Terminated, vars, ctorVars
<1>3. ASSUME mpc = "running", LoopsUp PROVE \E t \in Threads : Alive(t)
  <2>1. PICK t \in m_threads : pc[t] \notin {"off", "done"} /\ t \notin idleTerm
    BY <1>1, <1>3 DEF InLoops, LoopsUp
  <2> QED
    BY <1>0, <2>1 DEF Alive, RunPcs, BusyPcs
<1>4. CASE ClientSchedule \/ ClientScheduleBatch \/ ClientScheduleEnded
  <2>1. UNCHANGED <<pc, idleTerm, mpc, m_threads, m_stopping>> /\ mpc \in {"created", "running"}
    BY <1>4 DEF ClientSchedule, ClientScheduleBatch, ClientScheduleEnded
  <2>2. InLoops'
    BY <1>1, <1>2, <2>1 DEF InLoops
  <2>3. LoopsUp => mpc = "running"
    BY <1>1, <2>1 DEF InLoops, LoopsUp
  <2>4. SomeoneLooks'
    BY <1>3, <2>1, <2>3 DEF SomeoneLooks, LoopsUp, Alive
  <2> QED
    BY <2>2, <2>4
<1>5. CASE Start
  <2>1. PICK new \in SUBSET {w \in Workers : pc[w] = "off"} :
          /\ Cardinality(new) = m_threadCount /\ m_threads' = new
          /\ pc' = [t \in Threads |-> IF t \in new THEN "scan" ELSE pc[t]]
    BY <1>5 DEF Start
  <2>2. /\ mpc \in {"created", "stopped"} /\ m_threads = {} /\ mpc' = "running" /\ m_stopping' = FALSE
        /\ idleTerm' = idleTerm /\ m_fibers' = m_fibers
    BY <1>1, <1>5 DEF Start, InLoops
  <2>3. \A t \in Threads : pc'[t] = IF t \in new THEN "scan" ELSE pc[t]
    BY <2>1
  <2>4. \A t \in new : t \in Workers /\ t \in Threads /\ pc[t] = "off" /\ t \notin idleTerm
    BY <1>0, <1>1, <2>1 DEF InLoops
  <2>5. (use_caller \/ new # {}) /\ (m_threadCount = 0 => new = {})
    <3>1. IsFiniteSet(new)
      BY <2>1, ConstantsAssumption, FS_Subset
    <3> QED
      BY <1>1, <2>1, <3>1, FS_EmptySet DEF InLoops
  <2>6. InLoops'
    <3>1. \A t \in Threads : pc'[t] = "off" => t \notin idleTerm
      BY <1>1, <2>3 DEF InLoops
    <3>2. \A w \in Workers \ new : pc'[w] \in {"off", "done"}
      BY <1>0, <1>1, <2>2, <2>3 DEF InLoops
    <3>3. pc'[Caller] \in {"off", "done"}
      BY <1>0, <1>1, <2>2, <2>3, <2>4 DEF InLoops
    <3>4. \A t \in new : pc'[t] \notin {"off", "done"} /\ t \notin idleTerm
      BY <2>3, <2>4
    <3> QED
      BY <1>1, <1>2, <2>1, <2>2, <2>5, <3>1, <3>2, <3>3, <3>4 DEF InLoops
  <2>7. SomeoneLooks'
    BY <2>1, <2>2, <2>3, <2>4 DEF SomeoneLooks, LoopsUp, Alive
  <2> QED
    BY <2>6, <2>7
(* stop() *)
<1>6. ASSUME UNCHANGED <<pc, idleTerm, m_threads, m_fibers>>, InLoops', LoopsUp' => LoopsUp \/ m_fibers = <<>>
      PROVE  InLoops' /\ SomeoneLooks'
  BY <1>1, <1>6 DEF SomeoneLooks, Alive
<1>7. CASE StopBegin
  <2>1. InLoops'
    BY <1>0, <1>1, <1>2, <1>7 DEF StopBegin, InLoops
  <2> QED
    BY <1>6, <1>7, <2>1 DEF StopBegin, LoopsUp
<1>8. CASE StopQuick
  <2>1. InLoops'
    BY <1>0, <1>1, <1>2, <1>8 DEF StopQuick, InLoops
  <2> QED
    BY <1>6, <1>8, <2>1 DEF StopQuick, LoopsUp, Stopping
<1>9. CASE StopMark
  <2>1. InLoops'
    BY <1>0, <1>1, <1>2, <1>9 DEF StopMark, InLoops
  <2> QED
    BY <1>1, <1>6, <1>9, <2>1 DEF StopMark, LoopsUp, InLoops
<1>10. CASE StopCheck
  <2>1. InLoops'
    BY <1>0, <1>1, <1>2, <1>10 DEF StopCheck, InLoops
  <2> QED
    BY <1>6, <1>10, <2>1 DEF StopCheck, LoopsUp, Stopping
<1>11. CASE StopRooted
  <2>1. InLoops'
    BY <1>0, <1>1, <1>2, <1>11 DEF StopRooted, InLoops
  <2> QED
    BY <1>6, <1>11, <2>1 DEF StopRooted, LoopsUp
<1>12. CASE StopJoin
  <2>1. InLoops'
    BY <1>0, <1>1, <1>2, <1>12 DEF StopJoin, InLoops
  <2>2. SomeoneLooks'
    BY <1>1, <1>12 DEF StopJoin, SomeoneLooks, LoopsUp, Alive
  <2> QED
    BY <2>1, <2>2
<1>13. CASE StopCall
  <2>1. /\ pc'[Caller] = "scan" /\ \A u \in Threads \ {Caller} : pc'[u] = pc[u]
        /\ mpc = "call" /\ mpc' = "rooting" /\ UNCHANGED <<idleTerm, m_threads, m_fibers, m_stopping>>
    BY <1>0, <1>13 DEF StopCall
  <2>2. InLoops'
    BY <1>0, <1>1, <1>2, <2>1 DEF InLoops
  <2>3. SomeoneLooks'
    BY <1>0, <2>1 DEF SomeoneLooks, Alive
  <2> QED
    BY <2>2, <2>3
(* The run loops *)
<1>14. ASSUME NEW t \in Threads, ScanNothing(t) PROVE m_fibers = <<>>
  <2> SUFFICES ASSUME m_fibers # <<>> PROVE FALSE
    OBVIOUS
  <2>1. 1 \in 1..Len(m_fibers) /\ m_fibers[1] \in Entry
    BY <1>0
  <2>2. m_fibers[1].thread = AnyThread /\ m_fibers[1].fiber \in Fibers \cup {None}
    BY <1>1, <2>1 DEF Unpinned, Entry
  <2>3. m_fibers[1].fiber # None => m_state[m_fibers[1].fiber] # "EXEC"
    <3>1. SUFFICES ASSUME NEW f \in Fibers, f = m_fibers[1].fiber PROVE m_state[f] # "EXEC"
      BY <2>2
    <3>2. Queued(f) # {} /\ FiberOwned(f)
      BY <2>1, <3>1 DEF Queued, OwnInv
    <3> QED
      BY <1>1, <3>2 DEF FiberOwned, ExecOwned
  <2>4. Eligible(t, m_fibers[1])
    BY <2>2, <2>3 DEF Eligible
  <2> QED
    BY <1>14, <2>1, <2>4 DEF ScanNothing
(* A thread of this start() that is to leave saw m_stopping. *)
<1>15. \A t \in idleTerm : m_stopping \/ t \notin m_threads
  BY <1>0, <1>1 DEF InLoops
<1>16. ASSUME NEW t \in Threads, pc[t] \notin {"off", "done"},
              pc' = [pc EXCEPT ![t] = "scan"] \/ pc' = pc \/ (\E p \in BusyPcs : pc' = [pc EXCEPT ![t] = p]),
              pc' = pc => pc[t] \in BusyPcs,
              UNCHANGED <<idleTerm, m_stopping, m_threads, mpc>>
       PROVE  InLoops' /\ SomeoneLooks'
  <2>1. pc'[t] \in BusyPcs \cup {"scan"} /\ \A u \in Threads \ {t} : pc'[u] = pc[u]
    BY <1>0, <1>16
  <2>2. pc'[t] # "off" /\ pc'[t] # "done"
    BY <2>1 DEF BusyPcs, ActivePcs
  <2>3. Alive(t)'
    BY <2>1 DEF Alive
  <2> QED
    BY <1>1, <1>2, <1>15, <1>16, <2>1, <2>2, <2>3, DrainMove
<1>17. ASSUME NEW t \in Threads,
              \/ ScanTake(t) \/ ResumeFiber(t) \/ RunCallback(t) \/ DropEnded(t) \/ Leave(t)
              \/ Requeue(t) \/ Release(t) \/ Park(t)
       PROVE  InLoops' /\ SomeoneLooks'
  <2>1. /\ pc[t] \notin {"off", "done"}
        /\ pc' = [pc EXCEPT ![t] = "scan"] \/ (\E p \in BusyPcs : pc' = [pc EXCEPT ![t] = p])
        /\ UNCHANGED <<idleTerm, m_stopping, m_threads, mpc>>
    BY <1>17 DEF ScanTake, ResumeFiber, RunCallback, DropEnded, Leave, Requeue, Release, Park, Goto, BusyPcs, ActivePcs
  <2>2. pc[t] \in BusyPcs \/ pc' # pc
    BY <1>0, <1>17 DEF ScanTake, ResumeFiber, RunCallback, DropEnded, Leave, Requeue, Release, Park, Goto, BusyPcs, ActivePcs
  <2> QED
    BY <1>16, <2>1, <2>2
<1>18. ASSUME NEW t \in Threads,
              BodySchedule(t) \/ YieldToReady(t) \/ YieldToHold(t) \/ Finish(t) \/ SwitchOut(t)
       PROVE  InLoops' /\ SomeoneLooks'
  <2>1. /\ pc[t] \in BusyPcs /\ pc[t] \notin {"off", "done"}
        /\ pc' = pc \/ (\E p \in BusyPcs : pc' = [pc EXCEPT ![t] = p])
        /\ UNCHANGED <<idleTerm, m_stopping, m_threads, mpc>>
    BY <1>18 DEF BodySchedule, YieldToReady, YieldToHold, Finish, SwitchOut, Goto, BusyPcs, ActivePcs
  <2> QED
    BY <1>16, <2>1
<1>19. ASSUME NEW t \in Threads, ScanNothing(t) PROVE InLoops' /\ SomeoneLooks'
  <2>1. /\ pc[t] = "scan" /\ pc'[t] = "notask" /\ \A u \in Threads \ {t} : pc'[u] = pc[u]
        /\ UNCHANGED <<idleTerm, m_stopping, m_threads, mpc, m_fibers>>
    BY <1>0, <1>19 DEF ScanNothing, Goto
  <2> QED
    BY <1>1, <1>2, <1>14, <1>15, <1>19, <2>1, DrainMove
<1>20. ASSUME NEW t \in Threads, EnterIdle(t) PROVE InLoops' /\ SomeoneLooks'
  <2>1. /\ pc[t] = "notask" /\ pc'[t] = "idle" /\ t \notin idleTerm /\ \A u \in Threads \ {t} : pc'[u] = pc[u]
        /\ UNCHANGED <<idleTerm, m_stopping, m_threads, mpc, m_fibers>>
    BY <1>0, <1>20 DEF EnterIdle, Goto
  <2>2. Alive(t)'
    BY <2>1 DEF Alive
  <2> QED
    BY <1>1, <1>2, <2>1, <2>2, DrainMove
<1>21. ASSUME NEW t \in Threads, Idle(t) PROVE InLoops' /\ SomeoneLooks'
  <2>1. /\ pc[t] = "idle" /\ pc'[t] = "scan" /\ \A u \in Threads \ {t} : pc'[u] = pc[u]
        /\ idleTerm' = IF Stopping THEN idleTerm \cup {t} ELSE idleTerm
        /\ UNCHANGED <<m_stopping, m_threads, mpc, m_fibers>>
    BY <1>0, <1>21 DEF Idle, Goto
  <2>2. t \in idleTerm' => m_stopping \/ t \notin m_threads
    BY <1>15, <2>1 DEF Stopping
  <2>3. Alive(t)'
    BY <2>1 DEF Alive
  <2>4. \A u \in Threads \ {t} : u \in idleTerm' <=> u \in idleTerm
    BY <2>1
  <2> QED
    BY <1>1, <1>2, <2>1, <2>2, <2>3, <2>4, DrainMove
<1>22. ASSUME NEW t \in Threads, Exit(t) PROVE InLoops' /\ SomeoneLooks'
  <2>1. /\ pc[t] = "notask" /\ t \in idleTerm /\ pc'[t] = "done" /\ \A u \in Threads \ {t} : pc'[u] = pc[u]
        /\ UNCHANGED <<idleTerm, m_stopping, m_threads, mpc, m_fibers>>
    BY <1>0, <1>22 DEF Exit, Goto
  <2>2. ~Alive(t)
    BY <2>1 DEF Alive, BusyPcs, ActivePcs
  <2> QED
    BY <1>1, <1>2, <1>15, <2>1, <2>2, DrainMove
<1>23. ASSUME NEW t \in Threads PROVE ~ArmWake(t)
  BY DEF ArmWake
<1>24. ASSUME NEW f \in Fibers PROVE ~Wake(f)
  BY <1>1 DEF Wake
<1>25. CASE UNCHANGED vars
  <2>1. UNCHANGED <<pc, idleTerm, m_threads, m_fibers, mpc, m_stopping>>
    BY <1>25 DEF vars
  <2>2. InLoops'
    BY <1>1, <1>2, <2>1 DEF InLoops
  <2> QED
    BY <1>6, <2>1, <2>2 DEF LoopsUp
<1> QED
  BY <1>4, <1>5, <1>7, <1>8, <1>9, <1>10, <1>11, <1>12, <1>13, <1>17, <1>18, <1>19, <1>20, <1>21,
     <1>22, <1>23, <1>24, <1>25 DEF Next, Client, Stop, RunLoop, Body, Terminated

(* A stop() that has returned finds nothing undone: no loop is in Scheduler::run, so that
   nobody would look at the queue, nobody holds a task, and no fiber has one. *)
LEMMA DrainInvStopDrains ==
  TInv /\ OwnInv /\ WorkInv /\ DrainInv /\ CountersExact => StopDrains
<1> SUFFICES ASSUME TInv, OwnInv, WorkInv, DrainInv, CountersExact, mpc = "stopped"
             PROVE  /\ m_fibers = <<>> /\ m_activeThreadCount = 0
                    /\ Work \ fresh \subseteq finished
  BY DEF StopDrains
<1>1. \A t \in Threads : pc[t] \in {"off", "done"}
  BY DEF DrainInv, InLoops, Threads
<1>2. m_fibers = <<>>
  BY <1>1 DEF DrainInv, SomeoneLooks, LoopsUp, Alive, BusyPcs, ActivePcs
<1>3. m_activeThreadCount = 0
  <2>1. {t \in Threads : pc[t] \in ActivePcs} = {}
    BY <1>1 DEF ActivePcs
  <2> QED
    BY <2>1, FS_EmptySet DEF CountersExact
<1>4. ASSUME NEW w \in Work, w \notin fresh PROVE w \in finished
  <2>1. SUFFICES ASSUME w \notin finished PROVE FALSE
    OBVIOUS
  <2>2. \A t \in Threads : ThreadWorks(t) /\ ThreadOwns(t) /\ pc[t] \notin BusyPcs
    BY <1>1 DEF WorkInv, OwnInv, BusyPcs, ActivePcs
  <2>3. \A t \in Threads : ft[t].cb = None /\ ft[t].fiber = None
    BY <1>1, <2>2 DEF ThreadWorks, ThreadOwns
  <2>4. w # None /\ None \notin Fibers
    BY ConstantsAssumption
  <2>5. PICK f \in Fibers : m_cb[f] = w /\ Placed(f)
    BY <1>2, <1>4, <2>1, <2>3, <2>4, WorkInvKept DEF Kept
  <2>6. Queued(f) = {} /\ f \notin armed
    BY <1>2 DEF Queued, DrainInv
  <2>7. PICK t \in Threads : cb_fiber[t] = f
    BY <2>3, <2>4, <2>5, <2>6 DEF Placed, Owners
  <2>8. m_cb[f] = None
    BY <1>1, <2>2, <2>4, <2>7 DEF ThreadWorks, OnFiberPcs
  <2> QED
    BY <2>4, <2>5, <2>8
<1> QED
  BY <1>2, <1>3, <1>4

(* When stop() returns, the queue is empty, no loop holds a task and all the work that was
   scheduled is done, whatever the loops did between their test of stopping() and their exit.
   The assumptions are those under which stop() can promise it: the constructor asserts that
   there is a thread, a parked fiber is nobody's business but its waker's, and an entry pinned
   to a thread that has left stays in the queue. *)
THEOREM StopDrainsCorrect ==
  ASSUME \A c \in Configs : c[1] > 0 \/ c[2],
         EarlyWake = FALSE, Parking = FALSE, Pinning = FALSE
  PROVE  Spec => []StopDrains
<1>1. TInv /\ OwnInv /\ [Next]_vars => OwnInv'
  BY NextOwnInv
<1>2. TInv /\ OwnInv /\ WorkInv /\ [Next]_vars => WorkInv'
  BY NextWorkInv
<1>3. TInv /\ CountersExact /\ [Next]_vars => CountersExact'
  BY NextCounters DEF TInv
<1>4. TInv /\ OwnInv /\ DrainInv /\ [Next]_vars => DrainInv'
  <2> SUFFICES ASSUME TInv, OwnInv, DrainInv, [Next]_vars PROVE DrainInv'
    OBVIOUS
  <2>1. ExecOwned'
    BY NextExecOwned DEF DrainInv
  <2>2. Unpinned'
    BY NextUnpinned DEF DrainInv, TInv
  <2>3. InLoops' /\ SomeoneLooks'
    BY NextLoops
  <2>4. armed' = {}
    BY NoneArmed DEF DrainInv
  <2> QED
    BY <2>1, <2>2, <2>3, <2>4 DEF DrainInv
<1>5. Init => DrainInv
  BY InitDrainInv
<1> QED
  BY InitTInv, NextTInv, InitOwnInv, InitWorkInv, InitCounters, DrainInvStopDrains,
     <1>1, <1>2, <1>3, <1>4, <1>5, PTL DEF Spec
=============================================================================
