-------------------------- MODULE IOManager_proofs ---------------------------
(***************************************************************************)
(* Theorems about the run loops of an IOManager, for any number of loops,  *)
(* tasks and waits.                                                        *)
(***************************************************************************)
EXTENDS IOManager, FiniteSetTheorems, TLAPS

(* Types of all but the counters, which are numbers of threads and tasks. *)
Types ==
  /\ m_fibers \in Seq(Tasks) /\ tickles \in Nat
  /\ m_threads \in SUBSET Threads
  /\ m_stopping \in BOOLEAN /\ m_autoStop \in BOOLEAN /\ m_tickled \in BOOLEAN
  /\ pc \in [Threads -> RunPcs]
  /\ task \in [Threads -> Tasks \cup {None}]
  /\ cbs \in [Threads -> SUBSET Tasks]
  /\ got \in [Threads -> SUBSET (Tasks \cup {Pipe})]
  /\ idleTerm \in SUBSET Threads
  /\ mustTickle \in SUBSET (Threads \cup {Client})
  /\ place \in [Tasks -> Places] /\ waits \in [Tasks -> Nat]
  /\ due \in SUBSET Tasks /\ \A f \in due : place[f] \in {"timer", "event"}
  /\ listed \in SUBSET (Tasks \cup {Pipe})
  /\ mpc \in {"running", "mark", "tickle", "join", "stopped"}

(* The queue holds each queued task once. *)
QueueExact ==
  /\ \A i, j \in DOMAIN m_fibers : m_fibers[i] = m_fibers[j] => i = j
  /\ \A f \in Tasks : place[f] = "queued" <=> \E i \in DOMAIN m_fibers : m_fibers[i] = f

(* A loop has a task from Take until the task has left it, and no two loops have one task. *)
RunsOne ==
  /\ \A t \in Threads :
       /\ pc[t] = "run" => task[t] \in Tasks /\ place[task[t]] = "running"
       /\ pc[t] = "leave" => task[t] = None \/ place[task[t]] = "ready"
       /\ pc[t] = "requeue" => task[t] \in Tasks /\ place[task[t]] = "ready"
       /\ task[t] # None => pc[t] \in {"run", "leave", "requeue"}
  /\ \A t, u \in Threads : task[t] = task[u] /\ task[t] # None => t = u
  /\ \A f \in Tasks : place[f] \in {"running", "ready"} => \E t \in Threads : task[t] = f

(* A task whose timer was collected is in the vector of one loop. *)
CollectedOnce ==
  /\ \A t \in Threads : \A f \in cbs[t] : place[f] = "cbs" /\ pc[t] = "expire"
  /\ \A t, u \in Threads : cbs[t] \cap cbs[u] # {} => t = u
  /\ \A f \in Tasks : place[f] = "cbs" => \E t \in Threads : f \in cbs[t]

(* epoll tells an event once: it is on its list or in the hands of one loop. *)
ReportedOnce ==
  /\ \A f \in listed \ {Pipe} : f \in due /\ place[f] = "event"
  /\ \A t \in Threads : \A f \in got[t] \ {Pipe} : f \in due /\ place[f] = "event" /\ f \notin listed
  /\ \A t, u \in Threads : (got[t] \cap got[u]) \ {Pipe} # {} => t = u
  /\ \A t \in Threads : got[t] # {} => pc[t] \in {"expire", "handle", "dec"}

LoopsInv == Types /\ QueueExact /\ RunsOne /\ CollectedOnce /\ ReportedOnce /\ CountersExact

LEMMA InitLoopsInv == Init => LoopsInv
<1> SUFFICES ASSUME Init PROVE LoopsInv
  OBVIOUS
<1>1. Types
  <2>1. pc \in [Threads -> RunPcs]
    BY DEF Init, RunPcs
  <2>2. waits \in [Tasks -> Nat] /\ place \in [Tasks -> Places]
    BY DEF Init, Places
  <2>3. cbs \in [Threads -> SUBSET Tasks] /\ got \in [Threads -> SUBSET (Tasks \cup {Pipe})]
    BY DEF Init
  <2>4. m_fibers \in Seq(Tasks) /\ m_threads \in SUBSET Threads /\ task \in [Threads -> Tasks \cup {None}]
    BY DEF Init
  <2> QED
    BY <2>1, <2>2, <2>3, <2>4 DEF Init, Types
<1>2. QueueExact /\ RunsOne /\ CollectedOnce /\ ReportedOnce
  BY DEF Init, QueueExact, RunsOne, CollectedOnce, ReportedOnce
<1>3. CountersExact
  <2>1. /\ {t \in Threads : pc[t] \in {"run", "leave"}} = {}
        /\ {t \in Threads : pc[t] \in IdlePcs} = {}
        /\ {t \in Threads : pc[t] = "dec"} = {}
    <3>1. \A t \in Threads : pc[t] \in {"scan", "off"}
      BY DEF Init
    <3> QED
      BY <3>1 DEF IdlePcs
  <2>2. InPlace("event") = {}
    BY DEF Init, InPlace
  <2> QED
    <3>1. Cardinality({}) = 0
      BY FS_EmptySet
    <3>2. m_activeThreadCount = 0 /\ m_idleThreadcount = 0 /\ m_pendingEventCount = 0 + 0
      BY DEF Init
    <3> QED
      BY <2>1, <2>2, <3>1, <3>2 DEF CountersExact
<1> QED
  BY <1>1, <1>2, <1>3 DEF LoopsInv

-----------------------------------------------------------------------------
(* Parts of the invariant that a step which does not touch what they speak of keeps. *)
LEMMA QueueKept ==
  ASSUME QueueExact, m_fibers' = m_fibers,
         \A f \in Tasks : place'[f] = "queued" <=> place[f] = "queued"
  PROVE  QueueExact'
BY DEF QueueExact

TaskPcs == {"run", "leave", "requeue"}
LEMMA RunsKept ==
  ASSUME Types, RunsOne, task' = task,
         \A t \in Threads : pc'[t] = pc[t] \/ (pc[t] \notin TaskPcs /\ pc'[t] \notin TaskPcs),
         \A f \in Tasks : \/ place'[f] = place[f]
                          \/ place[f] \notin {"running", "ready"} /\ place'[f] \notin {"running", "ready"}
  PROVE  RunsOne'
<1> USE DEF Types, TaskPcs
<1>1. ASSUME NEW t \in Threads
      PROVE  /\ pc'[t] = "run" => task'[t] \in Tasks /\ place'[task'[t]] = "running"
             /\ pc'[t] = "leave" => task'[t] = None \/ place'[task'[t]] = "ready"
             /\ pc'[t] = "requeue" => task'[t] \in Tasks /\ place'[task'[t]] = "ready"
             /\ task'[t] # None => pc'[t] \in {"run", "leave", "requeue"}
  <2>1. CASE pc'[t] = pc[t] /\ task[t] \in Tasks
    <3>1. place'[task[t]] = place[task[t]]
      BY <2>1, LoopsAssumption, SMTT(30) DEF RunsOne
    <3> QED
      BY <2>1, <3>1 DEF RunsOne
  <2>2. CASE task[t] = None
    BY <2>2, LoopsAssumption DEF RunsOne
  <2>3. CASE pc[t] \notin TaskPcs /\ pc'[t] \notin TaskPcs
    BY <2>3 DEF RunsOne
  <2> QED
    BY <2>1, <2>2, <2>3
<1>2. \A t, u \in Threads : task'[t] = task'[u] /\ task'[t] # None => t = u
  BY DEF RunsOne
<1>3. \A f \in Tasks : place'[f] \in {"running", "ready"} => \E t \in Threads : task'[t] = f
  BY DEF RunsOne
<1> QED
  BY <1>1, <1>2, <1>3 DEF RunsOne

LEMMA CollectedKept ==
  ASSUME Types, CollectedOnce, cbs' = cbs,
         \A t \in Threads : cbs[t] # {} => pc'[t] = pc[t],
         \A f \in Tasks : place'[f] = "cbs" <=> place[f] = "cbs"
  PROVE  CollectedOnce'
BY DEF Types, CollectedOnce

LEMMA ReportedKept ==
  ASSUME Types, ReportedOnce, got' = got, listed' \subseteq listed \cup {Pipe},
         \A t \in Threads : got[t] # {} => pc'[t] = pc[t] \/ pc'[t] \in {"handle", "dec"},
         \A f \in due : place[f] = "event" => f \in due' /\ place'[f] = "event"
  PROVE  ReportedOnce'
BY DEF Types, ReportedOnce

-----------------------------------------------------------------------------
(* Counting the threads in a set of places, when t moves. *)
Where(P) == {t \in Threads : pc[t] \in P}
LEMMA CountThreads ==
  ASSUME NEW P, NEW t \in Threads, \A u \in Threads \ {t} : pc'[u] = pc[u]
  PROVE  /\ Cardinality(Where(P)) \in Nat
         /\ Cardinality(Where(P)') = Cardinality(Where(P))
              + (IF pc'[t] \in P THEN 1 ELSE 0) - (IF pc[t] \in P THEN 1 ELSE 0)
<1> DEFINE W == Where(P)
           V == Where(P)'
<1>1. IsFiniteSet(W) /\ Cardinality(W) \in Nat
  BY LoopsAssumption, FS_Subset, FS_CardinalityType DEF Where
<1>2. (t \in W <=> pc[t] \in P) /\ (t \in V <=> pc'[t] \in P) /\ V \ {t} = W \ {t}
  BY DEF Where
<1> HIDE DEF W, V
<1>3. CASE t \in W /\ t \notin V
  <2>1. V = W \ {t}
    BY <1>2, <1>3
  <2>2. Cardinality(W \ {t}) = Cardinality(W) - 1
    BY <1>1, <1>3, FS_RemoveElement
  <2>3. Cardinality(V) = Cardinality(W) + 0 - 1
    BY <1>1, <2>1, <2>2
  <2> QED
    BY <1>1, <1>2, <1>3, <2>3 DEF W, V
<1>4. CASE t \notin W /\ t \in V
  <2>1. V = W \cup {t}
    BY <1>2, <1>4
  <2>2. Cardinality(W \cup {t}) = Cardinality(W) + 1
    BY <1>1, <1>4, FS_AddElement
  <2>3. Cardinality(V) = Cardinality(W) + 1 - 0
    BY <1>1, <2>1, <2>2
  <2> QED
    BY <1>1, <1>2, <1>4, <2>3 DEF W, V
<1>5. CASE t \in W <=> t \in V
  <2>1. V = W
    BY <1>2, <1>5
  <2> QED
    BY <1>1, <1>2, <1>5, <2>1 DEF W, V
<1> QED
  BY <1>3, <1>4, <1>5

(* Counting the tasks in a place, when f moves. *)
LEMMA CountTasks ==
  ASSUME NEW p, NEW f \in Tasks, \A g \in Tasks \ {f} : place'[g] = place[g]
  PROVE  /\ Cardinality(InPlace(p)) \in Nat
         /\ Cardinality(InPlace(p)') = Cardinality(InPlace(p))
              + (IF place'[f] = p THEN 1 ELSE 0) - (IF place[f] = p THEN 1 ELSE 0)
<1> DEFINE W == InPlace(p)
           V == InPlace(p)'
<1>1. IsFiniteSet(W) /\ Cardinality(W) \in Nat
  BY LoopsAssumption, FS_Subset, FS_CardinalityType DEF InPlace
<1>2. (f \in W <=> place[f] = p) /\ (f \in V <=> place'[f] = p) /\ V \ {f} = W \ {f}
  BY DEF InPlace
<1> HIDE DEF W, V
<1>3. CASE f \in W /\ f \notin V
  <2>1. V = W \ {f}
    BY <1>2, <1>3
  <2>2. Cardinality(W \ {f}) = Cardinality(W) - 1
    BY <1>1, <1>3, FS_RemoveElement
  <2>3. Cardinality(V) = Cardinality(W) + 0 - 1
    BY <1>1, <2>1, <2>2
  <2> QED
    BY <1>1, <1>2, <1>3, <2>3 DEF W, V
<1>4. CASE f \notin W /\ f \in V
  <2>1. V = W \cup {f}
    BY <1>2, <1>4
  <2>2. Cardinality(W \cup {f}) = Cardinality(W) + 1
    BY <1>1, <1>4, FS_AddElement
  <2>3. Cardinality(V) = Cardinality(W) + 1 - 0
    BY <1>1, <2>1, <2>2
  <2> QED
    BY <1>1, <1>2, <1>4, <2>3 DEF W, V
<1>5. CASE f \in W <=> f \in V
  <2>1. V = W
    BY <1>2, <1>5
  <2> QED
    BY <1>1, <1>2, <1>5, <2>1 DEF W, V
<1> QED
  BY <1>3, <1>4, <1>5

(* The counters follow a step in which thread t moves and the number of registered events
   changes by d. *)
One(b) == IF b THEN 1 ELSE 0
LEMMA CountersMove ==
  ASSUME CountersExact, NEW t \in Threads, \A u \in Threads \ {t} : pc'[u] = pc[u],
         m_activeThreadCount' = m_activeThreadCount
           + One(pc'[t] \in {"run", "leave"}) - One(pc[t] \in {"run", "leave"}),
         m_idleThreadcount' = m_idleThreadcount + One(pc'[t] \in IdlePcs) - One(pc[t] \in IdlePcs),
         NEW d \in Int,
         m_pendingEventCount' = m_pendingEventCount + d + One(pc'[t] = "dec") - One(pc[t] = "dec"),
         Cardinality(InPlace("event")) \in Nat,
         Cardinality(InPlace("event")') = Cardinality(InPlace("event")) + d
  PROVE  CountersExact'
<1> DEFINE A == {"run", "leave"}
           D == {"dec"}
<1>1. /\ {u \in Threads : pc[u] \in A} = Where(A) /\ {u \in Threads : pc[u] \in IdlePcs} = Where(IdlePcs)
      /\ {u \in Threads : pc[u] = "dec"} = Where(D)
      /\ {u \in Threads : pc'[u] \in A} = Where(A)' /\ {u \in Threads : pc'[u] \in IdlePcs} = Where(IdlePcs)'
      /\ {u \in Threads : pc'[u] = "dec"} = Where(D)'
  BY DEF Where
<1>2. \A P : /\ Cardinality(Where(P)) \in Nat
             /\ Cardinality(Where(P)') = Cardinality(Where(P)) + One(pc'[t] \in P) - One(pc[t] \in P)
  BY CountThreads DEF One
<1>3. (pc[t] \in D <=> pc[t] = "dec") /\ (pc'[t] \in D <=> pc'[t] = "dec")
  OBVIOUS
<1>4. \A b : One(b) \in Int
  BY DEF One
<1>5. /\ m_activeThreadCount = Cardinality(Where(A)) /\ m_idleThreadcount = Cardinality(Where(IdlePcs))
      /\ m_pendingEventCount = Cardinality(InPlace("event")) + Cardinality(Where(D))
  BY <1>1 DEF CountersExact
<1> HIDE DEF A, D
<1>6. m_activeThreadCount' = Cardinality(Where(A)')
  BY <1>2, <1>4, <1>5 DEF A
<1>7. m_idleThreadcount' = Cardinality(Where(IdlePcs)')
  BY <1>2, <1>4, <1>5
<1>8. m_pendingEventCount' = Cardinality(InPlace("event")') + Cardinality(Where(D)')
  <2>1. Cardinality(Where(D)') = Cardinality(Where(D)) + One(pc'[t] = "dec") - One(pc[t] = "dec")
    BY <1>2, <1>3 DEF One
  <2> QED
    BY <1>2, <1>4, <1>5, <2>1
<1> QED
  BY <1>1, <1>6, <1>7, <1>8 DEF CountersExact, A

LEMMA CountersKept ==
  ASSUME CountersExact, UNCHANGED counters, pc' = pc, \A f \in Tasks : place'[f] = "event" <=> place[f] = "event"
  PROVE  CountersExact'
<1>1. InPlace("event")' = InPlace("event")
  BY DEF InPlace
<1> QED
  BY <1>1 DEF CountersExact, counters

-----------------------------------------------------------------------------
(* Tasks that were not in the queue are appended to it, each once. *)
LEMMA TasksQueued ==
  ASSUME Types, QueueExact, NEW S \in SUBSET Tasks, NEW seq \in Seq(S),
         \A i, j \in DOMAIN seq : seq[i] = seq[j] => i = j,
         \A f \in S : \E i \in DOMAIN seq : seq[i] = f,
         \A f \in S : place[f] # "queued",
         m_fibers' = m_fibers \o seq,
         \A f \in Tasks : place'[f] = IF f \in S THEN "queued" ELSE place[f]
  PROVE  m_fibers' \in Seq(Tasks) /\ QueueExact'
<1> DEFINE q == m_fibers
           r == m_fibers'
<1>1. q \in Seq(Tasks) /\ seq \in Seq(Tasks)
  BY DEF Types
<1>2. r \in Seq(Tasks) /\ Len(r) = Len(q) + Len(seq)
  BY <1>1
<1>3. \A i \in 1..Len(r) : r[i] = IF i <= Len(q) THEN q[i] ELSE seq[i - Len(q)]
  BY <1>1
<1>4. \A i \in 1..Len(q) : q[i] \in Tasks \ S
  <2>1. TAKE i \in 1..Len(q)
  <2>2. q[i] \in Tasks /\ i \in DOMAIN q
    BY <1>1, <2>1
  <2>3. place[q[i]] = "queued"
    BY <2>2 DEF QueueExact
  <2> QED
    BY <2>2, <2>3
<1>5. \A i \in 1..Len(seq) : seq[i] \in S
  OBVIOUS
<1>6. DOMAIN q = 1..Len(q) /\ DOMAIN r = 1..Len(r) /\ DOMAIN seq = 1..Len(seq) /\ Len(q) \in Nat /\ Len(seq) \in Nat
  BY <1>1, <1>2
<1> HIDE DEF q, r
<1>7. ASSUME NEW i \in DOMAIN r, NEW j \in DOMAIN r, r[i] = r[j] PROVE i = j
  <2>1. CASE i <= Len(q) /\ j <= Len(q)
    <3>1. i \in DOMAIN q /\ j \in DOMAIN q /\ q[i] = q[j]
      BY <1>3, <1>6, <1>7, <2>1
    <3> QED
      BY <3>1 DEF QueueExact, q
  <2>2. CASE i > Len(q) /\ j > Len(q)
    <3>1. i - Len(q) \in DOMAIN seq /\ j - Len(q) \in DOMAIN seq
      BY <1>2, <1>6, <2>2, SMTT(30)
    <3>2. seq[i - Len(q)] = seq[j - Len(q)]
      <4>1. \A k \in DOMAIN r : k > Len(q) => r[k] = seq[k - Len(q)]
        <5>1. TAKE k \in DOMAIN r
        <5>2. HAVE k > Len(q)
        <5>3. k \in 1..Len(r) /\ ~(k <= Len(q))
          BY <1>2, <1>6, <5>2
        <5> QED
          BY <1>3, <5>3
      <4> QED
        BY <1>7, <2>2, <4>1
    <3>3. i - Len(q) = j - Len(q)
      BY <3>1, <3>2
    <3> QED
      BY <1>6, <3>3
  <2>3. ASSUME NEW k \in 1..Len(q), NEW l \in DOMAIN r, l > Len(q) PROVE r[k] # r[l]
    <3>1. r[k] \in Tasks \ S
      BY <1>2, <1>3, <1>4, <1>6
    <3>2. l - Len(q) \in 1..Len(seq)
      BY <1>2, <1>6, <2>3, SMTT(30)
    <3>3. r[l] \in S
      <4>1. l \in 1..Len(r) /\ ~(l <= Len(q))
        BY <1>2, <1>6, <2>3
      <4>2. r[l] = seq[l - Len(q)]
        BY <1>3, <4>1
      <4> QED
        BY <1>5, <3>2, <4>2
    <3> QED
      BY <3>1, <3>3
  <2> QED
    BY <1>6, <1>7, <2>1, <2>2, <2>3
<1>8. ASSUME NEW f \in Tasks PROVE place'[f] = "queued" <=> \E i \in DOMAIN r : r[i] = f
  <2>1. CASE f \in S
    <3>1. PICK i \in DOMAIN seq : seq[i] = f
      BY <2>1
    <3>2. i + Len(q) \in DOMAIN r /\ i + Len(q) > Len(q) /\ (i + Len(q)) - Len(q) = i
      BY <1>2, <1>6
    <3>3. r[i + Len(q)] = seq[(i + Len(q)) - Len(q)]
      BY <1>2, <1>3, <1>6, <3>2
    <3>4. r[i + Len(q)] = f
      BY <3>1, <3>2, <3>3
    <3> QED
      BY <2>1, <3>2, <3>4
  <2>2. CASE f \notin S
    <3>1. place'[f] = place[f]
      BY <2>2
    <3>2. \A i \in DOMAIN r : r[i] = f => i \in DOMAIN q /\ q[i] = f
      <4>1. TAKE i \in DOMAIN r
      <4>2. CASE i <= Len(q)
        BY <1>3, <1>6, <4>1, <4>2
      <4>3. CASE i > Len(q)
        <5>1. i - Len(q) \in 1..Len(seq)
          BY <1>2, <1>6, <4>3
        <5>2. r[i] \in S
          BY <1>2, <1>3, <1>5, <1>6, <4>3, <5>1
        <5> QED
          BY <2>2, <5>2
      <4> QED
        BY <1>6, <4>1, <4>2, <4>3
    <3>3. \A i \in DOMAIN q : i \in DOMAIN r /\ r[i] = q[i]
      BY <1>2, <1>3, <1>6
    <3> QED
      BY <3>1, <3>2, <3>3 DEF QueueExact, q
  <2> QED
    BY <2>1, <2>2
<1> QED
  BY <1>2, <1>7, <1>8 DEF QueueExact, r

LEMMA TaskQueued ==
  ASSUME Types, QueueExact, NEW f \in Tasks, place[f] # "queued", m_fibers' = m_fibers \o <<f>>,
         place' = [place EXCEPT ![f] = "queued"]
  PROVE  m_fibers' \in Seq(Tasks) /\ QueueExact'
<1>1. <<f>> \in Seq({f}) /\ \A i, j \in DOMAIN <<f>> : i = j
  OBVIOUS
<1>2. \A g \in {f} : \E i \in DOMAIN <<f>> : <<f>>[i] = g
  OBVIOUS
<1>3. \A g \in Tasks : place'[g] = IF g \in {f} THEN "queued" ELSE place[g]
  BY DEF Types
<1> DEFINE seq == <<f>>
           S == {f}
<1>5. \A i, j \in DOMAIN seq : seq[i] = seq[j] => i = j
  BY <1>1
<1>6. S \in SUBSET Tasks /\ seq \in Seq(S) /\ m_fibers' = m_fibers \o seq
  BY <1>1
<1>7. \A g \in S : \E i \in DOMAIN seq : seq[i] = g
  BY <1>2
<1>8. \A g \in S : place[g] # "queued"
  OBVIOUS
<1>9. \A g \in Tasks : place'[g] = IF g \in S THEN "queued" ELSE place[g]
  BY <1>3
<1> HIDE DEF seq, S
<1> QED
  BY <1>5, <1>6, <1>7, <1>8, <1>9, TasksQueued

(* The head of the queue is taken. *)
LEMMA HeadTaken ==
  ASSUME Types, QueueExact, m_fibers # <<>>, m_fibers' = Tail(m_fibers),
         place' = [place EXCEPT ![Head(m_fibers)] = "running"]
  PROVE  /\ Head(m_fibers) \in Tasks /\ place[Head(m_fibers)] = "queued"
         /\ m_fibers' \in Seq(Tasks) /\ QueueExact'
<1> DEFINE q == m_fibers
           r == m_fibers'
           h == Head(m_fibers)
<1>1. q \in Seq(Tasks) /\ Len(q) \in Nat /\ Len(q) > 0
  BY DEF Types
<1>2. r \in Seq(Tasks) /\ Len(r) = Len(q) - 1 /\ \A i \in 1..Len(r) : r[i] = q[i + 1]
  BY <1>1
<1>3. h = q[1] /\ h \in Tasks
  BY <1>1
<1>4. DOMAIN q = 1..Len(q) /\ DOMAIN r = 1..Len(r)
  BY <1>1, <1>2
<1> HIDE DEF q, r, h
<1>5. 1 \in DOMAIN q /\ \A i \in DOMAIN r : i + 1 \in DOMAIN q /\ i + 1 # 1
  BY <1>1, <1>2, <1>4
<1>6. place[h] = "queued"
  BY <1>3, <1>5 DEF QueueExact, q
<1>7. \A i, j \in DOMAIN r : r[i] = r[j] => i = j
  <2>1. \A i, j \in DOMAIN r : q[i + 1] = q[j + 1] => i + 1 = j + 1
    BY <1>5 DEF QueueExact, q
  <2> QED
    <3>1. TAKE i, j \in DOMAIN r
    <3>2. HAVE r[i] = r[j]
    <3>3. q[i + 1] = q[j + 1] /\ i \in Int /\ j \in Int
      BY <1>1, <1>2, <1>4, <3>2
    <3>4. i + 1 = j + 1
      BY <2>1, <3>3
    <3> QED
      BY <3>3, <3>4
<1>8. ASSUME NEW f \in Tasks PROVE place'[f] = "queued" <=> \E i \in DOMAIN r : r[i] = f
  <2>1. CASE f = h
    <3>1. \A i \in DOMAIN r : r[i] # h
      BY <1>2, <1>3, <1>4, <1>5 DEF QueueExact, q
    <3>2. place'[f] = "running"
      BY <1>3, <2>1 DEF Types, h
    <3> QED
      BY <2>1, <3>1, <3>2
  <2>2. CASE f # h
    <3>1. place'[f] = place[f]
      BY <2>2, <1>3 DEF Types, h
    <3>2. \A i \in DOMAIN q : q[i] = f => i - 1 \in DOMAIN r /\ r[i - 1] = f
      <4>1. TAKE i \in DOMAIN q
      <4>2. HAVE q[i] = f
      <4>3. i # 1
        BY <1>3, <2>2, <4>2
      <4>4. i - 1 \in 1..Len(r) /\ (i - 1) + 1 = i
        BY <1>1, <1>2, <1>4, <4>1, <4>3
      <4> QED
        BY <1>2, <1>4, <4>2, <4>4
    <3>3. \A i \in DOMAIN r : r[i] = q[i + 1] /\ i + 1 \in DOMAIN q
      BY <1>2, <1>4, <1>5
    <3> QED
      BY <3>1, <3>2, <3>3 DEF QueueExact, q
  <2> QED
    BY <2>1, <2>2
<1> QED
  BY <1>2, <1>3, <1>6, <1>7, <1>8 DEF QueueExact, r, h
-----------------------------------------------------------------------------
LEMMA TaskOf ==
  ASSUME Types, RunsOne, NEW u \in Threads, task[u] # None
  PROVE  task[u] \in Tasks /\ place[task[u]] \in {"running", "ready"}
<1>1. task[u] \in Tasks /\ pc[u] \in {"run", "leave", "requeue"}
  BY DEF Types, RunsOne
<1> QED
  BY <1>1 DEF RunsOne

(* Thread t goes to p, the others stay. *)
Goes(t, p) == \A u \in Threads : pc'[u] = IF u = t THEN p ELSE pc[u]
Gets(t, v) == \A u \in Threads : task'[u] = IF u = t THEN v ELSE task[u]

(* Loop t goes to p and has task v there. *)
LEMMA RunsMove ==
  ASSUME Types, RunsOne, NEW t \in Threads, NEW v \in Tasks \cup {None}, NEW p \in RunPcs,
         Gets(t, v), Goes(t, p),
         p = "run" => v \in Tasks /\ place'[v] = "running",
         p = "leave" => v = None \/ place'[v] = "ready",
         p = "requeue" => v \in Tasks /\ place'[v] = "ready",
         v # None => p \in TaskPcs,
         \A u \in Threads \ {t} : task[u] # None => task[u] # v /\ place'[task[u]] = place[task[u]],
         \A f \in Tasks : place'[f] \in {"running", "ready"} /\ f # v
                            => f # task[t] /\ place[f] \in {"running", "ready"}
  PROVE  RunsOne'
<1>1. /\ pc'[t] = p /\ task'[t] = v /\ \A u \in Threads \ {t} : pc'[u] = pc[u] /\ task'[u] = task[u]
      /\ \A u \in Threads : task[u] \in Tasks \cup {None}
  BY DEF Types, Goes, Gets
<1>2. ASSUME NEW u \in Threads
      PROVE  /\ pc'[u] = "run" => task'[u] \in Tasks /\ place'[task'[u]] = "running"
             /\ pc'[u] = "leave" => task'[u] = None \/ place'[task'[u]] = "ready"
             /\ pc'[u] = "requeue" => task'[u] \in Tasks /\ place'[task'[u]] = "ready"
             /\ task'[u] # None => pc'[u] \in {"run", "leave", "requeue"}
  <2>1. CASE u = t
    BY <1>1, <2>1 DEF TaskPcs
  <2>2. CASE u # t /\ task[u] # None
    BY <1>1, <2>2 DEF RunsOne
  <2>3. CASE u # t /\ task[u] = None
    BY <1>1, <2>3, LoopsAssumption DEF RunsOne
  <2> QED
    BY <2>1, <2>2, <2>3
<1>3. ASSUME NEW u \in Threads, NEW w \in Threads, task'[u] = task'[w], task'[u] # None PROVE u = w
  <2>1. CASE u = t \/ w = t
    BY <1>1, <1>3, <2>1
  <2>2. CASE u # t /\ w # t
    BY <1>1, <1>3, <2>2 DEF RunsOne
  <2> QED
    BY <2>1, <2>2
<1>4. ASSUME NEW f \in Tasks, place'[f] \in {"running", "ready"} PROVE \E u \in Threads : task'[u] = f
  <2>1. CASE f = v
    BY <1>1, <2>1
  <2>2. CASE f # v
    <3>1. f # task[t] /\ place[f] \in {"running", "ready"}
      BY <1>4, <2>2
    <3>2. PICK u \in Threads : task[u] = f
      BY <3>1 DEF RunsOne
    <3> QED
      BY <1>1, <3>1, <3>2
  <2> QED
    BY <2>1, <2>2
<1> QED
  BY <1>2, <1>3, <1>4 DEF RunsOne

(* The counters follow a step that registers no event and dispatches none. *)
LEMMA CountersGo ==
  ASSUME Types, CountersExact, NEW t \in Threads, NEW p \in RunPcs, Goes(t, p),
         m_activeThreadCount' = m_activeThreadCount
           + One(p \in {"run", "leave"}) - One(pc[t] \in {"run", "leave"}),
         m_idleThreadcount' = m_idleThreadcount + One(p \in IdlePcs) - One(pc[t] \in IdlePcs),
         m_pendingEventCount' = m_pendingEventCount + One(p = "dec") - One(pc[t] = "dec"),
         \A f \in Tasks : place'[f] = "event" <=> place[f] = "event"
  PROVE  CountersExact'
<1>1. pc'[t] = p /\ \A u \in Threads \ {t} : pc'[u] = pc[u]
  BY DEF Goes
<1>2. InPlace("event")' = InPlace("event")
  BY DEF InPlace
<1>3. Cardinality(InPlace("event")) \in Nat
  BY LoopsAssumption, FS_Subset, FS_CardinalityType DEF InPlace
<1>4. Cardinality(InPlace("event")') = Cardinality(InPlace("event")) + 0
  BY <1>2, <1>3
<1>5. m_pendingEventCount \in Int
  <2>1. Cardinality({u \in Threads : pc[u] = "dec"}) \in Nat
    BY LoopsAssumption, FS_Subset, FS_CardinalityType
  <2> QED
    BY <1>3, <2>1 DEF CountersExact
<1>6. m_pendingEventCount' = m_pendingEventCount + 0 + One(pc'[t] = "dec") - One(pc[t] = "dec")
  BY <1>1, <1>5 DEF One
<1>7. /\ m_activeThreadCount' = m_activeThreadCount
           + One(pc'[t] \in {"run", "leave"}) - One(pc[t] \in {"run", "leave"})
      /\ m_idleThreadcount' = m_idleThreadcount + One(pc'[t] \in IdlePcs) - One(pc[t] \in IdlePcs)
  BY <1>1
<1>8. 0 \in Int
  OBVIOUS
<1> QED
  BY <1>1, <1>3, <1>4, <1>6, <1>7, <1>8, CountersMove

(* The counters are numbers. *)
LEMMA CountersNat ==
  ASSUME CountersExact
  PROVE  m_activeThreadCount \in Nat /\ m_idleThreadcount \in Nat /\ m_pendingEventCount \in Nat
<1>1. /\ Cardinality({t \in Threads : pc[t] \in {"run", "leave"}}) \in Nat
      /\ Cardinality({t \in Threads : pc[t] \in IdlePcs}) \in Nat
      /\ Cardinality({t \in Threads : pc[t] = "dec"}) \in Nat
      /\ Cardinality(InPlace("event")) \in Nat
  BY LoopsAssumption, FS_Subset, FS_CardinalityType DEF InPlace
<1> QED
  BY <1>1 DEF CountersExact

LEMMA TakeStep ==
  ASSUME LoopsInv, NEW t \in Threads, Take(t)
  PROVE  LoopsInv'
<1> USE DEF LoopsInv
<1> DEFINE h == Head(m_fibers)
<1>1. /\ pc[t] = "scan" /\ m_fibers # <<>> /\ task' = [task EXCEPT ![t] = h] /\ m_fibers' = Tail(m_fibers)
      /\ place' = [place EXCEPT ![h] = "running"] /\ pc' = [pc EXCEPT ![t] = "run"]
      /\ m_activeThreadCount' = m_activeThreadCount + 1
      /\ UNCHANGED <<m_idleThreadcount, m_pendingEventCount, flags, m_tickled, cbs, got,
                     idleTerm, mustTickle, waits, due, listed, owner>>
  BY DEF Take, At, Goto, Move
<1>2. h \in Tasks /\ place[h] = "queued" /\ m_fibers' \in Seq(Tasks) /\ QueueExact'
  BY <1>1, HeadTaken
<1> HIDE DEF h
<1>3. Types'
  BY <1>1, <1>2 DEF Types, flags, owner, RunPcs, Places
<1>4. /\ \A f \in Tasks : place'[f] = IF f = h THEN "running" ELSE place[f]
      /\ Goes(t, "run") /\ Gets(t, h)
  BY <1>1 DEF Types, Goes, Gets
<1>5. RunsOne'
  <2>1. task[t] = None
    BY <1>1 DEF RunsOne
  <2>2. \A u \in Threads : task[u] # None => task[u] \in Tasks /\ task[u] # h
    BY <1>2, TaskOf
  <2>3. "run" \in RunPcs /\ "run" \in TaskPcs
    BY DEF RunPcs, TaskPcs
  <2>4. h \in Tasks \cup {None} /\ place'[h] = "running" /\ \A f \in Tasks : f # task[t]
    BY <1>2, <1>4, <2>1, LoopsAssumption
  <2>5. \A u \in Threads \ {t} : task[u] # None => task[u] # h /\ place'[task[u]] = place[task[u]]
    BY <1>4, <2>2
  <2>6. \A f \in Tasks : place'[f] \in {"running", "ready"} /\ f # h
                            => f # task[t] /\ place[f] \in {"running", "ready"}
    BY <1>4, <2>4
  <2> QED
    BY <1>2, <1>4, <2>3, <2>4, <2>5, <2>6, RunsMove
<1>6. CollectedOnce'
  BY <1>1, <1>2, <1>4, CollectedKept DEF CollectedOnce, Types
<1>7. ReportedOnce'
  BY <1>1, <1>2, <1>4, ReportedKept DEF ReportedOnce, Types
<1>8. CountersExact'
  <2>1. \A f \in Tasks : place'[f] = "event" <=> place[f] = "event"
    BY <1>2, <1>4
  <2>2. "run" \in RunPcs /\ "scan" \notin IdlePcs /\ "run" \notin IdlePcs
    BY DEF RunPcs, IdlePcs
  <2>3. m_activeThreadCount \in Nat /\ m_idleThreadcount \in Nat /\ m_pendingEventCount \in Nat
    BY CountersNat
  <2>4. /\ m_activeThreadCount' = m_activeThreadCount
             + One("run" \in {"run", "leave"}) - One(pc[t] \in {"run", "leave"})
        /\ m_idleThreadcount' = m_idleThreadcount + One("run" \in IdlePcs) - One(pc[t] \in IdlePcs)
        /\ m_pendingEventCount' = m_pendingEventCount + One("run" = "dec") - One(pc[t] = "dec")
    BY <1>1, <2>2, <2>3 DEF One
  <2> QED
    BY <1>4, <2>1, <2>2, <2>4, CountersGo
<1> QED
  BY <1>2, <1>3, <1>5, <1>6, <1>7, <1>8
(* A loop that has no task and none in its vector goes on to another such place. *)
LEMMA GoesOn ==
  ASSUME LoopsInv, NEW t \in Threads, NEW p \in RunPcs, pc' = [pc EXCEPT ![t] = p],
         pc[t] \notin TaskPcs, p \notin TaskPcs, cbs[t] = {},
         pc[t] \in {"expire", "handle", "dec"} => p \in {"handle", "dec"} \/ got[t] = {},
         idleTerm' \in SUBSET Threads, m_tickled' \in BOOLEAN,
         UNCHANGED <<m_fibers, flags, task, cbs, got, mustTickle, taskVars, listed, owner,
                     m_activeThreadCount>>,
         m_idleThreadcount' = m_idleThreadcount + One(p \in IdlePcs) - One(pc[t] \in IdlePcs),
         m_pendingEventCount' = m_pendingEventCount + One(p = "dec") - One(pc[t] = "dec")
  PROVE  LoopsInv'
<1> USE DEF LoopsInv
<1>1. /\ Goes(t, p) /\ place' = place /\ m_fibers' = m_fibers /\ task' = task /\ cbs' = cbs /\ got' = got
      /\ listed' = listed /\ due' = due
  BY DEF Types, Goes, taskVars
<1>2. Types'
  BY DEF Types, flags, taskVars, owner
<1>3. QueueExact'
  BY <1>1, QueueKept
<1>4. RunsOne'
  <2>1. \A u \in Threads : pc'[u] = pc[u] \/ (pc[u] \notin TaskPcs /\ pc'[u] \notin TaskPcs)
    BY <1>1 DEF Goes
  <2>2. Types /\ RunsOne /\ task' = task /\ \A f \in Tasks : place'[f] = place[f]
    BY <1>1
  <2> QED
    BY <2>1, <2>2, RunsKept
<1>5. CollectedOnce'
  BY <1>1, CollectedKept DEF Goes
<1>6. ReportedOnce'
  BY <1>1, ReportedKept DEF Goes, ReportedOnce
<1>7. CountersExact'
  <2>1. m_activeThreadCount \in Nat /\ m_activeThreadCount' = m_activeThreadCount
    BY CountersNat
  <2>2. m_activeThreadCount' = m_activeThreadCount + One(p \in {"run", "leave"}) - One(pc[t] \in {"run", "leave"})
    BY <2>1 DEF One, TaskPcs
  <2> QED
    BY <1>1, <2>2, CountersGo
<1> QED
  BY <1>2, <1>3, <1>4, <1>5, <1>6, <1>7

LEMMA LeaveStep ==
  ASSUME LoopsInv, NEW t \in Threads, Leave(t)
  PROVE  LoopsInv'
<1> USE DEF LoopsInv
<1> DEFINE p == IF task[t] = None THEN "scan" ELSE "requeue"
<1>1. /\ pc[t] = "leave" /\ pc' = [pc EXCEPT ![t] = p] /\ m_activeThreadCount' = m_activeThreadCount - 1
      /\ UNCHANGED <<m_fibers, m_idleThreadcount, m_pendingEventCount, flags, m_tickled,
                     loopVars, mustTickle, taskVars, listed, owner>>
  BY DEF Leave, At, Goto
<1>2. /\ p \in RunPcs /\ p \notin IdlePcs /\ p \notin {"run", "leave"} /\ p # "dec" /\ "leave" \notin IdlePcs
      /\ task[t] \in Tasks \cup {None}
      /\ task[t] # None => p \in TaskPcs
      /\ p = "requeue" => task[t] # None
  BY DEF RunPcs, IdlePcs, TaskPcs, Types
<1> HIDE DEF p
<1>3. /\ Goes(t, p) /\ Gets(t, task[t]) /\ place' = place /\ m_fibers' = m_fibers /\ task' = task /\ cbs' = cbs
      /\ got' = got /\ listed' = listed /\ due' = due
  BY <1>1 DEF Types, Goes, Gets, taskVars, loopVars
<1>4. Types'
  BY <1>1, <1>2 DEF Types, flags, taskVars, loopVars, owner
<1>5. QueueExact'
  BY <1>3, QueueKept
<1>6. RunsOne'
  <2>1. p = "requeue" => task[t] \in Tasks /\ place'[task[t]] = "ready"
    <3>1. p = "requeue" => task[t] \in Tasks
      BY <1>2
    <3>2. task[t] # None => place[task[t]] = "ready"
      BY <1>1 DEF RunsOne
    <3> QED
      BY <1>2, <1>3, <3>1, <3>2
  <2>2. \A u \in Threads \ {t} : task[u] # None => task[u] # task[t] /\ place'[task[u]] = place[task[u]]
    BY <1>3 DEF RunsOne
  <2>3. \A f \in Tasks : place'[f] \in {"running", "ready"} /\ f # task[t]
                            => f # task[t] /\ place[f] \in {"running", "ready"}
    BY <1>3
  <2> QED
    BY <1>2, <1>3, <2>1, <2>2, <2>3, RunsMove
<1>7. CollectedOnce'
  BY <1>1, <1>3, CollectedKept DEF Goes, CollectedOnce
<1>8. ReportedOnce'
  BY <1>1, <1>3, ReportedKept DEF Goes, ReportedOnce
<1>9. CountersExact'
  <2>1. m_activeThreadCount \in Nat /\ m_idleThreadcount \in Nat /\ m_pendingEventCount \in Nat
    BY CountersNat
  <2>2. /\ m_activeThreadCount' = m_activeThreadCount
             + One(p \in {"run", "leave"}) - One(pc[t] \in {"run", "leave"})
        /\ m_idleThreadcount' = m_idleThreadcount + One(p \in IdlePcs) - One(pc[t] \in IdlePcs)
        /\ m_pendingEventCount' = m_pendingEventCount + One(p = "dec") - One(pc[t] = "dec")
    BY <1>1, <1>2, <2>1 DEF One
  <2> QED
    BY <1>2, <1>3, <2>2, CountersGo
<1> QED
  BY <1>4, <1>5, <1>6, <1>7, <1>8, <1>9

LEMMA RequeueStep ==
  ASSUME LoopsInv, NEW t \in Threads, Requeue(t)
  PROVE  LoopsInv'
<1> USE DEF LoopsInv
<1> DEFINE f == task[t]
<1>1. /\ pc[t] = "requeue" /\ pc' = [pc EXCEPT ![t] = "scan"] /\ task' = [task EXCEPT ![t] = None]
      /\ m_fibers' = m_fibers \o <<f>> /\ place' = [place EXCEPT ![f] = "queued"]
      /\ mustTickle' \in {mustTickle, mustTickle \cup {t}}
      /\ UNCHANGED <<counters, flags, m_tickled, cbs, got, idleTerm, waits, due, listed, owner>>
  BY DEF Requeue, At, Goto, Move, Schedule
<1>2. f \in Tasks /\ place[f] = "ready"
  BY <1>1 DEF RunsOne
<1> HIDE DEF f
<1>3. m_fibers' \in Seq(Tasks) /\ QueueExact'
  BY <1>1, <1>2, TaskQueued
<1>4. /\ \A g \in Tasks : place'[g] = IF g = f THEN "queued" ELSE place[g]
      /\ Goes(t, "scan") /\ Gets(t, None)
  BY <1>1 DEF Types, Goes, Gets
<1>5. "scan" \in RunPcs /\ "scan" \notin IdlePcs /\ "requeue" \notin IdlePcs
  BY DEF RunPcs, IdlePcs
<1>6. Types'
  <2>1. /\ pc' \in [Threads -> RunPcs] /\ task' \in [Threads -> Tasks \cup {None}]
        /\ place' \in [Tasks -> Places] /\ mustTickle' \in SUBSET (Threads \cup {Client})
    BY <1>1, <1>2, <1>5 DEF Types, Places
  <2>2. due' \in SUBSET Tasks /\ \A g \in due' : place'[g] \in {"timer", "event"}
    BY <1>1, <1>2, <1>4 DEF Types
  <2> QED
    BY <1>1, <1>3, <2>1, <2>2 DEF Types, flags, owner
<1>7. RunsOne'
  <2>1. \A u \in Threads \ {t} : task[u] # None
                                   => task[u] # None /\ place'[task[u]] = place[task[u]]
    <3>1. \A u \in Threads \ {t} : task[u] # None => task[u] \in Tasks /\ task[u] # f
      BY TaskOf DEF RunsOne, f
    <3> QED
      BY <1>4, <3>1
  <2>2. \A g \in Tasks : place'[g] \in {"running", "ready"} /\ g # None
                           => g # task[t] /\ place[g] \in {"running", "ready"}
    BY <1>2, <1>4 DEF f
  <2> QED
    BY <1>4, <1>5, <2>1, <2>2, RunsMove
<1>8. CollectedOnce'
  BY <1>1, <1>2, <1>4, CollectedKept DEF CollectedOnce, Goes
<1>9. ReportedOnce'
  BY <1>1, <1>2, <1>4, ReportedKept DEF ReportedOnce, Goes, Types
<1>10. CountersExact'
  <2>1. m_activeThreadCount \in Nat /\ m_idleThreadcount \in Nat /\ m_pendingEventCount \in Nat
    BY CountersNat
  <2>2. /\ m_activeThreadCount' = m_activeThreadCount
             + One("scan" \in {"run", "leave"}) - One(pc[t] \in {"run", "leave"})
        /\ m_idleThreadcount' = m_idleThreadcount + One("scan" \in IdlePcs) - One(pc[t] \in IdlePcs)
        /\ m_pendingEventCount' = m_pendingEventCount + One("scan" = "dec") - One(pc[t] = "dec")
    BY <1>1, <1>5, <2>1 DEF One, counters
  <2>3. \A g \in Tasks : place'[g] = "event" <=> place[g] = "event"
    BY <1>2, <1>4
  <2> QED
    BY <1>4, <1>5, <2>2, <2>3, CountersGo
<1> QED
  BY <1>3, <1>6, <1>7, <1>8, <1>9, <1>10
LEMMA RunStep ==
  ASSUME LoopsInv, NEW t \in Threads, Run(t)
  PROVE  LoopsInv'
<1> USE DEF LoopsInv
<1>0. /\ m_idleThreadcount \in Nat /\ m_pendingEventCount \in Nat /\ {"notask", "next", "done"} \subseteq RunPcs
      /\ {"notask", "next", "done", "scan"} \cap TaskPcs = {} /\ {"notask", "done", "scan"} \cap IdlePcs = {}
      /\ "next" \in IdlePcs
  BY CountersNat DEF RunPcs, TaskPcs, IdlePcs
<1>1. CASE Take(t)
  BY <1>1, TakeStep
<1>2. CASE NoTask(t)
  <2>1. /\ pc[t] = "scan" /\ pc' = [pc EXCEPT ![t] = "notask"]
        /\ UNCHANGED <<m_fibers, counters, flags, m_tickled, loopVars, mustTickle, taskVars, listed, owner>>
    BY <1>2 DEF NoTask, At, Goto
  <2>2. cbs[t] = {} /\ idleTerm' \in SUBSET Threads /\ m_tickled' \in BOOLEAN
    BY <2>1 DEF CollectedOnce, Types, loopVars
  <2>3. /\ m_idleThreadcount' = m_idleThreadcount + One("notask" \in IdlePcs) - One(pc[t] \in IdlePcs)
        /\ m_pendingEventCount' = m_pendingEventCount + One("notask" = "dec") - One(pc[t] = "dec")
    BY <1>0, <2>1 DEF One, counters
  <2> QED
    BY <1>0, <2>1, <2>2, <2>3, GoesOn DEF counters, loopVars
<1>3. CASE Leave(t)
  BY <1>3, LeaveStep
<1>4. CASE Requeue(t)
  BY <1>4, RequeueStep
<1>5. CASE EnterIdle(t)
  <2>1. /\ pc[t] = "notask" /\ pc' = [pc EXCEPT ![t] = "next"] /\ m_idleThreadcount' = m_idleThreadcount + 1
        /\ UNCHANGED <<m_fibers, m_activeThreadCount, m_pendingEventCount, flags, m_tickled,
                       loopVars, mustTickle, taskVars, listed, owner>>
    BY <1>5 DEF EnterIdle, At, Goto
  <2>2. cbs[t] = {} /\ idleTerm' \in SUBSET Threads /\ m_tickled' \in BOOLEAN
    BY <2>1 DEF CollectedOnce, Types, loopVars
  <2>3. /\ m_idleThreadcount' = m_idleThreadcount + One("next" \in IdlePcs) - One(pc[t] \in IdlePcs)
        /\ m_pendingEventCount' = m_pendingEventCount + One("next" = "dec") - One(pc[t] = "dec")
    BY <1>0, <2>1 DEF One
  <2> QED
    BY <1>0, <2>1, <2>2, <2>3, GoesOn DEF loopVars
<1>6. CASE Exit(t)
  <2>1. /\ pc[t] = "notask" /\ pc' = [pc EXCEPT ![t] = "done"]
        /\ UNCHANGED <<m_fibers, counters, flags, m_tickled, loopVars, mustTickle, taskVars, listed, owner>>
    BY <1>6 DEF Exit, At, Goto
  <2>2. cbs[t] = {} /\ idleTerm' \in SUBSET Threads /\ m_tickled' \in BOOLEAN
    BY <2>1 DEF CollectedOnce, Types, loopVars
  <2>3. /\ m_idleThreadcount' = m_idleThreadcount + One("done" \in IdlePcs) - One(pc[t] \in IdlePcs)
        /\ m_pendingEventCount' = m_pendingEventCount + One("done" = "dec") - One(pc[t] = "dec")
    BY <1>0, <2>1 DEF One, counters
  <2> QED
    BY <1>0, <2>1, <2>2, <2>3, GoesOn DEF counters, loopVars
<1> QED
  BY <1>1, <1>2, <1>3, <1>4, <1>5, <1>6 DEF Run

-----------------------------------------------------------------------------
(* The task of loop t waits, becomes READY or is done. *)
LEMMA TaskLeaves ==
  ASSUME LoopsInv, NEW t \in Threads, NEW q \in {"timer", "event", "ready", "done"}, pc[t] = "run",
         pc' = [pc EXCEPT ![t] = "leave"], place' = [place EXCEPT ![task[t]] = q],
         task' = [task EXCEPT ![t] = IF q = "ready" THEN task[t] ELSE None],
         waits' \in [Tasks -> Nat], m_tickled' \in BOOLEAN,
         mustTickle' \in SUBSET (Threads \cup {Client}),
         m_pendingEventCount' = m_pendingEventCount + One(q = "event"),
         UNCHANGED <<m_fibers, m_activeThreadCount, m_idleThreadcount, flags, cbs, got, idleTerm, due,
                     listed, owner>>
  PROVE  LoopsInv'
<1> USE DEF LoopsInv
<1> DEFINE f == task[t]
           v == IF q = "ready" THEN f ELSE None
<1>1. f \in Tasks /\ place[f] = "running"
  BY DEF RunsOne
<1>2. v \in Tasks \cup {None} /\ (v # None => v = f /\ q = "ready") /\ (q = "ready" => v = f)
  BY <1>1
<1>3. /\ \A g \in Tasks : place'[g] = IF g = f THEN q ELSE place[g]
      /\ Goes(t, "leave") /\ Gets(t, v)
  BY DEF Types, Goes, Gets
<1> HIDE DEF v
<1>4. Types'
  <2>1. "leave" \in RunPcs /\ q \in Places
    BY DEF RunPcs, Places
  <2>2. /\ pc' \in [Threads -> RunPcs] /\ task' \in [Threads -> Tasks \cup {None}]
        /\ place' \in [Tasks -> Places]
    BY <1>1, <2>1 DEF Types
  <2>3. due' \in SUBSET Tasks /\ \A g \in due' : place'[g] \in {"timer", "event"}
    BY <1>1, <1>3 DEF Types
  <2> QED
    BY <2>2, <2>3 DEF Types, flags, owner
<1>5. QueueExact'
  BY <1>1, <1>3, QueueKept
<1>6. RunsOne'
  <2>1. \A u \in Threads \ {t} : task[u] # None => task[u] # v /\ place'[task[u]] = place[task[u]]
    <3>1. \A u \in Threads \ {t} : task[u] # None => task[u] \in Tasks /\ task[u] # f
      BY TaskOf DEF RunsOne
    <3> QED
      BY <1>2, <1>3, <3>1
  <2>2. \A g \in Tasks : place'[g] \in {"running", "ready"} /\ g # v
                           => g # task[t] /\ place[g] \in {"running", "ready"}
    BY <1>2, <1>3
  <2>3. "leave" \in RunPcs /\ "leave" \in TaskPcs /\ (v = None \/ place'[v] = "ready")
    BY <1>1, <1>2, <1>3 DEF RunPcs, TaskPcs
  <2> QED
    BY <1>2, <1>3, <2>1, <2>2, <2>3, RunsMove
<1>7. CollectedOnce'
  BY <1>1, <1>3, CollectedKept DEF CollectedOnce, Goes
<1>8. ReportedOnce'
  BY <1>1, <1>3, ReportedKept DEF ReportedOnce, Goes, Types
<1>9. CountersExact'
  <2>1. m_activeThreadCount \in Nat /\ m_idleThreadcount \in Nat /\ m_pendingEventCount \in Nat
    BY CountersNat
  <2>2. "leave" \notin IdlePcs /\ "run" \notin IdlePcs /\ pc'[t] = "leave"
        /\ \A u \in Threads \ {t} : pc'[u] = pc[u]
    BY <1>3 DEF IdlePcs, Goes
  <2>3. One(q = "event") \in Int
    BY DEF One
  <2>4. /\ Cardinality(InPlace("event")) \in Nat
        /\ Cardinality(InPlace("event")') = Cardinality(InPlace("event"))
             + (IF place'[f] = "event" THEN 1 ELSE 0) - (IF place[f] = "event" THEN 1 ELSE 0)
    BY <1>1, <1>3, CountTasks
  <2>5. Cardinality(InPlace("event")') = Cardinality(InPlace("event")) + One(q = "event")
    BY <1>1, <1>3, <2>4 DEF One
  <2>6. /\ m_activeThreadCount' = m_activeThreadCount
             + One(pc'[t] \in {"run", "leave"}) - One(pc[t] \in {"run", "leave"})
        /\ m_idleThreadcount' = m_idleThreadcount + One(pc'[t] \in IdlePcs) - One(pc[t] \in IdlePcs)
    BY <2>1, <2>2 DEF One
  <2>7. m_pendingEventCount' = m_pendingEventCount + One(q = "event") + One(pc'[t] = "dec") - One(pc[t] = "dec")
    BY <2>1, <2>2, <2>3 DEF One
  <2> QED
    BY <2>2, <2>3, <2>4, <2>5, <2>6, <2>7, CountersMove
<1> QED
  BY <1>4, <1>5, <1>6, <1>7, <1>8, <1>9
(* A task that no thread knows yet is scheduled. *)
LEMMA NewTask ==
  ASSUME LoopsInv, NEW f \in Tasks, place[f] = "new", m_fibers' = m_fibers \o <<f>>,
         place' = [place EXCEPT ![f] = "queued"], mustTickle' \in SUBSET (Threads \cup {Client}),
         UNCHANGED <<counters, flags, m_tickled, pc, loopVars, waits, due, listed, owner>>
  PROVE  LoopsInv'
<1> USE DEF LoopsInv
<1>1. /\ \A g \in Tasks : place'[g] = IF g = f THEN "queued" ELSE place[g]
      /\ pc' = pc /\ task' = task /\ cbs' = cbs /\ got' = got /\ listed' = listed /\ due' = due
  BY DEF Types, loopVars
<1>2. m_fibers' \in Seq(Tasks) /\ QueueExact'
  BY TaskQueued
<1>3. Types'
  <2>1. place' \in [Tasks -> Places] /\ \A g \in due' : place'[g] \in {"timer", "event"}
    BY <1>1 DEF Types, Places
  <2> QED
    BY <1>1, <1>2, <2>1 DEF Types, flags, loopVars, owner
<1>4. RunsOne'
  <2>1. \A g \in Tasks : \/ place'[g] = place[g]
                         \/ place[g] \notin {"running", "ready"} /\ place'[g] \notin {"running", "ready"}
    BY <1>1
  <2> QED
    BY <1>1, <2>1, RunsKept
<1>5. CollectedOnce'
  BY <1>1, CollectedKept
<1>6. ReportedOnce'
  BY <1>1, ReportedKept DEF Types
<1>7. CountersExact'
  BY <1>1, CountersKept
<1> QED
  BY <1>2, <1>3, <1>4, <1>5, <1>6, <1>7

LEMMA BodyStep ==
  ASSUME LoopsInv, NEW t \in Threads, Body(t)
  PROVE  LoopsInv'
<1>1. CASE Spawn(t)
  <2>1. PICK f \in InPlace("new") : Schedule(t, <<f>>) /\ Move(f, "queued")
    BY <1>1 DEF Spawn
  <2>2. /\ f \in Tasks /\ place[f] = "new" /\ m_fibers' = m_fibers \o <<f>>
        /\ place' = [place EXCEPT ![f] = "queued"] /\ mustTickle' \in {mustTickle, mustTickle \cup {t}}
    BY <2>1 DEF Schedule, Move, InPlace
  <2>3. mustTickle' \in SUBSET (Threads \cup {Client})
    BY <2>2 DEF LoopsInv, Types
  <2> QED
    BY <1>1, <2>2, <2>3, NewTask DEF Spawn
<1> USE DEF LoopsInv
<1>2. /\ m_pendingEventCount \in Nat /\ One("event" = "event") = 1 /\ One("timer" = "event") = 0
      /\ One("ready" = "event") = 0 /\ One("done" = "event") = 0
  BY CountersNat DEF One
<1>3. ASSUME pc[t] = "run", waits' = [waits EXCEPT ![task[t]] = @ + 1] PROVE waits' \in [Tasks -> Nat]
  BY <1>3 DEF Types, RunsOne
<1>4. CASE Sleep(t)
  <2>1. /\ pc[t] = "run" /\ pc' = [pc EXCEPT ![t] = "leave"] /\ place' = [place EXCEPT ![task[t]] = "timer"]
        /\ task' = [task EXCEPT ![t] = None] /\ waits' = [waits EXCEPT ![task[t]] = @ + 1]
    BY <1>4 DEF Sleep, MayWait, Wait, At, Goto, Move
  <2>2. /\ UNCHANGED <<m_fibers, counters, flags, cbs, got, idleTerm, due, listed, owner>>
        /\ mustTickle' \in {mustTickle, mustTickle \cup {t}}
        /\ \E at_front \in BOOLEAN : m_tickled' = (m_tickled \/ at_front)
    BY <1>4 DEF Sleep
  <2>3. m_tickled' \in BOOLEAN /\ mustTickle' \in SUBSET (Threads \cup {Client})
    BY <2>2 DEF Types
  <2>4. m_pendingEventCount' = m_pendingEventCount + One("timer" = "event")
    BY <1>2, <2>2 DEF counters
  <2>5. task' = [task EXCEPT ![t] = IF "timer" = "ready" THEN task[t] ELSE None]
    BY <2>1
  <2>6. waits' \in [Tasks -> Nat]
    BY <1>3, <2>1
  <2> QED
    BY <2>1, <2>2, <2>3, <2>4, <2>5, <2>6, TaskLeaves DEF counters
<1>5. CASE WaitEvent(t)
  <2>1. /\ pc[t] = "run" /\ pc' = [pc EXCEPT ![t] = "leave"] /\ place' = [place EXCEPT ![task[t]] = "event"]
        /\ task' = [task EXCEPT ![t] = None] /\ waits' = [waits EXCEPT ![task[t]] = @ + 1]
    BY <1>5 DEF WaitEvent, MayWait, Wait, At, Goto, Move
  <2>2. /\ UNCHANGED <<m_fibers, m_activeThreadCount, m_idleThreadcount, flags, m_tickled,
                       cbs, got, idleTerm, mustTickle, due, listed, owner>>
        /\ m_pendingEventCount' = m_pendingEventCount + One("event" = "event")
    BY <1>2, <1>5 DEF WaitEvent
  <2>3. m_tickled' \in BOOLEAN /\ mustTickle' \in SUBSET (Threads \cup {Client})
    BY <2>2 DEF Types
  <2>5. task' = [task EXCEPT ![t] = IF "event" = "ready" THEN task[t] ELSE None]
    BY <2>1
  <2>6. waits' \in [Tasks -> Nat]
    BY <1>3, <2>1
  <2> QED
    BY <2>1, <2>2, <2>3, <2>5, <2>6, TaskLeaves
<1>6. CASE Yield(t)
  <2>1. /\ pc[t] = "run" /\ pc' = [pc EXCEPT ![t] = "leave"] /\ place' = [place EXCEPT ![task[t]] = "ready"]
        /\ waits' = [waits EXCEPT ![task[t]] = @ + 1]
        /\ UNCHANGED <<m_fibers, counters, flags, m_tickled, loopVars, mustTickle, due, listed, owner>>
    BY <1>6 DEF Yield, MayWait, Wait, At, Goto, Move
  <2>3. m_tickled' \in BOOLEAN /\ mustTickle' \in SUBSET (Threads \cup {Client})
    BY <2>1 DEF Types
  <2>4. m_pendingEventCount' = m_pendingEventCount + One("ready" = "event")
    BY <1>2, <2>1 DEF counters
  <2>5. task' = [task EXCEPT ![t] = IF "ready" = "ready" THEN task[t] ELSE None]
    BY <2>1 DEF Types, loopVars
  <2>6. waits' \in [Tasks -> Nat]
    BY <1>3, <2>1
  <2> QED
    BY <2>1, <2>3, <2>4, <2>5, <2>6, TaskLeaves DEF counters, loopVars
<1>7. CASE Finish(t)
  <2>1. /\ pc[t] = "run" /\ pc' = [pc EXCEPT ![t] = "leave"] /\ place' = [place EXCEPT ![task[t]] = "done"]
        /\ task' = [task EXCEPT ![t] = None]
        /\ UNCHANGED <<m_fibers, counters, flags, m_tickled, cbs, got, idleTerm, mustTickle,
                       waits, due, listed, owner>>
    BY <1>7 DEF Finish, At, Goto, Move
  <2>3. m_tickled' \in BOOLEAN /\ mustTickle' \in SUBSET (Threads \cup {Client}) /\ waits' \in [Tasks -> Nat]
    BY <2>1 DEF Types
  <2>4. m_pendingEventCount' = m_pendingEventCount + One("done" = "event")
    BY <1>2, <2>1 DEF counters
  <2>5. task' = [task EXCEPT ![t] = IF "done" = "ready" THEN task[t] ELSE None]
    BY <2>1
  <2> QED
    BY <2>1, <2>3, <2>4, <2>5, TaskLeaves DEF counters
<1> QED
  BY <1>1, <1>4, <1>5, <1>6, <1>7 DEF Body
-----------------------------------------------------------------------------
(* idle(): the steps that touch tasks. *)
LEMMA EpollWaitStep ==
  ASSUME LoopsInv, NEW t \in Threads, EpollWait(t)
  PROVE  LoopsInv'
<1> USE DEF LoopsInv
<1>1. /\ pc[t] = "poll" /\ pc' = [pc EXCEPT ![t] = "expire"] /\ got' = [got EXCEPT ![t] = listed] /\ listed' = {}
      /\ UNCHANGED <<m_fibers, counters, flags, m_tickled, task, cbs, idleTerm, mustTickle,
                     taskVars, owner>>
  BY DEF EpollWait, At, Goto
<1>2. /\ Goes(t, "expire") /\ \A u \in Threads : got'[u] = IF u = t THEN listed ELSE got[u]
      /\ place' = place /\ due' = due /\ task' = task /\ cbs' = cbs /\ m_fibers' = m_fibers
  BY <1>1 DEF Types, Goes, taskVars
<1>3. "expire" \in RunPcs /\ "expire" \in IdlePcs /\ "poll" \in IdlePcs /\ {"poll", "expire"} \cap TaskPcs = {}
  BY DEF RunPcs, IdlePcs, TaskPcs
<1>4. Types'
  BY <1>1, <1>3 DEF Types, flags, taskVars, owner
<1>5. QueueExact'
  BY <1>2, QueueKept
<1>6. RunsOne'
  <2>1. \A u \in Threads : pc'[u] = pc[u] \/ (pc[u] \notin TaskPcs /\ pc'[u] \notin TaskPcs)
    BY <1>1, <1>2, <1>3 DEF Goes
  <2> QED
    BY <1>2, <2>1, RunsKept
<1>7. CollectedOnce'
  BY <1>1, <1>2, CollectedKept DEF Goes, CollectedOnce
<1>8. ReportedOnce'
  <2>1. \A u \in Threads : got[u] # {} => u # t
    BY <1>1 DEF ReportedOnce
  <2>2. \A u \in Threads : \A f \in got'[u] \ {Pipe} : f \in due' /\ place'[f] = "event" /\ f \notin listed'
    BY <1>1, <1>2 DEF ReportedOnce
  <2>3. ASSUME NEW u \in Threads, NEW w \in Threads, (got'[u] \cap got'[w]) \ {Pipe} # {} PROVE u = w
    <3>1. CASE u = t /\ w # t
      BY <1>2, <2>3, <3>1 DEF ReportedOnce
    <3>2. CASE u # t /\ w = t
      BY <1>2, <2>3, <3>2 DEF ReportedOnce
    <3>3. CASE u # t /\ w # t
      BY <1>2, <2>3, <3>3 DEF ReportedOnce
    <3> QED
      BY <3>1, <3>2, <3>3
  <2>4. \A u \in Threads : got'[u] # {} => pc'[u] \in {"expire", "handle", "dec"}
    BY <1>2 DEF ReportedOnce, Goes
  <2>5. \A f \in listed' \ {Pipe} : f \in due' /\ place'[f] = "event"
    BY <1>1
  <2> QED
    BY <2>2, <2>3, <2>4, <2>5 DEF ReportedOnce
<1>9. CountersExact'
  <2>1. m_activeThreadCount \in Nat /\ m_idleThreadcount \in Nat /\ m_pendingEventCount \in Nat
    BY CountersNat
  <2>2. /\ m_activeThreadCount' = m_activeThreadCount
             + One("expire" \in {"run", "leave"}) - One(pc[t] \in {"run", "leave"})
        /\ m_idleThreadcount' = m_idleThreadcount + One("expire" \in IdlePcs) - One(pc[t] \in IdlePcs)
        /\ m_pendingEventCount' = m_pendingEventCount + One("expire" = "dec") - One(pc[t] = "dec")
    BY <1>1, <1>3, <2>1 DEF One, counters
  <2>3. \A f \in Tasks : place'[f] = "event" <=> place[f] = "event"
    BY <1>2
  <2> QED
    BY <1>2, <1>3, <2>2, <2>3, CountersGo
<1> QED
  BY <1>4, <1>5, <1>6, <1>7, <1>8, <1>9

LEMMA ListExpiredStep ==
  ASSUME LoopsInv, NEW t \in Threads, ListExpired(t)
  PROVE  LoopsInv'
<1> USE DEF LoopsInv
<1> DEFINE E == Expired
<1>1. /\ pc[t] = "expire" /\ cbs[t] = {} /\ E # {} /\ cbs' = [cbs EXCEPT ![t] = E]
      /\ place' = [f \in Tasks |-> IF f \in E THEN "cbs" ELSE place[f]] /\ due' = due \ E
      /\ UNCHANGED <<m_fibers, counters, flags, m_tickled, pc, task, got, idleTerm,
                     mustTickle, waits, listed, owner>>
  BY DEF ListExpired, At
<1>2. E \in SUBSET Tasks /\ \A f \in E : place[f] = "timer"
  BY DEF Expired, InPlace
<1> HIDE DEF E
<1>3. /\ \A u \in Threads : cbs'[u] = IF u = t THEN E ELSE cbs[u]
      /\ \A f \in Tasks : place'[f] = IF f \in E THEN "cbs" ELSE place[f]
  BY <1>1 DEF Types
<1>4. Types'
  <2>1. /\ place' \in [Tasks -> Places] /\ cbs' \in [Threads -> SUBSET Tasks]
        /\ due' \in SUBSET Tasks /\ \A f \in due' : place'[f] \in {"timer", "event"}
    BY <1>1, <1>2, <1>3 DEF Types, Places
  <2> QED
    BY <1>1, <2>1 DEF Types, flags, owner
<1>5. QueueExact'
  BY <1>1, <1>2, <1>3, QueueKept
<1>6. RunsOne'
  BY <1>1, <1>2, <1>3, RunsKept
<1>7. CollectedOnce'
  <2>1. \A u \in Threads : \A f \in cbs[u] : f \in Tasks /\ f \notin E /\ u # t
    BY <1>1, <1>2 DEF CollectedOnce, Types
  <2>2. \A u \in Threads : \A f \in cbs'[u] : place'[f] = "cbs" /\ pc'[u] = "expire"
    BY <1>1, <1>2, <1>3, <2>1 DEF CollectedOnce
  <2>3. ASSUME NEW u \in Threads, NEW w \in Threads, cbs'[u] \cap cbs'[w] # {} PROVE u = w
    BY <1>3, <2>1, <2>3 DEF CollectedOnce
  <2>4. ASSUME NEW f \in Tasks, place'[f] = "cbs" PROVE \E u \in Threads : f \in cbs'[u]
    <3>1. CASE f \in E
      BY <1>3, <3>1
    <3>2. CASE f \notin E
      BY <1>1, <1>3, <2>4, <3>2 DEF CollectedOnce
    <3> QED
      BY <3>1, <3>2
  <2> QED
    BY <2>2, <2>3, <2>4 DEF CollectedOnce
<1>8. ReportedOnce'
  BY <1>1, <1>2, <1>3, ReportedKept DEF Types
<1>9. CountersExact'
  BY <1>1, <1>2, <1>3, CountersKept
<1> QED
  BY <1>4, <1>5, <1>6, <1>7, <1>8, <1>9

LEMMA ScheduleCbsStep ==
  ASSUME LoopsInv, NEW t \in Threads, ScheduleCbs(t)
  PROVE  LoopsInv'
<1> USE DEF LoopsInv
<1> DEFINE S == cbs[t]
           n == Cardinality(S)
<1>1. S \in SUBSET Tasks /\ \A f \in S : place[f] = "cbs"
  BY DEF Types, CollectedOnce
<1>2. PICK seq \in [1..n -> S] : (\A f \in S : \E i \in DOMAIN seq : seq[i] = f) /\ Schedule(t, seq)
  BY DEF ScheduleCbs
<1>3. /\ pc[t] = "expire" /\ pc' = [pc EXCEPT ![t] = "handle"] /\ cbs' = [cbs EXCEPT ![t] = {}]
      /\ m_fibers' = m_fibers \o seq /\ mustTickle' \in {mustTickle, mustTickle \cup {t}}
      /\ place' = [f \in Tasks |-> IF f \in S THEN "queued" ELSE place[f]]
      /\ UNCHANGED <<counters, flags, m_tickled, task, got, idleTerm, waits, due, listed, owner>>
  BY <1>2 DEF ScheduleCbs, Schedule, At, Goto
<1>4. IsFiniteSet(S) /\ n \in Nat
  BY <1>1, LoopsAssumption, FS_Subset, FS_CardinalityType
<1> HIDE DEF S
<1>5. seq \in Seq(S) /\ \A i, j \in DOMAIN seq : seq[i] = seq[j] => i = j
  <2>1. IsFiniteSet(1..n) /\ Cardinality(1..n) = n
    <3>1. IsFiniteSet(1..n) /\ Cardinality(1..n) = IF 1 > n THEN 0 ELSE n - 1 + 1
      BY <1>4, FS_Interval
    <3> QED
      BY <1>4, <3>1
  <2> HIDE DEF n
  <2>2. seq \in Surjection(1..n, S)
    BY <1>2 DEF Surjection
  <2>3. seq \in Injection(1..n, S)
    <3>1. Cardinality(1..n) = Cardinality(S)
      BY <2>1 DEF n
    <3> QED
      BY <1>4, <2>1, <2>2, <3>1, FS_SurjSameCardinalityImpliesInj
  <2>4. seq \in Seq(S) /\ DOMAIN seq = 1..n
    BY <1>2, <1>4
  <2> QED
    BY <2>3, <2>4 DEF Injection, IsInjective
<1> HIDE DEF n
<1>6. m_fibers' \in Seq(Tasks) /\ QueueExact'
  <2>1. \A f \in S : place[f] # "queued"
    BY <1>1
  <2>2. \A f \in Tasks : place'[f] = IF f \in S THEN "queued" ELSE place[f]
    BY <1>3
  <2> QED
    BY <1>1, <1>2, <1>3, <1>5, <2>1, <2>2, TasksQueued
<1>7. /\ \A f \in Tasks : place'[f] = IF f \in S THEN "queued" ELSE place[f]
      /\ Goes(t, "handle") /\ \A u \in Threads : cbs'[u] = IF u = t THEN {} ELSE cbs[u]
  BY <1>3 DEF Types, Goes
<1>8. "handle" \in RunPcs /\ "handle" \in IdlePcs /\ "expire" \in IdlePcs /\ {"handle", "expire"} \cap TaskPcs = {}
  BY DEF RunPcs, IdlePcs, TaskPcs
<1>9. Types'
  <2>1. /\ place' \in [Tasks -> Places] /\ pc' \in [Threads -> RunPcs] /\ cbs' \in [Threads -> SUBSET Tasks]
        /\ mustTickle' \in SUBSET (Threads \cup {Client})
    BY <1>3, <1>8 DEF Types, Places
  <2>2. due' \in SUBSET Tasks /\ \A f \in due' : place'[f] \in {"timer", "event"}
    BY <1>1, <1>3, <1>7 DEF Types
  <2> QED
    BY <1>3, <1>6, <2>1, <2>2 DEF Types, flags, owner
<1>10. RunsOne'
  <2>1. \A u \in Threads : pc'[u] = pc[u] \/ (pc[u] \notin TaskPcs /\ pc'[u] \notin TaskPcs)
    BY <1>3, <1>7, <1>8 DEF Goes
  <2>2. \A g \in Tasks : \/ place'[g] = place[g]
                         \/ place[g] \notin {"running", "ready"} /\ place'[g] \notin {"running", "ready"}
    BY <1>1, <1>7
  <2> QED
    BY <1>3, <2>1, <2>2, RunsKept
<1>11. CollectedOnce'
  <2>1. \A u \in Threads \ {t} : \A f \in cbs[u] : f \in Tasks /\ f \notin S
    BY DEF CollectedOnce, Types, S
  <2>2. \A u \in Threads : \A f \in cbs'[u] : place'[f] = "cbs" /\ pc'[u] = "expire"
    BY <1>7, <2>1 DEF CollectedOnce, Goes
  <2>3. \A u, w \in Threads : cbs'[u] \cap cbs'[w] # {} => u = w
    BY <1>7 DEF CollectedOnce
  <2>4. ASSUME NEW f \in Tasks, place'[f] = "cbs" PROVE \E u \in Threads : f \in cbs'[u]
    <3>1. f \notin S /\ place[f] = "cbs"
      BY <1>7, <2>4
    <3>2. PICK u \in Threads : f \in cbs[u]
      BY <3>1 DEF CollectedOnce
    <3>3. u # t
      BY <3>1, <3>2 DEF S
    <3> QED
      BY <1>7, <3>2, <3>3
  <2> QED
    BY <2>2, <2>3, <2>4 DEF CollectedOnce
<1>12. ReportedOnce'
  <2>1. \A f \in due : place[f] = "event" => f \in due' /\ place'[f] = "event"
    BY <1>1, <1>3, <1>7 DEF Types
  <2>2. \A u \in Threads : got[u] # {} => pc'[u] = pc[u] \/ pc'[u] \in {"handle", "dec"}
    BY <1>7 DEF Goes
  <2> QED
    BY <1>3, <2>1, <2>2, ReportedKept
<1>13. CountersExact'
  <2>1. m_activeThreadCount \in Nat /\ m_idleThreadcount \in Nat /\ m_pendingEventCount \in Nat
    BY CountersNat
  <2>2. /\ m_activeThreadCount' = m_activeThreadCount
             + One("handle" \in {"run", "leave"}) - One(pc[t] \in {"run", "leave"})
        /\ m_idleThreadcount' = m_idleThreadcount + One("handle" \in IdlePcs) - One(pc[t] \in IdlePcs)
        /\ m_pendingEventCount' = m_pendingEventCount + One("handle" = "dec") - One(pc[t] = "dec")
    BY <1>3, <1>8, <2>1 DEF One, counters
  <2>3. \A f \in Tasks : place'[f] = "event" <=> place[f] = "event"
    BY <1>1, <1>7
  <2> QED
    BY <1>7, <1>8, <2>2, <2>3, CountersGo
<1> QED
  BY <1>6, <1>9, <1>10, <1>11, <1>12, <1>13
(* No task, loop or counter moves; the reports may. *)
LEMMA NoneMoves ==
  ASSUME LoopsInv, Types', ReportedOnce', UNCHANGED <<m_fibers, counters, pc, task, cbs, place>>
  PROVE  LoopsInv'
<1> USE DEF LoopsInv
<1>1. QueueExact'
  BY QueueKept
<1>2. RunsOne'
  BY RunsKept
<1>3. CollectedOnce'
  BY CollectedKept
<1>4. CountersExact'
  BY CountersKept
<1> QED
  BY <1>1, <1>2, <1>3, <1>4

LEMMA DrainStep ==
  ASSUME LoopsInv, NEW t \in Threads, Drain(t)
  PROVE  LoopsInv'
<1> USE DEF LoopsInv
<1>1. /\ got' = [got EXCEPT ![t] = @ \ {Pipe}] /\ listed' = listed \ {Pipe}
      /\ UNCHANGED <<m_fibers, counters, flags, m_tickled, pc, task, cbs, idleTerm,
                     mustTickle, taskVars, owner>>
  BY DEF Drain
<1>2. /\ \A u \in Threads : got'[u] = IF u = t THEN got[u] \ {Pipe} ELSE got[u]
      /\ place' = place /\ due' = due
  BY <1>1 DEF Types, taskVars
<1>3. Types'
  BY <1>1 DEF Types, flags, taskVars, owner
<1>4. ReportedOnce'
  BY <1>1, <1>2 DEF ReportedOnce
<1> QED
  BY <1>1, <1>2, <1>3, <1>4, NoneMoves

LEMMA TriggerEventStep ==
  ASSUME LoopsInv, NEW t \in Threads, TriggerEvent(t)
  PROVE  LoopsInv'
<1> USE DEF LoopsInv
<1>1. PICK f \in got[t] \ {Pipe} :
        /\ Schedule(t, <<f>>) /\ Move(f, "queued")
        /\ got' = [got EXCEPT ![t] = @ \ {f}] /\ due' = due \ {f}
  BY DEF TriggerEvent
<1>2. /\ pc[t] = "handle" /\ pc' = [pc EXCEPT ![t] = "dec"]
      /\ m_fibers' = m_fibers \o <<f>> /\ place' = [place EXCEPT ![f] = "queued"]
      /\ mustTickle' \in {mustTickle, mustTickle \cup {t}}
      /\ UNCHANGED <<counters, flags, m_tickled, task, cbs, idleTerm, waits, listed, owner>>
  BY <1>1 DEF TriggerEvent, Schedule, Move, At, Goto
<1>3. f \in Tasks /\ f \in due /\ place[f] = "event" /\ f \notin listed /\ \A u \in Threads \ {t} : f \notin got[u]
  BY <1>1 DEF ReportedOnce, Types
<1>4. m_fibers' \in Seq(Tasks) /\ QueueExact'
  BY <1>2, <1>3, TaskQueued
<1>5. /\ \A g \in Tasks : place'[g] = IF g = f THEN "queued" ELSE place[g]
      /\ Goes(t, "dec") /\ \A u \in Threads : got'[u] = IF u = t THEN got[u] \ {f} ELSE got[u]
  BY <1>1, <1>2 DEF Types, Goes
<1>6. "dec" \in RunPcs /\ "dec" \in IdlePcs /\ "handle" \in IdlePcs /\ {"handle", "dec"} \cap TaskPcs = {}
  BY DEF RunPcs, IdlePcs, TaskPcs
<1>7. Types'
  <2>1. /\ place' \in [Tasks -> Places] /\ pc' \in [Threads -> RunPcs]
        /\ got' \in [Threads -> SUBSET (Tasks \cup {Pipe})] /\ mustTickle' \in SUBSET (Threads \cup {Client})
    BY <1>1, <1>2, <1>6 DEF Types, Places
  <2>2. due' \in SUBSET Tasks /\ \A g \in due' : place'[g] \in {"timer", "event"}
    BY <1>1, <1>5 DEF Types
  <2> QED
    BY <1>2, <1>4, <2>1, <2>2 DEF Types, flags, owner
<1>8. RunsOne'
  <2>1. \A u \in Threads : pc'[u] = pc[u] \/ (pc[u] \notin TaskPcs /\ pc'[u] \notin TaskPcs)
    BY <1>2, <1>5, <1>6 DEF Goes
  <2>2. \A g \in Tasks : \/ place'[g] = place[g]
                         \/ place[g] \notin {"running", "ready"} /\ place'[g] \notin {"running", "ready"}
    BY <1>3, <1>5
  <2> QED
    BY <1>2, <2>1, <2>2, RunsKept
<1>9. CollectedOnce'
  BY <1>2, <1>3, <1>5, CollectedKept DEF CollectedOnce, Goes
<1>10. ReportedOnce'
  <2>1. \A u \in Threads : \A g \in got'[u] \ {Pipe} : g \in due' /\ place'[g] = "event" /\ g \notin listed'
    BY <1>1, <1>2, <1>3, <1>5 DEF ReportedOnce, Types
  <2>2. \A g \in listed' \ {Pipe} : g \in due' /\ place'[g] = "event"
    BY <1>1, <1>2, <1>3, <1>5 DEF ReportedOnce, Types
  <2>3. \A u, w \in Threads : (got'[u] \cap got'[w]) \ {Pipe} # {} => u = w
    BY <1>5 DEF ReportedOnce
  <2>4. \A u \in Threads : got'[u] # {} => pc'[u] \in {"expire", "handle", "dec"}
    BY <1>5 DEF ReportedOnce, Goes
  <2> QED
    BY <2>1, <2>2, <2>3, <2>4 DEF ReportedOnce
<1>11. CountersExact'
  <2>1. m_activeThreadCount \in Nat /\ m_idleThreadcount \in Nat /\ m_pendingEventCount \in Nat
    BY CountersNat
  <2>2. pc'[t] = "dec" /\ \A u \in Threads \ {t} : pc'[u] = pc[u]
    BY <1>5 DEF Goes
  <2>3. /\ Cardinality(InPlace("event")) \in Nat
        /\ Cardinality(InPlace("event")') = Cardinality(InPlace("event"))
             + (IF place'[f] = "event" THEN 1 ELSE 0) - (IF place[f] = "event" THEN 1 ELSE 0)
    BY <1>3, <1>5, CountTasks
  <2>4. -1 \in Int /\ Cardinality(InPlace("event")') = Cardinality(InPlace("event")) + (-1)
    BY <1>3, <1>5, <2>3
  <2>5. /\ m_activeThreadCount' = m_activeThreadCount
             + One(pc'[t] \in {"run", "leave"}) - One(pc[t] \in {"run", "leave"})
        /\ m_idleThreadcount' = m_idleThreadcount + One(pc'[t] \in IdlePcs) - One(pc[t] \in IdlePcs)
        /\ m_pendingEventCount' = m_pendingEventCount + (-1) + One(pc'[t] = "dec") - One(pc[t] = "dec")
    BY <1>2, <1>6, <2>1, <2>2 DEF One, counters
  <2> QED
    BY <2>2, <2>3, <2>4, <2>5, CountersMove
<1> QED
  BY <1>4, <1>7, <1>8, <1>9, <1>10, <1>11

LEMMA IdleStep ==
  ASSUME LoopsInv, NEW t \in Threads, Idle(t)
  PROVE  LoopsInv'
<1> USE DEF LoopsInv
<1>0. /\ m_idleThreadcount \in Nat /\ m_pendingEventCount \in Nat
      /\ IdlePcs \subseteq RunPcs /\ "scan" \in RunPcs /\ "scan" \notin IdlePcs
      /\ IdlePcs \cap TaskPcs = {} /\ "scan" \notin TaskPcs
      /\ {"next", "pending", "base", "poll", "expire", "handle", "dec", "ended"} \subseteq IdlePcs
  BY CountersNat DEF RunPcs, TaskPcs, IdlePcs
<1> DEFINE Same == UNCHANGED <<m_fibers, flags, task, cbs, got, mustTickle, taskVars, listed, owner,
                               m_activeThreadCount>>
<1>1. ASSUME NEW p \in IdlePcs, pc' = [pc EXCEPT ![t] = p], pc[t] \in {"next", "pending", "base"}, p # "dec",
             UNCHANGED <<counters, idleTerm>>, Same, m_tickled' \in BOOLEAN
      PROVE  LoopsInv'
  <2>1. cbs[t] = {} /\ idleTerm' \in SUBSET Threads
    BY <1>1 DEF CollectedOnce, Types
  <2>2. /\ m_idleThreadcount' = m_idleThreadcount + One(p \in IdlePcs) - One(pc[t] \in IdlePcs)
        /\ m_pendingEventCount' = m_pendingEventCount + One(p = "dec") - One(pc[t] = "dec")
    BY <1>0, <1>1 DEF One, counters
  <2>3. p \in RunPcs /\ pc[t] \notin TaskPcs /\ p \notin TaskPcs
    BY <1>0, <1>1
  <2> QED
    BY <1>1, <2>1, <2>2, <2>3, GoesOn
<1>2. CASE GetNextTimer(t)
  <2> DEFINE p == IF InPlace("timer") # {} THEN "poll" ELSE "pending"
  <2>1. p \in IdlePcs /\ p # "dec"
    BY <1>0
  <2>2. /\ pc' = [pc EXCEPT ![t] = p] /\ pc[t] \in {"next", "pending", "base"}
        /\ UNCHANGED <<counters, idleTerm>> /\ Same /\ m_tickled' \in BOOLEAN
    BY <1>2 DEF GetNextTimer, At, Goto, loopVars, counters
  <2> HIDE DEF p, Same
  <2> QED
    BY <1>1, <2>1, <2>2
<1>3. CASE ReadPending(t)
  <2> DEFINE p == IF m_pendingEventCount = 0 THEN "base" ELSE "poll"
  <2>1. p \in IdlePcs /\ p # "dec"
    BY <1>0
  <2>2. /\ pc' = [pc EXCEPT ![t] = p] /\ pc[t] \in {"next", "pending", "base"}
        /\ UNCHANGED <<counters, idleTerm>> /\ Same /\ m_tickled' \in BOOLEAN
    BY <1>3 DEF ReadPending, At, Goto, loopVars, counters, Types
  <2> HIDE DEF p, Same
  <2> QED
    BY <1>1, <2>1, <2>2
<1>4. CASE BaseStopping(t)
  <2> DEFINE p == IF SchedulerStopping THEN "ended" ELSE "poll"
  <2>1. p \in IdlePcs /\ p # "dec"
    BY <1>0
  <2>2. /\ pc' = [pc EXCEPT ![t] = p] /\ pc[t] \in {"next", "pending", "base"}
        /\ UNCHANGED <<counters, idleTerm>> /\ Same /\ m_tickled' \in BOOLEAN
    BY <1>4 DEF BaseStopping, At, Goto, loopVars, counters, Types
  <2> HIDE DEF p, Same
  <2> QED
    BY <1>1, <2>1, <2>2
<1>5. CASE NothingExpired(t)
  <2>1. /\ pc[t] = "expire" /\ cbs[t] = {} /\ pc' = [pc EXCEPT ![t] = "handle"]
        /\ UNCHANGED <<m_fibers, counters, flags, m_tickled, loopVars, mustTickle, taskVars, listed, owner>>
    BY <1>5 DEF NothingExpired, At, Goto
  <2>2. /\ m_idleThreadcount' = m_idleThreadcount + One("handle" \in IdlePcs) - One(pc[t] \in IdlePcs)
        /\ m_pendingEventCount' = m_pendingEventCount + One("handle" = "dec") - One(pc[t] = "dec")
    BY <1>0, <2>1 DEF One, counters
  <2>3. /\ "handle" \in RunPcs /\ pc[t] \notin TaskPcs /\ "handle" \notin TaskPcs
        /\ idleTerm' \in SUBSET Threads /\ m_tickled' \in BOOLEAN /\ Same
    BY <1>0, <2>1 DEF Types, loopVars, counters
  <2> QED
    BY <2>1, <2>2, <2>3, GoesOn
<1>6. CASE DecrementPending(t)
  <2>1. /\ pc[t] = "dec" /\ pc' = [pc EXCEPT ![t] = "handle"] /\ m_pendingEventCount' = m_pendingEventCount - 1
        /\ UNCHANGED <<m_fibers, m_activeThreadCount, m_idleThreadcount, flags, m_tickled,
                       loopVars, mustTickle, taskVars, listed, owner>>
    BY <1>6 DEF DecrementPending, At, Goto
  <2>2. /\ m_idleThreadcount' = m_idleThreadcount + One("handle" \in IdlePcs) - One(pc[t] \in IdlePcs)
        /\ m_pendingEventCount' = m_pendingEventCount + One("handle" = "dec") - One(pc[t] = "dec")
    BY <1>0, <2>1 DEF One
  <2>3. /\ "handle" \in RunPcs /\ pc[t] \notin TaskPcs /\ "handle" \notin TaskPcs /\ cbs[t] = {}
        /\ idleTerm' \in SUBSET Threads /\ m_tickled' \in BOOLEAN /\ Same
    BY <1>0, <2>1 DEF Types, loopVars, CollectedOnce
  <2> QED
    BY <2>1, <2>2, <2>3, GoesOn
<1>7. CASE LeaveIdle(t)
  <2>1. /\ pc[t] \in {"handle", "ended"} /\ pc' = [pc EXCEPT ![t] = "scan"]
        /\ m_idleThreadcount' = m_idleThreadcount - 1 /\ idleTerm' \in {idleTerm, idleTerm \cup {t}}
        /\ pc[t] = "handle" => got[t] = {}
        /\ UNCHANGED <<m_fibers, m_activeThreadCount, m_pendingEventCount, flags, m_tickled,
                       task, cbs, got, mustTickle, taskVars, listed, owner>>
    BY <1>7 DEF LeaveIdle, At, Goto
  <2>2. /\ m_idleThreadcount' = m_idleThreadcount + One("scan" \in IdlePcs) - One(pc[t] \in IdlePcs)
        /\ m_pendingEventCount' = m_pendingEventCount + One("scan" = "dec") - One(pc[t] = "dec")
    BY <1>0, <2>1 DEF One
  <2>3. /\ "scan" \in RunPcs /\ pc[t] \notin TaskPcs /\ "scan" \notin TaskPcs /\ cbs[t] = {}
        /\ idleTerm' \in SUBSET Threads /\ m_tickled' \in BOOLEAN /\ Same
    BY <1>0, <2>1 DEF Types, CollectedOnce
  <2> QED
    BY <2>1, <2>2, <2>3, GoesOn
<1> QED
  BY <1>2, <1>3, <1>4, <1>5, <1>6, <1>7, EpollWaitStep, ListExpiredStep, ScheduleCbsStep, DrainStep,
     TriggerEventStep DEF Idle
-----------------------------------------------------------------------------
LEMMA NextLoopsInv ==
  ASSUME LoopsInv, [Next]_vars
  PROVE  LoopsInv'
<1> USE DEF LoopsInv
<1>1. ASSUME NEW t \in Threads, Run(t) PROVE LoopsInv'
  BY <1>1, RunStep
<1>2. ASSUME NEW t \in Threads, Body(t) PROVE LoopsInv'
  BY <1>2, BodyStep
<1>3. ASSUME NEW t \in Threads, Idle(t) PROVE LoopsInv'
  BY <1>3, IdleStep
<1>4. ASSUME NEW u \in Threads \cup {Client}, Tickle(u) PROVE LoopsInv'
  <2>1. /\ mustTickle' = mustTickle \ {u} /\ listed' \in {listed, listed \cup {Pipe}}
        /\ UNCHANGED <<m_fibers, counters, flags, m_tickled, pc, loopVars, taskVars, owner>>
    BY <1>4 DEF Tickle
  <2>2. /\ task' = task /\ cbs' = cbs /\ got' = got /\ place' = place /\ due' = due
        /\ m_fibers' = m_fibers /\ pc' = pc
    BY <2>1 DEF loopVars, taskVars
  <2>3. Types'
    BY <2>1 DEF Types, flags, loopVars, taskVars, owner
  <2>4. ReportedOnce'
    BY <2>1, <2>2 DEF ReportedOnce
  <2> QED
    BY <2>1, <2>2, <2>3, <2>4, NoneMoves
<1>5. ASSUME NEW f \in Tasks, Elapse(f) PROVE LoopsInv'
  <2>1. /\ place[f] = "timer" /\ due' = due \cup {f}
        /\ UNCHANGED <<m_fibers, counters, flags, m_tickled, pc, loopVars, mustTickle,
                       place, waits, listed, owner>>
    BY <1>5 DEF Elapse
  <2>2. Types'
    BY <2>1 DEF Types, flags, loopVars, owner
  <2>3. ReportedOnce'
    BY <2>1 DEF ReportedOnce, loopVars
  <2> QED
    BY <2>1, <2>2, <2>3, NoneMoves DEF loopVars
<1>6. ASSUME NEW f \in Tasks, EventReady(f) PROVE LoopsInv'
  <2>1. /\ place[f] = "event" /\ f \notin due /\ due' = due \cup {f} /\ listed' = listed \cup {f}
        /\ UNCHANGED <<m_fibers, counters, flags, m_tickled, pc, loopVars, mustTickle,
                       place, waits, owner>>
    BY <1>6 DEF EventReady
  <2>2. Types'
    BY <2>1 DEF Types, flags, loopVars, owner
  <2>3. \A u \in Threads : \A g \in got[u] \ {Pipe} : g # f
    BY <2>1 DEF ReportedOnce
  <2>4. ReportedOnce'
    BY <2>1, <2>3 DEF ReportedOnce, loopVars
  <2> QED
    BY <2>1, <2>2, <2>4, NoneMoves DEF loopVars
<1>7. CASE ClientSchedule
  <2>1. PICK f \in InPlace("new") : Schedule(Client, <<f>>) /\ Move(f, "queued")
    BY <1>7 DEF ClientSchedule
  <2>2. /\ f \in Tasks /\ place[f] = "new" /\ m_fibers' = m_fibers \o <<f>>
        /\ place' = [place EXCEPT ![f] = "queued"] /\ mustTickle' \in {mustTickle, mustTickle \cup {Client}}
    BY <2>1 DEF Schedule, Move, InPlace
  <2>3. mustTickle' \in SUBSET (Threads \cup {Client})
    BY <2>2 DEF Types
  <2> QED
    BY <1>7, <2>2, <2>3, NewTask DEF ClientSchedule
<1>8. CASE StopBegin \/ StopMark \/ StopTickle \/ StopJoin
  <2>1. /\ UNCHANGED <<m_fibers, counters, m_threads, m_tickled, pc, loopVars, taskVars, listed>>
        /\ m_stopping' \in {m_stopping, TRUE} /\ m_autoStop' \in {m_autoStop, TRUE}
        /\ mustTickle' \in {mustTickle, mustTickle \cup {Client}}
        /\ mpc' \in {"running", "mark", "tickle", "join", "stopped"}
    BY <1>8 DEF StopBegin, StopMark, StopTickle, StopJoin, flags, Types
  <2>2. tickles' \in Nat
    <3>1. Cardinality(m_threads) \in Nat
      BY LoopsAssumption, FS_Subset, FS_CardinalityType DEF Types
    <3> QED
      BY <1>8, <3>1 DEF StopBegin, StopMark, StopTickle, StopJoin, Types
  <2>3. Types'
    BY <2>1, <2>2 DEF Types, loopVars, taskVars
  <2>4. ReportedOnce'
    BY <2>1 DEF ReportedOnce, loopVars, taskVars
  <2> QED
    BY <2>1, <2>3, <2>4, NoneMoves DEF loopVars, taskVars
<1>9. CASE UNCHANGED vars
  <2>1. UNCHANGED <<m_fibers, counters, flags, m_tickled, pc, loopVars, mustTickle, taskVars, listed, owner>>
    BY <1>9 DEF vars
  <2>2. Types' /\ ReportedOnce'
    BY <2>1 DEF Types, ReportedOnce, flags, loopVars, taskVars, owner
  <2> QED
    BY <2>1, <2>2, NoneMoves DEF loopVars, taskVars
<1> QED
  BY <1>1, <1>2, <1>3, <1>4, <1>5, <1>6, <1>7, <1>8, <1>9 DEF Next, Loop, Stop, World, Stopped

(* What the run checks follows from the exact parts. *)
LEMMA OneMember ==
  ASSUME NEW S, \A x, y \in S : x = y, NEW b \in BOOLEAN, b <=> S # {}
  PROVE  Cardinality(S) = IF b THEN 1 ELSE 0
<1>1. CASE S = {}
  BY <1>1, FS_EmptySet
<1>2. CASE S # {}
  <2>1. PICK x : x \in S
    BY <1>2
  <2>2. S = {x}
    BY <2>1
  <2> QED
    BY <1>2, <2>2, FS_Singleton
<1> QED
  BY <1>1, <1>2

LEMMA LoopsInvConsistent ==
  ASSUME LoopsInv
  PROVE  Consistent
<1> USE DEF LoopsInv
<1>1. TypeOK
  <2>1. m_activeThreadCount \in Nat /\ m_idleThreadcount \in Nat /\ m_pendingEventCount \in Nat
    BY CountersNat
  <2>2. due \in SUBSET (InPlace("timer") \cup InPlace("event"))
    BY DEF Types, InPlace
  <2> QED
    BY <2>1, <2>2 DEF Types, TypeOK
<1>2. InOnePlace
  <2>1. ASSUME NEW f \in Tasks
        PROVE  /\ Cardinality({i \in DOMAIN m_fibers : m_fibers[i] = f})
                    = IF place[f] = "queued" THEN 1 ELSE 0
               /\ Cardinality({t \in Threads : task[t] = f})
                    = IF place[f] \in {"running", "ready"} THEN 1 ELSE 0
               /\ Cardinality({t \in Threads : f \in cbs[t]}) = IF place[f] = "cbs" THEN 1 ELSE 0
               /\ f \in listed \/ (\E t \in Threads : f \in got[t]) => place[f] = "event"
    <3> DEFINE Q == {i \in DOMAIN m_fibers : m_fibers[i] = f}
               R == {t \in Threads : task[t] = f}
               C == {t \in Threads : f \in cbs[t]}
    <3>1. (\A x, y \in Q : x = y) /\ ((place[f] = "queued") <=> Q # {})
      BY DEF QueueExact
    <3>2. (\A x, y \in R : x = y) /\ ((place[f] \in {"running", "ready"}) <=> R # {})
      <4>1. \A x, y \in R : x = y
        BY <2>1, LoopsAssumption DEF RunsOne
      <4>2. R # {} => place[f] \in {"running", "ready"}
        BY <2>1, TaskOf, LoopsAssumption
      <4> QED
        BY <2>1, <4>1, <4>2 DEF RunsOne
    <3>3. (\A x, y \in C : x = y) /\ ((place[f] = "cbs") <=> C # {})
      BY <2>1 DEF CollectedOnce
    <3>4. f \in listed \/ (\E t \in Threads : f \in got[t]) => place[f] = "event"
      BY <2>1, LoopsAssumption DEF ReportedOnce
    <3> HIDE DEF Q, R, C
    <3>5. Cardinality(Q) = IF place[f] = "queued" THEN 1 ELSE 0
      BY <3>1, OneMember
    <3>6. Cardinality(R) = IF place[f] \in {"running", "ready"} THEN 1 ELSE 0
      BY <3>2, OneMember
    <3>7. Cardinality(C) = IF place[f] = "cbs" THEN 1 ELSE 0
      BY <3>3, OneMember
    <3> QED
      BY <3>4, <3>5, <3>6, <3>7 DEF Q, R, C
  <2> QED
    BY <2>1 DEF InOnePlace
<1> QED
  BY <1>1, <1>2 DEF Consistent

(* The places of a task exclude each other and the counters are exact, for any number of
   loops and tasks: what is taken from the queue, collected from the timers or told by
   epoll_wait is handled by one loop, and tickle() and stopping() decide from true counts
   (Scheduler::run, IOManager::idle). *)
THEOREM LoopsCorrect == Spec => []Consistent
<1>1. Init => LoopsInv
  BY InitLoopsInv
<1>2. LoopsInv /\ [Next]_vars => LoopsInv'
  BY NextLoopsInv
<1>3. LoopsInv => Consistent
  BY LoopsInvConsistent
<1> QED
  BY <1>1, <1>2, <1>3, PTL DEF Spec
-----------------------------------------------------------------------------
(* What a loop that has ended knows. *)

(* A loop ends through its idle fiber, stop() marks before it joins. *)
Outs == {"scan", "run", "leave", "requeue", "notask", "done"}
LoopsEnd ==
  /\ \A t \in Threads : pc[t] = "off" <=> t \notin m_threads
  /\ \A t \in idleTerm : pc[t] \in Outs
  /\ \A t \in Threads : pc[t] = "done" => t \in idleTerm
  /\ m_stopping => mpc \in {"tickle", "join", "stopped"}
  /\ mpc = "stopped" => \A t \in m_threads : pc[t] = "done"

(* What the single loop has read on its way through stopping(timeout) stays true: nobody
   else adds timers, events or, after stop(), tasks. *)
SoloSees ==
  \A t \in Threads : m_threads = {t} =>
    /\ pc[t] \in {"pending", "base", "ended"} \/ t \in idleTerm => InPlace("timer") = {}
    /\ pc[t] \in {"base", "ended"} \/ t \in idleTerm => InPlace("event") = {}
    /\ pc[t] = "ended" \/ t \in idleTerm => m_fibers = <<>> /\ m_stopping
    /\ t \in idleTerm => pc[t] \in {"scan", "notask", "done"}

SoloInv == LoopsInv /\ LoopsEnd /\ SoloSees

LEMMA EndKept ==
  ASSUME Types, LoopsEnd, NEW t \in Threads, NEW p, Goes(t, p), pc[t] \notin {"off", "done"}, p # "off",
         UNCHANGED <<m_threads, m_stopping, mpc>>,
         idleTerm' \in {idleTerm, idleTerm \cup {t}}, t \in idleTerm' => p \in Outs,
         p = "done" => t \in idleTerm
  PROVE  LoopsEnd'
<1>1. t \in m_threads /\ \A u \in Threads \ {t} : pc'[u] = pc[u] /\ (u \in idleTerm' <=> u \in idleTerm)
  BY DEF LoopsEnd, Goes
<1>2. pc'[t] = p
  BY DEF Goes
<1>3. idleTerm \subseteq Threads /\ idleTerm' \subseteq Threads /\ idleTerm \subseteq idleTerm'
  BY DEF Types
<1>4. mpc # "stopped"
  BY <1>1 DEF LoopsEnd
<1> QED
  BY <1>1, <1>2, <1>3, <1>4 DEF LoopsEnd

(* The loop that acts is the single one, if there is one. *)
LEMMA SoloActs ==
  ASSUME Types, LoopsEnd, SoloSees, NEW t \in Threads, pc[t] \notin {"off", "done"}, m_threads' = m_threads,
         m_threads = {t} =>
           /\ pc'[t] \in {"pending", "base", "ended"} \/ t \in idleTerm' => InPlace("timer")' = {}
           /\ pc'[t] \in {"base", "ended"} \/ t \in idleTerm' => InPlace("event")' = {}
           /\ pc'[t] = "ended" \/ t \in idleTerm' => m_fibers' = <<>> /\ m_stopping'
           /\ t \in idleTerm' => pc'[t] \in {"scan", "notask", "done"}
  PROVE  SoloSees'
<1>1. t \in m_threads
  BY DEF LoopsEnd
<1> QED
  BY <1>1 DEF SoloSees

LEMMA RunEnds ==
  ASSUME SoloInv, NEW t \in Threads, Run(t)
  PROVE  LoopsEnd' /\ SoloSees'
<1> USE DEF SoloInv, LoopsInv
<1>1. CASE Take(t) \/ Leave(t) \/ Requeue(t)
  <2>1. /\ pc[t] \in {"scan", "leave", "requeue"} /\ (pc[t] = "scan" => m_fibers # <<>>)
        /\ \E p \in {"run", "scan", "requeue"} : pc' = [pc EXCEPT ![t] = p]
        /\ UNCHANGED <<flags, idleTerm, owner>>
    BY <1>1 DEF Take, Leave, Requeue, At, Goto, loopVars
  <2>2. PICK p \in {"run", "scan", "requeue"} : pc' = [pc EXCEPT ![t] = p]
    BY <2>1
  <2>3. Goes(t, p) /\ p \in Outs /\ pc'[t] = p
    BY <2>2 DEF Types, Goes, Outs
  <2>4. LoopsEnd'
    BY <2>1, <2>3, EndKept DEF flags, owner
  <2>5. m_threads = {t} => t \notin idleTerm'
    BY <2>1 DEF SoloSees
  <2>6. SoloSees'
    BY <2>1, <2>3, <2>5, SoloActs DEF flags
  <2> QED
    BY <2>4, <2>6
<1>2. CASE NoTask(t) \/ Exit(t) \/ EnterIdle(t)
  <2>1. /\ pc[t] \in {"scan", "notask"}
        /\ \E p \in {"notask", "next", "done"} :
             /\ pc' = [pc EXCEPT ![t] = p]
             /\ p = "done" => t \in idleTerm
             /\ p = "next" => t \notin idleTerm
        /\ UNCHANGED <<m_fibers, flags, idleTerm, owner, place>>
    BY <1>2 DEF NoTask, Exit, EnterIdle, At, Goto, loopVars, taskVars
  <2>2. PICK p \in {"notask", "next", "done"} :
             /\ pc' = [pc EXCEPT ![t] = p]
             /\ p = "done" => t \in idleTerm
             /\ p = "next" => t \notin idleTerm
    BY <2>1
  <2>3. Goes(t, p) /\ pc'[t] = p /\ (t \in idleTerm => p \in Outs)
    BY <2>2 DEF Types, Goes, Outs
  <2>4. LoopsEnd'
    BY <2>1, <2>2, <2>3, EndKept DEF flags, owner
  <2>5. \A q : InPlace(q)' = InPlace(q)
    BY <2>1 DEF InPlace
  <2>6. m_threads = {t} /\ t \in idleTerm' =>
          /\ InPlace("timer")' = {} /\ InPlace("event")' = {} /\ m_fibers' = <<>> /\ m_stopping'
          /\ pc'[t] \in {"scan", "notask", "done"}
    BY <2>1, <2>2, <2>3, <2>5 DEF SoloSees, flags
  <2>7. pc'[t] \notin {"pending", "base", "ended"}
    BY <2>3
  <2>8. SoloSees'
    BY <2>1, <2>6, <2>7, SoloActs DEF flags
  <2> QED
    BY <2>4, <2>8
<1> QED
  BY <1>1, <1>2 DEF Run

LEMMA BodyEnds ==
  ASSUME SoloInv, NEW t \in Threads, Body(t)
  PROVE  LoopsEnd' /\ SoloSees'
<1> USE DEF SoloInv, LoopsInv
<1>1. /\ pc[t] = "run" /\ UNCHANGED <<flags, idleTerm, owner>>
      /\ \E p \in {"run", "leave"} : pc' = [pc EXCEPT ![t] = p]
  <2>1. CASE Spawn(t)
    BY <2>1 DEF Spawn, At, loopVars, Types
  <2>2. CASE Sleep(t) \/ WaitEvent(t) \/ Yield(t) \/ Finish(t)
    BY <2>2 DEF Sleep, WaitEvent, Yield, Finish, MayWait, Wait, At, Goto, loopVars
  <2> QED
    BY <2>1, <2>2 DEF Body
<1>2. PICK p \in {"run", "leave"} : pc' = [pc EXCEPT ![t] = p]
  BY <1>1
<1>3. Goes(t, p) /\ p \in Outs /\ pc'[t] = p
  BY <1>2 DEF Types, Goes, Outs
<1>4. LoopsEnd'
  BY <1>1, <1>3, EndKept DEF flags, owner
<1>5. m_threads = {t} => t \notin idleTerm'
  BY <1>1 DEF SoloSees
<1>6. SoloSees'
  BY <1>1, <1>3, <1>5, SoloActs DEF flags
<1> QED
  BY <1>4, <1>6
LEMMA IdleEnds ==
  ASSUME SoloInv, NEW t \in Threads, Idle(t)
  PROVE  LoopsEnd' /\ SoloSees'
<1> USE DEF SoloInv, LoopsInv
<1>1. /\ pc[t] \in IdlePcs \ {"yield"} /\ UNCHANGED <<flags, owner>> /\ pc[t] \notin {"off", "done"}
      /\ t \notin idleTerm
  <2>1. pc[t] \in IdlePcs \ {"yield"} /\ UNCHANGED <<flags, owner>>
    BY DEF Idle, GetNextTimer, ReadPending, BaseStopping, EpollWait, ListExpired, ScheduleCbs, NothingExpired,
           Drain, TriggerEvent, DecrementPending, LeaveIdle, At, IdlePcs
  <2>2. pc[t] \notin Outs /\ pc[t] # "off"
    BY <2>1 DEF Outs, IdlePcs
  <2> QED
    BY <2>1, <2>2 DEF LoopsEnd, Outs
<1>2. CASE GetNextTimer(t) \/ ReadPending(t) \/ BaseStopping(t)
  <2>1. /\ \E p \in {"poll", "pending", "base", "ended"} :
             /\ pc' = [pc EXCEPT ![t] = p]
             /\ p = "pending" => InPlace("timer") = {}
             /\ p = "base" => pc[t] = "pending" /\ m_pendingEventCount = 0
             /\ p = "ended" => pc[t] = "base" /\ SchedulerStopping
        /\ UNCHANGED <<m_fibers, idleTerm, place>>
    BY <1>2 DEF GetNextTimer, ReadPending, BaseStopping, At, Goto, loopVars, taskVars
  <2>2. PICK p \in {"poll", "pending", "base", "ended"} :
             /\ pc' = [pc EXCEPT ![t] = p]
             /\ p = "pending" => InPlace("timer") = {}
             /\ p = "base" => pc[t] = "pending" /\ m_pendingEventCount = 0
             /\ p = "ended" => pc[t] = "base" /\ SchedulerStopping
    BY <2>1
  <2>3. Goes(t, p) /\ pc'[t] = p /\ p # "off" /\ p # "done"
    BY <2>2 DEF Types, Goes
  <2>4. LoopsEnd'
    BY <1>1, <2>1, <2>3, EndKept DEF flags, owner
  <2>5. InPlace("timer")' = InPlace("timer") /\ InPlace("event")' = InPlace("event")
    BY <2>1 DEF InPlace
  <2>6. p = "base" => InPlace("event") = {}
    <3>1. IsFiniteSet(InPlace("event"))
      BY LoopsAssumption, FS_Subset DEF InPlace
    <3>2. Cardinality({u \in Threads : pc[u] = "dec"}) \in Nat /\ Cardinality(InPlace("event")) \in Nat
      BY <3>1, LoopsAssumption, FS_Subset, FS_CardinalityType
    <3>3. p = "base" => Cardinality(InPlace("event")) = 0
      BY <2>2, <3>2 DEF CountersExact
    <3> QED
      BY <3>1, <3>3, FS_EmptySet
  <2>7. m_threads = {t} => /\ p \in {"pending", "base", "ended"} => InPlace("timer") = {}
                           /\ p \in {"base", "ended"} => InPlace("event") = {}
                           /\ p = "ended" => m_fibers = <<>> /\ m_stopping
    BY <2>2, <2>6 DEF SoloSees, SchedulerStopping
  <2>8. SoloSees'
    BY <1>1, <2>1, <2>3, <2>5, <2>7, SoloActs DEF flags
  <2> QED
    BY <2>4, <2>8
<1>3. CASE EpollWait(t) \/ ListExpired(t) \/ ScheduleCbs(t) \/ NothingExpired(t) \/ Drain(t)
           \/ TriggerEvent(t) \/ DecrementPending(t)
  <2>1. pc[t] \in {"poll", "expire", "handle", "dec"} /\ idleTerm' = idleTerm
    BY <1>3 DEF EpollWait, ListExpired, ScheduleCbs, NothingExpired, Drain, TriggerEvent,
                DecrementPending, At, loopVars
  <2>2. \E p \in {"expire", "handle", "dec"} : Goes(t, p)
    <3>1. \E p \in {"expire", "handle", "dec"} : pc' = [pc EXCEPT ![t] = p]
      BY <1>3, <2>1 DEF EpollWait, ListExpired, ScheduleCbs, NothingExpired, Drain, TriggerEvent,
                        DecrementPending, At, Goto, loopVars, Types
    <3> QED
      BY <3>1 DEF Types, Goes
  <2>3. PICK p \in {"expire", "handle", "dec"} : Goes(t, p)
    BY <2>2
  <2>4. pc'[t] = p
    BY <2>3 DEF Goes
  <2>5. LoopsEnd'
    BY <1>1, <2>1, <2>3, EndKept DEF flags, owner
  <2>6. SoloSees'
    BY <1>1, <2>1, <2>4, SoloActs DEF flags
  <2> QED
    BY <2>5, <2>6
<1>4. CASE LeaveIdle(t)
  <2>1. /\ Goes(t, "scan") /\ UNCHANGED <<m_fibers, place>> /\ idleTerm' \in {idleTerm, idleTerm \cup {t}}
        /\ t \in idleTerm' => pc[t] = "ended"
    BY <1>1, <1>4 DEF LeaveIdle, At, Goto, Goes, Types, taskVars
  <2>2. InPlace("timer")' = InPlace("timer") /\ InPlace("event")' = InPlace("event")
    BY <2>1 DEF InPlace
  <2>3. pc'[t] = "scan" /\ "scan" \in Outs
    BY <2>1 DEF Goes, Outs
  <2>4. LoopsEnd'
    BY <1>1, <2>1, <2>3, EndKept DEF flags, owner
  <2>5. SoloSees'
    <3>1. m_threads = {t} /\ t \in idleTerm' =>
            InPlace("timer") = {} /\ InPlace("event") = {} /\ m_fibers = <<>> /\ m_stopping
      BY <2>1 DEF SoloSees
    <3> QED
      BY <1>1, <2>1, <2>2, <2>3, <3>1, SoloActs DEF flags
  <2> QED
    BY <2>4, <2>5
<1> QED
  BY <1>2, <1>3, <1>4 DEF Idle

LEMMA NextSoloInv ==
  ASSUME SoloInv, [Next]_vars
  PROVE  SoloInv'
<1> USE DEF SoloInv
<1>1. LoopsInv'
  BY NextLoopsInv
<1>2. ASSUME NEW t \in Threads, Run(t) \/ Body(t) \/ Idle(t) PROVE LoopsEnd' /\ SoloSees'
  BY <1>2, RunEnds, BodyEnds, IdleEnds
<1>3. ASSUME UNCHANGED <<m_fibers, flags, pc, idleTerm, place, owner>> PROVE LoopsEnd' /\ SoloSees'
  <2>1. InPlace("timer")' = InPlace("timer") /\ InPlace("event")' = InPlace("event")
    BY <1>3 DEF InPlace
  <2>2. /\ m_fibers' = m_fibers /\ m_stopping' = m_stopping /\ m_threads' = m_threads /\ pc' = pc
        /\ idleTerm' = idleTerm /\ mpc' = mpc
    BY <1>3 DEF flags, owner
  <2> QED
    BY <2>1, <2>2 DEF LoopsEnd, SoloSees
<1>4. ASSUME NEW u \in Threads \cup {Client}, Tickle(u) PROVE LoopsEnd' /\ SoloSees'
  BY <1>3, <1>4 DEF Tickle, loopVars, taskVars
<1>5. ASSUME NEW f \in Tasks, World(f) PROVE LoopsEnd' /\ SoloSees'
  BY <1>3, <1>5 DEF World, Elapse, EventReady, loopVars
<1>6. ASSUME ClientSchedule PROVE LoopsEnd' /\ SoloSees'
  <2>1. PICK f \in InPlace("new") : Move(f, "queued")
    BY <1>6 DEF ClientSchedule
  <2>2. \A g \in Tasks : place'[g] = IF g = f THEN "queued" ELSE place[g]
    BY <2>1 DEF Move, LoopsInv, Types
  <2>3. InPlace("timer")' = InPlace("timer") /\ InPlace("event")' = InPlace("event")
    BY <2>1, <2>2 DEF InPlace
  <2>4. /\ mpc = "running" /\ m_stopping' = m_stopping /\ m_threads' = m_threads /\ pc' = pc
        /\ idleTerm' = idleTerm /\ mpc' = mpc
    BY <1>6 DEF ClientSchedule, flags, loopVars, owner
  <2>5. m_stopping = FALSE
    BY <2>4 DEF LoopsEnd, LoopsInv, Types
  <2> QED
    BY <2>3, <2>4, <2>5 DEF LoopsEnd, SoloSees
<1>7. ASSUME StopBegin \/ StopMark \/ StopTickle \/ StopJoin PROVE LoopsEnd' /\ SoloSees'
  <2>1. /\ UNCHANGED <<m_fibers, m_threads, pc, idleTerm, place>>
        /\ m_stopping => m_stopping'
        /\ m_stopping' => mpc' \in {"tickle", "join", "stopped"}
        /\ mpc' = "stopped" => \A t \in m_threads : pc[t] = "done"
    BY <1>7 DEF StopBegin, StopMark, StopTickle, StopJoin, flags, loopVars, taskVars, LoopsEnd, LoopsInv, Types
  <2>2. InPlace("timer")' = InPlace("timer") /\ InPlace("event")' = InPlace("event")
    BY <2>1 DEF InPlace
  <2>3. LoopsEnd'
    BY <2>1 DEF LoopsEnd
  <2>4. SoloSees'
    BY <2>1, <2>2 DEF SoloSees
  <2> QED
    BY <2>3, <2>4
<1>8. ASSUME UNCHANGED vars PROVE LoopsEnd' /\ SoloSees'
  BY <1>3, <1>8 DEF vars, loopVars, taskVars
<1> QED
  BY <1>1, <1>2, <1>4, <1>5, <1>6, <1>7, <1>8 DEF Next, Loop, Stop, Stopped

LEMMA SoloInvDrains ==
  ASSUME SoloInv
  PROVE  SoloDrains
<1> USE DEF SoloInv, LoopsInv
<1> SUFFICES ASSUME Cardinality(m_threads) = 1, mpc = "stopped", NEW f \in Tasks
             PROVE  place[f] \in {"new", "done"}
  BY DEF SoloDrains, StopDrains
<1>1. PICK t : m_threads = {t}
  <2>1. IsFiniteSet(m_threads)
    BY LoopsAssumption, FS_Subset DEF Types
  <2> QED
    BY <2>1, FS_Singleton
<1>2. t \in Threads /\ pc[t] = "done" /\ \A u \in Threads \ {t} : pc[u] = "off"
  BY <1>1 DEF LoopsEnd, Types
<1>3. place[f] \notin {"timer", "event"} /\ m_fibers = <<>>
  <2>1. t \in idleTerm
    BY <1>2 DEF LoopsEnd
  <2> QED
    BY <1>1, <1>2, <2>1 DEF SoloSees, InPlace
<1>4. place[f] # "queued"
  BY <1>3 DEF QueueExact
<1>5. place[f] \notin {"running", "ready"}
  <2>1. \A u \in Threads : task[u] # f
    BY <1>2, LoopsAssumption DEF RunsOne
  <2> QED
    BY <2>1 DEF RunsOne
<1>6. place[f] # "cbs"
  BY <1>2 DEF CollectedOnce
<1> QED
  BY <1>3, <1>4, <1>5, <1>6 DEF Types, Places

(* A stop() that returns leaves no task behind when one loop runs: the loop's three
   readings in stopping(timeout) are of one state, as nobody changes what it has read
   (IOManager::stopping, Scheduler::stop).  With two loops it is not so. *)
THEOREM SoloCorrect == Spec => []SoloDrains
<1>1. Init => SoloInv
  <2> SUFFICES ASSUME Init PROVE SoloInv
    OBVIOUS
  <2>1. LoopsInv
    BY InitLoopsInv
  <2>2. /\ \A t \in Threads : pc[t] = IF t \in m_threads THEN "scan" ELSE "off"
        /\ idleTerm = {} /\ m_stopping = FALSE /\ mpc = "running"
    BY DEF Init
  <2>3. LoopsEnd /\ SoloSees
    BY <2>2 DEF LoopsEnd, SoloSees
  <2> QED
    BY <2>1, <2>3 DEF SoloInv
<1>2. SoloInv /\ [Next]_vars => SoloInv'
  BY NextSoloInv
<1>3. SoloInv => SoloDrains
  BY SoloInvDrains
<1> QED
  BY <1>1, <1>2, <1>3, PTL DEF Spec
=============================================================================
