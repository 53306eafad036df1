--------------------------- MODULE FiberScheduler ---------------------------
(***************************************************************************)
(* The N:M coroutine scheduler of src/mumu/scheduler.{h,cc} and the part   *)
(* of src/mumu/fiber.cc it drives: a queue of fibers and callbacks shared  *)
(* by run-loop threads, the fiber state each thread writes around a        *)
(* context switch, and the start()/stop() protocol of the controlling      *)
(* thread, with or without that thread itself as a run loop (use_caller).  *)
(*                                                                         *)
(* One atomic step is one critical section of m_mutex, or one unprotected  *)
(* access to memory another thread reads.  The code a fiber runs is chosen *)
(* nondeterministically: it schedules more work, yields, or ends.          *)
(***************************************************************************)
EXTENDS Integers, Sequences, FiniteSets, SequencesExt

CONSTANTS
  Workers,       \* ids of the threads start() may create
  Caller,        \* id of the thread that built the scheduler
  Configs,       \* pairs <<m_threadCount, use_caller>>: how many threads one
                 \* start() creates, and whether the caller runs the loop too,
                 \* inside stop()
  ClientFibers,  \* fibers built by the client
  PoolFibers,    \* fibers the run loops may build to run a callback
  Callbacks,     \* std::function tasks of the client
  MaxYields,     \* bound: yields of one fiber before it must end
  Pinning,       \* whether schedule() may be given a thread id
  Parking,       \* whether fibers may YieldToHold and be woken
  EarlyWake,     \* whether a wake-up may come while a loop holds the fiber
  None, AnyThread      \* null pointer; thread id -1

Threads == Workers \cup {Caller}
Fibers == ClientFibers \cup PoolFibers
Work == ClientFibers \cup Callbacks     \* a client fiber names its own m_cb

ASSUME ConstantsAssumption ==
  /\ IsFiniteSet(Workers) /\ Caller \notin Workers
  /\ Configs \subseteq Nat \X BOOLEAN
  /\ {Pinning, Parking, EarlyWake} \subseteq BOOLEAN
  /\ IsFiniteSet(Fibers)
  /\ ClientFibers \cap PoolFibers = {} /\ Fibers \cap Callbacks = {}
  /\ MaxYields \in Nat
  /\ None \notin Fibers \cup Work
  /\ AnyThread \notin Workers \cup {Caller}

VARIABLES
  m_threadCount, use_caller,
  m_fibers,             \* the queue of FiberAndThread entries
  m_activeThreadCount, m_idleThreadcount,
  m_stopping, m_autoStop,
  m_threads,            \* threads of the current start()
  m_state, m_cb,        \* of each fiber
  yields,               \* of each fiber: yields so far (bounded by MaxYields)
  pc,                   \* of each thread: its place in Scheduler::run
  ft,                   \* of each thread: the entry it took
  cb_fiber,             \* of each thread: its fiber for callbacks
  idleTerm,             \* threads whose idle fiber is TERM
  armed,                \* parked or parking fibers with a wake-up to come
  mpc,                  \* the controlling thread's place in start()/stop()
  fresh,                \* work not given to schedule() yet
  finished              \* work whose function returned or threw

ctorVars  == <<m_threadCount, use_caller>>    \* set by the constructor
queueVars == <<m_activeThreadCount, m_idleThreadcount, m_stopping, m_autoStop,
               m_threads>>
fiberVars == <<m_state, m_cb, yields>>
loopVars  == <<pc, ft, cb_fiber, idleTerm>>
vars == <<ctorVars, m_fibers, queueVars, fiberVars, loopVars, armed, mpc, fresh,
          finished>>

\* Fiber::State; FREE is a fiber object that does not exist yet
States == {"FREE", "INIT", "HOLD", "EXEC", "TERM", "READY", "EXCEPT"}
Ended == {"TERM", "EXCEPT"}

Entry == [fiber: Fibers \cup {None}, cb: Work \cup {None},
          thread: Threads \cup {AnyThread}]
NoEntry == [fiber |-> None, cb |-> None, thread |-> AnyThread]
FiberEntryUnset(f, th) ==     \* mutant: a constructor that leaves out thread
  [fiber |-> f, cb |-> None, thread |-> None]
FiberEntry(f, th) == [fiber |-> f, cb |-> None, thread |-> th]
ItemEntry(w, th) == IF w \in ClientFibers
                    THEN FiberEntry(w, th)
                    ELSE [fiber |-> None, cb |-> w, thread |-> th]

\* places of Scheduler::run; a thread in one of the first five holds a task
ActivePcs == {"got", "body", "parking", "switching", "back"}
RunPcs == ActivePcs \cup {"off", "scan", "notask", "idle", "post", "done"}
ClientPcs == {"created", "running", "quick", "mark", "check", "call", "rooting",
              "join", "stopped"}

\* the fiber thread t is executing or has just executed
Running(t) == IF ft[t].fiber # None THEN ft[t].fiber ELSE cb_fiber[t]
\* the threads whose run loop holds fiber f
Holders(f) == {t \in Threads : pc[t] \in ActivePcs \cup {"post"} /\ Running(t) = f}

Init ==
  /\ \E c \in Configs : m_threadCount = c[1] /\ use_caller = c[2]
  /\ m_fibers = <<>>
  /\ m_activeThreadCount = 0 /\ m_idleThreadcount = 0
  /\ m_stopping = TRUE /\ m_autoStop = FALSE
  /\ m_threads = {}
  /\ m_state = [f \in Fibers |-> IF f \in ClientFibers THEN "INIT" ELSE "FREE"]
  /\ m_cb = [f \in Fibers |-> IF f \in ClientFibers THEN f ELSE None]
  /\ yields = [f \in Fibers |-> 0]
  /\ pc = [t \in Threads |-> "off"]
  /\ ft = [t \in Threads |-> NoEntry]
  /\ cb_fiber = [t \in Threads |-> None]
  /\ idleTerm = {} /\ armed = {}
  /\ mpc = "created"
  /\ fresh = Work /\ finished = {}

-----------------------------------------------------------------------------
StoppingNoQueue ==            \* mutant: the queue is not looked at
  m_autoStop /\ m_stopping /\ m_activeThreadCount = 0
(* Scheduler::stopping, evaluated under m_mutex. *)
Stopping == /\ m_autoStop /\ m_stopping
            /\ m_activeThreadCount = 0 /\ m_fibers = <<>>

(* Thread ids a caller of schedule() can name. *)
PinTargets ==
  {AnyThread} \cup (IF Pinning THEN m_threads ELSE {})
              \cup (IF Pinning /\ use_caller THEN {Caller} ELSE {})

(* schedule(fc, thread): the tickle it may send is Scheduler::tickle, a log
   line. *)
Schedule(w, th) ==
  /\ w \in fresh /\ th \in PinTargets
  /\ m_fibers' = Append(m_fibers, ItemEntry(w, th))
  /\ fresh' = fresh \ {w}

-----------------------------------------------------------------------------
(* The controlling thread. *)

ClientSchedule ==
  /\ mpc \in {"created", "running"}
  /\ \E w \in fresh, th \in PinTargets : Schedule(w, th)
  /\ UNCHANGED <<queueVars, fiberVars, loopVars, armed, mpc, finished>>

(* schedule(begin, end): one critical section for a batch (of two). *)
ClientScheduleBatch ==
  /\ mpc \in {"created", "running"}
  /\ \E v \in fresh : \E w \in fresh \ {v} :
       /\ m_fibers' = m_fibers \o <<ItemEntry(v, AnyThread), ItemEntry(w, AnyThread)>>
       /\ fresh' = fresh \ {v, w}
  /\ UNCHANGED <<queueVars, fiberVars, loopVars, armed, mpc, finished>>

(* schedule() of a fiber that has ended: it is queued all the same. *)
ClientScheduleEnded ==
  /\ mpc \in {"created", "running"}
  /\ \E f \in ClientFibers, th \in PinTargets :
       /\ m_state[f] \in Ended /\ Holders(f) = {}
       /\ \A i \in 1..Len(m_fibers) : m_fibers[i].fiber # f   \* bound: once
       /\ m_fibers' = Append(m_fibers, FiberEntry(f, th))
  /\ UNCHANGED <<queueVars, fiberVars, loopVars, armed, mpc, fresh, finished>>

(* start(): creates m_threadCount threads with ids never used before. *)
Start ==
  /\ mpc \in {"created", "stopped"} /\ m_stopping
  /\ \E new \in SUBSET {w \in Workers : pc[w] = "off"} :
       /\ Cardinality(new) = m_threadCount
       /\ m_threads' = new
       /\ pc' = [t \in Threads |-> IF t \in new THEN "scan" ELSE pc[t]]
  /\ m_stopping' = FALSE
  /\ mpc' = "running"
  /\ UNCHANGED <<m_fibers, m_activeThreadCount, m_idleThreadcount, m_autoStop,
                 fiberVars, ft, cb_fiber, idleTerm, armed, fresh, finished>>

StopBegin ==
  /\ mpc = "running"
  /\ m_autoStop' = TRUE
  /\ IF use_caller /\ m_threadCount = 0   \* the root fiber is INIT or TERM here
     THEN m_stopping' = TRUE /\ mpc' = "quick"
     ELSE UNCHANGED m_stopping /\ mpc' = "mark"
  /\ UNCHANGED <<m_fibers, m_activeThreadCount, m_idleThreadcount, m_threads,
                 fiberVars, loopVars, armed, fresh, finished>>

StopQuick ==
  /\ mpc = "quick"
  /\ mpc' = IF Stopping THEN "stopped" ELSE "mark"
  /\ UNCHANGED <<m_fibers, queueVars, fiberVars, loopVars, armed, fresh, finished>>

StopMark ==
  /\ mpc = "mark"
  /\ m_stopping' = TRUE
  /\ mpc' = IF use_caller THEN "check" ELSE "join"
  /\ UNCHANGED <<m_fibers, m_activeThreadCount, m_idleThreadcount, m_autoStop,
                 m_threads, fiberVars, loopVars, armed, fresh, finished>>

StopCheck ==
  /\ mpc = "check"
  /\ mpc' = IF Stopping THEN "join" ELSE "call"
  /\ UNCHANGED <<m_fibers, queueVars, fiberVars, loopVars, armed, fresh, finished>>

(* m_rootFiber->call(): a root fiber that is TERM resumes behind its back()
   and hits the "never reach" assertion, which ends the process (NeverReach). *)
StopCall ==
  /\ mpc = "call" /\ pc[Caller] = "off"
  /\ pc' = [pc EXCEPT ![Caller] = "scan"]
  /\ mpc' = "rooting"
  /\ UNCHANGED <<m_fibers, queueVars, fiberVars, ft, cb_fiber, idleTerm, armed,
                 fresh, finished>>

StopRooted ==
  /\ mpc = "rooting" /\ pc[Caller] = "done"
  /\ mpc' = "join"
  /\ UNCHANGED <<m_fibers, queueVars, fiberVars, loopVars, armed, fresh, finished>>

StopJoinNoWait ==             \* mutant: the threads are not joined
  /\ mpc = "join" /\ m_threads' = {} /\ mpc' = "stopped"
  /\ UNCHANGED <<m_fibers, m_activeThreadCount, m_idleThreadcount, m_stopping,
                 m_autoStop, fiberVars, loopVars, armed, fresh, finished>>
StopJoin ==
  /\ mpc = "join" /\ \A w \in m_threads : pc[w] = "done"
  /\ m_threads' = {}
  /\ mpc' = "stopped"
  /\ UNCHANGED <<m_fibers, m_activeThreadCount, m_idleThreadcount, m_stopping,
                 m_autoStop, fiberVars, loopVars, armed, fresh, finished>>

-----------------------------------------------------------------------------
(* Scheduler::run, thread t. *)

Goto(t, p) == pc' = [pc EXCEPT ![t] = p]

(* The scan passes over entries pinned to other threads and fibers in EXEC. *)
Eligible(t, e) ==
  /\ e.thread \in {AnyThread, t}
  /\ e.fiber # None => m_state[e.fiber] # "EXEC"

ScanTake(t) ==
  /\ pc[t] = "scan"
  /\ \E i \in 1..Len(m_fibers) :
       /\ Eligible(t, m_fibers[i])
       /\ \A j \in 1..(i - 1) : ~Eligible(t, m_fibers[j])
       /\ ft' = [ft EXCEPT ![t] = m_fibers[i]]
       /\ m_fibers' = RemoveAt(m_fibers, i)
  /\ m_activeThreadCount' = m_activeThreadCount + 1
  /\ Goto(t, "got")
  /\ UNCHANGED <<m_idleThreadcount, m_stopping, m_autoStop, m_threads, fiberVars,
                 cb_fiber, idleTerm, armed, mpc, fresh, finished>>

ScanNothing(t) ==
  /\ pc[t] = "scan"
  /\ \A i \in 1..Len(m_fibers) : ~Eligible(t, m_fibers[i])
  /\ Goto(t, "notask")
  /\ UNCHANGED <<m_fibers, queueVars, fiberVars, ft, cb_fiber, idleTerm, armed,
                 mpc, fresh, finished>>

(* ft.fiber->swapIn(), whose assertion stops the process on EXEC. *)
ResumeFiber(t) ==
  /\ pc[t] = "got" /\ ft[t].fiber # None
  /\ m_state[ft[t].fiber] \notin Ended \cup {"EXEC"}
  /\ m_state' = [m_state EXCEPT ![ft[t].fiber] = "EXEC"]
  /\ Goto(t, "body")
  /\ UNCHANGED <<m_fibers, queueVars, m_cb, yields, ft, cb_fiber, idleTerm, armed,
                 mpc, fresh, finished>>

(* The callback branch: reset the thread's callback fiber or build one. *)
RunCallback(t) ==
  /\ pc[t] = "got" /\ ft[t].cb # None
  /\ \E f \in IF cb_fiber[t] # None THEN {cb_fiber[t]}
              ELSE {g \in PoolFibers : m_state[g] = "FREE"} :
       /\ cb_fiber' = [cb_fiber EXCEPT ![t] = f]
       /\ m_cb' = [m_cb EXCEPT ![f] = ft[t].cb]
       /\ m_state' = [m_state EXCEPT ![f] = "EXEC"]
       /\ yields' = [yields EXCEPT ![f] = 0]
  /\ ft' = [ft EXCEPT ![t] = NoEntry]
  /\ Goto(t, "body")
  /\ UNCHANGED <<m_fibers, queueVars, idleTerm, armed, mpc, fresh, finished>>

DropLeaky(t) ==               \* mutant: a dropped task stays counted
  /\ pc[t] = "got" /\ ft[t].fiber # None /\ m_state[ft[t].fiber] \in Ended
  /\ ft' = [ft EXCEPT ![t] = NoEntry]
  /\ Goto(t, "scan")
  /\ UNCHANGED <<m_fibers, queueVars, fiberVars, cb_fiber, idleTerm, armed, mpc,
                 fresh, finished>>
(* A fiber that had ended before it was taken. *)
DropEnded(t) ==
  /\ pc[t] = "got" /\ ft[t].fiber # None
  /\ m_state[ft[t].fiber] \in Ended
  /\ m_activeThreadCount' = m_activeThreadCount - 1
  /\ ft' = [ft EXCEPT ![t] = NoEntry]
  /\ Goto(t, "scan")
  /\ UNCHANGED <<m_fibers, m_idleThreadcount, m_stopping, m_autoStop, m_threads,
                 fiberVars, cb_fiber, idleTerm, armed, mpc, fresh, finished>>

LeaveLeaky(t) ==              \* mutant: the counter is not taken down
  /\ pc[t] = "back" /\ Goto(t, "post")
  /\ UNCHANGED <<m_fibers, queueVars, fiberVars, ft, cb_fiber, idleTerm, armed,
                 mpc, fresh, finished>>
(* --m_activeThreadCount, behind the return from swapIn. *)
Leave(t) ==
  /\ pc[t] = "back"
  /\ m_activeThreadCount' = m_activeThreadCount - 1
  /\ Goto(t, "post")
  /\ UNCHANGED <<m_fibers, m_idleThreadcount, m_stopping, m_autoStop, m_threads,
                 fiberVars, ft, cb_fiber, idleTerm, armed, mpc, fresh, finished>>

RequeueForgets(t) ==          \* mutant: READY is treated like HOLD
  /\ pc[t] = "post" /\ m_state[Running(t)] = "READY"
  /\ ft' = [ft EXCEPT ![t] = NoEntry]
  /\ cb_fiber' = IF ft[t].fiber = None THEN [cb_fiber EXCEPT ![t] = None]
                 ELSE cb_fiber
  /\ Goto(t, "scan")
  /\ UNCHANGED <<m_fibers, queueVars, fiberVars, idleTerm, armed, mpc, fresh,
                 finished>>
RequeueKeeps(t) ==            \* mutant: cb_fiber.reset() is missing
  /\ pc[t] = "post" /\ m_state[Running(t)] = "READY"
  /\ m_fibers' = Append(m_fibers, FiberEntry(Running(t), AnyThread))
  /\ ft' = [ft EXCEPT ![t] = NoEntry]
  /\ Goto(t, "scan")
  /\ UNCHANGED <<queueVars, fiberVars, cb_fiber, idleTerm, armed, mpc, fresh,
                 finished>>
(* What the loop does with a fiber that came back, by the state it reads. *)
Requeue(t) ==
  /\ pc[t] = "post" /\ m_state[Running(t)] = "READY"
  /\ m_fibers' = Append(m_fibers, FiberEntry(Running(t), AnyThread))
  /\ cb_fiber' = IF ft[t].fiber = None THEN [cb_fiber EXCEPT ![t] = None]
                 ELSE cb_fiber
  /\ ft' = [ft EXCEPT ![t] = NoEntry]
  /\ Goto(t, "scan")
  /\ UNCHANGED <<queueVars, fiberVars, idleTerm, armed, mpc, fresh, finished>>

Release(t) ==
  /\ pc[t] = "post" /\ m_state[Running(t)] \in Ended
  /\ IF ft[t].fiber = None   \* cb_fiber->reset(nullptr)
     THEN /\ m_state' = [m_state EXCEPT ![cb_fiber[t]] = "INIT"]
          /\ m_cb' = [m_cb EXCEPT ![cb_fiber[t]] = None]
     ELSE UNCHANGED <<m_state, m_cb>>
  /\ ft' = [ft EXCEPT ![t] = NoEntry]
  /\ Goto(t, "scan")
  /\ UNCHANGED <<m_fibers, queueVars, yields, cb_fiber, idleTerm, armed, mpc,
                 fresh, finished>>

Park(t) ==
  /\ pc[t] = "post" /\ m_state[Running(t)] \notin Ended \cup {"READY"}
  /\ m_state' = [m_state EXCEPT ![Running(t)] = "HOLD"]
  /\ cb_fiber' = IF ft[t].fiber = None THEN [cb_fiber EXCEPT ![t] = None]
                 ELSE cb_fiber
  /\ ft' = [ft EXCEPT ![t] = NoEntry]
  /\ Goto(t, "scan")
  /\ UNCHANGED <<m_fibers, queueVars, m_cb, yields, idleTerm, armed, mpc, fresh,
                 finished>>

EnterIdle(t) ==
  /\ pc[t] = "notask" /\ t \notin idleTerm
  /\ m_idleThreadcount' = m_idleThreadcount + 1
  /\ Goto(t, "idle")
  /\ UNCHANGED <<m_fibers, m_activeThreadCount, m_stopping, m_autoStop, m_threads,
                 fiberVars, ft, cb_fiber, idleTerm, armed, mpc, fresh, finished>>

(* Scheduler::idle: one test of stopping() per visit; the idle fiber ends when
   it is true and yields otherwise. *)
Idle(t) ==
  /\ pc[t] = "idle"
  /\ idleTerm' = IF Stopping THEN idleTerm \cup {t} ELSE idleTerm
  /\ m_idleThreadcount' = m_idleThreadcount - 1
  /\ Goto(t, "scan")
  /\ UNCHANGED <<m_fibers, m_activeThreadCount, m_stopping, m_autoStop, m_threads,
                 fiberVars, ft, cb_fiber, armed, mpc, fresh, finished>>

Exit(t) ==
  /\ pc[t] = "notask" /\ t \in idleTerm
  /\ Goto(t, "done")
  /\ UNCHANGED <<m_fibers, queueVars, fiberVars, ft, cb_fiber, idleTerm, armed,
                 mpc, fresh, finished>>

-----------------------------------------------------------------------------
(* The code of the fiber that thread t executes. *)

BodySchedule(t) ==
  /\ pc[t] = "body"
  /\ \E w \in fresh, th \in PinTargets : Schedule(w, th)
  /\ UNCHANGED <<queueVars, fiberVars, loopVars, armed, mpc, finished>>

(* YieldToReady: the state is written before the context is saved. *)
YieldToReady(t) ==
  LET f == Running(t) IN
  /\ pc[t] = "body" /\ m_state[f] = "EXEC" /\ yields[f] < MaxYields
  /\ m_state' = [m_state EXCEPT ![f] = "READY"]
  /\ yields' = [yields EXCEPT ![f] = @ + 1]
  /\ Goto(t, "switching")
  /\ UNCHANGED <<m_fibers, queueVars, m_cb, ft, cb_fiber, idleTerm, armed, mpc,
                 fresh, finished>>

(* The fiber hands itself to whoever will wake it (a timer, an event). *)
ArmWake(t) ==
  LET f == Running(t) IN
  /\ Parking /\ pc[t] = "body" /\ yields[f] < MaxYields /\ f \notin armed
  /\ armed' = armed \cup {f}
  /\ yields' = [yields EXCEPT ![f] = @ + 1]
  /\ Goto(t, "parking")
  /\ UNCHANGED <<m_fibers, queueVars, m_state, m_cb, ft, cb_fiber, idleTerm, mpc,
                 fresh, finished>>

YieldToHold(t) ==
  /\ pc[t] = "parking" /\ m_state[Running(t)] = "EXEC"
  /\ m_state' = [m_state EXCEPT ![Running(t)] = "HOLD"]
  /\ Goto(t, "switching")
  /\ UNCHANGED <<m_fibers, queueVars, m_cb, yields, ft, cb_fiber, idleTerm, armed,
                 mpc, fresh, finished>>

(* MainFunc: the function returns (and m_cb is cleared) or throws. *)
Finish(t) ==
  LET f == Running(t) IN
  /\ pc[t] = "body"
  /\ finished' = finished \cup ({m_cb[f]} \ {None})
  /\ \/ /\ m_state' = [m_state EXCEPT ![f] = "TERM"]
        /\ m_cb' = [m_cb EXCEPT ![f] = None]
     \/ /\ m_state' = [m_state EXCEPT ![f] = "EXCEPT"]
        /\ UNCHANGED m_cb
  /\ Goto(t, "switching")
  /\ UNCHANGED <<m_fibers, queueVars, yields, ft, cb_fiber, idleTerm, armed, mpc,
                 fresh>>

(* swapOut's swapcontext: from here on the fiber's stack is not in use. *)
SwitchOut(t) ==
  /\ pc[t] = "switching"
  /\ Goto(t, "back")
  /\ UNCHANGED <<m_fibers, queueVars, fiberVars, ft, cb_fiber, idleTerm, armed,
                 mpc, fresh, finished>>

(* Whoever the fiber armed calls schedule(fiber). *)
Wake(f) ==
  /\ f \in armed
  /\ EarlyWake \/ Holders(f) = {}
  /\ m_fibers' = Append(m_fibers, FiberEntry(f, AnyThread))
  /\ armed' = armed \ {f}
  /\ UNCHANGED <<queueVars, fiberVars, loopVars, mpc, fresh, finished>>

-----------------------------------------------------------------------------
Client ==
  \/ ClientSchedule \/ ClientScheduleBatch \/ ClientScheduleEnded
  \/ Start \/ StopBegin
Stop ==
  \/ StopQuick \/ StopMark \/ StopCheck \/ StopCall \/ StopRooted \/ StopJoin
RunLoop(t) ==
  \/ ScanTake(t) \/ ScanNothing(t) \/ ResumeFiber(t) \/ RunCallback(t)
  \/ DropEnded(t) \/ Leave(t) \/ Requeue(t) \/ Release(t) \/ Park(t)
  \/ EnterIdle(t) \/ Idle(t) \/ Exit(t)
Body(t) ==
  \/ BodySchedule(t) \/ YieldToReady(t) \/ ArmWake(t) \/ YieldToHold(t)
  \/ Finish(t) \/ SwitchOut(t)
NeverReach == mpc = "call" /\ pc[Caller] = "done"
Terminated == (mpc = "stopped" \/ NeverReach) /\ UNCHANGED vars

Next ==
  \/ /\ \/ Client \/ Stop
        \/ \E t \in Threads : RunLoop(t) \/ Body(t)
        \/ \E f \in Fibers : Wake(f)
     /\ UNCHANGED ctorVars
  \/ Terminated

Spec == Init /\ [][Next]_vars

(* Every thread runs and m_mutex is granted in the end; wake-ups come; a
   stop() that was called goes on.  The client need not call stop(). *)
Fairness ==
  /\ WF_vars(Stop /\ UNCHANGED ctorVars)
  /\ \A t \in Threads : WF_vars((RunLoop(t) \/ Body(t)) /\ UNCHANGED ctorVars)
  /\ \A f \in Fibers : WF_vars(Wake(f) /\ UNCHANGED ctorVars)

FairSpec == Spec /\ Fairness
-----------------------------------------------------------------------------
(* Properties. *)

(* Every variable has its type. *)
TypeOK ==
  /\ m_threadCount \in Nat /\ use_caller \in BOOLEAN
  /\ m_fibers \in Seq(Entry)
  /\ m_activeThreadCount \in Int /\ m_idleThreadcount \in Int
  /\ m_stopping \in BOOLEAN /\ m_autoStop \in BOOLEAN
  /\ m_threads \in SUBSET Workers
  /\ m_state \in [Fibers -> States]
  /\ m_cb \in [Fibers -> Work \cup {None}]
  /\ yields \in [Fibers -> Nat]
  /\ pc \in [Threads -> RunPcs]
  /\ ft \in [Threads -> Entry]
  /\ cb_fiber \in [Threads -> Fibers \cup {None}]
  /\ idleTerm \in SUBSET Threads
  /\ armed \in SUBSET Fibers
  /\ mpc \in ClientPcs
  /\ fresh \in SUBSET Work /\ finished \in SUBSET Work

(* The two atomic counters say exactly how many run loops hold a task and how
   many are in their idle fiber: ++ and -- pair up on every path through
   Scheduler::run, the dropped and the callback ones included.  stopping()
   and tickle() decide from these numbers. *)
CountersExact ==
  /\ m_activeThreadCount = Cardinality({t \in Threads : pc[t] \in ActivePcs})
  /\ m_idleThreadcount = Cardinality({t \in Threads : pc[t] = "idle"})

(* Positions of the queue that refer to fiber f. *)
Queued(f) == {i \in 1..Len(m_fibers) : m_fibers[i].fiber = f}
(* Threads that hold f: as the entry they took or as their callback fiber. *)
Owners(f) == {t \in Threads : ft[t].fiber = f \/ cb_fiber[t] = f}

(* A fiber is in one place: in the queue once, held by one run loop, or waiting
   for one wake-up.  Two places would let two threads run it on one stack. *)
InOnePlace ==
  \A f \in Fibers :
    /\ \A i, j \in Queued(f) : i = j
    /\ \A t, u \in Owners(f) : t = u
    /\ Queued(f) # {} => Owners(f) = {} /\ f \notin armed
    /\ f \in armed => \A t \in Owners(f) : pc[t] \in {"parking", "switching", "back", "post"}

(* No two threads are on the stack of one fiber: between swapIn and the
   swapcontext of swapOut a fiber belongs to one thread. *)
OnStack(f) == {t \in Threads : pc[t] \in {"body", "parking", "switching"} /\ Running(t) = f}
OneStackUser == \A f \in Fibers, t, u \in Threads :
                  t \in OnStack(f) /\ u \in OnStack(f) => t = u

(* The assertions of YieldToHold and YieldToReady (the running fiber is EXEC)
   and of swapIn (the fiber taken from the queue is not). *)
StateAssertions ==
  \A t \in Threads :
    /\ pc[t] \in {"body", "parking"} => m_state[Running(t)] = "EXEC"
    /\ pc[t] = "got" /\ ft[t].fiber # None => m_state[ft[t].fiber] # "EXEC"

(* One loop owns a fiber, and the state of the fiber says so: what the assertions
   of swapIn and YieldTo* test holds because nobody else has the fiber. *)
OneOwner == InOnePlace /\ StateAssertions

(* Work given to schedule() and not done is somewhere: in the queue, with a run
   loop, or in a fiber that is queued, held or waits for its wake-up. *)
Placed(f) == Queued(f) # {} \/ Owners(f) # {} \/ f \in armed
Kept ==
  \A w \in Work \ (fresh \cup finished) :
    \/ \E i \in 1..Len(m_fibers) : m_fibers[i].cb = w
    \/ \E t \in Threads : ft[t].cb = w
    \/ \E f \in Fibers : m_cb[f] = w /\ Placed(f)

(* A piece of work runs to its end at most once. *)
Finishes ==
  \A t \in Threads, w \in Work :
    pc[t] = "body" /\ pc'[t] = "switching" /\ m_state'[Running(t)] \in Ended /\ m_cb[Running(t)] = w
      => w \notin finished

(* Work given to schedule() is neither lost nor done twice. *)
NothingLost == [][Kept' /\ Finishes]_vars

(* When stop() returns, the queue is drained, no loop holds a task and all the
   work that was scheduled is done, however the last requeue raced with the
   other loops' test of stopping(). *)
StopDrains ==
  mpc = "stopped" =>
    /\ m_fibers = <<>> /\ m_activeThreadCount = 0
    /\ Work \ fresh \subseteq finished

(* Scheduled work is done in the end by the threads start() made, unless the
   scheduler is being stopped. *)
WorkFinishes ==
  \A w \in Work : (mpc = "running" /\ m_threadCount > 0 /\ w \notin fresh)
                     ~> (w \in finished \/ mpc # "running")

(* stop() returns: every loop sees stopping() in the end.  A scheduler with
   use_caller can be stopped once: the second stop() calls its ended root fiber,
   which ends the process. *)
Stops == {"quick", "mark", "check", "call", "rooting", "join"}
StopReturns == (mpc \in Stops) ~> (mpc = "stopped" \/ NeverReach)
=============================================================================
