----------------------------- MODULE IOManager ------------------------------
(***************************************************************************)
(* IOManager as Scheduler, TimerManager and epoll together: run loops that *)
(* sleep in epoll_wait when they have no task, the pipe that wakes them    *)
(* (tickle), the timers and events that bring fibers back to the queue,    *)
(* and the decision of each loop, read from timers, counters and queue one *)
(* after the other, that the manager can stop.                             *)
(*                                                                         *)
(* FiberScheduler has the states of a fiber and the caller's own loop,     *)
(* TimerManager and IOEvents the inside of their locks; here a task is in  *)
(* one place, wake-ups come after the fiber has switched out, and no task  *)
(* is pinned to a thread.                                                  *)
(***************************************************************************)
EXTENDS Integers, Sequences, FiniteSets

CONSTANTS
  Threads,      \* threads the constructor can start run loops on
  Tasks,        \* fibers and callbacks
  MaxWaits,     \* bound, of each task: its sleeps, event waits and yields
  Client,       \* the thread that owns the manager and stops it
  None, Pipe    \* no task; the read end of m_tickleFds

ASSUME LoopsAssumption == /\ IsFiniteSet(Threads) /\ IsFiniteSet(Tasks)
                          /\ MaxWaits \in [Tasks -> Nat]
                          /\ Client \notin Threads
                          /\ None \notin Tasks /\ Pipe \notin Tasks

VARIABLES
  m_threads,                 \* the run loops that were started
  m_fibers,                  \* the queue
  m_activeThreadCount, m_idleThreadcount, m_pendingEventCount,
  m_stopping, m_autoStop, m_tickled,
  pc, task,                  \* of each loop: its place, the task it runs
  cbs, got,                  \* of each loop in idle(): timers to schedule,
                             \* reports of epoll_wait to handle
  idleTerm,                  \* loops whose idle fiber has ended
  mustTickle,                \* threads about to call tickle()
  place,                     \* of each task
  waits,                     \* of each task: waits so far
  due,                       \* tasks whose timer has expired, or whose event has
                             \* come and is not dispatched: epoll tells it once
  listed,                    \* epoll's ready list: waiting tasks and the pipe
  mpc, tickles               \* the owner in stop(): its place, tickles to go

counters == <<m_activeThreadCount, m_idleThreadcount, m_pendingEventCount>>
flags == <<m_stopping, m_autoStop, m_threads>>
loopVars == <<task, cbs, got, idleTerm>>
taskVars == <<place, waits, due>>
owner == <<mpc, tickles>>
vars == <<m_fibers, counters, flags, m_tickled, pc, loopVars, mustTickle,
          taskVars, listed, owner>>

Places == {"new", "queued", "running", "timer", "cbs", "event", "ready", "done"}
IdlePcs == {"next", "pending", "base", "poll", "expire", "handle", "dec", "yield",
            "ended"}
RunPcs == IdlePcs \cup {"scan", "run", "leave", "requeue", "notask", "done", "off"}

Init ==
  /\ m_threads \in SUBSET Threads \ {{}}
  /\ m_fibers = <<>>
  /\ m_activeThreadCount = 0 /\ m_idleThreadcount = 0 /\ m_pendingEventCount = 0
  /\ m_stopping = FALSE /\ m_autoStop = FALSE /\ m_tickled = FALSE
  /\ pc = [t \in Threads |-> IF t \in m_threads THEN "scan" ELSE "off"]
  /\ task = [t \in Threads |-> None]
  /\ cbs = [t \in Threads |-> {}]
  /\ got = [t \in Threads |-> {}]
  /\ idleTerm = {} /\ mustTickle = {}
  /\ place = [f \in Tasks |-> "new"]
  /\ waits = [f \in Tasks |-> 0]
  /\ due = {} /\ listed = {}
  /\ mpc = "running" /\ tickles = 0

At(t, p) == pc[t] = p /\ t \notin mustTickle
Goto(t, p) == pc' = [pc EXCEPT ![t] = p]
InPlace(p) == {f \in Tasks : place[f] = p}
Expired == due \cap InPlace("timer")

(* schedule() by thread u: the caller tickles when the queue was empty. *)
Schedule(u, seq) ==
  /\ m_fibers' = m_fibers \o seq
  /\ mustTickle' = IF m_fibers = <<>> /\ seq # <<>> THEN mustTickle \cup {u} ELSE mustTickle
Move(f, p) == place' = [place EXCEPT ![f] = p]

(* IOManager::tickle, by thread u: nothing without idle threads. *)
Tickle(u) ==
  /\ u \in mustTickle
  /\ mustTickle' = mustTickle \ {u}
  /\ listed' = IF m_idleThreadcount > 0 THEN listed \cup {Pipe} ELSE listed
  /\ UNCHANGED <<m_fibers, counters, flags, m_tickled, pc, loopVars, taskVars, owner>>

-----------------------------------------------------------------------------
(* Scheduler::run. *)

Take(t) ==
  /\ At(t, "scan") /\ m_fibers # <<>>
  /\ task' = [task EXCEPT ![t] = Head(m_fibers)]
  /\ m_fibers' = Tail(m_fibers)
  /\ m_activeThreadCount' = m_activeThreadCount + 1
  /\ Move(Head(m_fibers), "running")
  /\ Goto(t, "run")
  /\ UNCHANGED <<m_idleThreadcount, m_pendingEventCount, flags, m_tickled, cbs, got,
                 idleTerm, mustTickle, waits, due, listed, owner>>

NoTask(t) ==
  /\ At(t, "scan") /\ m_fibers = <<>>
  /\ Goto(t, "notask")
  /\ UNCHANGED <<m_fibers, counters, flags, m_tickled, loopVars, mustTickle,
                 taskVars, listed, owner>>

(* Behind the return from swapIn; a fiber that is READY goes back to the queue. *)
Leave(t) ==
  /\ At(t, "leave")
  /\ m_activeThreadCount' = m_activeThreadCount - 1
  /\ Goto(t, IF task[t] = None THEN "scan" ELSE "requeue")
  /\ UNCHANGED <<m_fibers, m_idleThreadcount, m_pendingEventCount, flags, m_tickled,
                 loopVars, mustTickle, taskVars, listed, owner>>

RequeueForgets(t) ==          \* mutant: READY is treated like HOLD
  /\ At(t, "requeue")
  /\ Move(task[t], "queued")
  /\ task' = [task EXCEPT ![t] = None]
  /\ Goto(t, "scan")
  /\ UNCHANGED <<m_fibers, counters, flags, m_tickled, cbs, got, idleTerm, mustTickle,
                 waits, due, listed, owner>>
Requeue(t) ==
  /\ At(t, "requeue")
  /\ Schedule(t, <<task[t]>>)
  /\ Move(task[t], "queued")
  /\ task' = [task EXCEPT ![t] = None]
  /\ Goto(t, "scan")
  /\ UNCHANGED <<counters, flags, m_tickled, cbs, got, idleTerm, waits, due, listed,
                 owner>>

EnterIdle(t) ==
  /\ At(t, "notask") /\ t \notin idleTerm
  /\ m_idleThreadcount' = m_idleThreadcount + 1
  /\ Goto(t, "next")
  /\ UNCHANGED <<m_fibers, m_activeThreadCount, m_pendingEventCount, flags, m_tickled,
                 loopVars, mustTickle, taskVars, listed, owner>>

Exit(t) ==
  /\ At(t, "notask") /\ t \in idleTerm
  /\ Goto(t, "done")
  /\ UNCHANGED <<m_fibers, counters, flags, m_tickled, loopVars, mustTickle,
                 taskVars, listed, owner>>

-----------------------------------------------------------------------------
(* The task that loop t runs. *)

Spawn(t) ==
  /\ At(t, "run")
  /\ \E f \in InPlace("new") : Schedule(t, <<f>>) /\ Move(f, "queued")
  /\ UNCHANGED <<counters, flags, m_tickled, pc, loopVars, waits, due, listed, owner>>

MayWait(t) == At(t, "run") /\ waits[task[t]] < MaxWaits[task[t]]
Wait(t, p) ==
  /\ Move(task[t], p)
  /\ waits' = [waits EXCEPT ![task[t]] = @ + 1]
  /\ Goto(t, "leave")

(* addTimer and YieldToHold: a timer that comes first tickles, unless it was
   done since the last getNextTimer. *)
Sleep(t) ==
  /\ MayWait(t) /\ Wait(t, "timer")
  /\ \E at_front \in BOOLEAN :
       /\ m_tickled' = (m_tickled \/ at_front)
       /\ mustTickle' = IF at_front /\ ~m_tickled THEN mustTickle \cup {t} ELSE mustTickle
  /\ task' = [task EXCEPT ![t] = None]
  /\ UNCHANGED <<m_fibers, counters, flags, cbs, got, idleTerm, due, listed, owner>>

(* addEvent and YieldToHold. *)
WaitEvent(t) ==
  /\ MayWait(t) /\ Wait(t, "event")
  /\ m_pendingEventCount' = m_pendingEventCount + 1
  /\ task' = [task EXCEPT ![t] = None]
  /\ UNCHANGED <<m_fibers, m_activeThreadCount, m_idleThreadcount, flags, m_tickled,
                 cbs, got, idleTerm, mustTickle, due, listed, owner>>

Yield(t) ==
  /\ MayWait(t) /\ Wait(t, "ready")
  /\ UNCHANGED <<m_fibers, counters, flags, m_tickled, loopVars, mustTickle, due,
                 listed, owner>>

Finish(t) ==
  /\ At(t, "run")
  /\ Move(task[t], "done")
  /\ task' = [task EXCEPT ![t] = None]
  /\ Goto(t, "leave")
  /\ UNCHANGED <<m_fibers, counters, flags, m_tickled, cbs, got, idleTerm, mustTickle,
                 waits, due, listed, owner>>

-----------------------------------------------------------------------------
(* IOManager::idle.  stopping(timeout) reads the timers, the event count and the
   scheduler's own condition in three steps. *)

GetNextTimer(t) ==
  /\ At(t, "next")
  /\ m_tickled' = FALSE
  /\ Goto(t, IF InPlace("timer") # {} THEN "poll" ELSE "pending")
  /\ UNCHANGED <<m_fibers, counters, flags, loopVars, mustTickle, taskVars, listed,
                 owner>>

ReadPendingIgnored(t) ==      \* mutant: registered events do not keep it alive
  /\ At(t, "pending")
  /\ Goto(t, "base")
  /\ UNCHANGED <<m_fibers, counters, flags, m_tickled, loopVars, mustTickle,
                 taskVars, listed, owner>>
ReadPending(t) ==
  /\ At(t, "pending")
  /\ Goto(t, IF m_pendingEventCount = 0 THEN "base" ELSE "poll")
  /\ UNCHANGED <<m_fibers, counters, flags, m_tickled, loopVars, mustTickle,
                 taskVars, listed, owner>>

SchedulerStopping ==
  m_autoStop /\ m_stopping /\ m_fibers = <<>> /\ m_activeThreadCount = 0

BaseStopping(t) ==
  /\ At(t, "base")
  /\ Goto(t, IF SchedulerStopping THEN "ended" ELSE "poll")
  /\ UNCHANGED <<m_fibers, counters, flags, m_tickled, loopVars, mustTickle,
                 taskVars, listed, owner>>

(* epoll_wait: what is listed, or nothing when the time is up.  The time is that
   of the next timer and never more than MAX_TIMEOUT. *)
EpollWait(t) ==
  /\ At(t, "poll")
  /\ got' = [got EXCEPT ![t] = listed]
  /\ listed' = {}
  /\ Goto(t, "expire")
  /\ UNCHANGED <<m_fibers, counters, flags, m_tickled, task, cbs, idleTerm, mustTickle,
                 taskVars, owner>>

ListExpiredKeeps(t) ==        \* mutant: the set keeps them
  /\ At(t, "expire") /\ cbs[t] = {} /\ Expired # {}
  /\ cbs' = [cbs EXCEPT ![t] = Expired]
  /\ UNCHANGED <<m_fibers, counters, flags, m_tickled, pc, task, got, idleTerm,
                 mustTickle, taskVars, listed, owner>>
(* listExpiredCb: the expired timers leave the set for a local vector. *)
ListExpired(t) ==
  /\ At(t, "expire") /\ cbs[t] = {} /\ Expired # {}
  /\ cbs' = [cbs EXCEPT ![t] = Expired]
  /\ place' = [f \in Tasks |-> IF f \in Expired THEN "cbs" ELSE place[f]]
  /\ due' = due \ Expired
  /\ UNCHANGED <<m_fibers, counters, flags, m_tickled, pc, task, got, idleTerm,
                 mustTickle, waits, listed, owner>>

(* schedule(cbs.begin(), cbs.end()). *)
ScheduleCbs(t) ==
  /\ At(t, "expire") /\ cbs[t] # {}
  /\ \E seq \in [1..Cardinality(cbs[t]) -> cbs[t]] :
       /\ \A f \in cbs[t] : \E i \in DOMAIN seq : seq[i] = f
       /\ Schedule(t, seq)
  /\ place' = [f \in Tasks |-> IF f \in cbs[t] THEN "queued" ELSE place[f]]
  /\ cbs' = [cbs EXCEPT ![t] = {}]
  /\ Goto(t, "handle")
  /\ UNCHANGED <<counters, flags, m_tickled, task, got, idleTerm, waits, due, listed,
                 owner>>

NothingExpired(t) ==
  /\ At(t, "expire") /\ cbs[t] = {} /\ Expired = {}
  /\ Goto(t, "handle")
  /\ UNCHANGED <<m_fibers, counters, flags, m_tickled, loopVars, mustTickle,
                 taskVars, listed, owner>>

DrainBreaks(t) ==             \* mutant: break for continue
  /\ At(t, "handle") /\ Pipe \in got[t]
  /\ got' = [got EXCEPT ![t] = {}]
  /\ listed' = listed \ {Pipe}
  /\ UNCHANGED <<m_fibers, counters, flags, m_tickled, pc, task, cbs, idleTerm,
                 mustTickle, taskVars, owner>>
(* The pipe is read until it is empty. *)
Drain(t) ==
  /\ At(t, "handle") /\ Pipe \in got[t]
  /\ got' = [got EXCEPT ![t] = @ \ {Pipe}]
  /\ listed' = listed \ {Pipe}
  /\ UNCHANGED <<m_fibers, counters, flags, m_tickled, pc, task, cbs, idleTerm,
                 mustTickle, taskVars, owner>>

(* An event: triggerEvent schedules the waiter, then the count goes down. *)
TriggerEvent(t) ==
  /\ At(t, "handle")
  /\ \E f \in got[t] \ {Pipe} :
       /\ Schedule(t, <<f>>) /\ Move(f, "queued")
       /\ got' = [got EXCEPT ![t] = @ \ {f}]
       /\ due' = due \ {f}
  /\ Goto(t, "dec")
  /\ UNCHANGED <<counters, flags, m_tickled, task, cbs, idleTerm, waits, listed, owner>>

DecrementKeeps(t) ==          \* mutant: --m_pendingEventCount is missing
  /\ At(t, "dec")
  /\ Goto(t, "handle")
  /\ UNCHANGED <<m_fibers, counters, flags, m_tickled, loopVars, mustTickle, taskVars,
                 listed, owner>>
DecrementPending(t) ==
  /\ At(t, "dec")
  /\ m_pendingEventCount' = m_pendingEventCount - 1
  /\ Goto(t, "handle")
  /\ UNCHANGED <<m_fibers, m_activeThreadCount, m_idleThreadcount, flags, m_tickled,
                 loopVars, mustTickle, taskVars, listed, owner>>

(* The idle fiber yields or has ended; the loop counts itself out either way. *)
LeaveIdle(t) ==
  /\ \/ At(t, "handle") /\ got[t] = {} /\ UNCHANGED idleTerm
     \/ At(t, "ended") /\ idleTerm' = idleTerm \cup {t}
  /\ m_idleThreadcount' = m_idleThreadcount - 1
  /\ Goto(t, "scan")
  /\ UNCHANGED <<m_fibers, m_activeThreadCount, m_pendingEventCount, flags, m_tickled,
                 task, cbs, got, mustTickle, taskVars, listed, owner>>

-----------------------------------------------------------------------------
(* The kernel and the clock. *)

Elapse(f) ==
  /\ place[f] = "timer" /\ f \notin due
  /\ due' = due \cup {f}
  /\ UNCHANGED <<m_fibers, counters, flags, m_tickled, pc, loopVars, mustTickle,
                 place, waits, listed, owner>>

EventReady(f) ==
  /\ place[f] = "event" /\ f \notin due
  /\ due' = due \cup {f} /\ listed' = listed \cup {f}
  /\ UNCHANGED <<m_fibers, counters, flags, m_tickled, pc, loopVars, mustTickle,
                 place, waits, owner>>

-----------------------------------------------------------------------------
(* The owner: schedule() until it calls stop(). *)

ClientSchedule ==
  /\ mpc = "running" /\ Client \notin mustTickle
  /\ \E f \in InPlace("new") : Schedule(Client, <<f>>) /\ Move(f, "queued")
  /\ UNCHANGED <<counters, flags, m_tickled, pc, loopVars, waits, due, listed, owner>>

StopBegin ==
  /\ mpc = "running" /\ Client \notin mustTickle
  /\ m_autoStop' = TRUE /\ mpc' = "mark"
  /\ UNCHANGED <<m_fibers, counters, m_stopping, m_threads, m_tickled, pc, loopVars,
                 mustTickle, taskVars, listed, tickles>>

StopMark ==
  /\ mpc = "mark"
  /\ m_stopping' = TRUE /\ mpc' = "tickle" /\ tickles' = Cardinality(m_threads)
  /\ UNCHANGED <<m_fibers, counters, m_autoStop, m_threads, m_tickled, pc, loopVars,
                 mustTickle, taskVars, listed>>

StopTickle ==
  /\ mpc = "tickle" /\ Client \notin mustTickle
  /\ IF tickles = 0
     THEN mpc' = "join" /\ UNCHANGED <<tickles, mustTickle>>
     ELSE /\ tickles' = tickles - 1 /\ mustTickle' = mustTickle \cup {Client}
          /\ UNCHANGED mpc
  /\ UNCHANGED <<m_fibers, counters, flags, m_tickled, pc, loopVars, taskVars, listed>>

StopJoin ==
  /\ mpc = "join" /\ \A t \in m_threads : pc[t] = "done"
  /\ mpc' = "stopped"
  /\ UNCHANGED <<m_fibers, counters, flags, m_tickled, pc, loopVars, mustTickle,
                 taskVars, listed, tickles>>

-----------------------------------------------------------------------------
Run(t) == Take(t) \/ NoTask(t) \/ Leave(t) \/ Requeue(t) \/ EnterIdle(t) \/ Exit(t)
Body(t) == Spawn(t) \/ Sleep(t) \/ WaitEvent(t) \/ Yield(t) \/ Finish(t)
Idle(t) == \/ GetNextTimer(t) \/ ReadPending(t) \/ BaseStopping(t) \/ EpollWait(t)
           \/ ListExpired(t) \/ ScheduleCbs(t) \/ NothingExpired(t) \/ Drain(t)
           \/ TriggerEvent(t) \/ DecrementPending(t) \/ LeaveIdle(t)
Loop(t) == Run(t) \/ Body(t) \/ Idle(t) \/ Tickle(t)
Stop == StopMark \/ StopTickle \/ StopJoin \/ Tickle(Client)
World(f) == Elapse(f) \/ EventReady(f)
Stopped == mpc = "stopped" /\ UNCHANGED vars

Next == \/ \E t \in Threads : Loop(t)
        \/ \E f \in Tasks : World(f)
        \/ ClientSchedule \/ StopBegin \/ Stop \/ Stopped

Spec == Init /\ [][Next]_vars

(* Loops run, epoll_wait returns at the latest after MAX_TIMEOUT, timers expire
   and events come, and an owner in stop() goes on. *)
FairSpec == /\ Spec
            /\ \A t \in Threads : WF_vars(Loop(t))
            /\ \A f \in Tasks : WF_vars(World(f))
            /\ WF_vars(Stop)

-----------------------------------------------------------------------------
(* Every variable has its type. *)
TypeOK ==
  /\ m_fibers \in Seq(Tasks)
  /\ {m_activeThreadCount, m_idleThreadcount, m_pendingEventCount, tickles} \subseteq Nat
  /\ m_threads \in SUBSET Threads
  /\ {m_stopping, m_autoStop, m_tickled} \subseteq BOOLEAN
  /\ pc \in [Threads -> RunPcs]
  /\ task \in [Threads -> Tasks \cup {None}]
  /\ cbs \in [Threads -> SUBSET Tasks]
  /\ got \in [Threads -> SUBSET (Tasks \cup {Pipe})]
  /\ idleTerm \in SUBSET Threads
  /\ mustTickle \in SUBSET (Threads \cup {Client})
  /\ place \in [Tasks -> Places] /\ waits \in [Tasks -> Nat]
  /\ due \in SUBSET (InPlace("timer") \cup InPlace("event"))
  /\ listed \in SUBSET (Tasks \cup {Pipe})
  /\ mpc \in {"running", "mark", "tickle", "join", "stopped"}

(* The places of a task exclude each other: what is in the queue, in a loop, in
   a vector of expired timers or registered with epoll is there once. *)
InOnePlace ==
  /\ \A f \in Tasks :
       /\ Cardinality({i \in DOMAIN m_fibers : m_fibers[i] = f})
            = IF place[f] = "queued" THEN 1 ELSE 0
       /\ Cardinality({t \in Threads : task[t] = f})
            = IF place[f] \in {"running", "ready"} THEN 1 ELSE 0
       /\ Cardinality({t \in Threads : f \in cbs[t]}) = IF place[f] = "cbs" THEN 1 ELSE 0
       /\ f \in listed \/ (\E t \in Threads : f \in got[t]) => place[f] = "event"

(* The counters stopping() and tickle() decide from say what is the case: loops
   with a task, loops in their idle fiber, and events registered or about to be
   counted down. *)
CountersExact ==
  /\ m_activeThreadCount = Cardinality({t \in Threads : pc[t] \in {"run", "leave"}})
  /\ m_idleThreadcount = Cardinality({t \in Threads : pc[t] \in IdlePcs})
  /\ m_pendingEventCount = Cardinality(InPlace("event"))
                             + Cardinality({t \in Threads : pc[t] = "dec"})

(* A stop() that returns leaves nothing undone: the loops that decided to stop
   left no timer to collect and no event to dispatch. *)
StopDrains == mpc = "stopped" => \A f \in Tasks : place[f] \in {"new", "done"}
(* With a single run loop it is so. *)
SoloDrains == Cardinality(m_threads) = 1 => StopDrains

(* A queued task is run, stop() or not. *)
QueueServed == \A f \in Tasks : place[f] = "queued" ~> place[f] # "queued"
(* The wait of a task ends, unless the manager is being stopped. *)
WaitEnds == \A f \in Tasks : place[f] \in {"timer", "event"}
                                ~> (place[f] = "queued" \/ m_stopping)
(* stop() returns: all loops see stopping() in the end. *)
StopReturns == mpc = "mark" ~> mpc = "stopped"

(* Types, places of the tasks and counters, of which tickle() and stopping() decide. *)
Consistent == TypeOK /\ InOnePlace /\ CountersExact
=============================================================================
