---------------------------- MODULE TimerManager ----------------------------
(***************************************************************************)
(* src/mumu/timer.{h,cc}: the ordered set of timers under one RWMutex,     *)
(* the operations user threads apply to a timer, and the pollers (the idle *)
(* loops of IOManager) that ask for the next deadline, sleep, and collect  *)
(* what has expired in listExpiredCb, which reads the clock and tests for  *)
(* emptiness before it holds the lock it collects under.                   *)
(***************************************************************************)
EXTENDS Integers, FiniteSets

CONSTANTS
  Timers,        \* timer objects; a number is the object's address
  Recurring,     \* the timers built with recurring = true
  Periods,       \* values of ms the client uses
  Pollers,       \* threads that run the idle loop
  Hour,          \* the set-back detectClockRollover looks for (60*60*1000)
  ClockMaySetBack,
  Start,         \* the clock's first value
  MaxClock       \* bound on the clock

ASSUME TimersAssumption ==
  /\ Timers \subseteq Nat /\ IsFiniteSet(Timers) /\ Recurring \subseteq Timers
  /\ Periods \subseteq Nat
  /\ Hour \in Nat /\ Start \in Nat /\ MaxClock \in Nat
  /\ ClockMaySetBack \in BOOLEAN

VARIABLES
  now,             \* GetCurrentMS()
  m_timer,         \* the set; its order is Before
  m_next, m_ms,    \* of each timer
  m_cb,            \* of each timer: whether its callback is set
  m_tickled, m_previousTime,
  pc,              \* of each poller: place in the idle loop
  now_ms,          \* of each poller: the local of listExpiredCb
  made,            \* constructed timers
  ended,           \* of each timer: "no", "fired" or "cancelled"
  setBack,         \* the clock has been set back
  lagged           \* history: a poller held a clock value for more than an Hour

vars == <<now, m_timer, m_next, m_ms, m_cb, m_tickled, m_previousTime, pc,
          now_ms, made, ended, setBack, lagged>>

(* Timer::Comparator: by deadline, then by address. *)
Before(s, t) == m_next[s] < m_next[t] \/ (m_next[s] = m_next[t] /\ s < t)
IsFront(t, next) == \A s \in m_timer \ {t} :
                      next[t] < next[s] \/ (next[t] = next[s] /\ t < s)

Init ==
  /\ now = Start
  /\ m_timer = {} /\ made = {}
  /\ m_next = [t \in Timers |-> 0]
  /\ m_ms = [t \in Timers |-> 0]
  /\ m_cb = [t \in Timers |-> FALSE]
  /\ m_tickled = FALSE
  /\ m_previousTime = Start
  /\ pc = [p \in Pollers |-> "next"]
  /\ now_ms = [p \in Pollers |-> 0]
  /\ ended = [t \in Timers |-> "no"]
  /\ setBack = FALSE /\ lagged = FALSE

-----------------------------------------------------------------------------
(* User threads. *)

(* The constructor reads the clock before addTimer takes the lock. *)
Construct(t) ==
  /\ t \notin made
  /\ made' = made \cup {t}
  /\ \E ms \in Periods :
       /\ m_ms' = [m_ms EXCEPT ![t] = ms]
       /\ m_next' = [m_next EXCEPT ![t] = now + ms]
  /\ m_cb' = [m_cb EXCEPT ![t] = TRUE]
  /\ UNCHANGED <<now, m_timer, m_tickled, m_previousTime, pc, now_ms, ended, setBack, lagged>>

(* addTimer(val, lock): a timer that comes first sets m_tickled, once per
   getNextTimer, and calls onTimerInsertedAtFront. *)
Insert(t, next) ==
  /\ m_timer' = m_timer \cup {t}
  /\ m_tickled' = (m_tickled \/ IsFront(t, next))

AddTimer(t) ==
  /\ t \in made \ m_timer /\ ended[t] = "no"
  /\ Insert(t, m_next)
  /\ UNCHANGED <<now, m_next, m_ms, m_cb, m_previousTime, pc, now_ms, made,
                 ended, setBack, lagged>>

CancelKeepsCb(t) ==           \* mutant: m_cb = nullptr is missing
  /\ t \in made /\ (t \in m_timer \/ ended[t] # "no") /\ m_cb[t]
  /\ m_timer' = m_timer \ {t}
  /\ ended' = [ended EXCEPT ![t] = "cancelled"]
  /\ UNCHANGED <<now, m_next, m_ms, m_cb, m_tickled, m_previousTime, pc, now_ms,
                 made, setBack, lagged>>
(* A client holds the Timer::ptr only when addTimer has returned it. *)
Cancel(t) ==
  /\ t \in made /\ (t \in m_timer \/ ended[t] # "no") /\ m_cb[t]
  /\ m_cb' = [m_cb EXCEPT ![t] = FALSE]
  /\ m_timer' = m_timer \ {t}
  /\ ended' = [ended EXCEPT ![t] = "cancelled"]
  /\ UNCHANGED <<now, m_next, m_ms, m_tickled, m_previousTime, pc, now_ms, made,
                 setBack, lagged>>

Refresh(t) ==
  /\ m_cb[t] /\ t \in m_timer
  /\ m_next' = [m_next EXCEPT ![t] = now + m_ms[t]]
  /\ UNCHANGED <<now, m_timer, m_ms, m_cb, m_tickled, m_previousTime, pc, now_ms,
                 made, ended, setBack, lagged>>

Reset(t) ==
  /\ m_cb[t] /\ t \in m_timer
  /\ \E ms \in Periods, from_now \in BOOLEAN :
       LET start == IF from_now THEN now ELSE m_next[t] - m_ms[t]
           next == [m_next EXCEPT ![t] = start + ms]
       IN  /\ ms # m_ms[t] \/ from_now
           /\ m_ms' = [m_ms EXCEPT ![t] = ms]
           /\ m_next' = next
           /\ Insert(t, next)
  /\ UNCHANGED <<now, m_cb, m_previousTime, pc, now_ms, made, ended, setBack, lagged>>

-----------------------------------------------------------------------------
(* Pollers: IOManager::idle around getNextTimer and listExpiredCb. *)

GetNextTimer(p) ==
  /\ pc[p] = "next"
  /\ m_tickled' = FALSE
  /\ pc' = [pc EXCEPT ![p] = "wait"]
  /\ UNCHANGED <<now, m_timer, m_next, m_ms, m_cb, m_previousTime, now_ms, made,
                 ended, setBack, lagged>>

(* epoll_wait returns: a timeout (at most MAX_TIMEOUT away), a tickle or an
   event.  listExpiredCb then reads the clock. *)
ReadClock(p) ==
  /\ pc[p] = "wait"
  /\ now_ms' = [now_ms EXCEPT ![p] = now]
  /\ pc' = [pc EXCEPT ![p] = "check"]
  /\ UNCHANGED <<now, m_timer, m_next, m_ms, m_cb, m_tickled, m_previousTime,
                 made, ended, setBack, lagged>>

(* The end of listExpiredCb, and of its local now_ms. *)
Return(p) == pc' = [pc EXCEPT ![p] = "next"] /\ now_ms' = [now_ms EXCEPT ![p] = 0]

(* The test for emptiness, under the read lock that is then released. *)
CheckEmpty(p) ==
  /\ pc[p] = "check"
  /\ IF m_timer = {} THEN Return(p)
     ELSE pc' = [pc EXCEPT ![p] = "collect"] /\ UNCHANGED now_ms
  /\ UNCHANGED <<now, m_timer, m_next, m_ms, m_cb, m_tickled, m_previousTime,
                 made, ended, setBack, lagged>>

(* detectClockRollover. *)
Rollover(n) == n < m_previousTime /\ n < m_previousTime - Hour

ExpiredAny(n) == m_timer      \* mutant: no bound
(* The timers from begin() to the first one later than n. *)
Expired(n) == IF Rollover(n) THEN m_timer ELSE {t \in m_timer : m_next[t] <= n}

(* The part under the write lock.  It looks at *m_timer.begin(): on an empty
   set that is undefined and the process goes no further here. *)
Collect(p) ==
  LET n == now_ms[p]  gone == Expired(n) IN
  /\ pc[p] = "collect" /\ (m_timer # {} \/ Rollover(n))
  /\ m_previousTime' = n
  /\ m_timer' = m_timer \ (gone \ Recurring)
  /\ m_next' = [t \in Timers |-> IF t \in gone \cap Recurring THEN n + m_ms[t]
                                 ELSE m_next[t]]
  /\ m_cb' = [t \in Timers |-> m_cb[t] /\ t \notin gone \ Recurring]
  /\ ended' = [t \in Timers |-> IF t \in gone \ Recurring THEN "fired" ELSE ended[t]]
  /\ Return(p)
  /\ UNCHANGED <<now, m_ms, m_tickled, made, setBack, lagged>>

-----------------------------------------------------------------------------
Tick ==
  /\ now < MaxClock
  /\ now' = now + 1
  /\ lagged' = (lagged \/ \E p \in Pollers : pc[p] \in {"check", "collect"} /\ now_ms[p] + Hour < now')
  /\ UNCHANGED <<m_timer, m_next, m_ms, m_cb, m_tickled, m_previousTime, pc,
                 now_ms, made, ended, setBack>>

SetBack ==
  /\ ClockMaySetBack /\ ~setBack
  /\ now' \in 0..(now - 1)
  /\ setBack' = TRUE
  /\ UNCHANGED <<m_timer, m_next, m_ms, m_cb, m_tickled, m_previousTime, pc,
                 now_ms, made, ended, lagged>>

User(t) == Construct(t) \/ AddTimer(t) \/ Cancel(t) \/ Refresh(t) \/ Reset(t)
Poll(p) == GetNextTimer(p) \/ ReadClock(p) \/ CheckEmpty(p) \/ Collect(p)

Next == \/ Tick \/ SetBack
        \/ \E t \in Timers : User(t)
        \/ \E p \in Pollers : Poll(p)

Spec == Init /\ [][Next]_vars

-----------------------------------------------------------------------------
(* Every variable has its type. *)
TypeOK ==
  /\ now \in Nat /\ m_previousTime \in Nat
  /\ m_timer \in SUBSET Timers /\ made \in SUBSET Timers
  /\ m_next \in [Timers -> Nat] /\ m_ms \in [Timers -> Nat]
  /\ m_cb \in [Timers -> BOOLEAN]
  /\ {m_tickled, setBack, lagged} \subseteq BOOLEAN
  /\ pc \in [Pollers -> {"next", "wait", "check", "collect"}]
  /\ now_ms \in [Pollers -> Nat]
  /\ ended \in [Timers -> {"no", "fired", "cancelled"}]

(* A timer known to its manager is in the set exactly while its callback is
   set: cancel() erases what find() returns without a test for end(), so it
   relies on this. *)
CbIffInSet ==
  \A t \in Timers :
    /\ t \in m_timer => m_cb[t] /\ t \in made /\ ended[t] = "no"
    /\ m_cb[t] => t \in made /\ (t \in m_timer \/ ended[t] = "no")
    /\ ended[t] # "no" => ~m_cb[t]

(* While the clock only goes forward no timer is further away than its own
   period: refresh(), which moves a timer to now + m_ms and wakes nobody, can
   then only move it later. *)
WithinPeriod == ~setBack => \A t \in made : m_next[t] <= now + m_ms[t]

(* listExpiredCb looks at the first timer of a set that has one. *)
FrontExists == \A p \in Pollers : pc[p] = "collect" => m_timer # {} \/ Rollover(now_ms[p])

(* The manager implements the promise of the interface.  Its excuse for firing early is
   a clock that went back, or what looks the same to detectClockRollover: a poller that
   held the value it read for more than an hour while another one collected. *)
Contract == INSTANCE TimerContract WITH
  status <- [t \in Timers |-> IF t \in m_timer THEN "pending"
                              ELSE IF ended[t] = "no" THEN "none" ELSE ended[t]],
  due <- m_next, clock <- now, excused <- setBack \/ lagged
ContractHolds == Contract!Spec

(* Types; the set, the callbacks and the deadlines agree. *)
Consistent == TypeOK /\ CbIffInSet /\ WithinPeriod
=============================================================================
