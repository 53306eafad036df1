------------------------ MODULE TimerManager_proofs -------------------------
(***************************************************************************)
(* For any number of timers and pollers, any periods and any moves of the  *)
(* clock: the set of timers, their callbacks and deadlines agree, and the  *)
(* manager implements TimerContract.                                       *)
(***************************************************************************)
EXTENDS TimerManager, TLAPS

(* A timer gets its callback from the constructor and loses it when it ends. *)
CbUntilEnded ==
  \A t \in Timers : /\ t \notin made => ended[t] = "no"
                    /\ t \in made /\ ended[t] = "no" => m_cb[t]
(* reset() can take the period off a deadline. *)
NextAfterMs == \A t \in Timers : m_next[t] >= m_ms[t]
(* Pollers read a clock that only goes forward, ... *)
ClockAhead == ~setBack => m_previousTime <= now /\ \A p \in Pollers : now_ms[p] <= now
(* ... and without a laggard none looks set back to another. *)
Recent(p) == pc[p] \in {"check", "collect"} => now <= now_ms[p] + Hour
NoLaggard == ~setBack /\ ~lagged => \A p \in Pollers : Recent(p)

Inv == Consistent /\ CbUntilEnded /\ NextAfterMs /\ ClockAhead /\ NoLaggard

LEMMA InitInv == Init => Inv
<1> SUFFICES ASSUME Init PROVE Inv
  OBVIOUS
<1>1. Start \in Nat
  BY TimersAssumption
<1>2. TypeOK
  BY <1>1 DEF Init, TypeOK
<1>3. CbIffInSet /\ WithinPeriod /\ CbUntilEnded
  BY DEF Init, CbIffInSet, WithinPeriod, CbUntilEnded
<1>4. NextAfterMs
  BY DEF Init, NextAfterMs
<1>5. ClockAhead /\ NoLaggard
  BY <1>1 DEF Init, ClockAhead, NoLaggard, Recent
<1> QED
  BY <1>2, <1>3, <1>4, <1>5 DEF Inv, Consistent

(* What a step of a user thread keeps: it handles one timer, t, whose callback is set while
   it has not ended, and moves its deadline no further than a period away. *)
LEMMA OneTimerInv ==
  ASSUME Inv, NEW t \in Timers,
         UNCHANGED <<now, m_previousTime, pc, now_ms, setBack, lagged>>,
         m_tickled' \in BOOLEAN, m_timer' \subseteq Timers, made' \subseteq Timers,
         m_next' \in [Timers -> Nat], m_ms' \in [Timers -> Nat], m_cb' \in [Timers -> BOOLEAN],
         ended' \in [Timers -> {"no", "fired", "cancelled"}],
         \A s \in Timers \ {t} : /\ s \in m_timer' <=> s \in m_timer
                                 /\ s \in made' <=> s \in made
                                 /\ m_next'[s] = m_next[s] /\ m_ms'[s] = m_ms[s]
                                 /\ m_cb'[s] = m_cb[s] /\ ended'[s] = ended[s],
         t \in made', t \in m_timer' => m_cb'[t],
         m_cb'[t] <=> ended'[t] = "no",
         m_next'[t] >= m_ms'[t], ~setBack => m_next'[t] <= now + m_ms'[t]
  PROVE  Inv'
<1>1. TypeOK'
  BY DEF Inv, Consistent, TypeOK
<1>2. CbIffInSet' /\ CbUntilEnded'
  BY DEF Inv, Consistent, CbIffInSet, CbUntilEnded, TypeOK
<1>3. WithinPeriod'
  BY DEF Inv, Consistent, WithinPeriod
<1>4. NextAfterMs'
  BY DEF Inv, NextAfterMs
<1>5. ClockAhead' /\ NoLaggard'
  BY DEF Inv, ClockAhead, NoLaggard, Recent
<1> QED
  BY <1>1, <1>2, <1>3, <1>4, <1>5 DEF Inv, Consistent

(* The timers a user thread may name: what is in the set has its callback, and what has its
   callback has not ended. *)
LEMMA CbOf ==
  ASSUME Inv, NEW t \in Timers
  PROVE  /\ t \in m_timer => m_cb[t] /\ t \in made
         /\ m_cb[t] <=> t \in made /\ ended[t] = "no"
         /\ m_next[t] \in Nat /\ m_ms[t] \in Nat /\ now \in Nat
         /\ m_next[t] >= m_ms[t] /\ (~setBack /\ t \in made => m_next[t] <= now + m_ms[t])
<1>1. /\ t \in m_timer => m_cb[t] /\ t \in made
      /\ m_cb[t] <=> t \in made /\ ended[t] = "no"
  BY DEF Inv, Consistent, CbIffInSet, CbUntilEnded, TypeOK
<1>2. /\ m_next[t] \in Nat /\ m_ms[t] \in Nat /\ now \in Nat
      /\ m_next[t] >= m_ms[t]
  BY DEF Inv, Consistent, TypeOK, NextAfterMs
<1>3. ~setBack /\ t \in made => m_next[t] <= now + m_ms[t]
  BY DEF Inv, Consistent, WithinPeriod
<1> QED
  BY <1>1, <1>2, <1>3

LEMMA UserInv == ASSUME Inv, NEW t \in Timers, User(t) PROVE Inv'
<1>t. TypeOK
  BY DEF Inv, Consistent
<1>1. CASE Construct(t)
  <2>1. PICK ms \in Periods : /\ m_ms' = [m_ms EXCEPT ![t] = ms]
                              /\ m_next' = [m_next EXCEPT ![t] = now + ms]
    BY <1>1 DEF Construct
  <2>2. ms \in Nat /\ now \in Nat
    BY <1>t, TimersAssumption DEF TypeOK
  <2>3. /\ t \notin made /\ made' = made \cup {t} /\ m_cb' = [m_cb EXCEPT ![t] = TRUE]
        /\ UNCHANGED <<now, m_timer, m_tickled, m_previousTime, pc, now_ms, ended, setBack, lagged>>
    BY <1>1 DEF Construct
  <2>4. ended'[t] = "no" /\ t \notin m_timer'
    BY <2>3, CbOf DEF Inv, CbUntilEnded
  <2>5. m_next'[t] >= m_ms'[t] /\ m_next'[t] <= now + m_ms'[t]
    BY <1>t, <2>1, <2>2 DEF TypeOK
  <2>6. m_ms' \in [Timers -> Nat] /\ m_next' \in [Timers -> Nat]
    BY <1>t, <2>1, <2>2 DEF TypeOK
  <2>7. \A s \in Timers \ {t} : /\ s \in m_timer' <=> s \in m_timer
                                /\ s \in made' <=> s \in made
                                /\ m_next'[s] = m_next[s] /\ m_ms'[s] = m_ms[s]
                                /\ m_cb'[s] = m_cb[s] /\ ended'[s] = ended[s]
    BY <1>t, <2>1, <2>3 DEF TypeOK
  <2>8. m_cb' \in [Timers -> BOOLEAN] /\ m_cb'[t] = TRUE
    BY <1>t, <2>3 DEF TypeOK
  <2>9. /\ m_tickled' \in BOOLEAN /\ m_timer' \subseteq Timers /\ made' \subseteq Timers
        /\ ended' \in [Timers -> {"no", "fired", "cancelled"}]
    BY <1>t, <2>3 DEF TypeOK
  <2>10. t \in made' /\ m_cb'[t] /\ ended'[t] = "no"
    BY <2>3, <2>4, <2>8
  <2> QED
    BY <2>3, <2>5, <2>6, <2>7, <2>8, <2>9, <2>10, OneTimerInv
<1>2. CASE AddTimer(t)
  <2>1. /\ t \in made /\ ended[t] = "no" /\ m_timer' = m_timer \cup {t}
        /\ UNCHANGED <<now, m_next, m_ms, m_cb, m_previousTime, pc, now_ms, made, ended, setBack, lagged>>
    BY <1>2 DEF AddTimer, Insert
  <2>2. m_tickled' \in BOOLEAN
    <3>1. m_tickled' = (m_tickled \/ IsFront(t, m_next))
      BY <1>2 DEF AddTimer, Insert
    <3> QED
      BY <1>t, <3>1, Zenon DEF TypeOK, IsFront
  <2>3. \A s \in Timers \ {t} : /\ s \in m_timer' <=> s \in m_timer
                                /\ s \in made' <=> s \in made
                                /\ m_next'[s] = m_next[s] /\ m_ms'[s] = m_ms[s]
                                /\ m_cb'[s] = m_cb[s] /\ ended'[s] = ended[s]
    BY <2>1
  <2>4. /\ m_timer' \subseteq Timers /\ made' \subseteq Timers
        /\ m_next' \in [Timers -> Nat] /\ m_ms' \in [Timers -> Nat]
        /\ m_cb' \in [Timers -> BOOLEAN] /\ ended' \in [Timers -> {"no", "fired", "cancelled"}]
    BY <1>t, <2>1 DEF TypeOK
  <2>5. t \in made' /\ m_cb'[t] /\ ended'[t] = "no"
    BY <2>1, CbOf
  <2>6. m_next'[t] >= m_ms'[t] /\ (~setBack => m_next'[t] <= now + m_ms'[t])
    BY <2>1, CbOf
  <2> QED
    BY <2>1, <2>2, <2>3, <2>4, <2>5, <2>6, OneTimerInv
<1>3. CASE Cancel(t)
  <2>1. /\ t \in made /\ m_timer' = m_timer \ {t}
        /\ m_cb' = [m_cb EXCEPT ![t] = FALSE] /\ ended' = [ended EXCEPT ![t] = "cancelled"]
        /\ UNCHANGED <<now, m_next, m_ms, m_tickled, m_previousTime, pc, now_ms, made, setBack, lagged>>
    BY <1>3 DEF Cancel
  <2>2. \A s \in Timers \ {t} : /\ s \in m_timer' <=> s \in m_timer
                                /\ s \in made' <=> s \in made
                                /\ m_next'[s] = m_next[s] /\ m_ms'[s] = m_ms[s]
                                /\ m_cb'[s] = m_cb[s] /\ ended'[s] = ended[s]
    BY <1>t, <2>1 DEF TypeOK
  <2>3. /\ m_tickled' \in BOOLEAN /\ m_timer' \subseteq Timers /\ made' \subseteq Timers
        /\ m_next' \in [Timers -> Nat] /\ m_ms' \in [Timers -> Nat]
        /\ m_cb' \in [Timers -> BOOLEAN] /\ ended' \in [Timers -> {"no", "fired", "cancelled"}]
    BY <1>t, <2>1 DEF TypeOK
  <2>4. m_cb'[t] = FALSE /\ ended'[t] = "cancelled" /\ t \notin m_timer' /\ t \in made'
    BY <1>t, <2>1 DEF TypeOK
  <2>5. m_next'[t] >= m_ms'[t] /\ (~setBack => m_next'[t] <= now + m_ms'[t])
    BY <2>1, CbOf
  <2> QED
    BY <2>1, <2>2, <2>3, <2>4, <2>5, OneTimerInv
<1>4. CASE Refresh(t)
  <2>1. /\ m_cb[t] /\ t \in m_timer /\ m_next' = [m_next EXCEPT ![t] = now + m_ms[t]]
        /\ UNCHANGED <<now, m_timer, m_ms, m_cb, m_tickled, m_previousTime, pc, now_ms, made, ended,
                       setBack, lagged>>
    BY <1>4 DEF Refresh
  <2>2. m_next' \in [Timers -> Nat] /\ m_next'[t] = now + m_ms[t]
    BY <1>t, <2>1, CbOf DEF TypeOK
  <2>3. \A s \in Timers \ {t} : m_next'[s] = m_next[s]
    BY <1>t, <2>1 DEF TypeOK
  <2>4. m_next'[t] >= m_ms'[t] /\ m_next'[t] <= now + m_ms'[t]
    BY <2>1, <2>2, CbOf
  <2>5. /\ m_tickled' \in BOOLEAN /\ m_timer' \subseteq Timers /\ made' \subseteq Timers
        /\ m_ms' \in [Timers -> Nat]
        /\ m_cb' \in [Timers -> BOOLEAN] /\ ended' \in [Timers -> {"no", "fired", "cancelled"}]
    BY <1>t, <2>1 DEF TypeOK
  <2>6. t \in made' /\ m_cb'[t] /\ ended'[t] = "no"
    BY <2>1, CbOf
  <2> QED
    BY <2>1, <2>2, <2>3, <2>4, <2>5, <2>6, OneTimerInv
<1>5. CASE Reset(t)
  <2>1. PICK ms \in Periods, start \in {now, m_next[t] - m_ms[t]} :
               /\ m_ms' = [m_ms EXCEPT ![t] = ms]
               /\ m_next' = [m_next EXCEPT ![t] = start + ms]
               /\ Insert(t, [m_next EXCEPT ![t] = start + ms])
    BY <1>5, Zenon DEF Reset
  <2>2. /\ m_cb[t] /\ t \in m_timer
        /\ UNCHANGED <<now, m_cb, m_previousTime, pc, now_ms, made, ended, setBack, lagged>>
    BY <1>5 DEF Reset
  <2>3. ms \in Nat
    BY TimersAssumption
  <2>4. start \in Nat /\ (~setBack => start <= now)
    <3>1. CASE start = now
      BY <3>1, CbOf
    <3>2. CASE start = m_next[t] - m_ms[t]
      BY <2>2, <3>2, CbOf
    <3> QED
      BY <2>1, <3>1, <3>2
  <2>5. m_next' \in [Timers -> Nat] /\ m_next'[t] = start + ms
    BY <1>t, <2>1, <2>3, <2>4 DEF TypeOK
  <2>6. m_ms' \in [Timers -> Nat] /\ m_ms'[t] = ms
    BY <1>t, <2>1, <2>3 DEF TypeOK
  <2>7. m_next'[t] >= m_ms'[t] /\ (~setBack => m_next'[t] <= now + m_ms'[t])
    BY <2>3, <2>4, <2>5, <2>6, CbOf
  <2>8. \A s \in Timers \ {t} : m_next'[s] = m_next[s] /\ m_ms'[s] = m_ms[s]
    BY <1>t, <2>1 DEF TypeOK
  <2>9. m_tickled' \in BOOLEAN /\ m_timer' = m_timer
    <3>1. m_tickled' = (m_tickled \/ IsFront(t, [m_next EXCEPT ![t] = start + ms]))
      BY <2>1 DEF Insert
    <3>2. m_tickled' \in BOOLEAN
      BY <1>t, <3>1, Zenon DEF TypeOK, IsFront
    <3> QED
      BY <2>1, <2>2, <3>2 DEF Insert
  <2>10. /\ m_timer' \subseteq Timers /\ made' \subseteq Timers
         /\ m_cb' \in [Timers -> BOOLEAN] /\ ended' \in [Timers -> {"no", "fired", "cancelled"}]
    BY <1>t, <2>2, <2>9 DEF TypeOK
  <2>11. t \in made' /\ m_cb'[t] /\ ended'[t] = "no"
    BY <2>2, CbOf
  <2> QED
    BY <2>2, <2>5, <2>6, <2>7, <2>8, <2>9, <2>10, <2>11, OneTimerInv
<1> QED
  BY <1>1, <1>2, <1>3, <1>4, <1>5 DEF User

LEMMA PollInv == ASSUME Inv, NEW p \in Pollers, Poll(p) PROVE Inv'
<1>t. TypeOK
  BY DEF Inv, Consistent
<1>n. now \in Nat /\ Hour \in Nat
  BY <1>t, TimersAssumption DEF TypeOK
<1>1. CASE GetNextTimer(p)
  <2>1. /\ pc' = [pc EXCEPT ![p] = "wait"] /\ m_tickled' = FALSE
        /\ UNCHANGED <<now, m_timer, m_next, m_ms, m_cb, m_previousTime, now_ms, made, ended, setBack, lagged>>
    BY <1>1 DEF GetNextTimer
  <2>2. TypeOK'
    BY <1>t, <2>1 DEF TypeOK
  <2>3. \A q \in Pollers : Recent(q) => Recent(q)'
    BY <1>t, <2>1 DEF TypeOK, Recent
  <2>4. ClockAhead' /\ NoLaggard'
    BY <2>1, <2>3 DEF Inv, ClockAhead, NoLaggard
  <2>5. CbIffInSet' /\ WithinPeriod' /\ CbUntilEnded' /\ NextAfterMs'
    BY <2>1 DEF Inv, Consistent, CbIffInSet, WithinPeriod, CbUntilEnded, NextAfterMs
  <2> QED
    BY <2>2, <2>4, <2>5 DEF Inv, Consistent
<1>2. CASE ReadClock(p)
  <2>1. /\ pc' = [pc EXCEPT ![p] = "check"] /\ now_ms' = [now_ms EXCEPT ![p] = now]
        /\ UNCHANGED <<now, m_timer, m_next, m_ms, m_cb, m_tickled, m_previousTime, made, ended, setBack, lagged>>
    BY <1>2 DEF ReadClock
  <2>2. TypeOK'
    BY <1>t, <2>1 DEF TypeOK
  <2>3. \A q \in Pollers : Recent(q) => Recent(q)'
    BY <1>t, <1>n, <2>1 DEF TypeOK, Recent
  <2>4. \A q \in Pollers : now_ms'[q] \in {now, now_ms[q]}
    BY <1>t, <2>1 DEF TypeOK
  <2>5. ClockAhead' /\ NoLaggard'
    BY <1>n, <2>1, <2>3, <2>4 DEF Inv, ClockAhead, NoLaggard
  <2>6. CbIffInSet' /\ WithinPeriod' /\ CbUntilEnded' /\ NextAfterMs'
    BY <2>1 DEF Inv, Consistent, CbIffInSet, WithinPeriod, CbUntilEnded, NextAfterMs
  <2> QED
    BY <2>2, <2>5, <2>6 DEF Inv, Consistent
<1>3. ASSUME pc' = [pc EXCEPT ![p] = "next"], now_ms' = [now_ms EXCEPT ![p] = 0],
             m_previousTime' \in {m_previousTime, now_ms[p]},
             UNCHANGED <<now, setBack, lagged>>
      PROVE  /\ pc' \in [Pollers -> {"next", "wait", "check", "collect"}] /\ now_ms' \in [Pollers -> Nat]
             /\ m_previousTime' \in Nat /\ ClockAhead' /\ NoLaggard'
  <2>1. \A q \in Pollers : Recent(q) => Recent(q)'
    BY <1>t, <1>3 DEF TypeOK, Recent
  <2>2. \A q \in Pollers : now_ms'[q] \in {0, now_ms[q]}
    BY <1>t, <1>3 DEF TypeOK
  <2>3. ClockAhead'
    BY <1>t, <1>n, <1>3, <2>2 DEF Inv, ClockAhead, TypeOK
  <2>4. NoLaggard'
    BY <1>3, <2>1 DEF Inv, NoLaggard
  <2> QED
    BY <1>t, <1>3, <2>3, <2>4 DEF TypeOK
<1>4. CASE CheckEmpty(p)
  <2>1. UNCHANGED <<now, m_timer, m_next, m_ms, m_cb, m_tickled, m_previousTime, made, ended, setBack, lagged>>
    BY <1>4 DEF CheckEmpty
  <2>2. CbIffInSet' /\ WithinPeriod' /\ CbUntilEnded' /\ NextAfterMs'
    BY <2>1 DEF Inv, Consistent, CbIffInSet, WithinPeriod, CbUntilEnded, NextAfterMs
  <2>3. CASE Return(p)
    <3>1. /\ pc' \in [Pollers -> {"next", "wait", "check", "collect"}] /\ now_ms' \in [Pollers -> Nat]
          /\ ClockAhead' /\ NoLaggard'
      BY <1>3, <2>1, <2>3 DEF Return
    <3>2. TypeOK'
      BY <1>t, <2>1, <3>1 DEF TypeOK
    <3> QED
      BY <2>2, <3>1, <3>2 DEF Inv, Consistent
  <2>4. CASE pc' = [pc EXCEPT ![p] = "collect"] /\ UNCHANGED now_ms
    <3>1. TypeOK'
      BY <1>t, <2>1, <2>4 DEF TypeOK
    <3>2. \A q \in Pollers : Recent(q) => Recent(q)'
      BY <1>t, <1>4, <2>1, <2>4 DEF TypeOK, Recent, CheckEmpty
    <3>3. ClockAhead' /\ NoLaggard'
      BY <2>1, <2>4, <3>2 DEF Inv, ClockAhead, NoLaggard
    <3> QED
      BY <2>2, <3>1, <3>3 DEF Inv, Consistent
  <2> QED
    BY <1>4, <2>3, <2>4 DEF CheckEmpty
<1>5. CASE Collect(p)
  <2> DEFINE n == now_ms[p]
             gone == Expired(now_ms[p])
  <2>1. /\ m_previousTime' = n /\ m_timer' = m_timer \ (gone \ Recurring)
        /\ m_next' = [t \in Timers |-> IF t \in gone \cap Recurring THEN n + m_ms[t] ELSE m_next[t]]
        /\ m_cb' = [t \in Timers |-> m_cb[t] /\ t \notin gone \ Recurring]
        /\ ended' = [t \in Timers |-> IF t \in gone \ Recurring THEN "fired" ELSE ended[t]]
        /\ Return(p) /\ UNCHANGED <<now, m_ms, m_tickled, made, setBack, lagged>>
    BY <1>5 DEF Collect
  <2>2. n \in Nat /\ (~setBack => n <= now)
    BY <1>t DEF TypeOK, Inv, ClockAhead
  <2>3. gone \subseteq m_timer
    BY DEF Expired
  <2> HIDE DEF n, gone
  <2>4. /\ pc' \in [Pollers -> {"next", "wait", "check", "collect"}] /\ now_ms' \in [Pollers -> Nat]
        /\ m_previousTime' \in Nat /\ ClockAhead' /\ NoLaggard'
    BY <1>3, <2>1 DEF Return, n
  <2>5. m_next' \in [Timers -> Nat]
    <3>1. \A t \in Timers : n + m_ms[t] \in Nat
      BY <1>t, <2>2 DEF TypeOK
    <3> QED
      BY <1>t, <2>1, <3>1 DEF TypeOK
  <2>6. m_cb' \in [Timers -> BOOLEAN]
    BY <2>1, Zenon
  <2>7. ended' \in [Timers -> {"no", "fired", "cancelled"}]
    BY <1>t, <2>1 DEF TypeOK
  <2>8. TypeOK'
    BY <1>t, <2>1, <2>4, <2>5, <2>6, <2>7 DEF TypeOK
  <2>9. \A t \in Timers : /\ m_cb'[t] <=> m_cb[t] /\ t \notin gone \ Recurring
                          /\ t \in m_timer' <=> t \in m_timer /\ t \notin gone \ Recurring
                          /\ t \in gone \ Recurring => ended'[t] = "fired" /\ t \in m_timer
                          /\ t \notin gone \ Recurring => ended'[t] = ended[t]
    BY <1>t, <2>1, <2>3, Zenon DEF TypeOK
  <2>10. CbIffInSet' /\ CbUntilEnded'
    BY <2>1, <2>9 DEF Inv, Consistent, CbIffInSet, CbUntilEnded
  <2>11. \A t \in Timers : m_next'[t] \in {n + m_ms[t], m_next[t]}
    BY <2>1
  <2>12. WithinPeriod' /\ NextAfterMs'
    <3>1. ASSUME NEW t \in Timers
          PROVE  m_next'[t] >= m_ms[t] /\ (~setBack /\ t \in made => m_next'[t] <= now + m_ms[t])
      <4>1. m_next[t] \in Nat /\ m_ms[t] \in Nat
        BY <1>t DEF TypeOK
      <4> QED
        BY <1>n, <2>2, <2>11, <4>1 DEF Inv, Consistent, WithinPeriod, NextAfterMs
    <3> QED
      BY <1>t, <2>1, <3>1 DEF WithinPeriod, NextAfterMs, TypeOK
  <2> QED
    BY <2>4, <2>8, <2>10, <2>12 DEF Inv, Consistent
<1> QED
  BY <1>1, <1>2, <1>4, <1>5 DEF Poll

(* Time passes: a poller that holds its value for an hour makes a laggard. *)
LEMMA TickInv == Inv /\ Tick => Inv'
<1> SUFFICES ASSUME Inv, Tick PROVE Inv'
  OBVIOUS
<1>t. TypeOK
  BY DEF Inv, Consistent
<1>1. now' = now + 1 /\ now \in Nat /\ Hour \in Nat
  BY <1>t, TimersAssumption DEF Tick, TypeOK
<1>2. UNCHANGED <<m_timer, m_next, m_ms, m_cb, m_tickled, m_previousTime, pc, now_ms, made, ended, setBack>>
  BY DEF Tick
<1>3. lagged' = (lagged \/ \E p \in Pollers : pc[p] \in {"check", "collect"} /\ now_ms[p] + Hour < now')
  BY DEF Tick
<1>4. lagged' \in BOOLEAN
  BY <1>t, <1>3, Zenon DEF TypeOK
<1>5. TypeOK'
  BY <1>t, <1>1, <1>2, <1>4 DEF TypeOK
<1>6. ~lagged' => \A p \in Pollers : Recent(p)'
  <2>1. ~lagged' => \A p \in Pollers : ~(pc[p] \in {"check", "collect"} /\ now_ms[p] + Hour < now')
    BY <1>3, Zenon
  <2>2. \A p \in Pollers : now_ms[p] \in Nat
    BY <1>t DEF TypeOK
  <2>3. \A p \in Pollers :
          ~(pc[p] \in {"check", "collect"} /\ now_ms[p] + Hour < now') => Recent(p)'
    BY <1>1, <1>2, <2>2 DEF Recent
  <2> QED
    BY <2>1, <2>3, Zenon
<1>7. ClockAhead' /\ NoLaggard'
  BY <1>t, <1>1, <1>2, <1>6 DEF Inv, ClockAhead, NoLaggard, TypeOK
<1>8. CbIffInSet' /\ CbUntilEnded' /\ NextAfterMs'
  BY <1>2 DEF Inv, Consistent, CbIffInSet, CbUntilEnded, NextAfterMs
<1>9. WithinPeriod'
  <2>1. \A t \in Timers : m_next[t] \in Nat /\ m_ms[t] \in Nat
    BY <1>t DEF TypeOK
  <2> QED
    BY <1>t, <1>1, <1>2, <2>1 DEF Inv, Consistent, WithinPeriod, TypeOK
<1> QED
  BY <1>5, <1>7, <1>8, <1>9 DEF Inv, Consistent

LEMMA SetBackInv == Inv /\ SetBack => Inv'
<1> SUFFICES ASSUME Inv, SetBack PROVE Inv'
  OBVIOUS
<1>t. TypeOK
  BY DEF Inv, Consistent
<1>1. /\ setBack' = TRUE /\ now' \in 0..(now - 1)
      /\ UNCHANGED <<m_timer, m_next, m_ms, m_cb, m_tickled, m_previousTime, pc, now_ms, made, ended, lagged>>
  BY DEF SetBack
<1>2. TypeOK'
  BY <1>t, <1>1 DEF TypeOK
<1>3. ClockAhead' /\ NoLaggard' /\ WithinPeriod'
  BY <1>1 DEF ClockAhead, NoLaggard, WithinPeriod
<1>4. CbIffInSet' /\ CbUntilEnded' /\ NextAfterMs'
  BY <1>1 DEF Inv, Consistent, CbIffInSet, CbUntilEnded, NextAfterMs
<1> QED
  BY <1>2, <1>3, <1>4 DEF Inv, Consistent

LEMMA StutterInv == Inv /\ UNCHANGED vars => Inv'
BY DEF Inv, Consistent, TypeOK, CbIffInSet, WithinPeriod, CbUntilEnded, NextAfterMs, ClockAhead,
       NoLaggard, Recent, vars

LEMMA InvHolds == Spec => []Inv
<1>1. Inv /\ [Next]_vars => Inv'
  BY UserInv, PollInv, TickInv, SetBackInv, StutterInv DEF Next
<1> QED
  BY InitInv, <1>1, PTL DEF Spec

(* timer.cc with the idle loop around it: whatever users and pollers interleave, a timer
   has its callback exactly while it is in the set or not yet added, so that cancel() may
   erase what find() returns, and refresh() can only move a deadline later. *)
THEOREM TimersCorrect == Spec => []Consistent
<1>1. Inv => Consistent
  BY DEF Inv
<1> QED
  BY InvHolds, <1>1, PTL
-----------------------------------------------------------------------------
(* The manager implements its contract. *)

Status(t) == IF t \in m_timer THEN "pending" ELSE IF ended[t] = "no" THEN "none" ELSE ended[t]
Promise == [t \in Timers |-> Status(t)]

LEMMA InitImplements == Init => Contract!Init
BY TimersAssumption DEF Init, Contract!Init

(* A user's step arms, moves or cancels one timer. *)
LEMMA UserImplements ==
  ASSUME Inv, Inv', NEW t \in Timers, User(t) PROVE [Contract!Next]_(Contract!vars)
<1>t. TypeOK /\ TypeOK'
  BY DEF Inv, Consistent
<1>0. UNCHANGED <<now, setBack, lagged>>
  BY DEF User, Construct, AddTimer, Cancel, Refresh, Reset
<1>1. ASSUME Status(t) \in {"none", "pending"}, UNCHANGED <<m_timer, ended>>,
             \A s \in Timers \ {t} : m_next'[s] = m_next[s]
      PROVE  Contract!Move(t)
  BY <1>t, <1>0, <1>1 DEF Contract!Move, Status, TypeOK
<1>2. CASE Construct(t)
  <2>1. t \notin made /\ UNCHANGED <<m_timer, ended>> /\ \A s \in Timers \ {t} : m_next'[s] = m_next[s]
    BY <1>t, <1>2 DEF Construct, TypeOK
  <2>2. Status(t) = "none"
    BY <2>1, CbOf DEF Status, Inv, CbUntilEnded
  <2> QED
    BY <1>1, <2>1, <2>2 DEF Contract!Next
<1>3. CASE AddTimer(t)
  <2>1. t \notin m_timer /\ ended[t] = "no" /\ m_timer' = m_timer \cup {t} /\ UNCHANGED <<ended, m_next>>
    BY <1>3 DEF AddTimer, Insert
  <2>2. Contract!Arm(t)
    BY <1>0, <2>1 DEF Contract!Arm
  <2> QED
    BY <2>2 DEF Contract!Next
<1>4. CASE Cancel(t)
  <2>1. t \in m_timer
    BY <1>4, CbOf DEF Cancel
  <2>2. m_timer' = m_timer \ {t} /\ ended' = [ended EXCEPT ![t] = "cancelled"] /\ m_next' = m_next
    BY <1>4 DEF Cancel
  <2>3. Contract!Cancel(t)
    BY <1>t, <1>0, <2>1, <2>2 DEF Contract!Cancel, TypeOK
  <2> QED
    BY <2>3 DEF Contract!Next
<1>5. CASE Refresh(t)
  <2>1. /\ t \in m_timer /\ UNCHANGED <<m_timer, ended>>
        /\ \A s \in Timers \ {t} : m_next'[s] = m_next[s]
    BY <1>t, <1>5 DEF Refresh, TypeOK
  <2> QED
    BY <1>1, <2>1 DEF Contract!Next, Status
<1>6. CASE Reset(t)
  <2>1. /\ t \in m_timer /\ UNCHANGED <<m_timer, ended>>
        /\ \A s \in Timers \ {t} : m_next'[s] = m_next[s]
    BY <1>t, <1>6 DEF Reset, Insert, TypeOK
  <2> QED
    BY <1>1, <2>1 DEF Contract!Next, Status
<1> QED
  BY <1>2, <1>3, <1>4, <1>5, <1>6 DEF User

(* Nothing is due for a poller that is not due by the clock, or there is an excuse. *)
LEMMA DueOrExcused ==
  ASSUME Inv, NEW p \in Pollers, pc[p] = "collect", NEW t \in Expired(now_ms[p])
  PROVE  t \in m_timer /\ (m_next[t] <= now \/ setBack \/ lagged)
<1>1. t \in m_timer /\ t \in Timers
  BY DEF Expired, Inv, Consistent, TypeOK
<1>2. /\ m_next[t] \in Nat /\ now \in Nat /\ now_ms[p] \in Nat /\ m_previousTime \in Nat /\ Hour \in Nat
  BY <1>1, TimersAssumption DEF Inv, Consistent, TypeOK
<1> SUFFICES ASSUME ~setBack, ~lagged PROVE m_next[t] <= now
  BY <1>1
<1>3. m_previousTime <= now /\ now_ms[p] <= now
  BY DEF Inv, ClockAhead
<1>4. now <= now_ms[p] + Hour
  BY DEF Inv, NoLaggard, Recent
<1>5. ~Rollover(now_ms[p])
  BY <1>2, <1>3, <1>4 DEF Rollover
<1>6. m_next[t] <= now_ms[p]
  BY <1>5 DEF Expired
<1> QED
  BY <1>2, <1>3, <1>6

(* A collection that finds something fires a batch; the rest of the idle loop is silent. *)
LEMMA CollectImplements ==
  ASSUME Inv, Inv', NEW p \in Pollers, Collect(p) PROVE [Contract!Next]_(Contract!vars)
<1>t. TypeOK /\ TypeOK'
  BY DEF Inv, Consistent
<1> DEFINE n == now_ms[p]
           gone == Expired(now_ms[p])
<1>1. /\ m_timer' = m_timer \ (gone \ Recurring)
      /\ m_next' = [t \in Timers |-> IF t \in gone \cap Recurring THEN n + m_ms[t] ELSE m_next[t]]
      /\ ended' = [t \in Timers |-> IF t \in gone \ Recurring THEN "fired" ELSE ended[t]]
      /\ UNCHANGED <<now, setBack, lagged>>
  BY DEF Collect
<1>2. gone \subseteq m_timer /\ \A t \in gone : m_next[t] <= now \/ setBack \/ lagged
  BY DueOrExcused DEF Collect, Expired
<1>3. m_timer \subseteq Timers
  BY <1>t DEF TypeOK
<1> HIDE DEF n, gone
<1>4. CASE gone = {}
  <2>1. m_timer' = m_timer /\ m_next' = m_next /\ ended' = ended
    BY <1>t, <1>1, <1>4 DEF TypeOK
  <2> QED
    BY <1>1, <2>1 DEF Contract!vars
<1>5. CASE gone # {}
  <2>1. \A t \in gone : t \in Timers /\ Promise[t] = "pending"
    BY <1>2, <1>3 DEF Promise, Status
  <2>2. Promise' = [t \in Timers |-> IF t \in gone \ Recurring THEN "fired" ELSE Promise[t]]
    BY <1>1, <1>2 DEF Promise, Status
  <2>3. m_next' \in [Timers -> Nat] /\ \A t \in Timers \ (gone \cap Recurring) : m_next'[t] = m_next[t]
    BY <1>t, <1>1 DEF TypeOK
  <2>4. Contract!Fire
    BY <1>1, <1>2, <1>5, <2>1, <2>2, <2>3 DEF Contract!Fire, Promise, Status
  <2> QED
    BY <2>4 DEF Contract!Next
<1> QED
  BY <1>4, <1>5

LEMMA StepImplements == Inv /\ Inv' /\ [Next]_vars => [Contract!Next]_(Contract!vars)
<1> SUFFICES ASSUME Inv, Inv', [Next]_vars PROVE [Contract!Next]_(Contract!vars)
  OBVIOUS
<1>t. TypeOK /\ TypeOK'
  BY DEF Inv, Consistent
<1>1. CASE \E t \in Timers : User(t)
  BY <1>1, UserImplements
<1>2. CASE \E p \in Pollers : Collect(p)
  BY <1>2, CollectImplements
<1>3. CASE \E p \in Pollers : GetNextTimer(p) \/ ReadClock(p) \/ CheckEmpty(p)
  BY <1>3 DEF GetNextTimer, ReadClock, CheckEmpty, Contract!vars
<1>4. CASE Tick \/ SetBack
  <2>1. UNCHANGED <<m_timer, ended, m_next>> /\ now' \in Nat
    BY <1>t, <1>4 DEF Tick, SetBack, TypeOK
  <2>2. (setBack \/ lagged)' \in BOOLEAN
    BY <1>t DEF TypeOK
  <2>3. setBack \/ lagged => (setBack \/ lagged)'
    BY <1>4, Zenon DEF Tick, SetBack
  <2>4. now' < now => setBack'
    BY <1>t, <1>4 DEF Tick, SetBack, TypeOK
  <2>5. Contract!Time
    BY <2>1, <2>2, <2>3, <2>4 DEF Contract!Time
  <2> QED
    BY <2>5 DEF Contract!Next
<1>5. CASE UNCHANGED vars
  BY <1>5 DEF vars, Contract!vars
<1> QED
  BY <1>1, <1>2, <1>3, <1>4, <1>5 DEF Next, Poll

(* timer.h as a promise: a timer is pending from addTimer on, a one-shot one fires once or
   is cancelled, never both, and nothing fires before its time without an excuse of the
   clock.  Holds for any number of pollers that read the clock outside the lock. *)
THEOREM ContractImplemented == Spec => ContractHolds
BY InvHolds, InitImplements, StepImplements, PTL DEF Spec, ContractHolds, Contract!Spec
=============================================================================
