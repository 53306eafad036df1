--------------------------- MODULE IOEvents_proofs ---------------------------
(* Theorems about IOEvents for every number of descriptors, events and
   pollers. *)
EXTENDS IOEvents, FiniteSetTheorems, TLAPS

(* Types of what the contexts and the kernel know of each descriptor. *)
Types ==
  /\ open \in SUBSET Fds /\ listed \in SUBSET Fds
  /\ ready \in [Fds -> SUBSET (Events \cup {Hup})]
  /\ interest \in [Fds -> SUBSET Events]
  /\ events \in [Fds -> SUBSET Events]
  /\ context \in [Fds -> SUBSET Events]
  /\ batch \in [Pollers -> SUBSET Report]
  /\ tasks \in [Fds -> [Events -> Nat]]
  /\ closing \in SUBSET Fds /\ stranded \in SUBSET Fds
  /\ aborted \in BOOLEAN

(* The contexts of all descriptors agree with epoll and with the queue. *)
Agree == ContextMatches /\ WokenOnce /\ InterestMatches

Inv == Types /\ Agree

LEMMA InitInv == Init => Inv
<1> SUFFICES ASSUME Init PROVE Inv
  OBVIOUS
<1>1. Types
  <2>1. tasks \in [Fds -> [Events -> Nat]]
    BY DEF Init
  <2>2. /\ ready \in [Fds -> SUBSET (Events \cup {Hup})]
        /\ interest \in [Fds -> SUBSET Events] /\ events \in [Fds -> SUBSET Events]
        /\ context \in [Fds -> SUBSET Events]
    BY DEF Init
  <2>3. batch \in [Pollers -> SUBSET Report]
    BY DEF Init
  <2> QED
    BY <2>1, <2>2, <2>3 DEF Init, Types
<1>2. Agree
  BY DEF Init, Agree, ContextMatches, WokenOnce, InterestMatches
<1> QED
  BY <1>1, <1>2 DEF Inv

-----------------------------------------------------------------------------
(* What a trigger for the events S of one descriptor does. *)
LEMMA TriggerInv ==
  ASSUME Inv, NEW fd \in Fds, NEW S \in SUBSET events[fd], Trigger(fd, S)
  PROVE  /\ events' \in [Fds -> SUBSET Events] /\ context' = events'
         /\ tasks' \in [Fds -> [Events -> Nat]]
         /\ WokenOnce'
<1> USE DEF Inv, Types, Agree, ContextMatches
<1>1. events' \in [Fds -> SUBSET Events] /\ context' = events'
  BY DEF Trigger
<1>2. ASSUME NEW g \in Fds, NEW e \in Events
      PROVE  /\ tasks'[g][e] = IF g = fd /\ e \in S THEN tasks[g][e] + 1 ELSE tasks[g][e]
             /\ e \in events'[g] <=> e \in events[g] /\ ~(g = fd /\ e \in S)
  BY <1>2 DEF Trigger
<1>3. tasks' \in [Fds -> [Events -> Nat]]
  BY DEF Trigger
<1>4. WokenOnce'
  <2> SUFFICES ASSUME NEW g \in Fds, NEW e \in Events
               PROVE  tasks'[g][e] + (IF e \in events'[g] THEN 1 ELSE 0) <= 1
    BY DEF WokenOnce
  <2>1. tasks[g][e] \in Nat /\ tasks[g][e] + (IF e \in events[g] THEN 1 ELSE 0) <= 1
    BY DEF WokenOnce
  <2>2. CASE g = fd /\ e \in S
    BY <1>2, <2>1, <2>2
  <2>3. CASE ~(g = fd /\ e \in S)
    BY <1>2, <2>1, <2>3
  <2> QED
    BY <2>2, <2>3
<1> QED
  BY <1>1, <1>3, <1>4

(* A successful epoll_ctl leaves the other descriptors alone. *)
LEMMA WatchFacts ==
  ASSUME Types, NEW fd \in Fds, NEW W \in SUBSET Events, Watch(fd, W)
  PROVE  /\ interest' \in [Fds -> SUBSET Events] /\ listed' \in SUBSET Fds
         /\ open' = open /\ ready' = ready
         /\ interest'[fd] = W
         /\ \A g \in Fds \ {fd} : interest'[g] = interest[g]
BY DEF Types, Watch

LEMMA RealEventsType ==
  ASSUME Types, NEW p \in Pollers, NEW r \in batch[p]
  PROVE  r \in Report /\ r.fd \in Fds /\ RealEvents(r) \in SUBSET Events
<1>1. r \in Report
  BY DEF Types
<1> QED
  BY <1>1 DEF Types, Report, RealEvents

(* Trigger and epoll_ctl together, for the events S of one descriptor. *)
LEMMA WatchAndTrigger ==
  ASSUME Inv, NEW fd \in Fds, NEW S \in SUBSET events[fd],
         Watch(fd, events[fd] \ S), Trigger(fd, S),
         UNCHANGED <<closing, stranded, aborted>>,
         batch' \in [Pollers -> SUBSET Report]
  PROVE  Inv'
<1>1. /\ interest' \in [Fds -> SUBSET Events] /\ listed' \in SUBSET Fds
      /\ open' = open /\ ready' = ready
      /\ interest'[fd] = events[fd] \ S
      /\ \A g \in Fds \ {fd} : interest'[g] = interest[g]
  <2>1. events[fd] \ S \in SUBSET Events
    BY DEF Inv, Types
  <2> QED
    BY <2>1, WatchFacts DEF Inv
<1>2. /\ events' \in [Fds -> SUBSET Events] /\ context' = events'
      /\ tasks' \in [Fds -> [Events -> Nat]] /\ WokenOnce'
  BY TriggerInv
<1>3. Types'
  BY <1>1, <1>2 DEF Inv, Types
<1>4. InterestMatches'
  BY <1>1 DEF Inv, Types, Agree, InterestMatches, Trigger
<1> QED
  BY <1>2, <1>3, <1>4 DEF Inv, Agree, ContextMatches

LEMMA CancelAllInv ==
  ASSUME Inv, NEW fd \in Fds, CancelAllOn(fd),
         closing' \in SUBSET Fds, UNCHANGED <<batch, stranded, aborted>>
  PROVE  Inv'
<1>1. CASE Watch(fd, {}) /\ Trigger(fd, events[fd])
  <2>1. /\ interest' \in [Fds -> SUBSET Events] /\ listed' \in SUBSET Fds
        /\ open' = open /\ ready' = ready
        /\ interest'[fd] = {}
        /\ \A g \in Fds \ {fd} : interest'[g] = interest[g]
    BY <1>1, WatchFacts DEF Inv
  <2>2. /\ events' \in [Fds -> SUBSET Events] /\ context' = events'
        /\ tasks' \in [Fds -> [Events -> Nat]] /\ WokenOnce'
    BY <1>1, TriggerInv
  <2>3. Types'
    BY <2>1, <2>2 DEF Inv, Types
  <2>4. InterestMatches'
    BY <1>1, <2>1 DEF Inv, Types, Agree, InterestMatches, Trigger
  <2> QED
    BY <2>2, <2>3, <2>4 DEF Inv, Agree, ContextMatches
<1>2. CASE UNCHANGED <<kernelVars, contextVars>>
  BY <1>2 DEF Inv, Types, Agree, ContextMatches, WokenOnce, InterestMatches,
     kernelVars, contextVars
<1> QED
  BY <1>1, <1>2 DEF CancelAllOn

LEMMA NextInv == Inv /\ [Next]_vars => Inv'
<1> SUFFICES ASSUME Inv, [Next]_vars PROVE Inv'
  OBVIOUS
<1>1. ASSUME NEW fd \in Fds, Reopen(fd) PROVE Inv'
  BY <1>1 DEF Reopen, Inv, Types, Agree, ContextMatches, WokenOnce, InterestMatches,
     contextVars
<1>2. ASSUME NEW fd \in Fds, NEW e \in Events \cup {Hup}, Arrive(fd, e) PROVE Inv'
  BY <1>2 DEF Arrive, Inv, Types, Agree, ContextMatches, WokenOnce, InterestMatches,
     contextVars
<1>3. ASSUME NEW fd \in Fds, NEW e \in Events, AddEvent(fd, e) PROVE Inv'
  <2>1. events[fd] \cup {e} \in SUBSET Events
    BY DEF Inv, Types
  <2>2. /\ interest' \in [Fds -> SUBSET Events] /\ listed' \in SUBSET Fds
        /\ open' = open /\ ready' = ready
        /\ interest'[fd] = events[fd] \cup {e}
        /\ \A g \in Fds \ {fd} : interest'[g] = interest[g]
    BY <1>3, <2>1, WatchFacts DEF AddEvent, Inv
  <2>3. /\ events' \in [Fds -> SUBSET Events] /\ context' = events'
        /\ events' = [events EXCEPT ![fd] = events[fd] \cup {e}]
    BY <1>3 DEF AddEvent, Inv, Types, Agree, ContextMatches
  <2>4. Types'
    BY <1>3, <2>2, <2>3 DEF AddEvent, Inv, Types
  <2>5. InterestMatches'
    BY <1>3, <2>2, <2>3 DEF AddEvent, Inv, Types, Agree, InterestMatches
  <2>6. WokenOnce'
    <3> SUFFICES ASSUME NEW g \in Fds, NEW d \in Events
                 PROVE  (tasks[g][d] + (IF d \in events[g] THEN 1 ELSE 0) <= 1)'
      BY DEF WokenOnce
    <3>1. tasks'[g][d] = tasks[g][d] /\ tasks[g][d] \in Nat
      BY <1>3 DEF AddEvent, Inv, Types
    <3>2. CASE g = fd /\ d = e
      BY <1>3, <3>1, <3>2 DEF AddEvent
    <3>3. CASE ~(g = fd /\ d = e)
      <4>1. d \in events'[g] <=> d \in events[g]
        BY <2>3, <3>3 DEF Inv, Types
      <4> QED
        BY <3>1, <4>1 DEF Inv, Agree, WokenOnce
    <3> QED
      BY <3>2, <3>3
  <2> QED
    BY <2>3, <2>4, <2>5, <2>6 DEF Inv, Agree, ContextMatches
<1>4. ASSUME NEW fd \in Fds, NEW e \in Events, DelEvent(fd, e) PROVE Inv'
  <2>1. events[fd] \ {e} \in SUBSET Events
    BY DEF Inv, Types
  <2>2. /\ interest' \in [Fds -> SUBSET Events] /\ listed' \in SUBSET Fds
        /\ open' = open /\ ready' = ready
        /\ interest'[fd] = events[fd] \ {e}
        /\ \A g \in Fds \ {fd} : interest'[g] = interest[g]
    BY <1>4, <2>1, WatchFacts DEF DelEvent, Inv
  <2>3. /\ events' \in [Fds -> SUBSET Events] /\ context' = events'
        /\ events' = [events EXCEPT ![fd] = events[fd] \ {e}]
    BY <1>4 DEF DelEvent, Inv, Types, Agree, ContextMatches
  <2>4. Types'
    BY <1>4, <2>2, <2>3 DEF DelEvent, Inv, Types
  <2>5. InterestMatches'
    BY <1>4, <2>2, <2>3 DEF DelEvent, Inv, Types, Agree, InterestMatches
  <2>6. WokenOnce'
    <3> SUFFICES ASSUME NEW g \in Fds, NEW d \in Events
                 PROVE  (tasks[g][d] + (IF d \in events[g] THEN 1 ELSE 0) <= 1)'
      BY DEF WokenOnce
    <3>1. /\ tasks'[g][d] = tasks[g][d] /\ tasks[g][d] \in Nat
          /\ tasks[g][d] + (IF d \in events[g] THEN 1 ELSE 0) <= 1
      BY <1>4 DEF DelEvent, Inv, Types, Agree, WokenOnce
    <3>2. d \in events'[g] => d \in events[g]
      BY <2>3 DEF Inv, Types
    <3> QED
      BY <3>1, <3>2
  <2> QED
    BY <2>3, <2>4, <2>5, <2>6 DEF Inv, Agree, ContextMatches
<1>5. ASSUME NEW fd \in Fds, NEW e \in Events, CancelEvent(fd, e) PROVE Inv'
  <2>1. batch' \in [Pollers -> SUBSET Report] /\ {e} \in SUBSET events[fd]
    BY <1>5 DEF CancelEvent, Inv, Types
  <2> QED
    BY <1>5, <2>1, WatchAndTrigger DEF CancelEvent
<1>6. ASSUME NEW fd \in Fds, CancelAll(fd) PROVE Inv'
  BY <1>6, CancelAllInv DEF CancelAll, Inv, Types
<1>7. ASSUME NEW fd \in Fds, Close(fd) PROVE Inv'
  BY <1>7, CancelAllInv DEF Close, Inv, Types
<1>8. ASSUME NEW fd \in Fds, CloseF(fd) PROVE Inv'
  <2>1. Types'
    BY <1>8 DEF CloseF, Inv, Types, contextVars
  <2>2. InterestMatches'
    BY <1>8 DEF CloseF, Inv, Types, Agree, InterestMatches, contextVars
  <2>3. ContextMatches' /\ WokenOnce'
    BY <1>8 DEF CloseF, Inv, Agree, ContextMatches, WokenOnce, contextVars
  <2> QED
    BY <2>1, <2>2, <2>3 DEF Inv, Agree
<1>9. ASSUME NEW fd \in Fds, NEW e \in Events, RunTask(fd, e) PROVE Inv'
  <2>1. /\ tasks' = [tasks EXCEPT ![fd][e] = tasks[fd][e] - 1]
        /\ tasks[fd][e] \in Nat /\ tasks[fd][e] > 0
    BY <1>9 DEF RunTask, Inv, Types
  <2>2. tasks' \in [Fds -> [Events -> Nat]]
    BY <2>1 DEF Inv, Types
  <2>3. Types'
    BY <1>9, <2>2 DEF RunTask, Inv, Types
  <2>4. WokenOnce'
    <3> SUFFICES ASSUME NEW g \in Fds, NEW d \in Events
                 PROVE  (tasks[g][d] + (IF d \in events[g] THEN 1 ELSE 0) <= 1)'
      BY DEF WokenOnce
    <3>1. /\ tasks[g][d] \in Nat /\ events' = events
          /\ tasks[g][d] + (IF d \in events[g] THEN 1 ELSE 0) <= 1
      BY <1>9 DEF RunTask, Inv, Types, Agree, WokenOnce
    <3>2. tasks'[g][d] = tasks[g][d] \/ tasks'[g][d] = tasks[g][d] - 1
      BY <2>1 DEF Inv, Types
    <3> QED
      BY <3>1, <3>2
  <2> QED
    BY <1>9, <2>3, <2>4 DEF RunTask, Inv, Agree, ContextMatches, InterestMatches
<1>10. ASSUME NEW p \in Pollers, EpollWait(p) PROVE Inv'
  <2>1. \A fd \in Fds : Reported(fd, interest[fd]) \in SUBSET (Events \cup {Hup})
    BY DEF Inv, Types, Reported
  <2>2. batch' \in [Pollers -> SUBSET Report]
    BY <1>10, <2>1 DEF EpollWait, Inv, Types, Report
  <2> QED
    BY <1>10, <2>2 DEF EpollWait, Inv, Types, Agree, ContextMatches, WokenOnce,
       InterestMatches, contextVars
<1>11. ASSUME NEW p \in Pollers, Skip(p) PROVE Inv'
  BY <1>11 DEF Skip, Handle, Inv, Types, Agree, ContextMatches, WokenOnce,
     InterestMatches, contextVars, kernelVars
<1>12. ASSUME NEW p \in Pollers, Dispatch(p) PROVE Inv'
  <2>1. PICK r \in batch[p] :
           /\ RealEvents(r) \subseteq events[r.fd]
           /\ Watch(r.fd, events[r.fd] \ RealEvents(r))
           /\ Trigger(r.fd, RealEvents(r))
           /\ Handle(p, r)
           /\ UNCHANGED <<closing, stranded, aborted>>
    BY <1>12 DEF Dispatch
  <2>2. r.fd \in Fds
    BY RealEventsType DEF Inv
  <2>3. batch' \in [Pollers -> SUBSET Report]
    BY <2>1 DEF Handle, Inv, Types
  <2> QED
    BY <2>1, <2>2, <2>3, WatchAndTrigger
<1>13. ASSUME NEW p \in Pollers, DispatchAsserts(p) PROVE Inv'
  BY <1>13 DEF DispatchAsserts, Inv, Types, Agree, ContextMatches, WokenOnce,
     InterestMatches, contextVars, kernelVars
<1>14. ASSUME UNCHANGED vars PROVE Inv'
  BY <1>14 DEF vars, Inv, Types, Agree, ContextMatches, WokenOnce, InterestMatches,
     contextVars, kernelVars
<1> QED
  BY <1>1, <1>2, <1>3, <1>4, <1>5, <1>6, <1>7, <1>8, <1>9, <1>10, <1>11, <1>12, <1>13,
     <1>14 DEF Next, Kernel, User, Poll

(* What epoll watches is what the contexts wait for, except for descriptors
   that were closed with events pending. *)
THEOREM InterestCorrect == Spec => []InterestMatches
<1>1. Inv => InterestMatches
  BY DEF Inv, Agree
<1> QED
  BY InitInv, NextInv, <1>1, PTL DEF Spec

(* The fiber or callback of a registration is handed to the scheduler at most
   once, whoever triggers it: a poller, a cancel or a close. *)
THEOREM WokenOnceCorrect == Spec => []WokenOnce
<1>1. Inv => WokenOnce
  BY DEF Inv, Agree
<1> QED
  BY InitInv, NextInv, <1>1, PTL DEF Spec

(* The EventContexts in use are those whose bit is set. *)
THEOREM ContextCorrect == Spec => []ContextMatches
<1>1. Inv => ContextMatches
  BY DEF Inv, Agree
<1> QED
  BY InitInv, NextInv, <1>1, PTL DEF Spec
-----------------------------------------------------------------------------
(* The count of pending events. *)
Pairs(fd, S) == {fd} \X S
LEMMA PairsCount ==
  ASSUME NEW fd, NEW S, IsFiniteSet(S)
  PROVE  IsFiniteSet(Pairs(fd, S)) /\ Cardinality(Pairs(fd, S)) = Cardinality(S)
<1> DEFINE f == [e \in S |-> <<fd, e>>]
<1>1. f \in Bijection(S, Pairs(fd, S))
  BY DEF Bijection, Injection, Surjection, IsInjective, Pairs
<1>2. ExistsBijection(S, Pairs(fd, S))
  BY <1>1 DEF ExistsBijection
<1> QED
  BY <1>2, FS_Bijection

LEMMA PendingFinite == IsFiniteSet(Pending) /\ Cardinality(Pending) \in Nat
<1>1. IsFiniteSet(Fds \X Events)
  BY EventsAssumption, FS_Product
<1> QED
  BY <1>1, FS_Subset, FS_CardinalityType DEF Pending

(* The events S of one descriptor are registered, or are not any more. *)
LEMMA PendingMoves ==
  ASSUME Types, Types', NEW fd \in Fds, NEW S \in SUBSET Events,
         \A g \in Fds \ {fd} : events'[g] = events[g]
  PROVE  /\ events'[fd] = events[fd] \ S /\ S \subseteq events[fd]
              => Cardinality(Pending') = Cardinality(Pending) - Cardinality(S)
         /\ events'[fd] = events[fd] \cup S /\ S \cap events[fd] = {}
              => Cardinality(Pending') = Cardinality(Pending) + Cardinality(S)
<1> DEFINE P == Pending
           Q == Pending'
           X == Pairs(fd, S)
<1>1. IsFiniteSet(S) /\ Cardinality(S) \in Nat
  BY EventsAssumption, FS_Subset, FS_CardinalityType
<1>2. IsFiniteSet(X) /\ Cardinality(X) = Cardinality(S)
  BY <1>1, PairsCount
<1>3. IsFiniteSet(P) /\ Cardinality(P) \in Nat
  BY PendingFinite
<1>4. IsFiniteSet(Q) /\ Cardinality(Q) \in Nat
  <2>1. IsFiniteSet(Fds \X Events)
    BY EventsAssumption, FS_Product
  <2> QED
    BY <2>1, FS_Subset, FS_CardinalityType DEF Pending
<1>5. Cardinality({}) = 0
  BY FS_EmptySet
<1>6. ASSUME events'[fd] = events[fd] \ S, S \subseteq events[fd]
      PROVE  P = Q \cup X /\ Q \cap X = {}
  BY <1>6 DEF Pending, Pairs
<1>7. ASSUME events'[fd] = events[fd] \cup S, S \cap events[fd] = {}
      PROVE  Q = P \cup X /\ P \cap X = {}
  BY <1>7 DEF Pending, Pairs
<1> HIDE DEF P, Q, X
<1>8. ASSUME events'[fd] = events[fd] \ S, S \subseteq events[fd]
      PROVE  Cardinality(Q) = Cardinality(P) - Cardinality(S)
  <2>1. Cardinality(Q \cup X) = Cardinality(Q) + Cardinality(X) - Cardinality(Q \cap X)
    BY <1>2, <1>4, FS_Union
  <2>2. Cardinality(P) = Cardinality(Q) + Cardinality(S) - 0
    BY <1>2, <1>5, <1>6, <1>8, <2>1
  <2> QED
    BY <1>1, <1>4, <2>2
<1>9. ASSUME events'[fd] = events[fd] \cup S, S \cap events[fd] = {}
      PROVE  Cardinality(Q) = Cardinality(P) + Cardinality(S)
  <2>1. Cardinality(P \cup X) = Cardinality(P) + Cardinality(X) - Cardinality(P \cap X)
    BY <1>2, <1>3, FS_Union
  <2>2. Cardinality(Q) = Cardinality(P) + Cardinality(S) - 0
    BY <1>2, <1>5, <1>7, <1>9, <2>1
  <2> QED
    BY <1>1, <1>3, <2>2
<1> QED
  BY <1>8, <1>9 DEF P, Q

LEMMA NextPending ==
  ASSUME Inv, PendingExact, [Next]_vars
  PROVE  PendingExact'
<1> USE DEF Inv, PendingExact
<1>1. Types'
  BY NextInv
<1>2. ASSUME events' = events, m_pendingEventCount' = m_pendingEventCount PROVE PendingExact'
  BY <1>2 DEF Pending
<1>3. ASSUME NEW fd \in Fds, NEW S \in SUBSET events[fd], Trigger(fd, S) PROVE PendingExact'
  <2>1. events' = [events EXCEPT ![fd] = @ \ S] /\ m_pendingEventCount' = m_pendingEventCount - Cardinality(S)
    BY <1>3 DEF Trigger
  <2>2. events'[fd] = events[fd] \ S /\ \A g \in Fds \ {fd} : events'[g] = events[g]
    BY <2>1 DEF Types
  <2>3. S \in SUBSET Events
    BY DEF Types
  <2> QED
    BY <1>1, <2>1, <2>2, <2>3, PendingMoves
<1>4. ASSUME NEW fd \in Fds, NEW e \in Events, AddEvent(fd, e) PROVE PendingExact'
  <2>1. /\ e \notin events[fd] /\ events' = [events EXCEPT ![fd] = @ \cup {e}]
        /\ m_pendingEventCount' = m_pendingEventCount + 1
    BY <1>4 DEF AddEvent
  <2>2. events'[fd] = events[fd] \cup {e} /\ \A g \in Fds \ {fd} : events'[g] = events[g]
    BY <2>1 DEF Types
  <2>3. Cardinality(Pending') = Cardinality(Pending) + Cardinality({e})
    BY <1>1, <2>1, <2>2, PendingMoves
  <2> QED
    BY <2>1, <2>3, FS_Singleton
<1>5. ASSUME NEW fd \in Fds, NEW e \in Events, DelEvent(fd, e) PROVE PendingExact'
  <2>1. /\ e \in events[fd] /\ events' = [events EXCEPT ![fd] = @ \ {e}]
        /\ m_pendingEventCount' = m_pendingEventCount - 1
    BY <1>5 DEF DelEvent
  <2>2. events'[fd] = events[fd] \ {e} /\ \A g \in Fds \ {fd} : events'[g] = events[g]
    BY <2>1 DEF Types
  <2>3. Cardinality(Pending') = Cardinality(Pending) - Cardinality({e})
    BY <1>1, <2>1, <2>2, PendingMoves
  <2> QED
    BY <2>1, <2>3, FS_Singleton
<1>6. ASSUME NEW fd \in Fds, NEW e \in Events, CancelEvent(fd, e) PROVE PendingExact'
  BY <1>3, <1>6 DEF CancelEvent
<1>7. ASSUME NEW fd \in Fds, CancelAllOn(fd) PROVE PendingExact'
  BY <1>2, <1>3, <1>7 DEF CancelAllOn, contextVars
<1>8. ASSUME NEW p \in Pollers, Dispatch(p) PROVE PendingExact'
  <2>1. PICK r \in batch[p] : RealEvents(r) \subseteq events[r.fd] /\ Trigger(r.fd, RealEvents(r))
    BY <1>8 DEF Dispatch
  <2>2. r.fd \in Fds
    BY RealEventsType
  <2> QED
    BY <1>3, <2>1, <2>2
<1>9. ASSUME NEW fd \in Fds, NEW e \in Events \cup {Hup}, Arrive(fd, e) PROVE PendingExact'
  BY <1>2, <1>9 DEF Arrive, contextVars
<1>10. ASSUME NEW fd \in Fds, NEW e \in Events, RunTask(fd, e) PROVE PendingExact'
  BY <1>2, <1>10 DEF RunTask
<1>11. ASSUME NEW p \in Pollers, EpollWait(p) \/ Skip(p) \/ DispatchAsserts(p) PROVE PendingExact'
  BY <1>2, <1>11 DEF EpollWait, Skip, DispatchAsserts, contextVars
<1>12. ASSUME UNCHANGED vars PROVE PendingExact'
  BY <1>2, <1>12 DEF vars, contextVars
<1>13. ASSUME NEW fd \in Fds, Reopen(fd) \/ CloseF(fd) PROVE PendingExact'
  BY <1>2, <1>13 DEF Reopen, CloseF, contextVars
<1> QED
  BY <1>4, <1>5, <1>6, <1>7, <1>8, <1>9, <1>10, <1>11, <1>12, <1>13
     DEF Next, Kernel, User, Poll, CancelAll, Close

(* m_pendingEventCount is the number of registered events of all descriptors, whatever
   adds, deletes, cancels, closes and dispatches them (addEvent to cancelAll, idle). *)
THEOREM CountCorrect == Spec => []Consistent
<1>1. Init => Inv /\ PendingExact
  <2> SUFFICES ASSUME Init PROVE PendingExact
    BY InitInv
  <2>1. Pending = {} /\ m_pendingEventCount = 0
    BY DEF Init, Pending
  <2> QED
    BY <2>1, FS_EmptySet DEF PendingExact
<1>2. Inv /\ PendingExact /\ [Next]_vars => (Inv /\ PendingExact)'
  BY NextInv, NextPending
<1>3. Inv /\ PendingExact => Consistent
  BY PendingFinite DEF Inv, Types, TypeOK, Consistent, PendingExact
<1> QED
  BY <1>1, <1>2, <1>3, PTL DEF Spec
-----------------------------------------------------------------------------
(* No edge is lost. *)

(* A descriptor that is waited for is open, so epoll_ctl accepts what a poller that
   skips a report would have asked for. *)
WaitedOpen == \A fd \in Fds \ stranded : events[fd] # {} => fd \in open
EdgeInv == Inv /\ WaitedOpen /\ ReadyNoticed

(* After epoll_ctl for what a context waits for now, the descriptor is listed if it is ready. *)
LEMMA WatchNotices ==
  ASSUME Inv, NEW fd \in Fds, NEW W \in SUBSET Events, Watch(fd, W)
  PROVE  /\ \A e \in W : ready'[fd] \cap {e, Hup} # {} => fd \in listed'
         /\ \A g \in Fds \ {fd} : ready'[g] = ready[g] /\ (g \in listed => g \in listed')
BY DEF Watch, Reported

(* The step concerns one descriptor and takes no report of another from a poller. *)
LEMMA EdgeKept ==
  ASSUME EdgeInv, Inv', NEW fd \in Fds,
         \A g \in Fds \ {fd} :
           /\ events'[g] = events[g] /\ ready'[g] \subseteq ready[g]
           /\ g \in open => g \in open'
           /\ g \in listed => g \in listed'
           /\ \A p \in Pollers : \A r \in batch[p] : r.fd = g => r \in batch'[p],
         stranded \subseteq stranded',
         fd \notin stranded' /\ events'[fd] # {} => fd \in open',
         \A e \in events'[fd] : ready'[fd] \cap {e, Hup} # {} /\ fd \notin stranded' => Noticed(fd, e)'
  PROVE  EdgeInv'
<1>1. WaitedOpen'
  BY DEF EdgeInv, WaitedOpen
<1>2. ReadyNoticed'
  <2> SUFFICES ASSUME NEW g \in Fds, g \notin stranded', NEW e \in events'[g], ready'[g] \cap {e, Hup} # {}
               PROVE  Noticed(g, e)'
    BY DEF ReadyNoticed
  <2>1. CASE g = fd
    BY <2>1
  <2>2. CASE g # fd
    <3>1. Noticed(g, e)
      BY <2>2 DEF EdgeInv, ReadyNoticed
    <3> QED
      BY <2>2, <3>1 DEF Noticed
  <2> QED
    BY <2>1, <2>2
<1> QED
  BY <1>1, <1>2 DEF EdgeInv

(* epoll_ctl for what the context waits for after the step. *)
LEMMA EdgeWatched ==
  ASSUME EdgeInv, Inv', NEW fd \in Fds, NEW W \in SUBSET Events, Watch(fd, W), events'[fd] = W,
         W # {} => fd \in open,
         \A g \in Fds \ {fd} : events'[g] = events[g],
         \A p \in Pollers : \A r \in batch[p] : r.fd # fd => r \in batch'[p],
         stranded' = stranded
  PROVE  EdgeInv'
<1>1. /\ \A e \in W : ready'[fd] \cap {e, Hup} # {} => fd \in listed'
      /\ \A g \in Fds \ {fd} : ready'[g] = ready[g] /\ (g \in listed => g \in listed')
  BY WatchNotices DEF EdgeInv
<1>2. open' = open
  BY DEF Watch
<1>3. \A e \in events'[fd] : ready'[fd] \cap {e, Hup} # {} /\ fd \notin stranded' => Noticed(fd, e)'
  BY <1>1 DEF Noticed
<1>4. \A g \in Fds \ {fd} :
           /\ events'[g] = events[g] /\ ready'[g] \subseteq ready[g]
           /\ g \in open => g \in open'
           /\ g \in listed => g \in listed'
           /\ \A p \in Pollers : \A r \in batch[p] : r.fd = g => r \in batch'[p]
  BY <1>1, <1>2
<1> QED
  BY <1>2, <1>3, <1>4, EdgeKept

LEMMA NextEdge ==
  ASSUME EdgeInv, [Next]_vars
  PROVE  EdgeInv'
<1> USE DEF EdgeInv
<1>0. Inv'
  BY NextInv
<1>1. ASSUME NEW fd \in Fds, Reopen(fd) PROVE EdgeInv'
  <2>1. /\ open' = open \cup {fd} /\ ready' = ready /\ listed' = listed /\ events' = events /\ batch' = batch
        /\ stranded' = stranded
    BY <1>1 DEF Reopen, contextVars
  <2> QED
    BY <1>0, <2>1 DEF WaitedOpen, ReadyNoticed, Noticed
<1>2. ASSUME NEW fd \in Fds, NEW e \in Events \cup {Hup}, Arrive(fd, e) PROVE EdgeInv'
  <2>1. /\ open' = open /\ events' = events /\ batch' = batch /\ stranded' = stranded /\ fd \in open
        /\ ready' = [ready EXCEPT ![fd] = @ \cup {e}] /\ listed \subseteq listed'
        /\ interest[fd] # {} /\ e \in interest[fd] \cup {Hup} => fd \in listed'
    BY <1>2 DEF Arrive, contextVars
  <2>2. ready'[fd] = ready[fd] \cup {e} /\ \A g \in Fds \ {fd} : ready'[g] = ready[g]
    BY <2>1 DEF Inv, Types
  <2>3. \A d \in events'[fd] : ready'[fd] \cap {d, Hup} # {} /\ fd \notin stranded' => Noticed(fd, d)'
    <3> TAKE d \in events'[fd]
    <3> HAVE ready'[fd] \cap {d, Hup} # {} /\ fd \notin stranded'
    <3>1. interest[fd] = events[fd]
      BY <2>1 DEF Inv, Agree, InterestMatches
    <3>2. CASE e \in {d, Hup}
      BY <2>1, <3>1, <3>2 DEF Noticed
    <3>3. CASE e \notin {d, Hup}
      <4>1. ready[fd] \cap {d, Hup} # {}
        BY <2>2, <3>3
      <4>2. Noticed(fd, d)
        BY <2>1, <4>1 DEF ReadyNoticed
      <4> QED
        BY <2>1, <4>2 DEF Noticed
    <3> QED
      BY <3>2, <3>3
  <2> QED
    BY <1>0, <2>1, <2>2, <2>3, EdgeKept
<1>3. ASSUME NEW fd \in Fds, NEW e \in Events, AddEvent(fd, e) PROVE EdgeInv'
  <2>1. /\ Watch(fd, events[fd] \cup {e}) /\ fd \in open /\ events' = [events EXCEPT ![fd] = @ \cup {e}]
        /\ batch' = batch /\ stranded' = stranded
    BY <1>3 DEF AddEvent, Accepts
  <2>2. /\ events'[fd] = events[fd] \cup {e} /\ events[fd] \cup {e} \in SUBSET Events
        /\ \A g \in Fds \ {fd} : events'[g] = events[g]
    BY <2>1 DEF Inv, Types
  <2> QED
    BY <1>0, <2>1, <2>2, EdgeWatched
<1>4. ASSUME NEW fd \in Fds, NEW S \in SUBSET Events, Watch(fd, events[fd] \ S), fd \in open,
             events' = [events EXCEPT ![fd] = @ \ S], stranded' = stranded,
             \A p \in Pollers : \A r \in batch[p] : r.fd # fd => r \in batch'[p]
      PROVE  EdgeInv'
  <2>1. /\ events'[fd] = events[fd] \ S /\ events[fd] \ S \in SUBSET Events
        /\ \A g \in Fds \ {fd} : events'[g] = events[g]
    BY <1>4 DEF Inv, Types
  <2> QED
    BY <1>0, <1>4, <2>1, EdgeWatched
<1>5. ASSUME NEW fd \in Fds, NEW e \in Events, DelEvent(fd, e) \/ CancelEvent(fd, e) PROVE EdgeInv'
  <2>1. /\ Watch(fd, events[fd] \ {e}) /\ fd \in open /\ events' = [events EXCEPT ![fd] = @ \ {e}]
        /\ batch' = batch /\ stranded' = stranded
    BY <1>5 DEF DelEvent, CancelEvent, Trigger, Accepts
  <2> QED
    BY <1>4, <2>1
<1>6. ASSUME NEW fd \in Fds, CancelAllOn(fd), UNCHANGED <<batch, stranded>> PROVE EdgeInv'
  <2>1. CASE fd \in open /\ Watch(fd, {}) /\ Trigger(fd, events[fd])
    <3>1. events[fd] \ events[fd] = {} /\ events[fd] \in SUBSET Events
      BY DEF Inv, Types
    <3>2. Watch(fd, events[fd] \ events[fd])
      BY <2>1, <3>1
    <3>3. events' = [events EXCEPT ![fd] = @ \ events[fd]]
      BY <2>1 DEF Trigger
    <3> QED
      BY <1>4, <1>6, <2>1, <3>1, <3>2, <3>3
  <2>2. CASE UNCHANGED <<kernelVars, contextVars>>
    BY <1>0, <1>6, <2>2 DEF kernelVars, contextVars, WaitedOpen, ReadyNoticed, Noticed
  <2> QED
    BY <1>6, <2>1, <2>2 DEF CancelAllOn, Accepts
<1>7. ASSUME NEW fd \in Fds, CloseF(fd) PROVE EdgeInv'
  <2>1. /\ open' = open \ {fd} /\ ready' = [ready EXCEPT ![fd] = {}] /\ listed' = listed \ {fd}
        /\ events' = events /\ batch' = batch
        /\ stranded' = IF events[fd] # {} THEN stranded \cup {fd} ELSE stranded
    BY <1>7 DEF CloseF, contextVars
  <2>2. /\ events'[fd] = {} \/ fd \in stranded'
        /\ \A g \in Fds \ {fd} : ready'[g] = ready[g]
        /\ stranded \subseteq stranded'
    BY <2>1 DEF Inv, Types
  <2> QED
    BY <1>0, <2>1, <2>2, EdgeKept
<1>8. ASSUME NEW fd \in Fds, NEW e \in Events, RunTask(fd, e) PROVE EdgeInv'
  <2>1. /\ open' = open /\ listed' = listed /\ events' = events /\ batch' = batch /\ stranded' = stranded
        /\ \A g \in Fds : ready'[g] \subseteq ready[g]
    BY <1>8 DEF RunTask, Inv, Types
  <2>2. \A d \in events'[fd] : ready'[fd] \cap {d, Hup} # {} /\ fd \notin stranded' => Noticed(fd, d)'
    BY <2>1 DEF ReadyNoticed, Noticed
  <2>3. fd \notin stranded' /\ events'[fd] # {} => fd \in open'
    BY <2>1 DEF WaitedOpen
  <2> QED
    BY <1>0, <2>1, <2>2, <2>3, EdgeKept
<1>9. ASSUME NEW p \in Pollers, EpollWait(p) PROVE EdgeInv'
  <2>1. /\ open' = open /\ ready' = ready /\ events' = events /\ stranded' = stranded /\ batch[p] = {}
        /\ batch' = [batch EXCEPT ![p] =
             {r \in {[fd |-> fd, events |-> Reported(fd, interest[fd])] : fd \in listed} : r.events # {}}]
    BY <1>9 DEF EpollWait, contextVars
  <2>2. ASSUME NEW g \in Fds, g \notin stranded', NEW e \in events'[g], ready'[g] \cap {e, Hup} # {}
        PROVE  Noticed(g, e)'
    <3>1. Noticed(g, e)
      BY <2>1, <2>2 DEF ReadyNoticed
    <3>2. CASE g \in listed
      <4> DEFINE r == [fd |-> g, events |-> Reported(g, interest[g])]
      <4>1. interest[g] = events[g]
        BY <2>1, <2>2 DEF Inv, Agree, InterestMatches
      <4>2. e \in r.events \/ Hup \in r.events
        BY <2>1, <2>2, <4>1 DEF Reported
      <4>3. r.fd = g /\ r \in batch'[p]
        BY <2>1, <3>2, <4>2 DEF Inv, Types
      <4> HIDE DEF r
      <4> QED
        BY <4>2, <4>3 DEF Noticed
    <3>3. CASE g \notin listed
      <4>1. PICK q \in Pollers : \E r \in batch[q] : r.fd = g /\ (e \in r.events \/ Hup \in r.events)
        BY <3>1, <3>3 DEF Noticed
      <4>2. q # p
        BY <2>1, <4>1
      <4>3. batch'[q] = batch[q]
        BY <2>1, <4>2 DEF Inv, Types
      <4> QED
        BY <4>1, <4>3 DEF Noticed
    <3> QED
      BY <3>2, <3>3
  <2>3. ReadyNoticed'
    BY <2>2 DEF ReadyNoticed
  <2>4. WaitedOpen'
    BY <2>1 DEF WaitedOpen
  <2> QED
    BY <1>0, <2>3, <2>4
<1>10. ASSUME NEW p \in Pollers, Skip(p) PROVE EdgeInv'
  <2>1. PICK r \in batch[p] :
          /\ events[r.fd] \cap RealEvents(r) = {} \/ ~Accepts(r.fd, "MOD")
          /\ Handle(p, r) /\ UNCHANGED <<kernelVars, contextVars, closing, stranded, aborted>>
    BY <1>10 DEF Skip
  <2>2. /\ open' = open /\ ready' = ready /\ listed' = listed /\ events' = events /\ stranded' = stranded
        /\ \A q \in Pollers : batch'[q] = IF q = p THEN batch[q] \ {r} ELSE batch[q]
    BY <2>1 DEF kernelVars, contextVars, Handle, Inv, Types
  <2>3. r.fd \in Fds
    BY RealEventsType DEF Inv
  (* The report that is skipped stands for no event its descriptor is waited for. *)
  <2>4. ASSUME NEW e \in events[r.fd], r.fd \notin stranded, e \in r.events \/ Hup \in r.events PROVE FALSE
    <3>1. interest[r.fd] = events[r.fd] /\ r.fd \in open
      BY <2>3, <2>4 DEF Inv, Agree, InterestMatches, WaitedOpen
    <3>2. Accepts(r.fd, "MOD")
      BY <2>4, <3>1 DEF Accepts
    <3>3. e # Hup
      BY <2>3, EventsAssumption DEF Inv, Types
    <3>4. e \in RealEvents(r)
      BY <2>4, <3>3 DEF RealEvents
    <3> QED
      BY <2>1, <3>2, <3>4
  <2>5. ASSUME NEW g \in Fds, g \notin stranded', NEW e \in events'[g], ready'[g] \cap {e, Hup} # {}
        PROVE  Noticed(g, e)'
    <3>1. Noticed(g, e)
      BY <2>2, <2>5 DEF ReadyNoticed
    <3>2. \A q \in Pollers : \A x \in batch[q] :
            x.fd = g /\ (e \in x.events \/ Hup \in x.events) => x \in batch'[q]
      BY <2>2, <2>4, <2>5
    <3> QED
      BY <2>2, <3>1, <3>2 DEF Noticed
  <2>6. ReadyNoticed'
    BY <2>5 DEF ReadyNoticed
  <2>7. WaitedOpen'
    BY <2>2 DEF WaitedOpen
  <2> QED
    BY <1>0, <2>6, <2>7
<1>11. ASSUME NEW p \in Pollers, Dispatch(p) PROVE EdgeInv'
  <2>1. PICK r \in batch[p] :
           /\ Accepts(r.fd, "MOD")
           /\ Watch(r.fd, events[r.fd] \ RealEvents(r)) /\ Trigger(r.fd, RealEvents(r))
           /\ Handle(p, r) /\ UNCHANGED <<closing, stranded, aborted>>
    BY <1>11 DEF Dispatch
  <2>2. r.fd \in Fds /\ RealEvents(r) \in SUBSET Events /\ r.fd \in open
    BY <2>1, RealEventsType DEF Inv, Accepts
  <2>3. \A q \in Pollers : \A x \in batch[q] : x.fd # r.fd => x \in batch'[q]
    BY <2>1 DEF Handle, Inv, Types
  <2>4. events' = [events EXCEPT ![r.fd] = @ \ RealEvents(r)]
    BY <2>1 DEF Trigger
  <2> QED
    BY <1>4, <2>1, <2>2, <2>3, <2>4
<1>12. ASSUME NEW p \in Pollers, DispatchAsserts(p) PROVE EdgeInv'
  BY <1>0, <1>12 DEF DispatchAsserts, kernelVars, contextVars, WaitedOpen, ReadyNoticed, Noticed
<1>13. ASSUME UNCHANGED vars PROVE EdgeInv'
  BY <1>0, <1>13 DEF vars, kernelVars, contextVars, WaitedOpen, ReadyNoticed, Noticed
<1> QED
  BY <1>1, <1>2, <1>3, <1>5, <1>6, <1>7, <1>8, <1>9, <1>10, <1>11, <1>12, <1>13
     DEF Next, Kernel, User, Poll, CancelAll, Close

(* No edge is lost: a waiter whose descriptor is ready is on epoll's list or in the hands of
   a poller, although epoll is edge-triggered and every addEvent, delEvent, cancelEvent and
   dispatch re-arms the descriptor for what is left (IOManager::idle). *)
THEOREM EdgesCorrect == Spec => []ReadyNoticed
<1>1. Init => EdgeInv
  <2> SUFFICES ASSUME Init PROVE WaitedOpen /\ ReadyNoticed
    BY InitInv DEF EdgeInv
  <2> QED
    BY DEF Init, WaitedOpen, ReadyNoticed
<1>2. EdgeInv /\ [Next]_vars => EdgeInv'
  BY NextEdge
<1>3. EdgeInv => ReadyNoticed
  BY DEF EdgeInv
<1> QED
  BY <1>1, <1>2, <1>3, PTL DEF Spec
=============================================================================
