------------------------------ MODULE IOEvents ------------------------------
(***************************************************************************)
(* The I/O events of src/mumu/iomanager.{h,cc}: per descriptor an          *)
(* FdContext with its own mutex, one edge-triggered epoll instance all of  *)
(* them are registered with, the threads that add, delete and cancel       *)
(* events, and the pollers, which take what epoll_wait reported and look   *)
(* at the contexts only later.                                             *)
(*                                                                         *)
(* One atomic step is one critical section of FdContext::mutex or one      *)
(* system call outside it.  The table of contexts is taken as large enough *)
(* (32 entries from the constructor), so finding a context is no step.     *)
(***************************************************************************)
EXTENDS Integers, FiniteSets

CONSTANTS
  Fds,       \* descriptors
  Events,    \* IOManager::Event: READ, WRITE
  Pollers,   \* threads in IOManager::idle
  Hup        \* EPOLLERR, EPOLLHUP

ASSUME EventsAssumption == /\ IsFiniteSet(Fds) /\ IsFiniteSet(Events)
                           /\ Hup \notin Events

VARIABLES
  open,      \* descriptors that are open
  ready,     \* of each descriptor: the events (or Hup) it is ready for
  interest,  \* of each descriptor: what epoll watches; {} is not registered
  listed,    \* descriptors on epoll's ready list
  events,    \* FdContext::events
  context,   \* of each FdContext: the EventContexts that hold a fiber or cb
  m_pendingEventCount,
  batch,     \* of each poller: what epoll_wait returned and is not handled yet
  tasks,     \* of each FdContext: how often the fiber or cb of an event is in
             \* the scheduler's queue
  closing,   \* descriptors in hooked close(), between cancelAll and close_f
  stranded,  \* descriptors closed while their context still had events
  aborted    \* an assertion has stopped the process

kernelVars == <<open, ready, interest, listed>>
contextVars == <<events, context, m_pendingEventCount, tasks>>
vars == <<kernelVars, contextVars, batch, closing, stranded, aborted>>

Report == [fd: Fds, events: SUBSET (Events \cup {Hup})]

Init ==
  /\ open = Fds
  /\ ready = [fd \in Fds |-> {}]
  /\ interest = [fd \in Fds |-> {}]
  /\ listed = {}
  /\ events = [fd \in Fds |-> {}]
  /\ context = [fd \in Fds |-> {}]
  /\ m_pendingEventCount = 0
  /\ batch = [p \in Pollers |-> {}]
  /\ tasks = [fd \in Fds |-> [e \in Events |-> 0]]
  /\ closing = {} /\ stranded = {} /\ aborted = FALSE

-----------------------------------------------------------------------------
(* The kernel. *)

(* epoll_ctl ADD needs an open descriptor epoll does not watch, MOD and DEL
   one it does. *)
Accepts(fd, op) == fd \in open /\ (op = "ADD" <=> interest[fd] = {})

Reported(fd, watch) == ready[fd] \cap (watch \cup {Hup})

(* A successful epoll_ctl; watching nothing is DEL.  ADD and MOD list a
   descriptor that is ready already. *)
Watch(fd, watch) ==
  /\ interest' = [interest EXCEPT ![fd] = watch]
  /\ listed' = IF watch = {} THEN listed \ {fd}
               ELSE IF Reported(fd, watch) # {} THEN listed \cup {fd} ELSE listed
  /\ UNCHANGED <<open, ready>>

(* Data, room or an error: an edge for a watching epoll. *)
Arrive(fd, e) ==
  /\ fd \in open
  /\ e \notin ready[fd] \/ fd \notin listed
  /\ ready' = [ready EXCEPT ![fd] = @ \cup {e}]
  /\ listed' = IF interest[fd] # {} /\ e \in interest[fd] \cup {Hup}
               THEN listed \cup {fd} ELSE listed
  /\ UNCHANGED <<open, interest, contextVars, batch, closing, stranded, aborted>>

(* A new socket gets the number of a closed one. *)
Reopen(fd) ==
  /\ fd \notin open
  /\ open' = open \cup {fd}
  /\ UNCHANGED <<ready, interest, listed, contextVars, batch, closing, stranded,
                 aborted>>

-----------------------------------------------------------------------------
(* FdContext::triggerEvent and --m_pendingEventCount, for the events S. *)
TriggerCountOnce(fd, S) ==    \* mutant: one decrement for both events
  /\ events' = [events EXCEPT ![fd] = @ \ S]
  /\ context' = [context EXCEPT ![fd] = @ \ S]
  /\ tasks' = [tasks EXCEPT ![fd] = [e \in Events |-> IF e \in S THEN @[e] + 1 ELSE @[e]]]
  /\ m_pendingEventCount' = m_pendingEventCount - 1
TriggerKeepsBit(fd, S) ==     \* mutant: the bit in events stays
  /\ context' = [context EXCEPT ![fd] = @ \ S]
  /\ tasks' = [tasks EXCEPT ![fd] = [e \in Events |-> IF e \in S THEN @[e] + 1 ELSE @[e]]]
  /\ m_pendingEventCount' = m_pendingEventCount - Cardinality(S)
  /\ UNCHANGED events
Trigger(fd, S) ==
  /\ events' = [events EXCEPT ![fd] = @ \ S]
  /\ context' = [context EXCEPT ![fd] = @ \ S]
  /\ tasks' = [tasks EXCEPT ![fd] = [e \in Events |-> IF e \in S THEN @[e] + 1 ELSE @[e]]]
  /\ m_pendingEventCount' = m_pendingEventCount - Cardinality(S)

-----------------------------------------------------------------------------
(* The users of an IOManager. *)

AddEventAlone(fd, e) ==       \* mutant: epevent leaves out the other event
  /\ e \notin events[fd] /\ tasks[fd][e] = 0
  /\ Accepts(fd, IF events[fd] = {} THEN "ADD" ELSE "MOD")
  /\ Watch(fd, {e})
  /\ m_pendingEventCount' = m_pendingEventCount + 1
  /\ events' = [events EXCEPT ![fd] = @ \cup {e}]
  /\ context' = [context EXCEPT ![fd] = @ \cup {e}]
  /\ UNCHANGED <<tasks, batch, closing, stranded, aborted>>
(* addEvent, by a fiber that is running and does not wait for e already (the
   assertion on events).  When epoll_ctl refuses, nothing changes. *)
AddEvent(fd, e) ==
  /\ e \notin events[fd] /\ tasks[fd][e] = 0
  /\ Accepts(fd, IF events[fd] = {} THEN "ADD" ELSE "MOD")
  /\ Watch(fd, events[fd] \cup {e})
  /\ m_pendingEventCount' = m_pendingEventCount + 1
  /\ events' = [events EXCEPT ![fd] = @ \cup {e}]
  /\ context' = [context EXCEPT ![fd] = @ \cup {e}]
  /\ UNCHANGED <<tasks, batch, closing, stranded, aborted>>

DelEventKeeps(fd, e) ==       \* mutant: resetContext is missing
  /\ e \in events[fd] /\ Accepts(fd, "MOD")
  /\ Watch(fd, events[fd] \ {e})
  /\ m_pendingEventCount' = m_pendingEventCount - 1
  /\ events' = [events EXCEPT ![fd] = @ \ {e}]
  /\ UNCHANGED <<context, tasks, batch, closing, stranded, aborted>>
(* delEvent: the waiter is forgotten, not woken. *)
DelEvent(fd, e) ==
  /\ e \in events[fd] /\ Accepts(fd, "MOD")
  /\ Watch(fd, events[fd] \ {e})
  /\ m_pendingEventCount' = m_pendingEventCount - 1
  /\ events' = [events EXCEPT ![fd] = @ \ {e}]
  /\ context' = [context EXCEPT ![fd] = @ \ {e}]
  /\ UNCHANGED <<tasks, batch, closing, stranded, aborted>>

CancelEvent(fd, e) ==
  /\ e \in events[fd] /\ Accepts(fd, "MOD")
  /\ Watch(fd, events[fd] \ {e})
  /\ Trigger(fd, {e})
  /\ UNCHANGED <<batch, closing, stranded, aborted>>

(* cancelAll, a no-op without events or when epoll refuses. *)
CancelAllOn(fd) ==
  IF events[fd] # {} /\ Accepts(fd, "DEL")
  THEN Watch(fd, {}) /\ Trigger(fd, events[fd])
  ELSE UNCHANGED <<kernelVars, contextVars>>

CancelAll(fd) ==
  /\ events[fd] # {}
  /\ CancelAllOn(fd)
  /\ UNCHANGED <<batch, closing, stranded, aborted>>

(* The hooked close(): cancelAll, then close_f.  Other threads act between. *)
Close(fd) ==
  /\ fd \in open \ closing
  /\ CancelAllOn(fd)
  /\ closing' = closing \cup {fd}
  /\ UNCHANGED <<batch, stranded, aborted>>

CloseF(fd) ==
  /\ fd \in closing
  /\ open' = open \ {fd} /\ closing' = closing \ {fd}
  /\ ready' = [ready EXCEPT ![fd] = {}]
  /\ interest' = [interest EXCEPT ![fd] = {}]
  /\ listed' = listed \ {fd}
  /\ stranded' = IF events[fd] # {} THEN stranded \cup {fd} ELSE stranded
  /\ UNCHANGED <<contextVars, batch, aborted>>

(* The scheduler runs a task; it may use up what the descriptor was ready for. *)
RunTask(fd, e) ==
  /\ tasks[fd][e] > 0
  /\ tasks' = [tasks EXCEPT ![fd][e] = @ - 1]
  /\ ready' \in {ready, [ready EXCEPT ![fd] = @ \ {e}]}
  /\ UNCHANGED <<open, interest, listed, events, context, m_pendingEventCount,
                 batch, closing, stranded, aborted>>

-----------------------------------------------------------------------------
(* The pollers. *)

(* epoll_wait takes all that is on the list (no more than MAX_EVNETS). *)
EpollWait(p) ==
  /\ batch[p] = {} /\ listed # {}
  /\ batch' = [batch EXCEPT ![p] =
       {r \in {[fd |-> fd, events |-> Reported(fd, interest[fd])] : fd \in listed} :
          r.events # {}}]
  /\ listed' = {}
  /\ UNCHANGED <<open, ready, interest, contextVars, closing, stranded, aborted>>

(* The events a report stands for; an error counts for all that are waited for. *)
RealEvents(r) ==
  IF Hup \in r.events THEN (r.events \ {Hup}) \cup events[r.fd] ELSE r.events

Handle(p, r) == batch' = [batch EXCEPT ![p] = @ \ {r}]

(* An event nobody waits for any more, or one epoll_ctl refuses. *)
Skip(p) ==
  \E r \in batch[p] :
    /\ \/ events[r.fd] \cap RealEvents(r) = {}
       \/ ~Accepts(r.fd, "MOD")
    /\ Handle(p, r)
    /\ UNCHANGED <<kernelVars, contextVars, closing, stranded, aborted>>

Dispatch(p) ==
  \E r \in batch[p] :
    /\ events[r.fd] \cap RealEvents(r) # {} /\ Accepts(r.fd, "MOD")
    /\ RealEvents(r) \subseteq events[r.fd]
    /\ Watch(r.fd, events[r.fd] \ RealEvents(r))
    /\ Trigger(r.fd, RealEvents(r))
    /\ Handle(p, r)
    /\ UNCHANGED <<closing, stranded, aborted>>

(* One of the reported events is waited for, another is not any more: the
   assertion of triggerEvent fails. *)
DispatchAsserts(p) ==
  \E r \in batch[p] :
    /\ events[r.fd] \cap RealEvents(r) # {} /\ Accepts(r.fd, "MOD")
    /\ ~(RealEvents(r) \subseteq events[r.fd])
    /\ aborted' = TRUE
    /\ UNCHANGED <<kernelVars, contextVars, batch, closing, stranded>>

-----------------------------------------------------------------------------
Kernel == \E fd \in Fds : Reopen(fd) \/ \E e \in Events \cup {Hup} : Arrive(fd, e)
User == \E fd \in Fds :
          \/ CancelAll(fd) \/ Close(fd) \/ CloseF(fd)
          \/ \E e \in Events : \/ AddEvent(fd, e) \/ DelEvent(fd, e)
                               \/ CancelEvent(fd, e) \/ RunTask(fd, e)
Poll(p) == EpollWait(p) \/ Skip(p) \/ Dispatch(p) \/ DispatchAsserts(p)

Next == /\ ~aborted
        /\ Kernel \/ User \/ \E p \in Pollers : Poll(p)

Spec == Init /\ [][Next]_vars

-----------------------------------------------------------------------------
(* Every variable has its type. *)
TypeOK ==
  /\ open \in SUBSET Fds /\ listed \in SUBSET Fds
  /\ ready \in [Fds -> SUBSET (Events \cup {Hup})]
  /\ interest \in [Fds -> SUBSET Events]
  /\ events \in [Fds -> SUBSET Events]
  /\ context \in [Fds -> SUBSET Events]
  /\ m_pendingEventCount \in Nat
  /\ batch \in [Pollers -> SUBSET Report]
  /\ tasks \in [Fds -> [Events -> Nat]]
  /\ closing \in SUBSET Fds /\ stranded \in SUBSET Fds
  /\ aborted \in BOOLEAN

(* The counter stopping() reads is the number of registered events: an
   IOManager neither stops with an event pending nor waits for none. *)
Pending == {x \in Fds \X Events : x[2] \in events[x[1]]}
PendingExact == m_pendingEventCount = Cardinality(Pending)

(* An EventContext is in use exactly while its bit is set, so the assertion of
   addEvent on an empty context holds and a trigger finds what to schedule. *)
ContextMatches == context = events

(* A waiter is woken once for one registration: it never waits and is queued,
   and is never queued twice (two threads would run one fiber). *)
WokenOnce == \A fd \in Fds, e \in Events :
               tasks[fd][e] + (IF e \in events[fd] THEN 1 ELSE 0) <= 1

(* epoll watches what the contexts wait for; only a descriptor that was closed
   while another thread added an event is out of step, and then for good. *)
InterestMatches ==
  \A fd \in Fds \ stranded : interest[fd] = events[fd]

(* No edge is lost: what a descriptor is ready for and its context waits for is
   on epoll's list or in the hands of a poller, however cancels, deletes and
   other pollers' dispatches re-arm the descriptor meanwhile. *)
Noticed(fd, e) == \/ fd \in listed
                  \/ \E p \in Pollers : \E r \in batch[p] :
                       r.fd = fd /\ (e \in r.events \/ Hup \in r.events)
ReadyNoticed ==
  \A fd \in Fds \ stranded : \A e \in events[fd] :
    ready[fd] \cap {e, Hup} # {} => Noticed(fd, e)

(* The assertion of triggerEvent, MUHUI_ASSERT(events & event), holds. *)
TriggerAsserts == ~aborted

(* Types, and the count of pending events. *)
Consistent == TypeOK /\ PendingExact
=============================================================================
