------------------------------- MODULE HookIO -------------------------------
(***************************************************************************)
(* The hooked calls of src/mumu/hook.cc on one socket: do_io (read, recv,  *)
(* accept, send, ...), connect_with_timeout and close.  A call that would  *)
(* block arms a timer, registers its event, parks its fiber and tries      *)
(* again when it is woken; the timer's callback, which holds no more than  *)
(* a weak pointer to the call, cancels the event.  The socket has one      *)
(* fiber for each event and a third one that closes it.                    *)
(*                                                                         *)
(* IOEvents has the contexts and epoll in full; here a report is handled   *)
(* for the events that are still registered, without the assertion that    *)
(* would stop the process, and there is one poller.  A timer may expire at *)
(* any moment after it was armed.                                          *)
(***************************************************************************)
EXTENDS Integers

CONSTANTS
  Events,      \* READ, WRITE: one fiber for each
  Connecting,  \* the event connect waits for (WRITE)
  MaxCalls,    \* bound: of each fiber, how many calls it makes
  Timed,       \* events whose calls may have a time-out (SO_RCVTIMEO, SO_SNDTIMEO)
  Closing,     \* whether the socket may be closed
  Reopening    \* whether a new socket may then get its number

ASSUME HookAssumption == /\ Connecting \subseteq Events /\ Timed \subseteq Events
                         /\ MaxCalls \in [Events -> Nat]
                         /\ {Closing, Reopening} \subseteq BOOLEAN

VARIABLES
  pc,          \* of each fiber: its place in the call
  call,        \* of each fiber: which of its calls this is; names its timer_info
  kind,        \* of each fiber: "io" or "connect"
  to,          \* of each fiber: whether the call has a time-out
  result,      \* of each fiber: of its last call
  armed,       \* events of whose call the current timer is in the manager's set
  queued,      \* of each call: expired timers whose callback has not run
  held,        \* of each call: callbacks that have locked it, before they set cancelled
  striking,    \* of each call: callbacks that have set cancelled, before cancelEvent
  cancelled,   \* calls whose timer_info::cancelled is ETIMEDOUT
  elapsed,     \* history: events of whose present call a timer has expired
  missed,      \* history: those where the callback found no event to cancel
  events,      \* FdContext::events
  woken,       \* events whose fiber is in the scheduler's queue
  open, ready, interest, listed,   \* the socket; whether it is on epoll's list
  batch,       \* what the poller got from epoll_wait
  hasCtx,      \* FdManager has an FdCtx for the socket
  cpc          \* the closing fiber

callVars == <<pc, call, kind, to, result>>
timerVars == <<armed, queued, held, striking, cancelled>>
historyVars == <<elapsed, missed>>
eventVars == <<events, woken, interest, listed>>
socketVars == <<open, ready, hasCtx, cpc>>
vars == <<callVars, timerVars, historyVars, eventVars, socketVars, batch>>

Calls == UNION {{e} \X (1..MaxCalls[e]) : e \in Events}
Pcs == {"idle", "try", "arm", "register", "yield", "disarm", "failed", "check"}
Now(e) == <<e, call[e]>>
(* timer_info lives as long as its call or a callback that has locked it. *)
Alive(c) == (pc[c[1]] # "idle" /\ call[c[1]] = c[2]) \/ held[c] + striking[c] > 0
Inc(f, c) == [f EXCEPT ![c] = @ + 1]
Dec(f, c) == [f EXCEPT ![c] = @ - 1]
Goto(e, p) == pc' = [pc EXCEPT ![e] = p]
Return(e, r) == Goto(e, "idle") /\ result' = [result EXCEPT ![e] = r]

Init ==
  /\ pc = [e \in Events |-> "idle"] /\ call = [e \in Events |-> 0]
  /\ kind = [e \in Events |-> "io"] /\ to = [e \in Events |-> FALSE]
  /\ result = [e \in Events |-> "none"]
  /\ armed = {} /\ cancelled = {} /\ elapsed = {} /\ missed = {}
  /\ queued = [c \in Calls |-> 0] /\ held = queued /\ striking = queued
  /\ events = {} /\ woken = {} /\ interest = {} /\ listed = FALSE
  /\ open = TRUE /\ ready = {} /\ hasCtx = TRUE /\ cpc = "open"
  /\ batch = {}

-----------------------------------------------------------------------------
(* epoll_ctl accepts ADD for what it does not watch, MOD and DEL for what it does. *)
Accepts(op) == open /\ (op = "ADD" <=> interest = {})
Watch(S) == /\ interest' = S
            /\ listed' = (S # {} /\ (listed \/ ready \cap S # {}))

(* cancelEvent, cancelAll and the dispatch: epoll forgets S, its fibers are queued. *)
Trigger(S) ==
  IF S # {} /\ Accepts("MOD")
  THEN Watch(events \ S) /\ events' = events \ S /\ woken' = woken \cup S
  ELSE UNCHANGED eventVars

-----------------------------------------------------------------------------
(* do_io and connect_with_timeout, by the fiber of event e. *)

Begin(e) ==
  /\ pc[e] = "idle" /\ call[e] < MaxCalls[e] /\ hasCtx
  /\ call' = [call EXCEPT ![e] = @ + 1]
  /\ \E t \in BOOLEAN : (t => e \in Timed) /\ to' = [to EXCEPT ![e] = t]
  /\ \/ kind' = [kind EXCEPT ![e] = "io"]
     \/ e \in Connecting /\ kind' = [kind EXCEPT ![e] = "connect"]
  /\ result' = [result EXCEPT ![e] = "none"]
  /\ elapsed' = elapsed \ {e} /\ missed' = missed \ {e}
  /\ Goto(e, "try")
  /\ UNCHANGED <<timerVars, eventVars, socketVars, batch>>

(* The system call: it fails, is done (and may use up what was ready), or would block. *)
Try(e) ==
  /\ pc[e] = "try"
  /\ \/ ~open /\ Return(e, "error") /\ UNCHANGED ready
     \/ open /\ e \in ready /\ Return(e, "ok") /\ ready' \in {ready, ready \ {e}}
     \/ open /\ e \notin ready /\ Goto(e, "arm") /\ UNCHANGED <<result, ready>>
  /\ UNCHANGED <<call, kind, to, timerVars, historyVars, eventVars, open, hasCtx, cpc, batch>>

AddTimer(e) ==
  /\ pc[e] = "arm"
  /\ armed' = IF to[e] THEN armed \cup {e} ELSE armed
  /\ Goto(e, "register")
  /\ UNCHANGED <<call, kind, to, result, queued, held, striking, cancelled, historyVars, eventVars,
                 socketVars, batch>>

(* addEvent, and on to YieldToHold unless epoll_ctl refuses. *)
AddEvent(e) ==
  /\ pc[e] = "register"
  /\ IF Accepts(IF events = {} THEN "ADD" ELSE "MOD")
     THEN Watch(events \cup {e}) /\ events' = events \cup {e} /\ Goto(e, "yield")
     ELSE UNCHANGED <<interest, listed, events>> /\ Goto(e, "failed")
  /\ UNCHANGED <<call, kind, to, result, timerVars, historyVars, woken, socketVars, batch>>

Resume(e) ==
  /\ pc[e] = "yield" /\ e \in woken
  /\ woken' = woken \ {e}
  /\ Goto(e, "disarm")
  /\ UNCHANGED <<call, kind, to, result, timerVars, historyVars, events, interest, listed,
                 socketVars, batch>>

(* getsockopt(SO_ERROR) of connect; a peer that refuses is not told from one that accepts. *)
SoError(e) == IF open THEN "ok" ELSE "error"

CancelTimerNot(e) ==          \* mutant: timer->cancel() is missing
  /\ \/ pc[e] = "disarm" /\ Goto(e, "check") /\ UNCHANGED result
     \/ pc[e] = "failed" /\ Return(e, IF kind[e] = "io" THEN "error" ELSE SoError(e))
  /\ UNCHANGED <<call, kind, to, timerVars, historyVars, eventVars, socketVars, batch>>
(* timer->cancel(), after the wait or when there is none: then do_io fails, and
   connect goes on to look at SO_ERROR. *)
CancelTimer(e) ==
  /\ armed' = armed \ {e}
  /\ \/ pc[e] = "disarm" /\ Goto(e, "check") /\ UNCHANGED result
     \/ pc[e] = "failed" /\ Return(e, IF kind[e] = "io" THEN "error" ELSE SoError(e))
  /\ UNCHANGED <<call, kind, to, queued, held, striking, cancelled, historyVars, eventVars,
                 socketVars, batch>>

(* tinfo->cancelled fails the call; else do_io tries again and connect is done. *)
Check(e) ==
  /\ pc[e] = "check"
  /\ \/ Now(e) \in cancelled /\ Return(e, "timeout")
     \/ /\ Now(e) \notin cancelled
        /\ IF kind[e] = "io" THEN Goto(e, "try") /\ UNCHANGED result
                             ELSE Return(e, SoError(e))
  /\ UNCHANGED <<call, kind, to, timerVars, historyVars, eventVars, socketVars, batch>>

-----------------------------------------------------------------------------
(* A timer expires: its callback goes to the queue of the scheduler. *)
Elapse(e) ==
  /\ e \in armed
  /\ armed' = armed \ {e}
  /\ queued' = Inc(queued, Now(e))
  /\ elapsed' = elapsed \cup {e}
  /\ UNCHANGED <<held, striking, cancelled, missed, callVars, eventVars, socketVars, batch>>

(* The callback locks its weak pointer, and is done if the call is gone or
   already cancelled. *)
OnTimer(c) ==
  /\ queued[c] > 0
  /\ queued' = Dec(queued, c)
  /\ held' = IF Alive(c) /\ c \notin cancelled THEN Inc(held, c) ELSE held
  /\ UNCHANGED <<armed, striking, cancelled, historyVars, callVars, eventVars, socketVars, batch>>

SetCancelledOfNow(c) ==       \* mutant: the call of the moment, not the timer's own
  /\ held[c] > 0
  /\ held' = Dec(held, c) /\ striking' = Inc(striking, c)
  /\ cancelled' = cancelled \cup {Now(c[1])}
  /\ UNCHANGED <<armed, queued, historyVars, callVars, eventVars, socketVars, batch>>
SetCancelled(c) ==
  /\ held[c] > 0
  /\ held' = Dec(held, c) /\ striking' = Inc(striking, c)
  /\ cancelled' = cancelled \cup {c}
  /\ UNCHANGED <<armed, queued, historyVars, callVars, eventVars, socketVars, batch>>

CancelEventNot(c) ==          \* mutant: cancelEvent is missing
  /\ striking[c] > 0
  /\ striking' = Dec(striking, c)
  /\ UNCHANGED <<armed, queued, held, cancelled, historyVars, callVars, eventVars,
                 socketVars, batch>>
(* Then it cancels the event, whoever waits for it by now. *)
CancelEvent(c) ==
  /\ striking[c] > 0
  /\ striking' = Dec(striking, c)
  /\ missed' = IF c[1] \notin events /\ c = Now(c[1]) THEN missed \cup {c[1]} ELSE missed
  /\ Trigger({c[1]} \cap events)
  /\ UNCHANGED <<armed, queued, held, cancelled, elapsed, callVars, socketVars, batch>>

-----------------------------------------------------------------------------
(* The socket and the poller. *)

Arrive(e) ==
  /\ open /\ e \notin ready
  /\ ready' = ready \cup {e}
  /\ listed' = (listed \/ e \in interest)
  /\ UNCHANGED <<callVars, timerVars, historyVars, events, woken, interest, open, hasCtx, cpc, batch>>

EpollWait ==
  /\ listed /\ batch = {}
  /\ listed' = FALSE
  /\ batch' = ready \cap interest
  /\ UNCHANGED <<callVars, timerVars, historyVars, events, woken, interest, socketVars>>

Dispatch ==
  /\ batch # {}
  /\ batch' = {}
  /\ Trigger(batch \cap events)
  /\ UNCHANGED <<callVars, timerVars, historyVars, socketVars>>

-----------------------------------------------------------------------------
(* close(): cancelAll, FdMgr del, close_f.  Calls of other fibers go on between. *)

Close ==
  /\ Closing /\ cpc = "open"
  /\ Trigger(events)
  /\ cpc' = "del"
  /\ UNCHANGED <<callVars, timerVars, historyVars, open, ready, hasCtx, batch>>

FdMgrDel ==
  /\ cpc = "del"
  /\ hasCtx' = FALSE /\ cpc' = "close"
  /\ UNCHANGED <<callVars, timerVars, historyVars, eventVars, open, ready, batch>>

CloseF ==
  /\ cpc = "close"
  /\ open' = FALSE /\ ready' = {} /\ cpc' = "closed"
  /\ interest' = {} /\ listed' = FALSE
  /\ UNCHANGED <<callVars, timerVars, historyVars, events, woken, hasCtx, batch>>

(* socket() or accept() returns the same number. *)
Reopen ==
  /\ Reopening /\ cpc = "closed" /\ ~open
  /\ open' = TRUE /\ hasCtx' = TRUE
  /\ UNCHANGED <<callVars, timerVars, historyVars, eventVars, ready, cpc, batch>>

-----------------------------------------------------------------------------
Fiber(e) == \/ Try(e) \/ AddTimer(e) \/ AddEvent(e) \/ Resume(e) \/ CancelTimer(e)
            \/ Check(e)
Callback(c) == OnTimer(c) \/ SetCancelled(c) \/ CancelEvent(c)
Poller == EpollWait \/ Dispatch
CloseOn == FdMgrDel \/ CloseF

Next == \/ \E e \in Events : Begin(e) \/ Fiber(e) \/ Elapse(e) \/ Arrive(e)
        \/ \E c \in Calls : Callback(c)
        \/ Poller \/ Close \/ CloseOn \/ Reopen

Spec == Init /\ [][Next]_vars

(* Fibers, callbacks and the poller run, timers expire.  Data need not come. *)
FairSpec == /\ Spec
            /\ \A e \in Events : WF_vars(Fiber(e)) /\ WF_vars(Elapse(e))
            /\ \A c \in Calls : WF_vars(Callback(c))
            /\ WF_vars(Poller) /\ WF_vars(CloseOn)

-----------------------------------------------------------------------------
(* Every variable has its type. *)
TypeOK ==
  /\ pc \in [Events -> Pcs] /\ call \in [Events -> Nat]
  /\ kind \in [Events -> {"io", "connect"}] /\ to \in [Events -> BOOLEAN]
  /\ result \in [Events -> {"none", "ok", "timeout", "error"}]
  /\ armed \subseteq Events /\ {queued, held, striking} \subseteq [Calls -> Nat]
  /\ cancelled \subseteq Calls /\ elapsed \subseteq Events /\ missed \subseteq Events
  /\ events \subseteq Events /\ woken \subseteq Events /\ interest \subseteq Events
  /\ ready \subseteq Events /\ batch \subseteq Events
  /\ {open, listed, hasCtx} \subseteq BOOLEAN
  /\ cpc \in {"open", "del", "close", "closed"}

(* A call fails with ETIMEDOUT only if it has a time-out and one of its own
   timers expired, whatever callbacks of earlier calls are still about. *)
TimeoutHonest ==
  \A e \in Events : result[e] = "timeout" => to[e] /\ e \in elapsed

(* A fiber is parked exactly while its event is registered or it is on its way
   back through the queue, never both: nobody sleeps unknown to all, and addEvent
   never finds its event registered. *)
ParkedIsKnown ==
  \A e \in Events : /\ pc[e] = "yield" <=> e \in events \cup woken
                    /\ ~(e \in events /\ e \in woken)

(* A call that has returned leaves no timer armed, on any path. *)
NoTimerLeft == \A e \in Events : pc[e] = "idle" => e \notin armed

(* Parked although epoll does not watch: the registration came between
   cancelAll and close_f. *)
Stranded(e) == e \in events /\ e \notin interest
(* A call with a time-out returns, unless its fiber is stranded by a close or the
   callback of its timer found no event to cancel. *)
TimedCallReturns ==
  \A e \in Timed :
    (pc[e] # "idle" /\ to[e])
      ~> (pc[e] = "idle" \/ Stranded(e) \/ (pc[e] = "yield" /\ e \in missed))

(* A call whose time-out has struck is not left parked: the timer that set
   cancelled also wakes the fiber. *)
TimeoutWakes ==
  \A e \in Events : pc[e] = "yield" /\ Now(e) \in cancelled
                      => e \in woken \/ striking[Now(e)] > 0

(* Types; the parked fibers are those that somebody can wake, and timers go with
   their calls. *)
Consistent == TypeOK /\ ParkedIsKnown /\ NoTimerLeft
=============================================================================
