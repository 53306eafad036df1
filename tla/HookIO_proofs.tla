---------------------------- MODULE HookIO_proofs ----------------------------
(***************************************************************************)
(* Theorems about the hooked calls, for any number of events, calls and    *)
(* time-outs, whether or not the socket is closed and its number used      *)
(* again.                                                                  *)
(***************************************************************************)
EXTENDS HookIO, TLAPS

(* Calls are counted, and a fiber inside of a call has begun one. *)
CallsCounted ==
  \A e \in Events : /\ call[e] \in 0..MaxCalls[e]
                    /\ pc[e] # "idle" => call[e] > 0

(* A timer is armed only inside of a call that has a time-out, from AddTimer on. *)
ArmedInCall == \A e \in armed : pc[e] \in {"register", "yield", "disarm", "failed"} /\ to[e]

(* What a timer has touched of a call: its callback is queued or holds the call, or
   has cancelled it. *)
Touched(c) == queued[c] > 0 \/ held[c] > 0 \/ c \in cancelled

(* No timer has touched a call that is still to come, and one that has touched the
   present call was its own, which has a time-out. *)
FutureUntouched == \A e \in Events : \A n \in 1..MaxCalls[e] : n > call[e] => ~Touched(<<e, n>>)
TouchedHonestly == \A e \in Events : call[e] > 0 /\ Touched(Now(e)) => to[e] /\ e \in elapsed

HookInv == /\ TypeOK /\ ParkedIsKnown /\ CallsCounted /\ ArmedInCall
           /\ FutureUntouched /\ TouchedHonestly /\ TimeoutHonest

(* Every call is named by its event and its number. *)
LEMMA CallParts ==
  /\ \A e \in Events : \A n \in 1..MaxCalls[e] : <<e, n>> \in Calls
  /\ \A c \in Calls : /\ c[1] \in Events /\ c[2] \in 1..MaxCalls[c[1]]
                     /\ c = <<c[1], c[2]>>
BY DEF Calls

LEMMA PresentCall ==
  ASSUME CallsCounted, NEW e \in Events, call[e] > 0
  PROVE  call[e] \in 1..MaxCalls[e] /\ Now(e) \in Calls
<1>1. call[e] \in 1..MaxCalls[e]
  BY HookAssumption DEF CallsCounted
<1> QED
  BY <1>1, CallParts DEF Now

LEMMA HookInitInv == Init => HookInv
<1> SUFFICES ASSUME Init PROVE HookInv
  OBVIOUS
<1>1. [c \in Calls |-> 0] \in [Calls -> Nat]
  OBVIOUS
<1>2. {queued, held, striking} \subseteq [Calls -> Nat]
  BY <1>1 DEF Init
<1>3. TypeOK
  BY <1>2 DEF Init, TypeOK, Pcs
<1>4. CallsCounted
  <2>1. \A e \in Events : pc[e] = "idle" /\ call[e] = 0
    BY DEF Init
  <2>2. \A e \in Events : 0 \in 0..MaxCalls[e]
    BY HookAssumption
  <2> HIDE DEF Init
  <2> QED
    BY <2>1, <2>2 DEF CallsCounted
<1>5. \A c \in Calls : ~Touched(c)
  BY DEF Init, Touched
<1>6. FutureUntouched
  BY <1>5, CallParts DEF FutureUntouched
<1> QED
  BY <1>3, <1>4, <1>6 DEF Init, HookInv, ParkedIsKnown, ArmedInCall, TouchedHonestly, TimeoutHonest

-----------------------------------------------------------------------------
(* Whoever is woken by a trigger was parked, and is in the queue from then on. *)
LEMMA TriggerParked ==
  ASSUME TypeOK, ParkedIsKnown, NEW S \in SUBSET events, Trigger(S), pc' = pc
  PROVE  /\ ParkedIsKnown'
         /\ events' \subseteq Events /\ woken' \subseteq Events /\ interest' \subseteq Events
         /\ listed' \in BOOLEAN
BY DEF TypeOK, ParkedIsKnown, Trigger, Watch, eventVars

(* What the invariant says of timers is not touched by a step that leaves the calls and
   timers alone. *)
LEMMA TimersKept ==
  ASSUME HookInv, UNCHANGED <<callVars, timerVars, elapsed>>
  PROVE  CallsCounted' /\ ArmedInCall' /\ FutureUntouched' /\ TouchedHonestly' /\ TimeoutHonest'
BY DEF HookInv, callVars, timerVars, CallsCounted, ArmedInCall, FutureUntouched, TouchedHonestly,
   TimeoutHonest, Touched, Now

(* A fiber moves on within its call. *)
LEMMA MovesOn ==
  ASSUME HookInv, NEW e \in Events, pc[e] # "idle", NEW p, pc' = [pc EXCEPT ![e] = p],
         UNCHANGED <<call, to, queued, held, cancelled, elapsed>>,
         armed' = armed \/ armed' = armed \ {e} \/ (armed' = armed \cup {e} /\ to[e]),
         e \in armed' => p \in {"register", "yield", "disarm", "failed"},
         \A f \in Events : result'[f] = "timeout" => result[f] = "timeout" \/ (f = e /\ Now(e) \in cancelled)
  PROVE  CallsCounted' /\ ArmedInCall' /\ FutureUntouched' /\ TouchedHonestly' /\ TimeoutHonest'
<1> USE DEF HookInv
<1>1. pc \in [Events -> Pcs]
  BY DEF TypeOK
<1>2. CallsCounted'
  BY <1>1 DEF CallsCounted
<1>3. ArmedInCall'
  BY <1>1 DEF ArmedInCall
<1>4. FutureUntouched' /\ TouchedHonestly'
  BY DEF FutureUntouched, TouchedHonestly, Touched, Now
<1>5. Now(e) \in cancelled => to[e] /\ e \in elapsed
  BY DEF CallsCounted, TouchedHonestly, Touched
<1>6. TimeoutHonest'
  BY <1>5 DEF TimeoutHonest
<1> QED
  BY <1>2, <1>3, <1>4, <1>6

-----------------------------------------------------------------------------
LEMMA HookNextInv == HookInv /\ [Next]_vars => HookInv'
<1> SUFFICES ASSUME HookInv, [Next]_vars PROVE HookInv'
  OBVIOUS
<1> USE DEF HookInv
<1>0. TypeOK /\ ParkedIsKnown
  OBVIOUS
<1>1. ASSUME NEW e \in Events, Begin(e) PROVE HookInv'
  <2>1. call[e] \in 0..MaxCalls[e] /\ MaxCalls[e] \in Nat
    BY HookAssumption DEF CallsCounted
  <2>2. /\ call' = [call EXCEPT ![e] = call[e] + 1] /\ call'[e] \in 1..MaxCalls[e]
        /\ pc' = [pc EXCEPT ![e] = "try"] /\ pc[e] = "idle"
    BY <1>1, <2>1 DEF Begin, Goto, TypeOK
  <2>3. TypeOK'
    BY <1>1, <2>2 DEF Begin, Goto, TypeOK, Pcs, timerVars, eventVars, socketVars
  <2>4. ParkedIsKnown'
    BY <1>1, <2>2 DEF Begin, ParkedIsKnown, TypeOK, eventVars
  <2>5. CallsCounted'
    BY <2>2 DEF CallsCounted, TypeOK
  <2>6. ArmedInCall'
    BY <1>1, <2>2 DEF Begin, ArmedInCall, TypeOK, timerVars
  <2>7. \A c : Touched(c)' <=> Touched(c)
    BY <1>1 DEF Begin, Touched, timerVars
  <2>8. FutureUntouched'
    <3> SUFFICES ASSUME NEW f \in Events, NEW n \in 1..MaxCalls[f], n > call'[f]
                 PROVE  ~Touched(<<f, n>>)
      BY <2>7 DEF FutureUntouched
    <3>1. n > call[f]
      BY <2>1, <2>2 DEF TypeOK
    <3> QED
      BY <3>1 DEF FutureUntouched
  <2>9. TouchedHonestly'
    <3> SUFFICES ASSUME NEW f \in Events, call'[f] > 0, Touched(<<f, call'[f]>>)
                 PROVE  to'[f] /\ f \in elapsed'
      BY <2>7 DEF TouchedHonestly, Now
    <3>1. CASE f = e
      <4>1. call'[e] > call[e]
        BY <2>1, <2>2 DEF TypeOK
      <4> QED
        BY <3>1, <4>1, <2>2 DEF FutureUntouched
    <3>2. CASE f # e
      <4>1. call'[f] = call[f] /\ to'[f] = to[f] /\ (f \in elapsed => f \in elapsed')
        BY <1>1, <2>2, <3>2 DEF Begin, TypeOK
      <4> QED
        BY <4>1 DEF TouchedHonestly, Now
    <3> QED
      BY <3>1, <3>2
  <2>10. TimeoutHonest'
    BY <1>1 DEF Begin, TimeoutHonest, TypeOK
  <2> QED
    BY <2>3, <2>4, <2>5, <2>6, <2>8, <2>9, <2>10
<1>2. ASSUME NEW e \in Events, Try(e) PROVE HookInv'
  <2>1. PICK p \in {"idle", "arm"} : pc' = [pc EXCEPT ![e] = p]
    BY <1>2 DEF Try, Return, Goto
  <2>2. TypeOK'
    BY <1>2 DEF Try, Return, Goto, TypeOK, Pcs, timerVars, historyVars, eventVars
  <2>3. ParkedIsKnown'
    BY <1>2, <2>1 DEF Try, ParkedIsKnown, TypeOK, eventVars
  <2>4. e \notin armed /\ pc[e] # "idle"
    BY <1>2 DEF Try, ArmedInCall
  <2>5. \A f \in Events : result'[f] = "timeout" => result[f] = "timeout"
    BY <1>2 DEF Try, Return, TypeOK
  <2> QED
    BY <1>2, <2>1, <2>2, <2>3, <2>4, <2>5, MovesOn DEF Try, timerVars, historyVars
<1>3. ASSUME NEW e \in Events, AddTimer(e) PROVE HookInv'
  <2>1. pc' = [pc EXCEPT ![e] = "register"] /\ pc[e] = "arm"
    BY <1>3 DEF AddTimer, Goto
  <2>2. TypeOK'
    BY <1>3, <2>1 DEF AddTimer, TypeOK, Pcs, historyVars, eventVars, socketVars
  <2>3. ParkedIsKnown'
    BY <1>3, <2>1 DEF AddTimer, ParkedIsKnown, TypeOK, eventVars
  <2> QED
    BY <1>3, <2>1, <2>2, <2>3, MovesOn DEF AddTimer, historyVars
<1>4. ASSUME NEW e \in Events, AddEvent(e) PROVE HookInv'
  <2>1. PICK p \in {"yield", "failed"} : pc' = [pc EXCEPT ![e] = p]
    BY <1>4 DEF AddEvent, Goto
  <2>2. pc[e] = "register"
    BY <1>4 DEF AddEvent
  <2>3. TypeOK'
    BY <1>4 DEF AddEvent, Goto, Watch, TypeOK, Pcs, timerVars, historyVars, socketVars
  <2>4. ParkedIsKnown'
    BY <1>4 DEF AddEvent, Goto, ParkedIsKnown, TypeOK
  <2> QED
    BY <1>4, <2>1, <2>2, <2>3, <2>4, MovesOn DEF AddEvent, timerVars, historyVars
<1>5. ASSUME NEW e \in Events, Resume(e) PROVE HookInv'
  <2>1. pc' = [pc EXCEPT ![e] = "disarm"] /\ pc[e] = "yield"
    BY <1>5 DEF Resume, Goto
  <2>2. TypeOK'
    BY <1>5, <2>1 DEF Resume, TypeOK, Pcs, timerVars, historyVars, socketVars
  <2>3. ParkedIsKnown'
    BY <1>5, <2>1 DEF Resume, ParkedIsKnown, TypeOK
  <2> QED
    BY <1>5, <2>1, <2>2, <2>3, MovesOn DEF Resume, timerVars, historyVars
<1>6. ASSUME NEW e \in Events, CancelTimer(e) PROVE HookInv'
  <2>1. PICK p \in {"check", "idle"} : pc' = [pc EXCEPT ![e] = p]
    BY <1>6 DEF CancelTimer, Return, Goto
  <2>2. pc[e] \in {"disarm", "failed"}
    BY <1>6 DEF CancelTimer
  <2>3. TypeOK'
    BY <1>6 DEF CancelTimer, Return, Goto, SoError, TypeOK, Pcs, historyVars, eventVars, socketVars
  <2>4. ParkedIsKnown'
    BY <1>6, <2>1, <2>2 DEF CancelTimer, ParkedIsKnown, TypeOK, eventVars
  <2>5. \A f \in Events : result'[f] = "timeout" => result[f] = "timeout"
    BY <1>6 DEF CancelTimer, Return, SoError, TypeOK
  <2> QED
    BY <1>6, <2>1, <2>2, <2>3, <2>4, <2>5, MovesOn DEF CancelTimer, historyVars
<1>7. ASSUME NEW e \in Events, Check(e) PROVE HookInv'
  <2>1. PICK p \in {"try", "idle"} : pc' = [pc EXCEPT ![e] = p]
    BY <1>7 DEF Check, Return, Goto
  <2>2. pc[e] = "check" /\ e \notin armed
    BY <1>7 DEF Check, ArmedInCall
  <2>3. TypeOK'
    BY <1>7 DEF Check, Return, Goto, SoError, TypeOK, Pcs, timerVars, historyVars, eventVars, socketVars
  <2>4. ParkedIsKnown'
    BY <1>7, <2>1, <2>2 DEF Check, ParkedIsKnown, TypeOK, eventVars
  <2>5. \A f \in Events : result'[f] = "timeout"
                             => result[f] = "timeout" \/ (f = e /\ Now(e) \in cancelled)
    BY <1>7 DEF Check, Return, SoError, TypeOK
  <2> QED
    BY <1>7, <2>1, <2>2, <2>3, <2>4, <2>5, MovesOn DEF Check, timerVars, historyVars
<1>8. ASSUME NEW e \in Events, Elapse(e) PROVE HookInv'
  <2>1. call[e] > 0 /\ to[e]
    BY <1>8 DEF Elapse, ArmedInCall, CallsCounted
  <2>2. Now(e) \in Calls /\ call[e] \in 1..MaxCalls[e]
    BY <2>1, PresentCall
  <2>3. queued' \in [Calls -> Nat] /\ \A c \in Calls : queued'[c] > 0 => queued[c] > 0 \/ c = Now(e)
    BY <1>8, <2>2 DEF Elapse, Inc, TypeOK
  <2>4. TypeOK'
    BY <1>8, <2>3 DEF Elapse, TypeOK, callVars, eventVars, socketVars
  <2>5. \A c \in Calls : Touched(c)' => Touched(c) \/ c = Now(e)
    BY <1>8, <2>3 DEF Elapse, Touched
  <2>6. FutureUntouched'
    BY <1>8, <2>2, <2>5, CallParts DEF Elapse, FutureUntouched, Now, callVars
  <2>7. TouchedHonestly'
    <3> SUFFICES ASSUME NEW f \in Events, call[f] > 0, Touched(Now(f))'
                 PROVE  to[f] /\ f \in elapsed'
      BY <1>8 DEF Elapse, TouchedHonestly, callVars
    <3>1. Now(f)' = Now(f) /\ Now(f) \in Calls
      BY <1>8, PresentCall DEF Elapse, Now, callVars
    <3>2. Touched(Now(f))' => Touched(Now(f)) \/ Now(f) = Now(e)
      BY <3>1, <1>8, <2>3 DEF Elapse, Touched
    <3> QED
      BY <1>8, <2>1, <3>2 DEF Elapse, TouchedHonestly, Now
  <2> QED
    BY <1>8, <2>4, <2>6, <2>7 DEF Elapse, ParkedIsKnown, CallsCounted, ArmedInCall, TimeoutHonest,
       callVars, eventVars
<1>9. ASSUME NEW c \in Calls, UNCHANGED <<callVars, elapsed>>, armed' = armed,
             \A d \in Calls : Touched(d)' => Touched(d),
             TypeOK', ParkedIsKnown'
      PROVE  HookInv'
  <2>1. FutureUntouched'
    BY <1>9, CallParts DEF FutureUntouched, callVars
  <2>2. TouchedHonestly'
    <3> SUFFICES ASSUME NEW f \in Events, call[f] > 0, Touched(Now(f))'
                 PROVE  to[f] /\ f \in elapsed
      BY <1>9 DEF TouchedHonestly, callVars
    <3>1. Now(f)' = Now(f) /\ Now(f) \in Calls
      BY <1>9, PresentCall DEF Now, callVars
    <3>2. Touched(Now(f))
      BY <3>1, <1>9 DEF Touched
    <3> QED
      BY <3>2 DEF TouchedHonestly
  <2> QED
    BY <1>9, <2>1, <2>2 DEF CallsCounted, ArmedInCall, TimeoutHonest, callVars
<1>10. ASSUME NEW c \in Calls, OnTimer(c) PROVE HookInv'
  <2>1. TypeOK'
    BY <1>10 DEF OnTimer, Inc, Dec, TypeOK, callVars, historyVars, eventVars, socketVars
  <2>2. \A d \in Calls : Touched(d)' => Touched(d)
    BY <1>10 DEF OnTimer, Inc, Dec, TypeOK, Touched
  <2> QED
    BY <1>9, <1>10, <2>1, <2>2 DEF OnTimer, ParkedIsKnown, callVars, historyVars, eventVars
<1>11. ASSUME NEW c \in Calls, SetCancelled(c) PROVE HookInv'
  <2>1. TypeOK'
    BY <1>11 DEF SetCancelled, Inc, Dec, TypeOK, callVars, historyVars, eventVars, socketVars
  <2>2. \A d \in Calls : Touched(d)' => Touched(d)
    BY <1>11 DEF SetCancelled, Inc, Dec, TypeOK, Touched
  <2> QED
    BY <1>9, <1>11, <2>1, <2>2 DEF SetCancelled, ParkedIsKnown, callVars, historyVars, eventVars
<1>12. ASSUME NEW S \in SUBSET events, Trigger(S), UNCHANGED <<callVars, armed, queued, held, cancelled,
              elapsed, socketVars>>,
              striking' \in [Calls -> Nat], missed' \subseteq Events, batch' \subseteq Events
       PROVE  HookInv'
  <2>1. /\ ParkedIsKnown'
        /\ events' \subseteq Events /\ woken' \subseteq Events /\ interest' \subseteq Events
        /\ listed' \in BOOLEAN
    BY <1>0, <1>12, TriggerParked DEF callVars
  <2>2. TypeOK'
    BY <1>12, <2>1 DEF TypeOK, callVars, socketVars
  <2>3. CallsCounted' /\ ArmedInCall' /\ TimeoutHonest'
    BY <1>12 DEF CallsCounted, ArmedInCall, TimeoutHonest, callVars
  <2>4. FutureUntouched' /\ TouchedHonestly'
    BY <1>12 DEF FutureUntouched, TouchedHonestly, Touched, Now, callVars
  <2> QED
    BY <2>1, <2>2, <2>3, <2>4
<1>13. ASSUME NEW c \in Calls, CancelEvent(c) PROVE HookInv'
  <2>1. c[1] \in Events
    BY CallParts
  <2>2. striking' \in [Calls -> Nat]
    BY <1>13 DEF CancelEvent, Dec, TypeOK
  <2>3. missed' \subseteq Events
    BY <1>13, <2>1 DEF CancelEvent, TypeOK
  <2> QED
    BY <1>12, <1>13, <2>2, <2>3 DEF CancelEvent, TypeOK, callVars, socketVars
<1>14. ASSUME Dispatch PROVE HookInv'
  BY <1>12, <1>14 DEF Dispatch, TypeOK, timerVars, historyVars
<1>15. ASSUME UNCHANGED <<callVars, timerVars, historyVars>>, TypeOK', ParkedIsKnown' PROVE HookInv'
  BY <1>15, TimersKept DEF historyVars
<1>16. ASSUME Close PROVE HookInv'
  <2>1. /\ ParkedIsKnown'
        /\ events' \subseteq Events /\ woken' \subseteq Events /\ interest' \subseteq Events
        /\ listed' \in BOOLEAN
    BY <1>0, <1>16, TriggerParked DEF Close, callVars
  <2>2. TypeOK'
    BY <1>16, <2>1 DEF Close, TypeOK, callVars, timerVars, historyVars
  <2> QED
    BY <1>15, <1>16, <2>1, <2>2 DEF Close
<1>17. ASSUME NEW e \in Events, Arrive(e) PROVE HookInv'
  <2>1. TypeOK' /\ ParkedIsKnown'
    BY <1>17 DEF Arrive, TypeOK, ParkedIsKnown, callVars, timerVars, historyVars
  <2> QED
    BY <1>15, <1>17, <2>1 DEF Arrive
<1>18. ASSUME EpollWait PROVE HookInv'
  <2>1. TypeOK' /\ ParkedIsKnown'
    BY <1>18 DEF EpollWait, TypeOK, ParkedIsKnown, callVars, timerVars, historyVars, socketVars
  <2> QED
    BY <1>15, <1>18, <2>1 DEF EpollWait
<1>19. ASSUME FdMgrDel \/ CloseF \/ Reopen PROVE HookInv'
  <2>1. TypeOK' /\ ParkedIsKnown'
    BY <1>19 DEF FdMgrDel, CloseF, Reopen, TypeOK, ParkedIsKnown, callVars, timerVars, historyVars, eventVars
  <2> QED
    BY <1>15, <1>19, <2>1 DEF FdMgrDel, CloseF, Reopen
<1>20. ASSUME UNCHANGED vars PROVE HookInv'
  <2>1. TypeOK' /\ ParkedIsKnown'
    BY <1>20 DEF vars, TypeOK, ParkedIsKnown, callVars, timerVars, historyVars, eventVars, socketVars
  <2> QED
    BY <1>15, <1>20, <2>1 DEF vars
<1> QED
  BY <1>1, <1>2, <1>3, <1>4, <1>5, <1>6, <1>7, <1>8, <1>10, <1>11, <1>13, <1>14, <1>16, <1>17, <1>18,
     <1>19, <1>20 DEF Next, Fiber, Callback, Poller, CloseOn

-----------------------------------------------------------------------------
(* On every path through do_io and connect_with_timeout: a parked fiber is known to epoll or to
   the scheduler and never to both, and a call that has returned leaves no timer armed
   (hook.cc:102-152, 229-280). *)
THEOREM CallsCorrect == Spec => []Consistent
<1>1. HookInv => Consistent
  BY DEF HookInv, Consistent, NoTimerLeft, ArmedInCall
<1> QED
  BY HookInitInv, HookNextInv, <1>1, PTL DEF Spec

(* ETIMEDOUT is never the work of a timer of an earlier call, however late its callback runs
   (the weak pointer of hook.cc:114). *)
THEOREM TimeoutsCorrect == Spec => []TimeoutHonest
<1>1. HookInv => TimeoutHonest
  BY DEF HookInv
<1> QED
  BY HookInitInv, HookNextInv, <1>1, PTL DEF Spec
=============================================================================
