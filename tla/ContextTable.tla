---------------------------- MODULE ContextTable ----------------------------
(***************************************************************************)
(* The table of FdContexts of src/mumu/iomanager.cc while it grows.  It    *)
(* is looked up under a read lock; addEvent lets that lock go and takes    *)
(* the write lock to resize the table for its descriptor, without looking  *)
(* again.  epoll keeps the address of the context it was given, whatever   *)
(* becomes of the slot.  IOEvents has what is done with a context.          *)
(***************************************************************************)
EXTENDS Integers

CONSTANTS
  TableThreads,
  Descriptors,       \* numbers that are waited on
  InitialContexts,   \* contextResize(32)
  EventKinds,        \* READ and WRITE
  MaxWaitsOn         \* bound: calls of addEvent for each descriptor and event

ASSUME ContextTableAssumption ==
  /\ Descriptors \subseteq Nat \ {0, 1} /\ InitialContexts \in Nat /\ MaxWaitsOn \in Nat

VARIABLES
  tableSize,    \* m_fdContexts.size()
  slot,         \* of each descriptor: which of its contexts is in the table, 0 for none
  made,         \* of each descriptor: how many contexts were made for it
  waiting,      \* of each descriptor and event: the context a fiber waits in, 0 for none
  caller,       \* of each thread: its place in addEvent
  waits,        \* of each descriptor and event: calls of addEvent
  dropped,      \* history: descriptors whose context was cut off
  refused       \* history: descriptors whose addEvent failed in epoll_ctl

tableVars == <<tableSize, slot, made, waiting, caller, waits, dropped, refused>>

Keys == Descriptors \X EventKinds
NotIn == [pc |-> "out", key |-> <<0, "none">>, seen |-> 0, ctx |-> 0]
FdOf(t) == caller[t].key[1]
(* Of epoll's interest in a descriptor: the contexts that hold part of it. *)
Holders(fd) == {waiting[<<fd, e>>] : e \in EventKinds} \ {0}

TableInit ==
  /\ tableSize = InitialContexts
  /\ made = [fd \in Descriptors |-> IF fd < InitialContexts THEN 1 ELSE 0] /\ slot = made
  /\ waiting = [k \in Keys |-> 0]
  /\ caller = [t \in TableThreads |-> NotIn]
  /\ waits = [k \in Keys |-> 0] /\ dropped = {} /\ refused = {}

(* addEvent under the read lock. *)
LookUp(t, key) ==
  LET fd == key[1] IN
  /\ caller[t] = NotIn /\ waiting[key] = 0 /\ \A u \in TableThreads : caller[u].key # key
  /\ waits[key] < MaxWaitsOn /\ waits' = [waits EXCEPT ![key] = @ + 1]
  /\ caller' = [caller EXCEPT ![t] =
       [pc |-> IF tableSize > fd THEN "register" ELSE "grow",
        key |-> key, seen |-> tableSize, ctx |-> slot[fd]]]
  /\ UNCHANGED <<tableSize, slot, made, waiting, dropped, refused>>

ContextResizeAnew(size) ==    \* mutant: contexts that exist are made again
  /\ tableSize' = size
  /\ made' = [fd \in Descriptors |-> IF fd < size THEN made[fd] + 1 ELSE made[fd]]
  /\ slot' = [fd \in Descriptors |-> IF fd < size THEN made'[fd] ELSE 0]
  /\ dropped' = dropped \cup {fd \in Descriptors : slot[fd] # 0 /\ fd >= size}
(* contextResize(fd * 1.5) under the write lock. *)
ContextResize(size) ==
  /\ tableSize' = size
  /\ made' = [fd \in Descriptors |-> IF slot[fd] = 0 /\ fd < size THEN made[fd] + 1 ELSE made[fd]]
  /\ slot' = [fd \in Descriptors |-> IF fd >= size THEN 0
                                     ELSE IF slot[fd] = 0 THEN made[fd] + 1 ELSE slot[fd]]
  /\ dropped' = dropped \cup {fd \in Descriptors : slot[fd] # 0 /\ fd >= size}

Grow(t) ==
  /\ caller[t].pc = "grow"
  /\ ContextResize((FdOf(t) * 3) \div 2)
  /\ caller' = [caller EXCEPT ![t].pc = "register", ![t].ctx = slot'[FdOf(t)]]
  /\ UNCHANGED <<waiting, waits, refused>>

(* epoll_ctl: ADD for a context without events, MOD otherwise; epoll refuses ADD for a
   descriptor it watches already. *)
Register(t) ==
  LET fd == FdOf(t)
  IN /\ caller[t].pc = "register"
     /\ IF Holders(fd) \subseteq {caller[t].ctx}
        THEN waiting' = [waiting EXCEPT ![caller[t].key] = caller[t].ctx] /\ UNCHANGED refused
        ELSE refused' = refused \cup {fd} /\ UNCHANGED waiting
     /\ caller' = [caller EXCEPT ![t] = NotIn]
     /\ UNCHANGED <<tableSize, slot, made, waits, dropped>>

(* cancelEvent, cancelAll, delEvent: through the table, and false when the slot is
   missing or its context has no event. *)
Reaches(key) == key[1] < tableSize /\ waiting[key] = slot[key[1]]
Cancel(key) ==
  /\ waiting[key] # 0 /\ Reaches(key)
  /\ waiting' = [waiting EXCEPT ![key] = 0]
  /\ UNCHANGED <<tableSize, slot, made, caller, waits, dropped, refused>>

(* A report of epoll_wait: through the address. *)
Report(key) ==
  /\ waiting[key] # 0
  /\ waiting' = [waiting EXCEPT ![key] = 0]
  /\ UNCHANGED <<tableSize, slot, made, caller, waits, dropped, refused>>

TableNext ==
  \/ \E t \in TableThreads : Grow(t) \/ Register(t) \/ \E k \in Keys : LookUp(t, k)
  \/ \E k \in Keys : Cancel(k) \/ Report(k)

TableSpec == TableInit /\ [][TableNext]_tableVars

-----------------------------------------------------------------------------
(* Types. *)
TableTypeOK ==
  /\ tableSize \in Nat
  /\ slot \in [Descriptors -> Nat] /\ made \in [Descriptors -> Nat]
  /\ waiting \in [Keys -> Nat] /\ waits \in [Keys -> 0..MaxWaitsOn]
  /\ caller \in [TableThreads -> [pc : {"out", "grow", "register"}, key : Keys \cup {NotIn.key},
                                  seen : Nat, ctx : Nat]]
  /\ dropped \subseteq Descriptors /\ refused \subseteq Descriptors

(* A time-out, a close or a delEvent finds every wait: the context a fiber waits in
   is the one in the table, however many threads grow it, unless a resize for a smaller
   descriptor cut it off (iomanager.cc:156). *)
WaitReachable ==
  \A k \in Keys : waiting[k] # 0 => Reaches(k) \/ k[1] \in dropped

(* addEvent for one event is never refused because of a wait for the other, unless the
   context of that wait was cut off: the new one has no events, and asks epoll for ADD. *)
RefusedOnlyDropped == refused \subseteq dropped

(* The table shrinks only when another thread has grown it between the two locks of
   addEvent; alone, a resize never takes a slot away. *)
ShrinksOnlyByRace ==
  [][tableSize' < tableSize =>
       \E t \in TableThreads : caller[t].pc = "grow" /\ caller[t].seen < tableSize]_tableVars

(* Growth never costs a wait, unless two threads grow the table at once. *)
GrowthSound == [](WaitReachable /\ RefusedOnlyDropped) /\ ShrinksOnlyByRace
=============================================================================
