---------------------------- MODULE TimerContract ----------------------------
(***************************************************************************)
(* What src/mumu/timer.h promises of a timer, without locks, sets or       *)
(* pollers: it is pending from addTimer on, a one-shot timer then fires    *)
(* once or is cancelled, never both, and nothing fires before its time     *)
(* unless there is an excuse: the clock was set back, or seemed to be.     *)
(***************************************************************************)
EXTENDS Naturals

CONSTANTS Timers,      \* timer objects
          Recurring    \* those built with recurring = true

VARIABLES status,      \* of each timer: "none", "pending", "fired", "cancelled"
          due,         \* of each timer: when it is to fire
          clock,       \* system time, milliseconds
          excused      \* the clock has been set back, or has seemed to be

vars == <<status, due, clock, excused>>

Init == /\ status = [t \in Timers |-> "none"]
        /\ due \in [Timers -> Nat]
        /\ clock \in Nat /\ excused = FALSE

Arm(t) == /\ status[t] = "none"
          /\ status' = [status EXCEPT ![t] = "pending"]
          /\ UNCHANGED <<due, clock, excused>>

Move(t) == /\ status[t] \in {"none", "pending"}
           /\ due' \in [Timers -> Nat]
           /\ \A s \in Timers \ {t} : due'[s] = due[s]
           /\ UNCHANGED <<status, clock, excused>>

Cancel(t) == /\ status[t] = "pending"
             /\ status' = [status EXCEPT ![t] = "cancelled"]
             /\ UNCHANGED <<due, clock, excused>>

(* A batch fires: one-shot timers are over, recurring ones get a new time. *)
Fire == \E S \in SUBSET {t \in Timers : status[t] = "pending"} :
          /\ S # {}
          /\ \A t \in S : due[t] <= clock \/ excused
          /\ status' = [t \in Timers |-> IF t \in S \ Recurring THEN "fired" ELSE status[t]]
          /\ due' \in [Timers -> Nat]
          /\ \A t \in Timers \ (S \cap Recurring) : due'[t] = due[t]
          /\ UNCHANGED <<clock, excused>>

(* Excuses come with time, and stay. *)
Time == /\ clock' \in Nat
        /\ excused' \in BOOLEAN /\ (excused \/ clock' < clock => excused')
        /\ UNCHANGED <<status, due>>

Next == Time \/ Fire \/ \E t \in Timers : Arm(t) \/ Move(t) \/ Cancel(t)

Spec == Init /\ [][Next]_vars
=============================================================================
