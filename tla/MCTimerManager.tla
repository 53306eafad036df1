--------------------------- MODULE MCTimerManager ---------------------------
(* Instances of TimerManager for TLC. *)
EXTENDS TimerManager, TLC

(* Pollers are interchangeable; timers are not, their addresses are ordered. *)
Symmetry == Permutations(Pollers)
=============================================================================
