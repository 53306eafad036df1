----------------------------- MODULE MCIOEvents -----------------------------
(* Instances of IOEvents for TLC. *)
EXTENDS IOEvents, TLC

Symmetry == Permutations(Fds) \cup Permutations(Events) \cup Permutations(Pollers)
=============================================================================
