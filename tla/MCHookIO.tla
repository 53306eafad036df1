------------------------------ MODULE MCHookIO ------------------------------
(* Instances of HookIO for TLC. *)
EXTENDS HookIO

(* The writer calls twice, so that a timer of its first call meets the second. *)
WriterTwice == [e \in Events |-> IF e \in Connecting THEN 2 ELSE 1]
Once == [e \in Events |-> 1]
=============================================================================
