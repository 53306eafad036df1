---------------------------- MODULE MCIOManager -----------------------------
(* Instances of IOManager for TLC. *)
EXTENDS IOManager, TLC

CONSTANTS f1, f2     \* two tasks; only the first one waits

OneWait == f1 :> 1 @@ f2 :> 0
=============================================================================
