-------------------------- MODULE MCFiberScheduler --------------------------
(* Instances of FiberScheduler for TLC. *)
EXTENDS FiberScheduler

(* Constructor arguments. *)
TwoThreads == {<<2, FALSE>>}
AllShapes == {<<2, FALSE>>, <<1, FALSE>>, <<1, TRUE>>, <<0, TRUE>>}

(* Threads, and the fibers and callbacks of the client, are interchangeable. *)
Symmetry == Permutations(Workers) \cup Permutations(ClientFibers)
            \cup Permutations(PoolFibers) \cup Permutations(Callbacks)
=============================================================================
