------------------------------ MODULE MCFabric ------------------------------
(***************************************************************************)
(* Fabric for model checking: workers and threads are interchangeable.     *)
(***************************************************************************)
EXTENDS Fabric, TLC

Symmetry == Permutations(Worker) \cup Permutations(Thread)
=============================================================================
