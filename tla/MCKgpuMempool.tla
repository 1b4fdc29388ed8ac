---------------------------- MODULE MCKgpuMempool ---------------------------
(* Instances of KgpuMempool for TLC. *)
EXTENDS KgpuMempool, TLC

\* Threads are interchangeable.
Symmetry == Permutations(Threads)
=============================================================================
