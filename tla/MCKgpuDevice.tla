---------------------------- MODULE MCKgpuDevice ----------------------------
(* Instances of KgpuDevice for TLC. *)
EXTENDS KgpuDevice, TLC

\* Threads, request objects and sync data objects are interchangeable.
Symmetry ==
  Permutations(Threads) \cup Permutations(Requests) \cup Permutations(Data)

=============================================================================
