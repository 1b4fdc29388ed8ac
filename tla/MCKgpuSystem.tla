---------------------------- MODULE MCKgpuSystem ----------------------------
(* Instances of KgpuSystem for TLC. *)
EXTENDS KgpuSystem, TLC

CONSTANTS known, unknown

\* A registered service, with mapped memory.
Mapped == [service |-> known, mem |-> "vma"]

\* An unknown service, with memory of the pool.
Unknown == [service |-> unknown, mem |-> "pool"]

MappedOrUnknown == {Mapped, Unknown}
OnlyMapped == {Mapped}

\* Threads and request objects are interchangeable.
Symmetry == Permutations(Threads) \cup Permutations(Requests)
=============================================================================
