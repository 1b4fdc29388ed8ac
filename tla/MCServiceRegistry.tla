-------------------------- MODULE MCServiceRegistry -------------------------
(* An instance of ServiceRegistry for TLC. *)
EXTENDS ServiceRegistry

CONSTANTS a1, a2, b, plain   \* libraries
CONSTANTS A, B               \* names

\* a1 and a2 offer a service of the same name; the library of b has no
\* finit_service, and plain is not a service library.
Names == [l \in Libraries |-> IF l \in {a1, a2} THEN A ELSE B]
=============================================================================
