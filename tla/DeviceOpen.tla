----------------------------- MODULE DeviceOpen -----------------------------
(***************************************************************************)
(* Opening and closing /dev/kgpu (kernelSpace/main.c): kgpu_open takes the *)
(* device with atomic_dec_and_test and gives its decrement back with       *)
(* atomic_inc if that failed; kgpu_release stores 1.  KgpuModule composes  *)
(* these steps with the life of the module.                                *)
(***************************************************************************)
EXTENDS Integers, FiniteSets

CONSTANT Processes   \* that may run the helper

VARIABLES
  kgpudev_av,   \* the atomic counter
  pc,           \* of each process: "closed", "failing" or "open"
  raced         \* a release has overlapped a failing open

ovars == <<kgpudev_av, pc, raced>>

At(s) == { p \in Processes : pc[p] = s }

OpenTypeOK ==
  /\ kgpudev_av \in Int
  /\ pc \in [Processes -> {"closed", "failing", "open"}]
  /\ raced \in BOOLEAN

OpenInit ==
  /\ kgpudev_av = 1
  /\ pc = [p \in Processes |-> "closed"]
  /\ raced = FALSE

\* kgpu_open, atomic_dec_and_test.
kgpu_open(p) ==
  /\ pc[p] = "closed"
  /\ kgpudev_av' = kgpudev_av - 1
  /\ pc' = [pc EXCEPT ![p] = IF kgpudev_av' = 0 THEN "open" ELSE "failing"]
  /\ UNCHANGED raced

\* Faulty variant: the counter is set to 1.
open_busy_Set(p) ==
  /\ pc[p] = "failing"
  /\ kgpudev_av' = 1
  /\ pc' = [pc EXCEPT ![p] = "closed"]
  /\ UNCHANGED raced

\* kgpu_open, atomic_inc and the return of -EBUSY.
open_busy(p) ==
  /\ pc[p] = "failing"
  /\ kgpudev_av' = kgpudev_av + 1
  /\ pc' = [pc EXCEPT ![p] = "closed"]
  /\ UNCHANGED raced

\* Faulty variant: the counter is not set.
kgpu_release_NoSet(p) ==
  /\ pc[p] = "open"
  /\ UNCHANGED kgpudev_av
  /\ pc' = [pc EXCEPT ![p] = "closed"]
  /\ raced' = (raced \/ At("failing") # {})

\* kgpu_release, atomic_set.
kgpu_release(p) ==
  /\ pc[p] = "open"
  /\ kgpudev_av' = 1
  /\ pc' = [pc EXCEPT ![p] = "closed"]
  /\ raced' = (raced \/ At("failing") # {})

-----------------------------------------------------------------------------
\* One helper has the device at a time, as long as no release has come between
\* the two halves of an open that fails.
ExclusiveUnlessRaced == ~raced => Cardinality(At("open")) <= 1

\* Under the same condition failed opens leave no trace: a device that nobody
\* uses can be opened.
OpenableUnlessRaced == ~raced /\ At("closed") = Processes => kgpudev_av = 1

=============================================================================
