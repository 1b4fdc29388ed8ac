-------------------------- MODULE KgpuModuleProofs --------------------------
(***************************************************************************)
(* Theorems about the life of the module and its device file, for any      *)
(* number of processes and of helpers one after the other, and about the   *)
(* libraries the helper loads and unloads.                                 *)
(***************************************************************************)
EXTENDS KgpuModule, ServiceRegistry, LinkedListLemmas, FiniteSetTheorems, WellFoundedInduction

-----------------------------------------------------------------------------
\* What kgpu_init has created is known at each of its steps, and nobody is in
\* the device before cdev_add.
ObjectsInv ==
  /\ mod = "out" /\ ~late => held = {}
  /\ late => mod = "out" /\ Caches \subseteq held
  /\ mod = "item_cache" => held = {"request_cache"}
  /\ mod = "data_cache" => held = {"request_cache", "item_cache"}
  /\ mod \in {"class", "region", "cdev", "device", "in"} => Caches \subseteq held
  /\ mod = "in" => "cdev" \in held
  /\ UsersHaveTheirModule

\* What helpers have set up exists only from cdev_add on, and as long as none
\* has been superseded there is one of each at most.
SetupInv ==
  /\ mod \notin {"device", "in"} /\ ~late => arrays = {} /\ ~kva /\ ~vm
  /\ kva => maps > 0
  /\ vm => vms > 0
  /\ ~superseded => /\ kva => maps = 1
                    /\ ~kva => maps = 0
                    /\ vm => vms = 1
                    /\ ~vm => vms = 0

\* Until a release overlaps a failing open, the counter says how many are at
\* the device, one of them has it if there are any, and no second one has it.
OpenInv ==
  ~raced => /\ kgpudev_av = 1 - Cardinality(Users)
            /\ Users # {} => At("open") # {}
            /\ \A h, g \in At("open") : h = g

ModuleInv == TypeOK /\ ObjectsInv /\ SetupInv /\ OpenInv

-----------------------------------------------------------------------------
\* At the start there is no module and nobody at the device.
LEMMA InitInv == Init => ModuleInv
<1> SUFFICES ASSUME Init PROVE ModuleInv
  OBVIOUS
<1>1. Users = {}
  BY SMT DEF Init, OpenInit, Users, At
<1>2. TypeOK
  <2>1. kgpudev_av \in Int /\ maps \in Nat /\ vms \in Nat
    BY SMT DEF Init, OpenInit
  <2>2. /\ pc \in [Processes -> {"closed", "failing", "open"}]
        /\ stage \in [Processes -> Stages]
    BY SMT DEF Init, OpenInit, Stages
  <2> QED BY <2>1, <2>2, Zenon DEF Init, OpenInit, TypeOK, OpenTypeOK
<1>3. ObjectsInv
  BY <1>1, SMT DEF Init, ObjectsInv, UsersHaveTheirModule
<1>4. SetupInv
  BY Zenon DEF Init, SetupInv
<1>5. OpenInv
  BY <1>1, FS_EmptySet, SMT DEF Init, OpenInit, OpenInv, Users
<1> QED BY <1>2, <1>3, <1>4, <1>5, Zenon DEF ModuleInv

\* A step keeps the types: first the flags, then the rest.
LEMMA StepFlags ==
  ASSUME TypeOK, Next
  PROVE  raced' \in BOOLEAN /\ kva' \in BOOLEAN /\ vm' \in BOOLEAN
           /\ late' \in BOOLEAN /\ superseded' \in BOOLEAN
<1>0. raced \in BOOLEAN /\ kva \in BOOLEAN /\ vm \in BOOLEAN
        /\ late \in BOOLEAN /\ superseded \in BOOLEAN
  BY Zenon DEF TypeOK, OpenTypeOK
<1>1. CASE kgpu_init
  BY <1>0, <1>1, Zenon DEF kgpu_init, setup
<1>2. CASE create_caches
  BY <1>0, <1>2, Zenon DEF create_caches, setup, ovars
<1>3. CASE create_device
  BY <1>0, <1>3, Zenon DEF create_device, setup, ovars
<1>4. CASE init_return
  BY <1>0, <1>4, Zenon DEF init_return, setup, ovars
<1>5. CASE kgpu_cleanup
  BY <1>0, <1>5, Zenon DEF kgpu_cleanup, ovars
<1>6. ASSUME NEW h \in Processes, Open(h) \/ OpenBusy(h) \/ Release(h)
      PROVE  raced' \in BOOLEAN /\ UNCHANGED <<kva, vm, late, superseded>>
  BY <1>0, <1>6, Zenon
     DEF Open, OpenBusy, Release, kgpu_open, open_busy, kgpu_release, objects, setup
<1>7. ASSUME NEW h \in Processes, kgpu_mmap(h) \/ no_memory(h) \/ set_gpu_mempool(h)
      PROVE  /\ UNCHANGED <<raced, late>>
             /\ kva' \in BOOLEAN /\ vm' \in BOOLEAN /\ superseded' \in BOOLEAN
  BY <1>0, <1>7, Zenon DEF kgpu_mmap, no_memory, set_gpu_mempool, objects, ovars
<1> QED BY <1>0, <1>1, <1>2, <1>3, <1>4, <1>5, <1>6, <1>7, Zenon DEF Next

LEMMA StepType == ASSUME ModuleInv, Next PROVE TypeOK'
<1> DEFINE Counters == kgpudev_av \in Int /\ maps \in Nat /\ vms \in Nat
           Where    == /\ pc \in [Processes -> {"closed", "failing", "open"}]
                       /\ stage \in [Processes -> Stages]
           What     == /\ mod \in {"out", "in"} \cup Loading
                       /\ held \subseteq Objects /\ arrays \subseteq Arrays
<1>0. TypeOK /\ Counters /\ Where /\ What
  BY Zenon DEF ModuleInv, TypeOK, OpenTypeOK
<1>1. CASE kgpu_init
  <2>1. Counters' /\ Where'
    <3>1. 1 \in Int
      OBVIOUS
    <3> QED BY <1>0, <1>1, <3>1, Zenon DEF kgpu_init, setup
  <2>2. What'
    BY <1>0, <1>1, SMT DEF kgpu_init, Loading, Objects, Caches, setup
  <2> QED BY <2>1, <2>2, <1>0, StepFlags, Zenon DEF TypeOK, OpenTypeOK
<1>2. CASE create_caches \/ create_device \/ init_return
  <2>1. Counters' /\ Where'
    BY <1>0, <1>2, Zenon DEF create_caches, create_device, init_return, setup, ovars
  <2>2. arrays' \subseteq Arrays
    BY <1>0, <1>2, Zenon DEF create_caches, create_device, init_return, setup
  <2>3. mod' \in {"out", "in"} \cup Loading
    BY <1>0, <1>2, Zenon DEF create_caches, create_device, init_return, Create, Fail, Loading
  <2>4. held' \subseteq Objects
    BY <1>0, <1>2, Zenon DEF create_caches, create_device, init_return, Create, Fail, Objects, Caches
  <2> QED BY <2>1, <2>2, <2>3, <2>4, <1>0, StepFlags, Zenon DEF TypeOK, OpenTypeOK
<1>3. CASE kgpu_cleanup
  <2>1. maps' \in Nat
    <3>1. CASE kva
      BY <1>0, <1>3, <3>1, SMT DEF kgpu_cleanup, ModuleInv, SetupInv
    <3>2. CASE ~kva
      BY <1>0, <1>3, <3>2, SMT DEF kgpu_cleanup
    <3> QED BY <3>1, <3>2
  <2>2. vms' \in Nat
    <3>1. CASE vm
      BY <1>0, <1>3, <3>1, SMT DEF kgpu_cleanup, ModuleInv, SetupInv
    <3>2. CASE ~vm
      BY <1>0, <1>3, <3>2, SMT DEF kgpu_cleanup
    <3> QED BY <3>1, <3>2
  <2>3. kgpudev_av' \in Int /\ Where' /\ What'
    BY <1>0, <1>3, Zenon DEF kgpu_cleanup, ovars
  <2> QED BY <2>1, <2>2, <2>3, <1>0, StepFlags, Zenon DEF TypeOK, OpenTypeOK
<1>4. ASSUME NEW h \in Processes, Open(h) \/ OpenBusy(h) \/ Release(h)
      PROVE  Counters' /\ Where' /\ What'
  <2>1. kgpudev_av' \in Int
    <3>1. kgpudev_av' \in {kgpudev_av - 1, kgpudev_av + 1, 1}
      BY <1>4, Zenon DEF Open, OpenBusy, Release, kgpu_open, open_busy, kgpu_release
    <3> QED BY <1>0, <3>1, SMT
  <2>2. Where'
    BY <1>0, <1>4, SMTT(30) DEF Open, OpenBusy, Release, kgpu_open, open_busy, kgpu_release, Stages
  <2>3. UNCHANGED <<maps, vms, mod, held, arrays>>
    BY <1>4, Zenon DEF Open, OpenBusy, Release, objects, setup
  <2> QED BY <1>0, <2>1, <2>2, <2>3, Zenon
<1>5. ASSUME NEW h \in Processes, kgpu_mmap(h) \/ no_memory(h) \/ set_gpu_mempool(h)
      PROVE  Counters' /\ Where' /\ What'
  <2>1. maps' \in {maps, maps + 1} /\ vms' \in {vms, vms + 1}
    BY <1>5, Zenon DEF kgpu_mmap, no_memory, set_gpu_mempool
  <2>2. maps' \in Nat /\ vms' \in Nat
    BY <1>0, <2>1, SMT
  <2>3. PICK s \in Stages : stage' = [stage EXCEPT ![h] = s]
    BY <1>5, Zenon DEF kgpu_mmap, no_memory, set_gpu_mempool, Stages
  <2>4. stage' \in [Processes -> Stages]
    BY <1>0, <2>3, SMT
  <2>5. UNCHANGED <<kgpudev_av, pc, mod, held>>
    BY <1>5, Zenon DEF kgpu_mmap, no_memory, set_gpu_mempool, objects, ovars
  <2>6. arrays' \subseteq Arrays
    BY <1>0, <1>5, Zenon DEF kgpu_mmap, no_memory, set_gpu_mempool, Arrays
  <2> QED BY <1>0, <2>2, <2>4, <2>5, <2>6, Zenon
<1>6. ASSUME NEW h \in Processes,
             \/ Open(h) \/ OpenBusy(h) \/ Release(h)
             \/ kgpu_mmap(h) \/ no_memory(h) \/ set_gpu_mempool(h)
      PROVE  TypeOK'
  BY <1>0, <1>4, <1>5, <1>6, StepFlags, Zenon DEF TypeOK, OpenTypeOK
<1> QED BY <1>1, <1>2, <1>3, <1>6, Zenon DEF Next

\* A step of the module itself leaves its users alone.
LEMMA SameUsers == ASSUME UNCHANGED pc PROVE Users' = Users
  BY Zenon DEF Users, At

\* kgpu_init, kgpu_cleanup and the helpers keep ObjectsInv.
LEMMA StepObjects == ASSUME ModuleInv, Next PROVE ObjectsInv'
<1> USE DEF ObjectsInv, UsersHaveTheirModule
<1>0. TypeOK /\ ObjectsInv
  BY Zenon DEF ModuleInv
<1>1. CASE kgpu_init
  <2>1. ~late /\ Users = {} /\ held = {}
    BY <1>0, <1>1, SMT DEF kgpu_init, Caches
  <2>2. Users' = {}
    BY <1>1, <2>1, SameUsers, Zenon DEF kgpu_init
  <2> QED BY <1>1, <2>1, <2>2, SMT DEF kgpu_init
<1>2. CASE create_caches
  <2>1. Users' = {}
    BY <1>0, <1>2, SameUsers, SMT DEF create_caches, Create, Fail, ovars, Caches
  <2> QED BY <1>0, <1>2, <2>1, SMT DEF create_caches, Create, Fail, Caches
<1>3. CASE create_device
  <2>1. Users' = {}
    BY <1>0, <1>3, SameUsers, SMT DEF create_device, Create, Fail, ovars, Caches
  <2> QED BY <1>0, <1>3, <2>1, SMT DEF create_device, Create, Fail, Caches
<1>4. CASE init_return
  <2>1. Users' = Users
    BY <1>4, SameUsers, Zenon DEF init_return, ovars
  <2> QED BY <1>0, <1>4, <2>1, SMT DEF init_return, Caches
<1>5. CASE kgpu_cleanup
  <2>1. Users' = {}
    <3>1. Users = {}
      BY <1>5, SMT DEF kgpu_cleanup, Unused, Users, At
    <3> QED BY <1>5, <3>1, SameUsers, Zenon DEF kgpu_cleanup, ovars
  <2> QED BY <1>0, <1>5, <2>1, SMT DEF kgpu_cleanup
<1>6. ASSUME Reachable, UNCHANGED objects PROVE ObjectsInv'
  BY <1>0, <1>6, SMT DEF Reachable, objects
<1>7. ASSUME NEW h \in Processes,
             Open(h) \/ OpenBusy(h) \/ Release(h)
               \/ kgpu_mmap(h) \/ no_memory(h) \/ set_gpu_mempool(h)
      PROVE  ObjectsInv'
  <2>1. Reachable /\ UNCHANGED objects
    BY <1>7, Zenon DEF Open, OpenBusy, Release, kgpu_mmap, no_memory, set_gpu_mempool
  <2> QED BY <1>6, <2>1, Zenon
<1> QED BY <1>1, <1>2, <1>3, <1>4, <1>5, <1>7, Zenon DEF Next

\* Nothing is set up before cdev_add, and what a helper sets up is counted.
LEMMA StepSetup == ASSUME ModuleInv, Next PROVE SetupInv'
<1>0. TypeOK /\ ObjectsInv /\ SetupInv
  BY Zenon DEF ModuleInv
<1> DEFINE Early == mod \notin {"device", "in"} /\ ~late
<1>1. CASE kgpu_init \/ create_caches \/ create_device \/ init_return
  <2>1. UNCHANGED setup
    BY <1>1, Zenon DEF kgpu_init, create_caches, create_device, init_return
  <2>2. ASSUME Early' PROVE Early
    BY <1>0, <1>1, <2>2, SMT DEF kgpu_init, create_caches, create_device, init_return,
       Create, Fail, ObjectsInv, Caches
  <2> QED BY <1>0, <2>1, <2>2, Zenon DEF SetupInv, setup
<1>2. CASE kgpu_cleanup
  <2>1. ~kva' /\ ~vm' /\ arrays' = {} /\ superseded' = superseded
    BY <1>2, Zenon DEF kgpu_cleanup
  <2>2. ~superseded => maps' = 0
    <3>1. CASE kva
      BY <1>0, <1>2, <3>1, SMT DEF kgpu_cleanup, SetupInv
    <3>2. CASE ~kva
      BY <1>0, <1>2, <3>2, SMT DEF kgpu_cleanup, SetupInv
    <3> QED BY <3>1, <3>2
  <2>3. ~superseded => vms' = 0
    <3>1. CASE vm
      BY <1>0, <1>2, <3>1, SMT DEF kgpu_cleanup, SetupInv
    <3>2. CASE ~vm
      BY <1>0, <1>2, <3>2, SMT DEF kgpu_cleanup, SetupInv
    <3> QED BY <3>1, <3>2
  <2> QED BY <2>1, <2>2, <2>3, Zenon DEF SetupInv
<1>3. ASSUME NEW h \in Processes, Open(h) \/ OpenBusy(h) \/ Release(h)
      PROVE  SetupInv'
  <2>1. UNCHANGED <<mod, late, arrays, kva, maps, vm, vms, superseded>>
    BY <1>3, Zenon DEF Open, OpenBusy, Release, objects, setup
  <2> QED BY <1>0, <2>1, Zenon DEF SetupInv
<1>4. ASSUME NEW h \in Processes, kgpu_mmap(h) \/ no_memory(h) \/ set_gpu_mempool(h)
      PROVE  SetupInv'
  <2>1. mod' \in {"device", "in"}
    BY <1>4, Zenon DEF kgpu_mmap, no_memory, set_gpu_mempool, Reachable, objects
  <2>2. maps \in Nat /\ vms \in Nat
    BY <1>0, Zenon DEF TypeOK
  <2>3. CASE kgpu_mmap(h)
    <3>1. UNCHANGED <<kva, maps>> /\ superseded' = (superseded \/ vm)
      BY <2>3, Zenon DEF kgpu_mmap
    <3>2. CASE vm' = TRUE /\ vms' = vms + 1
      <4>1. vms' > 0 /\ (vms = 0 => vms' = 1)
        BY <2>2, <3>2, SMT
      <4> QED BY <1>0, <2>1, <3>1, <3>2, <4>1, Zenon DEF SetupInv
    <3>3. CASE vm' = FALSE /\ vms' = vms
      BY <1>0, <2>1, <3>1, <3>3, Zenon DEF SetupInv
    <3> QED BY <2>3, <3>2, <3>3, Zenon DEF kgpu_mmap
  <2>4. CASE no_memory(h)
    BY <1>0, <2>1, <2>4, Zenon DEF no_memory, SetupInv
  <2>5. CASE set_gpu_mempool(h)
    <3>1. UNCHANGED <<vm, vms>> /\ superseded' = (superseded \/ kva)
      BY <2>5, Zenon DEF set_gpu_mempool
    <3>2. CASE kva' = TRUE /\ maps' = maps + 1
      <4>1. maps' > 0 /\ (maps = 0 => maps' = 1)
        BY <2>2, <3>2, SMT
      <4> QED BY <1>0, <2>1, <3>1, <3>2, <4>1, Zenon DEF SetupInv
    <3>3. CASE kva' = FALSE /\ maps' = maps
      BY <1>0, <2>1, <3>1, <3>3, Zenon DEF SetupInv
    <3> QED BY <2>5, <3>2, <3>3, Zenon DEF set_gpu_mempool
  <2> QED BY <1>4, <2>3, <2>4, <2>5, Zenon
<1> QED BY <1>1, <1>2, <1>3, <1>4, Zenon DEF Next

\* The counter: an open that succeeds finds nobody there, and without an
\* overlap the one that leaves is the only one there.
LEMMA StepOpen == ASSUME ModuleInv, Next PROVE OpenInv'
<1>0. TypeOK /\ ObjectsInv /\ OpenInv
  BY Zenon DEF ModuleInv
<1>1. IsFiniteSet(Users)
  BY ModuleAssumption, FS_Subset, Zenon DEF Users, At
<1>2. Cardinality(Users) \in Nat
  BY <1>1, FS_CardinalityType, Zenon
<1>3. kgpudev_av \in Int /\ pc \in [Processes -> {"closed", "failing", "open"}]
  BY <1>0, Zenon DEF TypeOK, OpenTypeOK
<1>4. CASE kgpu_init
  <2>1. Users = {}
    BY <1>0, <1>4, SMT DEF kgpu_init, ObjectsInv, UsersHaveTheirModule, Caches
  <2>2. Users' = {}
    BY <1>4, <2>1, SameUsers, Zenon DEF kgpu_init
  <2>3. kgpudev_av' = 1 - Cardinality(Users')
    BY <1>4, <2>2, FS_EmptySet, SMT DEF kgpu_init
  <2>4. At("open")' = {}
    BY <2>2, Zenon DEF Users
  <2> QED BY <2>2, <2>3, <2>4, Zenon DEF OpenInv
<1>5. ASSUME UNCHANGED ovars PROVE OpenInv'
  BY <1>0, <1>5, Zenon DEF OpenInv, Users, At, ovars
<1>6. ASSUME NEW h \in Processes, Open(h) PROVE OpenInv'
  <2>1. /\ pc[h] = "closed" /\ kgpudev_av' = kgpudev_av - 1 /\ raced' = raced
        /\ pc' = [pc EXCEPT ![h] = IF kgpudev_av' = 0 THEN "open" ELSE "failing"]
    BY <1>6, Zenon DEF Open, kgpu_open
  <2> SUFFICES ASSUME ~raced
               PROVE  /\ kgpudev_av' = 1 - Cardinality(Users')
                      /\ At("open")' # {}
                      /\ \A g, r \in At("open")' : g = r
    BY <2>1, Zenon DEF OpenInv
  <2>2. h \notin Users /\ Users' = Users \cup {h}
    BY <1>3, <2>1, SMT DEF Users, At
  <2>3. Cardinality(Users') = Cardinality(Users) + 1
    BY <1>1, <2>2, FS_AddElement, Zenon
  <2>4. kgpudev_av = 1 - Cardinality(Users)
    BY <1>0, Zenon DEF OpenInv
  <2>5. kgpudev_av' = 1 - Cardinality(Users')
    BY <1>2, <2>1, <2>3, <2>4, SMT
  <2>6. CASE kgpudev_av' = 0
    <3>1. Cardinality(Users) = 0
      BY <1>2, <2>1, <2>4, <2>6, SMT
    <3>2. Users = {}
      BY <1>1, <3>1, FS_EmptySet, Zenon
    <3>3. At("open")' = {h}
      BY <1>3, <2>1, <2>6, <3>2, SMT DEF Users, At
    <3> QED BY <2>5, <3>3, Zenon
  <2>7. CASE kgpudev_av' # 0
    <3>1. At("open")' = At("open")
      BY <1>3, <2>1, <2>7, SMT DEF At
    <3>2. Users # {}
      <4>1. Users = {} => Cardinality(Users) = 0
        BY FS_EmptySet, Zenon
      <4> QED BY <4>1, <2>1, <2>4, <2>7, SMT
    <3> QED BY <1>0, <2>5, <3>1, <3>2, Zenon DEF OpenInv
  <2> QED BY <2>6, <2>7
<1>7. ASSUME NEW h \in Processes, OpenBusy(h) PROVE OpenInv'
  <2>1. /\ pc[h] = "failing" /\ kgpudev_av' = kgpudev_av + 1 /\ raced' = raced
        /\ pc' = [pc EXCEPT ![h] = "closed"]
    BY <1>7, Zenon DEF OpenBusy, open_busy
  <2> SUFFICES ASSUME ~raced
               PROVE  /\ kgpudev_av' = 1 - Cardinality(Users')
                      /\ Users' # {} => At("open")' # {}
                      /\ \A g, r \in At("open")' : g = r
    BY <2>1, Zenon DEF OpenInv
  <2>2. h \in Users /\ Users' = Users \ {h} /\ At("open")' = At("open")
    BY <1>3, <2>1, SMT DEF Users, At
  <2>3. Cardinality(Users') = Cardinality(Users) - 1
    BY <1>1, <2>2, FS_RemoveElement, Zenon
  <2>4. kgpudev_av' = 1 - Cardinality(Users')
    BY <1>0, <1>2, <2>1, <2>3, SMT DEF OpenInv
  <2> QED BY <1>0, <2>2, <2>4, Zenon DEF OpenInv
<1>8. ASSUME NEW h \in Processes, Release(h) PROVE OpenInv'
  <2>1. /\ pc[h] = "open" /\ kgpudev_av' = 1
        /\ raced' = (raced \/ At("failing") # {})
        /\ pc' = [pc EXCEPT ![h] = "closed"]
    BY <1>8, Zenon DEF Release, kgpu_release
  <2> SUFFICES ASSUME ~raced, At("failing") = {}
               PROVE  /\ kgpudev_av' = 1 - Cardinality(Users')
                      /\ Users' = {}
    BY <2>1, Zenon DEF OpenInv, Users
  <2>2. \A g \in At("open") : g = h
    BY <1>0, <2>1, Zenon DEF OpenInv, At
  <2>3. Users' = {}
    BY <1>3, <2>1, <2>2, SMT DEF Users, At
  <2> QED BY <2>1, <2>3, FS_EmptySet, SMT
<1>9. CASE create_caches \/ create_device \/ init_return \/ kgpu_cleanup
  BY <1>5, <1>9, Zenon DEF create_caches, create_device, init_return, kgpu_cleanup
<1>10. ASSUME NEW h \in Processes, kgpu_mmap(h) \/ no_memory(h) \/ set_gpu_mempool(h)
       PROVE  OpenInv'
  BY <1>5, <1>10, Zenon DEF kgpu_mmap, no_memory, set_gpu_mempool
<1> QED BY <1>4, <1>6, <1>7, <1>8, <1>9, <1>10, Zenon DEF Next

-----------------------------------------------------------------------------
LEMMA Stutter == ASSUME ModuleInv, UNCHANGED vars PROVE ModuleInv'
<1>1. TypeOK' /\ SetupInv'
  BY Zenon DEF ModuleInv, TypeOK, OpenTypeOK, SetupInv, vars, ovars, objects, setup
<1>2. ObjectsInv' /\ OpenInv'
  BY Zenon DEF ModuleInv, ObjectsInv, UsersHaveTheirModule, OpenInv, Users, At,
     vars, ovars, objects
<1> QED BY <1>1, <1>2, Zenon DEF ModuleInv

\* The life of the module and of its device file keeps ModuleInv.
THEOREM ModuleSafe == Spec => []ModuleInv
<1>1. ModuleInv /\ [Next]_vars => ModuleInv'
  BY StepType, StepObjects, StepSetup, StepOpen, Stutter, Zenon DEF ModuleInv
<1> QED BY InitInv, <1>1, PTL DEF Spec

\* Nobody is in the code of a module that kgpu_cleanup has removed, nor before
\* kgpu_init has created its caches, however many processes open the device
\* and whenever they do.
THEOREM NoUserWithoutModule == Spec => []UsersHaveTheirModule
<1>1. ModuleInv => UsersHaveTheirModule
  BY Zenon DEF ModuleInv, ObjectsInv
<1> QED BY ModuleSafe, <1>1, PTL

\* kgpu_cleanup, clear_gpu_mempool and clean_vm release all that kgpu_init and
\* one helper have created; a kgpu_init that fails early releases it itself.
THEOREM UnloadReleasesAll == Spec => []NothingLeftBehind
<1>1. ModuleInv => NothingLeftBehind
  BY Zenon DEF ModuleInv, ObjectsInv, SetupInv, NothingLeftBehind
<1> QED BY ModuleSafe, <1>1, PTL

\* kgpudev_av admits one helper at a time, among any number of processes, until
\* a kgpu_release overlaps a kgpu_open that fails.
THEOREM OneHelperAtATime == Spec => []ExclusiveUnlessRaced
<1>1. ASSUME ModuleInv PROVE ExclusiveUnlessRaced
  <2> SUFFICES ASSUME ~raced PROVE Cardinality(At("open")) <= 1
    BY Zenon DEF ExclusiveUnlessRaced
  <2>1. \A h, g \in At("open") : h = g
    BY <1>1, Zenon DEF ModuleInv, OpenInv
  <2>2. CASE At("open") = {}
    BY <2>2, FS_EmptySet, SMT
  <2>3. ASSUME NEW h \in At("open") PROVE Cardinality(At("open")) <= 1
    <3>1. At("open") = {h}
      BY <2>1, <2>3, Zenon
    <3>2. Cardinality({h}) = 1
      BY FS_Singleton, Zenon
    <3> QED BY <3>1, <3>2, SMT
  <2> QED BY <2>2, <2>3, Zenon
<1> QED BY ModuleSafe, <1>1, PTL

\* Opens that failed leave no trace in kgpudev_av: a device that nobody uses
\* can be opened, until a kgpu_release overlaps a kgpu_open that fails.
THEOREM FreeDeviceOpens == Spec => []OpenableUnlessRaced
<1>1. ASSUME ModuleInv PROVE OpenableUnlessRaced
  <2> SUFFICES ASSUME ~raced, At("closed") = Processes PROVE kgpudev_av = 1
    BY Zenon DEF OpenableUnlessRaced
  <2>1. Users = {}
    BY SMT DEF Users, At
  <2>2. kgpudev_av = 1 - Cardinality(Users)
    BY <1>1, Zenon DEF ModuleInv, OpenInv
  <2> QED BY <2>1, <2>2, FS_EmptySet, SMT
<1> QED BY ModuleSafe, <1>1, PTL

-----------------------------------------------------------------------------
(***************************************************************************)
(* Loading and unloading in the helper: its services (ServiceRegistry),    *)
(* for any libraries and any names.                                        *)
(***************************************************************************)
\* The entries that a library has on the list.
EntriesOf(l) == { i \in Range(services) : lib[i] = l }

\* Entries are on the list once and belong to libraries, each of which is open
\* once for each.
RegistryInv ==
  /\ services \in Seq(Items) /\ IsInjective(services)
  /\ \A i \in Range(services) : lib[i] \in Libraries
  /\ lib = [i \in Items |-> lib[i]]
  /\ opens = [l \in Libraries |-> Cardinality(EntriesOf(l))]

\* kh_unload_all_services is always at the first entry of the list, and what it
\* has saved is the second.
WalkInv ==
  /\ ~wild
  /\ call = "unload_all" =>
       /\ e = 0
       /\ p = IF services = <<>> THEN NULL ELSE services[1]
       /\ n = IF Len(services) < 2 THEN NULL ELSE services[2]

\* Among any positions there is a first.
LEMMA LeastOf ==
  ASSUME NEW K, K \subseteq Nat, K # {}
  PROVE  \E m \in K : \A j \in K : m <= j
<1> DEFINE Less == OpToRel(<, Nat)
<1>1. IsWellFoundedOn(Less, Nat)
  BY NatLessThanWellFounded, Zenon
<1>2. \A x, y \in Nat : x < y => <<x, y>> \in Less
  BY SMT DEF OpToRel
<1> HIDE DEF Less
<1>3. PICK m \in K : \A j \in K : ~ (<<j, m>> \in Less)
  BY <1>1, WFMin, Zenon
<1>4. \A j \in K : m <= j
  <2> SUFFICES ASSUME NEW j \in K PROVE m <= j
    OBVIOUS
  <2>1. m \in Nat /\ j \in Nat /\ ~(j < m)
    BY <1>2, <1>3, Zenon
  <2> QED BY <2>1, SMT
<1> QED BY <1>4, Zenon

\* The entry that lookup_kgpu_sitem finds is on the list and has the name.
LEMMA LookupFacts ==
  ASSUME RegistryInv, NEW name, lookup_kgpu_sitem(name) # NULL
  PROVE  LET i == lookup_kgpu_sitem(name) IN
         i \in Range(services) /\ Name[lib[i]] = name
<1> DEFINE K == Matches(name)
           k == CHOOSE k \in K : \A j \in K : k <= j
<1>1. K # {} /\ lookup_kgpu_sitem(name) = services[k]
  BY Zenon DEF lookup_kgpu_sitem
<1>2. DOMAIN services = 1..Len(services) /\ Len(services) \in Nat
  BY SMT DEF RegistryInv
<1>3. K \subseteq Nat
  BY <1>2, SMT DEF Matches
<1>4. \E m \in K : \A j \in K : m <= j
  BY <1>1, <1>3, LeastOf, Zenon
<1>5. k \in K
  BY <1>4, Zenon
<1>6. k \in DOMAIN services /\ Name[lib[services[k]]] = name
  BY <1>5, Zenon DEF Matches
<1>7. services[k] \in Range(services)
  BY <1>6, Zenon DEF Range
<1> QED BY <1>1, <1>6, <1>7, Zenon

\* The first entry of the list is the first of its name.
LEMMA LookupFirst ==
  ASSUME RegistryInv, services # <<>>
  PROVE  /\ services[1] \in Range(services)
         /\ lookup_kgpu_sitem(Name[lib[services[1]]]) = services[1]
<1> DEFINE K == Matches(Name[lib[services[1]]])
           k == CHOOSE k \in K : \A j \in K : k <= j
<1>1. /\ DOMAIN services = 1..Len(services) /\ Len(services) \in Nat
      /\ 1 \in DOMAIN services
  BY SMT DEF RegistryInv
<1>2. 1 \in K
  BY <1>1, Zenon DEF Matches
<1>3. \A j \in K : j \in 1..Len(services)
  BY <1>1, Zenon DEF Matches
<1>4. \A j \in K : j \in Nat /\ 1 <= j
  BY <1>1, <1>3, SMT
<1>5. k \in K /\ k <= 1
  BY <1>2, <1>4, Zenon
<1>6. k = 1
  BY <1>4, <1>5, SMT
<1>7. services[1] \in Range(services)
  BY <1>1, Zenon DEF Range
<1> QED BY <1>2, <1>6, <1>7, Zenon DEF lookup_kgpu_sitem

\* Entries are in memory of their own, of which there is only so much.
LEMMA EntriesAreItems ==
  ASSUME RegistryInv
  PROVE  /\ Range(services) \subseteq Items /\ NULL \notin Range(services)
         /\ \A l : IsFiniteSet(EntriesOf(l))
<1>1. Range(services) \subseteq Items
  BY SMT DEF RegistryInv, Range
<1>2. IsFiniteSet(Items) /\ NULL \notin Items
  BY RegistryAssumption, Zenon
<1>3. ASSUME NEW l PROVE IsFiniteSet(EntriesOf(l))
  <2>1. EntriesOf(l) \in SUBSET Items
    BY <1>1, Zenon DEF EntriesOf
  <2> QED BY <1>2, <2>1, FS_Subset, Zenon
<1> QED BY <1>1, <1>2, <1>3, Zenon

\* A library that is loaded has one entry more and is open once more.
LEMMA LoadKeeps ==
  ASSUME RegistryInv, NEW l, kh_load_service(l)
  PROVE  RegistryInv'
<1>1. PICK i \in Items \ Range(services) : services' = Append(services, i)
                                         /\ lib' = [lib EXCEPT ![i] = l]
  BY Zenon DEF kh_load_service, kh_register_service
<1>2. l \in Libraries /\ opens' = [opens EXCEPT ![l] = @ + 1]
  BY RegistryAssumption, Zenon DEF kh_load_service
<1>3. /\ services' \in Seq(Items) /\ IsInjective(services')
      /\ Range(services') = Range(services) \cup {i}
  <2>1. services \in Seq(Items) /\ IsInjective(services) /\ i \in Items /\ i \notin Range(services)
    BY Zenon DEF RegistryInv
  <2>2. /\ Append(services, i) \in Seq(Items) /\ IsInjective(Append(services, i))
        /\ Range(Append(services, i)) = Range(services) \cup {i}
    BY <2>1, AppendSet, SMT
  <2> QED BY <1>1, <2>2, Zenon
<1>4. /\ lib' = [j \in Items |-> lib'[j]]
      /\ lib'[i] = l /\ \A j \in Range(services) : lib'[j] = lib[j]
  <2>1. lib = [j \in Items |-> lib[j]] /\ Range(services) \subseteq Items
    BY EntriesAreItems, Zenon DEF RegistryInv
  <2>2. lib' = [j \in Items |-> IF j = i THEN l ELSE lib[j]]
    BY <1>1, <2>1, Zenon
  <2> QED BY <1>1, <2>1, <2>2, Zenon
<1>5. \A k \in Libraries : EntriesOf(k)' = IF k = l THEN EntriesOf(k) \cup {i} ELSE EntriesOf(k)
  BY <1>1, <1>3, <1>4, Zenon DEF EntriesOf
<1>6. \A k : IsFiniteSet(EntriesOf(k)) /\ i \notin EntriesOf(k)
  BY <1>1, EntriesAreItems, Zenon DEF EntriesOf
<1>7. Cardinality(EntriesOf(l) \cup {i}) = Cardinality(EntriesOf(l)) + 1
  BY <1>6, FS_AddElement, Zenon
<1>8. opens' = [k \in Libraries |-> Cardinality(EntriesOf(k)')]
  <2>1. opens = [k \in Libraries |-> Cardinality(EntriesOf(k))]
    BY Zenon DEF RegistryInv
  <2>2. opens' = [k \in Libraries |-> IF k = l THEN opens[k] + 1 ELSE opens[k]]
    BY <1>2, <2>1, Zenon
  <2>3. ASSUME NEW k \in Libraries
        PROVE  Cardinality(EntriesOf(k)') = IF k = l THEN opens[k] + 1 ELSE opens[k]
    BY <1>5, <1>7, <2>1, Zenon
  <2> QED BY <2>2, <2>3, Zenon
<1>9. \A j \in Range(services') : lib'[j] \in Libraries
  BY <1>2, <1>3, <1>4, Zenon DEF RegistryInv
<1> QED BY <1>3, <1>4, <1>8, <1>9, Zenon DEF RegistryInv

\* An entry that is unloaded is the one that finit_service unregisters.
LEMMA UnloadKeeps ==
  ASSUME RegistryInv, NEW i \in Range(services),
         lookup_kgpu_sitem(Name[lib[i]]) = i, unload_service(i)
  PROVE  RegistryInv' /\ services' = list_del(services, i) /\ e' = e + 0
<1>2. i # NULL
  BY EntriesAreItems, Zenon
<1>3. /\ services' = list_del(services, i) /\ e' = e + 0
      /\ lib' = lib /\ opens' = [opens EXCEPT ![lib[i]] = @ - 1]
  BY <1>2, Zenon DEF unload_service, unregister_service, unregister_result
<1>5. /\ services' \in Seq(Items) /\ IsInjective(services')
      /\ Range(services') = Range(services) \ {i}
  BY <1>3, ListDelSet, Zenon DEF RegistryInv
<1>6. \A k \in Libraries :
        EntriesOf(k)' = IF k = lib[i] THEN EntriesOf(k) \ {i} ELSE EntriesOf(k)
  BY <1>3, <1>5, Zenon DEF EntriesOf
<1>7. Cardinality(EntriesOf(lib[i]) \ {i}) = Cardinality(EntriesOf(lib[i])) - 1
  <2>1. i \in EntriesOf(lib[i])
    BY Zenon DEF EntriesOf
  <2>2. IsFiniteSet(EntriesOf(lib[i]))
    BY EntriesAreItems, Zenon
  <2> QED BY <2>1, <2>2, FS_RemoveElement, Zenon
<1>8. opens' = [k \in Libraries |-> Cardinality(EntriesOf(k)')]
  <2>1. opens = [k \in Libraries |-> Cardinality(EntriesOf(k))]
    BY Zenon DEF RegistryInv
  <2>2. opens' = [k \in Libraries |-> IF k = lib[i] THEN opens[k] - 1 ELSE opens[k]]
    BY <1>3, <2>1, Zenon
  <2>3. ASSUME NEW k \in Libraries
        PROVE  Cardinality(EntriesOf(k)') = IF k = lib[i] THEN opens[k] - 1 ELSE opens[k]
    BY <1>6, <1>7, <2>1, Zenon
  <2> QED BY <2>2, <2>3, Zenon
<1>9. (\A j \in Range(services') : lib'[j] \in Libraries) /\ lib' = [j \in Items |-> lib'[j]]
  BY <1>3, <1>5, Zenon DEF RegistryInv
<1> QED BY <1>3, <1>5, <1>8, <1>9, Zenon DEF RegistryInv

\* The first two entries of a list, as list_for_each_safe finds them.
LEMMA NextFacts ==
  ASSUME NEW s \in Seq(Items), NULL \notin Items, IsInjective(s)
  PROVE  /\ NextOf(s, NULL) = IF s = <<>> THEN NULL ELSE s[1]
         /\ s # <<>> => NextOf(s, s[1]) = IF Len(s) < 2 THEN NULL ELSE s[2]
<1>1. Len(s) \in Nat /\ DOMAIN s = 1..Len(s) /\ (s = <<>> <=> Len(s) = 0)
  BY SMT
<1>2. NextOf(s, NULL) = IF 0 = Len(s) THEN NULL ELSE s[0 + 1]
  BY Zenon DEF NextOf
<1>3. ASSUME s # <<>> PROVE NextOf(s, s[1]) = IF Len(s) < 2 THEN NULL ELSE s[2]
  <2>1. 1 \in DOMAIN s /\ (1 = Len(s) <=> Len(s) < 2) /\ 1 + 1 = 2
    BY <1>1, <1>3, SMT
  <2>2. s[1] # NULL
    <3>1. s[1] \in Items
      BY <2>1, SMT
    <3> QED BY <3>1, Zenon
  <2>3. (CHOOSE j \in DOMAIN s : s[j] = s[1]) = 1
    BY <2>1, Zenon DEF IsInjective
  <2>4. NextOf(s, s[1]) = IF 1 = Len(s) THEN NULL ELSE s[1 + 1]
    <3> DEFINE k == IF s[1] = NULL THEN 0 ELSE CHOOSE j \in DOMAIN s : s[j] = s[1]
    <3>1. k = 1
      BY <2>2, <2>3, Zenon
    <3>2. NextOf(s, s[1]) = IF k = Len(s) THEN NULL ELSE s[k + 1]
      BY Zenon DEF NextOf
    <3> HIDE DEF k
    <3> QED BY <3>1, <3>2, Zenon
  <2> QED BY <2>1, <2>4, Zenon
<1>4. (0 = Len(s) <=> s = <<>>) /\ 0 + 1 = 1
  BY <1>1, SMT
<1> QED BY <1>2, <1>3, <1>4, Zenon

\* Without its first entry, a list begins with the second.
LEMMA WithoutFirst ==
  ASSUME NEW s \in Seq(Items), IsInjective(s), s # <<>>
  PROVE  LET t == list_del(s, s[1]) IN
         /\ t = <<>> <=> Len(s) < 2
         /\ t # <<>> => t[1] = s[2]
<1> DEFINE t == list_del(s, s[1])
<1>1. Len(s) \in Nat /\ DOMAIN s = 1..Len(s) /\ 1 \in 1..Len(s)
  BY SMT
<1>2. (CHOOSE j \in DOMAIN s : s[j] = s[1]) = 1
  BY <1>1, Zenon DEF IsInjective
<1>3. t = DelAt(s, 1)
  BY <1>2, Zenon DEF list_del
<1>4. /\ t \in Seq(Items) /\ Len(t) = Len(s) - 1
      /\ \A j \in 1..(Len(s) - 1) : t[j] = IF j < 1 THEN s[j] ELSE s[j + 1]
  BY <1>1, <1>3, DelAtFacts, Zenon
<1> HIDE DEF t
<1>5. (t = <<>> <=> Len(s) < 2) /\ (t # <<>> => t[1] = s[2])
  BY <1>1, <1>4, SMT
<1> QED BY <1>5, Zenon DEF t

\* kh_unload_all_services goes from one first entry to the next.
LEMMA WalkKeeps ==
  ASSUME RegistryInv, WalkInv, unload_next
  PROVE  RegistryInv' /\ WalkInv'
<1>1. /\ call = "unload_all" /\ p # NULL /\ ~wild /\ unload_service(p)
      /\ p' = n /\ call' = call
      /\ IF n = NULL \/ n \in Range(services')
         THEN n' = NextOf(services', n) /\ wild' = wild
         ELSE wild' = TRUE /\ n' = n
  BY Zenon DEF unload_next
<1>2. /\ e = 0 /\ services # <<>> /\ p = services[1]
      /\ n = IF Len(services) < 2 THEN NULL ELSE services[2]
  BY <1>1, Zenon DEF WalkInv
<1>3. p \in Range(services) /\ lookup_kgpu_sitem(Name[lib[p]]) = p
  BY <1>2, LookupFirst, Zenon
<1>4. RegistryInv' /\ services' = list_del(services, p) /\ e' = e + 0
  BY <1>1, <1>3, UnloadKeeps, Zenon
<1>5. RegistryInv' /\ services' = list_del(services, p) /\ e' = 0
  BY <1>2, <1>4, SMT
<1>6. services' \in Seq(Items) /\ IsInjective(services') /\ NULL \notin Items
  BY <1>5, RegistryAssumption, Zenon DEF RegistryInv
<1>7. /\ services' = <<>> <=> Len(services) < 2
      /\ services' # <<>> => services'[1] = services[2]
  BY <1>2, <1>5, WithoutFirst, Zenon DEF RegistryInv
<1>8. n = IF services' = <<>> THEN NULL ELSE services'[1]
  BY <1>2, <1>7, Zenon
<1>9. /\ NextOf(services', NULL) = IF services' = <<>> THEN NULL ELSE services'[1]
      /\ services' # <<>> =>
           NextOf(services', services'[1]) = IF Len(services') < 2 THEN NULL ELSE services'[2]
  BY <1>6, NextFacts, Zenon
<1>10. services' # <<>> => services'[1] \in Range(services')
  BY <1>6, SMT DEF Range
<1>11. services' = <<>> => Len(services') < 2
  BY SMT
<1>12. wild' = wild /\ n' = IF Len(services') < 2 THEN NULL ELSE services'[2]
  BY <1>1, <1>8, <1>9, <1>10, <1>11, Zenon
<1> QED BY <1>1, <1>2, <1>5, <1>8, <1>12, Zenon DEF WalkInv

\* At first nothing is registered or open.
LEMMA RegistryStarts ==
  ASSUME RegistryInit PROVE RegistryInv /\ WalkInv
<1>1. /\ services = <<>> /\ opens = [l \in Libraries |-> 0] /\ call = "none" /\ ~wild
      /\ lib = [i \in Items |-> CHOOSE l \in Libraries : TRUE]
  BY Zenon DEF RegistryInit
<1>2. services \in Seq(Items)
  BY <1>1, SMT
<1>3. IsInjective(services) /\ Range(services) = {}
  BY <1>1, EmptyList, Zenon
<1>4. \A l : Cardinality(EntriesOf(l)) = 0
  <2>1. \A l : EntriesOf(l) = {}
    BY <1>3, Zenon DEF EntriesOf
  <2> QED BY <2>1, FS_EmptySet, Zenon
<1>5. opens = [l \in Libraries |-> Cardinality(EntriesOf(l))]
  BY <1>1, <1>4, Zenon
<1>6. lib = [i \in Items |-> lib[i]]
  BY <1>1, SMT
<1>7. RegistryInv
  BY <1>2, <1>3, <1>5, <1>6, Zenon DEF RegistryInv
<1> QED BY <1>1, <1>7, Zenon DEF WalkInv

\* Every step keeps the list, the libraries and the walk in order.
LEMMA RegistryKeeps ==
  ASSUME RegistryInv, WalkInv, [RegistryNext]_rvars
  PROVE  RegistryInv' /\ WalkInv'
<1>1. ASSUME UNCHANGED <<services, lib, opens>> PROVE RegistryInv'
  BY <1>1, Zenon DEF RegistryInv, EntriesOf
<1>2. ASSUME call' # "unload_all", wild' = wild PROVE WalkInv'
  BY <1>2, Zenon DEF WalkInv
<1>3. CASE kh_load_all_services
  BY <1>1, <1>2, <1>3, Zenon DEF kh_load_all_services, registry
<1>4. CASE load_next
  <2>1. call = "load_all" /\ call' = call /\ wild' = wild
    BY <1>4, Zenon DEF load_next
  <2>2. PICK l \in todo : kh_load_service(l) \/ load_fails(l)
    BY <1>4, Zenon DEF load_next
  <2>3. CASE kh_load_service(l)
    BY <1>2, <2>1, <2>3, LoadKeeps, Zenon
  <2>4. CASE load_fails(l)
    BY <1>1, <1>2, <2>1, <2>4, Zenon DEF load_fails, registry
  <2> QED BY <2>2, <2>3, <2>4, Zenon
<1>5. CASE load_end
  BY <1>1, <1>2, <1>5, Zenon DEF load_end, registry
<1>6. ASSUME NEW l \in Libraries, kh_unload_service(Name[l]) PROVE RegistryInv' /\ WalkInv'
  <2> DEFINE i == lookup_kgpu_sitem(Name[l])
  <2>1. call = "none" /\ call' = call /\ wild' = wild /\ i # NULL /\ unload_service(i)
    BY <1>6, Zenon DEF kh_unload_service
  <2>2. i \in Range(services) /\ Name[lib[i]] = Name[l]
    BY <2>1, LookupFacts, Zenon
  <2>3. lookup_kgpu_sitem(Name[lib[i]]) = i
    BY <2>2, Zenon
  <2> HIDE DEF i
  <2>4. RegistryInv'
    BY <2>1, <2>2, <2>3, UnloadKeeps, Zenon
  <2> QED BY <1>2, <2>1, <2>4, Zenon
<1>7. CASE kh_unload_all_services
  <2>1. /\ call' = "unload_all" /\ UNCHANGED <<services, lib, opens, wild>> /\ e' = 0
        /\ p' = NextOf(services, NULL)
        /\ n' = IF services = <<>> THEN NULL ELSE NextOf(services, p')
    BY <1>7, Zenon DEF kh_unload_all_services, registry
  <2>2. services \in Seq(Items) /\ IsInjective(services) /\ NULL \notin Items
    BY RegistryAssumption, Zenon DEF RegistryInv
  <2>3. /\ NextOf(services, NULL) = IF services = <<>> THEN NULL ELSE services[1]
        /\ services # <<>> =>
             NextOf(services, services[1]) = IF Len(services) < 2 THEN NULL ELSE services[2]
    BY <2>2, NextFacts, Zenon
  <2>4. services = <<>> => Len(services) < 2
    BY SMT
  <2>5. /\ p' = IF services = <<>> THEN NULL ELSE services[1]
        /\ n' = IF Len(services) < 2 THEN NULL ELSE services[2]
    BY <2>1, <2>3, <2>4, Zenon
  <2> QED BY <1>1, <2>1, <2>5, Zenon DEF WalkInv
<1>8. CASE unload_next
  BY <1>8, WalkKeeps, Zenon
<1>9. CASE unload_end
  BY <1>1, <1>2, <1>9, Zenon DEF unload_end, registry
<1>10. CASE UNCHANGED rvars
  <2>1. UNCHANGED <<services, lib, opens, call, p, n, e, wild>>
    BY <1>10, Zenon DEF rvars, registry
  <2> QED BY <1>1, <2>1, Zenon DEF WalkInv
<1> QED BY <1>3, <1>4, <1>5, <1>6, <1>7, <1>8, <1>9, <1>10, Zenon DEF RegistryNext

\* The invariant of the services: the list, the libraries and the walk of
\* kh_unload_all_services stay in order, for any libraries and names.
THEOREM RegistrySafe == RegistrySpec => [](RegistryInv /\ WalkInv)
<1>1. RegistryInit => RegistryInv /\ WalkInv
  BY RegistryStarts, Zenon
<1>2. RegistryInv /\ WalkInv /\ [RegistryNext]_rvars => RegistryInv' /\ WalkInv'
  BY RegistryKeeps, Zenon
<1> QED BY <1>1, <1>2, PTL DEF RegistrySpec

\* Every library is open exactly as often as the list of services has entries
\* for it (kh_load_service, __unload_service), for any libraries and names.
THEOREM LibrariesAreCounted == RegistrySpec => []OpenAsOftenAsRegistered
<1>1. RegistryInv => OpenAsOftenAsRegistered
  <2> SUFFICES ASSUME RegistryInv, NEW l \in Libraries
               PROVE  opens[l] = Cardinality({ i \in Range(services) : lib[i] = l })
    BY Zenon DEF OpenAsOftenAsRegistered
  <2>1. opens[l] = Cardinality(EntriesOf(l))
    BY Zenon DEF RegistryInv
  <2> QED BY <2>1, Zenon DEF EntriesOf
<1> QED BY <1>1, RegistrySafe, PTL

\* kh_unload_all_services follows no pointer to an entry that finit_service has
\* freed, and leaves nothing registered and nothing open.
THEOREM UnloadAllIsComplete == RegistrySpec => []UnloadAllEmpties
<1>1. RegistryInv /\ WalkInv => UnloadAllEmpties
  <2> SUFFICES ASSUME RegistryInv, WalkInv PROVE UnloadAllEmpties
    OBVIOUS
  <2>1. ASSUME call = "unload_all", p = NULL
        PROVE  services = <<>> /\ e = 0 /\ \A l \in Libraries : opens[l] = 0
    <3>1. services = <<>>
      <4>1. services # <<>> => services[1] # NULL
        BY LookupFirst, EntriesAreItems, Zenon
      <4> QED BY <2>1, <4>1, Zenon DEF WalkInv
    <3>2. \A l : EntriesOf(l) = {}
      BY <3>1, EmptyList, Zenon DEF EntriesOf
    <3>3. \A l \in Libraries : opens[l] = 0
      BY <3>2, FS_EmptySet, Zenon DEF RegistryInv
    <3> QED BY <2>1, <3>1, <3>3, Zenon DEF WalkInv
  <2> QED BY <2>1, Zenon DEF UnloadAllEmpties, WalkInv
<1> QED BY <1>1, RegistrySafe, PTL

=============================================================================
