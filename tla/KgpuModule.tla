----------------------------- MODULE KgpuModule -----------------------------
(***************************************************************************)
(* The life of the kernel module and of its device file                    *)
(* (kernelSpace/main.c): kgpu_init creates its kernel objects one by one   *)
(* and may fail at each, helpers open the device and set it up, also while *)
(* kgpu_init is still running, and kgpu_cleanup releases the objects.      *)
(* Loading starts with fresh static data.                                  *)
(***************************************************************************)
EXTENDS DeviceOpen

CONSTANT MaxSetups   \* bound on what earlier helpers leave behind

ASSUME ModuleAssumption == IsFiniteSet(Processes) /\ MaxSetups \in Nat

Caches  == {"request_cache", "item_cache", "data_cache"}
Objects == Caches \cup {"class", "region", "cdev", "device"}
Arrays  == {"pages", "bitmap", "alloc_sz"}

VARIABLES
  mod,        \* the module: "out", in a step of kgpu_init, or "in"
  held,       \* the objects of kgpu_init that exist
  arrays,     \* those of gmpool: a pointer that is not NULL is the only one
  kva, maps,  \* gmpool.kva is not NULL; mappings of vmap that exist
  vm, vms,    \* vm.alloc_sz and vm.bitmap are not NULL; pairs that exist
  stage,      \* of each process: how far kh_init has come
  late,       \* kgpu_init has failed at class_create or after it
  superseded  \* a helper has set up the device on top of an earlier one

objects == <<mod, held, late>>
setup   == <<arrays, kva, maps, vm, vms, superseded>>
vars    == <<ovars, objects, setup, stage>>

Loading == {"item_cache", "data_cache", "class", "region", "cdev", "device"}
Stages  == {"start", "mmapped", "ready", "aborting", "hung"}

TypeOK ==
  /\ OpenTypeOK
  /\ mod \in {"out", "in"} \cup Loading
  /\ held \subseteq Objects /\ arrays \subseteq Arrays
  /\ kva \in BOOLEAN /\ maps \in Nat /\ vm \in BOOLEAN /\ vms \in Nat
  /\ stage \in [Processes -> Stages]
  /\ late \in BOOLEAN /\ superseded \in BOOLEAN

Init ==
  /\ OpenInit
  /\ mod = "out" /\ held = {} /\ late = FALSE
  /\ arrays = {} /\ kva = FALSE /\ maps = 0 /\ vm = FALSE /\ vms = 0
  /\ superseded = FALSE
  /\ stage = [p \in Processes |-> "start"]

-----------------------------------------------------------------------------
\* kgpu_init, up to the first kmem_cache_create.  The kernel refuses a name
\* that is in use, so what a failed load has left makes the next one fail.
kgpu_init ==
  /\ mod = "out"
  /\ "request_cache" \notin held
  /\ held' = held \cup {"request_cache"}
  /\ mod' = "item_cache"
  /\ kgpudev_av' = 1 /\ raced' = FALSE
  /\ UNCHANGED <<pc, late, setup, stage>>

\* One object more.
Create(o, then) ==
  /\ mod = o
  /\ held' = held \cup {o}
  /\ mod' = then

\* kgpu_init returns an error and leaves these objects.
Fail(o, left) ==
  /\ mod = o
  /\ held' = left
  /\ mod' = "out"

\* Faulty variant: the item cache is forgotten when the third one fails.
create_caches_Forgets ==
  /\ \/ Create("item_cache", "data_cache")
     \/ Fail("item_cache", held \ {"request_cache"})
     \/ Create("data_cache", "class")
     \/ Fail("data_cache", held \ {"request_cache"})
  /\ UNCHANGED <<late, ovars, setup, stage>>

\* The second and the third cache; the earlier ones go if there is none.
create_caches ==
  /\ \/ Create("item_cache", "data_cache")
     \/ Fail("item_cache", held \ {"request_cache"})
     \/ Create("data_cache", "class")
     \/ Fail("data_cache", held \ {"request_cache", "item_cache"})
  /\ UNCHANGED <<late, ovars, setup, stage>>

\* class_create and alloc_chrdev_region: on failure the caches, and the class,
\* stay.  A failing cdev_add is remembered in result only.
create_device ==
  /\ \/ Create("class", "region") /\ UNCHANGED late
     \/ Fail("class", held) /\ late' = TRUE
     \/ Create("region", "cdev") /\ UNCHANGED late
     \/ Fail("region", held) /\ late' = TRUE
     \/ Create("cdev", "device") /\ UNCHANGED late
     \/ mod = "cdev" /\ mod' = "device" /\ UNCHANGED <<held, late>>
  /\ UNCHANGED <<ovars, setup, stage>>

\* device_create and the return: 0 if neither it nor cdev_add has failed.
init_return ==
  /\ mod = "device"
  /\ held' \in {held, held \cup {"device"}}
  /\ IF {"cdev", "device"} \subseteq held'
     THEN mod' = "in" /\ UNCHANGED late
     ELSE mod' = "out" /\ late' = TRUE
  /\ UNCHANGED <<ovars, setup, stage>>

-----------------------------------------------------------------------------
\* The device can be opened from cdev_add on.
Reachable == mod \in {"device", "in"} /\ "cdev" \in held

Open(p) ==
  /\ Reachable
  /\ kgpu_open(p)
  /\ stage' = [stage EXCEPT ![p] = "start"]
  /\ UNCHANGED <<objects, setup>>

OpenBusy(p) ==
  /\ Reachable
  /\ open_busy(p)
  /\ UNCHANGED <<objects, setup, stage>>

\* The process closes the device, or dies; not one that hangs in the kernel.
Release(p) ==
  /\ Reachable
  /\ stage[p] # "hung"
  /\ kgpu_release(p)
  /\ UNCHANGED <<objects, setup, stage>>

\* kgpu_mmap and set_vm: new arrays in any case.  Without memory for them the
\* pointers are NULL and cleared all the same, with mmap_sem held.
kgpu_mmap(p) ==
  /\ Reachable /\ pc[p] = "open" /\ stage[p] = "start"
  /\ \/ /\ vms < MaxSetups
        /\ vm' = TRUE /\ vms' = vms + 1
        /\ stage' = [stage EXCEPT ![p] = "mmapped"]
     \/ /\ vm' = FALSE /\ UNCHANGED vms
        /\ stage' = [stage EXCEPT ![p] = "hung"]
  /\ superseded' = (superseded \/ vm)
  /\ UNCHANGED <<ovars, objects, arrays, kva, maps>>

\* set_gpu_mempool runs out of memory for one of the arrays it does not have.
no_memory(p) ==
  /\ Reachable /\ pc[p] = "open" /\ stage[p] = "mmapped"
  /\ \/ "pages" \notin arrays /\ UNCHANGED arrays
     \/ "bitmap" \notin arrays /\ arrays' = {"pages"}
     \/ "alloc_sz" \notin arrays /\ arrays' = {"pages", "bitmap"}
  /\ stage' = [stage EXCEPT ![p] = "aborting"]
  /\ UNCHANGED <<ovars, objects, kva, maps, vm, vms, superseded>>

\* set_gpu_mempool, up to vmap: a mapping of an earlier helper is overwritten.
set_gpu_mempool(p) ==
  /\ Reachable /\ pc[p] = "open" /\ stage[p] = "mmapped"
  /\ arrays' = Arrays
  /\ \/ /\ maps < MaxSetups
        /\ kva' = TRUE /\ maps' = maps + 1
        /\ stage' = [stage EXCEPT ![p] = "ready"]
     \/ /\ kva' = FALSE /\ UNCHANGED maps
        /\ stage' = [stage EXCEPT ![p] = "aborting"]
  /\ superseded' = (superseded \/ kva)
  /\ UNCHANGED <<ovars, objects, vm, vms>>

-----------------------------------------------------------------------------
\* Faulty variant: .owner is not set, so the kernel counts no users.
Unused_NoOwner == TRUE

\* .owner = THIS_MODULE: rmmod is refused while the device is open or an open
\* is under way.
Unused == At("closed") = Processes

\* kgpu_cleanup, with clear_gpu_mempool and clean_vm.
kgpu_cleanup ==
  /\ mod = "in" /\ Unused
  /\ mod' = "out" /\ held' = {}
  /\ arrays' = {} /\ kva' = FALSE /\ vm' = FALSE
  /\ maps' = maps - (IF kva THEN 1 ELSE 0)
  /\ vms' = vms - (IF vm THEN 1 ELSE 0)
  /\ UNCHANGED <<late, superseded, ovars, stage>>

Next ==
  \/ kgpu_init \/ create_caches \/ create_device \/ init_return \/ kgpu_cleanup
  \/ \E p \in Processes :
       \/ Open(p) \/ OpenBusy(p) \/ Release(p)
       \/ kgpu_mmap(p) \/ no_memory(p) \/ set_gpu_mempool(p)

Spec == Init /\ [][Next]_vars

-----------------------------------------------------------------------------
\* The processes that have the device open, or are in kgpu_open.
Users == At("open") \cup At("failing")

\* Whoever is in the code of the module, or can call it through an open file,
\* finds the module in memory and its caches created, with one exception:
\* device_create fails after cdev_add has let a process in, and the kernel
\* throws the module away under it.
UsersHaveTheirModule ==
  Users # {} =>
    /\ Caches \cup {"cdev"} \subseteq held
    /\ mod \in {"device", "in"} \/ (late /\ "device" \notin held)

\* A module that is not loaded has left nothing in the kernel, however far its
\* helpers came: kgpu_init undoes the caches it has created, and kgpu_cleanup
\* releases all of them, the device, the pool and the arrays.  Not so after a
\* load that failed at class_create or later, and not what helpers before the
\* last one have set up.
NothingLeftBehind ==
  mod = "out" /\ ~late /\ ~superseded =>
    held = {} /\ arrays = {} /\ maps = 0 /\ vms = 0

=============================================================================
