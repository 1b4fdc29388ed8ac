# TLA+ verification of KGPU

KGPU lets code in the Linux kernel use a GPU. Kernel code fills a
`kgpu_request` and calls `kgpu_call_async` or `kgpu_call_sync`; a process in
user space, the helper, reads the request from `/dev/kgpu`, runs a service on
the GPU and writes the result back, and the write runs the request's callback.
This directory models these parts, checks them with TLC and proves the central
invariants with TLAPS.

Paths below are relative to `src/kgpu/src`; `main.c` is `kernelSpace/main.c`.

## Inventory

| Part | State | Operations | What is hard about it |
|---|---|---|---|
| Request transport, `main.c` 110-290, 560-584, 608-780, 901-972 | `kgpudev.state`, `rid_sequence`, lists `reqs` and `rtdreqs`, request and sync data objects | `kgpu_call_async`, `kgpu_call_sync`, `sync_callback`, `kgpu_alloc_request`, `kgpu_free_request`, `kgpu_next_request_id`, read, write, poll, ioctl | clients, helper and callbacks interleave between two spinlocks; the state is tested and `done` is set without a lock; signals; ids that outlive objects and wrap; a helper that dies |
| Open and release, `main.c` 586-606 | `kgpudev_av` | `kgpu_open`, `kgpu_release` | two atomic operations in a failing open |
| Memory pool, `main.c` 291-371, 783-893 | `gmpool` | `set_gpu_mempool`, `kgpu_vmalloc`, `kgpu_vfree` | the size is read before the lock; `memset` of too few bytes; failures half way; a second helper that sets it up under its clients |
| mmap area, `main.c` 373-556, 974-1081 | `vm`, page table entries | `set_vm`, `map_page_units`, `kgpu_unmap_area`, `kgpu_free_mmap_area` | two locks; inserts that fail half way; two ways to release |
| Module load and unload, `main.c` 1083-1220 | caches, device number, class, device; what helpers have set up | `kgpu_init`, `kgpu_cleanup`, `clear_gpu_mempool`, `clean_vm` | error paths; users from `cdev_add` on |
| Helper, `userSpace/helper.c` | `all_reqs` and six lists | the stages of the main loop | lists changed while they are walked, passes that stop early, failures in every stage, the poll timeout |
| CUDA backend, `gpuSpace/cudaOperations.cu` | streams, pinned memory | allocate and free streams and device memory, completion tests | the number of streams, ranges that overlap, addresses in three address spaces |
| OpenCL backend, `gpuSpace/openCLOperations.c` | the same | the same, in part stubs | completion is never reported, a stub marked TODO |
| Service registry, `userSpace/service.c` | list of services, libraries | register, unregister, look up, load, unload | entries and libraries that must go together, names that are not unique, a list that changes while it is walked |
| Test clients and services, `src/services/test` | | callers of the API | how requests and memory are reused |
| Logging, page table and list utilities | | | |

`PROJECT.json` lists the parts with their status, and the hazards with the
line at which each one bites.

## Modules

* **KgpuKernel** is the transport: state, types and one action per operation,
  without a next-state relation. An action is a stretch of code in which no
  other thread can take part or be noticed: a section under a spinlock, or one
  unlocked access to `kgpudev.state`, to a request's `callback` and `kdata` or
  to `data->done`. `pc`, `cur` and `data` hold where each client thread is in
  the API, `wpc`, `wreq` and `wdata` where the helper is in a system call. A
  call that changes nothing (refused, out of memory at once, read of an empty
  list) is no step. Clients keep to what the test clients do: they touch a
  request only when they take it to be at rest, free it in the callback or
  after it, and give a request that they use again a new id.
* **KgpuDevice** adds any helper that keeps to the protocol: it answers what it
  has read, once, in any order, with any error code; it may be killed, may
  abort on a failing write, and is started again.
* **KgpuCalls** is the abstract specification: for each request, calls are
  answered at most once, a sync call returns after the answer, and the result
  stays until the next call. `Phase` and `CallResults` in KgpuKernel are the
  refinement mapping.
* **KgpuHelper** is the main loop and the stages, one action per call of a
  `kh_` function on one request. `hpc` and `todo` are the stage and the rest of
  the list that `list_for_each_safe` walks; `gpu` holds the outstanding work of
  each stream, by the request it was queued for. What a failed request leaves
  there has no owner any more when `kh_service_done` is through (`Disown`): its
  id can come back with another call. Services succeed or fail in any call.
  The properties of lists, streams and pins are stated here, since KgpuSystem has
  them too.
  **HelperLoop** puts it in front of a device that delivers requests with
  distinct ids.
* **KgpuSystem** composes KgpuKernel and KgpuHelper: the system calls are joint
  steps.
* **KgpuMempool** is the memory pool. A pointer is a unit index together with
  the mapping it points into: a helper that starts after another one has died
  maps the pool again, at another address, while clients still have memory of
  the old mapping and free it later. `kgpu_vfree` is three steps, the index from
  `kva`, the look at `alloc_sz` and the release under the lock, and the pool may
  be set up between any two of them. Such a `kgpu_vfree` is `overtaken`; if it
  releases marked units of the new mapping, that mapping is `struck`. Both are
  history variables. `unsigned long` wraps at `ULong` and the number of units,
  an `unsigned int`, at `UInt`; a fresh
  `alloc_sz` has any contents from `Garbage`, and the short `memset` clears the
  bytes it clears.
* **KgpuMmap** is the mmap area with `mmap_sem`, `vm_lock` and page table
  entries. `lost` are the pages of areas that no client has an address for.
* **DeviceMemory** follows the buffers of one request from the client over
  `fill_ku_request` to `gpu_alloc_device_mem` and `gpu_free_device_mem`.
  Addresses are numbers, since the code compares and rebases them: the pool has
  one address in the kernel, another in the helper and a third on the GPU. It
  rests on **PinRanges**, the rounding and merging of ranges as
  `__merge_ranges` does them.
* **DeviceOpen** has `kgpu_open` and `kgpu_release`; `raced` is a history
  variable that records a release in the middle of a failing open.
  **KgpuModule** composes them with the life of the module: `kgpu_init` object
  by object, with the failures it undoes and those it does not; processes that
  open the device from `cdev_add` on and set up area and pool, hang in a failed
  `mmap`, abort or die; `kgpu_cleanup`. `late` and `superseded` are history
  variables: a load has failed at `class_create` or after it, and a helper has
  set up the device on top of what an earlier one had set up.
* **ServiceRegistry** is `service.c`: the list of services and how often each
  library is open, loading and unloading by file and by name, and
  `kh_unload_all_services` with the two pointers of `list_for_each_safe`, where
  `wild` says that it has followed one to a freed entry.
* **LinkedLists** has the `list_del` of `list.h` on sequences, for the lists of
  the kernel module and of the helper; `list_add_tail` is `Append`.
* **KgpuDeviceProofs**, **HelperLoopProofs**, **KgpuSystemProofs**,
  **KgpuMempoolProofs**, **KgpuMmapProofs** and **KgpuModuleProofs** hold the
  theorems; those about DeviceMemory are in KgpuMmapProofs and those about
  ServiceRegistry in KgpuModuleProofs, which is why these two modules call their
  specifications MemorySpec and RegistrySpec. **KgpuHelperProofs** has what the second
  and the third share: the invariant of the helper and a lemma for each of its
  steps. **LinkedListLemmas** says what the list operations do to a list and to
  its set of entries. The **MC** modules are instances for TLC.
  Operators named `X_Something` and commented "Faulty variant" are the
  definition `X` with a plausible mistake; nothing uses them, and putting one
  in place of `X` makes TLC report the property that `PROJECT.json` pairs with
  it.

## Runs

| Run | Configuration | Result |
|---|---|---|
| device | 2 threads, 2 requests, 2 sync data, 3 ids, stop, helper deaths | InFlightOnce, RequestsStayAllocated, AnswerFindsItsRequest, SyncAnswered, SyncCallbackOwnsData, NoLostWakeup and the inductive invariant DeviceInv hold; the transport implements KgpuCalls |
| device_interrupted | threads get signals | SyncAnswered is *violated*: an interrupted sync call returns 0 without an answer |
| helper | 3 requests, 2 streams, fair | lists, streams and pins are consistent; every request is answered, once; success means completion |
| helper_unpin | 2 requests, also mapped memory for an unknown service | UnpinsWhatItPinned is *violated*: memory that was never pinned is unpinned |
| system | 2 threads, 2 requests, 1 stream | the kernel's and the helper's books agree; error codes reach their request; no work of a call is left when it succeeds; implements KgpuCalls |
| system_live | 1 thread, 2 requests, fair | every call ends |
| mempool | 3 threads, 3 units, sizes of 1 and 2 units and one truncated to 1, garbage, 2 mappings | allocations of the same mapping are disjoint and reserved and no unit is lost, also when the pool is set up again under its clients, unless an overtaken `kgpu_vfree` has struck that mapping; MempoolInv holds |
| mempool_garbage | 1 thread that also frees pointers into its allocation | LiveReserved is *violated*: an uninitialized size releases live memory |
| mmap | 3 threads, 4 pages, both ways to release | mappings are disjoint and accounted for; `kgpu_unmap_area` leaves no entry; only what `kgpu_free_mmap_area` left refuses a mapping; MmapInv holds |
| device_memory | in, out and data anywhere in a pool of 5 bytes or 5 pages of 2 bytes, or no data | device memory mirrors the client's; registered pages are inside the area, exact and disjoint; what is registered is unregistered |
| module | 3 processes, 2 setups | one helper at a time and a free device opens, unless a release raced; nobody uses a module that is gone; an unloaded module leaves nothing |
| services | 4 libraries, two with one name, one without `finit_service`, one without `init_service`, 4 entries | libraries are open as often as registered; unloading all empties the list and never follows a freed entry |

A violated run states what a comment or an assertion of the code says;
`PROJECT.json` quotes it under "findings". Three more places where the code
departs from its own words are in the models without a run of their own: a call
overtaken by `KGPU_IOC_SET_STOP` is accepted although the message says that
none is (`main.c` 117); a client that frees a request's memory through several
of its fields (`main.c` 353) can free what another client got in between; the
entries that `kgpu_free_mmap_area` leaves are not overwritten by the next
mapping, but make it fail (`main.c` 441-443).

### Bounds

* Two threads and two requests let two answers be exchanged, and a second call
  run in every gap of a first. `MaxIds` ids allow the reuse of a freed object
  under its old id and under a new one. `MaxInt` stands for 2^31 - 1; the runs
  end before the sequence reaches it, since ids are not unique after that.
* Three requests on two streams leave one without a stream. A stream
  holds at most 4 pieces of work (a copy left by each of two failed requests,
  then prepare and launch of the third), which is `MaxWork`; it is 2 in
  system and 1 in system_live, where a call that finds the stream full waits for
  the GPU. HelperLoop hands ids over in increasing order, since the helper does
  nothing with an id but send it back; KgpuSystem has them in any order.
* Three units make `memset` clear a part of one entry and leave two; the four of
  mempool_garbage make it clear one and leave three. Three threads have a unit
  each, or two of them one and two; the third may be in a `kgpu_vfree` that the
  setup overtook. Two mappings let a client free memory of an earlier one while
  others have the same units of the next. With `UnitSize = 2` and `UInt = 8` the
  17 bytes of the run come to 9 units, of which 1 is left. Four pages let an area lie between two
  others, released or not.
* Five pages of two bytes hold three ranges with gaps, touching, overlapping or
  nested, aligned or not, up to the last byte of the area; the pool starts and
  ends inside a page.
* Three processes let a second open fail while a third one overtakes it. Two
  setups let one be superseded.
* Four entries let a library be loaded twice next to the others, and `malloc`
  fail after that.
* Symmetry is over threads, requests and sync data that no property and no
  constant tells apart; runs with temporal properties under fairness use none.

Deadlock is checked in the device and system runs, where some thread or the
helper can always move, and in services, where a next call is always possible.
The others bound what arrives or model one pass, and end; an oops ends the
kernel, and what a failed load leaves can make all later ones fail.

### Fairness

The helper is one thread that never waits while it has requests, since poll
then has timeout 0: weak fairness of `Helper`. A kernel thread in a call is
scheduled: weak fairness of `Call(t)`. The GPU completes what is queued: weak
fairness of `GpuStep(s)`. Nothing is assumed of clients between calls, and
system_live has no signals, deaths or stop, after which the code does not
promise an answer.

## Proofs

**KgpuDeviceProofs** proves `Spec => []DeviceInv` for any sets of threads,
requests and sync data, where `Spec` is the transport without signals, assuming
that ids do not wrap (`MaxIds <= MaxInt`). Both are needed: device_interrupted
shows the first, and ids that wrap are not unique. That an answer finds its
request (`AnswerFindsItsRequest`) needs more than unique ids: a request must
keep its id from read to write, so nobody may renew it; so the owner must not
take it to be at rest; so it must be pending or in a sync call that cannot have
returned; so `done` must be set for this request only; so sync data must not be
shared. DeviceInv is the conjunction of these links: AsyncInv and SyncInv (what
a thread in a call owns), DoneInv and DataInv (sync data), CallbackInv and
FlightInv (who waits for a request in flight), SyscallInv (what read and write
work on), IdInv and HeldInv (ids and what the helper holds). There is one lemma
for each action, with one step for each of these links. `AnswersArrive`,
`SyncCallsAreAnswered`, `RequestsAreKept`, `RequestsAreInOnePlace` and
`AnswersUseTheCallersData` follow from it. With signals most
of the chain is gone. What stays is WakeupInv: each sync call has data of its
own, and a sleeping thread whose data is done is the one that `sync_callback`
is about to wake. `NoWakeupIsLost` proves it of `SignalSpec`, without an
assumption on ids.

From DeviceInv also follows that the transport implements KgpuCalls
(`TransportImplementsCalls`), step by step: `kgpu_call_async` and
`kgpu_call_sync` are its Call, the client's callback or the setting of `done`
its Answer, the end of `kgpu_call_sync` its Return, an allocation its
Construct, and every other step is one KgpuCalls does not see. One fact has to
be added, AnswerInv: the request that `kgpu_write` answers has one of the
helper's error codes, because nobody else writes to a request it works on.

**HelperLoopProofs** proves `Spec => []LoopInv` for any numbers of requests and
streams and any sets of services. LoopInv is the HelperInv of
**KgpuHelperProofs**, which is about the helper alone and is used for the system
too, with what concerns the answers and the calls of services (ServedInv,
AnswerInv). The properties of the run are not inductive one by one. That a
request answered with 0 has no work left on the GPU (`SuccessIsFinal`) needs
that a request's work is on its own stream only (GpuInv), since
`kh_finish_post` waits only until that stream is idle; so the stream must not
change hands before `kh_service_done` (StreamInv); so each
stage must know whether its requests have a stream (StageInv), and this needs
that a request is on one list only, and a pass over a list meets no request
that an earlier step of the pass has moved (PlaceInv). ServedInv adds the calls
of the service a request is past, PinInv the pins, AnswerInv the answers, which
are single because a request between the two halves of `kh_service_done` is
told apart from one that is only on `done_reqs`. `TypesAreRight`,
`RequestsAreOnOneList`, `StreamsAreExclusive`, `PinsAreBalanced` and
`AnswersAreSingle` follow too.
`NoUnpinAborts` also assumes `KnownIfMapped`, that an unknown service is asked
for only with memory of the pool; helper_unpin shows that it is needed.

**KgpuSystemProofs** puts the two together, again for any threads, requests,
services and streams and assuming `MaxIds <= MaxInt`. SystemInv has three parts:
DeviceInv of the transport, HelperInv of the helper, and LinkInv, what each side
knows of the other. LinkInv says that the helper has not answered exactly what is
on `rtdreqs`, under the same ids and for the same services; that what a read is
copying is the request it has taken; and that while a write runs its callback
the helper is between the two halves of `kh_service_done` of the request the
write has found. The parts depend on each other. The helper's lists stay in
order only if no id arrives that it still has, which follows from the unique ids
of requests in flight; the transport finds the request of each answer only if
the helper answers what it has read, once.

The transport is used as an instance: `D` is KgpuDevice with a helper that never
dies and holds `Held`, the ids of what is on `rtdreqs` or being read, in that
order. Every step of the system is a step of `D` or leaves it alone
(`SystemImplementsTransport`), so DeviceInv and the refinement of KgpuCalls come
over (`SystemImplementsCalls`). From LinkInv follow `BooksAlwaysAgree`,
`ErrcodesAreTheirOwn` and `SuccessLeavesNoWork`. `ErrcodesAreTheirOwn` also
assumes that no service returns `KGPU_NO_SERVICE` itself, in which case a client
could not tell the two apart. `SuccessLeavesNoWork` is about the work of the call
itself: what an earlier call that failed has left on a stream is nobody's, and
may still touch the buffers if a client uses them again.

What holds of each side alone holds of both together. From HelperInv follow
`SystemListsArePartitioned`, `SystemStreamsAreExclusive` and
`SystemPinsAreBalanced`, now with requests and ids that clients use again rather
than ids that arrive once; `SystemHelperLives` adds ReleaseInv, that a request
between the halves of `kh_service_done` has what it releases, and assumes
`ClientsMapForKnown`, which is KnownIfMapped said of the clients.
`SystemKeepsTransport` has the six properties of the run device.

**KgpuMempoolProofs** proves `Spec => []MempoolInv` for any pool, unit size,
set of sizes and garbage, assuming `PlainClients`: clients free what
`kgpu_vmalloc` returned, once, and ask for sizes that round to at least one
unit. Helpers may die and others set the pool up again at any moment. The claim
of a thread is its allocation or, between the unlocked look at `alloc_sz` and
`gmpool_lock`, what it is about to release; claims in the same mapping are
disjoint, and those in the current one are marked. Claims in earlier mappings
are what a new helper has forgotten: `kgpu_vfree` sees that they are outside
the pool and leaves it alone. An overtaken `kgpu_vfree` has no claim to the new
mapping (ThreadInv): either it releases no marked unit, which changes nothing,
or the mapping is struck, and from then on nothing is said of it. Claims in
other mappings are not affected. `AllocationsAreDisjoint` and `NoUnitIsLost`
follow. The contents of a fresh `alloc_sz` do not matter, since only an
overtaken `kgpu_vfree` reads an entry that was not written before.

`UnitsHoldTheBytes` is about the rounding in `kgpu_vmalloc`: the units hold the
bytes, with less than one unit to spare, exactly if the size `Fits`: the bytes
and one unit together do not exceed `ULong`, and the bytes are at most
`UInt - 1` units. Beyond the first bound the macro gives 0 units; beyond the
second the `unsigned int` keeps the remainder. So each allocation of
`PlainClients` is inside the pool, `kgpu_vfree` will find its size, and it has
room for what was asked for exactly if that size fits (`AllocationsHaveRoom`, an
action property).

**KgpuMmapProofs** proves `Spec => []MmapInv` for any area, threads and sizes.
Disjoint areas alone are not inductive: a release clears as many bits as
`alloc_sz` says, so the entry must be the size of the thread's own area
(OwnArea), through the unlocked look-up and while others allocate next to it;
and that no entry is in the way of `vm_insert_page` but those that
`kgpu_free_mmap_area` left needs to know how far each mapping has come
(Inserted). `MappingsAreDisjoint`, `PagesAreAccounted`, `NoMappingIsStale` and
`MappingsInsert` follow.

Its second half is about DeviceMemory, `MemorySpec => []MemoryInv`, for any page
size, areas and buffers that satisfy MemoryAssumption. MemoryInv says that each
step has left what it computes; the work is in the lemmas. AreasApart and FieldFacts: a buffer of the pool, of the mmap area or of
neither is recognised as that after `fill_ku_request` has moved it, so that
`gpu_free_device_mem`, which tests something else than `gpu_alloc_device_mem`,
arrives at the same buffers. RoundFacts and RoundInside: what rounding covers,
and that it stays inside an area of whole pages. UnionFacts and MergeFacts: in
each case of `__merge_ranges` the bytes are kept, whole pages stay whole pages
and nothing that is left touches. `DeviceMemoryMirrors`, `PinsStayInside`,
`MergingIsExact`, `AlignedBuffersArePinned` and `NothingStaysPinned` follow, the
five properties of the run device_memory.

**KgpuModuleProofs** proves `Spec => []ModuleInv` for any finite set of
processes and any number of setups. ObjectsInv says what `kgpu_init` has
created at each of its steps, SetupInv what helpers have set up and that
pointers which are not NULL stand for exactly one mapping or pair of arrays
until one is superseded, OpenInv that the counter is one less the number of
processes at the device, until a release overlaps a failing open.
`NoUserWithoutModule`, `UnloadReleasesAll`, `OneHelperAtATime` and
`FreeDeviceOpens` follow.

At its end are the services, `RegistrySpec => [](RegistryInv /\ WalkInv)`, for
any libraries and names and a finite supply of entries. RegistryInv says that entries are on the list once and that a library is open
once for each of its entries. WalkInv says that `kh_unload_all_services` is
always at the first entry of the list and has saved the second. It is why
`finit_service`, which unregisters the first entry of a name, cannot take away
the saved one: the first entry of the list is the first of its name.
`LibrariesAreCounted` and `UnloadAllIsComplete` follow.

Every invariant that a passing run checks is proved, under the assumptions named
above, and so is the refinement of KgpuCalls by the transport and by the system. Only model-checked: that every request is
answered (`EveryRequestAnswered`) and every call returns (`EveryCallReturns`),
since liveness under fairness is outside what this version of TLAPS proves, and
the counterexamples of the runs that end in a violation.

## Not modelled

* An `mmap` by a new helper while clients have mappings in the area of the old
  one, whose addresses then mean something else. The code does not prevent it,
  and the disjointness of areas does not survive it.
* Several threads that free several fields of a request each: mempool has the
  threads, mempool_garbage the fields.
* Requests whose memory is neither in the pool nor in the mmap area, and client
  modules that are unloaded with a request in flight.
* `kgpu_map_page`, which nothing calls; `gpu_init` and `gpu_finit`, which pass
  on what CUDA answers.
* Services that register more than one entry in `init_service`; those of this
  repository register one.
* `kgpu_vmalloc(0)`, for which the code returns a pointer to a unit that it
  does not reserve.
* What hardware and CUDA do when memory is unmapped while registered.
* The OpenCL backend: `__check_stream_done` is a stub that returns 0, so no
  launched request is ever answered with it.
* Logging, and the page table walk of `kgpu_v2page`.
