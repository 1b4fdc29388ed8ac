---------------------------- MODULE DeviceMemory ----------------------------
(***************************************************************************)
(* The memory of one request on its way to the GPU: fill_ku_request turns  *)
(* the kernel's addresses of pool memory into the helper's,                *)
(* gpu_alloc_device_mem finds the device memory for in, out and data and   *)
(* registers with CUDA what is not in the pool, and gpu_free_device_mem    *)
(* unregisters it.  Addresses are numbers, as the code computes with them. *)
(***************************************************************************)
EXTENDS PinRanges

CONSTANTS
  kva, uva,              \* the pool, as the kernel and as the helper see it
  vma,                   \* the mmap area, in the helper
  devbuf, devbuf4vma,    \* the device memory for the pool and for the area
  PoolSize, VmaSize,
  PoolOffsets, Offsets,  \* where in the pool and in the area buffers start
  Lengths                \* their sizes

Span(base, size) == base..(base + size - 1)

ASSUME MemoryAssumption ==
  /\ PageSize \in Nat \ {0} /\ PoolSize \in Nat \ {0} /\ VmaSize \in Nat \ {0}
  /\ {kva, uva, vma, devbuf, devbuf4vma} \subseteq Nat \ {0}
  /\ vma % PageSize = 0 /\ VmaSize % PageSize = 0
  /\ Span(kva, PoolSize) \cap (Span(vma, VmaSize) \cup Span(uva, PoolSize)) = {}
  /\ Span(uva, PoolSize) \cap Span(vma, VmaSize) = {}
  /\ Span(devbuf, PoolSize) \cap Span(devbuf4vma, VmaSize) = {}
  /\ Lengths \subseteq Nat \ {0} /\ PoolOffsets \cup Offsets \subseteq Nat

Fields == {"in", "out", "data"}

\* What clients put in a request: memory from kgpu_vmalloc or in the mmap area,
\* and perhaps no data.
NoBuffer == [ad |-> 0, sz |-> 0]
Pool   == { b \in [ad : { kva + o : o \in PoolOffsets }, sz : Lengths] :
              b.ad + b.sz <= kva + PoolSize }
Mapped == { b \in [ad : { vma + o : o \in Offsets }, sz : Lengths] :
              b.ad + b.sz <= vma + VmaSize }

VARIABLES
  req,      \* in, out and udata of the kgpu_request
  host,     \* hin, hout and hdata
  dev,      \* din, dout and ddata; 0 is NULL
  pinned,   \* the ranges registered with cudaHostRegister
  mpc       \* how far the request has come

mvars == <<req, host, dev, pinned, mpc>>

MemoryInit ==
  /\ req \in { r \in [Fields -> Pool \cup Mapped \cup {NoBuffer}] :
                 r["in"] # NoBuffer /\ r["out"] # NoBuffer }
  /\ host = [f \in Fields |-> NoBuffer]
  /\ dev = [f \in Fields |-> 0]
  /\ pinned = {}
  /\ mpc = "kernel"

-----------------------------------------------------------------------------
\* Faulty variant: the first byte is left out.
ADDR_WITHIN_Open(pointer, base, size) == pointer > base /\ pointer < base + size

ADDR_WITHIN(pointer, base, size) == pointer >= base /\ pointer < base + size
ADDR_REBASE(dst, src, pointer) == dst + (pointer - src)

\* fill_ku_request, and kh_init_service_request in the helper: addresses that
\* are not in the pool are passed on as they are.
fill_ku_request ==
  /\ mpc = "kernel"
  /\ host' = [f \in Fields |->
                [req[f] EXCEPT !.ad = IF ADDR_WITHIN(@, kva, PoolSize)
                                      THEN ADDR_REBASE(uva, kva, @) ELSE @]]
  /\ mpc' = "read"
  /\ UNCHANGED <<req, dev, pinned>>

InPool(f) == ADDR_WITHIN(host[f].ad, uva, PoolSize)
InVma(f)  == ADDR_WITHIN(host[f].ad, vma, VmaSize)

\* The buffers that are registered: in and out unless they are in the pool,
\* data only if it is in the mmap area.
Pins(f) == IF f = "data" THEN InVma(f) /\ ~InPool(f) ELSE ~InPool(f)

\* Faulty variant: one device buffer for the pool and for the mmap area.
DeviceAddress_OneBuffer(f) ==
  IF InPool(f) THEN ADDR_REBASE(devbuf, uva, host[f].ad)
  ELSE IF Pins(f) THEN ADDR_REBASE(devbuf, vma, host[f].ad)
  ELSE 0

DeviceAddress(f) ==
  IF InPool(f) THEN ADDR_REBASE(devbuf, uva, host[f].ad)
  ELSE IF Pins(f) THEN ADDR_REBASE(devbuf4vma, vma, host[f].ad)
  ELSE 0

\* The ranges of the fields in F, in the order in, out, data.
Collect(F) ==
  LET Of(f) == IF f \in F THEN <<host[f]>> ELSE <<>> IN
  Of("in") \o Of("out") \o Of("data")

gpu_alloc_device_mem ==
  /\ mpc = "read"
  /\ dev' = [f \in Fields |-> DeviceAddress(f)]
  /\ pinned' = Range(merge_ranges(Collect({ f \in Fields : Pins(f) })))
  /\ mpc' = "pinned"
  /\ UNCHANGED <<req, host>>

\* Faulty variant: data is forgotten.
ToUnpin_NoData == { f \in Fields \ {"data"} : InVma(f) }

\* gpu_free_device_mem collects what is in the mmap area.
ToUnpin == { f \in Fields : InVma(f) }

\* The ranges are computed again, and unregistered by their addresses.
gpu_free_device_mem ==
  /\ mpc = "pinned"
  /\ dev' = [f \in Fields |-> 0]
  /\ LET ads == { q.ad : q \in Range(merge_ranges(Collect(ToUnpin))) } IN
     pinned' = { q \in pinned : q.ad \notin ads }
  /\ mpc' = "freed"
  /\ UNCHANGED <<req, host>>

MemoryNext == fill_ku_request \/ gpu_alloc_device_mem \/ gpu_free_device_mem

MemorySpec == MemoryInit /\ [][MemoryNext]_mvars

-----------------------------------------------------------------------------
\* The bytes of ranges.
Bytes(q) == Span(q.ad, q.sz)
AllBytes(S) == UNION { Bytes(q) : q \in S }

Given == { f \in Fields : req[f] # NoBuffer }

\* "copy what the kernel part does for the GPU memory" (cudaOperations.cu:254):
\* two bytes of a request's buffers are one byte of device memory exactly if
\* they are one byte for the client, whether they come from the pool or from
\* the mmap area, and the device memory is inside its buffer.
DeviceMirrorsHost ==
  mpc = "pinned" =>
    \A f \in Given :
      /\ \/ Span(dev[f], req[f].sz) \subseteq Span(devbuf, PoolSize)
         \/ Span(dev[f], req[f].sz) \subseteq Span(devbuf4vma, VmaSize)
      /\ \A g \in Given : \A i \in 0..(req[f].sz - 1), j \in 0..(req[g].sz - 1) :
           dev[f] + i = dev[g] + j <=> req[f].ad + i = req[g].ad + j

\* CUDA is asked to register whole pages of the mmap area and nothing else: not
\* the pool, which is registered from the start, and no page beyond the area,
\* although addresses and sizes are rounded without looking at its end.
PinsInsideVma ==
  \A q \in pinned : /\ Bytes(q) \subseteq Span(vma, VmaSize)
                    /\ q.ad % PageSize = 0 /\ q.sz % PageSize = 0

\* CUDA is asked to register no byte twice, and registers exactly the pages of
\* the rounded ranges: __merge_ranges, in whatever order the three ranges
\* touch, neither drops nor adds a page and leaves no two ranges that touch.
MergedExactly ==
  mpc = "pinned" =>
    /\ AllBytes(pinned) = AllBytes(Range(Round(Collect({ f \in Fields : Pins(f) }))))
    /\ \A q, r \in pinned : q # r => ~Touch(q, r)

InArea == { b \in { req[f] : f \in Fields } : b \in Mapped }

\* Every byte of the mapped buffers of a request is registered while it is on
\* the GPU, if the buffers start on page boundaries.
AlignedIsPinned ==
  mpc = "pinned" /\ (\A b \in InArea : b.ad % PageSize = 0) =>
    AllBytes(InArea) \subseteq AllBytes(pinned)

\* gpu_free_device_mem leaves nothing registered: it arrives at the ranges that
\* gpu_alloc_device_mem has registered.
AllUnpinned == mpc = "freed" => pinned = {}

=============================================================================
