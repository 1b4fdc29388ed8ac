---------------------------- MODULE KgpuMempool -----------------------------
(***************************************************************************)
(* The GPU memory pool (kernelSpace/main.c): kgpu_vmalloc and kgpu_vfree   *)
(* on the buffer that the helper hands to the kernel with                  *)
(* KGPU_IOC_SET_GPU_BUFS.  A pointer into the pool is the index of its     *)
(* unit in a mapping; kgpu_vfree finds the unit and the size of the        *)
(* allocation before it takes gmpool_lock.  A helper may die and another   *)
(* one set the pool up again while clients have memory of it, also while   *)
(* they are in kgpu_vfree: the mapping is then a new one, at another       *)
(* address, for the old one is never unmapped.                             *)
(***************************************************************************)
EXTENDS Integers

CONSTANTS
  Threads,     \* kernel threads, each with at most one allocation
  PoolUnits,   \* units of the buffer: KGPU_BUF_SIZE / KGPU_BUF_UNIT_SIZE
  UnitSize,    \* KGPU_BUF_UNIT_SIZE
  ULong, UInt, \* unsigned long is 0..(ULong - 1), unsigned int 0..(UInt - 1)
  Sizes,       \* sizes in bytes that clients ask for
  Garbage,     \* values that uninitialized u32s from kmalloc can have
  FieldFrees,  \* clients also free pointers into the middle of an allocation
  MaxMaps      \* bound on the mappings

Units == 0..(PoolUnits - 1)
NoUnit == -1

ASSUME MempoolAssumption ==
  /\ ULong \in Nat \ {0} /\ UInt \in Nat \ {0}
  /\ PoolUnits \in 1..(UInt - 1) /\ UnitSize \in 1..(ULong - 1)
  /\ Sizes \subseteq 0..(ULong - 1)
  /\ Garbage \subseteq 0..(UInt - 1)
  /\ FieldFrees \in BOOLEAN
  /\ MaxMaps \in Nat

VARIABLES
  nunits,             \* gmpool.nunits
  arrays,             \* which of bitmap and alloc_sz are not NULL
  bitmap, alloc_sz,   \* gmpool.bitmap, as a set, and gmpool.alloc_sz
  kva, maps,          \* gmpool.kva: the latest mapping, or 0, NULL; all of them
  mem,                \* of each thread: its allocation, a set of units
  map, base, fields,  \* its mapping, first unit and the pointers it will free
  freeing, sz,        \* in kgpu_vfree: idx, and nunits once it is read
  oops,               \* the kernel has dereferenced a NULL pointer
  overtaken,          \* history: threads in kgpu_vfree since before the last setup
  struck              \* history: mappings that lost units to an overtaken kgpu_vfree

pool    == <<nunits, arrays, bitmap, alloc_sz, kva, maps, oops>>
clients == <<mem, map, base, fields>>
frees   == <<freeing, sz, overtaken, struck>>
vars    == <<pool, clients, frees>>

TypeOK ==
  /\ nunits \in {0, PoolUnits}
  /\ arrays \subseteq {"bitmap", "alloc_sz"}
  /\ bitmap \subseteq Units
  /\ alloc_sz \in [Units -> Nat]
  /\ maps \in Nat /\ kva \in 0..maps /\ oops \in BOOLEAN
  /\ mem \in [Threads -> SUBSET Units]
  /\ map \in [Threads -> 0..maps]
  /\ base \in [Threads -> Units]
  /\ fields \in [Threads -> SUBSET Units]
  /\ freeing \in [Threads -> Units \cup {NoUnit}]
  /\ sz \in [Threads -> Nat]
  /\ overtaken \subseteq Threads /\ struck \subseteq 0..maps

\* kgpu_init: memset of the gmpool.
Init ==
  /\ nunits = 0 /\ arrays = {} /\ kva = 0 /\ maps = 0 /\ oops = FALSE
  /\ bitmap = {} /\ alloc_sz = [k \in Units |-> 0]
  /\ mem = [t \in Threads |-> {}]
  /\ map = [t \in Threads |-> 0]
  /\ base = [t \in Threads |-> 0]
  /\ fields = [t \in Threads |-> {}]
  /\ freeing = [t \in Threads |-> NoUnit]
  /\ sz = [t \in Threads |-> 0]
  /\ overtaken = {} /\ struck = {}

-----------------------------------------------------------------------------
\* memset(alloc_sz, 0, nunits): as many bytes as there are entries of four.
\* An entry that is reached in part loses its low bytes.
ClearLow(v, bytes) ==
  v - (v % (IF bytes = 1 THEN 256 ELSE IF bytes = 2 THEN 256 * 256 ELSE 256 * 256 * 256))

Memset(a) ==
  [k \in Units |-> IF 4 * k + 4 <= PoolUnits THEN 0
                   ELSE IF 4 * k < PoolUnits THEN ClearLow(a[k], PoolUnits - 4 * k)
                   ELSE a[k]]

\* set_gpu_mempool, which a helper calls when it starts, also after another one
\* has died with clients' memory in the pool, and at any point of a kgpu_vfree
\* up to its lock.  One step under gmpool_lock: kgpu_vfree reads kva and alloc_sz
\* in two steps of its own, and each is set once here.  Arrays of an earlier helper are reused.  It may run out of
\* memory for the bitmap or for alloc_sz, or fail to map.
set_gpu_mempool ==
  /\ ~oops
  /\ nunits' = PoolUnits
  /\ \/ /\ "bitmap" \notin arrays
        /\ UNCHANGED <<arrays, bitmap, alloc_sz, kva, maps>>
     \/ /\ "alloc_sz" \notin arrays
        /\ arrays' = {"bitmap"}
        /\ bitmap' = {}
        /\ UNCHANGED <<alloc_sz, kva, maps>>
     \/ /\ arrays' = {"bitmap", "alloc_sz"}
        /\ bitmap' = {}
        /\ \E a \in (IF "alloc_sz" \in arrays THEN {alloc_sz} ELSE [Units -> Garbage]) :
             alloc_sz' = Memset(a)
        /\ \/ kva' = 0 /\ UNCHANGED maps
           \/ maps < MaxMaps /\ kva' = maps + 1 /\ maps' = maps + 1
  /\ overtaken' = { t \in Threads : freeing[t] # NoUnit }
  /\ UNCHANGED <<oops, clients, freeing, sz, struck>>

\* req_nunits: DIV_ROUND_UP(nbytes, KGPU_BUF_UNIT_SIZE), computed in unsigned
\* longs and stored in an unsigned int.
ReqUnits(nbytes) == (((nbytes + UnitSize - 1) % ULong) \div UnitSize) % UInt

Area(i, n) == i..(i + n - 1)

\* Where bitmap_find_next_zero_area can find n zero bits.
ZeroAreas(n) == { i \in 0..(nunits - n) : i < nunits /\ Area(i, n) \cap bitmap = {} }

\* The client takes an allocation of n units at i, and will free it with any
\* of the pointers it keeps in the request's in, out and data.
Take(t, i, n) ==
  /\ mem' = [mem EXCEPT ![t] = Area(i, n)]
  /\ map' = [map EXCEPT ![t] = kva]
  /\ base' = [base EXCEPT ![t] = i]
  /\ \E F \in (IF FieldFrees THEN SUBSET Area(i, n) ELSE {{}}) :
       fields' = [fields EXCEPT ![t] = F \cup {i}]

\* A thread without an allocation, and outside the allocator.
Idle(t) == ~oops /\ fields[t] = {} /\ freeing[t] = NoUnit

\* kgpu_vmalloc, which has gmpool_lock all the time.  If mapping the pool has
\* failed it still hands out units, and the first one looks like NULL.
kgpu_vmalloc(t, nbytes) ==
  LET n == ReqUnits(nbytes) IN
  /\ Idle(t)
  /\ arrays = {"bitmap", "alloc_sz"}
  /\ \E idx \in ZeroAreas(n) :
     /\ \A i \in ZeroAreas(n) : idx <= i
     /\ bitmap' = bitmap \cup Area(idx, n)
     /\ alloc_sz' = [alloc_sz EXCEPT ![idx] = n]
     /\ IF kva # 0 \/ idx > 0 THEN Take(t, idx, n) ELSE UNCHANGED clients
  /\ UNCHANGED <<nunits, arrays, kva, maps, oops, frees>>

\* kgpu_vmalloc after set_gpu_mempool has run out of memory.
vmalloc_oops(t) ==
  /\ Idle(t)
  /\ nunits > 0
  /\ arrays # {"bitmap", "alloc_sz"}
  /\ oops' = TRUE
  /\ UNCHANGED <<nunits, arrays, bitmap, alloc_sz, kva, maps, clients, frees>>

\* Freeing the first unit gives the allocation up.
GiveUp(t, p) ==
  /\ mem' = [mem EXCEPT ![t] = IF p = base[t] THEN {} ELSE @]
  /\ base' = [base EXCEPT ![t] = IF p = base[t] THEN 0 ELSE @]

\* kgpu_vfree returns to thread t, which forgets the mapping with its last
\* pointer into it.
Return(t) == map' = [map EXCEPT ![t] = IF fields'[t] = {} THEN 0 ELSE @]

\* Faulty variant: the pointer is not tested against the bounds of the pool,
\* so one into an earlier mapping is taken for one into this.
kgpu_vfree_NoBounds(t, p) ==
  /\ ~oops
  /\ freeing[t] = NoUnit
  /\ p \in fields[t]
  /\ fields' = [fields EXCEPT ![t] = @ \ {p}]
  /\ freeing' = [freeing EXCEPT ![t] = p]
  /\ UNCHANGED <<pool, mem, map, base, sz, overtaken, struck>>

\* kgpu_vfree computes idx.  A pointer into another mapping is outside the pool,
\* which ends it.
kgpu_vfree(t, p) ==
  /\ ~oops
  /\ freeing[t] = NoUnit
  /\ p \in fields[t]
  /\ fields' = [fields EXCEPT ![t] = @ \ {p}]
  /\ IF map[t] = kva
     THEN freeing' = [freeing EXCEPT ![t] = p] /\ UNCHANGED <<mem, base, map>>
     ELSE GiveUp(t, p) /\ Return(t) /\ UNCHANGED freeing
  /\ UNCHANGED <<pool, sz, overtaken, struck>>

\* kgpu_vfree reads alloc_sz, without the lock.  A size of 0, or one that reaches
\* out of the pool, ends it.
vfree_look(t) ==
  /\ ~oops
  /\ freeing[t] # NoUnit /\ sz[t] = 0
  /\ GiveUp(t, freeing[t])
  /\ UNCHANGED <<pool, fields, struck>>
  /\ IF alloc_sz[freeing[t]] \in 1..(nunits - freeing[t])
     THEN /\ sz' = [sz EXCEPT ![t] = alloc_sz[freeing[t]]]
          /\ UNCHANGED <<map, freeing, overtaken>>
     ELSE /\ Return(t)
          /\ freeing' = [freeing EXCEPT ![t] = NoUnit]
          /\ overtaken' = overtaken \ {t}
          /\ UNCHANGED sz

\* Faulty variants: one unit too many, or too few, is released.
vfree_clear_TooMany(t) ==
  /\ ~oops
  /\ sz[t] > 0
  /\ bitmap' = bitmap \ Area(freeing[t], sz[t] + 1)
  /\ alloc_sz' = [alloc_sz EXCEPT ![freeing[t]] = 0]
  /\ freeing' = [freeing EXCEPT ![t] = NoUnit]
  /\ sz' = [sz EXCEPT ![t] = 0]
  /\ overtaken' = overtaken \ {t}
  /\ struck' = IF t \in overtaken /\ Area(freeing[t], sz[t]) \cap bitmap # {}
               THEN struck \cup {kva} ELSE struck
  /\ UNCHANGED <<nunits, arrays, kva, maps, oops, mem, base, fields>>
  /\ Return(t)

vfree_clear_TooFew(t) ==
  /\ ~oops
  /\ sz[t] > 0
  /\ bitmap' = bitmap \ Area(freeing[t], sz[t] - 1)
  /\ alloc_sz' = [alloc_sz EXCEPT ![freeing[t]] = 0]
  /\ freeing' = [freeing EXCEPT ![t] = NoUnit]
  /\ sz' = [sz EXCEPT ![t] = 0]
  /\ overtaken' = overtaken \ {t}
  /\ struck' = IF t \in overtaken /\ Area(freeing[t], sz[t]) \cap bitmap # {}
               THEN struck \cup {kva} ELSE struck
  /\ UNCHANGED <<nunits, arrays, kva, maps, oops, mem, base, fields>>
  /\ Return(t)

\* kgpu_vfree under gmpool_lock.  If the pool has been set up in the meantime the
\* units it releases are units of the new pool.
vfree_clear(t) ==
  /\ ~oops
  /\ sz[t] > 0
  /\ bitmap' = bitmap \ Area(freeing[t], sz[t])
  /\ alloc_sz' = [alloc_sz EXCEPT ![freeing[t]] = 0]
  /\ freeing' = [freeing EXCEPT ![t] = NoUnit]
  /\ sz' = [sz EXCEPT ![t] = 0]
  /\ overtaken' = overtaken \ {t}
  /\ struck' = IF t \in overtaken /\ Area(freeing[t], sz[t]) \cap bitmap # {}
               THEN struck \cup {kva} ELSE struck
  /\ UNCHANGED <<nunits, arrays, kva, maps, oops, mem, base, fields>>
  /\ Return(t)

Next ==
  \/ set_gpu_mempool
  \/ \E t \in Threads : \/ \E nbytes \in Sizes : kgpu_vmalloc(t, nbytes)
                        \/ vmalloc_oops(t)
                        \/ \E p \in Units : kgpu_vfree(t, p)
                        \/ vfree_look(t)
                        \/ vfree_clear(t)

Spec == Init /\ [][Next]_vars

-----------------------------------------------------------------------------
\* The units that a kgpu_vfree of thread t, unless it is overtaken, is about to
\* release.
Leaving(t) ==
  IF freeing[t] = NoUnit \/ t \in overtaken THEN {} ELSE Area(freeing[t], sz[t])

\* Mapping m is one from which no overtaken kgpu_vfree has released units.
Sound(m) == m # 0 /\ m \notin struck

\* Thread t got its allocation from the pool as it is mapped now.
Current(t) == Sound(kva) /\ map[t] = kva

\* No two clients have the same unit of one mapping of the pool, and none has a
\* unit that another one's kgpu_vfree is still going to release after its
\* unlocked look at alloc_sz.  Clients that come to kgpu_vfree with memory of an
\* earlier helper do no harm to those that have been served since: only one that
\* set_gpu_mempool overtakes inside kgpu_vfree does, if it finds units in use
\* (struck), and it does so in that one mapping.
LiveDisjoint ==
  \A t, u \in Threads : t # u /\ map[t] = map[u] /\ Sound(map[t]) =>
    /\ mem[t] \cap mem[u] = {}
    /\ mem[t] \cap Leaving(u) = {}

\* "this allows users free memory from any field among in, out and data in
\* request" (main.c:353): the units of an allocation stay reserved until the
\* client frees its first unit, or another helper sets the pool up.
LiveReserved ==
  \A t \in Threads : Current(t) /\ mem[t] # {} =>
    mem[t] \subseteq bitmap /\ mem[t] = Area(base[t], alloc_sz[base[t]])

\* No unit is lost: in a pool that is mapped, what is marked in the bitmap is
\* some client's, or about to be released, unless an overtaken kgpu_vfree has
\* released units of it.
NoUnitLost ==
  Sound(kva) =>
    bitmap = UNION { mem[t] \cup Leaving(t) : t \in { u \in Threads : map[u] = kva } }

(***************************************************************************)
(* The inductive invariant behind them, for clients that free the first    *)
(* unit only.                                                              *)
(***************************************************************************)

\* What thread t has of the pool: its allocation, or what it is releasing.
Claim == [t \in Threads |-> mem[t] \cup Leaving(t)]

\* Where thread t is: with an allocation or without, or in kgpu_vfree, which has
\* the allocation until it knows the size.
ThreadInv(t) ==
  /\ fields[t] = IF mem[t] = {} \/ freeing[t] # NoUnit THEN {} ELSE {base[t]}
  /\ freeing[t] = NoUnit => sz[t] = 0 /\ t \notin overtaken
  /\ freeing[t] # NoUnit =>
       /\ sz[t] = 0 => mem[t] # {} /\ freeing[t] = base[t]
       /\ sz[t] # 0 => mem[t] = {}
       /\ IF t \in overtaken THEN kva # 0 => map[t] # kva ELSE map[t] = kva

\* No unit of one mapping is in the claims of two threads.
ClaimsDisjoint ==
  \A t, u \in Threads :
    t # u /\ map[t] = map[u] /\ Sound(map[t]) => Claim[t] \cap Claim[u] = {}

\* The books of the pool agree with what threads have: claims in one mapping are
\* disjoint, and those in the present one are what the bitmap has marked and
\* alloc_sz has the sizes of, unless an overtaken kgpu_vfree has struck it.
MempoolInv ==
  /\ TypeOK
  /\ LiveReserved
  /\ ClaimsDisjoint
  /\ \A t \in Threads : Current(t) => Claim[t] \subseteq bitmap
  /\ \A t \in Threads : ThreadInv(t)
  /\ kva # 0 => nunits = PoolUnits /\ arrays = {"bitmap", "alloc_sz"}
  /\ NoUnitLost

=============================================================================
