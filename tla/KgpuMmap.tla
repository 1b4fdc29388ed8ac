------------------------------ MODULE KgpuMmap ------------------------------
(***************************************************************************)
(* The mmap area (kernelSpace/main.c): kernel clients map pages of their   *)
(* own into the helper's vma with kgpu_map_pages or kgpu_map_pfns, and     *)
(* release them with kgpu_unmap_area or kgpu_free_mmap_area.  An address   *)
(* in the area is the index of its page.  Pages are inserted one by one    *)
(* under mmap_sem; releasing takes vm_lock only, and looks the size up     *)
(* before that.                                                            *)
(***************************************************************************)
EXTENDS Integers

CONSTANTS
  Threads,      \* kernel threads, each with at most one mapping
  AreaPages,    \* KGPU_MMAP_SIZE in pages
  Sizes,        \* numbers of pages that clients map
  ReleasedBy,   \* the functions clients release with
  NoThread

Releases == {"kgpu_unmap_area", "kgpu_free_mmap_area"}

ASSUME MmapAssumption ==
  /\ AreaPages \in Nat \ {0}
  /\ Sizes \subseteq Nat \ {0}
  /\ ReleasedBy \subseteq Releases
  /\ NoThread \notin Threads

Pages == 0..(AreaPages - 1)

VARIABLES
  npages,            \* kgpudev.vm.npages: 0 until a helper calls mmap
  bitmap, alloc_sz,  \* kgpudev.vm.bitmap, as a set, and kgpudev.vm.alloc_sz
  pte,               \* pages of the vma that have a page table entry
  mmap_sem,          \* the thread that has it
  pc, idx, n,        \* of each thread: where it is, its area and its size
  next,              \* the page it inserts next
  lost,              \* pages of areas whose address no client has
  left,              \* pages whose entries kgpu_free_mmap_area has left
  oops               \* the kernel has dereferenced a NULL pointer

vm   == <<npages, bitmap, alloc_sz, pte, oops>>
vars == <<vm, mmap_sem, pc, idx, n, next, lost, left>>

PCs == {"none", "allocated", "insert", "mapped"} \cup Releases

TypeOK ==
  /\ npages \in {0, AreaPages}
  /\ bitmap \subseteq Pages /\ pte \subseteq Pages
  /\ lost \subseteq Pages /\ left \subseteq Pages
  /\ alloc_sz \in [Pages -> Nat]
  /\ mmap_sem \in Threads \cup {NoThread}
  /\ pc \in [Threads -> PCs]
  /\ idx \in [Threads -> Pages]
  /\ n \in [Threads -> Nat]
  /\ next \in [Threads -> Nat]
  /\ oops \in BOOLEAN

\* kgpu_init: memset of kgpudev.vm.
Init ==
  /\ npages = 0 /\ bitmap = {} /\ alloc_sz = [k \in Pages |-> 0]
  /\ pte = {} /\ lost = {} /\ left = {} /\ mmap_sem = NoThread /\ oops = FALSE
  /\ pc = [t \in Threads |-> "none"]
  /\ idx = [t \in Threads |-> 0]
  /\ n = [t \in Threads |-> 0]
  /\ next = [t \in Threads |-> 0]

Area(i, m) == i..(i + m - 1)

-----------------------------------------------------------------------------
\* kgpu_mmap and set_vm: a helper maps the device; no client uses the area
\* while helpers are exchanged.  The arrays are new ones, and NULL if there is
\* no memory for one of them, but they are cleared all the same.
kgpu_mmap ==
  /\ ~oops
  /\ \A t \in Threads : pc[t] = "none"
  /\ npages' = AreaPages
  /\ \/ /\ bitmap' = {}
        /\ alloc_sz' = [k \in Pages |-> 0]
        /\ UNCHANGED oops
     \/ /\ oops' = TRUE
        /\ UNCHANGED <<bitmap, alloc_sz>>
  /\ pte' = {} /\ lost' = {} /\ left' = {}
  /\ UNCHANGED <<mmap_sem, pc, idx, n, next>>

\* Faulty variant: the area may end one page past the vma.
ZeroAreas_PastEnd(m) == { i \in 0..(npages - m + 1) : Area(i, m) \cap bitmap = {} }

\* Where bitmap_find_next_zero_area can find m zero bits.
ZeroAreas(m) == { i \in 0..(npages - m) : Area(i, m) \cap bitmap = {} }

\* Faulty variant: bitmap_set is missing.
kgpu_alloc_mmap_area_NoMark(t, m) ==
  /\ ~oops
  /\ pc[t] = "none"
  /\ \E i \in ZeroAreas(m) :
       /\ \A j \in ZeroAreas(m) : i <= j
       /\ UNCHANGED bitmap
       /\ alloc_sz' = [alloc_sz EXCEPT ![i] = m]
       /\ idx' = [idx EXCEPT ![t] = i]
       /\ next' = [next EXCEPT ![t] = i]
  /\ n' = [n EXCEPT ![t] = m]
  /\ pc' = [pc EXCEPT ![t] = "allocated"]
  /\ UNCHANGED <<npages, pte, mmap_sem, lost, left, oops>>

\* map_page_units, the call of kgpu_alloc_mmap_area, all of it under vm_lock.
kgpu_alloc_mmap_area(t, m) ==
  /\ ~oops
  /\ pc[t] = "none"
  /\ \E i \in ZeroAreas(m) :
       /\ \A j \in ZeroAreas(m) : i <= j
       /\ bitmap' = bitmap \cup Area(i, m)
       /\ alloc_sz' = [alloc_sz EXCEPT ![i] = m]
       /\ idx' = [idx EXCEPT ![t] = i]
       /\ next' = [next EXCEPT ![t] = i]
  /\ n' = [n EXCEPT ![t] = m]
  /\ pc' = [pc EXCEPT ![t] = "allocated"]
  /\ UNCHANGED <<npages, pte, mmap_sem, lost, left, oops>>

\* down_write(mmap_sem)
down_write(t) ==
  /\ ~oops
  /\ pc[t] = "allocated"
  /\ mmap_sem = NoThread
  /\ mmap_sem' = t
  /\ pc' = [pc EXCEPT ![t] = "insert"]
  /\ UNCHANGED <<vm, idx, n, next, lost, left>>

\* vm_insert_page, which refuses a page that has an entry; after the last
\* page, up_write and the return.
vm_insert_page(t) ==
  /\ ~oops
  /\ pc[t] = "insert"
  /\ next[t] \notin pte
  /\ pte' = pte \cup {next[t]}
  /\ next' = [next EXCEPT ![t] = @ + 1]
  /\ IF next[t] + 1 = idx[t] + n[t]
     THEN mmap_sem' = NoThread /\ pc' = [pc EXCEPT ![t] = "mapped"]
     ELSE UNCHANGED <<mmap_sem, pc>>
  /\ UNCHANGED <<npages, bitmap, alloc_sz, oops, idx, n, lost, left>>

\* vm_insert_page fails, with -EBUSY or -ENOMEM: map_page_units returns NULL
\* and leaves the area allocated, and the pages inserted so far in place.
insert_fails(t) ==
  /\ ~oops
  /\ pc[t] = "insert"
  /\ mmap_sem' = NoThread
  /\ pc' = [pc EXCEPT ![t] = "none"]
  /\ lost' = lost \cup Area(idx[t], n[t])
  /\ UNCHANGED <<vm, idx, n, next, left>>

\* kgpu_unmap_area and kgpu_free_mmap_area up to the lock: the recorded size
\* is 0, or reaches out of the area, or is what they release.
look_up(t, f) ==
  /\ ~oops
  /\ pc[t] = "mapped"
  /\ IF alloc_sz[idx[t]] \in 1..(npages - idx[t])
     THEN /\ n' = [n EXCEPT ![t] = alloc_sz[idx[t]]]
          /\ pc' = [pc EXCEPT ![t] = f]
     ELSE /\ pc' = [pc EXCEPT ![t] = "none"]
          /\ UNCHANGED n
  /\ UNCHANGED <<vm, mmap_sem, idx, next, lost, left>>

\* Faulty variants: the entries are not zapped; the bitmap is not cleared.
release_NoZap(t, f) ==
  /\ ~oops
  /\ pc[t] = f
  /\ bitmap' = bitmap \ Area(idx[t], n[t])
  /\ alloc_sz' = [alloc_sz EXCEPT ![idx[t]] = 0]
  /\ UNCHANGED pte
  /\ pc' = [pc EXCEPT ![t] = "none"]
  /\ left' = IF f = "kgpu_unmap_area" THEN left \ Area(idx[t], n[t])
                                     ELSE left \cup Area(idx[t], n[t])
  /\ UNCHANGED <<npages, oops, mmap_sem, idx, n, next, lost>>

release_KeepsBits(t, f) ==
  /\ ~oops
  /\ pc[t] = f
  /\ UNCHANGED bitmap
  /\ alloc_sz' = [alloc_sz EXCEPT ![idx[t]] = 0]
  /\ pte' = IF f = "kgpu_unmap_area" THEN pte \ Area(idx[t], n[t]) ELSE pte
  /\ pc' = [pc EXCEPT ![t] = "none"]
  /\ left' = IF f = "kgpu_unmap_area" THEN left \ Area(idx[t], n[t])
                                     ELSE left \cup Area(idx[t], n[t])
  /\ UNCHANGED <<npages, oops, mmap_sem, idx, n, next, lost>>

\* Both under vm_lock: only kgpu_unmap_area zaps the page table entries.
release(t, f) ==
  /\ ~oops
  /\ pc[t] = f
  /\ bitmap' = bitmap \ Area(idx[t], n[t])
  /\ alloc_sz' = [alloc_sz EXCEPT ![idx[t]] = 0]
  /\ pte' = IF f = "kgpu_unmap_area" THEN pte \ Area(idx[t], n[t]) ELSE pte
  /\ pc' = [pc EXCEPT ![t] = "none"]
  /\ left' = IF f = "kgpu_unmap_area" THEN left \ Area(idx[t], n[t])
                                     ELSE left \cup Area(idx[t], n[t])
  /\ UNCHANGED <<npages, oops, mmap_sem, idx, n, next, lost>>

Next ==
  \/ kgpu_mmap
  \/ \E t \in Threads :
       \/ \E m \in Sizes : kgpu_alloc_mmap_area(t, m)
       \/ down_write(t)
       \/ vm_insert_page(t)
       \/ insert_fails(t)
       \/ \E f \in ReleasedBy : look_up(t, f) \/ release(t, f)

Spec == Init /\ [][Next]_vars

-----------------------------------------------------------------------------
\* What thread t has of the area, from its allocation to its release.
Claim(t) == IF pc[t] = "none" THEN {} ELSE Area(idx[t], n[t])

\* No page of the area is in two mappings, nor in a mapping and in a release
\* that has looked up its size and not yet taken vm_lock.
AreasDisjoint ==
  \A t, u \in Threads : t # u => Claim(t) \cap Claim(u) = {}

\* A page of the area is marked exactly if it is some thread's, or was left
\* behind by a map_page_units that failed.
AreaAccounted ==
  npages > 0 /\ ~oops => bitmap = lost \cup UNION { Claim(t) : t \in Threads }

\* No page stays visible to the helper once kgpu_unmap_area has returned,
\* whatever the mappings before it left behind.
NoStaleMapping ==
  pte \subseteq lost \cup left \cup UNION { Claim(t) : t \in Threads }

\* vm_insert_page finds an entry in the way only where kgpu_free_mmap_area has
\* left one: "leave them there until the next mapping" (main.c:442) is the one
\* use of the area that costs a later client its mapping.
NextMappingInserts ==
  \A t \in Threads : pc[t] = "insert" /\ next[t] \in pte => next[t] \in left

(***************************************************************************)
(* The inductive invariant behind them.                                    *)
(***************************************************************************)

\* A thread's area is inside the vma, is recorded in alloc_sz under its first
\* page, and has no page of an area that was lost.
OwnArea(t) ==
  pc[t] # "none" =>
    /\ npages = AreaPages /\ n[t] > 0 /\ alloc_sz[idx[t]] = n[t]
    /\ Claim(t) \subseteq Pages \ lost

\* From the page that map_page_units inserts next on, an entry in its area is
\* one that kgpu_free_mmap_area has left.
Inserted(t) ==
  pc[t] \in {"allocated", "insert"} =>
    /\ next[t] \in Claim(t)
    /\ pc[t] = "allocated" => next[t] = idx[t]
    /\ \A q \in Claim(t) \cap pte : q < next[t] \/ q \in left

MmapInv ==
  /\ TypeOK
  /\ AreasDisjoint
  /\ AreaAccounted
  /\ NoStaleMapping
  /\ \A t \in Threads : OwnArea(t) /\ Inserted(t)

=============================================================================
