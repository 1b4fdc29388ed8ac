--------------------------- MODULE KgpuMmapProofs ---------------------------
(***************************************************************************)
(* For every size of the mmap area, set of threads and of sizes: mappings  *)
(* never share a page, and no page stays visible to the helper that        *)
(* nobody accounts for.  The second half is about the buffers of requests  *)
(* on their way to the GPU.                                                *)
(***************************************************************************)
EXTENDS KgpuMmap, DeviceMemory, TLAPS

\* The areas kgpu_alloc_mmap_area may take are inside the vma and free.
LEMMA AreaFacts ==
  ASSUME TypeOK, NEW m \in Nat \ {0}, NEW i \in ZeroAreas(m)
  PROVE  /\ npages = AreaPages
         /\ i \in Pages
         /\ Area(i, m) \subseteq Pages
         /\ i \in Area(i, m)
         /\ Area(i, m) \cap bitmap = {}
BY MmapAssumption, SMTT(30) DEF TypeOK, ZeroAreas, Area, Pages

\* An area begins with its first page.
LEMMA FirstPage ==
  ASSUME MmapInv, NEW t \in Threads, pc[t] # "none"
  PROVE  /\ idx[t] \in Claim(t)
         /\ Claim(t) = Area(idx[t], n[t])
         /\ idx[t] \in Pages /\ n[t] \in Nat /\ n[t] > 0
<1>1. Claim(t) = Area(idx[t], n[t])
  BY Zenon DEF Claim
<1>2. idx[t] \in Pages /\ n[t] \in Nat /\ n[t] > 0
  BY Zenon DEF MmapInv, TypeOK, OwnArea
<1>3. idx[t] \in Int
  BY <1>2, MmapAssumption, SMTT(30) DEF Pages
<1>4. idx[t] \in Area(idx[t], n[t])
  BY <1>2, <1>3, SMTT(30) DEF Area
<1> QED BY <1>1, <1>2, <1>4, Zenon

\* The area that kgpu_init leaves is empty.
LEMMA InitInv == Init => MmapInv
<1> SUFFICES ASSUME Init PROVE MmapInv
  OBVIOUS
<1>1. TypeOK
  <2>1. oops \in BOOLEAN
    BY Zenon DEF Init
  <2>2. idx \in [Threads -> Pages] /\ alloc_sz \in [Pages -> Nat]
    BY MmapAssumption, SMTT(30) DEF Init, Pages
  <2>3. pc \in [Threads -> PCs]
    BY SMTT(30) DEF Init, PCs
  <2> QED BY <2>1, <2>2, <2>3, SMTT(30) DEF Init, TypeOK
<1>2. \A t \in Threads : pc[t] = "none" /\ Claim(t) = {}
  BY Zenon DEF Init, Claim
<1>3. pte = {} /\ ~(npages > 0)
  BY SMTT(30) DEF Init
<1>4. \A t \in Threads : OwnArea(t) /\ Inserted(t)
  <2>1. "none" \notin {"allocated", "insert"}
    OBVIOUS
  <2> QED BY <1>2, <2>1, Zenon DEF OwnArea, Inserted
<1> QED BY <1>1, <1>2, <1>3, <1>4, Zenon DEF MmapInv, AreasDisjoint, AreaAccounted, NoStaleMapping

\* A helper that maps the device finds nobody in the area.
LEMMA MmapStep == MmapInv /\ kgpu_mmap => MmapInv'
<1> SUFFICES ASSUME MmapInv, kgpu_mmap PROVE MmapInv'
  OBVIOUS
<1>1. /\ UNCHANGED <<mmap_sem, pc, idx, n, next>>
      /\ npages' = AreaPages
      /\ pte' = {} /\ lost' = {} /\ left' = {}
      /\ \A t \in Threads : pc[t] = "none"
  BY Zenon DEF kgpu_mmap
<1>2. \/ bitmap' = {} /\ alloc_sz' = [k \in Pages |-> 0] /\ oops' = oops
      \/ oops' = TRUE /\ bitmap' = bitmap /\ alloc_sz' = alloc_sz
  BY Zenon DEF kgpu_mmap
<1>3. TypeOK'
  <2>1. oops' \in BOOLEAN /\ bitmap' \subseteq Pages
    BY <1>2, Zenon DEF MmapInv, TypeOK
  <2>2. alloc_sz' \in [Pages -> Nat]
    BY <1>2, SMTT(30) DEF MmapInv, TypeOK
  <2> QED BY <1>1, <2>1, <2>2, Zenon DEF MmapInv, TypeOK
<1>4. \A t \in Threads : pc'[t] = "none" /\ Claim(t)' = {}
  BY <1>1, Zenon DEF Claim
<1>5. AreaAccounted'
  <2>1. UNION { Claim(t)' : t \in Threads } = {}
    BY <1>4, Zenon
  <2> QED BY <1>1, <1>2, <2>1, Zenon DEF AreaAccounted
<1>6. \A t \in Threads : OwnArea(t)' /\ Inserted(t)'
  <2>1. "none" \notin {"allocated", "insert"}
    OBVIOUS
  <2> QED BY <1>4, <2>1, Zenon DEF OwnArea, Inserted
<1> QED BY <1>1, <1>3, <1>4, <1>5, <1>6, Zenon DEF MmapInv, AreasDisjoint, NoStaleMapping

\* kgpu_alloc_mmap_area takes pages that nobody has, and that have no entries
\* but those that kgpu_free_mmap_area left.
LEMMA AllocStep ==
  ASSUME MmapInv, NEW t \in Threads, NEW m \in Sizes, kgpu_alloc_mmap_area(t, m)
  PROVE  MmapInv'
<1>1. PICK i \in ZeroAreas(m) :
        /\ bitmap' = bitmap \cup Area(i, m)
        /\ alloc_sz' = [alloc_sz EXCEPT ![i] = m]
        /\ idx' = [idx EXCEPT ![t] = i]
        /\ next' = [next EXCEPT ![t] = i]
  BY Zenon DEF kgpu_alloc_mmap_area
<1>2. /\ ~oops /\ pc[t] = "none"
      /\ n' = [n EXCEPT ![t] = m]
      /\ pc' = [pc EXCEPT ![t] = "allocated"]
      /\ UNCHANGED <<npages, pte, mmap_sem, lost, left, oops>>
  BY Zenon DEF kgpu_alloc_mmap_area
<1>3. TypeOK /\ m \in Nat \ {0}
  BY MmapAssumption, Zenon DEF MmapInv
<1>4. /\ npages = AreaPages
      /\ i \in Pages
      /\ Area(i, m) \subseteq Pages
      /\ i \in Area(i, m)
      /\ Area(i, m) \cap bitmap = {}
  BY <1>3, AreaFacts, Zenon
<1>5. /\ pc'[t] = "allocated" /\ idx'[t] = i /\ n'[t] = m /\ next'[t] = i
      /\ \A u \in Threads \ {t} :
           pc'[u] = pc[u] /\ idx'[u] = idx[u] /\ n'[u] = n[u] /\ next'[u] = next[u]
  BY <1>1, <1>2, <1>3, SMTT(30) DEF TypeOK
<1>6. TypeOK'
  <2>1. /\ alloc_sz' \in [Pages -> Nat] /\ n' \in [Threads -> Nat]
        /\ idx' \in [Threads -> Pages] /\ bitmap' \subseteq Pages
    BY <1>1, <1>2, <1>3, <1>4, SMTT(30) DEF TypeOK
  <2>2. pc' \in [Threads -> PCs]
    BY <1>2, <1>3, SMTT(30) DEF TypeOK, PCs
  <2>3. next' \in [Threads -> Nat]
    BY <1>1, <1>3, <1>4, MmapAssumption, SMTT(30) DEF TypeOK, Pages
  <2> QED BY <1>2, <1>3, <2>1, <2>2, <2>3, Zenon DEF TypeOK
<1>7. Claim(t)' = Area(i, m) /\ Claim(t) = {}
  <2>1. "allocated" # "none"
    OBVIOUS
  <2> QED BY <1>2, <1>5, <2>1, Zenon DEF Claim, Area
<1>8. \A u \in Threads \ {t} : Claim(u)' = Claim(u)
  BY <1>5, Zenon DEF Claim, Area
<1>9. bitmap = lost \cup UNION { Claim(u) : u \in Threads }
  <2>1. npages > 0
    BY <1>4, MmapAssumption, SMTT(30)
  <2> QED BY <1>2, <2>1, Zenon DEF MmapInv, AreaAccounted
<1>10. /\ Area(i, m) \cap lost = {}
       /\ \A u \in Threads : Area(i, m) \cap Claim(u) = {}
  BY <1>4, <1>9, Zenon
<1>11. AreasDisjoint'
  <2> SUFFICES ASSUME NEW u \in Threads, NEW v \in Threads, u # v
               PROVE  Claim(u)' \cap Claim(v)' = {}
    BY Zenon DEF AreasDisjoint
  <2>1. Claim(u) \cap Claim(v) = {}
    BY Zenon DEF MmapInv, AreasDisjoint
  <2> QED BY <1>7, <1>8, <1>10, <2>1, Zenon
<1>12. AreaAccounted'
  <2>1. \A u \in Threads : Claim(u)' = IF u = t THEN Area(i, m) ELSE Claim(u)
    BY <1>7, <1>8, Zenon
  <2>2. UNION { Claim(u)' : u \in Threads } =
          (UNION { Claim(u) : u \in Threads }) \cup Area(i, m)
    BY <1>7, <2>1, SMTT(30)
  <2> QED BY <1>1, <1>2, <1>9, <2>2, Zenon DEF AreaAccounted
<1>13. NoStaleMapping'
  <2> SUFFICES ASSUME NEW q \in pte, q \notin lost, q \notin left
               PROVE  \E u \in Threads : q \in Claim(u)'
    BY <1>2, Zenon DEF NoStaleMapping
  <2>1. PICK u \in Threads : q \in Claim(u)
    BY Zenon DEF MmapInv, NoStaleMapping
  <2> QED BY <2>1, <1>7, <1>8, Zenon
<1>14. ASSUME NEW u \in Threads PROVE OwnArea(u)'
  <2>1. CASE u = t
    <3>1. alloc_sz'[i] = m /\ m > 0
      BY <1>1, <1>3, <1>4, SMTT(30) DEF TypeOK
    <3> QED BY <2>1, <3>1, <1>2, <1>4, <1>5, <1>7, <1>10, Zenon DEF OwnArea
  <2>2. CASE u # t /\ pc[u] # "none"
    <3>1. idx[u] \in Claim(u) /\ OwnArea(u)
      BY <2>2, FirstPage, Zenon DEF MmapInv
    <3>2. idx[u] # i
      BY <3>1, <1>4, <1>10, Zenon
    <3>3. alloc_sz'[idx[u]] = alloc_sz[idx[u]]
      BY <3>2, <1>1, <1>3, SMTT(30) DEF TypeOK
    <3> QED BY <2>2, <3>1, <3>3, <1>2, <1>5, <1>8, Zenon DEF OwnArea
  <2>3. CASE u # t /\ pc[u] = "none"
    BY <2>3, <1>5, Zenon DEF OwnArea
  <2> QED BY <2>1, <2>2, <2>3, Zenon
<1>15. ASSUME NEW u \in Threads PROVE Inserted(u)'
  <2>1. CASE u = t
    <3>1. ASSUME NEW q \in Area(i, m) \cap pte PROVE q \in left
      <4>1. q \notin lost /\ \A v \in Threads : q \notin Claim(v)
        BY <1>10, Zenon
      <4>2. q \in lost \cup left \cup UNION { Claim(v) : v \in Threads }
        BY Zenon DEF MmapInv, NoStaleMapping
      <4> QED BY <4>1, <4>2, Zenon
    <3> QED BY <2>1, <3>1, <1>2, <1>4, <1>5, <1>7, Zenon DEF Inserted
  <2>2. CASE u # t
    BY <2>2, <1>2, <1>5, <1>8, Zenon DEF MmapInv, Inserted
  <2> QED BY <2>1, <2>2, Zenon
<1> QED BY <1>6, <1>11, <1>12, <1>13, <1>14, <1>15, Zenon DEF MmapInv

\* The steps of map_page_units under mmap_sem, and the look at alloc_sz, leave
\* every thread the area it has.
LEMMA SameClaims ==
  ASSUME MmapInv, TypeOK', UNCHANGED <<npages, bitmap, alloc_sz, lost, left, oops>>,
         \A u \in Threads : /\ pc[u] = "none" <=> pc'[u] = "none"
                            /\ idx'[u] = idx[u] /\ n'[u] = n[u],
         pte' \subseteq pte \cup UNION { Claim(u) : u \in Threads },
         \A u \in Threads : Inserted(u)'
  PROVE  MmapInv'
<1>1. \A u \in Threads : Claim(u)' = Claim(u)
  BY Zenon DEF Claim, Area
<1>2. AreasDisjoint'
  BY <1>1, Zenon DEF MmapInv, AreasDisjoint
<1>3. UNION { Claim(u)' : u \in Threads } = UNION { Claim(u) : u \in Threads }
  BY <1>1, SMTT(30)
<1>4. AreaAccounted'
  BY <1>3, Zenon DEF MmapInv, AreaAccounted
<1>5. NoStaleMapping'
  <2>1. pte \subseteq lost \cup left \cup UNION { Claim(u) : u \in Threads }
    BY Zenon DEF MmapInv, NoStaleMapping
  <2> QED BY <1>3, <2>1, Zenon DEF NoStaleMapping
<1>6. ASSUME NEW u \in Threads PROVE OwnArea(u)'
  <2>1. OwnArea(u)
    BY Zenon DEF MmapInv
  <2> QED BY <1>1, <2>1, Zenon DEF OwnArea
<1> QED BY <1>2, <1>4, <1>5, <1>6, Zenon DEF MmapInv

\* down_write
LEMMA SemStep ==
  ASSUME MmapInv, NEW t \in Threads, down_write(t)
  PROVE  MmapInv'
<1>1. /\ pc[t] = "allocated" /\ mmap_sem' = t
      /\ pc' = [pc EXCEPT ![t] = "insert"]
      /\ UNCHANGED <<npages, bitmap, alloc_sz, pte, oops, idx, n, next, lost, left>>
  BY Zenon DEF down_write, vm
<1>2. TypeOK /\ TypeOK'
  BY <1>1, SMTT(30) DEF MmapInv, TypeOK, PCs
<1>3. pc'[t] = "insert" /\ \A u \in Threads \ {t} : pc'[u] = pc[u]
  BY <1>1, <1>2, SMTT(30) DEF TypeOK
<1>4. \A u \in Threads : pc[u] = "none" <=> pc'[u] = "none"
  BY <1>1, <1>3, SMTT(30)
<1>5. ASSUME NEW u \in Threads PROVE Inserted(u)'
  <2>1. Inserted(u)
    BY Zenon DEF MmapInv
  <2>2. Claim(u)' = Claim(u)
    BY <1>1, <1>4, Zenon DEF Claim, Area
  <2>3. pc'[u] \in {"allocated", "insert"} =>
          pc[u] \in {"allocated", "insert"} /\ (pc'[u] = "allocated" => pc[u] = "allocated")
    BY <1>1, <1>3, SMTT(30)
  <2> QED BY <1>1, <2>1, <2>2, <2>3, Zenon DEF Inserted
<1>6. pte' \subseteq pte \cup UNION { Claim(u) : u \in Threads }
  BY <1>1, Zenon
<1> QED BY <1>1, <1>2, <1>4, <1>5, <1>6, SameClaims, Zenon

\* vm_insert_page adds an entry in the thread's own area, and goes on to the
\* next page of it.
LEMMA InsertStep ==
  ASSUME MmapInv, NEW t \in Threads, vm_insert_page(t)
  PROVE  MmapInv'
<1>1. /\ pc[t] = "insert"
      /\ pte' = pte \cup {next[t]}
      /\ next' = [next EXCEPT ![t] = next[t] + 1]
      /\ UNCHANGED <<npages, bitmap, alloc_sz, oops, idx, n, lost, left>>
  BY Zenon DEF vm_insert_page
<1>2. \/ /\ next[t] + 1 = idx[t] + n[t]
         /\ mmap_sem' = NoThread /\ pc' = [pc EXCEPT ![t] = "mapped"]
      \/ next[t] + 1 # idx[t] + n[t] /\ UNCHANGED <<mmap_sem, pc>>
  BY Zenon DEF vm_insert_page
<1>3. TypeOK /\ pc[t] # "none"
  BY <1>1, SMTT(30) DEF MmapInv
<1>4. /\ Claim(t) = Area(idx[t], n[t])
      /\ next[t] \in Claim(t) /\ Claim(t) \subseteq Pages
      /\ \A q \in Claim(t) \cap pte : q < next[t] \/ q \in left
  <2>1. OwnArea(t) /\ Inserted(t)
    BY Zenon DEF MmapInv
  <2> QED BY <1>1, <1>3, <2>1, FirstPage, Zenon DEF OwnArea, Inserted
<1>5. TypeOK'
  <2>1. next' \in [Threads -> Nat] /\ pte' \subseteq Pages
    BY <1>1, <1>3, <1>4, SMTT(30) DEF TypeOK
  <2>2. mmap_sem' \in Threads \cup {NoThread} /\ pc' \in [Threads -> PCs]
    BY <1>2, <1>3, SMTT(30) DEF TypeOK, PCs
  <2> QED BY <1>1, <1>3, <2>1, <2>2, Zenon DEF TypeOK
<1>6. /\ pc'[t] # "none"
      /\ \A u \in Threads \ {t} : pc'[u] = pc[u] /\ next'[u] = next[u]
      /\ next'[t] = next[t] + 1
  BY <1>1, <1>2, <1>3, SMTT(30) DEF TypeOK
<1>7. \A u \in Threads : pc[u] = "none" <=> pc'[u] = "none"
  BY <1>3, <1>6, Zenon
<1>8. \A u \in Threads : Claim(u)' = Claim(u)
  BY <1>1, <1>7, Zenon DEF Claim, Area
<1>9. ASSUME NEW u \in Threads PROVE Inserted(u)'
  <2>1. CASE u # t
    <3>1. next[t] \notin Claim(u)
      BY <2>1, <1>4, Zenon DEF MmapInv, AreasDisjoint
    <3>2. Inserted(u)
      BY Zenon DEF MmapInv
    <3> QED BY <2>1, <3>1, <3>2, <1>1, <1>6, <1>8, Zenon DEF Inserted
  <2>2. CASE u = t
    <3> SUFFICES ASSUME pc'[t] \in {"allocated", "insert"}
                 PROVE  /\ pc'[t] # "allocated"
                        /\ next[t] + 1 \in Claim(t)
                        /\ \A q \in Claim(t) \cap pte' : q < next[t] + 1 \/ q \in left
      BY <2>2, <1>1, <1>6, <1>8, Zenon DEF Inserted
    <3>1. next[t] + 1 # idx[t] + n[t] /\ pc'[t] = "insert"
      BY <1>1, <1>2, <1>3, SMTT(30) DEF TypeOK
    <3>2. idx[t] \in Int /\ n[t] \in Nat /\ next[t] \in Nat
      BY <1>3, MmapAssumption, SMTT(30) DEF TypeOK, Pages
    <3>3. next[t] + 1 \in Claim(t)
      BY <1>4, <3>1, <3>2, SMTT(30) DEF Area
    <3>4. ASSUME NEW q \in Claim(t) \cap pte' PROVE q < next[t] + 1 \/ q \in left
      <4>1. q \in Int
        BY <1>4, MmapAssumption, SMTT(30) DEF Pages
      <4>2. q = next[t] \/ q < next[t] \/ q \in left
        BY <1>1, <1>4, Zenon
      <4> QED BY <3>2, <4>1, <4>2, SMTT(30)
    <3>5. pc'[t] # "allocated"
      BY <3>1, SMTT(30)
    <3> QED BY <3>3, <3>4, <3>5, Zenon
  <2> QED BY <2>1, <2>2, Zenon
<1>10. pte' \subseteq pte \cup UNION { Claim(u) : u \in Threads }
  BY <1>1, <1>4, Zenon
<1> QED BY <1>1, <1>5, <1>7, <1>9, <1>10, SameClaims, Zenon

\* Looking alloc_sz up without the lock gives the size of the area, and no
\* other thread can change it before vm_lock is taken.
LEMMA LookUpStep ==
  ASSUME MmapInv, NEW t \in Threads, NEW f \in ReleasedBy, look_up(t, f)
  PROVE  MmapInv'
<1>1. /\ pc[t] = "mapped"
      /\ UNCHANGED <<npages, bitmap, alloc_sz, pte, oops, mmap_sem, idx, next, lost, left>>
  BY Zenon DEF look_up, vm
<1>2. TypeOK /\ pc[t] # "none" /\ f \in Releases
  BY <1>1, MmapAssumption, SMTT(30) DEF MmapInv
<1>3. /\ npages = AreaPages /\ alloc_sz[idx[t]] = n[t]
      /\ Area(idx[t], n[t]) \subseteq Pages
      /\ idx[t] \in Pages /\ n[t] \in Nat /\ n[t] > 0
  BY <1>2, FirstPage, Zenon DEF MmapInv, OwnArea
<1>4. alloc_sz[idx[t]] \in 1..(npages - idx[t])
  <2>1. idx[t] \in Int /\ AreaPages \in Nat
    BY <1>3, MmapAssumption, SMTT(30) DEF Pages
  <2>2. idx[t] + n[t] - 1 \in Area(idx[t], n[t])
    BY <1>3, <2>1, SMTT(30) DEF Area
  <2> QED BY <1>3, <2>1, <2>2, SMTT(30) DEF Pages
<1>5. n' = [n EXCEPT ![t] = n[t]] /\ pc' = [pc EXCEPT ![t] = f]
  BY <1>3, <1>4, Zenon DEF look_up
<1>6. /\ n' = n /\ pc'[t] = f
      /\ \A u \in Threads \ {t} : pc'[u] = pc[u]
  BY <1>2, <1>5, SMTT(30) DEF TypeOK
<1>7. f # "none" /\ f \notin {"allocated", "insert"} /\ f \in PCs
  BY <1>2, SMTT(30) DEF Releases, PCs
<1>8. TypeOK'
  <2>1. pc' \in [Threads -> PCs]
    BY <1>2, <1>5, <1>7, SMTT(30) DEF TypeOK
  <2> QED BY <1>1, <1>2, <1>6, <2>1, Zenon DEF TypeOK
<1>9. \A u \in Threads : pc[u] = "none" <=> pc'[u] = "none"
  BY <1>2, <1>6, <1>7, Zenon
<1>10. ASSUME NEW u \in Threads PROVE Inserted(u)'
  <2>1. Inserted(u)
    BY Zenon DEF MmapInv
  <2>2. Claim(u)' = Claim(u)
    BY <1>1, <1>6, <1>9, Zenon DEF Claim, Area
  <2> QED BY <1>1, <1>6, <1>7, <2>1, <2>2, Zenon DEF Inserted
<1>11. pte' \subseteq pte \cup UNION { Claim(u) : u \in Threads }
  BY <1>1, Zenon
<1> QED BY <1>1, <1>6, <1>8, <1>9, <1>10, <1>11, SameClaims, Zenon

\* A step that ends a thread's use of its area: what was its own is lost, or
\* is released with the entries zapped or left.
LEMMA EndOfUse ==
  ASSUME MmapInv, TypeOK', NEW t \in Threads, pc[t] # "none", pc'[t] = "none",
         UNCHANGED <<npages, oops, idx, n, next>>,
         \A u \in Threads \ {t} : pc'[u] = pc[u],
         \A k \in Pages \ {idx[t]} : alloc_sz'[k] = alloc_sz[k],
         \/ bitmap' = bitmap /\ lost' = lost \cup Claim(t)
         \/ bitmap' = bitmap \ Claim(t) /\ lost' = lost,
         pte' \subseteq pte,
         lost' \cup left' \cup (pte \ pte') \subseteq lost \cup left \cup Claim(t) \cup pte,
         left \ Claim(t) \subseteq left',
         \A q \in pte' \cap Claim(t) : q \in lost' \cup left'
  PROVE  MmapInv'
<1>1. Claim(t)' = {} /\ \A u \in Threads \ {t} : Claim(u)' = Claim(u)
  BY Zenon DEF Claim, Area
<1>2. \A u \in Threads \ {t} : Claim(u) \cap Claim(t) = {}
  BY Zenon DEF MmapInv, AreasDisjoint
<1>3. AreasDisjoint'
  <2> SUFFICES ASSUME NEW u \in Threads, NEW v \in Threads, u # v
               PROVE  Claim(u)' \cap Claim(v)' = {}
    BY Zenon DEF AreasDisjoint
  <2>1. Claim(u) \cap Claim(v) = {}
    BY Zenon DEF MmapInv, AreasDisjoint
  <2> QED BY <1>1, <2>1, Zenon
<1>4. /\ Claim(t) \cap lost = {}
      /\ \A u \in Threads : pc[u] # "none" => Claim(u) \subseteq Pages \ lost
  BY Zenon DEF MmapInv, OwnArea
<1>5. AreaAccounted'
  <2> SUFFICES ASSUME npages > 0, ~oops
               PROVE  bitmap' = lost' \cup UNION { Claim(u)' : u \in Threads }
    BY Zenon DEF AreaAccounted
  <2>1. bitmap = lost \cup UNION { Claim(u) : u \in Threads }
    BY Zenon DEF MmapInv, AreaAccounted
  <2>2. UNION { Claim(u)' : u \in Threads } =
          (UNION { Claim(u) : u \in Threads }) \ Claim(t)
    BY <1>1, <1>2, SMTT(30)
  <2>3. Claim(t) \subseteq UNION { Claim(u) : u \in Threads }
    BY Zenon
  <2> QED BY <1>4, <2>1, <2>2, <2>3, SMTT(30)
<1>6. NoStaleMapping'
  <2> SUFFICES ASSUME NEW q \in pte', q \notin lost', q \notin left'
               PROVE  \E u \in Threads : q \in Claim(u)'
    BY Zenon DEF NoStaleMapping
  <2>1. q \in pte /\ q \notin Claim(t)
    BY Zenon
  <2>2. q \notin lost /\ q \notin left
    BY <2>1, Zenon
  <2>3. PICK u \in Threads : q \in Claim(u)
    BY <2>1, <2>2, Zenon DEF MmapInv, NoStaleMapping
  <2> QED BY <1>1, <2>1, <2>3, Zenon
<1>7. ASSUME NEW u \in Threads PROVE OwnArea(u)'
  <2> SUFFICES ASSUME pc'[u] # "none" PROVE OwnArea(u)'
    BY Zenon DEF OwnArea
  <2>1. u # t /\ pc[u] # "none" /\ Claim(u)' = Claim(u)
    BY <1>1, Zenon
  <2>2. idx[u] \in Claim(u) /\ idx[t] \in Claim(t) /\ idx[u] \in Pages
    BY <2>1, FirstPage, Zenon
  <2>3. alloc_sz'[idx[u]] = alloc_sz[idx[u]]
    BY <1>2, <2>1, <2>2, Zenon
  <2>4. Claim(u) \subseteq Pages \ lost'
    BY <1>2, <1>4, <2>1, Zenon
  <2>5. OwnArea(u)
    BY Zenon DEF MmapInv
  <2> QED BY <2>1, <2>3, <2>4, <2>5, Zenon DEF OwnArea
<1>8. ASSUME NEW u \in Threads PROVE Inserted(u)'
  <2>1. CASE u = t
    BY <2>1, SMTT(30) DEF Inserted
  <2>2. CASE u # t
    <3>1. Inserted(u) /\ Claim(u)' = Claim(u)
      BY <2>2, <1>1, Zenon DEF MmapInv
    <3>2. \A q \in Claim(u) \cap pte' : q \in pte /\ (q \in left => q \in left')
      BY <2>2, <1>2, Zenon
    <3> QED BY <2>2, <3>1, <3>2, Zenon DEF Inserted
  <2> QED BY <2>1, <2>2, Zenon
<1> QED BY <1>3, <1>5, <1>6, <1>7, <1>8, Zenon DEF MmapInv

\* map_page_units fails: the area is lost, with the entries made so far.
LEMMA FailStep ==
  ASSUME MmapInv, NEW t \in Threads, insert_fails(t)
  PROVE  MmapInv'
<1>1. /\ pc[t] = "insert"
      /\ mmap_sem' = NoThread
      /\ pc' = [pc EXCEPT ![t] = "none"]
      /\ lost' = lost \cup Area(idx[t], n[t])
      /\ UNCHANGED <<npages, bitmap, alloc_sz, pte, oops, idx, n, next, left>>
  BY Zenon DEF insert_fails, vm
<1>2. TypeOK /\ pc[t] # "none"
  BY <1>1, SMTT(30) DEF MmapInv
<1>3. Claim(t) = Area(idx[t], n[t]) /\ Claim(t) \subseteq Pages
  BY <1>2, FirstPage, Zenon DEF MmapInv, OwnArea
<1>4. pc'[t] = "none" /\ \A u \in Threads \ {t} : pc'[u] = pc[u]
  BY <1>1, <1>2, SMTT(30) DEF TypeOK
<1>5. TypeOK'
  <2>1. pc' \in [Threads -> PCs]
    BY <1>1, <1>2, SMTT(30) DEF TypeOK, PCs
  <2> QED BY <1>1, <1>2, <1>3, <2>1, Zenon DEF TypeOK
<1>6. lost' = lost \cup Claim(t)
  BY <1>1, <1>3, Zenon
<1>7. /\ lost' \cup left' \cup (pte \ pte') \subseteq lost \cup left \cup Claim(t) \cup pte
      /\ \A q \in pte' \cap Claim(t) : q \in lost' \cup left'
      /\ left \ Claim(t) \subseteq left'
      /\ pte' \subseteq pte
  BY <1>1, <1>6, Zenon
<1> QED BY <1>1, <1>2, <1>4, <1>5, <1>6, <1>7, EndOfUse, Zenon

\* kgpu_unmap_area and kgpu_free_mmap_area, under vm_lock.
LEMMA ReleaseStep ==
  ASSUME MmapInv, NEW t \in Threads, NEW f \in ReleasedBy, release(t, f)
  PROVE  MmapInv'
<1>1. /\ pc[t] = f
      /\ bitmap' = bitmap \ Area(idx[t], n[t])
      /\ alloc_sz' = [alloc_sz EXCEPT ![idx[t]] = 0]
      /\ pc' = [pc EXCEPT ![t] = "none"]
      /\ UNCHANGED <<npages, oops, mmap_sem, idx, n, next, lost>>
  BY Zenon DEF release
<1>2. \/ pte' = pte \ Area(idx[t], n[t]) /\ left' = left \ Area(idx[t], n[t])
      \/ pte' = pte /\ left' = left \cup Area(idx[t], n[t])
  BY Zenon DEF release
<1>3. TypeOK /\ pc[t] # "none"
  BY <1>1, MmapAssumption, SMTT(30) DEF MmapInv, Releases
<1>4. Claim(t) = Area(idx[t], n[t]) /\ Claim(t) \subseteq Pages
  BY <1>3, FirstPage, Zenon DEF MmapInv, OwnArea
<1>5. pc'[t] = "none" /\ \A u \in Threads \ {t} : pc'[u] = pc[u]
  BY <1>1, <1>3, SMTT(30) DEF TypeOK
<1>6. /\ alloc_sz' \in [Pages -> Nat]
      /\ \A k \in Pages \ {idx[t]} : alloc_sz'[k] = alloc_sz[k]
  BY <1>1, <1>3, SMTT(30) DEF TypeOK
<1>7. TypeOK'
  <2>1. pc' \in [Threads -> PCs]
    BY <1>1, <1>3, SMTT(30) DEF TypeOK, PCs
  <2>2. bitmap' \subseteq Pages /\ pte' \subseteq Pages /\ left' \subseteq Pages
    BY <1>1, <1>2, <1>3, <1>4, Zenon DEF TypeOK
  <2> QED BY <1>1, <1>3, <1>6, <2>1, <2>2, Zenon DEF TypeOK
<1>8. bitmap' = bitmap \ Claim(t) /\ lost' = lost
  BY <1>1, <1>4, Zenon
<1>9. /\ lost' \cup left' \cup (pte \ pte') \subseteq lost \cup left \cup Claim(t) \cup pte
      /\ \A q \in pte' \cap Claim(t) : q \in lost' \cup left'
      /\ left \ Claim(t) \subseteq left'
      /\ pte' \subseteq pte
  BY <1>2, <1>4, <1>8, Zenon
<1> QED BY <1>1, <1>3, <1>5, <1>6, <1>7, <1>8, <1>9, EndOfUse, Zenon

\* Every step keeps the books of the area.
LEMMA NextInv == MmapInv /\ [Next]_vars => MmapInv'
<1> SUFFICES ASSUME MmapInv, [Next]_vars PROVE MmapInv'
  OBVIOUS
<1>1. CASE UNCHANGED vars
  <2>1. /\ UNCHANGED <<npages, bitmap, alloc_sz, pte, oops>>
        /\ UNCHANGED <<mmap_sem, pc, idx, n, next, lost, left>>
    BY <1>1, Zenon DEF vars, vm
  <2>2. TypeOK'
    BY <2>1, Zenon DEF MmapInv, TypeOK
  <2>3. \A u \in Threads : Inserted(u)'
    BY <2>1, Zenon DEF MmapInv, Inserted, Claim, Area
  <2>4. pte' \subseteq pte \cup UNION { Claim(u) : u \in Threads }
    BY <2>1, Zenon
  <2> QED BY <2>1, <2>2, <2>3, <2>4, SameClaims, Zenon
<1>2. CASE Next
  BY <1>2, MmapStep, AllocStep, SemStep, InsertStep, FailStep, LookUpStep, ReleaseStep, Zenon
     DEF Next
<1> QED BY <1>1, <1>2, Zenon

\* The books of the mmap area are kept, for every size of the area, any number
\* of threads and whatever sizes they map, with vm_insert_page failing anywhere
\* and helpers coming and going.
THEOREM AreaInv == Spec => []MmapInv
BY InitInv, NextInv, PTL DEF Spec

\* No page of the area is ever in two mappings, nor in a mapping and in a
\* release that has looked up its size and not yet taken vm_lock.
THEOREM MappingsAreDisjoint == Spec => []AreasDisjoint
<1>1. MmapInv => AreasDisjoint
  BY Zenon DEF MmapInv
<1> QED BY <1>1, AreaInv, PTL

\* A page of the area is marked in the bitmap exactly if it is some thread's, or
\* was left behind by a map_page_units that failed.
THEOREM PagesAreAccounted == Spec => []AreaAccounted
<1>1. MmapInv => AreaAccounted
  BY Zenon DEF MmapInv
<1> QED BY <1>1, AreaInv, PTL

\* Once kgpu_unmap_area has returned, no page stays visible to the helper.
THEOREM NoMappingIsStale == Spec => []NoStaleMapping
<1>1. MmapInv => NoStaleMapping
  BY Zenon DEF MmapInv
<1> QED BY <1>1, AreaInv, PTL

\* vm_insert_page finds an entry in its way only where kgpu_free_mmap_area has
\* left it.
THEOREM MappingsInsert == Spec => []NextMappingInserts
<1>1. MmapInv => NextMappingInserts
  <2> SUFFICES ASSUME MmapInv, NEW t \in Threads, pc[t] = "insert", next[t] \in pte
               PROVE  next[t] \in left
    BY Zenon DEF NextMappingInserts
  <2>1. next[t] \in Claim(t) /\ (next[t] < next[t] \/ next[t] \in left)
    BY Zenon DEF MmapInv, Inserted
  <2>2. next[t] \in Nat
    BY Zenon DEF MmapInv, TypeOK
  <2> QED BY <2>1, <2>2, SMTT(30)
<1> QED BY <1>1, AreaInv, PTL

-----------------------------------------------------------------------------
(***************************************************************************)
(* The buffers of a request, in the pool or in the mmap area, on their way *)
(* to the GPU (DeviceMemory): for every page size and wherever the areas   *)
(* and the buffers are.                                                    *)
(***************************************************************************)
\* Ranges that are not empty, and those that are whole pages.
Ranges == [ad : Nat, sz : Nat \ {0}]
Paged(q) == q.ad % PageSize = 0 /\ q.sz % PageSize = 0

\* The set S is what merging the ranges in T may give.
Merged(T, S) ==
  /\ S \subseteq Ranges
  /\ AllBytes(S) = AllBytes(T)
  /\ \A q, r \in S : q # r => ~Touch(q, r)
  /\ (\A q \in T : Paged(q)) => \A q \in S : Paged(q)

\* Sums and differences of multiples of the page size are multiples.
LEMMA Multiples ==
  ASSUME NEW P \in Nat \ {0}, NEW x \in Nat, NEW y \in Nat, x % P = 0, y % P = 0
  PROVE  /\ (x + y) % P = 0
         /\ x >= y => (x - y) % P = 0
<1>1. \A k \in Nat : (k * P) % P = 0
  BY SMT
<1>2. PICK j \in Nat : x = j * P
  <2>1. x = (x \div P) * P /\ x \div P \in Nat
    BY SMT
  <2> QED BY <2>1, Zenon
<1>3. PICK k \in Nat : y = k * P
  <2>1. y = (y \div P) * P /\ y \div P \in Nat
    BY SMT
  <2> QED BY <2>1, Zenon
<1>4. x + y = (j + k) * P /\ j + k \in Nat
  BY <1>2, <1>3, SMT
<1>5. ASSUME x >= y PROVE x - y = (j - k) * P /\ j - k \in Nat
  <2>1. j >= k
    BY <1>2, <1>3, <1>5, SMT
  <2> QED BY <1>2, <1>3, <2>1, SMT
<1> QED BY <1>1, <1>4, <1>5, Zenon

\* Two ranges that touch have the bytes of their union (__merge_2ranges).
LEMMA UnionFacts ==
  ASSUME PageSize \in Nat \ {0}, NEW a \in Ranges, NEW b \in Ranges, Touch(a, b)
  PROVE  /\ Union(a, b) \in Ranges
         /\ Bytes(Union(a, b)) = Bytes(a) \cup Bytes(b)
         /\ Paged(a) /\ Paged(b) => Paged(Union(a, b))
<1>1. /\ a.ad \in Nat /\ a.sz \in Nat \ {0} /\ b.ad \in Nat /\ b.sz \in Nat \ {0}
  BY SMT DEF Ranges
<1> DEFINE c == IF a.ad < b.ad THEN a.ad ELSE b.ad
           z == IF a.ad + a.sz > b.ad + b.sz THEN a.ad + a.sz ELSE b.ad + b.sz
           d == z - c
<1>2. /\ c \in Nat /\ d \in Nat \ {0} /\ z \in Nat /\ d = z - c
      /\ c = IF a.ad < b.ad THEN a.ad ELSE b.ad
      /\ z = IF a.ad + a.sz > b.ad + b.sz THEN a.ad + a.sz ELSE b.ad + b.sz
  BY <1>1, SMT
<1> HIDE DEF c, z, d
<1>3. Union(a, b) = [ad |-> c, sz |-> d]
  BY <1>1, <1>2, SMT DEF Union, Larger
<1>4. Union(a, b) \in Ranges
  BY <1>2, <1>3, SMT DEF Ranges
<1>5. Bytes(Union(a, b)) = Bytes(a) \cup Bytes(b)
  <2>1. Bytes(Union(a, b)) = c..(c + d - 1)
    BY <1>3, SMT DEF Bytes, Span
  <2>2. Bytes(a) = a.ad..(a.ad + a.sz - 1) /\ Bytes(b) = b.ad..(b.ad + b.sz - 1)
    BY Zenon DEF Bytes, Span
  <2>3. c..(c + d - 1) = (a.ad..(a.ad + a.sz - 1)) \cup (b.ad..(b.ad + b.sz - 1))
    BY <1>1, <1>2, SMT DEF Touch
  <2> QED BY <2>1, <2>2, <2>3, Zenon
<1>6. ASSUME Paged(a), Paged(b) PROVE Paged(Union(a, b))
  <2>1. /\ (a.ad + a.sz) % PageSize = 0 /\ (b.ad + b.sz) % PageSize = 0
        /\ a.ad % PageSize = 0 /\ b.ad % PageSize = 0
    BY <1>1, <1>6, Multiples, SMT DEF Paged
  <2>2. c % PageSize = 0 /\ z % PageSize = 0 /\ z >= c
    BY <1>1, <1>2, <2>1, SMT
  <2>3. (z - c) % PageSize = 0
    BY <1>2, <2>2, Multiples, SMT
  <2>4. Paged([ad |-> c, sz |-> d])
    BY <1>2, <2>2, <2>3, SMT DEF Paged
  <2> QED BY <1>3, <2>4, Zenon
<1> QED BY <1>4, <1>5, <1>6, Zenon

\* __merge_2ranges does not depend on the order of the two.
LEMMA TouchSymmetric ==
  ASSUME NEW a \in Ranges, NEW b \in Ranges
  PROVE  Touch(a, b) <=> Touch(b, a)
<1>1. /\ a.ad \in Nat /\ a.sz \in Nat \ {0} /\ b.ad \in Nat /\ b.sz \in Nat \ {0}
  BY SMT DEF Ranges
<1> QED BY <1>1, SMT DEF Touch

\* Two ranges, merged.
LEMMA Merge2Facts ==
  ASSUME PageSize \in Nat \ {0}, NEW a \in Ranges, NEW b \in Ranges
  PROVE  Merged({a, b}, Range(Merge2(a, b)))
<1>1. CASE Touch(a, b)
  <2> DEFINE u == Union(a, b)
  <2>1. Range(Merge2(a, b)) = {u}
    <3>1. Merge2(a, b) = <<u>>
      BY <1>1, Zenon DEF Merge2
    <3>2. Range(<<u>>) = {u}
      BY SMT DEF Range
    <3> QED BY <3>1, <3>2, Zenon
  <2>2. /\ u \in Ranges /\ Bytes(u) = Bytes(a) \cup Bytes(b)
        /\ Paged(a) /\ Paged(b) => Paged(u)
    BY <1>1, UnionFacts, Zenon
  <2> HIDE DEF u
  <2>3. AllBytes({u}) = AllBytes({a, b})
    BY <2>2, Zenon DEF AllBytes
  <2> QED BY <2>1, <2>2, <2>3, Zenon DEF Merged
<1>2. CASE ~Touch(a, b)
  <2>1. Range(Merge2(a, b)) = {a, b}
    <3>1. Merge2(a, b) = <<a, b>>
      BY <1>2, Zenon DEF Merge2
    <3>2. Range(<<a, b>>) = {a, b}
      BY SMT DEF Range
    <3> QED BY <3>1, <3>2, Zenon
  <2>2. ~Touch(b, a)
    BY <1>2, TouchSymmetric, Zenon
  <2>3. Merged({a, b}, {a, b})
    BY <1>2, <2>2, Zenon DEF Merged
  <2> QED BY <2>1, <2>3, Zenon
<1> QED BY <1>1, <1>2, Zenon

\* Merging a part first and then the rest merges the whole.
LEMMA MergedFirst ==
  ASSUME NEW T, NEW U, NEW S, Merged(U, S), AllBytes(U) = AllBytes(T),
         (\A q \in T : Paged(q)) => \A q \in U : Paged(q)
  PROVE  Merged(T, S)
BY Zenon DEF Merged

\* __merge_ranges leaves out no byte and adds none, and joins all that touch.
LEMMA MergeFacts ==
  ASSUME PageSize \in Nat \ {0}, NEW r \in Seq(Ranges), Len(r) <= 3
  PROVE  Merged(Range(r), Range(MergeRounded(r)))
<1>1. Len(r) \in {0, 1, 2, 3} /\ DOMAIN r = 1..Len(r) /\ Range(r) \subseteq Ranges
  <2>1. Len(r) \in Nat /\ DOMAIN r = 1..Len(r) /\ \A i \in 1..Len(r) : r[i] \in Ranges
    BY SMT
  <2>2. Len(r) \in {0, 1, 2, 3}
    BY <2>1, SMT
  <2> QED BY <2>1, <2>2, Zenon DEF Range
<1>2. CASE Len(r) = 0
  <2>1. MergeRounded(r) = r
    BY <1>2, SMT DEF MergeRounded
  <2>2. Range(r) = {}
    BY <1>1, <1>2, SMT DEF Range
  <2> QED BY <2>1, <2>2, Zenon DEF Merged
<1>3. CASE Len(r) = 1
  <2>1. MergeRounded(r) = r
    BY <1>3, SMT DEF MergeRounded
  <2>2. Range(r) = {r[1]}
    BY <1>1, <1>3, SMT DEF Range
  <2>3. \A q, s \in Range(r) : q = s
    BY <2>2, Zenon
  <2> QED BY <1>1, <2>1, <2>3, Zenon DEF Merged
<1>4. CASE Len(r) = 2
  <2>1. MergeRounded(r) = Merge2(r[1], r[2])
    BY <1>4, SMT DEF MergeRounded
  <2>2. Range(r) = {r[1], r[2]} /\ r[1] \in Ranges /\ r[2] \in Ranges
    BY <1>1, <1>4, SMT DEF Range
  <2>3. Merged({r[1], r[2]}, Range(Merge2(r[1], r[2])))
    BY <2>2, Merge2Facts, Zenon
  <2> QED BY <2>1, <2>2, <2>3, Zenon
<1>5. CASE Len(r) = 3
  <2> DEFINE a == r[1]
             b == r[2]
             c == r[3]
  <2>1. MergeRounded(r) =
          IF Touch(a, b) THEN Merge2(Union(a, b), c)
          ELSE IF Touch(a, c) THEN Merge2(Union(a, c), b)
          ELSE IF Touch(c, b) THEN Merge2(a, Union(c, b))
          ELSE r
    BY <1>5, SMT DEF MergeRounded
  <2>2. Range(r) = {a, b, c} /\ a \in Ranges /\ b \in Ranges /\ c \in Ranges
    BY <1>1, <1>5, SMT DEF Range
  <2> HIDE DEF a, b, c
  <2>3. ASSUME NEW x \in Ranges, NEW y \in Ranges, NEW w \in Ranges, Touch(x, y),
               {a, b, c} = {x, y, w}
        PROVE  /\ Union(x, y) \in Ranges
               /\ AllBytes({Union(x, y), w}) = AllBytes({a, b, c})
               /\ (\A q \in {a, b, c} : Paged(q)) => \A q \in {Union(x, y), w} : Paged(q)
    <3> DEFINE u == Union(x, y)
    <3>1. /\ u \in Ranges /\ Bytes(u) = Bytes(x) \cup Bytes(y)
          /\ Paged(x) /\ Paged(y) => Paged(u)
      BY <2>3, UnionFacts, Zenon
    <3> HIDE DEF u
    <3>2. AllBytes({u, w}) = AllBytes({x, y, w})
      BY <3>1, Zenon DEF AllBytes
    <3>3. (\A q \in {x, y, w} : Paged(q)) => \A q \in {u, w} : Paged(q)
      BY <3>1, Zenon
    <3> QED BY <2>3, <3>1, <3>2, <3>3, Zenon DEF u
  <2>4. CASE Touch(a, b)
    <3>1. Merged({Union(a, b), c}, Range(Merge2(Union(a, b), c)))
      BY <2>2, <2>3, <2>4, Merge2Facts, Zenon
    <3>2. Merged({a, b, c}, Range(Merge2(Union(a, b), c)))
      BY <2>2, <2>3, <2>4, <3>1, MergedFirst, Zenon
    <3> QED BY <2>1, <2>2, <2>4, <3>2, Zenon
  <2>5. CASE ~Touch(a, b) /\ Touch(a, c)
    <3>1. {a, b, c} = {a, c, b}
      BY Zenon
    <3>2. /\ Union(a, c) \in Ranges
          /\ AllBytes({Union(a, c), b}) = AllBytes({a, b, c})
          /\ (\A q \in {a, b, c} : Paged(q)) => \A q \in {Union(a, c), b} : Paged(q)
      BY <2>2, <2>3, <2>5, <3>1, Zenon
    <3>3. Merged({Union(a, c), b}, Range(Merge2(Union(a, c), b)))
      BY <2>2, <3>2, Merge2Facts, Zenon
    <3>4. Merged({a, b, c}, Range(Merge2(Union(a, c), b)))
      BY <3>2, <3>3, MergedFirst, Zenon
    <3> QED BY <2>1, <2>2, <2>5, <3>4, Zenon
  <2>6. CASE ~Touch(a, b) /\ ~Touch(a, c) /\ Touch(c, b)
    <3>1. {a, b, c} = {c, b, a}
      BY Zenon
    <3>2. /\ Union(c, b) \in Ranges
          /\ AllBytes({a, Union(c, b)}) = AllBytes({a, b, c})
          /\ (\A q \in {a, b, c} : Paged(q)) => \A q \in {a, Union(c, b)} : Paged(q)
      <4>1. {a, Union(c, b)} = {Union(c, b), a}
        BY Zenon
      <4>2. /\ Union(c, b) \in Ranges
            /\ AllBytes({Union(c, b), a}) = AllBytes({a, b, c})
            /\ (\A q \in {a, b, c} : Paged(q)) => \A q \in {Union(c, b), a} : Paged(q)
        BY <2>2, <2>3, <2>6, <3>1, Zenon
      <4> QED BY <4>1, <4>2, Zenon
    <3>3. Merged({a, Union(c, b)}, Range(Merge2(a, Union(c, b))))
      BY <2>2, <3>2, Merge2Facts, Zenon
    <3>4. Merged({a, b, c}, Range(Merge2(a, Union(c, b))))
      BY <3>2, <3>3, MergedFirst, Zenon
    <3> QED BY <2>1, <2>2, <2>6, <3>4, Zenon
  <2>7. CASE ~Touch(a, b) /\ ~Touch(a, c) /\ ~Touch(c, b)
    <3>1. ~Touch(b, a) /\ ~Touch(c, a) /\ ~Touch(b, c)
      BY <2>2, <2>7, TouchSymmetric, Zenon
    <3>2. MergeRounded(r) = r
      BY <2>1, <2>7, Zenon
    <3>3. \A q, s \in {a, b, c} : q # s => ~Touch(q, s)
      BY <2>7, <3>1, Zenon
    <3>4. \A q, s \in Range(r) : q # s => ~Touch(q, s)
      BY <2>2, <3>3, Zenon
    <3> QED BY <1>1, <3>2, <3>4, Zenon DEF Merged
  <2> QED BY <2>4, <2>5, <2>6, <2>7, Zenon
<1> QED BY <1>1, <1>2, <1>3, <1>4, <1>5, Zenon

-----------------------------------------------------------------------------
\* A buffer as __round_ranges registers it.
Rounded(b) == [ad |-> round_down(b.ad), sz |-> round_up(b.sz)]

\* Rounding gives whole pages, inside an area of whole pages; what begins with a
\* page is covered.
LEMMA RoundFacts ==
  ASSUME PageSize \in Nat \ {0}, NEW b \in Ranges
  PROVE  /\ Rounded(b) \in Ranges /\ Paged(Rounded(b))
         /\ b.ad % PageSize = 0 => Bytes(b) \subseteq Bytes(Rounded(b))
<1> DEFINE j == b.ad \div PageSize
           k == (b.sz + PageSize - 1) \div PageSize
<1>1. b.ad \in Nat /\ b.sz \in Nat \ {0}
  BY SMT DEF Ranges
<1>2. j \in Nat /\ k \in Nat /\ b.sz <= k * PageSize
  <2>1. b.sz + PageSize - 1 \in Nat
    BY <1>1, SMT
  <2> QED BY <1>1, <2>1, SMT
<1>3. b.ad % PageSize = 0 => b.ad = j * PageSize
  BY <1>1, SMT
<1>4. Rounded(b) = [ad |-> j * PageSize, sz |-> k * PageSize]
  BY Zenon DEF Rounded, round_down, round_up
<1> HIDE DEF j, k
<1>5. /\ j * PageSize \in Nat /\ k * PageSize \in Nat \ {0}
      /\ (j * PageSize) % PageSize = 0 /\ (k * PageSize) % PageSize = 0
  <2>1. \A x \in Nat : x * PageSize \in Nat /\ (x * PageSize) % PageSize = 0
    BY SMT
  <2>2. k * PageSize # 0
    BY <1>1, <1>2, SMT
  <2> QED BY <1>2, <2>1, <2>2, Zenon
<1>6. Rounded(b) \in Ranges /\ Paged(Rounded(b))
  BY <1>4, <1>5, SMT DEF Ranges, Paged
<1>7. ASSUME b.ad % PageSize = 0 PROVE Bytes(b) \subseteq Bytes(Rounded(b))
  <2>1. Bytes(Rounded(b)) = (j * PageSize)..(j * PageSize + k * PageSize - 1)
    BY <1>4, SMT DEF Bytes, Span
  <2>2. Bytes(b) = (j * PageSize)..(j * PageSize + b.sz - 1)
    BY <1>3, <1>7, Zenon DEF Bytes, Span
  <2>3. (j * PageSize)..(j * PageSize + b.sz - 1) \subseteq
          (j * PageSize)..(j * PageSize + k * PageSize - 1)
    BY <1>1, <1>2, <1>5, SMT
  <2> QED BY <2>1, <2>2, <2>3, Zenon
<1> QED BY <1>6, <1>7, Zenon

\* A rounded buffer stays in an area of whole pages.
LEMMA RoundInside ==
  ASSUME PageSize \in Nat \ {0}, NEW base \in Nat, NEW size \in Nat,
         base % PageSize = 0, size % PageSize = 0,
         NEW b \in Ranges, base <= b.ad, b.ad + b.sz <= base + size
  PROVE  Bytes(Rounded(b)) \subseteq Span(base, size)
<1> DEFINE j == b.ad \div PageSize
           k == (b.sz + PageSize - 1) \div PageSize
           c == base \div PageSize
           d == size \div PageSize
<1>1. b.ad \in Nat /\ b.sz \in Nat \ {0}
  BY SMT DEF Ranges
<1>2. /\ j \in Nat /\ k \in Nat /\ c \in Nat /\ d \in Nat
      /\ j * PageSize <= b.ad /\ b.ad < j * PageSize + PageSize
      /\ k * PageSize <= b.sz + PageSize - 1
  <2>1. b.sz + PageSize - 1 \in Nat
    BY <1>1, SMT
  <2>2. \A x \in Nat : /\ x \div PageSize \in Nat /\ (x \div PageSize) * PageSize <= x
                       /\ x < (x \div PageSize) * PageSize + PageSize
    BY SMT
  <2> QED BY <1>1, <2>1, <2>2, Zenon
<1>3. base = c * PageSize /\ size = d * PageSize
  BY SMT
<1>4. Rounded(b) = [ad |-> j * PageSize, sz |-> k * PageSize]
  BY Zenon DEF Rounded, round_down, round_up
<1> HIDE DEF j, k, c, d
<1>5. c * PageSize < (j + 1) * PageSize
  BY <1>1, <1>2, <1>3, SMT
<1>6. c <= j
  BY <1>2, <1>5, SMT
<1>7. (j + k) * PageSize < (c + d + 1) * PageSize
  BY <1>1, <1>2, <1>3, SMT
<1>8. j + k <= c + d
  BY <1>2, <1>7, SMT
<1>9. /\ c * PageSize <= j * PageSize
      /\ j * PageSize + k * PageSize <= c * PageSize + d * PageSize
  BY <1>2, <1>6, <1>8, SMT
<1>10. Bytes(Rounded(b)) = (j * PageSize)..(j * PageSize + k * PageSize - 1)
  BY <1>4, SMT DEF Bytes, Span
<1>11. (j * PageSize)..(j * PageSize + k * PageSize - 1) \subseteq base..(base + size - 1)
  BY <1>2, <1>3, <1>9, SMT
<1> QED BY <1>10, <1>11, Zenon DEF Span

-----------------------------------------------------------------------------
Pooled(f) == req[f] \in Pool
InMap(f)  == req[f] \in Mapped
Absent(f) == req[f] = NoBuffer

\* What fill_ku_request makes of the request.
HostOf == [f \in Fields |->
             [req[f] EXCEPT !.ad = IF ADDR_WITHIN(@, kva, PoolSize)
                                   THEN ADDR_REBASE(uva, kva, @) ELSE @]]

\* What gpu_alloc_device_mem has registered.
Pinned == { f \in Fields : Pins(f) }
Registered == Range(merge_ranges(Collect(Pinned)))

\* At each step the earlier ones have left what they compute.
MemoryInv ==
  /\ req = [f \in Fields |-> req[f]]
  /\ \A f \in Fields : Pooled(f) \/ InMap(f) \/ (f = "data" /\ Absent(f))
  /\ mpc \in {"kernel", "read", "pinned", "freed"}
  /\ mpc # "kernel" => host = HostOf
  /\ mpc = "pinned" => dev = [f \in Fields |-> DeviceAddress(f)] /\ pinned = Registered
  /\ mpc # "pinned" => pinned = {}

\* The assumption, in terms of numbers.
LEMMA AreasApart ==
  /\ PageSize \in Nat \ {0} /\ PoolSize \in Nat \ {0} /\ VmaSize \in Nat \ {0}
  /\ kva \in Nat \ {0} /\ uva \in Nat \ {0} /\ vma \in Nat \ {0}
  /\ devbuf \in Nat \ {0} /\ devbuf4vma \in Nat \ {0}
  /\ kva + PoolSize <= vma \/ vma + VmaSize <= kva
  /\ uva + PoolSize <= vma \/ vma + VmaSize <= uva
  /\ devbuf + PoolSize <= devbuf4vma \/ devbuf4vma + VmaSize <= devbuf
<1>1. /\ PageSize \in Nat \ {0} /\ PoolSize \in Nat \ {0} /\ VmaSize \in Nat \ {0}
      /\ kva \in Nat \ {0} /\ uva \in Nat \ {0} /\ vma \in Nat \ {0}
      /\ devbuf \in Nat \ {0} /\ devbuf4vma \in Nat \ {0}
  BY MemoryAssumption, Zenon
<1>2. ASSUME NEW x \in Nat, NEW y \in Nat, NEW j \in Nat \ {0}, NEW k \in Nat \ {0},
             Span(x, j) \cap Span(y, k) = {}
      PROVE  x + j <= y \/ y + k <= x
  <2>1. \A z \in Int : ~(z >= x /\ z <= x + j - 1 /\ z >= y /\ z <= y + k - 1)
    BY <1>2, SMT DEF Span
  <2>2. ~(x >= y /\ x <= y + k - 1) /\ ~(y >= x /\ y <= x + j - 1)
    BY <2>1, SMT
  <2> QED BY <2>2, SMT
<1>3. /\ Span(kva, PoolSize) \cap Span(vma, VmaSize) = {}
      /\ Span(uva, PoolSize) \cap Span(vma, VmaSize) = {}
      /\ Span(devbuf, PoolSize) \cap Span(devbuf4vma, VmaSize) = {}
  BY MemoryAssumption, Zenon
<1> QED BY <1>1, <1>2, <1>3, Zenon

\* Buffers are inside the pool or the mmap area.
LEMMA BufferFacts ==
  /\ \A b \in Pool : b \in Ranges /\ kva <= b.ad /\ b.ad + b.sz <= kva + PoolSize
  /\ \A b \in Mapped : b \in Ranges /\ vma <= b.ad /\ b.ad + b.sz <= vma + VmaSize
  /\ NoBuffer.ad = 0 /\ NoBuffer.sz = 0
<1>1. Lengths \subseteq Nat \ {0} /\ \A o \in PoolOffsets \cup Offsets : o \in Nat
  BY MemoryAssumption, Zenon
<1>2. kva \in Nat /\ vma \in Nat
  BY AreasApart, SMT
<1>3. ASSUME NEW b \in Pool PROVE b \in Ranges /\ kva <= b.ad /\ b.ad + b.sz <= kva + PoolSize
  <2>1. PICK o \in PoolOffsets, l \in Lengths : b = [ad |-> kva + o, sz |-> l]
    <3> DEFINE A == { kva + o : o \in PoolOffsets }
    <3>1. b \in [ad : A, sz : Lengths]
      BY Zenon DEF Pool
    <3> HIDE DEF A
    <3>2. b.ad \in A /\ b.sz \in Lengths /\ b = [ad |-> b.ad, sz |-> b.sz]
      BY <3>1, SMT
    <3> QED BY <3>2, Zenon DEF A
  <2>2. o \in Nat /\ l \in Nat \ {0}
    BY <1>1, Zenon
  <2>3. b.ad + b.sz <= kva + PoolSize
    BY Zenon DEF Pool
  <2> QED BY <1>2, <2>1, <2>2, <2>3, SMT DEF Ranges
<1>4. ASSUME NEW b \in Mapped PROVE b \in Ranges /\ vma <= b.ad /\ b.ad + b.sz <= vma + VmaSize
  <2>1. PICK o \in Offsets, l \in Lengths : b = [ad |-> vma + o, sz |-> l]
    <3> DEFINE A == { vma + o : o \in Offsets }
    <3>1. b \in [ad : A, sz : Lengths]
      BY Zenon DEF Mapped
    <3> HIDE DEF A
    <3>2. b.ad \in A /\ b.sz \in Lengths /\ b = [ad |-> b.ad, sz |-> b.sz]
      BY <3>1, SMT
    <3> QED BY <3>2, Zenon DEF A
  <2>2. o \in Nat /\ l \in Nat \ {0}
    BY <1>1, Zenon
  <2>3. b.ad + b.sz <= vma + VmaSize
    BY Zenon DEF Mapped
  <2> QED BY <1>2, <2>1, <2>2, <2>3, SMT DEF Ranges
<1> QED BY <1>3, <1>4, SMT DEF NoBuffer

\* Where the buffers of a request are for the helper and on the GPU, and which of
\* them are registered.
LEMMA FieldFacts ==
  ASSUME MemoryInv, mpc # "kernel", NEW f \in Fields
  PROVE  /\ Pooled(f) => /\ InPool(f) /\ ~InVma(f) /\ ~Pins(f)
                         /\ DeviceAddress(f) = devbuf + (req[f].ad - kva)
         /\ InMap(f) => /\ InVma(f) /\ ~InPool(f) /\ Pins(f) /\ host[f] = req[f]
                        /\ DeviceAddress(f) = devbuf4vma + (req[f].ad - vma)
         /\ Absent(f) => ~InPool(f) /\ ~InVma(f)
<1>1. host[f] = [req[f] EXCEPT !.ad = IF ADDR_WITHIN(@, kva, PoolSize)
                                      THEN ADDR_REBASE(uva, kva, @) ELSE @]
  BY Zenon DEF MemoryInv, HostOf
<1>2. /\ PoolSize \in Nat \ {0} /\ VmaSize \in Nat \ {0}
      /\ kva \in Nat \ {0} /\ uva \in Nat \ {0} /\ vma \in Nat \ {0}
      /\ devbuf \in Nat \ {0} /\ devbuf4vma \in Nat \ {0}
      /\ kva + PoolSize <= vma \/ vma + VmaSize <= kva
      /\ uva + PoolSize <= vma \/ vma + VmaSize <= uva
  BY AreasApart, Zenon
<1>3. ASSUME Pooled(f)
      PROVE  /\ InPool(f) /\ ~InVma(f) /\ ~Pins(f)
             /\ DeviceAddress(f) = devbuf + (req[f].ad - kva)
  <2>1. /\ req[f] \in Ranges /\ kva <= req[f].ad /\ req[f].ad + req[f].sz <= kva + PoolSize
    BY <1>3, BufferFacts, Zenon DEF Pooled
  <2>2. req[f].ad \in Nat /\ req[f].sz \in Nat \ {0} /\ req[f] = [ad |-> req[f].ad, sz |-> req[f].sz]
    BY <2>1, SMT DEF Ranges
  <2>3. host[f].ad = uva + (req[f].ad - kva)
    BY <1>1, <1>2, <2>1, <2>2, SMT DEF ADDR_WITHIN, ADDR_REBASE
  <2>4. InPool(f) /\ ~InVma(f)
    BY <1>2, <2>1, <2>2, <2>3, SMT DEF InPool, InVma, ADDR_WITHIN
  <2>5. ~Pins(f)
    BY <2>4, Zenon DEF Pins
  <2>6. DeviceAddress(f) = devbuf + (host[f].ad - uva)
    BY <2>4, Zenon DEF DeviceAddress, ADDR_REBASE
  <2>7. DeviceAddress(f) = devbuf + (req[f].ad - kva)
    BY <1>2, <2>2, <2>3, <2>6, SMT
  <2> QED BY <2>4, <2>5, <2>7, Zenon
<1>4. ASSUME InMap(f)
      PROVE  /\ InVma(f) /\ ~InPool(f) /\ Pins(f) /\ host[f] = req[f]
             /\ DeviceAddress(f) = devbuf4vma + (req[f].ad - vma)
  <2>1. /\ req[f] \in Ranges /\ vma <= req[f].ad /\ req[f].ad + req[f].sz <= vma + VmaSize
    BY <1>4, BufferFacts, Zenon DEF InMap
  <2>2. req[f].ad \in Nat /\ req[f].sz \in Nat \ {0} /\ req[f] = [ad |-> req[f].ad, sz |-> req[f].sz]
    BY <2>1, SMT DEF Ranges
  <2>3. ~ADDR_WITHIN(req[f].ad, kva, PoolSize)
    BY <1>2, <2>1, <2>2, SMT DEF ADDR_WITHIN
  <2>4. host[f] = req[f]
    BY <1>1, <2>2, <2>3, SMT
  <2>5. ~InPool(f) /\ InVma(f)
    BY <1>2, <2>1, <2>2, <2>4, SMT DEF InPool, InVma, ADDR_WITHIN
  <2>6. Pins(f)
    BY <2>5, Zenon DEF Pins
  <2>7. DeviceAddress(f) = devbuf4vma + (req[f].ad - vma)
    BY <2>4, <2>5, <2>6, Zenon DEF DeviceAddress, ADDR_REBASE
  <2> QED BY <2>4, <2>5, <2>6, <2>7, Zenon
<1>5. ASSUME Absent(f) PROVE ~InPool(f) /\ ~InVma(f)
  <2>1. req[f] = [ad |-> 0, sz |-> 0]
    BY <1>5, Zenon DEF Absent, NoBuffer
  <2>2. host[f].ad = 0
    BY <1>1, <1>2, <2>1, SMT DEF ADDR_WITHIN
  <2> QED BY <1>2, <2>2, SMT DEF InPool, InVma, ADDR_WITHIN
<1> QED BY <1>3, <1>4, <1>5, Zenon

\* Registered are the buffers in the mmap area, and gpu_free_device_mem finds the
\* same.
LEMMA PinnedFields ==
  ASSUME MemoryInv, mpc # "kernel"
  PROVE  Pinned = { f \in Fields : InMap(f) } /\ ToUnpin = Pinned
<1>1. ASSUME NEW f \in Fields PROVE (Pins(f) <=> InMap(f)) /\ (InVma(f) <=> InMap(f))
  <2>1. Pooled(f) \/ InMap(f) \/ (f = "data" /\ Absent(f))
    BY Zenon DEF MemoryInv
  <2>2. CASE Pooled(f)
    BY <2>2, FieldFacts, Zenon
  <2>3. CASE InMap(f)
    BY <2>3, FieldFacts, Zenon
  <2>4. CASE f = "data" /\ Absent(f)
    <3>1. ~InPool(f) /\ ~InVma(f)
      BY <2>4, FieldFacts, Zenon
    <3>2. ~Pins(f)
      BY <2>4, <3>1, Zenon DEF Pins
    <3> QED BY <3>1, <3>2, FieldFacts, Zenon
  <2> QED BY <2>1, <2>2, <2>3, <2>4, Zenon
<1>2. Pinned = { f \in Fields : InMap(f) }
  BY <1>1, Zenon DEF Pinned
<1>3. ToUnpin = { f \in Fields : InMap(f) }
  BY <1>1, Zenon DEF ToUnpin
<1> QED BY <1>2, <1>3, Zenon

\* One sequence after another has the entries of both.
LEMMA ConcatRange ==
  ASSUME NEW S, NEW s \in Seq(S), NEW t \in Seq(S)
  PROVE  /\ s \o t \in Seq(S) /\ Len(s \o t) = Len(s) + Len(t)
         /\ Range(s \o t) = Range(s) \cup Range(t)
<1> DEFINE u == s \o t
<1>1. /\ Len(s) \in Nat /\ Len(t) \in Nat /\ DOMAIN s = 1..Len(s) /\ DOMAIN t = 1..Len(t)
      /\ u \in Seq(S) /\ Len(u) = Len(s) + Len(t) /\ DOMAIN u = 1..(Len(s) + Len(t))
      /\ \A i \in 1..(Len(s) + Len(t)) : u[i] = IF i <= Len(s) THEN s[i] ELSE t[i - Len(s)]
  BY SMT
<1> HIDE DEF u
<1>2. \A i \in DOMAIN s : i \in DOMAIN u /\ u[i] = s[i]
  BY <1>1, SMT
<1>3. \A i \in DOMAIN t : Len(s) + i \in DOMAIN u /\ u[Len(s) + i] = t[i]
  BY <1>1, SMT
<1>4. \A i \in DOMAIN u : (i \in DOMAIN s /\ u[i] = s[i]) \/
                          (i - Len(s) \in DOMAIN t /\ u[i] = t[i - Len(s)])
  BY <1>1, SMT
<1>5. Range(u) = Range(s) \cup Range(t)
  <2>1. Range(s) \subseteq Range(u)
    BY <1>2, Zenon DEF Range
  <2>2. Range(t) \subseteq Range(u)
    BY <1>3, Zenon DEF Range
  <2>3. Range(u) \subseteq Range(s) \cup Range(t)
    BY <1>4, Zenon DEF Range
  <2> QED BY <2>1, <2>2, <2>3, Zenon
<1> QED BY <1>1, <1>5, Zenon DEF u

\* The ranges that are merged are the rounded buffers in the mmap area.
LEMMA CollectFacts ==
  ASSUME NEW F \in SUBSET Fields, \A f \in F : host[f] \in Ranges
  PROVE  /\ Collect(F) \in Seq(Ranges) /\ Len(Collect(F)) <= 3
         /\ Range(Collect(F)) = { host[f] : f \in F }
<1> DEFINE in == IF "in" \in F THEN <<host["in"]>> ELSE <<>>
           out == IF "out" \in F THEN <<host["out"]>> ELSE <<>>
           data == IF "data" \in F THEN <<host["data"]>> ELSE <<>>
<1>1. Collect(F) = in \o out \o data
  BY Zenon DEF Collect
<1>2. /\ in \in Seq(Ranges) /\ out \in Seq(Ranges) /\ data \in Seq(Ranges)
      /\ Len(in) <= 1 /\ Len(out) <= 1 /\ Len(data) <= 1
  BY SMT
<1>3. /\ Range(in) = { host[f] : f \in F \cap {"in"} }
      /\ Range(out) = { host[f] : f \in F \cap {"out"} }
      /\ Range(data) = { host[f] : f \in F \cap {"data"} }
  BY SMT DEF Range
<1> HIDE DEF in, out, data
<1>4. /\ in \o out \in Seq(Ranges) /\ Len(in \o out) = Len(in) + Len(out)
      /\ Range(in \o out) = Range(in) \cup Range(out)
  BY <1>2, ConcatRange, SMT
<1>5. /\ Collect(F) \in Seq(Ranges)
      /\ Len(Collect(F)) = Len(in) + Len(out) + Len(data)
      /\ Range(Collect(F)) = Range(in) \cup Range(out) \cup Range(data)
  <2> DEFINE io == in \o out
  <2>1. io \in Seq(Ranges) /\ Collect(F) = io \o data
    BY <1>1, <1>4, Zenon
  <2> HIDE DEF io
  <2>2. /\ io \o data \in Seq(Ranges) /\ Len(io \o data) = Len(io) + Len(data)
        /\ Range(io \o data) = Range(io) \cup Range(data)
    BY <1>2, <2>1, ConcatRange, SMT
  <2> QED BY <1>4, <2>1, <2>2, Zenon DEF io
<1>6. Len(Collect(F)) <= 3
  BY <1>2, <1>5, SMT
<1>7. F = (F \cap {"in"}) \cup (F \cap {"out"}) \cup (F \cap {"data"})
  BY Zenon DEF Fields
<1>8. Range(Collect(F)) = { host[f] : f \in F }
  BY <1>3, <1>5, <1>7, Zenon
<1> QED BY <1>5, <1>6, <1>8, Zenon

\* Rounding a sequence of ranges rounds each of them.
LEMMA RoundSeq ==
  ASSUME PageSize \in Nat \ {0}, NEW r \in Seq(Ranges)
  PROVE  /\ Round(r) \in Seq(Ranges) /\ Len(Round(r)) = Len(r)
         /\ Range(Round(r)) = { Rounded(q) : q \in Range(r) }
<1>1. Round(r) = [i \in DOMAIN r |-> Rounded(r[i])]
  BY Zenon DEF Round, Rounded
<1>2. Len(r) \in Nat /\ DOMAIN r = 1..Len(r) /\ \A i \in DOMAIN r : r[i] \in Ranges
  BY SMT
<1>3. \A i \in DOMAIN r : Rounded(r[i]) \in Ranges
  BY <1>2, RoundFacts, Zenon
<1>4. Round(r) \in [1..Len(r) -> Ranges]
  BY <1>1, <1>2, <1>3, Zenon
<1>5. Round(r) \in Seq(Ranges) /\ Len(Round(r)) = Len(r)
  BY <1>2, <1>4, SMT
<1>6. Range(Round(r)) = { Rounded(q) : q \in Range(r) }
  BY <1>1, Zenon DEF Range
<1> QED BY <1>5, <1>6, Zenon

\* What is registered is what merging the rounded buffers in the area may give.
LEMMA RegisteredFacts ==
  ASSUME MemoryInv, mpc # "kernel"
  PROVE  /\ Range(Round(Collect(Pinned))) = { Rounded(req[f]) : f \in Pinned }
         /\ Merged({ Rounded(req[f]) : f \in Pinned }, Registered)
<1>1. PageSize \in Nat \ {0}
  BY AreasApart, Zenon
<1>2. Pinned \in SUBSET Fields /\ \A f \in Pinned : host[f] = req[f] /\ req[f] \in Ranges
  BY PinnedFields, FieldFacts, BufferFacts, Zenon DEF InMap
<1> DEFINE c == Collect(Pinned)
           r == Round(c)
<1>3. c \in Seq(Ranges) /\ Len(c) <= 3 /\ Range(c) = { host[f] : f \in Pinned }
  BY <1>2, CollectFacts, Zenon
<1>4. Registered = Range(MergeRounded(r))
  BY Zenon DEF Registered, merge_ranges
<1> HIDE DEF c
<1>5. r \in Seq(Ranges) /\ Len(r) = Len(c) /\ Range(r) = { Rounded(q) : q \in Range(c) }
  BY <1>1, <1>3, RoundSeq, Zenon
<1> HIDE DEF r
<1>6. Range(r) = { Rounded(req[f]) : f \in Pinned }
  <2>1. Range(r) = { Rounded(host[f]) : f \in Pinned }
    BY <1>3, <1>5, Zenon
  <2> QED BY <1>2, <2>1, Zenon
<1>7. Len(r) <= 3
  BY <1>3, <1>5, Zenon
<1>8. Merged(Range(r), Range(MergeRounded(r)))
  BY <1>1, <1>5, <1>7, MergeFacts, Zenon
<1>9. Merged({ Rounded(req[f]) : f \in Pinned }, Registered)
  BY <1>4, <1>6, <1>8, Zenon
<1> QED BY <1>6, <1>9, Zenon DEF r, c

\* A request comes with buffers and nothing is registered for it.
LEMMA MemoryStarts ==
  ASSUME MemoryInit PROVE MemoryInv
<1>1. /\ req \in [Fields -> Pool \cup Mapped \cup {NoBuffer}]
      /\ req["in"] # NoBuffer /\ req["out"] # NoBuffer
      /\ pinned = {} /\ mpc = "kernel"
  BY Zenon DEF MemoryInit
<1>2. \A f \in Fields : f = "in" \/ f = "out" \/ f = "data"
  BY Zenon DEF Fields
<1>3. \A f \in Fields : Pooled(f) \/ InMap(f) \/ (f = "data" /\ Absent(f))
  BY <1>1, <1>2, Zenon DEF Pooled, InMap, Absent
<1>4. req = [f \in Fields |-> req[f]]
  BY <1>1, Zenon
<1> QED BY <1>1, <1>3, <1>4, Zenon DEF MemoryInv

\* Each of the three steps leaves what it computes.
LEMMA MemoryKeeps ==
  ASSUME MemoryInv, [MemoryNext]_mvars
  PROVE  MemoryInv'
<1>1. ASSUME req' = req
      PROVE  /\ req' = [f \in Fields |-> req'[f]]
             /\ \A f \in Fields : Pooled(f)' \/ InMap(f)' \/ (f = "data" /\ Absent(f)')
             /\ HostOf' = HostOf
  <2>1. \A f : (Pooled(f)' <=> Pooled(f)) /\ (InMap(f)' <=> InMap(f)) /\ (Absent(f)' <=> Absent(f))
    BY <1>1, Zenon DEF Pooled, InMap, Absent
  <2>2. HostOf' = HostOf
    BY <1>1, Zenon DEF HostOf
  <2> QED BY <1>1, <2>1, <2>2, Zenon DEF MemoryInv
<1>2. ASSUME host' = host
      PROVE  Registered' = Registered /\ \A f : DeviceAddress(f)' = DeviceAddress(f)
  <2>1. \A f : /\ InPool(f)' <=> InPool(f)
               /\ InVma(f)' <=> InVma(f)
    BY <1>2, Zenon DEF InPool, InVma
  <2>2. \A f : Pins(f)' <=> Pins(f)
    BY <2>1, Zenon DEF Pins
  <2>3. Pinned' = Pinned
    BY <2>2, Zenon DEF Pinned
  <2>4. Collect(Pinned)' = Collect(Pinned)
    BY <1>2, <2>3, Zenon DEF Collect
  <2>5. Registered' = Registered
    BY <2>4, Zenon DEF Registered
  <2>6. \A f : DeviceAddress(f)' = DeviceAddress(f)
    BY <1>2, <2>1, <2>2, Zenon DEF DeviceAddress
  <2> QED BY <2>5, <2>6, Zenon
<1>3. CASE fill_ku_request
  <2>1. mpc = "kernel" /\ host' = HostOf /\ mpc' = "read" /\ req' = req /\ pinned' = pinned
    BY <1>3, Zenon DEF fill_ku_request, HostOf
  <2> QED BY <1>1, <2>1, Zenon DEF MemoryInv
<1>4. CASE gpu_alloc_device_mem
  <2>1. /\ mpc = "read" /\ dev' = [f \in Fields |-> DeviceAddress(f)]
        /\ pinned' = Registered /\ mpc' = "pinned" /\ req' = req /\ host' = host
    BY <1>4, Zenon DEF gpu_alloc_device_mem, Registered, Pinned
  <2>2. dev' = [f \in Fields |-> DeviceAddress(f)'] /\ pinned' = Registered'
    BY <1>2, <2>1, Zenon
  <2> QED BY <1>1, <2>1, <2>2, Zenon DEF MemoryInv
<1>5. CASE gpu_free_device_mem
  <2>1. /\ mpc = "pinned" /\ mpc' = "freed" /\ req' = req /\ host' = host
        /\ pinned' = { q \in pinned : q.ad \notin
                         { x.ad : x \in Range(merge_ranges(Collect(ToUnpin))) } }
    BY <1>5, Zenon DEF gpu_free_device_mem
  <2>2. pinned = Registered /\ ToUnpin = Pinned
    BY <2>1, PinnedFields, Zenon DEF MemoryInv
  <2>3. pinned' = { q \in Registered : q.ad \notin { x.ad : x \in Registered } }
    BY <2>1, <2>2, Zenon DEF Registered
  <2>4. pinned' = {}
    BY <2>3, Zenon
  <2> QED BY <1>1, <2>1, <2>4, Zenon DEF MemoryInv
<1>6. CASE UNCHANGED mvars
  <2>1. req' = req /\ host' = host /\ dev' = dev /\ pinned' = pinned /\ mpc' = mpc
    BY <1>6, Zenon DEF mvars
  <2> QED BY <1>1, <1>2, <2>1, Zenon DEF MemoryInv
<1> QED BY <1>3, <1>4, <1>5, <1>6, Zenon DEF MemoryNext

\* The invariant of a request's memory: fill_ku_request, gpu_alloc_device_mem and
\* gpu_free_device_mem leave what MemoryInv says, for any areas and buffers.
THEOREM MemorySafe == MemorySpec => []MemoryInv
<1>1. MemoryInit => MemoryInv
  BY MemoryStarts, Zenon
<1>2. MemoryInv /\ [MemoryNext]_mvars => MemoryInv'
  BY MemoryKeeps, Zenon
<1> QED BY <1>1, <1>2, PTL DEF MemorySpec

\* The device memory of a buffer is in the part for the pool or in that for the
\* mmap area, as far from its start as the buffer is.
LEMMA DeviceFacts ==
  ASSUME MemoryInv, mpc = "pinned", NEW f \in Given
  PROVE  /\ req[f].ad \in Nat /\ req[f].sz \in Nat \ {0} /\ dev[f] \in Int
         /\ \/ /\ kva <= req[f].ad /\ req[f].ad + req[f].sz <= kva + PoolSize
               /\ dev[f] = devbuf + (req[f].ad - kva)
            \/ /\ vma <= req[f].ad /\ req[f].ad + req[f].sz <= vma + VmaSize
               /\ dev[f] = devbuf4vma + (req[f].ad - vma)
<1>1. f \in Fields /\ (Pooled(f) \/ InMap(f))
  BY Zenon DEF Given, MemoryInv, Absent
<1>2. dev[f] = DeviceAddress(f)
  BY <1>1, Zenon DEF MemoryInv
<1>3. \/ /\ req[f] \in Ranges /\ kva <= req[f].ad /\ req[f].ad + req[f].sz <= kva + PoolSize
         /\ dev[f] = devbuf + (req[f].ad - kva)
      \/ /\ req[f] \in Ranges /\ vma <= req[f].ad /\ req[f].ad + req[f].sz <= vma + VmaSize
         /\ dev[f] = devbuf4vma + (req[f].ad - vma)
  <2>1. CASE Pooled(f)
    <3>1. dev[f] = devbuf + (req[f].ad - kva)
      BY <1>1, <1>2, <2>1, FieldFacts, Zenon
    <3> QED BY <2>1, <3>1, BufferFacts, Zenon DEF Pooled
  <2>2. CASE InMap(f)
    <3>1. dev[f] = devbuf4vma + (req[f].ad - vma)
      BY <1>1, <1>2, <2>2, FieldFacts, Zenon
    <3> QED BY <2>2, <3>1, BufferFacts, Zenon DEF InMap
  <2> QED BY <1>1, <2>1, <2>2, Zenon
<1>4. req[f].ad \in Nat /\ req[f].sz \in Nat \ {0}
  BY <1>3, SMT DEF Ranges
<1>5. dev[f] \in Int
  BY <1>3, <1>4, AreasApart, SMT
<1> QED BY <1>3, <1>4, <1>5, Zenon

\* Two bytes of a request's buffers are one byte on the GPU exactly if they are
\* one byte for the client (fill_ku_request, gpu_alloc_device_mem), wherever the
\* pool, the mmap area and the device memory for them are.
THEOREM DeviceMemoryMirrors == MemorySpec => []DeviceMirrorsHost
<1>1. ASSUME MemoryInv, mpc = "pinned", NEW f \in Given
      PROVE  \/ Span(dev[f], req[f].sz) \subseteq Span(devbuf, PoolSize)
             \/ Span(dev[f], req[f].sz) \subseteq Span(devbuf4vma, VmaSize)
  <2>1. \/ dev[f] >= devbuf /\ dev[f] + req[f].sz <= devbuf + PoolSize
        \/ dev[f] >= devbuf4vma /\ dev[f] + req[f].sz <= devbuf4vma + VmaSize
    BY <1>1, DeviceFacts, AreasApart, SMT
  <2>2. dev[f] \in Int /\ req[f].sz \in Nat
    BY <1>1, DeviceFacts, SMT
  <2> QED BY <2>1, <2>2, AreasApart, SMT DEF Span
<1>2. ASSUME MemoryInv, mpc = "pinned", NEW f \in Given, NEW g \in Given,
             NEW i \in 0..(req[f].sz - 1), NEW j \in 0..(req[g].sz - 1)
      PROVE  dev[f] + i = dev[g] + j <=> req[f].ad + i = req[g].ad + j
  <2> DEFINE a == req[f].ad
             s == req[f].sz
             d == dev[f]
             b == req[g].ad
             t == req[g].sz
             h == dev[g]
  <2>1. /\ a \in Nat /\ s \in Nat \ {0} /\ d \in Int
        /\ \/ kva <= a /\ a + s <= kva + PoolSize /\ d = devbuf + (a - kva)
           \/ vma <= a /\ a + s <= vma + VmaSize /\ d = devbuf4vma + (a - vma)
    BY <1>2, DeviceFacts, Zenon
  <2>2. /\ b \in Nat /\ t \in Nat \ {0} /\ h \in Int
        /\ \/ kva <= b /\ b + t <= kva + PoolSize /\ h = devbuf + (b - kva)
           \/ vma <= b /\ b + t <= vma + VmaSize /\ h = devbuf4vma + (b - vma)
    BY <1>2, DeviceFacts, Zenon
  <2> HIDE DEF a, s, d, b, t, h
  <2>3. i \in Int /\ 0 <= i /\ i < s /\ j \in Int /\ 0 <= j /\ j < t
    BY <2>1, <2>2, SMT DEF s, t
  <2>4. /\ PoolSize \in Nat /\ VmaSize \in Nat /\ kva \in Nat /\ vma \in Nat
        /\ devbuf \in Nat /\ devbuf4vma \in Nat
        /\ kva + PoolSize <= vma \/ vma + VmaSize <= kva
        /\ devbuf + PoolSize <= devbuf4vma \/ devbuf4vma + VmaSize <= devbuf
    BY AreasApart, SMT
  <2>5. d + i = h + j <=> a + i = b + j
    <3>1. CASE d = devbuf + (a - kva) /\ h = devbuf + (b - kva)
      BY <2>1, <2>2, <2>3, <2>4, <3>1, SMT
    <3>2. CASE d = devbuf4vma + (a - vma) /\ h = devbuf4vma + (b - vma)
      BY <2>1, <2>2, <2>3, <2>4, <3>2, SMT
    <3>3. CASE /\ kva <= a /\ a + s <= kva + PoolSize /\ d = devbuf + (a - kva)
               /\ vma <= b /\ b + t <= vma + VmaSize /\ h = devbuf4vma + (b - vma)
      BY <2>1, <2>2, <2>3, <2>4, <3>3, SMT
    <3>4. CASE /\ vma <= a /\ a + s <= vma + VmaSize /\ d = devbuf4vma + (a - vma)
               /\ kva <= b /\ b + t <= kva + PoolSize /\ h = devbuf + (b - kva)
      BY <2>1, <2>2, <2>3, <2>4, <3>4, SMT
    <3> QED BY <2>1, <2>2, <3>1, <3>2, <3>3, <3>4, Zenon
  <2> QED BY <2>5, Zenon DEF a, b, d, h
<1>3. MemoryInv => DeviceMirrorsHost
  BY <1>1, <1>2, Zenon DEF DeviceMirrorsHost
<1> QED BY <1>3, MemorySafe, PTL

\* CUDA registers whole pages of the mmap area and nothing else
\* (gpu_alloc_device_mem, __round_ranges), for any page size and any buffers.
THEOREM PinsStayInside == MemorySpec => []PinsInsideVma
<1>1. ASSUME MemoryInv, NEW q \in pinned
      PROVE  Bytes(q) \subseteq Span(vma, VmaSize) /\ Paged(q)
  <2>1. pinned = Registered /\ mpc # "kernel"
    BY <1>1, Zenon DEF MemoryInv
  <2> DEFINE T == { Rounded(req[f]) : f \in Pinned }
  <2>2. Merged(T, Registered)
    BY <1>1, <2>1, RegisteredFacts, Zenon
  <2>3. ASSUME NEW x \in T PROVE Paged(x) /\ Bytes(x) \subseteq Span(vma, VmaSize)
    <3>1. PICK f \in Pinned : x = Rounded(req[f])
      BY Zenon
    <3>2. req[f] \in Mapped
      BY <1>1, <2>1, PinnedFields, Zenon DEF InMap
    <3>3. req[f] \in Ranges /\ vma <= req[f].ad /\ req[f].ad + req[f].sz <= vma + VmaSize
      BY <3>2, BufferFacts, Zenon
    <3>4. /\ PageSize \in Nat \ {0} /\ vma \in Nat /\ VmaSize \in Nat
          /\ vma % PageSize = 0 /\ VmaSize % PageSize = 0
      BY MemoryAssumption, Zenon
    <3> QED BY <3>1, <3>3, <3>4, RoundFacts, RoundInside, Zenon
  <2> HIDE DEF T
  <2>4. Paged(q) /\ Bytes(q) \subseteq AllBytes(T)
    <3>1. Bytes(q) \subseteq AllBytes(Registered)
      BY <2>1, Zenon DEF AllBytes
    <3> QED BY <2>1, <2>2, <2>3, <3>1, Zenon DEF Merged
  <2>5. AllBytes(T) \subseteq Span(vma, VmaSize)
    BY <2>3, Zenon DEF AllBytes
  <2> QED BY <2>4, <2>5, Zenon
<1>2. MemoryInv => PinsInsideVma
  BY <1>1, Zenon DEF PinsInsideVma, Paged
<1> QED BY <1>2, MemorySafe, PTL

\* No byte is registered twice, and exactly the pages of the rounded buffers are
\* (__merge_ranges).
THEOREM MergingIsExact == MemorySpec => []MergedExactly
<1>1. ASSUME MemoryInv, mpc = "pinned"
      PROVE  /\ AllBytes(pinned) = AllBytes(Range(Round(Collect(Pinned))))
             /\ \A q, r \in pinned : q # r => ~Touch(q, r)
  <2>1. pinned = Registered
    BY <1>1, Zenon DEF MemoryInv
  <2> DEFINE T == { Rounded(req[f]) : f \in Pinned }
  <2>2. Range(Round(Collect(Pinned))) = T /\ Merged(T, Registered)
    BY <1>1, RegisteredFacts, Zenon
  <2> HIDE DEF T
  <2> QED BY <2>1, <2>2, Zenon DEF Merged
<1>2. MemoryInv => MergedExactly
  BY <1>1, Zenon DEF MergedExactly, Pinned
<1> QED BY <1>2, MemorySafe, PTL

\* Mapped buffers that begin with a page are registered to the last byte while
\* the request is on the GPU.
THEOREM AlignedBuffersArePinned == MemorySpec => []AlignedIsPinned
<1>1. ASSUME MemoryInv, mpc = "pinned", \A b \in InArea : b.ad % PageSize = 0,
             NEW b \in InArea
      PROVE  Bytes(b) \subseteq AllBytes(pinned)
  <2>1. PICK f \in Fields : b = req[f] /\ InMap(f)
    BY <1>1, Zenon DEF InArea, InMap
  <2> DEFINE T == { Rounded(req[g]) : g \in Pinned }
  <2>2. Rounded(b) \in T
    BY <1>1, <2>1, PinnedFields, Zenon
  <2>3. AllBytes(pinned) = AllBytes(T)
    BY <1>1, RegisteredFacts, Zenon DEF MemoryInv, Merged
  <2> HIDE DEF T
  <2>4. Bytes(Rounded(b)) \subseteq AllBytes(T)
    BY <2>2, Zenon DEF AllBytes
  <2>5. b \in Ranges /\ PageSize \in Nat \ {0}
    BY <2>1, BufferFacts, AreasApart, Zenon DEF InMap
  <2>6. Bytes(b) \subseteq Bytes(Rounded(b))
    BY <1>1, <2>5, RoundFacts, Zenon
  <2> QED BY <2>3, <2>4, <2>6, Zenon
<1>2. MemoryInv => AlignedIsPinned
  <2> SUFFICES ASSUME MemoryInv, mpc = "pinned", \A b \in InArea : b.ad % PageSize = 0
               PROVE  AllBytes(InArea) \subseteq AllBytes(pinned)
    BY Zenon DEF AlignedIsPinned
  <2>1. \A b \in InArea : Bytes(b) \subseteq AllBytes(pinned)
    BY <1>1, Zenon
  <2>2. \A x \in AllBytes(InArea) : \E b \in InArea : x \in Bytes(b)
    BY Zenon DEF AllBytes
  <2> QED BY <2>1, <2>2, Zenon
<1> QED BY <1>2, MemorySafe, PTL

\* gpu_free_device_mem unregisters all that gpu_alloc_device_mem has registered.
THEOREM NothingStaysPinned == MemorySpec => []AllUnpinned
<1>1. MemoryInv => AllUnpinned
  BY Zenon DEF MemoryInv, AllUnpinned
<1> QED BY <1>1, MemorySafe, PTL

=============================================================================
