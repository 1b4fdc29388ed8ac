-------------------------- MODULE KgpuMempoolProofs -------------------------
(***************************************************************************)
(* For every pool size, set of threads and of sizes: clients that free     *)
(* their allocations by the first unit never share a unit of the pool,     *)
(* except where set_gpu_mempool has overtaken a kgpu_vfree.                *)
(***************************************************************************)
EXTENDS KgpuMempool, TLAPS

\* Clients ask for sizes that come to at least one unit, and free what
\* kgpu_vmalloc returned.
PlainClients ==
  /\ FieldFrees = FALSE
  /\ \A nbytes \in Sizes : ReqUnits(nbytes) \in Nat \ {0}

\* What the assumption on the constants says of their types.
LEMMA ConstantTypes ==
  /\ PoolUnits \in Nat \ {0} /\ UnitSize \in Nat \ {0}
  /\ ULong \in Nat \ {0} /\ UInt \in Nat \ {0}
  /\ UnitSize <= ULong
  /\ Garbage \subseteq Nat
<1>1. ASSUME NEW g \in Garbage PROVE g \in Nat
  <2>1. g \in 0..(UInt - 1) /\ UInt \in Nat
    BY MempoolAssumption, Zenon
  <2> QED BY <2>1, SMT
<1>2. PoolUnits \in Nat \ {0} /\ UnitSize \in Nat \ {0} /\ UnitSize <= ULong
  BY MempoolAssumption, SMT
<1> QED BY <1>1, <1>2, MempoolAssumption, Zenon

\* memset leaves natural numbers.
LEMMA MemsetType ==
  ASSUME NEW a \in [Units -> Nat]
  PROVE  Memset(a) \in [Units -> Nat]
<1>1. ASSUME NEW v \in Nat, NEW bytes \in Int
      PROVE  ClearLow(v, bytes) \in Nat
  <2>1. ASSUME NEW m \in Nat \ {0} PROVE v - (v % m) \in Nat
    OBVIOUS
  <2> QED BY <2>1, SMT DEF ClearLow
<1>2. ASSUME NEW k \in Units PROVE PoolUnits - 4 * k \in Int
  BY ConstantTypes, SMTT(30) DEF Units
<1> QED BY <1>1, <1>2, SMT DEF Memset

\* The areas kgpu_vmalloc may take are inside the pool and free.
LEMMA AreaFacts ==
  ASSUME TypeOK, NEW n \in Nat \ {0}, NEW i \in ZeroAreas(n)
  PROVE  /\ nunits = PoolUnits
         /\ i \in Units
         /\ Area(i, n) \subseteq Units
         /\ i \in Area(i, n)
         /\ Area(i, n) \cap bitmap = {}
BY ConstantTypes, SMTT(30) DEF TypeOK, ZeroAreas, Area, Units

\* Units are numbers, and none of them is NoUnit.
LEMMA UnitFacts ==
  /\ 0 \in Units
  /\ \A i \in Units : i \in Nat /\ i # NoUnit
  /\ \A i \in Units : Area(i, 0) = {}
BY ConstantTypes, SMTT(30) DEF Units, NoUnit, Area

\* A step that does nothing to thread u leaves it as it is.
LEMMA SameThread ==
  ASSUME NEW u \in Threads, ThreadInv(u), kva' = kva,
         mem'[u] = mem[u], map'[u] = map[u], base'[u] = base[u], fields'[u] = fields[u],
         freeing'[u] = freeing[u], sz'[u] = sz[u],
         u \in overtaken' <=> u \in overtaken
  PROVE  ThreadInv(u)' /\ Leaving(u)' = Leaving(u) /\ Claim'[u] = Claim[u]
<1>1. Leaving(u)' = Leaving(u)
  BY Zenon DEF Leaving, Area
<1>2. Claim'[u] = Claim[u]
  BY <1>1, Zenon DEF Claim
<1>3. ThreadInv(u)'
  BY Zenon DEF ThreadInv, NoUnit
<1> QED BY <1>1, <1>2, <1>3, Zenon

\* The pool that kgpu_init leaves is empty.
LEMMA InitInv == Init => MempoolInv
<1> SUFFICES ASSUME Init PROVE MempoolInv
  OBVIOUS
<1>1. TypeOK
  <2>1. oops \in BOOLEAN
    BY Zenon DEF Init
  <2>2. base \in [Threads -> Units] /\ alloc_sz \in [Units -> Nat]
    BY ConstantTypes, SMTT(30) DEF Init, Units
  <2>3. maps \in Nat /\ kva \in 0..maps /\ map \in [Threads -> 0..maps]
    BY SMTT(30) DEF Init
  <2> QED BY <2>1, <2>2, <2>3, SMTT(30) DEF Init, TypeOK
<1>2. \A t \in Threads : /\ mem[t] = {} /\ freeing[t] = NoUnit /\ fields[t] = {}
                         /\ sz[t] = 0 /\ t \notin overtaken
  BY Zenon DEF Init
<1>3. ~Sound(kva) /\ kva = 0
  BY Zenon DEF Init, Sound
<1>4. \A t \in Threads : Claim[t] = {} /\ ~Current(t) /\ ThreadInv(t)
  BY <1>2, <1>3, Zenon DEF Claim, Leaving, Current, ThreadInv
<1>5. LiveReserved /\ NoUnitLost /\ ClaimsDisjoint
  BY <1>3, <1>4, Zenon DEF LiveReserved, NoUnitLost, ClaimsDisjoint
<1> QED BY <1>1, <1>3, <1>4, <1>5, Zenon DEF MempoolInv

\* A helper that sets the pool up leaves a pool in which nobody has memory:
\* what clients have is in earlier mappings, and what they are releasing is no
\* claim to the new one.
LEMMA SetStep == MempoolInv /\ set_gpu_mempool => MempoolInv'
<1> SUFFICES ASSUME MempoolInv, set_gpu_mempool PROVE MempoolInv'
  OBVIOUS
<1>1. /\ UNCHANGED <<mem, map, base, fields, freeing, sz, oops, struck>>
      /\ nunits' = PoolUnits
      /\ overtaken' = { t \in Threads : freeing[t] # NoUnit }
  BY Zenon DEF set_gpu_mempool, clients
<1>2. \/ kva' = 0 /\ UNCHANGED maps
      \/ /\ kva' = maps + 1 /\ maps' = maps + 1
         /\ bitmap' = {} /\ arrays' = {"bitmap", "alloc_sz"}
  <2>1. CASE "bitmap" \notin arrays \/ "alloc_sz" \notin arrays
    <3>1. kva = 0
      BY <2>1, Zenon DEF MempoolInv
    <3> QED BY <3>1, Zenon DEF set_gpu_mempool
  <2>2. CASE ~("bitmap" \notin arrays \/ "alloc_sz" \notin arrays)
    BY <2>2, Zenon DEF set_gpu_mempool
  <2> QED BY <2>1, <2>2, Zenon
<1>3. maps \in Nat /\ map \in [Threads -> 0..maps] /\ struck \subseteq 0..maps
  BY Zenon DEF MempoolInv, TypeOK
<1>4. /\ maps' \in Nat /\ kva' \in 0..maps' /\ map' \in [Threads -> 0..maps']
      /\ struck' \subseteq 0..maps'
  <2>1. 0..maps \subseteq 0..maps'
    BY <1>2, <1>3, SMTT(30)
  <2>2. map \in [Threads -> 0..maps']
    BY <1>3, <2>1, SMTT(30)
  <2>3. maps' \in Nat /\ kva' \in 0..maps'
    BY <1>2, <1>3, SMTT(30)
  <2> QED BY <1>1, <1>3, <2>1, <2>2, <2>3, Zenon
<1>5. TypeOK'
  <2>1. alloc_sz' \in [Units -> Nat]
    <3>1. ASSUME NEW a \in (IF "alloc_sz" \in arrays THEN {alloc_sz} ELSE [Units -> Garbage])
          PROVE  a \in [Units -> Nat]
      BY ConstantTypes, Zenon DEF MempoolInv, TypeOK
    <3>2. alloc_sz' = alloc_sz \/ \E a \in (IF "alloc_sz" \in arrays THEN {alloc_sz}
                                           ELSE [Units -> Garbage]) : alloc_sz' = Memset(a)
      BY Zenon DEF set_gpu_mempool
    <3> QED BY <3>1, <3>2, MemsetType, ZenonT(60) DEF MempoolInv, TypeOK
  <2>2. arrays' \subseteq {"bitmap", "alloc_sz"} /\ bitmap' \subseteq Units
    BY Zenon DEF set_gpu_mempool, MempoolInv, TypeOK
  <2>3. overtaken' \subseteq Threads
    BY <1>1, Zenon
  <2> QED BY <1>1, <1>4, <2>1, <2>2, <2>3, Zenon DEF MempoolInv, TypeOK
<1>6. ASSUME NEW t \in Threads PROVE kva' # 0 => map'[t] # kva'
  BY <1>1, <1>2, <1>3, SMTT(30)
<1>7. LiveReserved' /\ (\A t \in Threads : ~Current(t)')
  BY <1>6, Zenon DEF LiveReserved, Current, Sound
<1>8. NoUnitLost'
  <2> SUFFICES ASSUME kva' # 0
               PROVE  (bitmap = UNION { mem[t] \cup Leaving(t) :
                                        t \in { u \in Threads : map[u] = kva } })'
    BY Zenon DEF NoUnitLost, Sound
  <2>1. bitmap' = {}
    BY <1>2, Zenon
  <2>2. { u \in Threads : map'[u] = kva' } = {}
    BY <1>6, Zenon
  <2> QED BY <2>1, <2>2, SMTT(30)
<1>9. ASSUME NEW t \in Threads PROVE Claim'[t] \subseteq Claim[t]
  <2>1. Leaving(t)' = {}
    BY <1>1, Zenon DEF Leaving, NoUnit
  <2> QED BY <1>1, <2>1, Zenon DEF Claim
<1>10. ClaimsDisjoint'
  <2>1. ClaimsDisjoint
    BY Zenon DEF MempoolInv
  <2> QED BY <1>1, <1>9, <2>1, Zenon DEF ClaimsDisjoint, Sound
<1>11. ASSUME NEW t \in Threads PROVE ThreadInv(t)'
  <2>1. ThreadInv(t)
    BY Zenon DEF MempoolInv
  <2>2. t \in overtaken' <=> freeing[t] # NoUnit
    BY <1>1, Zenon
  <2> QED BY <1>1, <1>6, <2>1, <2>2, Zenon DEF ThreadInv, NoUnit
<1>12. kva' # 0 => nunits' = PoolUnits /\ arrays' = {"bitmap", "alloc_sz"}
  BY <1>1, <1>2, Zenon
<1> QED BY <1>5, <1>7, <1>8, <1>10, <1>11, <1>12, Zenon DEF MempoolInv

\* An allocation of the present mapping is reserved from its first unit on.
LEMMA BaseReserved ==
  ASSUME MempoolInv, NEW u \in Threads, Current(u), mem[u] # {}
  PROVE  /\ base[u] \in mem[u]
         /\ mem[u] = Area(base[u], alloc_sz[base[u]])
         /\ mem[u] \subseteq bitmap
<1>1. mem[u] = Area(base[u], alloc_sz[base[u]]) /\ mem[u] \subseteq bitmap
  BY Zenon DEF MempoolInv, LiveReserved
<1>2. base[u] \in Int /\ alloc_sz[base[u]] \in Nat
  BY ConstantTypes, SMTT(30) DEF MempoolInv, TypeOK, Units
<1> DEFINE b == base[u]
           c == alloc_sz[base[u]]
<1>3. b..(b + c - 1) # {}
  BY <1>1, Zenon DEF Area
<1> HIDE DEF b, c
<1>4. b \in Int /\ c \in Nat
  BY <1>2, Zenon DEF b, c
<1>5. b \in b..(b + c - 1)
  BY ONLY <1>3, <1>4, SMTT(30)
<1> QED BY <1>1, <1>5, Zenon DEF Area, b, c

\* kgpu_vmalloc takes units that nobody has a claim to.
LEMMA VmallocStep ==
  ASSUME PlainClients, MempoolInv,
         NEW t \in Threads, NEW nbytes \in Sizes, kgpu_vmalloc(t, nbytes)
  PROVE  MempoolInv'
<1> DEFINE n == ReqUnits(nbytes)
<1>1. n \in Nat \ {0}
  BY Zenon DEF PlainClients
<1> HIDE DEF n
<1>2. PICK idx \in ZeroAreas(n) :
        /\ bitmap' = bitmap \cup Area(idx, n)
        /\ alloc_sz' = [alloc_sz EXCEPT ![idx] = n]
        /\ IF kva # 0 \/ idx > 0 THEN Take(t, idx, n) ELSE UNCHANGED clients
  BY Zenon DEF kgpu_vmalloc, n
<1>3. /\ nunits = PoolUnits
      /\ idx \in Units
      /\ Area(idx, n) \subseteq Units
      /\ idx \in Area(idx, n)
      /\ Area(idx, n) \cap bitmap = {}
  BY <1>1, AreaFacts, SMTT(30) DEF MempoolInv
<1>4. UNCHANGED <<nunits, arrays, kva, maps, oops, freeing, sz, overtaken, struck>>
  BY Zenon DEF kgpu_vmalloc, frees
<1>5. \A u \in Threads : Leaving(u)' = Leaving(u)
  BY <1>4, Zenon DEF Leaving
<1>6. /\ freeing[t] = NoUnit /\ fields[t] = {} /\ Leaving(t) = {} /\ mem[t] = {}
      /\ sz[t] = 0 /\ t \notin overtaken
  <2>1. freeing[t] = NoUnit /\ fields[t] = {}
    BY Zenon DEF kgpu_vmalloc, Idle
  <2>2. ThreadInv(t)
    BY Zenon DEF MempoolInv
  <2>3. mem[t] = {} /\ sz[t] = 0 /\ t \notin overtaken
    BY <2>1, <2>2, Zenon DEF ThreadInv
  <2> QED BY <2>1, <2>3, Zenon DEF Leaving
<1>7. TypeOK /\ kva \in Nat
  BY SMTT(30) DEF MempoolInv, TypeOK
<1>8. \A u \in Threads : ThreadInv(u)
  BY Zenon DEF MempoolInv
<1>9. \A u, v \in Threads :
        u # v /\ map[u] = map[v] /\ Sound(map[u]) => Claim[u] \cap Claim[v] = {}
  BY Zenon DEF MempoolInv, ClaimsDisjoint
<1>10. \A m : Sound(m)' = Sound(m)
  BY <1>4, Zenon DEF Sound
<1>11. CASE UNCHANGED clients
  <2>1. UNCHANGED <<mem, map, base, fields>>
    BY <1>11, Zenon DEF clients
  <2>2. kva = 0
    <3>1. SUFFICES ASSUME kva # 0 PROVE FALSE
      OBVIOUS
    <3>2. Take(t, idx, n)
      BY <1>2, <3>1, Zenon
    <3>3. mem'[t] = Area(idx, n)
      BY <3>2, <1>7, SMTT(30) DEF Take, TypeOK
    <3> QED BY <3>3, <2>1, <1>6, <1>3, Zenon
  <2>3. TypeOK'
    BY <1>1, <1>2, <1>3, <1>4, <1>7, <2>1, SMTT(30) DEF TypeOK
  <2>4. \A u \in Threads : ThreadInv(u)' /\ Claim'[u] = Claim[u]
    BY <1>4, <1>8, <2>1, SameThread, Zenon
  <2>5. LiveReserved' /\ NoUnitLost' /\ (\A u \in Threads : ~Current(u)')
    BY <1>4, <2>2, Zenon DEF LiveReserved, NoUnitLost, Current, Sound
  <2>6. ClaimsDisjoint'
    BY <1>4, <1>9, <2>1, <2>4, Zenon DEF ClaimsDisjoint, Sound
  <2> QED BY <1>4, <2>2, <2>3, <2>4, <2>5, <2>6, Zenon DEF MempoolInv
<1>12. CASE Take(t, idx, n)
  <2>1. /\ mem' = [mem EXCEPT ![t] = Area(idx, n)]
        /\ map' = [map EXCEPT ![t] = kva]
        /\ base' = [base EXCEPT ![t] = idx]
        /\ fields' = [fields EXCEPT ![t] = {idx}]
    BY <1>12, Zenon DEF Take, PlainClients
  <2>2. TypeOK'
    BY <1>1, <1>2, <1>3, <1>4, <1>7, <2>1, SMTT(30) DEF TypeOK
  <2>3. /\ mem'[t] = Area(idx, n) /\ map'[t] = kva /\ base'[t] = idx /\ fields'[t] = {idx}
        /\ \A u \in Threads \ {t} : /\ mem'[u] = mem[u] /\ map'[u] = map[u]
                                   /\ base'[u] = base[u] /\ fields'[u] = fields[u]
    BY <1>7, <2>1, SMTT(30) DEF TypeOK
  <2>4. \A u \in Threads : Claim'[u] = IF u = t THEN Area(idx, n) ELSE Claim[u]
    BY <1>5, <1>6, <2>3, SMTT(30) DEF Claim
  <2>5. ASSUME NEW u \in Threads \ {t} PROVE Current(u)' = Current(u)
    BY <1>4, <2>3, Zenon DEF Current, Sound
  <2>6. ASSUME NEW u \in Threads, Current(u)
        PROVE  Claim[u] \subseteq bitmap /\ Area(idx, n) \cap Claim[u] = {}
    <3>1. Claim[u] \subseteq bitmap
      BY <2>6, Zenon DEF MempoolInv
    <3> QED BY <3>1, <1>3, Zenon
  <2>7. LiveReserved'
    <3> SUFFICES ASSUME NEW u \in Threads, Current(u)', mem'[u] # {}
                 PROVE  /\ mem'[u] \subseteq bitmap'
                        /\ mem'[u] = Area(base'[u], alloc_sz'[base'[u]])
      BY Zenon DEF LiveReserved, Area
    <3>1. CASE u = t
      <4>1. alloc_sz'[idx] = n
        BY <1>2, <1>3, <1>7, SMTT(30) DEF TypeOK
      <4> QED BY <3>1, <4>1, <1>2, <2>3, Zenon
    <3>2. CASE u # t
      <4>1. Current(u) /\ mem[u] # {}
        BY <3>2, <2>3, <2>5, Zenon
      <4>2. /\ base[u] \in mem[u]
            /\ mem[u] = Area(base[u], alloc_sz[base[u]])
            /\ mem[u] \subseteq bitmap
        BY <4>1, BaseReserved, Zenon
      <4>3. base[u] # idx
        BY <4>2, <1>3, Zenon
      <4>4. alloc_sz'[base[u]] = alloc_sz[base[u]]
        BY <4>3, <1>2, <1>7, SMTT(30) DEF TypeOK
      <4> QED BY <3>2, <4>2, <4>4, <1>2, <2>3, Zenon
    <3> QED BY <3>1, <3>2, Zenon
  <2>8. ASSUME NEW u \in Threads, NEW v \in Threads,
               u # v, map'[u] = map'[v], Sound(map'[u])
        PROVE  Claim'[u] \cap Claim'[v] = {}
    <3>1. CASE u = t
      <4>1. v # t /\ map[v] = kva /\ Sound(kva)
        BY <3>1, <2>3, <2>8, Zenon
      <4>2. Current(v)
        BY <4>1, Zenon DEF Current
      <4> QED BY <3>1, <4>1, <4>2, <2>4, <2>6, Zenon
    <3>2. CASE v = t
      <4>1. u # t /\ map[u] = kva /\ Sound(kva)
        BY <3>2, <2>3, <2>8, Zenon
      <4>2. Current(u)
        BY <4>1, Zenon DEF Current
      <4>3. Area(idx, n) \cap Claim[u] = {}
        BY <4>2, <2>6, Zenon
      <4> QED BY <3>2, <4>1, <4>3, <2>4, Zenon
    <3>3. CASE u # t /\ v # t
      <4>1. Claim'[u] = Claim[u] /\ Claim'[v] = Claim[v] /\ map[u] = map[v] /\ Sound(map[u])
        BY <3>3, <2>3, <2>4, <2>8, Zenon
      <4> QED BY <4>1, <1>9, <2>8, Zenon
    <3> QED BY <3>1, <3>2, <3>3, Zenon
  <2>9. ClaimsDisjoint'
    BY <1>4, <2>8, Zenon DEF ClaimsDisjoint, Sound
  <2>10. NoUnitLost'
    <3> SUFFICES ASSUME Sound(kva)
                 PROVE  bitmap' = UNION { mem'[w] \cup Leaving(w)' :
                                            w \in { u \in Threads : map'[u] = kva } }
      BY <1>4, Zenon DEF NoUnitLost, Leaving, Sound
    <3>1. bitmap = UNION { mem[w] \cup Leaving(w) : w \in { u \in Threads : map[u] = kva } }
      BY Zenon DEF MempoolInv, NoUnitLost
    <3>2. \A w \in Threads : mem'[w] \cup Leaving(w)' =
                               IF w = t THEN Area(idx, n) ELSE mem[w] \cup Leaving(w)
      BY <1>5, <1>6, <2>3, SMTT(30)
    <3> QED BY <3>1, <3>2, <1>2, <1>6, <2>3, SMTT(30)
  <2>11. ASSUME NEW u \in Threads
         PROVE  (Current(u)' => Claim'[u] \subseteq bitmap') /\ ThreadInv(u)'
    <3>1. CASE u = t
      <4>1. Claim'[u] \subseteq bitmap'
        BY <3>1, <1>2, <2>4, Zenon
      <4>2. ThreadInv(t)'
        BY <1>3, <1>4, <1>6, <2>3, Zenon DEF ThreadInv
      <4> QED BY <3>1, <4>1, <4>2, Zenon
    <3>2. CASE u # t
      <4>1. Current(u)' => Claim'[u] \subseteq bitmap'
        BY <3>2, <1>2, <2>4, <2>5, <2>6, Zenon
      <4>2. ThreadInv(u)'
        BY <3>2, <1>4, <1>8, <2>3, SameThread, Zenon
      <4> QED BY <4>1, <4>2, Zenon
    <3> QED BY <3>1, <3>2, Zenon
  <2>12. kva' # 0 => nunits' = PoolUnits /\ arrays' = {"bitmap", "alloc_sz"}
    BY <1>4, Zenon DEF MempoolInv
  <2> QED BY <2>2, <2>7, <2>9, <2>10, <2>11, <2>12, Zenon DEF MempoolInv
<1> QED BY <1>2, <1>11, <1>12, Zenon

\* The kernel's NULL dereference, like a step of something else, changes no
\* record of the pool.
LEMMA SameBooks ==
  ASSUME MempoolInv, oops' \in BOOLEAN,
         UNCHANGED <<nunits, arrays, bitmap, alloc_sz, kva, maps>>,
         UNCHANGED <<mem, map, base, fields, freeing, sz, overtaken, struck>>
  PROVE  MempoolInv'
<1>1. TypeOK'
  BY Zenon DEF MempoolInv, TypeOK
<1>2. \A u \in Threads : ThreadInv(u)
  BY Zenon DEF MempoolInv
<1>3. \A u \in Threads : /\ ThreadInv(u)' /\ Leaving(u)' = Leaving(u)
                         /\ Claim'[u] = Claim[u] /\ Current(u)' = Current(u)
  BY <1>2, SameThread, Zenon DEF Current, Sound
<1>4. LiveReserved' /\ ClaimsDisjoint'
  BY <1>3, Zenon DEF MempoolInv, LiveReserved, ClaimsDisjoint, Current, Sound
<1>5. NoUnitLost'
  BY <1>3, SMTT(30) DEF MempoolInv, NoUnitLost, Sound
<1> QED BY <1>1, <1>3, <1>4, <1>5, Zenon DEF MempoolInv

\* Nobody but thread t is affected, and t keeps its claim if it has one to a
\* mapping that is sound; the books stay as they are.  This is kgpu_vfree up to
\* the lock.
LEMMA ClaimKept ==
  ASSUME MempoolInv, NEW t \in Threads, TypeOK', ThreadInv(t)',
         UNCHANGED <<nunits, arrays, bitmap, alloc_sz, kva, maps, oops, struck>>,
         \A u \in Threads \ {t} :
           /\ mem'[u] = mem[u] /\ map'[u] = map[u] /\ base'[u] = base[u]
           /\ fields'[u] = fields[u] /\ freeing'[u] = freeing[u] /\ sz'[u] = sz[u]
           /\ u \in overtaken' <=> u \in overtaken,
         map'[t] = map[t] \/ map'[t] = 0,
         Sound(map'[t]) => Claim'[t] \subseteq Claim[t],
         Current(t) => map'[t] = map[t] /\ Claim'[t] = Claim[t],
         mem'[t] # {} => mem'[t] = mem[t] /\ base'[t] = base[t]
  PROVE  MempoolInv'
<1>1. \A u \in Threads : ThreadInv(u)
  BY Zenon DEF MempoolInv
<1>2. ASSUME NEW u \in Threads, u # t
      PROVE  ThreadInv(u)' /\ Leaving(u)' = Leaving(u) /\ Claim'[u] = Claim[u]
  BY <1>1, <1>2, SameThread, Zenon
<1>3. \A m : Sound(m)' = Sound(m)
  BY Zenon DEF Sound
<1>4. ASSUME NEW u \in Threads, Current(u)' PROVE Current(u) /\ Claim'[u] = Claim[u]
  <2>1. Sound(kva) /\ map'[u] = kva /\ kva # 0
    BY <1>4, Zenon DEF Current, Sound
  <2>2. map[u] = kva
    BY <2>1, Zenon
  <2>3. Current(u)
    BY <2>1, <2>2, Zenon DEF Current
  <2> QED BY <2>3, <1>2, Zenon
<1>5. ASSUME NEW u \in Threads, Current(u) PROVE Current(u)'
  <2>1. map'[u] = map[u]
    BY <1>5, Zenon
  <2> QED BY <1>5, <2>1, Zenon DEF Current, Sound
<1>6. LiveReserved'
  <2> SUFFICES ASSUME NEW u \in Threads, Current(u)', mem'[u] # {}
               PROVE  /\ mem'[u] \subseteq bitmap'
                      /\ mem'[u] = Area(base'[u], alloc_sz'[base'[u]])
    BY Zenon DEF LiveReserved, Area
  <2>1. mem'[u] = mem[u] /\ base'[u] = base[u]
    BY Zenon
  <2> QED BY <2>1, <1>4, BaseReserved, Zenon
<1>7. ClaimsDisjoint'
  <2> SUFFICES ASSUME NEW u \in Threads, NEW v \in Threads,
                      u # v, map'[u] = map'[v], Sound(map'[u])
               PROVE  Claim'[u] \cap Claim'[v] = {}
    BY <1>3, Zenon DEF ClaimsDisjoint, Sound
  <2>1. map'[u] # 0
    BY Zenon DEF Sound
  <2>2. map'[u] = map[u] /\ map'[v] = map[v]
    BY <2>1, Zenon
  <2>3. Claim'[u] \subseteq Claim[u] /\ Claim'[v] \subseteq Claim[v]
    BY <1>2, Zenon
  <2>4. Claim[u] \cap Claim[v] = {}
    BY <2>2, Zenon DEF MempoolInv, ClaimsDisjoint
  <2> QED BY <2>3, <2>4, Zenon
<1>8. NoUnitLost'
  <2> SUFFICES ASSUME Sound(kva)
               PROVE  bitmap' = UNION { mem'[w] \cup Leaving(w)' :
                                          w \in { u \in Threads : map'[u] = kva } }
    BY Zenon DEF NoUnitLost, Leaving, Sound
  <2>1. bitmap = UNION { mem[w] \cup Leaving(w) : w \in { u \in Threads : map[u] = kva } }
    BY Zenon DEF MempoolInv, NoUnitLost
  <2>2. ASSUME NEW w \in Threads PROVE map'[w] = kva <=> map[w] = kva
    BY <1>4, <1>5, Zenon DEF Current, Sound
  <2>3. ASSUME NEW w \in Threads, map[w] = kva
        PROVE  mem'[w] \cup Leaving(w)' = mem[w] \cup Leaving(w)
    <3>1. Claim'[w] = Claim[w]
      BY <2>3, <1>2, Zenon DEF Current
    <3> QED BY <3>1, Zenon DEF Claim
  <2> QED BY <2>1, <2>2, <2>3, SMTT(30)
<1>9. ASSUME NEW u \in Threads
      PROVE  (Current(u)' => Claim'[u] \subseteq bitmap') /\ ThreadInv(u)'
  <2>1. Current(u)' => Claim'[u] \subseteq bitmap'
    BY <1>4, Zenon DEF MempoolInv
  <2> QED BY <2>1, <1>2, Zenon
<1>10. kva' # 0 => nunits' = PoolUnits /\ arrays' = {"bitmap", "alloc_sz"}
  BY Zenon DEF MempoolInv
<1> QED BY <1>6, <1>7, <1>8, <1>9, <1>10, Zenon DEF MempoolInv

\* What kgpu_vfree changes of the thread that is in it.
LEMMA GivenUp ==
  ASSUME TypeOK, NEW t \in Threads, NEW p \in Units, p = base[t], GiveUp(t, p)
  PROVE  /\ mem' = [mem EXCEPT ![t] = {}] /\ base' = [base EXCEPT ![t] = 0]
         /\ mem'[t] = {} /\ base'[t] = 0
         /\ \A u \in Threads \ {t} : mem'[u] = mem[u] /\ base'[u] = base[u]
<1>1. mem' = [mem EXCEPT ![t] = {}] /\ base' = [base EXCEPT ![t] = 0]
  BY Zenon DEF GiveUp
<1> QED BY <1>1, SMTT(30) DEF TypeOK

\* kgpu_vfree computes the index: the thread keeps its claim, or has none to the
\* present mapping.
LEMMA VfreeStep ==
  ASSUME MempoolInv, NEW t \in Threads, NEW p \in Units, kgpu_vfree(t, p)
  PROVE  MempoolInv'
<1>1. /\ UNCHANGED <<nunits, arrays, bitmap, alloc_sz, kva, maps, oops, struck>>
      /\ UNCHANGED <<sz, overtaken>>
  BY Zenon DEF kgpu_vfree, pool
<1>2. /\ p \in fields[t]
      /\ freeing[t] = NoUnit
      /\ fields' = [fields EXCEPT ![t] = fields[t] \ {p}]
  BY Zenon DEF kgpu_vfree
<1>3. /\ mem[t] # {} /\ p = base[t] /\ fields[t] = {p}
      /\ sz[t] = 0 /\ t \notin overtaken
  <2>1. ThreadInv(t)
    BY Zenon DEF MempoolInv
  <2> QED BY <1>2, <2>1, Zenon DEF ThreadInv
<1>4. TypeOK /\ p # NoUnit /\ Area(p, 0) = {} /\ 0 \in Units
  BY UnitFacts, Zenon DEF MempoolInv
<1>5. fields'[t] = {} /\ \A u \in Threads \ {t} : fields'[u] = fields[u]
  BY <1>2, <1>3, <1>4, SMTT(30) DEF TypeOK
<1>6. Leaving(t) = {}
  BY <1>2, Zenon DEF Leaving
<1>7. CASE map[t] = kva
  <2>1. freeing' = [freeing EXCEPT ![t] = p] /\ UNCHANGED <<mem, base, map>>
    BY <1>7, Zenon DEF kgpu_vfree
  <2>2. freeing'[t] = p /\ \A u \in Threads \ {t} : freeing'[u] = freeing[u]
    BY <2>1, <1>4, SMTT(30) DEF TypeOK
  <2>3. TypeOK'
    BY <1>1, <1>2, <1>4, <2>1, SMTT(30) DEF TypeOK
  <2>4. Leaving(t)' = {}
    BY <1>1, <1>3, <1>4, <2>2, Zenon DEF Leaving, Area
  <2>5. Claim'[t] = Claim[t]
    BY <1>6, <2>1, <2>4, Zenon DEF Claim
  <2>6. ThreadInv(t)'
    BY <1>1, <1>3, <1>4, <1>5, <1>7, <2>1, <2>2, Zenon DEF ThreadInv, NoUnit
  <2>7. \A u \in Threads \ {t} :
          /\ mem'[u] = mem[u] /\ map'[u] = map[u] /\ base'[u] = base[u]
          /\ fields'[u] = fields[u] /\ freeing'[u] = freeing[u] /\ sz'[u] = sz[u]
          /\ u \in overtaken' <=> u \in overtaken
    BY <1>1, <1>5, <2>1, <2>2, Zenon
  <2> QED BY <1>1, <2>1, <2>3, <2>5, <2>6, <2>7, ClaimKept, Zenon
<1>8. CASE map[t] # kva
  <2>1. GiveUp(t, p) /\ Return(t) /\ UNCHANGED freeing
    BY <1>8, Zenon DEF kgpu_vfree
  <2>2. map' = [map EXCEPT ![t] = 0]
    BY <1>5, <2>1, Zenon DEF Return
  <2>3. map'[t] = 0 /\ \A u \in Threads \ {t} : map'[u] = map[u]
    BY <2>2, <1>4, SMTT(30) DEF TypeOK
  <2>4. /\ mem' = [mem EXCEPT ![t] = {}] /\ base' = [base EXCEPT ![t] = 0]
        /\ mem'[t] = {} /\ base'[t] = 0
        /\ \A u \in Threads \ {t} : mem'[u] = mem[u] /\ base'[u] = base[u]
    BY <1>3, <1>4, <2>1, GivenUp, Zenon
  <2>5. TypeOK'
    BY <1>1, <1>2, <1>4, <2>1, <2>2, <2>4, SMTT(30) DEF TypeOK
  <2>6. ThreadInv(t)'
    BY <1>1, <1>2, <1>3, <1>5, <2>1, <2>4, Zenon DEF ThreadInv, NoUnit
  <2>7. \A u \in Threads \ {t} :
          /\ mem'[u] = mem[u] /\ map'[u] = map[u] /\ base'[u] = base[u]
          /\ fields'[u] = fields[u] /\ freeing'[u] = freeing[u] /\ sz'[u] = sz[u]
          /\ u \in overtaken' <=> u \in overtaken
    BY <1>1, <1>5, <2>1, <2>3, <2>4, Zenon
  <2>8. ~Current(t) /\ ~Sound(map'[t])
    BY <1>8, <2>3, Zenon DEF Current, Sound
  <2> QED BY <1>1, <2>3, <2>4, <2>5, <2>6, <2>7, <2>8, ClaimKept, Zenon
<1> QED BY <1>7, <1>8, Zenon

\* kgpu_vfree reads alloc_sz: for memory of the present mapping it finds the size
\* that kgpu_vmalloc recorded.
LEMMA LookStep ==
  ASSUME MempoolInv, NEW t \in Threads, vfree_look(t)
  PROVE  MempoolInv'
<1> DEFINE p == freeing[t]
<1>1. UNCHANGED <<nunits, arrays, bitmap, alloc_sz, kva, maps, oops, struck, fields>>
  BY Zenon DEF vfree_look, pool
<1>2. p # NoUnit /\ sz[t] = 0 /\ GiveUp(t, p)
  BY Zenon DEF vfree_look
<1>3. /\ mem[t] # {} /\ p = base[t] /\ fields[t] = {}
      /\ IF t \in overtaken THEN kva # 0 => map[t] # kva ELSE map[t] = kva
  <2>1. ThreadInv(t)
    BY Zenon DEF MempoolInv
  <2> QED BY <1>2, <2>1, Zenon DEF ThreadInv
<1>4. TypeOK /\ p \in Units /\ alloc_sz[p] \in Nat /\ Area(p, 0) = {} /\ 0 \in Units
  <2>1. TypeOK
    BY Zenon DEF MempoolInv
  <2>2. p \in Units
    BY <1>3, <2>1, Zenon DEF TypeOK
  <2>3. alloc_sz[p] \in Nat
    BY <2>1, <2>2, Zenon DEF TypeOK
  <2> QED BY <2>1, <2>2, <2>3, UnitFacts, Zenon
<1>5. /\ mem' = [mem EXCEPT ![t] = {}] /\ base' = [base EXCEPT ![t] = 0]
      /\ mem'[t] = {} /\ base'[t] = 0
      /\ \A u \in Threads \ {t} : mem'[u] = mem[u] /\ base'[u] = base[u]
  BY <1>2, <1>3, <1>4, GivenUp, Zenon
<1>6. Leaving(t) = {}
  BY <1>2, <1>4, Zenon DEF Leaving
<1>7. Current(t) => /\ mem[t] = Area(p, alloc_sz[p])
                    /\ alloc_sz[p] \in 1..(nunits - p)
                    /\ t \notin overtaken
  <2> SUFFICES ASSUME Current(t)
               PROVE  /\ mem[t] = Area(p, alloc_sz[p])
                      /\ alloc_sz[p] \in 1..(nunits - p)
                      /\ t \notin overtaken
    OBVIOUS
  <2>1. p \in mem[t] /\ mem[t] = Area(p, alloc_sz[p])
    BY <1>3, BaseReserved, Zenon
  <2>2. mem[t] \subseteq Units /\ nunits = PoolUnits
    BY <1>4, Zenon DEF MempoolInv, TypeOK, Current, Sound
  <2>3. p \in Int /\ PoolUnits \in Nat
    BY <1>4, ConstantTypes, SMTT(30) DEF Units
  <2> HIDE DEF p
  <2>4. alloc_sz[p] # 0
    BY <2>1, <2>3, SMTT(30) DEF Area
  <2>5. p + alloc_sz[p] - 1 \in mem[t]
    BY <1>4, <2>1, <2>3, <2>4, SMTT(30) DEF Area
  <2>6. alloc_sz[p] \in 1..(nunits - p)
    BY <1>4, <2>2, <2>3, <2>4, <2>5, SMTT(30) DEF Units
  <2>7. t \notin overtaken
    BY <1>3, Zenon DEF Current, Sound
  <2> QED BY <2>1, <2>6, <2>7, Zenon
<1>8. CASE alloc_sz[p] \in 1..(nunits - p)
  <2>1. sz' = [sz EXCEPT ![t] = alloc_sz[p]] /\ UNCHANGED <<map, freeing, overtaken>>
    BY <1>8, Zenon DEF vfree_look
  <2>2. /\ sz'[t] = alloc_sz[p]
        /\ \A u \in Threads \ {t} : sz'[u] = sz[u]
    BY <2>1, <1>4, SMTT(30) DEF TypeOK
  <2>3. TypeOK'
    BY <1>1, <1>4, <1>5, <2>1, SMTT(30) DEF TypeOK
  <2>4. sz'[t] # 0
    <3>1. nunits - p \in Int
      BY <1>4, ConstantTypes, SMTT(30) DEF TypeOK, Units
    <3> QED BY <3>1, <1>4, <1>8, <2>2, SMTT(30)
  <2>5. ThreadInv(t)'
    BY <1>1, <1>2, <1>3, <1>5, <2>1, <2>4, Zenon DEF ThreadInv, NoUnit
  <2>6. Current(t) => Claim'[t] = Claim[t]
    <3>1. t \notin overtaken => Leaving(t)' = Area(p, alloc_sz[p])
      BY <1>2, <2>1, <2>2, Zenon DEF Leaving, Area
    <3> QED BY <3>1, <1>5, <1>6, <1>7, Zenon DEF Claim
  <2>7. Sound(map'[t]) => Claim'[t] \subseteq Claim[t]
    <3>1. CASE t \in overtaken
      <4>1. Leaving(t)' = {}
        BY <3>1, <2>1, Zenon DEF Leaving
      <4> QED BY <4>1, <1>5, Zenon DEF Claim
    <3>2. CASE t \notin overtaken
      BY <3>2, <1>3, <2>1, <2>6, Zenon DEF Current
    <3> QED BY <3>1, <3>2, Zenon
  <2>8. \A u \in Threads \ {t} :
          /\ mem'[u] = mem[u] /\ map'[u] = map[u] /\ base'[u] = base[u]
          /\ fields'[u] = fields[u] /\ freeing'[u] = freeing[u] /\ sz'[u] = sz[u]
          /\ u \in overtaken' <=> u \in overtaken
    BY <1>1, <1>5, <2>1, <2>2, Zenon
  <2> QED BY <1>1, <1>5, <2>1, <2>3, <2>5, <2>6, <2>7, <2>8, ClaimKept, Zenon
<1>9. CASE alloc_sz[p] \notin 1..(nunits - p)
  <2>1. /\ Return(t)
        /\ freeing' = [freeing EXCEPT ![t] = NoUnit]
        /\ overtaken' = overtaken \ {t}
        /\ UNCHANGED sz
    BY <1>9, Zenon DEF vfree_look
  <2>2. map' = [map EXCEPT ![t] = 0]
    BY <1>1, <1>3, <2>1, Zenon DEF Return
  <2>3. /\ map'[t] = 0 /\ freeing'[t] = NoUnit
        /\ \A u \in Threads \ {t} : map'[u] = map[u] /\ freeing'[u] = freeing[u]
    BY <2>1, <2>2, <1>4, SMTT(30) DEF TypeOK
  <2>4. TypeOK'
    BY <1>1, <1>4, <1>5, <2>1, <2>2, SMTT(30) DEF TypeOK
  <2>5. ThreadInv(t)'
    BY <1>1, <1>2, <1>3, <1>5, <2>1, <2>3, Zenon DEF ThreadInv, NoUnit
  <2>6. ~Current(t) /\ ~Sound(map'[t])
    BY <1>7, <1>9, <2>3, Zenon DEF Sound
  <2>7. \A u \in Threads \ {t} :
          /\ mem'[u] = mem[u] /\ map'[u] = map[u] /\ base'[u] = base[u]
          /\ fields'[u] = fields[u] /\ freeing'[u] = freeing[u] /\ sz'[u] = sz[u]
          /\ u \in overtaken' <=> u \in overtaken
    BY <1>1, <1>5, <2>1, <2>3, Zenon
  <2> QED BY <1>1, <1>5, <2>3, <2>4, <2>5, <2>6, <2>7, ClaimKept, Zenon
<1> QED BY <1>8, <1>9, Zenon

\* kgpu_vfree, under the lock, releases what only this thread has a claim to,
\* or, overtaken, what nobody has a claim to, or it strikes the mapping.
LEMMA ClearStep ==
  ASSUME MempoolInv, NEW t \in Threads, vfree_clear(t)
  PROVE  MempoolInv'
<1> DEFINE A == Area(freeing[t], sz[t])
<1>1. UNCHANGED <<nunits, arrays, kva, maps, oops, mem, base, fields>>
  BY Zenon DEF vfree_clear
<1>2. /\ bitmap' = bitmap \ A
      /\ alloc_sz' = [alloc_sz EXCEPT ![freeing[t]] = 0]
      /\ freeing' = [freeing EXCEPT ![t] = NoUnit]
      /\ sz' = [sz EXCEPT ![t] = 0]
      /\ overtaken' = overtaken \ {t}
      /\ struck' = IF t \in overtaken /\ A \cap bitmap # {} THEN struck \cup {kva} ELSE struck
      /\ Return(t)
  BY Zenon DEF vfree_clear
<1>3. TypeOK /\ (\A u \in Threads : ThreadInv(u))
  BY Zenon DEF MempoolInv
<1>4. sz[t] \in Nat /\ sz[t] # 0
  BY <1>3, SMTT(30) DEF vfree_clear, TypeOK
<1>5. /\ freeing[t] # NoUnit /\ mem[t] = {} /\ fields[t] = {}
      /\ IF t \in overtaken THEN kva # 0 => map[t] # kva ELSE map[t] = kva
  BY <1>3, <1>4, Zenon DEF ThreadInv
<1>6. freeing[t] \in Units /\ freeing[t] \in A
  <2>1. freeing[t] \in Units
    BY <1>3, <1>5, Zenon DEF TypeOK
  <2>2. freeing[t] \in Nat
    BY <2>1, UnitFacts, Zenon
  <2> QED BY <1>4, <2>1, <2>2, SMTT(30) DEF Area
<1> HIDE DEF A
<1>7. map' = [map EXCEPT ![t] = 0]
  BY <1>1, <1>2, <1>5, Zenon DEF Return
<1>8. /\ map'[t] = 0 /\ freeing'[t] = NoUnit /\ sz'[t] = 0
      /\ \A u \in Threads \ {t} :
           map'[u] = map[u] /\ freeing'[u] = freeing[u] /\ sz'[u] = sz[u]
  BY <1>2, <1>3, <1>7, SMTT(30) DEF TypeOK
<1>9. TypeOK'
  <2>1. struck' \subseteq 0..maps
    BY <1>2, <1>3, Zenon DEF TypeOK
  <2> QED BY <2>1, <1>1, <1>2, <1>3, <1>6, <1>7, SMTT(30) DEF TypeOK
<1>10. ASSUME NEW u \in Threads, u # t
       PROVE  ThreadInv(u)' /\ Leaving(u)' = Leaving(u) /\ Claim'[u] = Claim[u]
  <2>1. u \in overtaken' <=> u \in overtaken
    BY <1>2, <1>10, Zenon
  <2> QED BY <1>1, <1>3, <1>8, <1>10, <2>1, SameThread, Zenon
<1>11. ThreadInv(t)'
  <2>1. t \notin overtaken'
    BY <1>2, Zenon
  <2> QED BY <1>1, <1>5, <1>8, <2>1, Zenon DEF ThreadInv
<1>12. ASSUME NEW m, Sound(m)' PROVE Sound(m)
  BY <1>2, <1>12, Zenon DEF Sound
<1>13. ASSUME Sound(kva)', NEW u \in Threads, u # t, map[u] = kva
       PROVE  Current(u) /\ Claim[u] \subseteq bitmap /\ Claim[u] \cap A = {}
  <2>1. Sound(kva)
    BY <1>12, <1>13, <1>1, Zenon DEF Sound
  <2>2. Current(u) /\ Claim[u] \subseteq bitmap
    BY <1>13, <2>1, Zenon DEF MempoolInv, Current
  <2>3. CASE t \in overtaken
    <3>1. A \cap bitmap = {}
      BY <1>1, <1>2, <1>13, <2>3, Zenon DEF Sound
    <3> QED BY <2>2, <3>1, Zenon
  <2>4. CASE t \notin overtaken
    <3>1. Leaving(t) = A
      BY <1>5, <2>4, Zenon DEF Leaving, A
    <3>2. Claim[t] = A
      BY <1>5, <3>1, SMTT(30) DEF Claim
    <3>3. Claim[u] \cap Claim[t] = {}
      BY <1>5, <1>13, <2>1, <2>4, Zenon DEF MempoolInv, ClaimsDisjoint
    <3> QED BY <2>2, <3>2, <3>3, Zenon
  <2> QED BY <2>3, <2>4, Zenon
<1>14. ASSUME NEW u \in Threads, Current(u)'
       PROVE  /\ u # t /\ map[u] = kva /\ Current(u)
              /\ Claim[u] \subseteq bitmap /\ Claim[u] \cap A = {}
  <2>1. Sound(kva)' /\ map'[u] = kva /\ kva # 0
    BY <1>1, <1>14, Zenon DEF Current, Sound
  <2>2. u # t /\ map[u] = kva
    BY <1>8, <2>1, Zenon
  <2> QED BY <1>13, <2>1, <2>2, Zenon
<1>15. LiveReserved'
  <2> SUFFICES ASSUME NEW u \in Threads, Current(u)', mem[u] # {}
               PROVE  /\ mem[u] \subseteq bitmap'
                      /\ mem[u] = Area(base[u], alloc_sz'[base[u]])
    BY <1>1, Zenon DEF LiveReserved, Area
  <2>1. /\ base[u] \in mem[u]
        /\ mem[u] = Area(base[u], alloc_sz[base[u]])
        /\ mem[u] \subseteq bitmap
    BY <1>14, BaseReserved, Zenon
  <2>2. mem[u] \cap A = {}
    BY <1>14, Zenon DEF Claim
  <2>3. base[u] # freeing[t]
    BY <1>6, <2>1, <2>2, Zenon
  <2>4. alloc_sz'[base[u]] = alloc_sz[base[u]]
    BY <1>2, <1>3, <2>3, SMTT(30) DEF TypeOK
  <2> QED BY <1>2, <2>1, <2>2, <2>4, Zenon
<1>16. ClaimsDisjoint'
  <2> SUFFICES ASSUME NEW u \in Threads, NEW v \in Threads,
                      u # v, map'[u] = map'[v], map'[u] # 0, map'[u] \notin struck'
               PROVE  Claim'[u] \cap Claim'[v] = {}
    BY Zenon DEF ClaimsDisjoint, Sound
  <2>1. u # t /\ v # t /\ map[u] = map[v]
    BY <1>8, Zenon
  <2>2. Sound(map[u])
    BY <1>2, <1>8, <2>1, Zenon DEF Sound
  <2>3. Claim[u] \cap Claim[v] = {}
    BY <2>1, <2>2, Zenon DEF MempoolInv, ClaimsDisjoint
  <2> QED BY <1>10, <2>1, <2>3, Zenon
<1>17. NoUnitLost'
  <2> SUFFICES ASSUME Sound(kva)'
               PROVE  bitmap' = UNION { mem'[w] \cup Leaving(w)' :
                                          w \in { u \in Threads : map'[u] = kva } }
    BY <1>1, Zenon DEF NoUnitLost, Leaving
  <2>1. Sound(kva) /\ kva # 0
    BY <1>1, <1>12, Zenon DEF Sound
  <2>2. bitmap = UNION { mem[w] \cup Leaving(w) : w \in { u \in Threads : map[u] = kva } }
    BY <2>1, Zenon DEF MempoolInv, NoUnitLost
  <2>3. ASSUME NEW w \in Threads
        PROVE  map'[w] = kva <=> w # t /\ map[w] = kva
    BY <1>8, <2>1, Zenon
  <2>4. ASSUME NEW w \in Threads, w # t, map[w] = kva
        PROVE  /\ mem'[w] \cup Leaving(w)' = mem[w] \cup Leaving(w)
               /\ (mem[w] \cup Leaving(w)) \cap A = {}
    <3>1. Claim[w] = mem[w] \cup Leaving(w)
      BY SMTT(30) DEF Claim
    <3> QED BY <3>1, <1>1, <1>10, <1>13, <2>4, Zenon
  <2>5. map[t] = kva => mem[t] \cup Leaving(t) \subseteq A
    BY <1>5, <2>1, Zenon DEF Leaving, A
  <2> QED BY <1>2, <2>2, <2>3, <2>4, <2>5, SMTT(30)
<1>18. ASSUME NEW u \in Threads
       PROVE  (Current(u)' => Claim'[u] \subseteq bitmap') /\ ThreadInv(u)'
  <2>1. Current(u)' => Claim'[u] \subseteq bitmap'
    BY <1>2, <1>10, <1>14, Zenon
  <2> QED BY <2>1, <1>10, <1>11, Zenon
<1>19. kva' # 0 => nunits' = PoolUnits /\ arrays' = {"bitmap", "alloc_sz"}
  BY <1>1, Zenon DEF MempoolInv
<1> QED BY <1>9, <1>15, <1>16, <1>17, <1>18, <1>19, Zenon DEF MempoolInv

\* Every step keeps the books of the pool.
LEMMA NextInv ==
  ASSUME PlainClients
  PROVE  MempoolInv /\ [Next]_vars => MempoolInv'
<1> SUFFICES ASSUME MempoolInv, [Next]_vars PROVE MempoolInv'
  OBVIOUS
<1>1. CASE set_gpu_mempool
  BY <1>1, SetStep, Zenon
<1>2. CASE \E t \in Threads : \E nbytes \in Sizes : kgpu_vmalloc(t, nbytes)
  BY <1>2, VmallocStep, Zenon
<1>3. CASE \E t \in Threads : vmalloc_oops(t)
  <2>1. /\ oops' \in BOOLEAN
        /\ UNCHANGED <<nunits, arrays, bitmap, alloc_sz, kva, maps>>
        /\ UNCHANGED <<mem, map, base, fields, freeing, sz, overtaken, struck>>
    BY <1>3, Zenon DEF vmalloc_oops, clients, frees
  <2> QED BY <2>1, SameBooks, Zenon
<1>4. CASE \E t \in Threads : \E p \in Units : kgpu_vfree(t, p)
  BY <1>4, VfreeStep, Zenon
<1>5. CASE \E t \in Threads : vfree_look(t)
  BY <1>5, LookStep, Zenon
<1>6. CASE \E t \in Threads : vfree_clear(t)
  BY <1>6, ClearStep, Zenon
<1>7. CASE UNCHANGED vars
  <2>1. /\ UNCHANGED <<nunits, arrays, bitmap, alloc_sz, kva, maps, oops>>
        /\ UNCHANGED <<mem, map, base, fields, freeing, sz, overtaken, struck>>
    BY <1>7, Zenon DEF vars, pool, clients, frees
  <2>2. oops' \in BOOLEAN
    BY <2>1, Zenon DEF MempoolInv, TypeOK
  <2> QED BY <2>1, <2>2, SameBooks, Zenon
<1> QED BY <1>1, <1>2, <1>3, <1>4, <1>5, <1>6, <1>7, Zenon DEF Next

\* The claims of two threads being disjoint, so are their allocations.
LEMMA InvImplies == MempoolInv => LiveDisjoint
<1>1. \A t \in Threads : Claim[t] = mem[t] \cup Leaving(t)
  BY SMTT(30) DEF Claim
<1> QED BY <1>1, ZenonT(30) DEF MempoolInv, ClaimsDisjoint, LiveDisjoint

\* The inductive invariant holds throughout, for every pool size and any
\* number of threads that use kgpu_vmalloc and kgpu_vfree plainly, with the
\* helper setting the pool up at any moment.
THEOREM PoolInv ==
  ASSUME PlainClients
  PROVE  Spec => []MempoolInv
BY InitInv, NextInv, PTL DEF Spec

\* No unit of the pool is ever in two allocations, nor in an allocation and in
\* a kgpu_vfree that has looked at alloc_sz and not yet taken the lock, unless
\* the mapping has lost marked units to a kgpu_vfree that set_gpu_mempool overtook.
THEOREM AllocationsAreDisjoint ==
  ASSUME PlainClients
  PROVE  Spec => []LiveDisjoint
BY PoolInv, InvImplies, PTL

\* No unit of a mapped pool is lost, and none is marked that nobody has:
\* kgpu_vfree releases all that kgpu_vmalloc reserved, with the same exception.
THEOREM NoUnitIsLost ==
  ASSUME PlainClients
  PROVE  Spec => []NoUnitLost
<1>1. MempoolInv => NoUnitLost
  BY SMTT(30) DEF MempoolInv
<1> QED BY <1>1, PoolInv, PTL

-----------------------------------------------------------------------------
\* Rounding up, without a bound on the numbers.
LEMMA RoundUp ==
  ASSUME NEW u \in Nat \ {0}, NEW x \in Nat
  PROVE  /\ (x + u - 1) \div u \in Nat
         /\ ((x + u - 1) \div u) * u >= x
         /\ ((x + u - 1) \div u) * u < x + u
<1>1. ASSUME NEW y \in Nat PROVE y \div u \in Nat /\ y = (y \div u) * u + (y % u) /\ y % u \in 0..(u - 1)
  BY SMT
<1> DEFINE q == (x + u - 1) \div u
           m == (x + u - 1) % u
<1>2. q \in Nat /\ m \in 0..(u - 1) /\ x + u - 1 = q * u + m
  <2>1. x + u - 1 \in Nat
    BY SMT
  <2> QED BY <1>1, <2>1, Zenon
<1> HIDE DEF q, m
<1>3. q * u \in Nat
  BY <1>2, SMT
<1>4. q * u >= x /\ q * u < x + u
  BY <1>2, <1>3, SMT
<1> QED BY <1>2, <1>4, Zenon DEF q

\* The sizes for which the units of kgpu_vmalloc hold the bytes: adding the unit
\* size does not overflow an unsigned long, and the units fit an unsigned int.
Fits(nbytes) == nbytes + UnitSize <= ULong /\ nbytes <= (UInt - 1) * UnitSize

\* kgpu_vmalloc rounds up in unsigned longs and keeps the units in an unsigned
\* int: the units hold the bytes exactly if the size fits, and then they are no
\* more than needed.
THEOREM UnitsHoldTheBytes ==
  ASSUME NEW nbytes \in 0..(ULong - 1)
  PROVE  /\ ReqUnits(nbytes) \in 0..(UInt - 1)
         /\ ReqUnits(nbytes) * UnitSize >= nbytes <=> Fits(nbytes)
         /\ Fits(nbytes) => ReqUnits(nbytes) * UnitSize < nbytes + UnitSize
<1> DEFINE x == nbytes + UnitSize - 1
           q == (x % ULong) \div UnitSize
           n == ReqUnits(nbytes)
<1>1. /\ UnitSize \in Nat \ {0} /\ ULong \in Nat \ {0} /\ UInt \in Nat \ {0}
      /\ UnitSize <= ULong /\ nbytes \in Nat /\ nbytes < ULong
  BY ConstantTypes, SMT
<1>2. n = q % UInt
  BY Zenon DEF ReqUnits
<1>3. CASE nbytes + UnitSize <= ULong
  <2>1. x \in Nat /\ x < ULong
    BY <1>1, <1>3, SMT
  <2>2. x % ULong = x
    BY <1>1, <2>1, SMT
  <2>3. q = (nbytes + UnitSize - 1) \div UnitSize
    BY <2>2, Zenon
  <2>4. q \in Nat /\ q * UnitSize >= nbytes /\ q * UnitSize < nbytes + UnitSize
    BY <1>1, <2>3, RoundUp, Zenon
  <2> HIDE DEF q, n
  <2>5. CASE q <= UInt - 1
    <3>1. n = q
      BY <1>1, <1>2, <2>4, <2>5, SMT
    <3>2. q * UnitSize <= (UInt - 1) * UnitSize
      BY <1>1, <2>4, <2>5, SMT
    <3>3. nbytes <= (UInt - 1) * UnitSize
      <4>1. q * UnitSize \in Int /\ (UInt - 1) * UnitSize \in Int
        BY <1>1, <2>4, SMT
      <4> QED BY <1>1, <2>4, <3>2, <4>1, SMT
    <3>4. n \in 0..(UInt - 1)
      BY <1>1, <2>4, <2>5, <3>1, SMT
    <3> QED BY <1>3, <2>4, <3>1, <3>3, <3>4, Zenon DEF Fits, n
  <2>6. CASE ~(q <= UInt - 1)
    <3>1. n \in 0..(UInt - 1)
      BY <1>1, <1>2, <2>4, SMT
    <3>2. n * UnitSize <= (UInt - 1) * UnitSize
      BY <1>1, <3>1, SMT
    <3>3. UInt * UnitSize <= q * UnitSize
      BY <1>1, <2>4, <2>6, SMT
    <3>4. UInt * UnitSize = (UInt - 1) * UnitSize + UnitSize
      BY <1>1, SMT
    <3>5. /\ q * UnitSize \in Int /\ (UInt - 1) * UnitSize \in Int
          /\ n * UnitSize \in Int /\ UInt * UnitSize \in Int
      BY <1>1, <2>4, <3>1, SMT
    <3>6. nbytes > (UInt - 1) * UnitSize
      BY <1>1, <2>4, <3>3, <3>4, <3>5, SMT
    <3>7. ~(n * UnitSize >= nbytes) /\ ~(nbytes <= (UInt - 1) * UnitSize)
      BY <1>1, <3>2, <3>5, <3>6, SMT
    <3> QED BY <3>1, <3>7, Zenon DEF Fits, n
  <2> QED BY <2>5, <2>6, Zenon
<1>4. CASE ~(nbytes + UnitSize <= ULong)
  <2>1. x \in Nat /\ x >= ULong /\ x - ULong < UnitSize /\ x - ULong < ULong
    BY <1>1, <1>4, SMT
  <2>2. x % ULong = x - ULong
    <3>1. (x - ULong) % ULong = x - ULong
      BY <1>1, <2>1, SMT
    <3>2. x = (x - ULong) + ULong
      BY <1>1, <2>1, SMT
    <3> QED BY <1>1, <2>1, <3>1, <3>2, SMT
  <2>3. (x - ULong) \div UnitSize = 0
    BY <1>1, <2>1, SMT
  <2>4. q = 0
    BY <2>2, <2>3, Zenon
  <2> HIDE DEF q, n
  <2>5. n = 0
    BY <1>1, <1>2, <2>4, SMT
  <2>6. n \in 0..(UInt - 1) /\ ~(n * UnitSize >= nbytes)
    BY <1>1, <1>4, <2>5, SMT
  <2> QED BY <1>4, <2>6, Zenon DEF Fits, n
<1> QED BY <1>3, <1>4, Zenon

\* The memory that kgpu_vmalloc returns is inside the pool and is recorded with
\* the size that kgpu_vfree will find, and it has room for the bytes asked for
\* exactly if their number fits.
RoomForBytes ==
  \A t \in Threads, nbytes \in Sizes :
    kgpu_vmalloc(t, nbytes) /\ fields'[t] # {} =>
      /\ mem'[t] \subseteq Units
      /\ mem'[t] = Area(base'[t], alloc_sz'[base'[t]])
      /\ alloc_sz'[base'[t]] * UnitSize >= nbytes <=> Fits(nbytes)

\* Every allocation of a size that fits has room for the bytes that the client
\* asked kgpu_vmalloc for, and no other has.
THEOREM AllocationsHaveRoom ==
  ASSUME PlainClients
  PROVE  Spec => [][RoomForBytes]_vars
<1>1. ASSUME MempoolInv, NEW t \in Threads, NEW nbytes \in Sizes,
             kgpu_vmalloc(t, nbytes), fields'[t] # {}
      PROVE  /\ mem'[t] \subseteq Units
             /\ mem'[t] = Area(base'[t], alloc_sz'[base'[t]])
             /\ alloc_sz'[base'[t]] * UnitSize >= nbytes <=> Fits(nbytes)
  <2> DEFINE n == ReqUnits(nbytes)
  <2>1. n \in Nat \ {0} /\ nbytes \in 0..(ULong - 1)
    BY MempoolAssumption, Zenon DEF PlainClients
  <2>2. n * UnitSize >= nbytes <=> Fits(nbytes)
    BY <2>1, UnitsHoldTheBytes, Zenon
  <2>3. PICK i \in ZeroAreas(n) :
          /\ alloc_sz' = [alloc_sz EXCEPT ![i] = n]
          /\ IF kva # 0 \/ i > 0 THEN Take(t, i, n) ELSE UNCHANGED clients
    BY <1>1, Zenon DEF kgpu_vmalloc
  <2> HIDE DEF n
  <2>4. TypeOK
    BY <1>1, Zenon DEF MempoolInv
  <2>5. i \in Units /\ Area(i, n) \subseteq Units
    BY <2>1, <2>3, <2>4, AreaFacts, Zenon
  <2>6. Take(t, i, n)
    <3>1. fields[t] = {}
      BY <1>1, Zenon DEF kgpu_vmalloc, Idle
    <3> QED BY <1>1, <2>3, <3>1, Zenon DEF clients
  <2>7. mem'[t] = Area(i, n) /\ base'[t] = i
    BY <2>4, <2>6, Zenon DEF Take, TypeOK
  <2>8. alloc_sz'[i] = n
    BY <2>3, <2>4, <2>5, Zenon DEF TypeOK
  <2> QED BY <2>2, <2>5, <2>7, <2>8, Zenon
<1>2. MempoolInv /\ [Next]_vars => [RoomForBytes]_vars
  BY <1>1, Zenon DEF RoomForBytes
<1> QED BY <1>2, PoolInv, PTL DEF Spec

=============================================================================
