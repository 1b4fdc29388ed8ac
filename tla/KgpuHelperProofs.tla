-------------------------- MODULE KgpuHelperProofs --------------------------
(***************************************************************************)
(* The invariant of the helper, for any numbers of requests and streams,   *)
(* and what each of its steps does to the requests.                        *)
(***************************************************************************)
EXTENDS KgpuHelper, LinkedListLemmas

\* Every unfinished request is on one list, once.  What is left of a pass has no
\* request twice, and kh_service_done has one.
PlaceInv ==
  /\ IsInjective(all_reqs)
  /\ \A l \in Lists : IsInjective(lists[l]) /\ On(l) \subseteq Live
  /\ \A i \in Live : \E l \in Lists : i \in On(l)
  /\ \A k, l \in Lists : \A i \in On(k) : i \in On(l) => k = l
  /\ IsInjective(todo)
  /\ hpc \in Lists => Range(todo) \subseteq On(hpc)
  /\ hpc = "cleanup" => todo # <<>> /\ Range(todo) \subseteq On("done")

\* What the stages have done for the requests on their lists: they have a
\* stream from kh_prepare_exec on, and only done_reqs has failures or unknown
\* services.
StageInv ==
  \A i \in Live :
    /\ i \in On("init") \/ i \in On("memdone") => sr[i].stream_id = NoStream
    /\ i \in On("prepared") \/ i \in On("running") \/ i \in On("post_exec") =>
         sr[i].stream_id # NoStream
    /\ i \notin On("done") => sr[i].errcode = 0 /\ sr[i].service \in Registered

\* KGPU_NO_SERVICE is for requests with an unknown service, and the other codes
\* come from the services.
ErrcodeInv ==
  \A i \in Live :
    \/ sr[i].service \in Registered /\ sr[i].errcode \in ServErrs \cup {0}
    \/ sr[i].service \notin Registered /\ sr[i].errcode = 2

\* The streams in use are those of unfinished requests, one each; the memory
\* that is pinned is that of unfinished requests past kh_request_alloc_mem.
StreamInv ==
  hpc # "aborted" =>
    /\ \A i \in Live : sr[i].stream_id # NoStream => sr[i].stream_id \in streamuses
    /\ \A s \in streamuses : \E i \in Live : sr[i].stream_id = s
    /\ \A i, j \in Live :
         sr[i].stream_id # NoStream /\ sr[i].stream_id = sr[j].stream_id => i = j

PinInv ==
  hpc # "aborted" =>
    \A i \in Ids : i \in pinned <=> /\ i \in Live
                                    /\ sr[i].mem = "vma"
                                    /\ sr[i].service \in Registered
                                    /\ i \notin On("init")

\* The GPU works for unfinished requests, each on its own stream, and a
\* successful one has no work left.
GpuInv ==
  \A s \in Streams : \A i \in Range(gpu[s]) : i # NoRequest =>
    /\ i \in Live /\ sr[i].stream_id = s
    /\ i \in On("done") => sr[i].errcode # 0

\* The inductive invariant.
HelperInv ==
  /\ HelperTypeOK /\ PlaceInv /\ StageInv /\ ErrcodeInv
  /\ StreamInv /\ PinInv /\ GpuInv

-----------------------------------------------------------------------------
(***************************************************************************)
(* Lists, passes and work.                                                 *)
(***************************************************************************)

\* The helper has only requests with ids.
LEMMA LiveIds == HelperTypeOK => Live \subseteq Ids
<1> SUFFICES ASSUME HelperTypeOK PROVE Live \subseteq Ids
  OBVIOUS
<1>1. all_reqs \in Seq(Ids)
  BY Zenon DEF HelperTypeOK
<1> QED
  BY <1>1, LenProperties, SMTT(30) DEF Live, Range

\* The request a pass is at is on the list of the pass.
LEMMA AtFacts ==
  ASSUME HelperInv, NEW i \in Ids, NEW s \in Lists, At(s, i)
  PROVE  /\ hpc = s /\ i \in On(s) /\ i \in Live
         /\ todo \in Seq(Ids) /\ todo # <<>> /\ IsInjective(todo)
         /\ i = Head(todo) /\ Range(todo) \subseteq On(s)
<1>1. todo \in Seq(Ids) /\ IsInjective(todo) /\ todo # <<>> /\ hpc = s /\ i = Head(todo)
  BY Zenon DEF HelperInv, HelperTypeOK, PlaceInv, At
<1>2. Head(todo) \in Range(todo)
  BY <1>1, TailSet, Zenon
<1>3. Range(todo) \subseteq On(s) /\ On(s) \subseteq Live
  BY <1>1, Zenon DEF HelperInv, PlaceInv
<1> QED
  BY <1>1, <1>2, <1>3, Zenon

\* list_del and list_add_tail move a request from one list to another.
LEMMA MoveSets ==
  ASSUME HelperTypeOK, PlaceInv, UNCHANGED all_reqs,
         NEW from \in Lists, NEW to \in Lists, from # to,
         NEW i \in On(from), Move(i, from, to)
  PROVE  /\ lists' \in [Lists -> Seq(Ids)]
         /\ \A l \in Lists : IsInjective(lists'[l])
         /\ \A l \in Lists : i \in On(l)' <=> l = to
         /\ \A l \in Lists : \A j : j # i => (j \in On(l)' <=> j \in On(l))
         /\ Live' = Live
<1> DEFINE F == list_del(lists[from], i)
           T == Append(lists[to], i)
<1>1. lists \in [Lists -> Seq(Ids)] /\ \A l \in Lists : IsInjective(lists[l])
  BY Zenon DEF HelperTypeOK, PlaceInv
<1>2. i \in Ids /\ \A l \in Lists : i \in On(l) => l = from
  BY LiveIds, Zenon DEF PlaceInv
<1>3. F \in Seq(Ids) /\ IsInjective(F) /\ Range(F) = Range(lists[from]) \ {i}
  BY <1>1, ListDelSet, Zenon DEF On
<1>4. T \in Seq(Ids) /\ IsInjective(T) /\ Range(T) = Range(lists[to]) \cup {i}
  <2>1. lists[to] \in Seq(Ids) /\ IsInjective(lists[to]) /\ i \notin Range(lists[to])
    BY <1>1, <1>2, Zenon DEF On
  <2> QED
    BY <1>2, <2>1, AppendSet, SMTT(30)
<1>5. /\ lists' \in [Lists -> Seq(Ids)]
      /\ lists'[from] = F /\ lists'[to] = T
      /\ \A l \in Lists : l # from /\ l # to => lists'[l] = lists[l]
  <2> DEFINE G == [lists EXCEPT ![from] = F]
  <2>1. lists' = [G EXCEPT ![to] = T]
    BY <1>1, SMTT(30) DEF Move
  <2> HIDE DEF F, T
  <2>2. /\ G \in [Lists -> Seq(Ids)] /\ G[from] = F
        /\ \A l \in Lists : l # from => G[l] = lists[l]
    BY <1>1, <1>3, SMTT(30)
  <2> HIDE DEF G
  <2> QED
    BY <1>4, <2>1, <2>2, SMTT(30)
<1> HIDE DEF F, T
<1>6. \A l \in Lists : IsInjective(lists'[l])
  BY <1>1, <1>3, <1>4, <1>5, Zenon
<1>7. /\ On(from)' = On(from) \ {i}
      /\ On(to)' = On(to) \cup {i}
      /\ \A l \in Lists : l # from /\ l # to => On(l)' = On(l)
  BY <1>3, <1>4, <1>5, Zenon DEF On
<1>8. Live' = Live
  BY Zenon DEF Live
<1> QED
  BY <1>2, <1>5, <1>6, <1>7, <1>8, Zenon

\* A pass starts with the whole of the list it is about.
LEMMA BeginPass ==
  ASSUME NEW s \in Stages, Begin(s),
         lists' \in [Lists -> Seq(Ids)], \A l \in Lists : IsInjective(lists'[l])
  PROVE  /\ hpc' \in Stages /\ todo' \in Seq(Ids) /\ IsInjective(todo')
         /\ hpc' \in Lists => Range(todo') \subseteq On(hpc)'
<1>1. Following[s] \in Stages /\ (Following[s] # "get" => Following[s] \in Lists)
  BY SMTT(30) DEF Following, Stages, Lists
<1>2. CASE Following[s] = "get"
  <2>1. hpc' = "get" /\ todo' = <<>> /\ "get" \notin Lists /\ "get" \in Stages
    BY <1>2, SMTT(30) DEF Begin, Lists, Stages
  <2> QED
    BY <2>1, EmptyList, EmptySeq, Zenon
<1>3. CASE Following[s] # "get"
  <2>1. hpc' = Following[s] /\ todo' = lists'[hpc'] /\ hpc' \in Lists
    BY <1>1, <1>3, Zenon DEF Begin
  <2> QED
    BY <1>1, <2>1, Zenon DEF On
<1> QED
  BY <1>2, <1>3, Zenon

\* After a call the pass goes on with the requests still on its list.
LEMMA GoOnPass ==
  ASSUME NEW s \in Lists, NEW r, GoOn(s, r),
         todo \in Seq(Ids), todo # <<>>, IsInjective(todo),
         lists' \in [Lists -> Seq(Ids)], \A l \in Lists : IsInjective(lists'[l]),
         Range(todo) \ {Head(todo)} \subseteq On(s)'
  PROVE  /\ hpc' \in Stages /\ todo' \in Seq(Ids) /\ IsInjective(todo')
         /\ hpc' \in Lists => Range(todo') \subseteq On(hpc)'
<1>1. s \in Stages
  BY Zenon DEF Stages
<1>2. CASE Begin(s)
  BY <1>1, <1>2, BeginPass, Zenon
<1>3. CASE hpc' = s /\ todo' = Tail(todo)
  BY <1>1, <1>3, TailSet, Zenon DEF On
<1> QED
  BY <1>2, <1>3, Zenon DEF GoOn

\* Work on a stream belongs to the request it is queued for.
LEMMA QueueSets ==
  ASSUME HelperTypeOK, NEW s \in Streams, NEW i \in Ids, Queue(s, i)
  PROVE  /\ gpu' \in [Streams -> Seq(Owners)]
         /\ \A u \in Streams : \A j \in Range(gpu'[u]) :
              j \in Range(gpu[u]) \/ (j = i /\ u = s)
<1>1. gpu \in [Streams -> Seq(Owners)]
  BY Zenon DEF HelperTypeOK
<1>2. Append(gpu[s], i) \in Seq(Owners) /\ Range(Append(gpu[s], i)) = Range(gpu[s]) \cup {i}
  <2>1. gpu[s] \in Seq(Owners) /\ i \in Owners
    BY <1>1, Zenon DEF Owners
  <2> QED
    BY <2>1, AppendRange, SMTT(30)
<1> DEFINE A == Append(gpu[s], i)
<1>3. gpu' = [gpu EXCEPT ![s] = A]
  BY <1>1, Zenon DEF Queue
<1> HIDE DEF A
<1>4. gpu' \in [Streams -> Seq(Owners)] /\ gpu'[s] = A
      /\ \A u \in Streams : u # s => gpu'[u] = gpu[u]
  BY <1>1, <1>2, <1>3, SMTT(30) DEF A
<1> QED
  BY <1>2, <1>4, Zenon DEF A

\* Work that is left behind belongs to nobody.
LEMMA DisownSets ==
  ASSUME HelperTypeOK, NEW i \in Ids, Disown(i)
  PROVE  /\ gpu' \in [Streams -> Seq(Owners)]
         /\ \A s \in Streams : \A j \in Range(gpu'[s]) : j # NoRequest =>
              j # i /\ j \in Range(gpu[s])
<1>1. gpu \in [Streams -> Seq(Owners)]
  BY Zenon DEF HelperTypeOK
<1>2. ASSUME NEW s \in Streams
      PROVE  /\ gpu'[s] \in Seq(Owners)
             /\ \A j \in Range(gpu'[s]) : j # NoRequest => j # i /\ j \in Range(gpu[s])
  <2> DEFINE g == gpu[s]
             h == [k \in DOMAIN g |-> IF g[k] = i THEN NoRequest ELSE g[k]]
  <2>1. gpu'[s] = h
    BY Zenon DEF Disown
  <2>2. g \in Seq(Owners)
    BY <1>1, Zenon
  <2> HIDE DEF g
  <2>3. Len(g) \in Nat /\ DOMAIN g = 1..Len(g) /\ \A k \in DOMAIN g : g[k] \in Owners
    BY <2>2, LenProperties, SMTT(30)
  <2>4. NoRequest \in Owners
    BY Zenon DEF Owners
  <2>5. \A k \in DOMAIN g : h[k] \in Owners
    BY <2>3, <2>4, Zenon
  <2>6. h \in [1..Len(g) -> Owners]
    BY <2>3, <2>5, Zenon
  <2>7. h \in Seq(Owners)
    <3> HIDE DEF h
    <3>1. \E n \in Nat : h \in [1..n -> Owners]
      BY <2>3, <2>6, Zenon
    <3> QED
      BY <3>1, SeqDef, SMT
  <2>8. \A j \in Range(h) : \E k \in DOMAIN g : j = h[k]
    BY Zenon DEF Range
  <2>9. \A k \in DOMAIN g : h[k] # NoRequest => h[k] # i /\ h[k] = g[k]
    BY Zenon
  <2> HIDE DEF h
  <2>10. \A j \in Range(h) : j # NoRequest => j # i /\ j \in Range(g)
    BY <2>8, <2>9, Zenon DEF Range
  <2> QED
    BY <2>1, <2>7, <2>10, Zenon DEF g
<1>3. gpu' = [s \in Streams |-> gpu'[s]]
  BY Zenon DEF Disown
<1>4. gpu' \in [Streams -> Seq(Owners)]
  BY <1>2, <1>3, Zenon
<1> QED
  BY <1>2, <1>4, Zenon

\* The lists.
LEMMA ListNames ==
  /\ "init" \in Lists /\ "memdone" \in Lists /\ "prepared" \in Lists
  /\ "running" \in Lists /\ "post_exec" \in Lists /\ "done" \in Lists
  BY Zenon DEF Lists

-----------------------------------------------------------------------------
(***************************************************************************)
(* Steps that leave every request where it is.                             *)
(***************************************************************************)

\* The helper goes on to another request or to another pass.
Waits ==
  /\ hpc \in Stages /\ UNCHANGED <<all_reqs, lists, sr, streamuses, gpu, pinned>>
  /\ hpc' \in Stages /\ todo' \in Seq(Ids) /\ IsInjective(todo')
  /\ hpc' \in Lists => Range(todo') \subseteq On(hpc)'

\* Nothing else changes then.
LEMMA WaitKeeps ==
  ASSUME HelperInv, Waits
  PROVE  HelperInv'
<1>0. /\ HelperTypeOK /\ PlaceInv /\ StageInv /\ ErrcodeInv
      /\ StreamInv /\ PinInv /\ GpuInv
  BY Zenon DEF HelperInv
<1>1. /\ hpc # "cleanup" /\ hpc # "aborted" /\ hpc' # "cleanup" /\ hpc' # "aborted"
      /\ hpc' \in Stages \cup {"cleanup", "aborted"}
  <2>1. hpc \in Stages /\ hpc' \in Stages
    BY Zenon DEF Waits
  <2> QED
    BY <2>1, SMTT(30) DEF Stages, Lists
<1>2. /\ UNCHANGED <<all_reqs, lists, sr, streamuses, gpu, pinned>>
      /\ todo' \in Seq(Ids) /\ IsInjective(todo')
      /\ hpc' \in Lists => Range(todo') \subseteq On(hpc)'
  BY Zenon DEF Waits
<1>3. Live' = Live /\ \A l : On(l)' = On(l)
  BY <1>2, Zenon DEF Live, On
<1>4. HelperTypeOK'
  BY <1>0, <1>1, <1>2, Zenon DEF HelperTypeOK
<1>5. PlaceInv'
  <2>1. \A l \in Lists : IsInjective(lists'[l])
    BY <1>0, <1>2, Zenon DEF PlaceInv
  <2>2. /\ \A l \in Lists : On(l)' \subseteq Live'
        /\ \A i \in Live' : \E l \in Lists : i \in On(l)'
    <3>1. /\ \A l \in Lists : On(l) \subseteq Live
          /\ \A i \in Live : \E l \in Lists : i \in On(l)
      BY <1>0, Zenon DEF PlaceInv
    <3> QED
      BY <1>3, <3>1, Zenon
  <2>3. \A k, l \in Lists : \A i \in On(k)' : i \in On(l)' => k = l
    <3> SUFFICES ASSUME NEW k \in Lists, NEW l \in Lists, NEW i \in On(k)', i \in On(l)'
                 PROVE  k = l
      BY Zenon
    <3>1. i \in On(k) /\ i \in On(l)
      BY <1>3, Zenon
    <3> QED
      BY <1>0, <3>1, Zenon DEF PlaceInv
  <2>4. IsInjective(all_reqs')
    BY <1>0, <1>2, Zenon DEF PlaceInv
  <2> QED
    BY <1>1, <1>2, <2>1, <2>2, <2>3, <2>4, Zenon DEF PlaceInv
<1>6. StageInv' /\ ErrcodeInv'
  BY <1>0, <1>2, <1>3, Zenon DEF StageInv, ErrcodeInv
<1>7. StreamInv' /\ PinInv'
  BY <1>0, <1>1, <1>2, <1>3, Zenon DEF StreamInv, PinInv
<1>8. GpuInv'
  BY <1>0, <1>2, <1>3, Zenon DEF GpuInv
<1> QED
  BY <1>4, <1>5, <1>6, <1>7, <1>8, Zenon DEF HelperInv

\* The next pass begins: after an empty one, or when there is nothing to read.
LEMMA BeginWaits ==
  ASSUME HelperInv, NEW s \in Stages, hpc = s, Begin(s),
         UNCHANGED <<all_reqs, lists, sr, streamuses, gpu, pinned>>
  PROVE  Waits
<1>1. lists' \in [Lists -> Seq(Ids)] /\ \A l \in Lists : IsInjective(lists'[l])
  BY Zenon DEF HelperInv, HelperTypeOK, PlaceInv
<1>2. /\ hpc' \in Stages /\ todo' \in Seq(Ids) /\ IsInjective(todo')
      /\ hpc' \in Lists => Range(todo') \subseteq On(hpc)'
  BY <1>1, BeginPass, Zenon
<1> QED
  BY <1>2, Zenon DEF Waits

\* A call leaves its request on its list: no stream is free, or the GPU is not
\* done with it.
LEMMA CallWaits ==
  ASSUME HelperInv, NEW i \in Ids, NEW s \in Lists, At(s, i), NEW r, GoOn(s, r),
         UNCHANGED <<all_reqs, lists, sr, streamuses, gpu, pinned>>
  PROVE  Waits
<1>1. lists' \in [Lists -> Seq(Ids)] /\ \A l \in Lists : IsInjective(lists'[l])
  BY Zenon DEF HelperInv, HelperTypeOK, PlaceInv
<1>2. /\ todo \in Seq(Ids) /\ todo # <<>> /\ IsInjective(todo)
      /\ Range(todo) \subseteq On(s) /\ hpc \in Stages
  BY AtFacts, Zenon DEF Stages
<1>3. On(s)' = On(s)
  BY Zenon DEF On
<1>4. /\ hpc' \in Stages /\ todo' \in Seq(Ids) /\ IsInjective(todo')
      /\ hpc' \in Lists => Range(todo') \subseteq On(hpc)'
  BY <1>1, <1>2, <1>3, GoOnPass, Zenon
<1> QED
  BY <1>2, <1>4, Zenon DEF Waits

\* The GPU completes work: there is less of it.
LEMMA GpuKeeps ==
  ASSUME HelperInv, NEW s \in Streams, GpuCompletes(s)
  PROVE  HelperInv'
<1>0. /\ HelperTypeOK /\ PlaceInv /\ StageInv /\ ErrcodeInv
      /\ StreamInv /\ PinInv /\ GpuInv
  BY Zenon DEF HelperInv
<1>1. /\ UNCHANGED <<all_reqs, lists, sr, streamuses, pinned, hpc, todo>>
      /\ gpu[s] # <<>> /\ gpu' = [gpu EXCEPT ![s] = Tail(@)]
  BY Zenon DEF GpuCompletes
<1>2. gpu \in [Streams -> Seq(Owners)]
  BY <1>0, Zenon DEF HelperTypeOK
<1>3. Tail(gpu[s]) \in Seq(Owners) /\ Range(Tail(gpu[s])) \subseteq Range(gpu[s])
  BY <1>1, <1>2, TailRange, Zenon
<1>4. /\ gpu' \in [Streams -> Seq(Owners)]
      /\ \A u \in Streams : \A j \in Range(gpu'[u]) : j \in Range(gpu[u])
  <2> DEFINE B == Tail(gpu[s])
  <2>1. gpu' = [gpu EXCEPT ![s] = B]
    BY <1>1, Zenon
  <2> HIDE DEF B
  <2>2. gpu' \in [Streams -> Seq(Owners)] /\ gpu'[s] = B
        /\ \A u \in Streams : u # s => gpu'[u] = gpu[u]
    BY <1>2, <1>3, <2>1, SMTT(30) DEF B
  <2> QED
    BY <1>3, <2>2, Zenon DEF B
<1>5. Live' = Live /\ \A l : On(l)' = On(l)
  BY <1>1, Zenon DEF Live, On
<1>6. HelperTypeOK'
  BY <1>0, <1>1, <1>4, Zenon DEF HelperTypeOK
<1>7. PlaceInv' /\ StageInv' /\ ErrcodeInv'
  BY <1>0, <1>1, <1>5, Zenon DEF PlaceInv, StageInv, ErrcodeInv
<1>8. StreamInv' /\ PinInv'
  BY <1>0, <1>1, <1>5, Zenon DEF StreamInv, PinInv
<1>9. GpuInv'
  BY <1>0, <1>1, <1>4, <1>5, Zenon DEF GpuInv
<1> QED
  BY <1>6, <1>7, <1>8, <1>9, Zenon DEF HelperInv

-----------------------------------------------------------------------------
(***************************************************************************)
(* A request goes on to another list.                                      *)
(***************************************************************************)

\* What the stages do to a request that leaves their list: the next list or, on
\* a failure, done_reqs; a stream from kh_prepare_exec; work on its stream.
Advance(i, from, to) ==
  /\ \/ from = "init" /\ to = "memdone"
     \/ from = "memdone" /\ to \in {"prepared", "done"}
     \/ from = "prepared" /\ to \in {"running", "done"}
     \/ from = "running" /\ to \in {"post_exec", "done"}
     \/ from = "post_exec" /\ to = "done"
  /\ At(from, i) /\ Move(i, from, to) /\ \E r \in Int : GoOn(from, r)
  /\ sr' \in [Ids -> ServiceRequests]
  /\ \A j \in Ids : j # i => sr'[j] = sr[j]
  /\ sr'[i].service = sr[i].service /\ sr'[i].mem = sr[i].mem
  /\ IF to = "done" /\ from # "post_exec" THEN sr'[i].errcode \in ServErrs
     ELSE sr'[i].errcode = sr[i].errcode
  /\ IF from = "memdone"
     THEN /\ sr'[i].stream_id \in Streams /\ sr'[i].stream_id \notin streamuses
          /\ streamuses' = streamuses \cup {sr'[i].stream_id}
     ELSE sr'[i].stream_id = sr[i].stream_id /\ streamuses' = streamuses
  /\ pinned' = IF from = "init" /\ sr[i].mem = "vma" THEN pinned \cup {i} ELSE pinned
  /\ gpu' \in [Streams -> Seq(Owners)]
  /\ \A s \in Streams : \A j \in Range(gpu'[s]) :
       j \in Range(gpu[s]) \/ (j = i /\ s = sr'[i].stream_id)
  /\ from = "post_exec" => \A s \in Streams : i \notin Range(gpu'[s])
  /\ UNCHANGED all_reqs

\* Where the requests are then, and what is known of the one that moved.
LEMMA AdvanceSets ==
  ASSUME HelperInv, NEW i \in Ids, NEW from, NEW to, Advance(i, from, to)
  PROVE  /\ from \in Lists /\ to \in Lists /\ from # to /\ from # "done" /\ to # "init"
         /\ hpc = from /\ i \in On(from) /\ i \in Live
         /\ lists' \in [Lists -> Seq(Ids)]
         /\ \A l \in Lists : IsInjective(lists'[l])
         /\ \A l \in Lists : i \in On(l)' <=> l = to
         /\ \A l \in Lists : \A j : j # i => (j \in On(l)' <=> j \in On(l))
         /\ Live' = Live
         /\ hpc' \in Stages /\ todo' \in Seq(Ids) /\ IsInjective(todo')
         /\ hpc' \in Lists => Range(todo') \subseteq On(hpc)'
         /\ hpc # "cleanup" /\ hpc # "aborted" /\ hpc' # "cleanup" /\ hpc' # "aborted"
<1>1. from \in Lists /\ to \in Lists /\ from # to /\ from # "done" /\ to # "init"
  BY SMTT(30) DEF Advance, Lists
<1>2. At(from, i) /\ Move(i, from, to) /\ UNCHANGED all_reqs /\ HelperTypeOK /\ PlaceInv
  BY Zenon DEF Advance, HelperInv
<1>3. /\ hpc = from /\ i \in On(from) /\ i \in Live
      /\ todo \in Seq(Ids) /\ todo # <<>> /\ IsInjective(todo)
      /\ i = Head(todo) /\ Range(todo) \subseteq On(from)
  BY <1>1, <1>2, AtFacts, Zenon
<1>4. /\ lists' \in [Lists -> Seq(Ids)]
      /\ \A l \in Lists : IsInjective(lists'[l])
      /\ \A l \in Lists : i \in On(l)' <=> l = to
      /\ \A l \in Lists : \A j : j # i => (j \in On(l)' <=> j \in On(l))
      /\ Live' = Live
  BY <1>1, <1>2, <1>3, MoveSets, SMTT(30)
<1>5. Range(todo) \ {Head(todo)} \subseteq On(from)'
  BY <1>1, <1>3, <1>4, Zenon
<1>6. PICK r \in Int : GoOn(from, r)
  BY Zenon DEF Advance
<1>7. /\ hpc' \in Stages /\ todo' \in Seq(Ids) /\ IsInjective(todo')
      /\ hpc' \in Lists => Range(todo') \subseteq On(hpc)'
  BY <1>1, <1>3, <1>4, <1>5, <1>6, GoOnPass, Zenon
<1>8. hpc # "cleanup" /\ hpc # "aborted" /\ hpc' # "cleanup" /\ hpc' # "aborted"
  BY <1>1, <1>3, <1>7, SMTT(30) DEF Stages, Lists
<1> QED
  BY <1>1, <1>3, <1>4, <1>7, <1>8, Zenon

\* It keeps the invariant.
LEMMA AdvanceKeeps ==
  ASSUME HelperInv, NEW i \in Ids, NEW from, NEW to, Advance(i, from, to)
  PROVE  HelperInv'
<1>0. /\ HelperTypeOK /\ PlaceInv /\ StageInv /\ ErrcodeInv
      /\ StreamInv /\ PinInv /\ GpuInv
  BY Zenon DEF HelperInv
<1>1. /\ from \in Lists /\ to \in Lists /\ from # to /\ from # "done" /\ to # "init"
      /\ hpc = from /\ i \in On(from) /\ i \in Live
      /\ lists' \in [Lists -> Seq(Ids)]
      /\ \A l \in Lists : IsInjective(lists'[l])
      /\ hpc' \in Stages /\ todo' \in Seq(Ids) /\ IsInjective(todo')
      /\ hpc' \in Lists => Range(todo') \subseteq On(hpc)'
  BY AdvanceSets, Zenon
<1>2. /\ \A l \in Lists : i \in On(l)' <=> l = to
      /\ \A l \in Lists : \A j : j # i => (j \in On(l)' <=> j \in On(l))
      /\ Live' = Live /\ Live \subseteq Ids
  BY <1>0, AdvanceSets, LiveIds, Zenon
<1>3. hpc # "cleanup" /\ hpc # "aborted" /\ hpc' # "cleanup" /\ hpc' # "aborted"
  BY AdvanceSets, Zenon
<1>4. /\ "init" \in Lists /\ "memdone" \in Lists /\ "prepared" \in Lists
      /\ "running" \in Lists /\ "post_exec" \in Lists /\ "done" \in Lists
  BY Zenon DEF Lists
<1>5. \A l \in Lists : i \in On(l) => l = from
  BY <1>0, <1>1, Zenon DEF PlaceInv
<1>6. UNCHANGED all_reqs /\ \A err \in ServErrs : err # 0
  <2>1. \A err \in ServErrs : err # 0
    BY HelperAssumption, SMTT(30)
  <2> QED
    BY <2>1, Zenon DEF Advance
<1>7. sr[i].errcode = 0 /\ sr[i].service \in Registered
  BY <1>0, <1>1, <1>4, <1>5, Zenon DEF StageInv
<1>8. \A s \in Streams : s # NoStream
  BY HelperAssumption, SMTT(30) DEF Streams, NoStream
<1>9. HelperTypeOK'
  <2>1. streamuses' \subseteq Streams /\ pinned' \subseteq Ids
    <3>1. streamuses \subseteq Streams /\ pinned \subseteq Ids
      BY <1>0, Zenon DEF HelperTypeOK
    <3> QED
      BY <3>1, SMTT(30) DEF Advance
  <2>2. sr' \in [Ids -> ServiceRequests] /\ gpu' \in [Streams -> Seq(Owners)]
    BY Zenon DEF Advance
  <2> QED
    BY <1>0, <1>1, <1>6, <2>1, <2>2, Zenon DEF HelperTypeOK
<1>10. PlaceInv'
  <2>1. \A l \in Lists : On(l)' \subseteq Live'
    BY <1>0, <1>1, <1>2, Zenon DEF PlaceInv
  <2>2. ASSUME NEW j \in Live' PROVE \E l \in Lists : j \in On(l)'
    <3>1. CASE j = i
      BY <1>1, <1>2, <3>1, Zenon
    <3>2. CASE j # i
      <4>1. PICK l \in Lists : j \in On(l)
        BY <1>0, <1>2, Zenon DEF PlaceInv
      <4> QED
        BY <1>2, <3>2, <4>1, Zenon
    <3> QED
      BY <3>1, <3>2, Zenon
  <2>3. ASSUME NEW k \in Lists, NEW l \in Lists, NEW j \in On(k)', j \in On(l)'
        PROVE  k = l
    <3>1. CASE j = i
      BY <1>2, <2>3, <3>1, Zenon
    <3>2. CASE j # i
      <4>1. j \in On(k) /\ j \in On(l)
        BY <1>2, <2>3, <3>2, Zenon
      <4> QED
        BY <1>0, <4>1, Zenon DEF PlaceInv
    <3> QED
      BY <3>1, <3>2, Zenon
  <2>4. IsInjective(all_reqs')
    BY <1>0, <1>6, Zenon DEF PlaceInv
  <2> QED
    BY <1>1, <1>3, <2>1, <2>2, <2>3, <2>4, Zenon DEF PlaceInv
<1>11. StageInv'
  <2> SUFFICES ASSUME NEW j \in Live
               PROVE  /\ j \in On("init")' \/ j \in On("memdone")' => sr'[j].stream_id = NoStream
                      /\ j \in On("prepared")' \/ j \in On("running")' \/ j \in On("post_exec")' =>
                           sr'[j].stream_id # NoStream
                      /\ j \notin On("done")' => sr'[j].errcode = 0 /\ sr'[j].service \in Registered
    BY <1>2, Zenon DEF StageInv
  <2>1. CASE j # i
    <3>1. sr'[j] = sr[j]
      BY <1>2, <2>1, Zenon DEF Advance
    <3>2. /\ (j \in On("init")' <=> j \in On("init"))
          /\ (j \in On("memdone")' <=> j \in On("memdone"))
          /\ (j \in On("prepared")' <=> j \in On("prepared"))
          /\ (j \in On("running")' <=> j \in On("running"))
          /\ (j \in On("post_exec")' <=> j \in On("post_exec"))
          /\ (j \in On("done")' <=> j \in On("done"))
      BY <1>2, <1>4, <2>1, Zenon
    <3>3. /\ j \in On("init") \/ j \in On("memdone") => sr[j].stream_id = NoStream
          /\ j \in On("prepared") \/ j \in On("running") \/ j \in On("post_exec") =>
               sr[j].stream_id # NoStream
          /\ j \notin On("done") => sr[j].errcode = 0 /\ sr[j].service \in Registered
      BY <1>0, <3>1, Zenon DEF StageInv
    <3> QED
      BY <3>1, <3>2, <3>3, Zenon
  <2>2. CASE j = i
    <3>1. from = "init" => sr[i].stream_id = NoStream
      BY <1>0, <1>1, Zenon DEF StageInv
    <3>2. from \in {"prepared", "running", "post_exec"} => sr[i].stream_id # NoStream
      BY <1>0, <1>1, Zenon DEF StageInv
    <3>3. to = "memdone" => sr'[i].stream_id = NoStream
      BY <3>1, SMTT(30) DEF Advance
    <3>4. to \in {"prepared", "running", "post_exec"} => sr'[i].stream_id # NoStream
      BY <1>8, <3>2, SMTT(30) DEF Advance
    <3>5. to # "done" => sr'[i].errcode = 0 /\ sr'[i].service \in Registered
      BY <1>7, SMTT(30) DEF Advance
    <3> QED
      BY <1>1, <1>2, <1>4, <2>2, <3>3, <3>4, <3>5, Zenon
  <2> QED
    BY <2>1, <2>2, Zenon
<1>12. StreamInv'
  <2>1. /\ \A j \in Live : sr[j].stream_id # NoStream => sr[j].stream_id \in streamuses
        /\ \A s \in streamuses : \E j \in Live : sr[j].stream_id = s
        /\ \A j, k \in Live :
             sr[j].stream_id # NoStream /\ sr[j].stream_id = sr[k].stream_id => j = k
    BY <1>0, <1>3, Zenon DEF StreamInv
  <2>2. \A j \in Live : j # i => sr'[j] = sr[j]
    BY <1>2, Zenon DEF Advance
  <2>3. CASE from = "memdone"
    <3>1. /\ sr'[i].stream_id \notin streamuses
          /\ streamuses' = streamuses \cup {sr'[i].stream_id}
      BY <2>3, Zenon DEF Advance
    <3>2. sr[i].stream_id = NoStream /\ NoStream \notin streamuses
      BY <1>0, <1>1, <1>8, <2>3, Zenon DEF StageInv, HelperTypeOK
    <3>3. \A s \in streamuses : \E j \in Live : j # i /\ sr[j].stream_id = s
      BY <2>1, <3>2, Zenon
    <3>4. \A j \in Live : sr'[j].stream_id # NoStream => sr'[j].stream_id \in streamuses'
      BY <2>1, <2>2, <3>1, Zenon
    <3>5. \A s \in streamuses' : \E j \in Live : sr'[j].stream_id = s
      BY <1>1, <2>2, <3>1, <3>3, Zenon
    <3>6. ASSUME NEW j \in Live, NEW k \in Live,
                 sr'[j].stream_id # NoStream, sr'[j].stream_id = sr'[k].stream_id
          PROVE  j = k
      <4>1. \A m \in Live : m # i /\ sr'[m].stream_id # NoStream =>
                             sr'[m].stream_id # sr'[i].stream_id
        BY <2>1, <2>2, <3>1, Zenon
      <4>2. CASE j = i \/ k = i
        BY <3>6, <4>1, <4>2, Zenon
      <4>3. CASE j # i /\ k # i
        BY <2>1, <2>2, <3>6, <4>3, Zenon
      <4> QED
        BY <4>2, <4>3, Zenon
    <3> QED
      BY <1>2, <3>4, <3>5, <3>6, Zenon DEF StreamInv
  <2>4. CASE from # "memdone"
    <3>1. sr'[i].stream_id = sr[i].stream_id /\ streamuses' = streamuses
      BY <2>4, Zenon DEF Advance
    <3>2. \A j \in Live : sr'[j].stream_id = sr[j].stream_id
      BY <2>2, <3>1, Zenon
    <3>3. \A j \in Live : sr'[j].stream_id # NoStream => sr'[j].stream_id \in streamuses'
      BY <2>1, <3>1, <3>2, Zenon
    <3>4. \A s \in streamuses' : \E j \in Live : sr'[j].stream_id = s
      BY <2>1, <3>1, <3>2, Zenon
    <3>5. ASSUME NEW j \in Live, NEW k \in Live,
                 sr'[j].stream_id # NoStream, sr'[j].stream_id = sr'[k].stream_id
          PROVE  j = k
      <4>1. sr[j].stream_id # NoStream /\ sr[j].stream_id = sr[k].stream_id
        BY <3>2, <3>5, Zenon
      <4> QED
        BY <2>1, <4>1, Zenon
    <3> QED
      BY <1>2, <3>3, <3>4, <3>5, Zenon DEF StreamInv
  <2> QED
    BY <2>3, <2>4, Zenon
<1>13. PinInv'
  <2>1. \A j \in Ids : j \in pinned <=> /\ j \in Live /\ sr[j].mem = "vma"
                                        /\ sr[j].service \in Registered /\ j \notin On("init")
    BY <1>0, <1>3, Zenon DEF PinInv
  <2>2. \A j \in Ids : sr'[j].mem = sr[j].mem /\ sr'[j].service = sr[j].service
    BY Zenon DEF Advance
  <2>3. i \notin On("init")' /\ \A j : j # i => (j \in On("init")' <=> j \in On("init"))
    BY <1>1, <1>2, <1>4, Zenon
  <2>4. CASE from = "init" /\ sr[i].mem = "vma"
    <3>1. pinned' = pinned \cup {i}
      BY <2>4, Zenon DEF Advance
    <3>2. \A j \in Ids : j \in pinned' <=> /\ j \in Live /\ sr[j].mem = "vma"
                                           /\ sr[j].service \in Registered
                                           /\ j \notin On("init")'
      BY <1>1, <1>7, <2>1, <2>3, <2>4, <3>1, Zenon
    <3> QED
      BY <1>2, <2>2, <3>2, Zenon DEF PinInv
  <2>5. CASE ~(from = "init" /\ sr[i].mem = "vma")
    <3>1. pinned' = pinned
      BY <2>5, Zenon DEF Advance
    <3>2. sr[i].mem = "vma" => i \notin On("init")
      BY <1>4, <1>5, <2>5, Zenon
    <3>3. \A j \in Ids : j \in pinned' <=> /\ j \in Live /\ sr[j].mem = "vma"
                                           /\ sr[j].service \in Registered
                                           /\ j \notin On("init")'
      BY <2>1, <2>3, <3>1, <3>2, Zenon
    <3> QED
      BY <1>2, <2>2, <3>3, Zenon DEF PinInv
  <2> QED
    BY <2>4, <2>5, Zenon
<1>14. ErrcodeInv'
  <2> SUFFICES ASSUME NEW j \in Live
               PROVE  \/ sr'[j].service \in Registered /\ sr'[j].errcode \in ServErrs \cup {0}
                      \/ sr'[j].service \notin Registered /\ sr'[j].errcode = 2
    BY <1>2, Zenon DEF ErrcodeInv
  <2>1. CASE j # i
    <3>1. sr'[j] = sr[j]
      BY <1>2, <2>1, Zenon DEF Advance
    <3> QED
      BY <1>0, <3>1, Zenon DEF ErrcodeInv
  <2>2. CASE j = i
    <3>1. sr'[i].service = sr[i].service
      BY Zenon DEF Advance
    <3>2. sr'[i].errcode \in ServErrs \/ sr'[i].errcode = sr[i].errcode
      BY Zenon DEF Advance
    <3> QED
      BY <1>7, <2>2, <3>1, <3>2, Zenon
  <2> QED
    BY <2>1, <2>2, Zenon
<1>15. i \in On("done")' /\ sr'[i].errcode = 0 => from = "post_exec"
  <2>1. i \in On("done")' => to = "done"
    BY <1>2, <1>4, Zenon
  <2>2. to = "done" /\ from # "post_exec" => sr'[i].errcode \in ServErrs
    BY Zenon DEF Advance
  <2> QED
    BY <1>6, <2>1, <2>2, Zenon
<1>16. GpuInv'
  <2> SUFFICES ASSUME NEW s \in Streams, NEW j \in Range(gpu'[s]), j # NoRequest
               PROVE  /\ j \in Live /\ sr'[j].stream_id = s
                      /\ j \in On("done")' => sr'[j].errcode # 0
    BY <1>2, Zenon DEF GpuInv
  <2>1. j \in Range(gpu[s]) \/ (j = i /\ s = sr'[i].stream_id)
    BY Zenon DEF Advance
  <2>2. CASE j # i
    <3>1. j \in Live /\ sr[j].stream_id = s /\ (j \in On("done") => sr[j].errcode # 0)
      BY <1>0, <2>1, <2>2, Zenon DEF GpuInv
    <3>2. sr'[j] = sr[j]
      BY <1>2, <2>2, <3>1, Zenon DEF Advance
    <3> QED
      BY <1>2, <1>4, <2>2, <3>1, <3>2, Zenon
  <2>3. CASE j = i
    <3>1. from # "post_exec"
      BY <2>3, Zenon DEF Advance
    <3>2. sr'[i].stream_id = s
      <4>1. CASE i \in Range(gpu[s])
        <5>1. sr[i].stream_id = s /\ s # NoStream
          BY <1>0, <1>8, <2>3, <4>1, Zenon DEF GpuInv
        <5>2. from # "memdone"
          BY <1>0, <1>1, <5>1, Zenon DEF StageInv
        <5> QED
          BY <5>1, <5>2, Zenon DEF Advance
      <4>2. CASE s = sr'[i].stream_id
        BY <4>2, Zenon
      <4> QED
        BY <2>1, <2>3, <4>1, <4>2, Zenon
    <3> QED
      BY <1>1, <1>15, <2>3, <3>1, <3>2, Zenon
  <2> QED
    BY <2>2, <2>3, Zenon
<1> QED
  BY <1>9, <1>10, <1>11, <1>12, <1>13, <1>14, <1>16, Zenon DEF HelperInv

\* A request goes on.
Moves == \E i \in Ids : \E from, to \in Lists : Advance(i, from, to)

-----------------------------------------------------------------------------
(***************************************************************************)
(* The stages, one by one.                                                 *)
(***************************************************************************)

\* The types that the stages rely on.
LEMMA StageTypes ==
  ASSUME HelperInv
  PROVE  /\ HelperTypeOK /\ sr \in [Ids -> ServiceRequests] /\ gpu \in [Streams -> Seq(Owners)]
         /\ \A i \in Ids : /\ sr[i].service \in Services /\ sr[i].mem \in Memory
                           /\ sr[i].errcode \in Nat
                           /\ sr[i].stream_id \in Streams \cup {NoStream}
<1>1. HelperTypeOK /\ sr \in [Ids -> ServiceRequests] /\ gpu \in [Streams -> Seq(Owners)]
  BY Zenon DEF HelperInv, HelperTypeOK
<1> QED
  BY <1>1, SMTT(30) DEF ServiceRequests

\* An id without a service request.
LEMMA FreedType == Freed \in ServiceRequests
<1>1. (CHOOSE v \in Services : TRUE) \in Services
  BY HelperAssumption, Zenon
<1>2. "pool" \in Memory /\ NoStream \in Streams \cup {NoStream} /\ 0 \in Nat
  BY SMTT(30) DEF Memory
<1> QED
  BY <1>1, <1>2, SMTT(30) DEF Freed, ServiceRequests

\* A service request gets the error code e.
LEMMA Marked ==
  ASSUME HelperInv, NEW i \in Ids, NEW e \in Nat, sr' = [sr EXCEPT ![i].errcode = e]
  PROVE  /\ sr' \in [Ids -> ServiceRequests]
         /\ \A j \in Ids : j # i => sr'[j] = sr[j]
         /\ sr'[i].service = sr[i].service /\ sr'[i].mem = sr[i].mem
         /\ sr'[i].errcode = e /\ sr'[i].stream_id = sr[i].stream_id
<1>1. sr \in [Ids -> ServiceRequests]
  BY StageTypes, Zenon
<1> QED
  BY <1>1, SMTT(30) DEF ServiceRequests

\* kh_request_alloc_mem
LEMMA AllocMemStep ==
  ASSUME HelperInv, NEW i \in Ids, kh_request_alloc_mem(i)
  PROVE  Moves
<1>1. /\ sr \in [Ids -> ServiceRequests] /\ gpu \in [Streams -> Seq(Owners)]
  BY StageTypes, Zenon
<1>2. /\ At("init", i) /\ Move(i, "init", "memdone") /\ GoOn("init", 0)
      /\ pinned' = IF sr[i].mem = "vma" THEN pinned \cup {i} ELSE pinned
      /\ UNCHANGED <<all_reqs, sr, streamuses, gpu>>
  BY Zenon DEF kh_request_alloc_mem
<1>3. 0 \in Int
  BY SMTT(30)
<1>4. "init" # "done" /\ "init" # "memdone" /\ "init" # "post_exec" /\ "memdone" # "done"
  BY SMTT(30)
<1>5. Advance(i, "init", "memdone")
  BY <1>1, <1>2, <1>3, <1>4, Zenon DEF Advance
<1> QED
  BY <1>5, ListNames, Zenon DEF Moves

\* kh_prepare_exec with a free stream.
LEMMA PrepareStep ==
  ASSUME HelperInv, NEW i \in Ids, kh_prepare_exec(i)
  PROVE  Moves
<1>1. /\ HelperTypeOK /\ gpu \in [Streams -> Seq(Owners)] /\ sr[i].errcode \in Nat
  BY StageTypes, Zenon
<1>2. PICK s \in FirstFree :
        /\ streamuses' = streamuses \cup {s}
        /\ \/ /\ sr' = [sr EXCEPT ![i].stream_id = s]
              /\ Queue(s, i)
              /\ Move(i, "memdone", "prepared")
              /\ GoOn("memdone", 0)
           \/ \E err \in ServErrs :
                /\ sr' = [sr EXCEPT ![i].stream_id = s, ![i].errcode = err]
                /\ Queue(s, i) \/ UNCHANGED gpu
                /\ Move(i, "memdone", "done")
                /\ GoOn("memdone", err)
  BY Zenon DEF kh_prepare_exec
<1>3. s \in Streams /\ s \notin streamuses
  BY Zenon DEF FirstFree, FreeStreams
<1>4. At("memdone", i) /\ UNCHANGED <<all_reqs, pinned>>
  BY Zenon DEF kh_prepare_exec
<1>5. /\ "memdone" # "done" /\ "memdone" # "init" /\ "memdone" # "post_exec"
      /\ "prepared" # "done"
  BY SMTT(30)
<1>6. ASSUME Queue(s, i) \/ UNCHANGED gpu, sr'[i].stream_id = s
      PROVE  /\ gpu' \in [Streams -> Seq(Owners)]
             /\ \A u \in Streams : \A j \in Range(gpu'[u]) :
                  j \in Range(gpu[u]) \/ (j = i /\ u = sr'[i].stream_id)
  <2>1. CASE Queue(s, i)
    BY <1>1, <1>3, <1>6, <2>1, QueueSets, Zenon
  <2>2. CASE UNCHANGED gpu
    BY <1>1, <2>2, Zenon
  <2> QED
    BY <1>6, <2>1, <2>2, Zenon
<1>7. CASE /\ sr' = [sr EXCEPT ![i].stream_id = s]
           /\ Queue(s, i)
           /\ Move(i, "memdone", "prepared")
           /\ GoOn("memdone", 0)
  <2>1. /\ sr' \in [Ids -> ServiceRequests]
        /\ \A j \in Ids : j # i => sr'[j] = sr[j]
        /\ sr'[i].service = sr[i].service /\ sr'[i].mem = sr[i].mem
        /\ sr'[i].errcode = sr[i].errcode /\ sr'[i].stream_id = s
    <3>1. sr' = [sr EXCEPT ![i].stream_id = s] /\ s \in Streams \cup {NoStream}
      BY <1>3, <1>7, Zenon
    <3> QED
      BY <3>1, StageTypes, SMTT(30) DEF ServiceRequests
  <2>2. 0 \in Int
    BY SMTT(30)
  <2>3. Advance(i, "memdone", "prepared")
    BY <1>2, <1>3, <1>4, <1>5, <1>6, <1>7, <2>1, <2>2, Zenon DEF Advance
  <2> QED
    BY <2>3, ListNames, Zenon DEF Moves
<1>8. ASSUME NEW err \in ServErrs,
             sr' = [sr EXCEPT ![i].stream_id = s, ![i].errcode = err],
             Queue(s, i) \/ UNCHANGED gpu,
             Move(i, "memdone", "done"), GoOn("memdone", err)
      PROVE  Moves
  <2>0. err \in Nat /\ err \in Int /\ err # 0
    BY HelperAssumption, SMTT(30)
  <2>1. /\ sr' \in [Ids -> ServiceRequests]
        /\ \A j \in Ids : j # i => sr'[j] = sr[j]
        /\ sr'[i].service = sr[i].service /\ sr'[i].mem = sr[i].mem
        /\ sr'[i].errcode = err /\ sr'[i].stream_id = s
    <3>1. /\ sr' = [sr EXCEPT ![i].stream_id = s, ![i].errcode = err]
          /\ s \in Streams \cup {NoStream}
      BY <1>3, <1>8, Zenon
    <3> DEFINE f == [sr EXCEPT ![i].stream_id = s]
    <3>2. sr' = [f EXCEPT ![i].errcode = err]
      BY <3>1, Zenon
    <3>3. /\ f \in [Ids -> ServiceRequests]
          /\ \A j \in Ids : j # i => f[j] = sr[j]
          /\ f[i].service = sr[i].service /\ f[i].mem = sr[i].mem /\ f[i].stream_id = s
      BY <3>1, StageTypes, SMTT(30) DEF ServiceRequests
    <3> HIDE DEF f
    <3> QED
      BY <2>0, <3>2, <3>3, SMTT(30) DEF ServiceRequests
  <2>2. Advance(i, "memdone", "done")
    BY <1>2, <1>3, <1>4, <1>5, <1>6, <1>8, <2>0, <2>1, Zenon DEF Advance
  <2> QED
    BY <2>2, ListNames, Zenon DEF Moves
<1> QED
  BY <1>2, <1>7, <1>8, Zenon

\* A failing launch or post: the request is done, with its error code.
LEMMA FailMoves ==
  ASSUME HelperInv, NEW i \in Ids, NEW from \in {"prepared", "running"}, NEW err \in ServErrs,
         At(from, i), kh_fail_request(i, from, err), NEW r \in Int, GoOn(from, r),
         UNCHANGED <<all_reqs, streamuses, pinned, gpu>>
  PROVE  Moves
<1>1. gpu \in [Streams -> Seq(Owners)] /\ sr[i].stream_id \in Streams \cup {NoStream}
  BY StageTypes, Zenon
<1>2. err \in Nat /\ err # 0
  BY HelperAssumption, SMTT(30)
<1>3. sr' = [sr EXCEPT ![i].errcode = err] /\ Move(i, from, "done")
  BY Zenon DEF kh_fail_request
<1>4. /\ sr' \in [Ids -> ServiceRequests]
      /\ \A j \in Ids : j # i => sr'[j] = sr[j]
      /\ sr'[i].service = sr[i].service /\ sr'[i].mem = sr[i].mem
      /\ sr'[i].errcode = err /\ sr'[i].stream_id = sr[i].stream_id
  BY <1>1, <1>2, <1>3, Marked, Zenon
<1>5. /\ from # "init" /\ from # "memdone" /\ from # "post_exec"
      /\ from = "prepared" \/ from = "running"
  BY SMTT(30)
<1>6. Advance(i, from, "done")
  BY <1>1, <1>2, <1>3, <1>4, <1>5, Zenon DEF Advance
<1> QED
  BY <1>6, ListNames, Zenon DEF Moves

\* A launch or post that succeeds: more work on the stream of the request.
LEMMA QueueMoves ==
  ASSUME HelperInv, NEW i \in Ids, NEW from, NEW to,
         \/ from = "prepared" /\ to = "running"
         \/ from = "running" /\ to = "post_exec",
         At(from, i), Queue(sr[i].stream_id, i), Move(i, from, to), GoOn(from, 0),
         UNCHANGED <<all_reqs, sr, streamuses, pinned>>
  PROVE  Moves
<1>1. /\ HelperTypeOK /\ StageInv /\ sr \in [Ids -> ServiceRequests]
      /\ sr[i].stream_id \in Streams \cup {NoStream}
  BY StageTypes, Zenon DEF HelperInv
<1>2. from \in Lists
  BY Zenon DEF Lists
<1>3. i \in On(from) /\ i \in Live
  BY <1>2, AtFacts, Zenon
<1>4. sr[i].stream_id \in Streams
  BY <1>1, <1>3, Zenon DEF StageInv
<1>5. /\ gpu' \in [Streams -> Seq(Owners)]
      /\ \A u \in Streams : \A j \in Range(gpu'[u]) :
           j \in Range(gpu[u]) \/ (j = i /\ u = sr[i].stream_id)
  BY <1>1, <1>4, QueueSets, Zenon
<1>6. /\ from # "init" /\ from # "memdone" /\ from # "post_exec" /\ to # "done"
      /\ 0 \in Int
  BY SMTT(30)
<1>7. Advance(i, from, to)
  BY <1>1, <1>5, <1>6, Zenon DEF Advance
<1> QED
  BY <1>7, ListNames, Zenon DEF Moves

\* kh_launch_exec
LEMMA LaunchStep ==
  ASSUME HelperInv, NEW i \in Ids, kh_launch_exec(i)
  PROVE  Moves
<1>1. 0 \in Int
  BY SMTT(30)
<1>2. /\ At("prepared", i) /\ GoOn("prepared", 0)
      /\ UNCHANGED <<all_reqs, streamuses, pinned>>
  BY Zenon DEF kh_launch_exec
<1>3. CASE /\ Queue(sr[i].stream_id, i)
           /\ Move(i, "prepared", "running")
           /\ UNCHANGED sr
  BY <1>2, <1>3, QueueMoves, Zenon
<1>4. CASE \E err \in ServErrs : kh_fail_request(i, "prepared", err) /\ UNCHANGED gpu
  BY <1>1, <1>2, <1>4, FailMoves, Zenon
<1> QED
  BY <1>3, <1>4, Zenon DEF kh_launch_exec

\* kh_post_exec
LEMMA PostStep ==
  ASSUME HelperInv, NEW i \in Ids, kh_post_exec(i)
  PROVE  Moves \/ Waits
<1>1. At("running", i) /\ UNCHANGED <<all_reqs, streamuses, pinned>> /\ "running" \in Lists
  BY Zenon DEF kh_post_exec, Lists
<1>2. CASE UNCHANGED <<lists, sr, gpu>> /\ GoOn("running", 1)
  BY <1>1, <1>2, CallWaits, Zenon
<1>3. CASE /\ Queue(sr[i].stream_id, i)
           /\ Move(i, "running", "post_exec")
           /\ GoOn("running", 0)
           /\ UNCHANGED sr
  BY <1>1, <1>3, QueueMoves, Zenon
<1>4. CASE /\ \E err \in ServErrs :
                kh_fail_request(i, "running", err) /\ GoOn("running", err)
           /\ UNCHANGED gpu
  <2>1. \A err \in ServErrs : err \in Int
    BY HelperAssumption, SMTT(30)
  <2> QED
    BY <1>1, <1>4, <2>1, FailMoves, Zenon
<1> QED
  BY <1>2, <1>3, <1>4, Zenon DEF kh_post_exec

\* kh_finish_post: the work of the request was on its own stream, which is idle.
LEMMA FinishStep ==
  ASSUME HelperInv, NEW i \in Ids, kh_finish_post(i)
  PROVE  Moves \/ Waits
<1>1. /\ At("post_exec", i) /\ "post_exec" \in Lists
      /\ UNCHANGED <<all_reqs, sr, streamuses, gpu, pinned>>
  BY Zenon DEF kh_finish_post, Lists
<1>2. CASE UNCHANGED lists /\ GoOn("post_exec", 1)
  BY <1>1, <1>2, CallWaits, Zenon
<1>3. CASE /\ StreamDone(sr[i].stream_id)
           /\ Move(i, "post_exec", "done") /\ GoOn("post_exec", 0)
  <2>1. sr \in [Ids -> ServiceRequests] /\ gpu \in [Streams -> Seq(Owners)] /\ GpuInv
    BY StageTypes, Zenon DEF HelperInv
  <2>2. i \in Live
    BY <1>1, AtFacts, Zenon
  <2>3. \A s \in Streams : i \notin Range(gpu[s])
    <3>1. i # NoRequest
      BY HelperAssumption, SMTT(30) DEF NoRequest
    <3> QED
      BY <1>3, <2>1, <2>2, <3>1, EmptyList, Zenon DEF GpuInv, StreamDone
  <2>4. /\ "post_exec" # "init" /\ "post_exec" # "memdone" /\ 0 \in Int
    BY SMTT(30)
  <2>5. Advance(i, "post_exec", "done")
    BY <1>1, <1>3, <2>1, <2>3, <2>4, Zenon DEF Advance
  <2> QED
    BY <2>5, ListNames, Zenon DEF Moves
<1> QED
  BY <1>2, <1>3, Zenon DEF kh_finish_post

\* kh_send_response: the request stays what it is.
LEMMA RespondFacts ==
  ASSUME HelperInv, NEW i \in Ids, kh_send_response(i)
  PROVE  /\ hpc = "done" /\ i \in On("done") /\ i \in Live /\ todo # <<>>
         /\ i = Head(todo) /\ Range(todo) \subseteq On("done") /\ hpc' = "cleanup"
         /\ UNCHANGED <<all_reqs, lists, sr, streamuses, gpu, pinned, todo>>
         /\ Live' = Live /\ \A l : On(l)' = On(l)
<1>1. /\ At("done", i) /\ hpc' = "cleanup"
      /\ UNCHANGED <<all_reqs, lists, sr, streamuses, gpu, pinned, todo>>
  BY Zenon DEF kh_send_response
<1>2. /\ hpc = "done" /\ i \in On("done") /\ i \in Live /\ todo # <<>>
      /\ i = Head(todo) /\ Range(todo) \subseteq On("done")
  BY <1>1, AtFacts, ListNames, Zenon
<1> QED
  BY <1>1, <1>2, Zenon DEF Live, On

\* It keeps the invariant.
LEMMA RespondKeeps ==
  ASSUME HelperInv, NEW i \in Ids, kh_send_response(i)
  PROVE  HelperInv'
<1>0. /\ HelperTypeOK /\ PlaceInv /\ StageInv /\ ErrcodeInv
      /\ StreamInv /\ PinInv /\ GpuInv
  BY Zenon DEF HelperInv
<1>1. /\ hpc = "done" /\ i \in On("done") /\ i \in Live /\ todo # <<>>
      /\ i = Head(todo) /\ Range(todo) \subseteq On("done") /\ hpc' = "cleanup"
      /\ UNCHANGED <<all_reqs, lists, sr, streamuses, gpu, pinned, todo>>
      /\ Live' = Live /\ \A l : On(l)' = On(l)
  BY RespondFacts, Zenon
<1>2. "done" # "cleanup" /\ "done" # "aborted" /\ "cleanup" # "aborted" /\ "cleanup" \notin Lists
  BY SMTT(30) DEF Lists
<1>3. HelperTypeOK'
  BY <1>0, <1>1, Zenon DEF HelperTypeOK
<1>4. PlaceInv'
  BY <1>0, <1>1, <1>2, Zenon DEF PlaceInv
<1>5. StageInv' /\ ErrcodeInv'
  BY <1>0, <1>1, Zenon DEF StageInv, ErrcodeInv
<1>6. StreamInv' /\ PinInv'
  BY <1>0, <1>1, <1>2, Zenon DEF StreamInv, PinInv
<1>7. GpuInv'
  BY <1>0, <1>1, Zenon DEF GpuInv
<1> QED
  BY <1>3, <1>4, <1>5, <1>6, <1>7, Zenon DEF HelperInv

\* kh_get_next_service_request: a request with an id that the helper does not
\* have.
LEMMA ReadSets ==
  ASSUME HelperInv, NEW q \in KuRequests, q.id \notin Live, kh_init_service_request(q)
  PROVE  /\ q.id \in Ids /\ hpc = "get" /\ UNCHANGED <<streamuses, gpu, pinned>>
         /\ all_reqs' \in Seq(Ids) /\ IsInjective(all_reqs') /\ Live' = Live \cup {q.id}
         /\ lists' \in [Lists -> Seq(Ids)] /\ \A l \in Lists : IsInjective(lists'[l])
         /\ \A l \in Lists : \A j : j # q.id => (j \in On(l)' <=> j \in On(l))
         /\ \E to \in {"init", "done"} :
              /\ \A l \in Lists : q.id \in On(l)' <=> l = to
              /\ to = "init" => q.service \in Registered /\ sr'[q.id].errcode = 0
              /\ to = "done" => q.service \notin Registered /\ sr'[q.id].errcode = 2
         /\ sr' \in [Ids -> ServiceRequests]
         /\ sr'[q.id].service = q.service /\ sr'[q.id].mem = q.mem
         /\ sr'[q.id].stream_id = NoStream
         /\ \A j \in Ids : j # q.id => sr'[j] = sr[j]
         /\ hpc' \in Stages /\ todo' \in Seq(Ids) /\ IsInjective(todo')
         /\ hpc' \in Lists => Range(todo') \subseteq On(hpc)'
         /\ hpc # "cleanup" /\ hpc # "aborted" /\ hpc' # "cleanup" /\ hpc' # "aborted"
<1> DEFINE k == q.id
           to == IF q.service \in Registered THEN "init" ELSE "done"
           new == [service |-> q.service, mem |-> q.mem, stream_id |-> NoStream,
                   errcode |-> IF q.service \in Registered THEN 0 ELSE 2]
           L == Append(all_reqs, k)
           T == Append(lists[to], k)
<1>0. HelperTypeOK /\ PlaceInv
  BY Zenon DEF HelperInv
<1>1. k \in Ids /\ q.service \in Services /\ q.mem \in Memory
  BY SMTT(30) DEF KuRequests
<1>2. /\ hpc = "get" /\ Begin("get") /\ all_reqs' = L
      /\ sr' = [sr EXCEPT ![k] = new] /\ lists' = [lists EXCEPT ![to] = T]
      /\ UNCHANGED <<streamuses, gpu, pinned>>
  <2>1. lists \in [Lists -> Seq(Ids)] /\ to \in Lists
    BY <1>0, Zenon DEF HelperTypeOK, Lists
  <2>2. lists' = [lists EXCEPT ![to] = Append(@, k)]
    BY Zenon DEF kh_init_service_request
  <2>3. lists' = [lists EXCEPT ![to] = T]
    BY <2>1, <2>2, Zenon
  <2> QED
    BY <2>3, Zenon DEF kh_init_service_request
<1>3. new \in ServiceRequests
  BY <1>1, SMTT(30) DEF ServiceRequests
<1>4. /\ to \in Lists /\ (to = "init" \/ to = "done") /\ new.stream_id = NoStream
      /\ new.service = q.service /\ new.mem = q.mem
      /\ (to = "init" => q.service \in Registered /\ new.errcode = 0)
      /\ (to = "done" => q.service \notin Registered /\ new.errcode = 2)
  BY SMTT(30) DEF Lists
<1> HIDE DEF new, to
<1>5. k \notin Live /\ \A l \in Lists : k \notin On(l)
  BY <1>0, Zenon DEF PlaceInv
<1>6. L \in Seq(Ids) /\ IsInjective(L) /\ Live' = Live \cup {k}
  <2>1. all_reqs \in Seq(Ids) /\ IsInjective(all_reqs) /\ k \notin Range(all_reqs)
    BY <1>0, <1>5, Zenon DEF HelperTypeOK, PlaceInv, Live
  <2>2. L \in Seq(Ids) /\ IsInjective(L) /\ Range(L) = Range(all_reqs) \cup {k}
    BY <1>1, <2>1, AppendSet, SMTT(30)
  <2> QED
    BY <1>2, <2>2, Zenon DEF Live
<1>7. /\ lists' \in [Lists -> Seq(Ids)]
      /\ \A l \in Lists : IsInjective(lists'[l])
      /\ \A l \in Lists : k \in On(l)' <=> l = to
      /\ \A l \in Lists : \A j : j # k => (j \in On(l)' <=> j \in On(l))
  <2>1. lists \in [Lists -> Seq(Ids)] /\ \A l \in Lists : IsInjective(lists[l])
    BY <1>0, Zenon DEF HelperTypeOK, PlaceInv
  <2>2. T \in Seq(Ids) /\ IsInjective(T) /\ Range(T) = Range(lists[to]) \cup {k}
    <3>1. lists[to] \in Seq(Ids) /\ IsInjective(lists[to]) /\ k \notin Range(lists[to])
      BY <1>4, <1>5, <2>1, Zenon DEF On
    <3> HIDE DEF k
    <3> QED
      BY <1>1, <3>1, AppendSet, SMTT(30)
  <2> HIDE DEF T
  <2>3. /\ lists' \in [Lists -> Seq(Ids)] /\ lists'[to] = T
        /\ \A l \in Lists : l # to => lists'[l] = lists[l]
    BY <1>2, <1>4, <2>1, <2>2, SMTT(30)
  <2>4. /\ On(to)' = On(to) \cup {k}
        /\ \A l \in Lists : l # to => On(l)' = On(l)
    BY <2>2, <2>3, Zenon DEF On
  <2> QED
    BY <1>5, <2>1, <2>2, <2>3, <2>4, Zenon
<1> HIDE DEF L, T
<1>8. /\ sr' \in [Ids -> ServiceRequests] /\ sr'[k] = new
      /\ \A j \in Ids : j # k => sr'[j] = sr[j]
  <2>1. sr \in [Ids -> ServiceRequests]
    BY StageTypes, Zenon
  <2> QED
    BY <1>1, <1>2, <1>3, <2>1, SMTT(30)
<1> HIDE DEF k
<1>9. /\ hpc' \in Stages /\ todo' \in Seq(Ids) /\ IsInjective(todo')
      /\ hpc' \in Lists => Range(todo') \subseteq On(hpc)'
  <2>1. "get" \in Stages
    BY Zenon DEF Stages
  <2> QED
    BY <1>2, <1>7, <2>1, BeginPass, Zenon
<1>10. /\ hpc # "cleanup" /\ hpc # "aborted" /\ hpc' # "cleanup" /\ hpc' # "aborted"
       /\ hpc' \in Stages \cup {"cleanup", "aborted"}
  BY <1>2, <1>9, SMTT(30) DEF Stages, Lists
<1>11. \E t \in {"init", "done"} :
         /\ \A l \in Lists : k \in On(l)' <=> l = t
         /\ t = "init" => q.service \in Registered /\ sr'[k].errcode = 0
         /\ t = "done" => q.service \notin Registered /\ sr'[k].errcode = 2
  <2>1. to \in {"init", "done"}
    BY <1>4, Zenon
  <2> QED
    BY <1>4, <1>7, <1>8, <2>1, Zenon
<1>12. all_reqs' \in Seq(Ids) /\ IsInjective(all_reqs')
  BY <1>2, <1>6, Zenon
<1> QED
  BY <1>1, <1>2, <1>4, <1>6, <1>7, <1>8, <1>9, <1>10, <1>11, <1>12, Zenon DEF k

\* It keeps the invariant.
LEMMA ReadKeeps ==
  ASSUME HelperInv, NEW q \in KuRequests, q.id \notin Live, kh_init_service_request(q)
  PROVE  HelperInv'
<1> DEFINE k == q.id
<1>0. /\ HelperTypeOK /\ PlaceInv /\ StageInv /\ ErrcodeInv
      /\ StreamInv /\ PinInv /\ GpuInv
  BY Zenon DEF HelperInv
<1>1. k \in Ids /\ k \notin Live /\ hpc = "get" /\ UNCHANGED <<streamuses, gpu, pinned>>
  BY ReadSets, Zenon
<1>2. all_reqs' \in Seq(Ids) /\ IsInjective(all_reqs') /\ Live' = Live \cup {k}
  BY ReadSets, Zenon
<1>3. /\ lists' \in [Lists -> Seq(Ids)] /\ \A l \in Lists : IsInjective(lists'[l])
      /\ \A l \in Lists : \A j : j # k => (j \in On(l)' <=> j \in On(l))
  BY ReadSets, Zenon
<1>4. PICK to \in {"init", "done"} :
        /\ \A l \in Lists : k \in On(l)' <=> l = to
        /\ to = "init" => q.service \in Registered /\ sr'[k].errcode = 0
        /\ to = "done" => q.service \notin Registered /\ sr'[k].errcode = 2
  BY ReadSets, Zenon
<1>5. /\ sr' \in [Ids -> ServiceRequests]
      /\ sr'[k].service = q.service /\ sr'[k].mem = q.mem
      /\ sr'[k].stream_id = NoStream
      /\ \A j \in Ids : j # k => sr'[j] = sr[j]
  BY ReadSets, Zenon
<1>6. /\ hpc' \in Stages /\ todo' \in Seq(Ids) /\ IsInjective(todo')
      /\ hpc' \in Lists => Range(todo') \subseteq On(hpc)'
      /\ hpc # "cleanup" /\ hpc # "aborted" /\ hpc' # "cleanup" /\ hpc' # "aborted"
  BY ReadSets, Zenon
<1> HIDE DEF k
<1>7. to \in Lists /\ (to = "init" \/ to = "done")
  BY <1>4, ListNames, Zenon
<1>11. /\ "init" \in Lists /\ "memdone" \in Lists /\ "prepared" \in Lists
       /\ "running" \in Lists /\ "post_exec" \in Lists /\ "done" \in Lists
  BY Zenon DEF Lists
<1>12. Live \subseteq Ids
  BY <1>0, LiveIds, Zenon
<1>14. HelperTypeOK'
  BY <1>0, <1>1, <1>2, <1>3, <1>4, <1>5, <1>6, Zenon DEF HelperTypeOK
<1>15. PlaceInv'
  <2>1. \A l \in Lists : On(l)' \subseteq Live'
    BY <1>0, <1>2, <1>3, <1>4, Zenon DEF PlaceInv
  <2>2. ASSUME NEW j \in Live' PROVE \E l \in Lists : j \in On(l)'
    <3>1. CASE j = k
      BY <1>4, <1>5, <1>7, <1>3, <3>1, Zenon
    <3>2. CASE j # k
      <4>1. PICK l \in Lists : j \in On(l)
        BY <1>0, <1>2, <3>2, Zenon DEF PlaceInv
      <4> QED
        BY <1>3, <1>4, <3>2, <4>1, Zenon
    <3> QED
      BY <3>1, <3>2, Zenon
  <2>3. ASSUME NEW m \in Lists, NEW l \in Lists, NEW j \in On(m)', j \in On(l)'
        PROVE  m = l
    <3>1. CASE j = k
      BY <1>3, <1>4, <2>3, <3>1, Zenon
    <3>2. CASE j # k
      <4>1. j \in On(m) /\ j \in On(l)
        BY <1>3, <1>4, <2>3, <3>2, Zenon
      <4> QED
        BY <1>0, <4>1, Zenon DEF PlaceInv
    <3> QED
      BY <3>1, <3>2, Zenon
  <2> QED
    BY <1>1, <1>2, <1>3, <1>4, <1>6, <2>1, <2>2, <2>3, Zenon DEF PlaceInv
<1>16. "init" # "memdone" /\ "init" # "prepared" /\ "init" # "running" /\ "init" # "post_exec"
       /\ "done" # "memdone" /\ "done" # "prepared" /\ "done" # "running"
       /\ "done" # "post_exec" /\ "done" # "init"
  BY SMTT(30)
<1>17. /\ k \notin On("memdone")' /\ k \notin On("prepared")' /\ k \notin On("running")'
       /\ k \notin On("post_exec")' /\ (k \in On("init")' => to = "init")
       /\ (k \in On("done")' <=> to = "done") /\ (to = "init" => k \in On("init")')
  BY <1>4, <1>5, <1>7, <1>3, <1>11, <1>16, Zenon
<1>18. StageInv'
  <2> SUFFICES ASSUME NEW j \in Live'
               PROVE  /\ j \in On("init")' \/ j \in On("memdone")' => sr'[j].stream_id = NoStream
                      /\ j \in On("prepared")' \/ j \in On("running")' \/ j \in On("post_exec")' =>
                           sr'[j].stream_id # NoStream
                      /\ j \notin On("done")' => sr'[j].errcode = 0 /\ sr'[j].service \in Registered
    BY Zenon DEF StageInv
  <2>1. CASE j = k
    BY <1>4, <1>5, <1>7, <1>17, <2>1, Zenon
  <2>2. CASE j # k
    <3>1. j \in Live /\ sr'[j] = sr[j]
      BY <1>2, <1>5, <1>12, <2>2, Zenon
    <3>2. /\ (j \in On("init")' <=> j \in On("init"))
          /\ (j \in On("memdone")' <=> j \in On("memdone"))
          /\ (j \in On("prepared")' <=> j \in On("prepared"))
          /\ (j \in On("running")' <=> j \in On("running"))
          /\ (j \in On("post_exec")' <=> j \in On("post_exec"))
          /\ (j \in On("done")' <=> j \in On("done"))
      BY <1>3, <1>4, <1>11, <2>2, Zenon
    <3>3. /\ j \in On("init") \/ j \in On("memdone") => sr[j].stream_id = NoStream
          /\ j \in On("prepared") \/ j \in On("running") \/ j \in On("post_exec") =>
               sr[j].stream_id # NoStream
          /\ j \notin On("done") => sr[j].errcode = 0 /\ sr[j].service \in Registered
      BY <1>0, <3>1, Zenon DEF StageInv
    <3> QED
      BY <3>1, <3>2, <3>3, Zenon
  <2> QED
    BY <2>1, <2>2, Zenon
<1>19. StreamInv'
  <2>1. /\ \A j \in Live : sr[j].stream_id # NoStream => sr[j].stream_id \in streamuses
        /\ \A s \in streamuses : \E j \in Live : sr[j].stream_id = s
        /\ \A j, m \in Live :
             sr[j].stream_id # NoStream /\ sr[j].stream_id = sr[m].stream_id => j = m
    BY <1>0, <1>6, Zenon DEF StreamInv
  <2>2. /\ \A j \in Live' : j # k => j \in Live /\ sr'[j] = sr[j]
        /\ \A j \in Live : j \in Live' /\ sr'[j] = sr[j]
        /\ sr'[k].stream_id = NoStream
    BY <1>4, <1>5, <1>7, <1>1, <1>2, <1>12, Zenon
  <2>3. ASSUME NEW j \in Live', sr'[j].stream_id # NoStream
        PROVE  sr'[j].stream_id \in streamuses'
    <3>1. j \in Live /\ sr'[j] = sr[j]
      BY <2>2, <2>3, Zenon
    <3>2. sr[j].stream_id # NoStream
      BY <2>3, <3>1, Zenon
    <3>3. sr[j].stream_id \in streamuses /\ streamuses' = streamuses
      BY <1>1, <1>2, <2>1, <3>1, <3>2, Zenon
    <3> QED
      BY <3>1, <3>3, Zenon
  <2>4. \A s \in streamuses' : \E j \in Live' : sr'[j].stream_id = s
    BY <1>1, <1>2, <2>1, <2>2, ZenonT(60)
  <2>5. ASSUME NEW j \in Live', NEW m \in Live',
               sr'[j].stream_id # NoStream, sr'[j].stream_id = sr'[m].stream_id
        PROVE  j = m
    <3>1. j \in Live /\ sr'[j] = sr[j] /\ m \in Live /\ sr'[m] = sr[m]
      BY <2>2, <2>5, Zenon
    <3> QED
      BY <2>1, <2>5, <3>1, Zenon
  <2> QED
    BY <2>3, <2>4, <2>5, Zenon DEF StreamInv
<1>20. PinInv'
  <2>1. \A j \in Ids : j \in pinned <=> /\ j \in Live /\ sr[j].mem = "vma"
                                        /\ sr[j].service \in Registered /\ j \notin On("init")
    BY <1>0, <1>6, Zenon DEF PinInv
  <2> SUFFICES ASSUME NEW j \in Ids
               PROVE  j \in pinned' <=> /\ j \in Live' /\ sr'[j].mem = "vma"
                                        /\ sr'[j].service \in Registered /\ j \notin On("init")'
    BY Zenon DEF PinInv
  <2>2. CASE j = k
    <3>1. j \notin pinned'
      BY <1>1, <1>2, <2>1, <2>2, Zenon
    <3>2. ~(sr'[j].service \in Registered /\ j \notin On("init")')
      BY <1>4, <1>5, <1>7, <1>17, <2>2, Zenon
    <3> QED
      BY <3>1, <3>2, Zenon
  <2>3. CASE j # k
    <3>1. /\ sr'[j] = sr[j] /\ (j \in Live' <=> j \in Live)
          /\ (j \in On("init")' <=> j \in On("init"))
      BY <1>2, <1>3, <1>4, <1>5, <1>11, <2>3, Zenon
    <3> QED
      BY <1>1, <1>2, <2>1, <3>1, Zenon
  <2> QED
    BY <2>2, <2>3, Zenon
<1>21. ErrcodeInv'
  <2> SUFFICES ASSUME NEW j \in Live'
               PROVE  \/ sr'[j].service \in Registered /\ sr'[j].errcode \in ServErrs \cup {0}
                      \/ sr'[j].service \notin Registered /\ sr'[j].errcode = 2
    BY Zenon DEF ErrcodeInv
  <2>1. CASE j = k
    BY <1>4, <1>5, <1>7, <2>1, Zenon
  <2>2. CASE j # k
    <3>1. j \in Live /\ sr'[j] = sr[j]
      BY <1>2, <1>5, <1>12, <2>2, Zenon
    <3> QED
      BY <1>0, <3>1, Zenon DEF ErrcodeInv
  <2> QED
    BY <2>1, <2>2, Zenon
<1>22. GpuInv'
  <2> SUFFICES ASSUME NEW s \in Streams, NEW j \in Range(gpu[s]), j # NoRequest
               PROVE  /\ j \in Live' /\ sr'[j].stream_id = s
                      /\ j \in On("done")' => sr'[j].errcode # 0
    BY <1>1, <1>2, Zenon DEF GpuInv
  <2>1. j \in Live /\ sr[j].stream_id = s /\ (j \in On("done") => sr[j].errcode # 0)
    BY <1>0, Zenon DEF GpuInv
  <2>2. j \in Ids /\ j # k
    BY <1>1, <1>12, <2>1, Zenon
  <2> QED
    BY <1>2, <1>3, <1>4, <1>5, <1>11, <2>1, <2>2, Zenon
<1> QED
  BY <1>14, <1>15, <1>18, <1>19, <1>20, <1>21, <1>22, Zenon DEF HelperInv

\* kh_service_done after the answer: the request leaves the helper, and takes
\* nothing along but its own stream and pins.
LEMMA DoneSets ==
  ASSUME HelperInv, NEW i \in Ids, kh_service_done(i)
  PROVE  /\ hpc = "cleanup" /\ i = Head(todo)
         /\ todo \in Seq(Ids) /\ todo # <<>> /\ IsInjective(todo)
         /\ Range(todo) \subseteq On("done") /\ i \in On("done") /\ i \in Live
         /\ all_reqs' \in Seq(Ids) /\ IsInjective(all_reqs') /\ Live' = Live \ {i}
         /\ lists' \in [Lists -> Seq(Ids)] /\ \A l \in Lists : IsInjective(lists'[l])
         /\ \A l \in Lists : i \notin On(l)'
         /\ \A l \in Lists : \A j : j # i => (j \in On(l)' <=> j \in On(l))
         /\ sr' \in [Ids -> ServiceRequests] /\ \A j \in Ids : j # i => sr'[j] = sr[j]
         /\ todo' \in Seq(Ids) /\ IsInjective(todo')
         /\ hpc' \in Stages \cup {"cleanup", "aborted"} /\ hpc' # "cleanup" /\ hpc # "aborted"
         /\ hpc' \in Lists => Range(todo') \subseteq On(hpc)'
<1>0. HelperTypeOK /\ PlaceInv
  BY Zenon DEF HelperInv
<1>1. /\ hpc = "cleanup" /\ i = Head(todo) /\ Disown(i)
      /\ lists' = [lists EXCEPT !["done"] = list_del(@, i)]
      /\ all_reqs' = list_del(all_reqs, i)
      /\ \/ hpc' = "aborted" /\ UNCHANGED <<sr, pinned, streamuses, todo>>
         \/ /\ pinned' = pinned \ {i}
            /\ streamuses' = streamuses \ {sr[i].stream_id}
            /\ sr' = [sr EXCEPT ![i] = Freed]
            /\ GoOn("done", 0)
  BY Zenon DEF kh_service_done
<1>2. /\ "init" \in Lists /\ "memdone" \in Lists /\ "prepared" \in Lists
      /\ "running" \in Lists /\ "post_exec" \in Lists /\ "done" \in Lists
  BY Zenon DEF Lists
<1>3. /\ todo \in Seq(Ids) /\ todo # <<>> /\ IsInjective(todo)
      /\ Range(todo) \subseteq On("done") /\ i \in On("done") /\ i \in Live
  <2>1. /\ todo \in Seq(Ids) /\ todo # <<>> /\ IsInjective(todo)
        /\ Range(todo) \subseteq On("done") /\ On("done") \subseteq Live
    BY <1>0, <1>1, <1>2, Zenon DEF HelperTypeOK, PlaceInv
  <2>2. Head(todo) \in Range(todo)
    BY <2>1, TailSet, Zenon
  <2> QED
    BY <1>1, <2>1, <2>2, Zenon
<1>4. /\ lists' \in [Lists -> Seq(Ids)]
      /\ \A l \in Lists : IsInjective(lists'[l])
      /\ \A l \in Lists : i \notin On(l)'
      /\ \A l \in Lists : \A j : j # i => (j \in On(l)' <=> j \in On(l))
  <2> DEFINE D == list_del(lists["done"], i)
  <2>1. lists \in [Lists -> Seq(Ids)] /\ \A l \in Lists : IsInjective(lists[l])
    BY <1>0, Zenon DEF HelperTypeOK, PlaceInv
  <2>2. D \in Seq(Ids) /\ IsInjective(D) /\ Range(D) = Range(lists["done"]) \ {i}
    BY <1>2, <1>3, <2>1, ListDelSet, Zenon DEF On
  <2>3. lists' = [lists EXCEPT !["done"] = D]
    BY <1>1, <1>2, <2>1, Zenon
  <2> HIDE DEF D
  <2>4. /\ lists' \in [Lists -> Seq(Ids)] /\ lists'["done"] = D
        /\ \A l \in Lists : l # "done" => lists'[l] = lists[l]
    BY <1>2, <2>1, <2>2, <2>3, SMTT(30)
  <2>5. On("done")' = On("done") \ {i} /\ \A l \in Lists : l # "done" => On(l)' = On(l)
    BY <2>2, <2>4, Zenon DEF On
  <2>6. \A l \in Lists : i \in On(l) => l = "done"
    BY <1>0, <1>2, <1>3, Zenon DEF PlaceInv
  <2> QED
    BY <2>1, <2>2, <2>4, <2>5, <2>6, Zenon
<1>5. all_reqs' \in Seq(Ids) /\ IsInjective(all_reqs') /\ Live' = Live \ {i}
  <2>1. all_reqs \in Seq(Ids) /\ IsInjective(all_reqs) /\ i \in Range(all_reqs)
    BY <1>0, <1>3, Zenon DEF HelperTypeOK, PlaceInv, Live
  <2>2. /\ list_del(all_reqs, i) \in Seq(Ids) /\ IsInjective(list_del(all_reqs, i))
        /\ Range(list_del(all_reqs, i)) = Range(all_reqs) \ {i}
    BY <2>1, ListDelSet, Zenon
  <2> QED
    BY <1>1, <2>2, Zenon DEF Live
<1>6. sr' \in [Ids -> ServiceRequests] /\ \A j \in Ids : j # i => sr'[j] = sr[j]
  <2>1. sr \in [Ids -> ServiceRequests]
    BY StageTypes, Zenon
  <2>2. Freed \in ServiceRequests
    BY FreedType, Zenon
  <2>3. CASE UNCHANGED sr
    BY <2>1, <2>3, Zenon
  <2>4. CASE sr' = [sr EXCEPT ![i] = Freed]
    BY <2>1, <2>2, <2>4, SMTT(30)
  <2> QED
    BY <1>1, <2>3, <2>4, Zenon
<1>7. /\ todo' \in Seq(Ids) /\ IsInjective(todo')
      /\ hpc' \in Stages \cup {"cleanup", "aborted"} /\ hpc' # "cleanup" /\ hpc # "aborted"
      /\ hpc' \in Lists => Range(todo') \subseteq On(hpc)'
  <2>1. "aborted" \notin Lists /\ "cleanup" # "aborted" /\ "cleanup" \notin Stages
    BY SMTT(30) DEF Lists, Stages
  <2>2. CASE hpc' = "aborted" /\ UNCHANGED todo
    BY <1>1, <1>3, <2>1, <2>2, Zenon
  <2>3. CASE GoOn("done", 0)
    <3>1. Range(todo) \ {Head(todo)} \subseteq On("done")'
      BY <1>1, <1>2, <1>3, <1>4, Zenon
    <3>2. /\ hpc' \in Stages /\ todo' \in Seq(Ids) /\ IsInjective(todo')
          /\ hpc' \in Lists => Range(todo') \subseteq On(hpc)'
      BY <1>2, <1>3, <1>4, <2>3, <3>1, GoOnPass, Zenon
    <3> QED
      BY <1>1, <2>1, <3>2, Zenon
  <2> QED
    BY <1>1, <2>2, <2>3, Zenon
<1> QED
  BY <1>1, <1>3, <1>4, <1>5, <1>6, <1>7, Zenon

\* It keeps the invariant.
LEMMA DoneKeeps ==
  ASSUME HelperInv, NEW i \in Ids, kh_service_done(i)
  PROVE  HelperInv'
<1>0. /\ HelperTypeOK /\ PlaceInv /\ StageInv /\ ErrcodeInv
      /\ StreamInv /\ PinInv /\ GpuInv
  BY Zenon DEF HelperInv
<1>1. /\ hpc = "cleanup" /\ i = Head(todo) /\ Disown(i)
      /\ lists' = [lists EXCEPT !["done"] = list_del(@, i)]
      /\ all_reqs' = list_del(all_reqs, i)
      /\ \/ hpc' = "aborted" /\ UNCHANGED <<sr, pinned, streamuses, todo>>
         \/ /\ pinned' = pinned \ {i}
            /\ streamuses' = streamuses \ {sr[i].stream_id}
            /\ sr' = [sr EXCEPT ![i] = Freed]
            /\ GoOn("done", 0)
  BY Zenon DEF kh_service_done
<1>2. /\ "init" \in Lists /\ "memdone" \in Lists /\ "prepared" \in Lists
      /\ "running" \in Lists /\ "post_exec" \in Lists /\ "done" \in Lists
  BY ListNames, Zenon
<1>3. /\ todo \in Seq(Ids) /\ todo # <<>> /\ IsInjective(todo)
      /\ Range(todo) \subseteq On("done") /\ i \in On("done") /\ i \in Live
  BY DoneSets, Zenon
<1>4. /\ lists' \in [Lists -> Seq(Ids)]
      /\ \A l \in Lists : IsInjective(lists'[l])
      /\ \A l \in Lists : i \notin On(l)'
      /\ \A l \in Lists : \A j : j # i => (j \in On(l)' <=> j \in On(l))
  BY DoneSets, Zenon
<1>5. all_reqs' \in Seq(Ids) /\ IsInjective(all_reqs') /\ Live' = Live \ {i}
  BY DoneSets, Zenon
<1>6. sr' \in [Ids -> ServiceRequests] /\ \A j \in Ids : j # i => sr'[j] = sr[j]
  BY DoneSets, Zenon
<1>7. /\ todo' \in Seq(Ids) /\ IsInjective(todo')
      /\ hpc' \in Stages \cup {"cleanup", "aborted"} /\ hpc' # "cleanup" /\ hpc # "aborted"
      /\ hpc' \in Lists => Range(todo') \subseteq On(hpc)'
  BY DoneSets, Zenon
<1>8. Live \subseteq Ids
  BY <1>0, LiveIds, Zenon
<1>9. HelperTypeOK'
  <2>1. streamuses' \subseteq Streams /\ pinned' \subseteq Ids
    BY <1>0, <1>1, Zenon DEF HelperTypeOK
  <2>2. gpu' \in [Streams -> Seq(Owners)]
    BY <1>0, <1>1, DisownSets, Zenon
  <2> QED
    BY <1>0, <1>1, <1>4, <1>5, <1>6, <1>7, <2>1, <2>2, Zenon DEF HelperTypeOK
<1>10. PlaceInv'
  <2>1. ASSUME NEW l \in Lists, NEW j \in On(l)' PROVE j \in Live'
    <3>1. j # i /\ j \in On(l)
      BY <1>4, Zenon
    <3> QED
      BY <1>0, <1>5, <3>1, Zenon DEF PlaceInv
  <2>2. \A j \in Live' : \E l \in Lists : j \in On(l)'
    BY <1>0, <1>4, <1>5, Zenon DEF PlaceInv
  <2>3. ASSUME NEW m \in Lists, NEW l \in Lists, NEW j \in On(m)', j \in On(l)'
        PROVE  m = l
    <3>1. j \in On(m) /\ j \in On(l)
      BY <1>4, <2>3, Zenon
    <3> QED
      BY <1>0, <3>1, Zenon DEF PlaceInv
  <2> QED
    BY <1>4, <1>5, <1>7, <2>1, <2>2, <2>3, Zenon DEF PlaceInv
<1>11. StageInv'
  <2> SUFFICES ASSUME NEW j \in Live'
               PROVE  /\ j \in On("init")' \/ j \in On("memdone")' => sr'[j].stream_id = NoStream
                      /\ j \in On("prepared")' \/ j \in On("running")' \/ j \in On("post_exec")' =>
                           sr'[j].stream_id # NoStream
                      /\ j \notin On("done")' => sr'[j].errcode = 0 /\ sr'[j].service \in Registered
    BY Zenon DEF StageInv
  <2>1. j \in Live /\ j # i /\ sr'[j] = sr[j]
    BY <1>5, <1>6, <1>8, Zenon
  <2>2. /\ (j \in On("init")' <=> j \in On("init"))
        /\ (j \in On("memdone")' <=> j \in On("memdone"))
        /\ (j \in On("prepared")' <=> j \in On("prepared"))
        /\ (j \in On("running")' <=> j \in On("running"))
        /\ (j \in On("post_exec")' <=> j \in On("post_exec"))
        /\ (j \in On("done")' <=> j \in On("done"))
    BY <1>2, <1>4, <2>1, Zenon
  <2>3. /\ j \in On("init") \/ j \in On("memdone") => sr[j].stream_id = NoStream
        /\ j \in On("prepared") \/ j \in On("running") \/ j \in On("post_exec") =>
             sr[j].stream_id # NoStream
        /\ j \notin On("done") => sr[j].errcode = 0 /\ sr[j].service \in Registered
    BY <1>0, <2>1, Zenon DEF StageInv
  <2> QED
    BY <2>1, <2>2, <2>3, Zenon
<1>12. StreamInv' /\ PinInv'
  <2>1. CASE hpc' = "aborted"
    BY <2>1, Zenon DEF StreamInv, PinInv
  <2>2. CASE /\ pinned' = pinned \ {i}
             /\ streamuses' = streamuses \ {sr[i].stream_id}
    <3>1. \A j \in Live' : j \in Live /\ j # i /\ j \in Ids /\ sr'[j] = sr[j]
      BY <1>5, <1>6, <1>8, Zenon
    <3>2. \A j \in Live : j # i => j \in Live'
      BY <1>5, Zenon
    <3>3. /\ \A j \in Live : sr[j].stream_id # NoStream => sr[j].stream_id \in streamuses
          /\ \A s \in streamuses : \E j \in Live : sr[j].stream_id = s
          /\ \A j, m \in Live :
               sr[j].stream_id # NoStream /\ sr[j].stream_id = sr[m].stream_id => j = m
      BY <1>0, <1>7, Zenon DEF StreamInv
    <3>4. StreamInv'
      <4>1. ASSUME NEW j \in Live', sr'[j].stream_id # NoStream
            PROVE  sr'[j].stream_id \in streamuses'
        <5>1. j \in Live /\ j # i /\ sr'[j] = sr[j]
          BY <3>1, Zenon
        <5>2. sr[j].stream_id \in streamuses /\ sr[j].stream_id # sr[i].stream_id
          BY <1>3, <3>3, <4>1, <5>1, Zenon
        <5> QED
          BY <2>2, <5>1, <5>2, Zenon
      <4>2. \A s \in streamuses' : \E j \in Live' : sr'[j].stream_id = s
        BY <2>2, <3>1, <3>2, <3>3, Zenon
      <4>3. \A j, m \in Live' :
              sr'[j].stream_id # NoStream /\ sr'[j].stream_id = sr'[m].stream_id => j = m
        BY <3>1, <3>3, Zenon
      <4> QED
        BY <4>1, <4>2, <4>3, Zenon DEF StreamInv
    <3>5. \A j \in Ids : j \in pinned <=> /\ j \in Live /\ sr[j].mem = "vma"
                                          /\ sr[j].service \in Registered /\ j \notin On("init")
      BY <1>0, <1>7, Zenon DEF PinInv
    <3>6. PinInv'
      <4> SUFFICES ASSUME NEW j \in Ids
                   PROVE  j \in pinned' <=> /\ j \in Live' /\ sr'[j].mem = "vma"
                                            /\ sr'[j].service \in Registered
                                            /\ j \notin On("init")'
        BY Zenon DEF PinInv
      <4>1. CASE j = i
        BY <1>5, <2>2, <4>1, Zenon
      <4>2. CASE j # i
        BY <1>2, <1>4, <1>5, <1>6, <2>2, <3>5, <4>2, Zenon
      <4> QED
        BY <4>1, <4>2, Zenon
    <3> QED
      BY <3>4, <3>6, Zenon
  <2> QED
    BY <1>1, <2>1, <2>2, Zenon
<1>13. ErrcodeInv'
  <2> SUFFICES ASSUME NEW j \in Live'
               PROVE  \/ sr'[j].service \in Registered /\ sr'[j].errcode \in ServErrs \cup {0}
                      \/ sr'[j].service \notin Registered /\ sr'[j].errcode = 2
    BY Zenon DEF ErrcodeInv
  <2>1. j \in Live /\ sr'[j] = sr[j]
    BY <1>5, <1>6, <1>8, Zenon
  <2> QED
    BY <1>0, <2>1, Zenon DEF ErrcodeInv
<1>14. GpuInv'
  <2> SUFFICES ASSUME NEW s \in Streams, NEW j \in Range(gpu'[s]), j # NoRequest
               PROVE  /\ j \in Live' /\ sr'[j].stream_id = s
                      /\ j \in On("done")' => sr'[j].errcode # 0
    BY Zenon DEF GpuInv
  <2>1. j # i /\ j \in Range(gpu[s])
    BY <1>0, <1>1, DisownSets, Zenon
  <2>2. j \in Live /\ sr[j].stream_id = s /\ (j \in On("done") => sr[j].errcode # 0)
    BY <1>0, <2>1, Zenon DEF GpuInv
  <2> QED
    BY <1>2, <1>4, <1>5, <1>6, <1>8, <2>1, <2>2, Zenon
<1> QED
  BY <1>9, <1>10, <1>11, <1>12, <1>13, <1>14, Zenon DEF HelperInv

-----------------------------------------------------------------------------
(***************************************************************************)
(* The helper.                                                             *)
(***************************************************************************)

\* The helper starts with nothing.
LEMMA InitKeeps == HelperInit => HelperInv
<1> SUFFICES ASSUME HelperInit PROVE HelperInv
  OBVIOUS
<1>1. /\ all_reqs = <<>> /\ lists = [l \in Lists |-> <<>>] /\ sr = [i \in Ids |-> Freed]
      /\ streamuses = {} /\ gpu = [s \in Streams |-> <<>>] /\ pinned = {}
      /\ hpc = "done" /\ todo = <<>>
  BY Zenon DEF HelperInit
<1>2. <<>> \in Seq(Ids) /\ <<>> \in Seq(Owners) /\ IsInjective(<<>>) /\ Range(<<>>) = {}
  BY EmptyList, EmptySeq, Zenon
<1>3. Live = {} /\ \A l \in Lists : lists[l] = <<>> /\ On(l) = {}
  BY <1>1, <1>2, Zenon DEF Live, On
<1>4. /\ "init" \in Lists /\ "memdone" \in Lists /\ "prepared" \in Lists
      /\ "running" \in Lists /\ "post_exec" \in Lists /\ "done" \in Lists
      /\ "done" # "cleanup"
  BY SMTT(30) DEF Lists
<1>5. HelperTypeOK
  <2>1. sr \in [Ids -> ServiceRequests]
    BY <1>1, FreedType, Zenon
  <2>2. hpc \in Stages \cup {"cleanup", "aborted"}
    BY <1>1, <1>4, Zenon DEF Stages
  <2> QED
    BY <1>1, <1>2, <2>1, <2>2, Zenon DEF HelperTypeOK
<1>6. PlaceInv
  BY <1>1, <1>2, <1>3, <1>4, Zenon DEF PlaceInv
<1>7. StageInv /\ ErrcodeInv /\ StreamInv /\ PinInv
  BY <1>1, <1>3, Zenon DEF StageInv, ErrcodeInv, StreamInv, PinInv
<1>8. GpuInv
  BY <1>1, <1>2, Zenon DEF GpuInv
<1> QED
  BY <1>5, <1>6, <1>7, <1>8, Zenon DEF HelperInv

\* A step without a system call leaves the requests where they are, moves one or
\* finishes one.
LEMMA StepShape ==
  ASSUME HelperInv, HelperStep
  PROVE  Waits \/ Moves \/ \E i \in Ids : kh_service_done(i)
<1>1. CASE EmptyPass
  <2>1. /\ hpc \in Stages /\ Begin(hpc)
        /\ UNCHANGED <<all_reqs, lists, sr, streamuses, gpu, pinned>>
    BY <1>1, Zenon DEF EmptyPass, Stages
  <2> QED
    BY <2>1, BeginWaits, Zenon
<1>2. ASSUME NEW i \in Ids, no_stream(i) PROVE Waits
  <2>1. /\ At("memdone", i) /\ GoOn("memdone", -1) /\ "memdone" \in Lists
        /\ UNCHANGED <<all_reqs, lists, sr, streamuses, gpu, pinned>>
    BY <1>2, Zenon DEF no_stream, Lists
  <2> QED
    BY <2>1, CallWaits, Zenon
<1> QED
  BY <1>1, <1>2, AllocMemStep, PrepareStep, LaunchStep, PostStep, FinishStep, Zenon
  DEF HelperStep

\* Every step of the helper keeps its invariant.
LEMMA StepKeeps ==
  ASSUME HelperInv, HelperStep
  PROVE  HelperInv'
<1>1. CASE Waits
  BY <1>1, WaitKeeps, Zenon
<1>2. CASE Moves
  BY <1>2, AdvanceKeeps, Zenon DEF Moves
<1>3. CASE \E i \in Ids : kh_service_done(i)
  BY <1>3, DoneKeeps, Zenon
<1> QED
  BY <1>1, <1>2, <1>3, StepShape, Zenon

\* So does a step of somebody else.
LEMMA StutterKeeps ==
  ASSUME HelperInv, UNCHANGED hvars
  PROVE  HelperInv'
<1>1. UNCHANGED <<all_reqs, lists, sr, streamuses, gpu, pinned, hpc, todo>>
  BY Zenon DEF hvars
<1>2. Live' = Live /\ \A l : On(l)' = On(l)
  BY <1>1, Zenon DEF Live, On
<1>3. HelperTypeOK' /\ PlaceInv'
  BY <1>1, <1>2, Zenon DEF HelperInv, HelperTypeOK, PlaceInv
<1>4. StageInv' /\ ErrcodeInv' /\ GpuInv'
  BY <1>1, <1>2, Zenon DEF HelperInv, StageInv, ErrcodeInv, GpuInv
<1>5. StreamInv' /\ PinInv'
  BY <1>1, <1>2, Zenon DEF HelperInv, StreamInv, PinInv
<1> QED
  BY <1>3, <1>4, <1>5, Zenon DEF HelperInv

\* Nothing to read: the next pass begins.
LEMMA PollWaits ==
  ASSUME HelperInv, kh_get_nothing
  PROVE  Waits
<1>1. /\ hpc = "get" /\ Begin("get") /\ "get" \in Stages
      /\ UNCHANGED <<all_reqs, lists, sr, streamuses, gpu, pinned>>
  BY Zenon DEF kh_get_nothing, Stages
<1> QED
  BY <1>1, BeginWaits, Zenon

-----------------------------------------------------------------------------
(***************************************************************************)
(* What the helper owes the kernel.                                        *)
(***************************************************************************)

\* The requests that it has read and not written an answer for.
Unanswered == Live \ (IF hpc = "cleanup" THEN {Head(todo)} ELSE {})

\* kh_init_service_request owes one more answer, to what was read.
LEMMA ReadOwes ==
  ASSUME HelperInv, NEW q \in KuRequests, q.id \notin Live, kh_init_service_request(q)
  PROVE  /\ hpc # "cleanup"
         /\ Unanswered' = Unanswered \cup {q.id}
         /\ sr'[q.id].service = q.service
         /\ \A i \in Unanswered : sr'[i].service = sr[i].service
<1>1. /\ Live' = Live \cup {q.id} /\ hpc # "cleanup" /\ hpc' # "cleanup"
      /\ sr'[q.id].service = q.service
      /\ \A j \in Ids : j # q.id => sr'[j] = sr[j]
  BY ReadSets, Zenon
<1>2. Live \subseteq Ids
  BY LiveIds, Zenon DEF HelperInv
<1>3. Unanswered = Live /\ Unanswered' = Live'
  BY <1>1, Zenon DEF Unanswered
<1> QED
  BY <1>1, <1>2, <1>3, Zenon

\* kh_send_response pays for the request it answers.
LEMMA RespondOwes ==
  ASSUME HelperInv, NEW i \in Ids, kh_send_response(i)
  PROVE  /\ i \in Unanswered /\ Unanswered' = Unanswered \ {i}
         /\ hpc' = "cleanup" /\ Head(todo') = i /\ sr' = sr
<1>1. /\ hpc = "done" /\ i \in Live /\ i = Head(todo) /\ hpc' = "cleanup"
      /\ UNCHANGED <<sr, todo>> /\ Live' = Live
  BY RespondFacts, Zenon
<1> QED
  BY <1>1, Zenon DEF Unanswered

\* What the helper does without a system call changes nothing of this, nor what
\* service the requests ask for.
LEMMA WaitOwes ==
  ASSUME HelperInv, Waits
  PROVE  Unanswered' = Unanswered /\ sr' = sr
<1>1. hpc \in Stages /\ hpc' \in Stages /\ UNCHANGED <<all_reqs, sr>>
  BY Zenon DEF Waits
<1>2. hpc # "cleanup" /\ hpc' # "cleanup"
  BY <1>1, SMTT(30) DEF Stages, Lists
<1> QED
  BY <1>1, <1>2, Zenon DEF Unanswered, Live

LEMMA StepOwes ==
  ASSUME HelperInv, HelperStep
  PROVE  /\ Unanswered' = Unanswered
         /\ \A i \in Unanswered : sr'[i].service = sr[i].service
<1>0. Live \subseteq Ids
  BY LiveIds, Zenon DEF HelperInv
<1>1. CASE Waits
  BY <1>1, WaitOwes, Zenon
<1>2. CASE Moves
  <2>1. PICK i \in Ids : \E from, to \in Lists : Advance(i, from, to)
    BY <1>2, Zenon DEF Moves
  <2>2. /\ hpc # "cleanup" /\ hpc' # "cleanup" /\ Live' = Live
    BY <2>1, AdvanceSets, Zenon
  <2>3. \A j \in Ids : sr'[j].service = sr[j].service
    BY <2>1, Zenon DEF Advance
  <2> QED
    BY <1>0, <2>2, <2>3, Zenon DEF Unanswered
<1>3. ASSUME NEW i \in Ids, kh_service_done(i)
      PROVE  /\ Unanswered' = Unanswered
             /\ \A j \in Unanswered : sr'[j].service = sr[j].service
  <2>1. /\ hpc = "cleanup" /\ i = Head(todo) /\ Live' = Live \ {i} /\ hpc' # "cleanup"
        /\ \A j \in Ids : j # i => sr'[j] = sr[j]
    BY <1>3, DoneSets, Zenon
  <2> QED
    BY <1>0, <2>1, Zenon DEF Unanswered
<1> QED
  BY <1>1, <1>2, <1>3, StepShape, Zenon

\* The answer that has been written says what became of the request: it has
\* failed, or all its work is done.
LEMMA AnsweredFacts ==
  ASSUME HelperInv, hpc = "cleanup"
  PROVE  /\ \/ /\ sr[Head(todo)].service \in Registered
               /\ sr[Head(todo)].errcode \in ServErrs \cup {0}
            \/ sr[Head(todo)].service \notin Registered /\ sr[Head(todo)].errcode = 2
         /\ sr[Head(todo)].errcode = 0 =>
              \A s \in Streams : Head(todo) \notin Range(gpu[s])
<1>1. /\ todo \in Seq(Ids) /\ todo # <<>> /\ IsInjective(todo)
      /\ Range(todo) \subseteq On("done") /\ On("done") \subseteq Live
  BY ListNames, Zenon DEF HelperInv, HelperTypeOK, PlaceInv
<1>2. Head(todo) \in Ids /\ Head(todo) \in On("done") /\ Head(todo) \in Live
  BY <1>1, TailSet, Zenon
<1>3. Head(todo) # NoRequest
  <2>1. Head(todo) \in Nat
    BY <1>2, HelperAssumption, Zenon
  <2> QED
    BY <2>1, SMT DEF NoRequest
<1> QED
  BY <1>2, <1>3, Zenon DEF HelperInv, ErrcodeInv, GpuInv

-----------------------------------------------------------------------------
(***************************************************************************)
(* What the helper promises, from the invariant.                           *)
(***************************************************************************)

\* The lists hold the unfinished requests, each one once.
LEMMA OnOneList == HelperInv => ListsPartitionLive
<1> SUFFICES ASSUME HelperInv PROVE ListsPartitionLive
  OBVIOUS
<1>1. PlaceInv
  BY Zenon DEF HelperInv
<1>2. UNION { On(l) : l \in Lists } = Live
  <2>1. \A i \in Live : \E l \in Lists : i \in On(l)
    BY <1>1, Zenon DEF PlaceInv
  <2>2. \A l \in Lists : \A i \in On(l) : i \in Live
    BY <1>1, Zenon DEF PlaceInv
  <2> QED
    BY <2>1, <2>2, SMTT(30)
<1>3. \A k, l \in Lists : k # l => On(k) \cap On(l) = {}
  BY <1>1, Zenon DEF PlaceInv
<1> QED
  BY <1>1, <1>2, <1>3, Zenon DEF PlaceInv, ListsPartitionLive

\* The streams in use are those of the unfinished requests, each of one.
LEMMA OneStreamEach == HelperInv => StreamsExclusive
<1> SUFFICES ASSUME HelperInv, hpc # "aborted"
             PROVE  LET Holders == { i \in Live : sr[i].stream_id # NoStream } IN
                    /\ streamuses = { sr[i].stream_id : i \in Holders }
                    /\ \A i, j \in Holders : sr[i].stream_id = sr[j].stream_id => i = j
  BY Zenon DEF StreamsExclusive
<1> DEFINE Holders == { i \in Live : sr[i].stream_id # NoStream }
<1>1. /\ \A i \in Live : sr[i].stream_id # NoStream => sr[i].stream_id \in streamuses
      /\ \A s \in streamuses : \E i \in Live : sr[i].stream_id = s
      /\ \A i, j \in Live :
           sr[i].stream_id # NoStream /\ sr[i].stream_id = sr[j].stream_id => i = j
  BY Zenon DEF HelperInv, StreamInv
<1>2. NoStream \notin streamuses
  <2>1. streamuses \subseteq Streams
    BY Zenon DEF HelperInv, HelperTypeOK
  <2>2. NoStream \notin Streams
    BY HelperAssumption, SMTT(30) DEF Streams, NoStream
  <2> QED
    BY <2>1, <2>2, Zenon
<1>3. \A s \in streamuses : \E i \in Holders : sr[i].stream_id = s
  BY <1>1, <1>2, Zenon
<1>4. \A i \in Holders : sr[i].stream_id \in streamuses
  BY <1>1, Zenon
<1>5. \A i, j \in Holders : sr[i].stream_id = sr[j].stream_id => i = j
  BY <1>1, Zenon
<1> HIDE DEF Holders
<1>6. streamuses = { sr[i].stream_id : i \in Holders }
  BY <1>3, <1>4, Zenon
<1> QED
  BY <1>5, <1>6, Zenon DEF Holders

\* What is pinned is what unfinished requests past kh_request_alloc_mem have mapped.
LEMMA PinnedWhileUsed == HelperInv => PinsBalanced
<1> SUFFICES ASSUME HelperInv, hpc # "aborted"
             PROVE  pinned = { i \in Live : /\ sr[i].mem = "vma" /\ sr[i].service \in Registered
                                           /\ i \notin On("init") }
  BY Zenon DEF PinsBalanced
<1>1. \A i \in Ids : i \in pinned <=> /\ i \in Live /\ sr[i].mem = "vma"
                                      /\ sr[i].service \in Registered /\ i \notin On("init")
  BY Zenon DEF HelperInv, PinInv
<1>2. pinned \subseteq Ids /\ Live \subseteq Ids
  BY LiveIds, Zenon DEF HelperInv, HelperTypeOK
<1> QED
  BY <1>1, <1>2, Zenon

-----------------------------------------------------------------------------
(***************************************************************************)
(* The helper does not abort, if it can release what it is given: memory   *)
(* mapped for a request comes only with a service that it knows.           *)
(***************************************************************************)

\* So for the requests it has, and it runs.
ReleaseInv ==
  /\ hpc # "aborted"
  /\ \A i \in Live : sr[i].mem = "vma" => sr[i].service \in Registered

\* At first there are no requests.
LEMMA InitReleases == HelperInit => ReleaseInv
<1> SUFFICES ASSUME HelperInit PROVE ReleaseInv
  OBVIOUS
<1>1. all_reqs = <<>> /\ hpc = "done"
  BY Zenon DEF HelperInit
<1>2. Live = {}
  BY <1>1, EmptyList, Zenon DEF Live
<1>3. hpc # "aborted"
  BY <1>1, SMTT(30)
<1> QED
  BY <1>2, <1>3, Zenon DEF ReleaseInv

\* A step that leaves the requests what they are.
LEMMA SameRequests ==
  ASSUME HelperInv, ReleaseInv, UNCHANGED all_reqs, hpc' # "aborted",
         \A j \in Ids : sr'[j].mem = sr[j].mem /\ sr'[j].service = sr[j].service
  PROVE  ReleaseInv'
<1>1. Live' = Live /\ Live \subseteq Ids
  BY LiveIds, Zenon DEF Live, HelperInv
<1> QED
  BY <1>1, Zenon DEF ReleaseInv

\* An empty pass or poll, and a call that leaves its request where it is.
LEMMA WaitReleases ==
  ASSUME HelperInv, ReleaseInv, Waits
  PROVE  ReleaseInv'
<1>1. UNCHANGED <<all_reqs, sr>> /\ hpc' \in Stages
  BY Zenon DEF Waits
<1>2. hpc' # "aborted"
  BY <1>1, SMTT(30) DEF Stages, Lists
<1> QED
  BY <1>1, <1>2, SameRequests, Zenon

\* A request that is read.
LEMMA ReadReleases ==
  ASSUME HelperInv, ReleaseInv, NEW q \in KuRequests, q.id \notin Live,
         kh_init_service_request(q), q.mem = "vma" => q.service \in Registered
  PROVE  ReleaseInv'
<1>1. /\ q.id \in Ids /\ Live' = Live \cup {q.id} /\ hpc' # "aborted"
      /\ sr'[q.id].service = q.service /\ sr'[q.id].mem = q.mem
      /\ \A j \in Ids : j # q.id => sr'[j] = sr[j]
  BY ReadSets, Zenon
<1>2. Live \subseteq Ids
  BY LiveIds, Zenon DEF HelperInv
<1>3. ASSUME NEW j \in Live', sr'[j].mem = "vma" PROVE sr'[j].service \in Registered
  <2>1. CASE j = q.id
    BY <1>1, <1>3, <2>1, Zenon
  <2>2. CASE j # q.id
    <3>1. j \in Live /\ sr'[j] = sr[j]
      BY <1>1, <1>2, <2>2, Zenon
    <3> QED
      BY <1>3, <3>1, Zenon DEF ReleaseInv
  <2> QED
    BY <2>1, <2>2, Zenon
<1> QED
  BY <1>1, <1>3, Zenon DEF ReleaseInv

\* The first half of kh_service_done.
LEMMA RespondReleases ==
  ASSUME HelperInv, ReleaseInv, NEW i \in Ids, kh_send_response(i)
  PROVE  ReleaseInv'
<1>1. hpc' = "cleanup" /\ UNCHANGED <<all_reqs, sr>>
  BY Zenon DEF kh_send_response
<1>2. hpc' # "aborted"
  BY <1>1, SMTT(30)
<1> QED
  BY <1>1, <1>2, SameRequests, Zenon

\* The other steps: kh_service_done finds mapped memory of a request on done_reqs
\* pinned.
LEMMA StepReleases ==
  ASSUME HelperInv, ReleaseInv, HelperStep
  PROVE  ReleaseInv'
<1>0. Live \subseteq Ids
  BY LiveIds, Zenon DEF HelperInv
<1>1. CASE Moves
  <2>1. PICK i \in Ids : \E from, to \in Lists : Advance(i, from, to)
    BY <1>1, Zenon DEF Moves
  <2>2. PICK from \in Lists, to \in Lists : Advance(i, from, to)
    BY <2>1, Zenon
  <2>3. hpc' # "aborted"
    BY <2>2, AdvanceSets, Zenon
  <2>4. UNCHANGED all_reqs
    BY <2>2, Zenon DEF Advance
  <2>5. \A j \in Ids : sr'[j].mem = sr[j].mem /\ sr'[j].service = sr[j].service
    BY <2>2, Zenon DEF Advance
  <2> QED
    BY <2>3, <2>4, <2>5, SameRequests, Zenon
<1>2. ASSUME NEW i \in Ids, kh_service_done(i) PROVE ReleaseInv'
  <2>1. /\ i \in On("done") /\ i \in Live /\ Live' = Live \ {i} /\ hpc # "aborted"
        /\ \A j \in Ids : j # i => sr'[j] = sr[j]
    BY <1>2, DoneSets, Zenon
  <2>2. i \notin On("init")
    <3>1. "init" # "done"
      BY SMTT(30)
    <3> QED
      BY <2>1, <3>1, ListNames, Zenon DEF HelperInv, PlaceInv
  <2>3. ~UnpinFails(i)
    BY <1>0, <2>1, <2>2, Zenon DEF UnpinFails, HelperInv, PinInv, ReleaseInv
  <2>4. GoOn("done", 0)
    BY <1>2, <2>3, Zenon DEF kh_service_done
  <2>5. hpc' # "aborted"
    <3>1. hpc' = "post_exec" \/ hpc' = "done"
      BY <2>4, Zenon DEF GoOn, Begin, Following
    <3> QED
      BY <3>1, SMTT(30)
  <2> QED
    BY <1>0, <2>1, <2>5, Zenon DEF ReleaseInv
<1> QED
  BY <1>1, <1>2, WaitReleases, StepShape, Zenon

=============================================================================
