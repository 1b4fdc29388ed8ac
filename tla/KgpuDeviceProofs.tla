-------------------------- MODULE KgpuDeviceProofs --------------------------
(***************************************************************************)
(* The theorems about KgpuDevice, for any threads, requests and data       *)
(* objects.  First, where a request is in the transport and what moves it, *)
(* and what each step does to DeviceInv.                                   *)
(***************************************************************************)
EXTENDS KgpuDevice, LinkedListLemmas

\* The points of a call are different, and these are the ones of a sync call.
LEMMA PCFacts ==
  /\ "client" \notin InSync /\ "async_enqueue" \notin InSync
  /\ {"sync_enqueue", "sync_wait", "sync_sleep", "sync_return"} \subseteq InSync
  /\ "client" # "async_enqueue" /\ "client" # "sync_enqueue" /\ "client" # "sync_wait"
  /\ "client" # "sync_sleep" /\ "client" # "sync_return"
  /\ "async_enqueue" # "sync_enqueue" /\ "async_enqueue" # "sync_wait"
  /\ "async_enqueue" # "sync_sleep" /\ "async_enqueue" # "sync_return"
  /\ "sync_enqueue" # "sync_wait" /\ "sync_enqueue" # "sync_sleep"
  /\ "sync_enqueue" # "sync_return" /\ "sync_wait" # "sync_sleep"
  /\ "sync_wait" # "sync_return" /\ "sync_sleep" # "sync_return"
  BY SMT DEF InSync

\* So are the points of the helper's system calls.
LEMMA WPCFacts ==
  /\ "user" # "read" /\ "user" # "callback" /\ "user" # "sync_callback"
  /\ "user" # "set_done" /\ "user" # "wake" /\ "read" # "callback"
  /\ "read" # "sync_callback" /\ "read" # "set_done" /\ "read" # "wake"
  /\ "callback" # "sync_callback" /\ "callback" # "set_done" /\ "callback" # "wake"
  /\ "sync_callback" # "set_done" /\ "sync_callback" # "wake" /\ "set_done" # "wake"
  OBVIOUS

\* A client's callback is not sync_callback.
LEMMA CallbackFacts == "sync_callback" \notin ClientCallbacks
  BY SMT DEF ClientCallbacks

\* The types that the proofs use one by one.
LEMMA Types ==
  ASSUME DeviceInv
  PROVE  /\ reqs \in Seq(Requests) /\ rtdreqs \in Seq(Requests)
         /\ owner \in [Requests -> Threads \cup {NULL}]
         /\ id \in [Requests -> Int]
         /\ callback \in [Requests -> Callbacks]
         /\ kdata \in [Requests -> Data \cup {ClientData}]
         /\ errcode \in [Requests -> Nat]
         /\ pending \subseteq Requests /\ freedata \subseteq Data
         /\ done \in [Data -> {0, 1}]
         /\ old \in [Data -> [kdata : Data \cup {ClientData}, callback : Callbacks]]
         /\ pc \in [Threads -> PCs]
         /\ cur \in [Threads -> Requests \cup {NULL}]
         /\ data \in [Threads -> Data \cup {NULL}]
         /\ held \in Seq([id : Int, r : Requests])
  BY Zenon DEF DeviceInv, TypeOK, KernelTypeOK

\* A step that leaves the lists and the system call alone moves no request.
LEMMA NotMoved ==
  ASSUME UNCHANGED <<reqs, rtdreqs, wpc, wreq>>
  PROVE  /\ InFlightOnce => InFlightOnce'
         /\ InFlight' = InFlight
<1>1. InSyscall' = InSyscall
  BY Zenon DEF InSyscall
<1> QED BY <1>1, Zenon DEF InFlightOnce, InFlight

\* A thread that executes a call owns the request of the call.
LEMMA BusyFacts ==
  ASSUME DeviceInv, NEW u \in Threads, pc[u] # "client"
  PROVE  owner[cur[u]] = u
<1>1. pc[u] = "async_enqueue" \/ pc[u] \in InSync
  BY Types, Zenon DEF PCs
<1>2. CASE pc[u] = "async_enqueue"
  BY <1>2, Zenon DEF DeviceInv, AsyncInv
<1>3. CASE pc[u] \in InSync
  BY <1>3, Zenon DEF DeviceInv, SyncInv
<1> QED
  BY <1>1, <1>2, <1>3, Zenon

\* A request in flight is pending, or some thread is in a call on it.
LEMMA FlightFacts ==
  ASSUME DeviceInv, NEW r \in InFlight, r \notin pending
  PROVE  \E u \in Threads : AwaitedBy(u, r) /\ pc[u] \in InSync /\ pc[u] # "client"
<1>1. PICK u \in Threads : AwaitedBy(u, r)
  BY Zenon DEF DeviceInv, FlightInv
<1>2. pc[u] \in {"sync_wait", "sync_sleep"}
  BY <1>1, Zenon DEF AwaitedBy
<1>3. pc[u] \in InSync /\ pc[u] # "client"
  BY <1>2, PCFacts, Zenon
<1> QED BY <1>1, <1>3, Zenon

\* A request that its owner takes to be at rest is nowhere in the transport:
\* not in flight, not the request of any call, and with its own callback.
LEMMA AtRestFacts ==
  ASSUME DeviceInv, NEW t \in Threads, NEW r \in Requests, AtRest(t, r)
  PROVE  /\ owner[r] = t /\ r \notin pending /\ pc[t] = "client"
         /\ \A u \in Threads : pc[u] # "client" => cur[u] # r
         /\ r \notin InFlight
         /\ callback[r] \in ClientCallbacks
<1>0. owner[r] = t /\ r \notin pending /\ pc[t] = "client"
  BY Zenon DEF AtRest
<1>1. \A u \in Threads : pc[u] # "client" => cur[u] # r
  BY <1>0, BusyFacts, Zenon
<1>2. r \notin InFlight
  BY <1>0, <1>1, FlightFacts, Zenon DEF AwaitedBy
<1>3. callback[r] # "sync_callback"
  BY <1>1, PCFacts, Zenon DEF DeviceInv, CallbackInv
<1>4. callback[r] \in ClientCallbacks
  BY <1>3, Types, Zenon DEF Callbacks
<1> QED
  BY <1>0, <1>1, <1>2, <1>4, Zenon

\* So is an object that is not allocated.
LEMMA UnownedFacts ==
  ASSUME DeviceInv, NEW r \in Requests, owner[r] = NULL
  PROVE  /\ r \notin pending
         /\ \A u \in Threads : pc[u] # "client" => cur[u] # r
         /\ r \notin InFlight
<1>1. r \notin pending
  BY Zenon DEF DeviceInv, CallbackInv
<1>2. \A u \in Threads : u # NULL
  BY KernelAssumption, Zenon
<1>3. \A u \in Threads : pc[u] # "client" => cur[u] # r
  BY <1>2, BusyFacts, Zenon
<1>4. r \notin InFlight
  BY <1>1, <1>3, FlightFacts, Zenon DEF AwaitedBy
<1> QED
  BY <1>1, <1>3, <1>4, Zenon

\* Ids are bounded by the last one drawn.
LEMMA IdFacts ==
  ASSUME DeviceInv
  PROVE  /\ rid_sequence \in Nat
         /\ \A q \in Requests : id[q] \in Int /\ id[q] <= rid_sequence
<1>1. rid_sequence \in 0..MaxInt
  BY Zenon DEF DeviceInv, TypeOK, KernelTypeOK
<1>2. rid_sequence \in Nat
  BY <1>1, KernelAssumption, SMT
<1>3. \A q \in Requests : id[q] \in Int /\ id[q] <= rid_sequence
  BY Types, Zenon DEF DeviceInv, IdInv
<1> QED
  BY <1>2, <1>3, Zenon

\* What the helper holds is in flight.
LEMMA HeldFacts ==
  ASSUME DeviceInv
  PROVE  \A i \in DOMAIN held : held[i].r \in InFlight /\ held[i].r \in Requests
<1>1. \A i \in DOMAIN held : held[i].r \in InFlight
  <2> SUFFICES ASSUME NEW i \in DOMAIN held PROVE held[i].r \in InFlight
    BY Zenon
  <2>1. \/ \E j \in DOMAIN rtdreqs : rtdreqs[j] = held[i].r
        \/ wpc = "read" /\ held[i].r = wreq
    BY Zenon DEF DeviceInv, HeldInv
  <2>2. held[i].r \in Range(rtdreqs) \/ held[i].r \in InSyscall
    BY <2>1, Zenon DEF Range, InSyscall
  <2> QED BY <2>2, Zenon DEF InFlight
<1>2. \A i \in DOMAIN held : held[i] \in [id : Int, r : Requests]
  <2>1. held \in [1..Len(held) -> [id : Int, r : Requests]]
    BY Types, LenProperties, ZenonT(60)
  <2> QED
    BY <2>1, Zenon
<1>3. \A e \in [id : Int, r : Requests] : e.r \in Requests
  BY Zenon
<1> QED
  BY <1>1, <1>2, <1>3, Zenon

(***************************************************************************)
(* The steps that move a request.                                          *)
(***************************************************************************)

\* The lists and the system call hold a request once: what is left to show when
\* one of the lists has changed.
LEMMA Placed ==
  ASSUME IsInjective(reqs'), IsInjective(rtdreqs'),
         Range(reqs') \cap Range(rtdreqs') = {},
         (Range(reqs') \cup Range(rtdreqs')) \cap InSyscall' = {}
  PROVE  InFlightOnce'
  BY Zenon DEF InFlightOnce

\* list_add_tail on reqs puts a request in flight.
LEMMA Enqueued ==
  ASSUME DeviceInv, NEW q \in Requests, q \notin InFlight,
         reqs' = Append(reqs, q), UNCHANGED <<rtdreqs, wpc, wreq>>
  PROVE  /\ reqs' \in Seq(Requests)
         /\ InFlightOnce'
         /\ InFlight' = InFlight \cup {q}
<1>0. InFlightOnce
  BY Zenon DEF DeviceInv
<1>1. /\ reqs \in Seq(Requests) /\ IsInjective(reqs) /\ q \notin Range(reqs)
      /\ q \notin Range(rtdreqs) /\ q \notin InSyscall
  BY <1>0, Types, Zenon DEF InFlightOnce, InFlight
<1>2. /\ reqs' \in Seq(Requests)
      /\ IsInjective(reqs')
      /\ Range(reqs') = Range(reqs) \cup {q}
  BY <1>1, AppendSet, SMT
<1>3. InSyscall' = InSyscall
  BY Zenon DEF InSyscall
<1>4. InFlightOnce'
  BY <1>0, <1>1, <1>2, <1>3, Placed, ZenonT(60) DEF InFlightOnce
<1> QED
  BY <1>2, <1>3, <1>4, ZenonT(60) DEF InFlight

\* kgpu_read under reqlock takes a request from reqs into the system call.
LEMMA Taken ==
  ASSUME DeviceInv, kgpu_read
  PROVE  /\ reqs' \in Seq(Requests) /\ wreq' \in Requests /\ wreq' \in Range(reqs)
         /\ InFlightOnce'
         /\ InFlight' = InFlight
<1>0. InFlightOnce
  BY Zenon DEF DeviceInv
<1>1. /\ reqs \in Seq(Requests) /\ IsInjective(reqs) /\ reqs # <<>>
      /\ wreq' = Head(reqs) /\ reqs' = Tail(reqs) /\ rtdreqs' = rtdreqs
      /\ wpc = "user" /\ wpc' = "read"
  BY <1>0, Types, Zenon DEF InFlightOnce, kgpu_read
<1>2. /\ wreq' \in Requests /\ wreq' \in Range(reqs)
      /\ reqs' \in Seq(Requests)
      /\ IsInjective(reqs')
      /\ Range(reqs') = Range(reqs) \ {wreq'}
  BY <1>1, TailSet, Zenon
<1>3. InSyscall = {} /\ InSyscall' = {wreq'}
  BY <1>1, WPCFacts, Zenon DEF InSyscall
<1>4. InFlightOnce'
  BY <1>0, <1>1, <1>2, <1>3, Placed, ZenonT(60) DEF InFlightOnce
<1> QED
  BY <1>1, <1>2, <1>3, <1>4, ZenonT(60) DEF InFlight

\* kgpu_read under rtdreqlock puts it in rtdreqs.
LEMMA PutBack ==
  ASSUME DeviceInv, read_return
  PROVE  /\ rtdreqs' \in Seq(Requests)
         /\ Range(rtdreqs') = Range(rtdreqs) \cup {wreq}
         /\ InFlightOnce'
         /\ InFlight' = InFlight
<1>0. InFlightOnce /\ SyscallInv
  BY Zenon DEF DeviceInv
<1>1. /\ wpc = "read" /\ wpc' = "user"
      /\ rtdreqs' = Append(rtdreqs, wreq) /\ reqs' = reqs
  BY Zenon DEF read_return
<1>2. InSyscall = {wreq} /\ InSyscall' = {} /\ wreq \in Requests
  BY <1>0, <1>1, WPCFacts, Zenon DEF SyscallInv, InSyscall
<1>3. /\ rtdreqs \in Seq(Requests) /\ IsInjective(rtdreqs)
      /\ wreq \notin Range(rtdreqs) /\ wreq \notin Range(reqs)
  BY <1>0, <1>2, Types, Zenon DEF InFlightOnce
<1>4. /\ rtdreqs' \in Seq(Requests)
      /\ IsInjective(rtdreqs')
      /\ Range(rtdreqs') = Range(rtdreqs) \cup {wreq}
  BY <1>1, <1>2, <1>3, AppendSet, SMT
<1>5. InFlightOnce'
  BY <1>0, <1>1, <1>2, <1>3, <1>4, Placed, ZenonT(60) DEF InFlightOnce
<1> QED
  BY <1>1, <1>2, <1>4, <1>5, ZenonT(60) DEF InFlight

\* kgpu_write takes the request that find_request finds out of rtdreqs.
LEMMA Answered ==
  ASSUME DeviceInv, NEW rid \in Int, NEW err \in Nat, kgpu_write(rid, err)
  PROVE  /\ rtdreqs' \in Seq(Requests)
         /\ wreq' \in Requests /\ wreq' \in Range(rtdreqs) /\ id[wreq'] = rid
         /\ Range(rtdreqs') = Range(rtdreqs) \ {wreq'}
         /\ errcode' \in [Requests -> Nat]
         /\ InFlightOnce'
         /\ InFlight' = InFlight
<1>0. InFlightOnce
  BY Zenon DEF DeviceInv
<1>1. PICK i \in DOMAIN rtdreqs : /\ FoundAt(i, rid)
                                  /\ rtdreqs' = DelAt(rtdreqs, i)
                                  /\ errcode' = [errcode EXCEPT ![rtdreqs[i]] = err]
                                  /\ wreq' = rtdreqs[i]
  BY Zenon DEF kgpu_write
<1>2. rtdreqs \in Seq(Requests) /\ IsInjective(rtdreqs) /\ i \in 1..Len(rtdreqs)
  BY <1>0, Types, LenProperties, ZenonT(60) DEF InFlightOnce
<1>3. /\ wreq' \in Requests /\ wreq' \in Range(rtdreqs)
      /\ rtdreqs' \in Seq(Requests)
      /\ IsInjective(rtdreqs')
      /\ Range(rtdreqs') = Range(rtdreqs) \ {wreq'}
  BY <1>1, <1>2, DelAtSet, Zenon
<1>4. id[wreq'] = rid
  BY <1>1, Zenon DEF FoundAt
<1>5. errcode' \in [Requests -> Nat]
  <2>1. errcode \in [Requests -> Nat] /\ rtdreqs[i] \in Requests
    BY <1>1, <1>3, Types, Zenon
  <2> QED BY <1>1, <2>1, Zenon
<1>6. wpc = "user" /\ wpc' = "callback" /\ reqs' = reqs
  BY Zenon DEF kgpu_write
<1>7. InSyscall = {} /\ InSyscall' = {wreq'}
  BY <1>6, WPCFacts, Zenon DEF InSyscall
<1>8. InFlightOnce'
  BY <1>0, <1>3, <1>6, <1>7, Placed, ZenonT(60) DEF InFlightOnce
<1>9. InFlight' = InFlight
  BY <1>3, <1>6, <1>7, ZenonT(60) DEF InFlight
<1> QED
  BY <1>3, <1>4, <1>5, <1>8, <1>9, Zenon

\* When the system call is done with the request, the request is at rest.
LEMMA LetGo ==
  ASSUME DeviceInv, InSyscall = {wreq}, InSyscall' = {},
         UNCHANGED <<reqs, rtdreqs>>
  PROVE  /\ InFlightOnce'
         /\ InFlight' = InFlight \ {wreq}
<1>1. InFlightOnce
  BY Zenon DEF DeviceInv
<1>2. InFlightOnce'
  BY <1>1, Placed, ZenonT(60) DEF InFlightOnce
<1> QED
  BY <1>1, <1>2, ZenonT(60) DEF InFlightOnce, InFlight

-----------------------------------------------------------------------------
(***************************************************************************)
(* What a thread does in its call: queueing the request, waiting for the   *)
(* answer, returning.                                                      *)
(***************************************************************************)

\* The parts of the invariant that no step of a thread in its call disturbs.
LEMMA SameBooks ==
  ASSUME DeviceInv, UNCHANGED <<owner, id, rid_sequence, rtdreqs, wpc, wreq, held>>
  PROVE  IdInv' /\ HeldInv'
<1>1. IdInv'
  BY Zenon DEF DeviceInv, IdInv, UniqueIds
<1>2. HeldInv'
  BY ZenonT(60) DEF DeviceInv, HeldInv
<1> QED BY <1>1, <1>2, Zenon

\* kgpu_call_async under reqlock.
LEMMA AsyncEnqueueStep ==
  ASSUME DeviceInv, NEW t \in Threads, async_enqueue(t),
         UNCHANGED <<up, held>>
  PROVE  DeviceInv'
<1>0. /\ TypeOK /\ NoLostWakeup /\ AsyncInv /\ SyncInv /\ DoneInv /\ DataInv
      /\ CallbackInv /\ FlightInv /\ SyscallInv
  BY Zenon DEF DeviceInv
<1>1. /\ pc[t] = "async_enqueue" /\ reqs' = Append(reqs, cur[t])
      /\ pc' = [pc EXCEPT ![t] = "client"] /\ cur' = [cur EXCEPT ![t] = NULL]
  BY Zenon DEF async_enqueue
<1>2. UNCHANGED <<state, rid_sequence, rtdreqs, owner, id, callback, kdata, errcode,
                  pending, freedata, done, old, data, wpc, wreq, wdata>>
  BY Zenon DEF async_enqueue, objects, syncs, syscall
<1>3. /\ cur[t] \in pending /\ cur[t] \in Requests /\ cur[t] \notin InFlight
      /\ owner[cur[t]] = t
  BY <1>0, <1>1, Types, Zenon DEF AsyncInv
<1>4. /\ reqs' \in Seq(Requests)
      /\ InFlightOnce' /\ InFlight' = InFlight \cup {cur[t]}
  BY <1>1, <1>2, <1>3, Enqueued, Zenon
<1>5. /\ pc'[t] = "client"
      /\ \A u \in Threads : u # t => pc'[u] = pc[u] /\ cur'[u] = cur[u]
  BY <1>1, Types, Zenon
<1>6. \A u \in Threads : u # t /\ pc[u] # "client" => cur[u] # cur[t]
  BY <1>3, BusyFacts, Zenon
<1>7. \A u \in Threads : pc'[u] # "client" => u # t
  BY <1>5, Zenon
<1>8. \A u \in Threads : pc[u] \in InSync => u # t /\ cur[u] # cur[t]
  BY <1>1, <1>6, PCFacts, Zenon
<1>9. \A u \in Threads, r \in InFlight \cup {wreq} : AwaitedBy(u, r) =>
        pc[u] \in InSync /\ AwaitedBy(u, r)'
  BY <1>2, <1>5, <1>8, PCFacts, Zenon DEF AwaitedBy
<1>10. TypeOK'
  <2>1. "client" \in PCs
    BY Zenon DEF PCs
  <2>2. pc' \in [Threads -> PCs] /\ cur' \in [Threads -> Requests \cup {NULL}]
    BY <1>1, <2>1, Types, Zenon
  <2> QED BY <1>0, <1>2, <1>4, <2>2, Zenon DEF TypeOK, KernelTypeOK
<1>11. NoLostWakeup'
  BY <1>0, <1>2, <1>5, <1>7, PCFacts, Zenon DEF NoLostWakeup
<1>12. AsyncInv'
  BY <1>0, <1>2, <1>4, <1>5, <1>6, <1>7, PCFacts, Zenon DEF AsyncInv
<1>13. \A u \in Threads : pc'[u] \in InSync => pc[u] \in InSync /\ cur'[u] = cur[u]
  BY <1>5, <1>7, PCFacts, Zenon
<1>14. SyncInv'
  BY <1>0, <1>2, <1>13, Zenon DEF SyncInv
<1>15. DoneInv'
  BY <1>0, <1>2, <1>4, <1>5, <1>6, <1>7, PCFacts, Zenon DEF DoneInv
<1>16. DataInv'
  BY <1>0, <1>2, <1>5, <1>7, PCFacts, Zenon DEF DataInv
<1>17. CallbackInv'
  <2>1. \A u \in Threads : pc[u] \in InSync => pc'[u] \in InSync /\ cur'[u] = cur[u]
    BY <1>5, <1>8, Zenon
  <2> QED BY <1>0, <1>2, <2>1, Zenon DEF CallbackInv
<1>18. FlightInv'
  BY <1>0, <1>2, <1>3, <1>4, <1>9, Zenon DEF FlightInv
<1>19. SyscallInv'
  <2>1. wpc = "set_done" => wreq \notin InFlight'
    BY <1>0, <1>4, <1>8, <1>9, Zenon DEF SyscallInv, AwaitedBy
  <2> QED BY <1>0, <1>2, <1>9, <2>1, Zenon DEF SyscallInv
<1>20. IdInv' /\ HeldInv'
  BY <1>2, SameBooks, Zenon
<1> QED
  BY <1>4, <1>10, <1>11, <1>12, <1>14, <1>15, <1>16, <1>17, <1>18, <1>19, <1>20, Zenon
     DEF DeviceInv

\* kgpu_call_sync under reqlock: the data is not done yet, so FlightInv holds of
\* the new request.
LEMMA SyncEnqueueStep ==
  ASSUME DeviceInv, NEW t \in Threads, sync_enqueue(t),
         UNCHANGED <<up, held>>
  PROVE  DeviceInv'
<1>0. /\ TypeOK /\ NoLostWakeup /\ AsyncInv /\ SyncInv /\ DoneInv /\ DataInv
      /\ CallbackInv /\ FlightInv /\ SyscallInv
  BY Zenon DEF DeviceInv
<1>1. /\ pc[t] = "sync_enqueue" /\ reqs' = Append(reqs, cur[t])
      /\ pc' = [pc EXCEPT ![t] = "sync_wait"]
  BY Zenon DEF sync_enqueue
<1>2. UNCHANGED <<state, rid_sequence, rtdreqs, owner, id, callback, kdata, errcode,
                  pending, freedata, done, old, cur, data, wpc, wreq, wdata>>
  BY Zenon DEF sync_enqueue, objects, syncs, syscall
<1>3. /\ cur[t] \in Requests \ pending /\ owner[cur[t]] = t
      /\ cur[t] \notin InFlight /\ done[data[t]] = 0
  BY <1>0, <1>1, PCFacts, Zenon DEF SyncInv, DoneInv
<1>4. /\ reqs' \in Seq(Requests)
      /\ InFlightOnce' /\ InFlight' = InFlight \cup {cur[t]}
  BY <1>1, <1>2, <1>3, Enqueued, Zenon
<1>5. /\ pc'[t] = "sync_wait"
      /\ \A u \in Threads : u # t => pc'[u] = pc[u]
  BY <1>1, Types, Zenon
<1>6. \A u \in Threads : u # t /\ pc[u] # "client" => cur[u] # cur[t]
  BY <1>3, BusyFacts, Zenon
<1>7. \A u \in Threads : pc'[u] \in InSync <=> pc[u] \in InSync
  BY <1>1, <1>5, PCFacts, Zenon
<1>8. \A u \in Threads, r \in InFlight \cup {wreq} : AwaitedBy(u, r) =>
        u # t /\ pc[u] \in InSync /\ AwaitedBy(u, r)'
  <2> SUFFICES ASSUME NEW u \in Threads, NEW r, AwaitedBy(u, r)
               PROVE  u # t /\ pc[u] \in InSync /\ AwaitedBy(u, r)'
    BY Zenon
  <2>1. pc[u] \in {"sync_wait", "sync_sleep"} /\ cur[u] = r /\ done[data[u]] = 0
    BY Zenon DEF AwaitedBy
  <2>2. u # t /\ pc[u] \in InSync
    BY <1>1, <2>1, PCFacts, Zenon
  <2> QED BY <1>2, <1>5, <2>1, <2>2, Zenon DEF AwaitedBy
<1>9. AwaitedBy(t, cur[t])'
  BY <1>2, <1>3, <1>5, Zenon DEF AwaitedBy
<1>10. TypeOK'
  <2>1. "sync_wait" \in PCs
    BY Zenon DEF PCs, InSync
  <2>2. pc' \in [Threads -> PCs]
    BY <1>1, <2>1, Types, Zenon
  <2> QED BY <1>0, <1>2, <1>4, <2>2, Zenon DEF TypeOK, KernelTypeOK
<1>11. NoLostWakeup'
  BY <1>0, <1>2, <1>5, PCFacts, Zenon DEF NoLostWakeup
<1>12. AsyncInv'
  BY <1>0, <1>2, <1>4, <1>5, <1>6, PCFacts, Zenon DEF AsyncInv
<1>13. SyncInv'
  BY <1>0, <1>2, <1>7, Zenon DEF SyncInv
<1>14. DoneInv'
  BY <1>0, <1>2, <1>4, <1>5, <1>6, PCFacts, Zenon DEF DoneInv
<1>15. DataInv'
  BY <1>0, <1>2, <1>7, Zenon DEF DataInv
<1>16. CallbackInv'
  BY <1>0, <1>2, <1>7, Zenon DEF CallbackInv
<1>17. FlightInv'
  BY <1>0, <1>2, <1>4, <1>8, <1>9, Zenon DEF FlightInv
<1>18. SyscallInv'
  <2>1. wpc = "set_done" => wreq \notin InFlight'
    <3>1. SUFFICES ASSUME wpc = "set_done" PROVE wreq \notin InFlight'
      BY Zenon
    <3>2. PICK u \in Threads : AwaitedBy(u, wreq) /\ wreq \notin InFlight
      BY <1>0, <3>1, Zenon DEF SyscallInv
    <3>3. u # t /\ pc[u] # "client" /\ cur[u] = wreq
      BY <1>8, <3>2, PCFacts, Zenon DEF AwaitedBy
    <3> QED BY <1>4, <1>6, <3>2, <3>3, Zenon
  <2> QED BY <1>0, <1>2, <1>8, <2>1, Zenon DEF SyscallInv
<1>19. IdInv' /\ HeldInv'
  BY <1>2, SameBooks, Zenon
<1> QED
  BY <1>4, <1>10, <1>11, <1>12, <1>13, <1>14, <1>15, <1>16, <1>17, <1>18, <1>19, Zenon
     DEF DeviceInv

\* wait_event_interruptible: a thread whose data is done has been answered.
LEMMA WaitStep ==
  ASSUME DeviceInv, NEW t \in Threads, sync_wait(t),
         UNCHANGED <<up, held>>
  PROVE  DeviceInv'
<1>0. /\ TypeOK /\ InFlightOnce /\ NoLostWakeup /\ AsyncInv /\ SyncInv /\ DoneInv
      /\ DataInv /\ CallbackInv /\ FlightInv /\ SyscallInv
  BY Zenon DEF DeviceInv
<1>1. /\ pc[t] = "sync_wait"
      /\ pc' = [pc EXCEPT ![t] = IF done[data[t]] = 1 THEN "sync_return" ELSE "sync_sleep"]
  BY Zenon DEF sync_wait
<1>2. UNCHANGED <<state, rid_sequence, reqs, rtdreqs, owner, id, callback, kdata, errcode,
                  pending, freedata, done, old, cur, data, wpc, wreq, wdata>>
  BY Zenon DEF sync_wait, device, objects, syncs, syscall
<1>3. /\ pc[t] \in InSync /\ cur[t] \in Requests \ pending
      /\ data[t] \in Data /\ owner[cur[t]] = t
  BY <1>0, <1>1, PCFacts, Zenon DEF SyncInv
<1>4. /\ pc'[t] = IF done[data[t]] = 1 THEN "sync_return" ELSE "sync_sleep"
      /\ \A u \in Threads : u # t => pc'[u] = pc[u]
  BY <1>1, Types, Zenon
<1>5. done[data[t]] \in {0, 1}
  BY <1>3, Types, Zenon
<1>6. /\ pc'[t] \in {"sync_return", "sync_sleep"} /\ pc'[t] \in InSync
      /\ pc'[t] = "sync_return" => done[data[t]] = 1
      /\ pc'[t] = "sync_sleep" => done[data[t]] = 0
  BY <1>4, <1>5, PCFacts, Zenon
<1>7. \A u \in Threads : pc'[u] \in InSync <=> pc[u] \in InSync
  BY <1>3, <1>4, <1>6, Zenon
<1>8. \A u \in Threads : \A r : AwaitedBy(u, r) => AwaitedBy(u, r)'
  <2> SUFFICES ASSUME NEW u \in Threads, NEW r, AwaitedBy(u, r)
               PROVE  AwaitedBy(u, r)'
    BY Zenon
  <2>1. done[data[u]] = 0 /\ cur[u] = r /\ pc[u] \in {"sync_wait", "sync_sleep"}
    BY Zenon DEF AwaitedBy
  <2>2. CASE u = t
    <3>1. done[data[t]] # 1
      BY <2>1, <2>2, SMT
    <3>2. pc'[t] = "sync_sleep"
      BY <3>1, <1>4, Zenon
    <3> QED
      BY <2>1, <2>2, <3>2, <1>2, Zenon DEF AwaitedBy
  <2>3. CASE u # t
    BY <2>1, <2>3, <1>2, <1>4, Zenon DEF AwaitedBy
  <2> QED
    BY <2>2, <2>3, Zenon
<1>9. done[data[t]] = 1 => cur[t] \notin InFlight
  <2> SUFFICES ASSUME done[data[t]] = 1, cur[t] \in InFlight PROVE FALSE
    BY Zenon
  <2>1. PICK u \in Threads : AwaitedBy(u, cur[t]) /\ pc[u] # "client"
    BY <1>3, FlightFacts, Zenon
  <2>2. cur[u] = cur[t] /\ done[data[u]] = 0
    BY <2>1, Zenon DEF AwaitedBy
  <2>3. u = t
    BY <1>3, <2>1, <2>2, BusyFacts, Zenon
  <2> QED
    BY <2>2, <2>3, SMT
<1>10. InFlightOnce' /\ InFlight' = InFlight
  BY <1>0, <1>2, NotMoved, Zenon
<1>11. TypeOK'
  <2>1. \A p \in {"sync_return", "sync_sleep"} : p \in PCs
    BY Zenon DEF PCs, InSync
  <2>2. pc' \in [Threads -> PCs]
    BY <1>1, <2>1, Types, Zenon
  <2> QED
    BY <1>0, <1>2, <2>2, Zenon DEF TypeOK, KernelTypeOK
<1>12. NoLostWakeup'
  <2>1. pc'[t] = "sync_sleep" => done[data[t]] # 1
    BY <1>6, SMT
  <2> QED BY <1>0, <1>2, <1>4, <2>1, Zenon DEF NoLostWakeup
<1>13. AsyncInv'
  BY <1>0, <1>10, <1>2, <1>4, <1>6, PCFacts, Zenon DEF AsyncInv
<1>14. SyncInv'
  BY <1>0, <1>2, <1>7, Zenon DEF SyncInv
<1>15. DoneInv'
  BY <1>0, <1>2, <1>4, <1>6, <1>9, <1>10, PCFacts, Zenon DEF DoneInv
<1>16. DataInv'
  BY <1>0, <1>2, <1>7, Zenon DEF DataInv
<1>17. CallbackInv'
  BY <1>0, <1>2, <1>7, Zenon DEF CallbackInv
<1>18. FlightInv'
  BY <1>0, <1>10, <1>2, <1>8, Zenon DEF FlightInv
<1>19. SyscallInv'
  BY <1>0, <1>10, <1>2, <1>8, Zenon DEF SyscallInv
<1>20. IdInv' /\ HeldInv'
  BY <1>2, SameBooks, Zenon
<1> QED
  BY <1>10, <1>11, <1>12, <1>13, <1>14, <1>15, <1>16, <1>17, <1>18, <1>19, <1>20, Zenon
     DEF DeviceInv

\* kgpu_call_sync after the wait: the request is not in flight, and gets its own
\* callback back.
LEMMA ReturnStep ==
  ASSUME DeviceInv, NEW t \in Threads, sync_return(t),
         UNCHANGED <<up, held>>
  PROVE  DeviceInv'
<1>0. /\ TypeOK /\ InFlightOnce /\ NoLostWakeup /\ AsyncInv /\ SyncInv /\ DoneInv
      /\ DataInv /\ CallbackInv /\ FlightInv /\ SyscallInv
  BY Zenon DEF DeviceInv
<1>1. /\ pc[t] = "sync_return"
      /\ kdata' = [kdata EXCEPT ![cur[t]] = old[data[t]].kdata]
      /\ callback' = [callback EXCEPT ![cur[t]] = old[data[t]].callback]
      /\ freedata' = freedata \cup {data[t]}
      /\ pc' = [pc EXCEPT ![t] = "client"]
      /\ cur' = [cur EXCEPT ![t] = NULL]
      /\ data' = [data EXCEPT ![t] = NULL]
  BY Zenon DEF sync_return
<1>2. UNCHANGED <<state, rid_sequence, reqs, rtdreqs, owner, id, errcode, pending,
                  done, old, wpc, wreq, wdata>>
  BY Zenon DEF sync_return, device, syscall
<1>3. /\ cur[t] \in Requests \ pending /\ owner[cur[t]] = t /\ cur[t] \notin InFlight
      /\ data[t] \in Data /\ old[data[t]].callback \in ClientCallbacks
      /\ pc[t] \in InSync
  BY <1>0, <1>1, PCFacts, Zenon DEF SyncInv, DoneInv
<1>4. /\ pc'[t] = "client"
      /\ \A u \in Threads : u # t => /\ pc'[u] = pc[u] /\ cur'[u] = cur[u]
                                     /\ data'[u] = data[u]
  BY <1>1, Types, Zenon
<1>5. \A u \in Threads : u # t /\ pc[u] # "client" => cur[u] # cur[t]
  BY <1>3, BusyFacts, Zenon
<1>6. \A u \in Threads : pc'[u] # "client" => u # t
  BY <1>4, Zenon
<1>7. \A u \in Threads : pc[u] \in InSync /\ u # t => data[u] # data[t]
  BY <1>0, <1>3, Zenon DEF DataInv
<1>8. \A u \in Threads : pc[u] \in InSync => pc[u] # "client"
  BY PCFacts, Zenon
<1>9. /\ callback'[cur[t]] \in ClientCallbacks
      /\ \A q \in Requests : q # cur[t] =>
           callback'[q] = callback[q] /\ kdata'[q] = kdata[q]
  BY <1>1, <1>3, Types, Zenon
<1>10. \A u \in Threads, r \in InFlight \cup {wreq} :
         AwaitedBy(u, r) /\ (r \in InFlight \/ u # t) =>
           u # t /\ cur[u] = r /\ pc[u] # "client" /\ AwaitedBy(u, r)'
  <2> SUFFICES ASSUME NEW u \in Threads, NEW r, AwaitedBy(u, r), r \in InFlight \/ u # t
               PROVE  u # t /\ cur[u] = r /\ pc[u] # "client" /\ AwaitedBy(u, r)'
    BY Zenon
  <2>1. pc[u] \in {"sync_wait", "sync_sleep"} /\ cur[u] = r /\ done[data[u]] = 0
    BY Zenon DEF AwaitedBy
  <2>2. u # t /\ pc[u] # "client"
    BY <1>1, <2>1, PCFacts, Zenon
  <2> QED BY <1>2, <1>4, <2>1, <2>2, Zenon DEF AwaitedBy
<1>11. InFlightOnce' /\ InFlight' = InFlight
  BY <1>0, <1>2, NotMoved, Zenon
<1>12. TypeOK'
  <2>1. "client" \in PCs /\ ClientCallbacks \subseteq Callbacks
    BY Zenon DEF PCs, Callbacks
  <2>2. /\ pc' \in [Threads -> PCs]
        /\ cur' \in [Threads -> Requests \cup {NULL}]
        /\ data' \in [Threads -> Data \cup {NULL}]
    BY <1>1, <2>1, Types, Zenon
  <2>3. old[data[t]].kdata \in Data \cup {ClientData}
    <3>1. old[data[t]] \in [kdata : Data \cup {ClientData}, callback : Callbacks]
      BY <1>3, Types, Zenon
    <3> QED BY <3>1, Zenon
  <2>4. /\ kdata' \in [Requests -> Data \cup {ClientData}]
        /\ callback' \in [Requests -> Callbacks]
    BY <1>1, <1>3, <2>1, <2>3, Types, Zenon
  <2>5. freedata' \subseteq Data
    BY <1>1, <1>3, Types, Zenon
  <2> QED BY <1>0, <1>2, <2>2, <2>4, <2>5, Zenon DEF TypeOK, KernelTypeOK
<1>13. NoLostWakeup'
  BY <1>0, <1>2, <1>4, <1>6, PCFacts, Zenon DEF NoLostWakeup
<1>14. AsyncInv'
  BY <1>0, <1>2, <1>4, <1>6, <1>11, PCFacts, Zenon DEF AsyncInv
<1>15. SyncInv'
  <2> SUFFICES ASSUME NEW u \in Threads, pc'[u] \in InSync
               PROVE  /\ cur'[u] \in Requests \ pending'
                      /\ owner'[cur'[u]] = u
                      /\ data'[u] \in Data \ freedata'
                      /\ callback'[cur'[u]] = "sync_callback"
                      /\ kdata'[cur'[u]] = data'[u]
                      /\ old'[data'[u]].callback \in ClientCallbacks
    BY Zenon DEF SyncInv
  <2>1. u # t /\ pc'[u] = pc[u] /\ cur'[u] = cur[u] /\ data'[u] = data[u]
    BY <1>4, PCFacts, Zenon
  <2>2. pc[u] \in InSync /\ cur[u] # cur[t] /\ data[u] # data[t]
    BY <1>5, <1>7, <1>8, <2>1, Zenon
  <2>3. /\ cur[u] \in Requests \ pending /\ owner[cur[u]] = u
        /\ data[u] \in Data \ freedata
        /\ callback[cur[u]] = "sync_callback" /\ kdata[cur[u]] = data[u]
        /\ old[data[u]].callback \in ClientCallbacks
    BY <1>0, <2>2, Zenon DEF SyncInv
  <2>4. data[u] \in Data \ freedata'
    BY <1>1, <2>2, <2>3, Zenon
  <2>5. callback'[cur[u]] = "sync_callback" /\ kdata'[cur[u]] = data[u]
    BY <1>9, <2>2, <2>3, Zenon
  <2> QED BY <1>2, <2>1, <2>3, <2>4, <2>5, Zenon
<1>16. DoneInv'
  BY <1>0, <1>2, <1>4, <1>6, <1>11, PCFacts, Zenon DEF DoneInv
<1>17. DataInv'
  BY <1>0, <1>4, <1>6, PCFacts, Zenon DEF DataInv
<1>18. CallbackInv'
  <2>1. ASSUME NEW q \in Requests, callback'[q] = "sync_callback"
        PROVE  \E u \in Threads : pc'[u] \in InSync /\ cur'[u] = q
    <3>1. q # cur[t] /\ callback[q] = "sync_callback"
      BY <2>1, <1>9, CallbackFacts, Zenon
    <3>2. PICK u \in Threads : pc[u] \in InSync /\ cur[u] = q
      BY <1>0, <3>1, Zenon DEF CallbackInv
    <3> QED
      BY <3>1, <3>2, <1>4, Zenon
  <2>2. ASSUME NEW q \in Requests, q \in pending
        PROVE  owner[q] # NULL /\ callback'[q] \in ClientCallbacks
    BY <1>0, <2>2, <1>3, <1>9, Zenon DEF CallbackInv
  <2> QED
    BY <1>2, <2>1, <2>2, Zenon DEF CallbackInv
<1>19. FlightInv'
  BY <1>0, <1>2, <1>10, <1>11, Zenon DEF FlightInv
<1>20. SyscallInv'
  <2>1. ASSUME wpc = "set_done"
        PROVE  \E u \in Threads : (AwaitedBy(u, wreq) /\ data[u] = wdata)'
    <3>1. PICK u \in Threads : AwaitedBy(u, wreq) /\ data[u] = wdata
      BY <1>0, <2>1, Zenon DEF SyscallInv
    <3>2. u # t
      BY <1>1, <3>1, PCFacts, Zenon DEF AwaitedBy
    <3> QED
      BY <1>2, <1>4, <1>10, <3>1, <3>2, Zenon
  <2>2. wpc = "sync_callback" => callback'[wreq] = "sync_callback"
    <3>1. wpc = "sync_callback" => wreq # cur[t] /\ wreq \in Requests
      BY <1>0, <1>3, Zenon DEF SyscallInv, InFlight, InSyscall
    <3> QED
      BY <1>0, <1>9, <3>1, Zenon DEF SyscallInv
  <2> QED
    BY <1>0, <1>2, <1>11, <2>1, <2>2, Zenon DEF SyscallInv
<1>21. IdInv' /\ HeldInv'
  BY <1>2, SameBooks, Zenon
<1> QED
  BY <1>11, <1>12, <1>13, <1>14, <1>15, <1>16, <1>17, <1>18, <1>19, <1>20, <1>21, Zenon
     DEF DeviceInv

-----------------------------------------------------------------------------
(***************************************************************************)
(* What a thread does before its call takes reqlock: allocating, renewing  *)
(* and freeing requests, preparing an asynchronous or a synchronous call.  *)
(***************************************************************************)

\* A step that changes nothing but a request that is nowhere in the transport
\* and sync data that is free.
LEMMA AsideStep ==
  ASSUME DeviceInv, NEW r \in Requests,
         r \notin pending, r \notin InFlight,
         \A u \in Threads : pc[u] # "client" => cur[u] # r,
         UNCHANGED <<reqs, rtdreqs, pending, done, old, pc, cur, data,
                     wpc, wreq, wdata, held>>,
         \A q \in Requests : q # r =>
           /\ owner'[q] = owner[q] /\ id'[q] = id[q]
           /\ callback'[q] = callback[q] /\ kdata'[q] = kdata[q],
         callback'[r] # "sync_callback",
         freedata' \subseteq freedata,
         TypeOK', IdInv'
  PROVE  DeviceInv'
<1>0. /\ TypeOK /\ InFlightOnce /\ NoLostWakeup /\ AsyncInv /\ SyncInv /\ DoneInv
      /\ DataInv /\ CallbackInv /\ FlightInv /\ SyscallInv /\ HeldInv
  BY Zenon DEF DeviceInv
<1>1. InFlightOnce' /\ InFlight' = InFlight
  BY <1>0, NotMoved, Zenon
<1>2. pending \subseteq Requests
  BY <1>0, Zenon DEF TypeOK, KernelTypeOK
<1>3. \A u \in Threads : pc[u] \in InSync => cur[u] # r
  BY SMT DEF InSync
<1>4. NoLostWakeup' /\ DoneInv' /\ DataInv' /\ FlightInv'
  <2>1. NoLostWakeup' /\ DataInv'
    BY <1>0, Zenon DEF NoLostWakeup, DataInv
  <2>2. DoneInv'
    BY <1>0, <1>1, Zenon DEF DoneInv
  <2>3. FlightInv'
    <3>1. \A u \in Threads, q \in InFlight : AwaitedBy(u, q) => AwaitedBy(u, q)'
      BY Zenon DEF AwaitedBy
    <3> QED BY <1>0, <1>1, <3>1, Zenon DEF FlightInv
  <2> QED BY <2>1, <2>2, <2>3, Zenon
<1>5. AsyncInv'
  BY <1>0, <1>1, <1>2, Zenon DEF AsyncInv
<1>6. SyncInv'
  <2> SUFFICES ASSUME NEW u \in Threads, pc[u] \in InSync
               PROVE  /\ cur[u] \in Requests \ pending
                      /\ owner'[cur[u]] = u
                      /\ data[u] \in Data \ freedata'
                      /\ callback'[cur[u]] = "sync_callback"
                      /\ kdata'[cur[u]] = data[u]
                      /\ old[data[u]].callback \in ClientCallbacks
    BY Zenon DEF SyncInv
  <2>1. cur[u] \in Requests /\ cur[u] # r
    BY <1>0, <1>3, Zenon DEF SyncInv
  <2> QED BY <1>0, <2>1, Zenon DEF SyncInv
<1>7. CallbackInv'
  BY <1>0, Zenon DEF CallbackInv
<1>8. SyscallInv'
  <2>1. wpc = "sync_callback" => wreq \in Requests /\ wreq # r
    BY <1>0, Zenon DEF SyscallInv, InFlight, InSyscall
  <2> QED BY <1>0, <1>1, <2>1, Zenon DEF SyscallInv, AwaitedBy
<1>9. HeldInv'
  <2>1. \A i \in DOMAIN held : held[i].r \in Requests /\ held[i].r # r
    BY HeldFacts, Zenon
  <2>2. \A i \in DOMAIN held : id'[held[i].r] = id[held[i].r]
    BY <2>1, Zenon
  <2> QED BY <1>0, <2>2, ZenonT(60) DEF HeldInv
<1> QED BY <1>1, <1>4, <1>5, <1>6, <1>7, <1>8, <1>9, Zenon DEF DeviceInv

\* kgpu_free_request: the request is at rest.
LEMMA FreeStep ==
  ASSUME DeviceInv, NEW t \in Threads, NEW r \in Requests,
         kgpu_free_request(t, r),
         UNCHANGED <<up, held>>
  PROVE  DeviceInv'
<1>1. /\ AtRest(t, r)
      /\ owner' = [owner EXCEPT ![r] = NULL]
      /\ UNCHANGED <<state, rid_sequence, reqs, rtdreqs, id, callback, kdata,
                     errcode, pending, freedata, done, old, pc, cur, data,
                     wpc, wreq, wdata>>
  BY Zenon DEF kgpu_free_request, device, syncs, threads, syscall
<1>2. TypeOK /\ IdInv /\ owner \in [Requests -> Threads \cup {NULL}]
  BY Zenon DEF DeviceInv, TypeOK, KernelTypeOK
<1>3. /\ owner' \in [Requests -> Threads \cup {NULL}]
      /\ owner'[r] = NULL
      /\ \A q \in Requests : q # r => owner'[q] = owner[q]
  BY <1>1, <1>2, SMT
<1>4. TypeOK'
  BY <1>1, <1>2, <1>3, Zenon DEF TypeOK, KernelTypeOK
<1>5. IdInv'
  BY <1>1, <1>2, <1>3, Zenon DEF IdInv, UniqueIds
<1>6. /\ r \notin pending /\ r \notin InFlight
      /\ \A u \in Threads : pc[u] # "client" => cur[u] # r
      /\ callback[r] \in ClientCallbacks
  BY <1>1, AtRestFacts, Zenon
<1>7. callback'[r] # "sync_callback"
  BY <1>1, <1>6, SMT DEF ClientCallbacks
<1> QED BY <1>1, <1>3, <1>4, <1>5, <1>6, <1>7, AsideStep, Zenon

\* kgpu_next_request_id and the constructor of the slab: a request that keeps
\* the id it has, or gets a new and larger one, shares it with no other.
LEMMA IdDrawn ==
  ASSUME NEW r \in Requests, IdInv, rid_sequence \in Nat,
         \A q \in Requests : id[q] \in Int,
         rid_sequence' \in Nat, rid_sequence <= rid_sequence',
         \A q \in Requests : q # r => id'[q] = id[q],
         \A q \in Requests : q # r => owner'[q] = owner[q],
         \/ id'[r] = id[r] /\ id[r] # Unconstructed
         \/ id'[r] = rid_sequence' /\ rid_sequence' = rid_sequence + 1
  PROVE  IdInv'
<1>1. \A q \in Requests : id'[q] <= rid_sequence'
  <2> SUFFICES ASSUME NEW q \in Requests PROVE id'[q] <= rid_sequence'
    BY Zenon
  <2>1. id[q] \in Int /\ id[q] <= rid_sequence
    BY Zenon DEF IdInv
  <2>2. id'[q] = id[q] \/ id'[q] = rid_sequence'
    BY Zenon
  <2> QED
    BY <2>1, <2>2, SMTT(30)
<1>2. \A q \in Requests : q # r /\ id'[q] = id'[r] => id'[q] = Unconstructed
  <2> SUFFICES ASSUME NEW q \in Requests, q # r, id'[q] = id'[r]
               PROVE  id'[q] = Unconstructed
    BY Zenon
  <2>1. id'[q] = id[q] /\ id[q] \in Int /\ id[q] <= rid_sequence
    BY Zenon DEF IdInv
  <2>2. id'[r] = id[r] /\ id[r] # Unconstructed
    BY <2>1, SMTT(30)
  <2> QED
    BY <2>1, <2>2, Zenon DEF IdInv, UniqueIds
<1>3. UniqueIds'
  <2> SUFFICES ASSUME NEW p \in Requests, NEW q \in Requests,
                      id'[p] = id'[q], id'[p] # Unconstructed, p # q
               PROVE  FALSE
    BY Zenon DEF UniqueIds
  <2>1. p # r /\ q # r
    BY <1>2, Zenon
  <2>2. id[p] = id[q] /\ id[p] # Unconstructed
    BY <2>1, Zenon
  <2> QED
    BY <2>2, Zenon DEF IdInv, UniqueIds
<1>4. \A q \in Requests : owner'[q] # NULL => id'[q] # Unconstructed
  <2>1. id'[r] # Unconstructed
    BY SMTT(30) DEF Unconstructed
  <2> QED
    BY <2>1, Zenon DEF IdInv
<1> QED
  BY <1>1, <1>3, <1>4, Zenon DEF IdInv

\* kgpu_alloc_request: nobody refers to an object that is not allocated.
LEMMA AllocStep ==
  ASSUME DeviceInv, MaxIds <= MaxInt, NEW t \in Threads, NEW r \in Requests,
         NEW cb \in ClientCallbacks, kgpu_alloc_request(t, r, cb),
         UNCHANGED <<up, held>>
  PROVE  DeviceInv'
<1>1. /\ owner[r] = NULL
      /\ owner' = [owner EXCEPT ![r] = t]
      /\ callback' = [callback EXCEPT ![r] = cb]
      /\ kdata' = [kdata EXCEPT ![r] = ClientData]
      /\ \/ ConstructRequest(r)
         \/ id[r] # Unconstructed /\ UNCHANGED <<rid_sequence, id, errcode>>
      /\ UNCHANGED <<state, reqs, rtdreqs, pending, freedata, done, old,
                     pc, cur, data, wpc, wreq, wdata>>
  BY Zenon DEF kgpu_alloc_request, syncs, threads, syscall
<1>2. /\ TypeOK /\ IdInv
      /\ rid_sequence \in 0..MaxInt
      /\ owner \in [Requests -> Threads \cup {NULL}]
      /\ id \in [Requests -> Int]
      /\ errcode \in [Requests -> Nat]
      /\ callback \in [Requests -> Callbacks]
      /\ kdata \in [Requests -> Data \cup {ClientData}]
  BY Zenon DEF DeviceInv, TypeOK, KernelTypeOK
<1>3. /\ owner' \in [Requests -> Threads \cup {NULL}]
      /\ \A q \in Requests : q # r => owner'[q] = owner[q]
  BY <1>1, <1>2, SMT
<1>4. /\ callback' \in [Requests -> Callbacks] /\ callback'[r] = cb
      /\ \A q \in Requests : q # r => callback'[q] = callback[q]
  BY <1>1, <1>2, SMT DEF Callbacks
<1>5. /\ kdata' \in [Requests -> Data \cup {ClientData}]
      /\ \A q \in Requests : q # r => kdata'[q] = kdata[q]
  BY <1>1, <1>2, SMT
<1>6. /\ rid_sequence' \in 0..MaxInt /\ rid_sequence <= rid_sequence'
      /\ id' \in [Requests -> Int] /\ errcode' \in [Requests -> Nat]
      /\ \A q \in Requests : q # r => id'[q] = id[q]
      /\ \/ id'[r] = id[r] /\ id[r] # Unconstructed
         \/ id'[r] = rid_sequence' /\ rid_sequence' = rid_sequence + 1
  <2>1. CASE ConstructRequest(r)
    BY <1>2, <2>1, KernelAssumption, SMT DEF ConstructRequest, NextRequestId
  <2>2. CASE id[r] # Unconstructed /\ UNCHANGED <<rid_sequence, id, errcode>>
    BY <1>2, <2>2, KernelAssumption, SMT
  <2> QED BY <1>1, <2>1, <2>2, Zenon
<1>7. TypeOK'
  BY <1>1, <1>2, <1>3, <1>4, <1>5, <1>6, Zenon DEF TypeOK, KernelTypeOK
<1>8. IdInv'
  <2>1. rid_sequence \in Nat /\ rid_sequence' \in Nat
    BY <1>2, <1>6, SMT
  <2>2. \A q \in Requests : id[q] \in Int
    BY <1>2, Zenon
  <2> QED BY <1>2, <1>3, <1>6, <2>1, <2>2, IdDrawn, Zenon
<1>9. /\ r \notin pending /\ r \notin InFlight
      /\ \A u \in Threads : pc[u] # "client" => cur[u] # r
  BY <1>1, UnownedFacts, Zenon
<1>10. callback'[r] # "sync_callback"
  BY <1>4, SMT DEF ClientCallbacks
<1> QED
  BY <1>1, <1>3, <1>4, <1>5, <1>6, <1>7, <1>8, <1>9, <1>10, AsideStep, Zenon

\* kgpu_next_request_id for a request at rest: its old id is in no list.
LEMMA RenewStep ==
  ASSUME DeviceInv, MaxIds <= MaxInt, NEW t \in Threads, NEW r \in Requests,
         RenewId(t, r),
         UNCHANGED <<up, held>>
  PROVE  DeviceInv'
<1>1. /\ AtRest(t, r)
      /\ rid_sequence < MaxIds
      /\ rid_sequence' = NextRequestId
      /\ id' = [id EXCEPT ![r] = NextRequestId]
      /\ UNCHANGED <<state, reqs, rtdreqs, owner, callback, kdata, errcode,
                     pending, freedata, done, old, pc, cur, data,
                     wpc, wreq, wdata>>
  BY Zenon DEF RenewId, syncs, threads, syscall
<1>2. /\ TypeOK /\ IdInv
      /\ rid_sequence \in 0..MaxInt
      /\ id \in [Requests -> Int]
  BY Zenon DEF DeviceInv, TypeOK, KernelTypeOK
<1>3. /\ rid_sequence' \in 0..MaxInt /\ rid_sequence <= rid_sequence'
      /\ id' \in [Requests -> Int]
      /\ \A q \in Requests : q # r => id'[q] = id[q]
      /\ id'[r] = rid_sequence' /\ rid_sequence' = rid_sequence + 1
  BY <1>1, <1>2, KernelAssumption, SMT DEF NextRequestId
<1>4. TypeOK'
  BY <1>1, <1>2, <1>3, Zenon DEF TypeOK, KernelTypeOK
<1>5. IdInv'
  <2>1. rid_sequence \in Nat /\ rid_sequence' \in Nat
    BY <1>2, <1>3, SMT
  <2>2. \A q \in Requests : id[q] \in Int
    BY <1>2, Zenon
  <2> QED BY <1>1, <1>2, <1>3, <2>1, <2>2, IdDrawn, Zenon
<1>6. /\ r \notin pending /\ r \notin InFlight
      /\ \A u \in Threads : pc[u] # "client" => cur[u] # r
      /\ callback[r] \in ClientCallbacks
  BY <1>1, AtRestFacts, Zenon
<1>7. callback'[r] # "sync_callback"
  BY <1>1, <1>6, SMT DEF ClientCallbacks
<1> QED BY <1>1, <1>3, <1>4, <1>5, <1>6, <1>7, AsideStep, Zenon

\* kgpu_call_sync that fails to allocate the item.
LEMMA NoMemStep ==
  ASSUME DeviceInv, NEW t \in Threads, NEW r \in Requests,
         NEW d \in Data, kgpu_call_sync_nomem(t, r, d),
         UNCHANGED <<up, held>>
  PROVE  DeviceInv'
<1>1. /\ AtRest(t, r)
      /\ freedata' = freedata \ {d}
      /\ UNCHANGED <<state, rid_sequence, reqs, rtdreqs, owner, id, callback,
                     kdata, errcode, pending, done, old, pc, cur, data,
                     wpc, wreq, wdata>>
  BY Zenon DEF kgpu_call_sync_nomem, device, objects, threads, syscall
<1>2. TypeOK'
  BY <1>1, Zenon DEF DeviceInv, TypeOK, KernelTypeOK
<1>3. IdInv'
  BY <1>1, Zenon DEF DeviceInv, IdInv, UniqueIds
<1>4. /\ r \notin pending /\ r \notin InFlight
      /\ \A u \in Threads : pc[u] # "client" => cur[u] # r
      /\ callback[r] \in ClientCallbacks
  BY <1>1, AtRestFacts, Zenon
<1>5. callback'[r] # "sync_callback"
  BY <1>1, <1>4, SMT DEF ClientCallbacks
<1> QED BY <1>1, <1>2, <1>3, <1>4, <1>5, AsideStep, Zenon

\* A call begins: the thread leaves its client for pc p with a request that was
\* at rest.  Everyone else finds the transport as it was.
LEMMA CallStep ==
  ASSUME DeviceInv, NEW t \in Threads, NEW r \in Requests, AtRest(t, r),
         NEW p \in {"async_enqueue", "sync_enqueue"},
         pc' = [pc EXCEPT ![t] = p],
         cur' = [cur EXCEPT ![t] = r],
         \A u \in Threads : u # t => data'[u] = data[u],
         \A u \in Threads : pc[u] \in InSync => done'[data[u]] = done[data[u]],
         UNCHANGED <<reqs, rtdreqs, owner, id, rid_sequence, wpc, wreq, wdata, held>>,
         \A q \in Requests : q # r => callback'[q] = callback[q],
         pending \subseteq pending'
  PROVE  /\ InFlightOnce' /\ InFlight' = InFlight
         /\ r \notin pending /\ r \notin InFlight /\ owner[r] = t
         /\ callback[r] \in ClientCallbacks
         /\ pc'[t] = p /\ cur'[t] = r
         /\ \A u \in Threads : u # t => pc'[u] = pc[u] /\ cur'[u] = cur[u]
         /\ \A u \in Threads : pc[u] # "client" => u # t /\ cur[u] # r
         /\ \A u \in Threads : pc[u] \in InSync => u # t /\ cur[u] # r
         /\ NoLostWakeup' /\ FlightInv' /\ SyscallInv' /\ IdInv' /\ HeldInv'
<1>0. /\ InFlightOnce /\ NoLostWakeup /\ SyncInv /\ FlightInv /\ SyscallInv
      /\ IdInv /\ HeldInv
      /\ pc \in [Threads -> PCs] /\ cur \in [Threads -> Requests \cup {NULL}]
  BY Zenon DEF DeviceInv, TypeOK, KernelTypeOK
<1>1. InFlightOnce' /\ InFlight' = InFlight
  BY <1>0, NotMoved, Zenon
<1>2. /\ r \notin pending /\ r \notin InFlight /\ owner[r] = t
      /\ callback[r] \in ClientCallbacks
      /\ \A u \in Threads : pc[u] # "client" => cur[u] # r
      /\ pc[t] = "client"
  BY AtRestFacts, Zenon
<1>3. /\ pc'[t] = p /\ cur'[t] = r
      /\ \A u \in Threads : u # t => pc'[u] = pc[u] /\ cur'[u] = cur[u]
  BY <1>0, SMT
<1>4. /\ \A u \in Threads : pc[u] # "client" => u # t /\ cur[u] # r
      /\ \A u \in Threads : pc[u] \in InSync => u # t /\ cur[u] # r
  BY <1>2, SMT DEF InSync
<1>5. \A u \in Threads : pc'[u] = "sync_sleep" => u # t /\ pc[u] \in InSync
  BY <1>3, SMT DEF InSync
<1>6. NoLostWakeup'
  <2> SUFFICES ASSUME NEW u \in Threads, pc'[u] = "sync_sleep", done'[data'[u]] = 1
               PROVE  wpc' = "wake" /\ wdata' = data'[u]
    BY Zenon DEF NoLostWakeup
  <2>1. u # t /\ pc[u] \in InSync
    BY <1>5, Zenon
  <2>2. pc[u] = "sync_sleep" /\ data'[u] = data[u] /\ done[data[u]] = 1
    BY <1>3, <2>1, Zenon
  <2> QED BY <1>0, <2>2, Zenon DEF NoLostWakeup
<1>7. ASSUME NEW u \in Threads, NEW q, AwaitedBy(u, q)
      PROVE  AwaitedBy(u, q)' /\ data'[u] = data[u]
  <2>1. pc[u] \in InSync
    BY <1>7, Zenon DEF AwaitedBy, InSync
  <2> QED BY <1>3, <1>4, <1>7, <2>1, Zenon DEF AwaitedBy
<1>8. FlightInv'
  <2> SUFFICES ASSUME NEW q \in InFlight, q \notin pending
               PROVE  \E u \in Threads : AwaitedBy(u, q)'
    BY <1>1, Zenon DEF FlightInv
  <2>1. PICK u \in Threads : AwaitedBy(u, q)
    BY <1>0, Zenon DEF FlightInv
  <2> QED BY <2>1, <1>7, Zenon
<1>9. SyscallInv'
  <2>1. wpc = "sync_callback" => callback'[wreq] = "sync_callback"
    <3>1. wpc = "sync_callback" => wreq \in Requests /\ wreq # r
      BY <1>0, <1>2, Zenon DEF SyscallInv, InFlight, InSyscall
    <3> QED BY <1>0, <3>1, Zenon DEF SyscallInv
  <2>2. ASSUME wpc = "set_done"
        PROVE  \E u \in Threads : (AwaitedBy(u, wreq) /\ data[u] = wdata)'
    <3>1. PICK u \in Threads : AwaitedBy(u, wreq) /\ data[u] = wdata
      BY <1>0, <2>2, Zenon DEF SyscallInv
    <3>2. AwaitedBy(u, wreq)' /\ data'[u] = wdata
      <4>1. pc[u] \in InSync
        BY <3>1, Zenon DEF AwaitedBy, InSync
      <4> QED BY <1>3, <1>4, <3>1, <4>1, Zenon DEF AwaitedBy
    <3> QED BY <3>2, Zenon
  <2> QED BY <1>0, <1>1, <2>1, <2>2, Zenon DEF SyscallInv
<1>10. IdInv' /\ HeldInv'
  BY <1>0, Zenon DEF IdInv, UniqueIds, HeldInv
<1> QED
  BY <1>1, <1>2, <1>3, <1>4, <1>6, <1>8, <1>9, <1>10, Zenon

\* kgpu_call_async up to the lock.
LEMMA AsyncStep ==
  ASSUME DeviceInv, NEW t \in Threads, NEW r \in Requests,
         kgpu_call_async(t, r),
         UNCHANGED <<up, held>>
  PROVE  DeviceInv'
<1>1. /\ AtRest(t, r)
      /\ pending' = pending \cup {r}
      /\ pc' = [pc EXCEPT ![t] = "async_enqueue"]
      /\ cur' = [cur EXCEPT ![t] = r]
      /\ UNCHANGED <<state, rid_sequence, reqs, rtdreqs, owner, id, callback,
                     kdata, errcode, freedata, done, old, data, wpc, wreq, wdata>>
  BY Zenon DEF kgpu_call_async, device, syncs, syscall
<1>2. /\ InFlightOnce' /\ InFlight' = InFlight
      /\ r \notin pending /\ r \notin InFlight /\ owner[r] = t
      /\ callback[r] \in ClientCallbacks
      /\ pc'[t] = "async_enqueue" /\ cur'[t] = r
      /\ \A u \in Threads : u # t => pc'[u] = pc[u] /\ cur'[u] = cur[u]
      /\ \A u \in Threads : pc[u] # "client" => u # t /\ cur[u] # r
      /\ \A u \in Threads : pc[u] \in InSync => u # t /\ cur[u] # r
      /\ NoLostWakeup' /\ FlightInv' /\ SyscallInv' /\ IdInv' /\ HeldInv'
  <2>1. "async_enqueue" \in {"async_enqueue", "sync_enqueue"} /\ pending \subseteq pending'
    BY <1>1, Zenon
  <2> QED BY <1>1, <2>1, CallStep, Zenon
<1>3. /\ TypeOK /\ AsyncInv /\ SyncInv /\ DoneInv /\ DataInv /\ CallbackInv
      /\ pc \in [Threads -> PCs] /\ cur \in [Threads -> Requests \cup {NULL}]
      /\ pending \subseteq Requests
  BY Zenon DEF DeviceInv, TypeOK, KernelTypeOK
<1>4. TypeOK'
  <2>1. pc' \in [Threads -> PCs] /\ cur' \in [Threads -> Requests \cup {NULL}]
    BY <1>1, <1>3, SMT DEF PCs
  <2>2. pending' \subseteq Requests
    BY <1>1, <1>3, Zenon
  <2> QED BY <1>1, <1>3, <2>1, <2>2, Zenon DEF TypeOK, KernelTypeOK
<1>5. /\ \A u \in Threads : pc'[u] \in InSync => u # t
      /\ \A u \in Threads : pc'[u] \in {"sync_enqueue", "sync_return"} => u # t
  BY <1>2, SMT DEF InSync
<1>6. AsyncInv'
  BY <1>1, <1>2, <1>3, Zenon DEF AsyncInv
<1>7. SyncInv'
  <2> SUFFICES ASSUME NEW u \in Threads, pc'[u] \in InSync
               PROVE  /\ cur'[u] \in Requests \ pending'
                      /\ owner'[cur'[u]] = u
                      /\ data'[u] \in Data \ freedata'
                      /\ callback'[cur'[u]] = "sync_callback"
                      /\ kdata'[cur'[u]] = data'[u]
                      /\ old'[data'[u]].callback \in ClientCallbacks
    BY Zenon DEF SyncInv
  <2>1. pc[u] \in InSync /\ cur'[u] = cur[u] /\ cur[u] # r
    BY <1>2, <1>5, Zenon
  <2> QED BY <1>1, <1>3, <2>1, Zenon DEF SyncInv
<1>8. DoneInv'
  BY <1>1, <1>2, <1>3, <1>5, Zenon DEF DoneInv
<1>9. DataInv'
  BY <1>1, <1>2, <1>3, <1>5, Zenon DEF DataInv
<1>10. CallbackInv'
  <2>1. \A q \in pending' : owner'[q] # NULL /\ callback'[q] \in ClientCallbacks
    <3>1. owner[r] # NULL
      BY <1>2, KernelAssumption, Zenon
    <3> QED BY <1>1, <1>2, <1>3, <3>1, Zenon DEF CallbackInv
  <2>2. ASSUME NEW q \in Requests, callback[q] = "sync_callback"
        PROVE  \E u \in Threads : pc'[u] \in InSync /\ cur'[u] = q
    <3>1. PICK u \in Threads : pc[u] \in InSync /\ cur[u] = q
      BY <1>3, <2>2, Zenon DEF CallbackInv
    <3> QED BY <1>2, <3>1, Zenon
  <2> QED BY <1>1, <2>1, <2>2, Zenon DEF CallbackInv
<1> QED BY <1>2, <1>4, <1>6, <1>7, <1>8, <1>9, <1>10, Zenon DEF DeviceInv

\* kgpu_call_sync up to the lock: the data is free, hence of no other call.
LEMMA SyncStep ==
  ASSUME DeviceInv, NEW t \in Threads, NEW r \in Requests,
         NEW d \in Data, kgpu_call_sync(t, r, d),
         UNCHANGED <<up, held>>
  PROVE  DeviceInv'
<1>1. /\ AtRest(t, r)
      /\ d \in freedata /\ freedata' = freedata \ {d}
      /\ old' = [old EXCEPT ![d] = [kdata |-> kdata[r], callback |-> callback[r]]]
      /\ done' = [done EXCEPT ![d] = 0]
      /\ kdata' = [kdata EXCEPT ![r] = d]
      /\ callback' = [callback EXCEPT ![r] = "sync_callback"]
      /\ pc' = [pc EXCEPT ![t] = "sync_enqueue"]
      /\ cur' = [cur EXCEPT ![t] = r]
      /\ data' = [data EXCEPT ![t] = d]
      /\ UNCHANGED <<state, rid_sequence, reqs, rtdreqs, owner, id, errcode,
                     pending, wpc, wreq, wdata>>
  BY Zenon DEF kgpu_call_sync, device, syscall
<1>2. /\ TypeOK /\ AsyncInv /\ SyncInv /\ DoneInv /\ DataInv /\ CallbackInv
      /\ pc \in [Threads -> PCs] /\ cur \in [Threads -> Requests \cup {NULL}]
      /\ data \in [Threads -> Data \cup {NULL}]
      /\ kdata \in [Requests -> Data \cup {ClientData}]
      /\ callback \in [Requests -> Callbacks]
      /\ done \in [Data -> {0, 1}] /\ freedata \subseteq Data
      /\ old \in [Data -> [kdata : Data \cup {ClientData}, callback : Callbacks]]
  BY Zenon DEF DeviceInv, TypeOK, KernelTypeOK
<1>3. /\ data'[t] = d /\ \A u \in Threads : u # t => data'[u] = data[u]
      /\ data' \in [Threads -> Data \cup {NULL}]
  BY <1>1, <1>2, SMT
<1>4. /\ done'[d] = 0 /\ \A e \in Data : e # d => done'[e] = done[e]
      /\ done' \in [Data -> {0, 1}]
  BY <1>1, <1>2, SMT
<1>5. /\ callback'[r] = "sync_callback"
      /\ \A q \in Requests : q # r => callback'[q] = callback[q]
      /\ callback' \in [Requests -> Callbacks]
  BY <1>1, <1>2, SMT DEF Callbacks
<1>6. /\ kdata'[r] = d /\ \A q \in Requests : q # r => kdata'[q] = kdata[q]
      /\ kdata' \in [Requests -> Data \cup {ClientData}]
  BY <1>1, <1>2, SMT
<1>7. /\ old'[d].callback = callback[r]
      /\ \A e \in Data : e # d => old'[e] = old[e]
      /\ old' \in [Data -> [kdata : Data \cup {ClientData}, callback : Callbacks]]
  BY <1>1, <1>2, SMT
<1>8. \A u \in Threads : pc[u] \in InSync =>
        data[u] \in Data /\ data[u] # d /\ done'[data[u]] = done[data[u]]
  <2>1. \A u \in Threads : pc[u] \in InSync => data[u] \in Data \ freedata
    BY <1>2, Zenon DEF SyncInv
  <2> QED BY <1>1, <1>4, <2>1, ZenonT(60)
<1>9. /\ InFlightOnce' /\ InFlight' = InFlight
      /\ r \notin pending /\ r \notin InFlight /\ owner[r] = t
      /\ callback[r] \in ClientCallbacks
      /\ pc'[t] = "sync_enqueue" /\ cur'[t] = r
      /\ \A u \in Threads : u # t => pc'[u] = pc[u] /\ cur'[u] = cur[u]
      /\ \A u \in Threads : pc[u] # "client" => u # t /\ cur[u] # r
      /\ \A u \in Threads : pc[u] \in InSync => u # t /\ cur[u] # r
      /\ NoLostWakeup' /\ FlightInv' /\ SyscallInv' /\ IdInv' /\ HeldInv'
  <2>1. "sync_enqueue" \in {"async_enqueue", "sync_enqueue"} /\ pending \subseteq pending'
    BY <1>1, Zenon
  <2> QED BY <1>1, <1>3, <1>5, <1>8, <2>1, CallStep, ZenonT(60)
<1>10. TypeOK'
  <2>1. pc' \in [Threads -> PCs] /\ cur' \in [Threads -> Requests \cup {NULL}]
    BY <1>1, <1>2, SMT DEF PCs, InSync
  <2>2. freedata' \subseteq Data
    BY <1>1, <1>2, Zenon
  <2> QED
    BY <1>1, <1>2, <1>3, <1>4, <1>5, <1>6, <1>7, <2>1, <2>2, Zenon DEF TypeOK, KernelTypeOK
<1>11. /\ "sync_enqueue" \in InSync
       /\ \A u \in Threads : pc'[u] \in {"async_enqueue", "sync_return"} => u # t
  BY <1>9, SMT DEF InSync
<1>12. AsyncInv'
  BY <1>1, <1>2, <1>9, <1>11, Zenon DEF AsyncInv
<1>13. SyncInv'
  <2> SUFFICES ASSUME NEW u \in Threads, pc'[u] \in InSync
               PROVE  /\ cur'[u] \in Requests \ pending'
                      /\ owner'[cur'[u]] = u
                      /\ data'[u] \in Data \ freedata'
                      /\ callback'[cur'[u]] = "sync_callback"
                      /\ kdata'[cur'[u]] = data'[u]
                      /\ old'[data'[u]].callback \in ClientCallbacks
    BY Zenon DEF SyncInv
  <2>1. CASE u = t
    <3>1. cur'[u] = r /\ data'[u] = d
      BY <1>3, <1>9, <2>1, Zenon
    <3>2. r \in Requests \ pending' /\ owner'[r] = u
      BY <1>1, <1>9, <2>1, Zenon
    <3>3. d \in Data \ freedata'
      BY <1>1, Zenon
    <3> QED BY <1>5, <1>6, <1>7, <1>9, <3>1, <3>2, <3>3, Zenon
  <2>2. CASE u # t
    <3>1. pc[u] \in InSync /\ cur'[u] = cur[u] /\ data'[u] = data[u]
      BY <1>3, <1>9, <2>2, Zenon
    <3>2. cur[u] \in Requests /\ cur[u] # r /\ data[u] \in Data /\ data[u] # d
      BY <1>2, <1>8, <1>9, <3>1, Zenon DEF SyncInv
    <3>3. /\ cur[u] \notin pending /\ owner[cur[u]] = u
          /\ data[u] \notin freedata
          /\ callback[cur[u]] = "sync_callback" /\ kdata[cur[u]] = data[u]
          /\ old[data[u]].callback \in ClientCallbacks
      BY <1>2, <3>1, Zenon DEF SyncInv
    <3>4. /\ callback'[cur[u]] = callback[cur[u]] /\ kdata'[cur[u]] = kdata[cur[u]]
          /\ old'[data[u]] = old[data[u]]
      BY <1>5, <1>6, <1>7, <3>2, Zenon
    <3>5. pending' = pending /\ owner' = owner /\ data[u] \notin freedata'
      BY <1>1, <3>3, Zenon
    <3> QED BY <3>1, <3>2, <3>3, <3>4, <3>5, Zenon
  <2> QED BY <2>1, <2>2, Zenon
<1>14. DoneInv'
  <2> SUFFICES ASSUME NEW u \in Threads
               PROVE  /\ pc'[u] = "sync_enqueue" => cur'[u] \notin InFlight /\ done'[data'[u]] = 0
                      /\ pc'[u] = "sync_return" => cur'[u] \notin InFlight /\ done'[data'[u]] = 1
    BY <1>9, Zenon DEF DoneInv
  <2>1. CASE u = t
    BY <1>3, <1>4, <1>9, <1>11, <2>1, Zenon
  <2>2. CASE u # t
    <3>1. pc'[u] = pc[u] /\ cur'[u] = cur[u] /\ data'[u] = data[u]
      BY <1>3, <1>9, <2>2, Zenon
    <3>2. pc[u] \in {"sync_enqueue", "sync_return"} => pc[u] \in InSync
      BY Zenon DEF InSync
    <3> QED BY <1>2, <1>8, <3>1, <3>2, Zenon DEF DoneInv
  <2> QED BY <2>1, <2>2, Zenon
<1>15. DataInv'
  <2>1. ASSUME NEW u \in Threads, u # t, pc'[u] \in InSync
        PROVE  pc[u] \in InSync /\ data'[u] = data[u] /\ data'[u] # data'[t]
    BY <1>3, <1>8, <1>9, <2>1, Zenon
  <2> SUFFICES ASSUME NEW u \in Threads, NEW v \in Threads, u # v,
                      pc'[u] \in InSync, pc'[v] \in InSync, data'[u] = data'[v]
               PROVE  FALSE
    BY Zenon DEF DataInv
  <2>2. CASE u = t \/ v = t
    BY <2>1, <2>2, Zenon
  <2>3. CASE u # t /\ v # t
    BY <1>2, <2>1, <2>3, Zenon DEF DataInv
  <2> QED BY <2>2, <2>3, Zenon
<1>16. CallbackInv'
  <2>1. \A q \in pending' : owner'[q] # NULL /\ callback'[q] \in ClientCallbacks
    <3>1. pending \subseteq Requests
      BY <1>2, Zenon DEF TypeOK, KernelTypeOK
    <3>2. \A q \in pending : owner[q] # NULL /\ callback[q] \in ClientCallbacks
      BY <1>2, <3>1, Zenon DEF CallbackInv
    <3>3. \A q \in pending : callback'[q] = callback[q]
      BY <1>5, <1>9, <3>1, Zenon
    <3> QED BY <1>1, <3>2, <3>3, Zenon
  <2>2. ASSUME NEW q \in Requests, callback'[q] = "sync_callback"
        PROVE  \E u \in Threads : pc'[u] \in InSync /\ cur'[u] = q
    <3>1. CASE q = r
      BY <1>9, <1>11, <3>1, Zenon
    <3>2. CASE q # r
      <4>1. PICK u \in Threads : pc[u] \in InSync /\ cur[u] = q
        BY <1>2, <1>5, <2>2, <3>2, Zenon DEF CallbackInv
      <4> QED BY <1>9, <4>1, Zenon
    <3> QED BY <3>1, <3>2, Zenon
  <2> QED BY <2>1, <2>2, Zenon DEF CallbackInv
<1> QED
  BY <1>9, <1>10, <1>12, <1>13, <1>14, <1>15, <1>16, Zenon DEF DeviceInv

-----------------------------------------------------------------------------
(***************************************************************************)
(* What the helper's system calls do.                                      *)
(***************************************************************************)

\* A request in flight is allocated: its owner waits for it.
LEMMA InFlightOwned ==
  ASSUME DeviceInv, NEW r \in InFlight
  PROVE  r \in Requests /\ owner[r] # NULL
<1>1. CASE r \in pending
  BY <1>1, Types, Zenon DEF DeviceInv, CallbackInv
<1>2. CASE r \notin pending
  <2>1. PICK u \in Threads : AwaitedBy(u, r) /\ pc[u] \in InSync
    BY <1>2, FlightFacts, Zenon
  <2>2. cur[u] = r
    BY <2>1, Zenon DEF AwaitedBy
  <2>3. r \in Requests /\ owner[r] = u
    BY <2>1, <2>2, Zenon DEF DeviceInv, SyncInv
  <2> QED BY <2>3, KernelAssumption, Zenon
<1> QED
  BY <1>1, <1>2, Zenon

\* A thread moves no request that the helper has, and gives none in flight a new
\* id or errcode.
LEMMA ThreadLeaves ==
  ASSUME DeviceInv, NEW t \in Threads, InCall(t) \/ BetweenCalls(t)
  PROVE  /\ UNCHANGED <<rtdreqs, wpc, wreq>>
         /\ \A r \in InFlight : id'[r] = id[r] /\ errcode'[r] = errcode[r]
         /\ \A r \in Requests : id'[r] = id[r] \/ id'[r] = NextRequestId
<1> USE DEF device, objects, syncs, threads, syscall
<1>0. /\ id \in [Requests -> Int] /\ errcode \in [Requests -> Nat]
      /\ InFlight \subseteq Requests
  BY Types, InFlightOwned, Zenon
<1>1. CASE InCall(t)
  BY <1>1, Zenon DEF InCall, async_enqueue, sync_enqueue, sync_wait, sync_return
<1>2. ASSUME NEW r \in Requests, NEW cb, kgpu_alloc_request(t, r, cb)
      PROVE  /\ UNCHANGED <<rtdreqs, wpc, wreq>>
             /\ \A q \in InFlight : id'[q] = id[q] /\ errcode'[q] = errcode[q]
             /\ \A q \in Requests : id'[q] = id[q] \/ id'[q] = NextRequestId
  <2>1. r \notin InFlight
    BY <1>2, UnownedFacts, Zenon DEF kgpu_alloc_request
  <2> QED
    BY <1>0, <1>2, <2>1, Zenon DEF kgpu_alloc_request, ConstructRequest
<1>3. ASSUME NEW r \in Requests, RenewId(t, r)
      PROVE  /\ UNCHANGED <<rtdreqs, wpc, wreq>>
             /\ \A q \in InFlight : id'[q] = id[q] /\ errcode'[q] = errcode[q]
             /\ \A q \in Requests : id'[q] = id[q] \/ id'[q] = NextRequestId
  <2>1. r \notin InFlight
    BY <1>3, AtRestFacts, Zenon DEF RenewId
  <2> QED
    BY <1>0, <1>3, <2>1, Zenon DEF RenewId
<1>4. ASSUME NEW r \in Requests,
             \/ kgpu_free_request(t, r) \/ kgpu_call_async(t, r)
             \/ \E d \in Data : kgpu_call_sync(t, r, d) \/ kgpu_call_sync_nomem(t, r, d)
      PROVE  UNCHANGED <<rtdreqs, wpc, wreq, id, errcode>>
  BY <1>4, Zenon DEF kgpu_free_request, kgpu_call_async, kgpu_call_sync, kgpu_call_sync_nomem
<1> QED
  BY <1>1, <1>2, <1>3, <1>4, Zenon DEF BetweenCalls

\* The requests in flight have ids, which tell them apart.
LEMMA FlightIds ==
  ASSUME DeviceInv
  PROVE  \A r, s \in InFlight : id[r] # Unconstructed /\ (id[r] = id[s] => r = s)
<1>1. \A r \in InFlight : r \in Requests /\ id[r] # Unconstructed
  BY InFlightOwned, Zenon DEF DeviceInv, IdInv
<1> QED
  BY <1>1, Zenon DEF DeviceInv, IdInv, UniqueIds

\* Between system calls everything the helper holds is in rtdreqs.
LEMMA HeldIsRead ==
  ASSUME DeviceInv, NEW i \in DOMAIN held, wpc # "read"
  PROVE  /\ held[i].r \in Range(rtdreqs) /\ held[i].r \in Requests
         /\ held[i].id = id[held[i].r]
<1>1. /\ held[i].id = id[held[i].r]
      /\ \E j \in DOMAIN rtdreqs : rtdreqs[j] = held[i].r
  BY Zenon DEF DeviceInv, HeldInv
<1> QED BY <1>1, HeldFacts, Zenon DEF Range

\* A step that leaves the threads, their data and their requests alone keeps what
\* is known of the threads, if the same requests are in flight.
LEMMA ThreadsKeep ==
  ASSUME DeviceInv, InFlight' = InFlight,
         UNCHANGED <<owner, id, rid_sequence, callback, kdata, pending, freedata, done,
                     old, pc, cur, data>>
  PROVE  /\ AsyncInv' /\ SyncInv' /\ DoneInv' /\ DataInv' /\ CallbackInv' /\ FlightInv'
         /\ IdInv'
<1>0. /\ AsyncInv /\ SyncInv /\ DoneInv /\ DataInv /\ CallbackInv /\ FlightInv /\ IdInv
  BY Zenon DEF DeviceInv
<1>1. AsyncInv'
  BY <1>0, Zenon DEF AsyncInv
<1>2. SyncInv'
  BY <1>0, Zenon DEF SyncInv
<1>3. DoneInv'
  BY <1>0, Zenon DEF DoneInv
<1>4. DataInv' /\ CallbackInv'
  BY <1>0, Zenon DEF DataInv, CallbackInv
<1>5. FlightInv'
  BY <1>0, Zenon DEF FlightInv, AwaitedBy
<1>6. IdInv'
  BY <1>0, Zenon DEF IdInv, UniqueIds
<1> QED BY <1>1, <1>2, <1>3, <1>4, <1>5, <1>6, Zenon

\* Nor is a wake-up lost while wake_up_interruptible is not due.
LEMMA WakeupsKeep ==
  ASSUME DeviceInv, UNCHANGED <<done, pc, data, wdata>>, wpc # "wake" \/ UNCHANGED wpc
  PROVE  NoLostWakeup'
  BY Zenon DEF DeviceInv, NoLostWakeup

\* kgpu_read under reqlock: the helper holds nothing that is still in reqs.
LEMMA ReadStep ==
  ASSUME DeviceInv, HelperReads
  PROVE  DeviceInv'
<1>0. TypeOK /\ InFlightOnce /\ SyscallInv /\ HeldInv
  BY Zenon DEF DeviceInv
<1>1. kgpu_read /\ UNCHANGED up
      /\ held' = Append(held, [id |-> id[Head(reqs)], r |-> Head(reqs)])
  BY Zenon DEF HelperReads
<1>2. /\ wpc = "user" /\ wpc' = "read" /\ wreq' = Head(reqs)
      /\ UNCHANGED <<state, rid_sequence, rtdreqs, owner, id, callback, kdata, errcode,
                     pending, freedata, done, old, pc, cur, data, wdata>>
  BY <1>1, Zenon DEF kgpu_read, objects, syncs, threads
<1>3. /\ reqs' \in Seq(Requests) /\ wreq' \in Requests /\ wreq' \in Range(reqs)
      /\ InFlightOnce' /\ InFlight' = InFlight
  BY <1>1, Taken, Zenon
<1>4. held' = Append(held, [id |-> id[wreq'], r |-> wreq'])
  BY <1>1, <1>2, Zenon
<1> DEFINE X == [id : Int, r : Requests]
           e == [id |-> id[wreq'], r |-> wreq']
<1>5. held \in Seq(X) /\ e \in X /\ e.r = wreq' /\ e.id = id[wreq']
  BY <1>3, Types, Zenon
<1>6. held' = Append(held, e)
  BY <1>4, Zenon
<1> HIDE DEF e, X
<1>7. TypeOK'
  <2>1. held' \in Seq(X)
    BY <1>5, <1>6, AppendFacts, Zenon
  <2>2. held' \in Seq([id : Int, r : Requests])
    BY <2>1, Zenon DEF X
  <2> QED
    BY <1>0, <1>1, <1>2, <1>3, <2>2, Zenon DEF TypeOK, KernelTypeOK, WPCs
<1>8. NoLostWakeup'
  BY <1>2, WPCFacts, WakeupsKeep, Zenon
<1>9. /\ AsyncInv' /\ SyncInv' /\ DoneInv' /\ DataInv' /\ CallbackInv' /\ FlightInv'
      /\ IdInv'
  BY <1>2, <1>3, ThreadsKeep, Zenon
<1>10. SyscallInv'
  BY <1>2, <1>3, WPCFacts, Zenon DEF SyscallInv
<1>11. HeldInv'
  <2> DEFINE n == Len(held)
  <2>1. n \in Nat /\ DOMAIN held = 1..n
    BY <1>5, LenProperties, Zenon
  <2>2. /\ Len(held') = n + 1
        /\ \A i \in 1..n : held'[i] = held[i]
        /\ held'[n + 1] = e
    BY <1>5, <1>6, AppendFacts, SMT
  <2>3. DOMAIN held' = 1..(n + 1)
    BY <1>5, <1>6, <2>2, AppendFacts, LenProperties, Zenon
  <2> HIDE DEF n
  <2>4. /\ \A k \in 1..(n + 1) : k \in 1..n \/ k = n + 1
        /\ n + 1 \in 1..(n + 1)
    BY <2>1, SMT
  <2>5. \A i \in 1..n : /\ held[i].r # wreq' /\ held[i].id = id[held[i].r]
                        /\ \E j \in DOMAIN rtdreqs : rtdreqs[j] = held[i].r
    <3>1. \A i \in 1..n : held[i].r \in Range(rtdreqs) /\ held[i].id = id[held[i].r]
      BY <1>2, <2>1, WPCFacts, HeldIsRead, Zenon
    <3>2. wreq' \notin Range(rtdreqs)
      BY <1>0, <1>3, Zenon DEF InFlightOnce
    <3> QED BY <3>1, <3>2, Zenon DEF Range
  <2>6. \A i, j \in 1..(n + 1) : held'[i].r = held'[j].r => i = j
    <3> SUFFICES ASSUME NEW i \in 1..(n + 1), NEW j \in 1..(n + 1),
                        held'[i].r = held'[j].r
                 PROVE  i = j
      BY Zenon
    <3>1. CASE i \in 1..n /\ j \in 1..n
      BY <1>0, <2>1, <2>2, <3>1, Zenon DEF HeldInv
    <3>2. CASE i = n + 1 \/ j = n + 1
      BY <1>5, <2>2, <2>4, <2>5, <3>2, Zenon
    <3> QED
      BY <2>4, <3>1, <3>2, Zenon
  <2>7. \A i \in 1..(n + 1) :
          /\ held'[i].id = id[held'[i].r]
          /\ \/ \E j \in DOMAIN rtdreqs : rtdreqs[j] = held'[i].r
             \/ i = n + 1 /\ held'[i].r = wreq'
    <3>1. held'[n + 1].id = id[held'[n + 1].r] /\ held'[n + 1].r = wreq'
      BY <1>5, <2>2, Zenon
    <3> SUFFICES ASSUME NEW i \in 1..(n + 1)
                 PROVE  /\ held'[i].id = id[held'[i].r]
                        /\ \/ \E j \in DOMAIN rtdreqs : rtdreqs[j] = held'[i].r
                           \/ i = n + 1 /\ held'[i].r = wreq'
      BY Zenon
    <3>2. CASE i \in 1..n
      BY <2>2, <2>5, <3>2, Zenon
    <3>3. CASE i = n + 1
      BY <3>1, <3>3, Zenon
    <3> QED BY <2>4, <3>2, <3>3, Zenon
  <2>8. held' # <<>> /\ held'[n + 1].r = wreq'
    <3>1. held' # <<>>
      BY <2>3, <2>4, SMT
    <3> QED BY <1>5, <2>2, <3>1, Zenon
  <2> QED
    BY <1>2, <2>2, <2>3, <2>6, <2>7, <2>8, Zenon DEF HeldInv
<1> QED
  BY <1>3, <1>7, <1>8, <1>9, <1>10, <1>11, Zenon DEF DeviceInv

\* kgpu_read under rtdreqlock.
LEMMA ReadReturnStep ==
  ASSUME DeviceInv, read_return,
         UNCHANGED <<up, held>>
  PROVE  DeviceInv'
<1>0. TypeOK /\ InFlightOnce /\ SyscallInv /\ HeldInv
  BY Zenon DEF DeviceInv
<1>1. /\ wpc = "read" /\ wpc' = "user" /\ wreq' = NULL
      /\ UNCHANGED <<state, rid_sequence, reqs, owner, id, callback, kdata, errcode,
                     pending, freedata, done, old, pc, cur, data, wdata>>
  BY Zenon DEF read_return, objects, syncs, threads
<1>2. /\ rtdreqs' \in Seq(Requests)
      /\ Range(rtdreqs') = Range(rtdreqs) \cup {wreq}
      /\ InFlightOnce' /\ InFlight' = InFlight
  BY PutBack, Zenon
<1>3. TypeOK'
  BY <1>0, <1>1, <1>2, Zenon DEF TypeOK, KernelTypeOK, WPCs
<1>4. NoLostWakeup'
  BY <1>1, WPCFacts, WakeupsKeep, Zenon
<1>5. /\ AsyncInv' /\ SyncInv' /\ DoneInv' /\ DataInv' /\ CallbackInv' /\ FlightInv'
      /\ IdInv'
  BY <1>1, <1>2, ThreadsKeep, Zenon
<1>6. SyscallInv'
  BY <1>1, WPCFacts, Zenon DEF SyscallInv
<1>7. HeldInv'
  <2>1. \A i \in DOMAIN held : held[i].r \in Range(rtdreqs) \/ held[i].r = wreq
    BY <1>0, Zenon DEF HeldInv, Range
  <2>2. \A i \in DOMAIN held : \E j \in DOMAIN rtdreqs' : rtdreqs'[j] = held[i].r
    BY <1>2, <2>1, Zenon DEF Range
  <2> QED
    BY <1>0, <1>1, <2>2, WPCFacts, Zenon DEF HeldInv
<1> QED
  BY <1>2, <1>3, <1>4, <1>5, <1>6, <1>7, Zenon DEF DeviceInv

\* kgpu_write up to the callback: the request found is the one the id was read
\* from.
LEMMA AnswerStep ==
  ASSUME DeviceInv, NEW i \in DOMAIN held, NEW err \in ErrCodes,
         HelperAnswers(i, err)
  PROVE  DeviceInv'
<1>0. TypeOK /\ SyscallInv /\ IdInv /\ HeldInv /\ NoLostWakeup
  BY Zenon DEF DeviceInv
<1>1. kgpu_write(held[i].id, err) /\ held' = DelAt(held, i) /\ UNCHANGED up
  BY Zenon DEF HelperAnswers
<1>2. /\ wpc = "user" /\ wpc' = "callback"
      /\ UNCHANGED <<state, rid_sequence, reqs, owner, id, callback, kdata,
                     pending, freedata, done, old, pc, cur, data, wdata>>
  BY <1>1, Zenon DEF kgpu_write, syncs, threads
<1>3. /\ held[i].r \in Requests /\ held[i].id = id[held[i].r]
      /\ held[i].id \in Int /\ err \in Nat
  <2>1. held[i].r \in Requests /\ held[i].id = id[held[i].r]
    BY <1>2, WPCFacts, HeldIsRead, Zenon
  <2> QED BY <2>1, Types, ErrCodesAssumption, Zenon
<1>4. /\ rtdreqs' \in Seq(Requests)
      /\ wreq' \in Requests /\ wreq' \in Range(rtdreqs) /\ id[wreq'] = held[i].id
      /\ Range(rtdreqs') = Range(rtdreqs) \ {wreq'}
      /\ errcode' \in [Requests -> Nat]
      /\ InFlightOnce' /\ InFlight' = InFlight
  BY <1>1, <1>3, Answered, Zenon
<1>5. wreq' = held[i].r
  <2>1. wreq' \in InFlight
    BY <1>4, Zenon DEF InFlight
  <2>2. id[wreq'] # Unconstructed
    BY <1>0, <1>4, <2>1, InFlightOwned, Zenon DEF IdInv
  <2> QED
    BY <1>0, <1>3, <1>4, <2>2, Zenon DEF IdInv, UniqueIds
<1> DEFINE X == [id : Int, r : Requests]
           n == Len(held)
           m(k) == IF k < i THEN k ELSE k + 1
<1>6. held \in Seq(X) /\ n \in Nat /\ DOMAIN held = 1..n /\ i \in 1..n
  BY Types, LenProperties, Zenon
<1>7. /\ held' \in Seq(X) /\ Len(held') = n - 1
      /\ \A k \in 1..(n - 1) : held'[k] = IF k < i THEN held[k] ELSE held[k + 1]
  BY <1>1, <1>6, DelAtFacts, ZenonT(60)
<1>8. DOMAIN held' = 1..(n - 1)
  BY <1>7, LenProperties, Zenon
<1>9. TypeOK'
  BY <1>0, <1>1, <1>2, <1>4, <1>7, Zenon DEF TypeOK, KernelTypeOK, WPCs
<1>10. NoLostWakeup'
  BY <1>2, WPCFacts, WakeupsKeep, Zenon
<1>11. /\ AsyncInv' /\ SyncInv' /\ DoneInv' /\ DataInv' /\ CallbackInv' /\ FlightInv'
       /\ IdInv'
  BY <1>2, <1>4, ThreadsKeep, Zenon
<1>12. SyscallInv'
  BY <1>2, <1>4, WPCFacts, Zenon DEF SyscallInv
<1>13. HeldInv'
  <2>1. \A k \in 1..(n - 1) : m(k) \in 1..n /\ m(k) # i /\ (m(k) = k \/ m(k) = k + 1)
    BY <1>6, SMT
  <2>2. \A k, l \in 1..(n - 1) : m(k) = m(l) => k = l
    BY <1>6, SMT
  <2>3. \A k \in 1..(n - 1) : held'[k] = held[m(k)]
    BY <1>7, Zenon
  <2> HIDE DEF n, m
  <2>4. \A j \in 1..n : /\ held[j].id = id[held[j].r] /\ held[j].r \in Range(rtdreqs)
                        /\ j # i => held[j].r # wreq'
    <3>1. \A j \in 1..n : held[j].r \in Range(rtdreqs) /\ held[j].id = id[held[j].r]
      BY <1>2, <1>6, WPCFacts, HeldIsRead, Zenon
    <3>2. \A j \in 1..n : j # i => held[j].r # wreq'
      BY <1>0, <1>5, <1>6, Zenon DEF HeldInv
    <3> QED BY <3>1, <3>2, Zenon
  <2>5. \A k \in 1..(n - 1) :
          /\ held'[k].id = id[held'[k].r]
          /\ \E l \in DOMAIN rtdreqs' : rtdreqs'[l] = held'[k].r
    <3> SUFFICES ASSUME NEW k \in 1..(n - 1)
                 PROVE  /\ held'[k].id = id[held'[k].r]
                        /\ \E l \in DOMAIN rtdreqs' : rtdreqs'[l] = held'[k].r
      BY Zenon
    <3>1. /\ held'[k].id = id[held'[k].r] /\ held'[k].r \in Range(rtdreqs)
          /\ held'[k].r # wreq'
      BY <2>1, <2>3, <2>4, Zenon
    <3>2. held'[k].r \in Range(rtdreqs')
      BY <1>4, <3>1, Zenon
    <3> QED BY <3>1, <3>2, Zenon DEF Range
  <2>6. \A k, l \in 1..(n - 1) : held'[k].r = held'[l].r => k = l
    <3> SUFFICES ASSUME NEW k \in 1..(n - 1), NEW l \in 1..(n - 1), held'[k].r = held'[l].r
                 PROVE  k = l
      BY Zenon
    <3>1. held[m(k)].r = held[m(l)].r /\ m(k) \in DOMAIN held /\ m(l) \in DOMAIN held
      BY <1>6, <2>1, <2>3, Zenon
    <3>2. m(k) = m(l)
      BY <1>0, <3>1, Zenon DEF HeldInv
    <3> QED BY <2>2, <3>2, Zenon
  <2> QED
    BY <1>2, <1>8, <2>5, <2>6, WPCFacts, Zenon DEF HeldInv
<1> QED
  BY <1>4, <1>9, <1>10, <1>11, <1>12, <1>13, Zenon DEF DeviceInv

\* item->r->callback(item->r): sync_callback stays with the request; after a
\* client's callback nothing refers to it, so that it may be freed.
LEMMA CallbackStep ==
  ASSUME DeviceInv, invoke_callback,
         UNCHANGED <<up, held>>
  PROVE  DeviceInv'
<1>0. /\ TypeOK /\ InFlightOnce /\ AsyncInv /\ SyncInv /\ DoneInv /\ DataInv /\ CallbackInv
      /\ FlightInv /\ SyscallInv /\ IdInv /\ HeldInv
  BY Zenon DEF DeviceInv
<1>1. /\ wpc = "callback"
      /\ UNCHANGED <<state, rid_sequence, reqs, rtdreqs, id, callback, kdata, errcode,
                     freedata, done, old, pc, cur, data, wdata>>
  BY Zenon DEF invoke_callback, device, syncs, threads
<1>2. wreq \in Requests /\ InSyscall = {wreq} /\ wreq \in InFlight
  BY <1>0, <1>1, Zenon DEF SyscallInv, InSyscall, InFlight
<1>3. CASE callback[wreq] = "sync_callback"
  <2>1. wpc' = "sync_callback" /\ UNCHANGED <<owner, pending, wreq>>
    BY <1>3, CallbackFacts, Zenon DEF invoke_callback
  <2>2. InSyscall' = InSyscall
    BY <1>2, <2>1, Zenon DEF InSyscall
  <2>3. InFlightOnce' /\ InFlight' = InFlight
    BY <1>0, <1>1, <2>2, Zenon DEF InFlightOnce, InFlight
  <2>4. TypeOK'
    BY <1>0, <1>1, <2>1, Zenon DEF TypeOK, KernelTypeOK, WPCs
  <2>5. NoLostWakeup'
    BY <1>1, WPCFacts, WakeupsKeep, Zenon
  <2>6. /\ AsyncInv' /\ SyncInv' /\ DoneInv' /\ DataInv' /\ CallbackInv' /\ FlightInv'
        /\ IdInv'
    BY <1>1, <2>1, <2>3, ThreadsKeep, Zenon
  <2>7. SyscallInv'
    BY <1>1, <1>2, <1>3, <2>1, WPCFacts, Zenon DEF SyscallInv
  <2>8. HeldInv'
    BY <1>0, <1>1, <2>1, WPCFacts, Zenon DEF HeldInv
  <2> QED
    BY <2>3, <2>4, <2>5, <2>6, <2>7, <2>8, Zenon DEF DeviceInv
<1>4. CASE callback[wreq] # "sync_callback"
  <2>1. /\ callback[wreq] \in ClientCallbacks
        /\ pending' = pending \ {wreq}
        /\ owner' = IF callback[wreq] = "mycb_free"
                     THEN [owner EXCEPT ![wreq] = NULL] ELSE owner
        /\ wpc' = "user" /\ wreq' = NULL
    BY <1>4, Zenon DEF invoke_callback
  <2>2. /\ owner' \in [Requests -> Threads \cup {NULL}]
        /\ \A q \in Requests : q # wreq => owner'[q] = owner[q]
        /\ \A q \in Requests : owner'[q] # NULL => owner[q] # NULL
    <3>1. CASE callback[wreq] = "mycb_free"
      <4>1. owner' = [owner EXCEPT ![wreq] = NULL] /\ owner \in [Requests -> Threads \cup {NULL}]
        BY <2>1, <3>1, Types, Zenon
      <4> QED BY <4>1, <1>2, SMT
    <3>2. CASE callback[wreq] # "mycb_free"
      BY <2>1, <3>2, Types, Zenon
    <3> QED BY <3>1, <3>2, Zenon
  <2>3. InSyscall' = {}
    BY <2>1, WPCFacts, Zenon DEF InSyscall
  <2>4. InFlightOnce' /\ InFlight' = InFlight \ {wreq}
    BY <1>1, <1>2, <2>3, LetGo, Zenon
  <2>5. \A u \in Threads : pc[u] = "async_enqueue" \/ pc[u] \in InSync => cur[u] # wreq
    BY <1>0, <1>2, <1>4, Zenon DEF AsyncInv, SyncInv
  <2>6. \A u \in Threads : pc[u] \in InSync => cur[u] \in Requests /\ cur[u] # wreq
    BY <1>0, <2>5, Zenon DEF SyncInv
  <2>7. pending \subseteq Requests
    BY Types, Zenon
  <2>8. TypeOK'
    BY <1>0, <1>1, <2>1, <2>2, <2>7, Zenon DEF TypeOK, KernelTypeOK, WPCs
  <2>9. NoLostWakeup'
    BY <1>1, WPCFacts, WakeupsKeep, Zenon
  <2>10. AsyncInv'
    BY <1>0, <1>1, <2>1, <2>2, <2>4, <2>5, <2>7, Zenon DEF AsyncInv
  <2>11. SyncInv'
    BY <1>0, <1>1, <2>1, <2>2, <2>6, Zenon DEF SyncInv
  <2>12. DoneInv' /\ DataInv'
    BY <1>0, <1>1, <2>4, Zenon DEF DoneInv, DataInv
  <2>13. CallbackInv'
    BY <1>0, <1>1, <2>1, <2>2, Zenon DEF CallbackInv
  <2>14. FlightInv'
    BY <1>0, <1>1, <2>1, <2>4, Zenon DEF FlightInv, AwaitedBy
  <2>15. SyscallInv'
    BY <2>1, WPCFacts, Zenon DEF SyscallInv
  <2>16. IdInv'
    BY <1>0, <1>1, <2>2, Zenon DEF IdInv, UniqueIds
  <2>17. HeldInv'
    BY <1>0, <1>1, <2>1, WPCFacts, Zenon DEF HeldInv
  <2> QED
    BY <2>4, <2>8, <2>9, <2>10, <2>11, <2>12, <2>13, <2>14, <2>15, <2>16, <2>17, Zenon
       DEF DeviceInv
<1> QED
  BY <1>3, <1>4, Zenon

\* sync_callback loads req->kdata: it is the data of the thread that waits.
LEMMA LoadStep ==
  ASSUME DeviceInv, sync_callback,
         UNCHANGED <<up, held>>
  PROVE  DeviceInv'
<1>0. /\ TypeOK /\ InFlightOnce /\ AsyncInv /\ SyncInv /\ DoneInv /\ DataInv /\ CallbackInv
      /\ FlightInv /\ SyscallInv /\ IdInv /\ HeldInv
  BY Zenon DEF DeviceInv
<1>1. /\ wpc = "sync_callback" /\ wpc' = "set_done" /\ wdata' = kdata[wreq]
      /\ UNCHANGED <<state, rid_sequence, reqs, rtdreqs, owner, id, callback, kdata, errcode,
                     pending, freedata, done, old, pc, cur, data, wreq>>
  BY Zenon DEF sync_callback, device, objects, syncs, threads
<1>2. /\ wreq \in Requests /\ InSyscall = {wreq} /\ wreq \in InFlight /\ InSyscall' = {}
      /\ callback[wreq] = "sync_callback"
  BY <1>0, <1>1, WPCFacts, Zenon DEF SyscallInv, InSyscall, InFlight
<1>3. InFlightOnce' /\ InFlight' = InFlight \ {wreq}
  BY <1>1, <1>2, LetGo, Zenon
<1>4. wreq \notin pending
  BY <1>0, <1>2, CallbackFacts, Zenon DEF CallbackInv
<1>5. PICK t \in Threads : AwaitedBy(t, wreq) /\ pc[t] \in InSync
  BY <1>2, <1>4, FlightFacts, Zenon
<1>6. AwaitedBy(t, wreq)' /\ data[t] = wdata'
  <2>1. cur[t] = wreq
    BY <1>5, Zenon DEF AwaitedBy
  <2>2. kdata[wreq] = data[t]
    BY <1>0, <1>5, <2>1, Zenon DEF SyncInv
  <2> QED BY <1>1, <1>5, <2>2, Zenon DEF AwaitedBy
<1>7. TypeOK'
  BY <1>0, <1>1, <1>2, Types, Zenon DEF TypeOK, KernelTypeOK, WPCs
<1>8. NoLostWakeup'
  BY <1>1, WPCFacts, Zenon DEF DeviceInv, NoLostWakeup
<1>9. AsyncInv' /\ DoneInv' /\ DataInv'
  BY <1>0, <1>1, <1>3, Zenon DEF AsyncInv, DoneInv, DataInv
<1>10. SyncInv' /\ CallbackInv'
  BY <1>0, <1>1, Zenon DEF SyncInv, CallbackInv
<1>11. FlightInv'
  BY <1>0, <1>1, <1>3, Zenon DEF FlightInv, AwaitedBy
<1>12. SyscallInv'
  BY <1>1, <1>2, <1>3, <1>6, WPCFacts, Zenon DEF SyscallInv
<1>13. IdInv'
  BY <1>0, <1>1, Zenon DEF IdInv, UniqueIds
<1>14. HeldInv'
  BY <1>0, <1>1, WPCFacts, Zenon DEF HeldInv
<1> QED
  BY <1>3, <1>7, <1>8, <1>9, <1>10, <1>11, <1>12, <1>13, <1>14, Zenon DEF DeviceInv

\* data->done = 1: only the waiting thread's data changes.
LEMMA DoneStep ==
  ASSUME DeviceInv, set_done,
         UNCHANGED <<up, held>>
  PROVE  DeviceInv'
<1>0. /\ TypeOK /\ InFlightOnce /\ NoLostWakeup /\ AsyncInv /\ SyncInv /\ DoneInv /\ DataInv
      /\ CallbackInv /\ FlightInv /\ SyscallInv /\ IdInv /\ HeldInv
  BY Zenon DEF DeviceInv
<1>1. /\ wpc = "set_done" /\ wpc' = "wake"
      /\ done' = [d \in Data |-> IF d = wdata THEN 1 ELSE done[d]]
      /\ UNCHANGED <<state, rid_sequence, reqs, rtdreqs, owner, id, callback, kdata, errcode,
                     pending, freedata, old, pc, cur, data, wreq, wdata>>
  BY Zenon DEF set_done, device, objects, threads
<1>2. InSyscall = {} /\ InSyscall' = {}
  BY <1>1, WPCFacts, Zenon DEF InSyscall
<1>3. InFlightOnce' /\ InFlight' = InFlight
  BY <1>0, <1>1, <1>2, Zenon DEF InFlightOnce, InFlight
<1>4. PICK t \in Threads : AwaitedBy(t, wreq) /\ data[t] = wdata
  BY <1>0, <1>1, Zenon DEF SyscallInv
<1>5. /\ pc[t] \in {"sync_wait", "sync_sleep"} /\ cur[t] = wreq /\ pc[t] \in InSync
      /\ wreq \notin InFlight
  BY <1>0, <1>1, <1>4, PCFacts, Zenon DEF AwaitedBy, SyscallInv
<1>6. data[t] \in Data /\ owner[wreq] = t
  BY <1>0, <1>5, Zenon DEF SyncInv
<1>7. \A d \in Data : d # wdata => done'[d] = done[d]
  BY <1>1, Zenon
<1>8. \A u \in Threads : pc[u] \in InSync /\ u # t =>
        data[u] # wdata /\ done'[data[u]] = done[data[u]] /\ cur[u] # wreq
  <2> SUFFICES ASSUME NEW u \in Threads, pc[u] \in InSync, u # t
               PROVE  data[u] # wdata /\ done'[data[u]] = done[data[u]] /\ cur[u] # wreq
    BY Zenon
  <2>1. data[u] # wdata
    BY <1>0, <1>4, <1>5, Zenon DEF DataInv
  <2>2. data[u] \in Data /\ owner[cur[u]] = u
    BY <1>0, Zenon DEF SyncInv
  <2> QED BY <1>6, <1>7, <2>1, <2>2, Zenon
<1>9. TypeOK'
  <2>1. done' \in [Data -> {0, 1}]
    <3>1. done \in [Data -> {0, 1}]
      BY Types, Zenon
    <3> QED BY <1>1, <3>1, SMT
  <2> QED BY <1>0, <1>1, <2>1, Zenon DEF TypeOK, KernelTypeOK, WPCs
<1>10. NoLostWakeup'
  <2> SUFFICES ASSUME NEW u \in Threads, pc[u] = "sync_sleep", done'[data[u]] = 1
               PROVE  wdata = data[u]
    BY <1>1, Zenon DEF NoLostWakeup
  <2>1. CASE u = t
    BY <1>4, <2>1, Zenon
  <2>2. CASE u # t
    <3>1. pc[u] \in InSync
      BY PCFacts, Zenon
    <3>2. done[data[u]] = 1
      BY <1>8, <2>2, <3>1, Zenon
    <3> QED BY <1>0, <1>1, <3>2, WPCFacts, Zenon DEF NoLostWakeup
  <2> QED BY <2>1, <2>2, Zenon
<1>11. AsyncInv' /\ DataInv'
  BY <1>0, <1>1, <1>3, Zenon DEF AsyncInv, DataInv
<1>12. SyncInv' /\ CallbackInv'
  BY <1>0, <1>1, Zenon DEF SyncInv, CallbackInv
<1>13. DoneInv'
  <2>1. \A u \in Threads : pc[u] = "sync_enqueue" \/ pc[u] = "sync_return" =>
          pc[u] \in InSync /\ u # t
    BY <1>5, PCFacts, Zenon
  <2> QED BY <1>0, <1>1, <1>3, <1>8, <2>1, Zenon DEF DoneInv
<1>14. FlightInv'
  <2> SUFFICES ASSUME NEW q \in InFlight, q \notin pending
               PROVE  \E u \in Threads : AwaitedBy(u, q)'
    BY <1>1, <1>3, Zenon DEF FlightInv
  <2>1. PICK u \in Threads : AwaitedBy(u, q) /\ pc[u] \in InSync
    BY FlightFacts, Zenon
  <2>2. cur[u] = q /\ u # t
    BY <1>5, <2>1, Zenon DEF AwaitedBy
  <2>3. AwaitedBy(u, q)'
    BY <1>1, <1>8, <2>1, <2>2, Zenon DEF AwaitedBy
  <2> QED
    BY <2>3, Zenon
<1>15. SyscallInv'
  BY <1>1, WPCFacts, Zenon DEF SyscallInv
<1>16. IdInv'
  BY <1>0, <1>1, Zenon DEF IdInv, UniqueIds
<1>17. HeldInv'
  BY <1>0, <1>1, WPCFacts, Zenon DEF HeldInv
<1> QED
  BY <1>3, <1>9, <1>10, <1>11, <1>12, <1>13, <1>14, <1>15, <1>16, <1>17, Zenon DEF DeviceInv

\* wake_up_interruptible: it may wake a thread of a later call, which does no
\* harm.
LEMMA WakeStep ==
  ASSUME DeviceInv, wake_up,
         UNCHANGED <<up, held>>
  PROVE  DeviceInv'
<1>0. /\ TypeOK /\ InFlightOnce /\ NoLostWakeup /\ AsyncInv /\ SyncInv /\ DoneInv /\ DataInv
      /\ CallbackInv /\ FlightInv /\ SyscallInv /\ IdInv /\ HeldInv
  BY Zenon DEF DeviceInv
<1>1. /\ wpc = "wake" /\ wpc' = "user" /\ wreq' = NULL /\ wdata' = NULL
      /\ pc' = [u \in Threads |-> IF pc[u] = "sync_sleep" /\ data[u] = wdata
                                  THEN "sync_wait" ELSE pc[u]]
  BY Zenon DEF wake_up
<1>2. UNCHANGED <<state, rid_sequence, reqs, rtdreqs, owner, id, callback, kdata, errcode,
                  pending, freedata, done, old, cur, data>>
  BY Zenon DEF wake_up, device, objects, syncs
<1>3. \A u \in Threads : pc'[u] = pc[u] \/ (pc[u] = "sync_sleep" /\ pc'[u] = "sync_wait")
  BY <1>1, Zenon
<1>4. \A u \in Threads : pc'[u] = "sync_sleep" => pc[u] = "sync_sleep" /\ data[u] # wdata
  BY <1>1, PCFacts, Zenon
<1>5. \A u \in Threads : pc'[u] \in InSync <=> pc[u] \in InSync
  BY <1>3, PCFacts, Zenon
<1>6. \A u \in Threads :
        /\ pc'[u] = "async_enqueue" => pc[u] = "async_enqueue"
        /\ pc'[u] = "sync_enqueue" => pc[u] = "sync_enqueue"
        /\ pc'[u] = "sync_return" => pc[u] = "sync_return"
  BY <1>3, PCFacts, Zenon
<1>7. InSyscall = {} /\ InSyscall' = {}
  BY <1>1, WPCFacts, Zenon DEF InSyscall
<1>8. InFlightOnce' /\ InFlight' = InFlight
  BY <1>0, <1>2, <1>7, Zenon DEF InFlightOnce, InFlight
<1>9. TypeOK'
  <2>1. pc' \in [Threads -> PCs]
    <3>1. "sync_wait" \in PCs /\ \A u \in Threads : pc[u] \in PCs
      BY Types, Zenon DEF PCs, InSync
    <3> QED BY <1>1, <3>1, Zenon
  <2> QED BY <1>0, <1>1, <1>2, <2>1, Zenon DEF TypeOK, KernelTypeOK, WPCs
<1>10. NoLostWakeup'
  BY <1>0, <1>2, <1>4, Zenon DEF NoLostWakeup
<1>11. AsyncInv' /\ DoneInv'
  BY <1>0, <1>2, <1>6, <1>8, Zenon DEF AsyncInv, DoneInv
<1>12. SyncInv' /\ DataInv'
  BY <1>0, <1>2, <1>5, Zenon DEF SyncInv, DataInv
<1>13. CallbackInv'
  BY <1>0, <1>2, <1>5, Zenon DEF CallbackInv
<1>14. FlightInv'
  <2>1. \A u \in Threads, q \in InFlight : AwaitedBy(u, q) => AwaitedBy(u, q)'
    BY <1>2, <1>3, Zenon DEF AwaitedBy
  <2> QED
    BY <1>0, <1>2, <1>8, <2>1, Zenon DEF FlightInv
<1>15. SyscallInv'
  BY <1>1, WPCFacts, Zenon DEF SyscallInv
<1>16. IdInv'
  BY <1>0, <1>2, Zenon DEF IdInv, UniqueIds
<1>17. HeldInv'
  BY <1>0, <1>1, <1>2, WPCFacts, Zenon DEF HeldInv
<1> QED
  BY <1>8, <1>9, <1>10, <1>11, <1>12, <1>13, <1>14, <1>15, <1>16, <1>17, Zenon DEF DeviceInv

-----------------------------------------------------------------------------
(***************************************************************************)
(* The helper between system calls.                                        *)
(***************************************************************************)

\* A step of the helper that changes neither the lists nor the calls: the
\* ioctl, its start, its death.
LEMMA HelperStep ==
  ASSUME DeviceInv, up' \in BOOLEAN,
         state' \in {KGPU_OK, KGPU_TERMINATED},
         UNCHANGED <<rid_sequence, reqs, rtdreqs, objects, syncs, threads, syscall>>,
         UNCHANGED held \/ (wpc = "user" /\ held' = <<>>)
  PROVE  DeviceInv'
<1>0. TypeOK /\ InFlightOnce /\ SyscallInv /\ HeldInv
  BY Zenon DEF DeviceInv
<1>1. UNCHANGED <<owner, id, callback, kdata, errcode, pending, freedata, done, old,
                  pc, cur, data, wpc, wreq, wdata>>
  BY Zenon DEF objects, syncs, threads, syscall
<1>2. InFlightOnce' /\ InFlight' = InFlight
  BY <1>0, <1>1, NotMoved, Zenon
<1>3. TypeOK'
  <2>1. <<>> \in Seq([id : Int, r : Requests])
    BY EmptySeq, Zenon
  <2> QED BY <1>0, <1>1, <2>1, Zenon DEF TypeOK, KernelTypeOK
<1>4. NoLostWakeup'
  BY <1>1, WakeupsKeep, Zenon
<1>5. /\ AsyncInv' /\ SyncInv' /\ DoneInv' /\ DataInv' /\ CallbackInv' /\ FlightInv'
      /\ IdInv'
  BY <1>1, <1>2, ThreadsKeep, Zenon
<1>6. SyscallInv'
  BY <1>0, <1>1, <1>2, Zenon DEF SyscallInv, AwaitedBy
<1>7. HeldInv'
  <2>1. CASE UNCHANGED held
    BY <1>0, <1>1, <2>1, ZenonT(60) DEF HeldInv
  <2>2. CASE wpc = "user" /\ held' = <<>>
    <3>1. DOMAIN held' = {}
      BY <2>2, SMT
    <3> QED BY <1>1, <2>2, <3>1, WPCFacts, Zenon DEF HeldInv
  <2> QED
    BY <2>1, <2>2, Zenon
<1> QED
  BY <1>2, <1>3, <1>4, <1>5, <1>6, <1>7, Zenon DEF DeviceInv

-----------------------------------------------------------------------------
(***************************************************************************)
(* The invariant, and what it implies.                                     *)
(***************************************************************************)

\* The initial state: nothing is in flight, no call is being executed.
LEMMA InitInv == Init => DeviceInv
<1> SUFFICES ASSUME Init PROVE DeviceInv
  OBVIOUS
<1> USE KernelAssumption DEF Init, KernelInit
<1>1. TypeOK
  BY EmptySeq, SMTT(30) DEF TypeOK, KernelTypeOK, PCs, WPCs, Callbacks, ClientCallbacks, Unconstructed
<1>2. InFlightOnce /\ InFlight = {}
  BY SMTT(30) DEF InFlightOnce, InFlight, InSyscall, Range, IsInjective
<1>3. NoLostWakeup /\ AsyncInv /\ SyncInv /\ DoneInv /\ DataInv
  BY Zenon DEF NoLostWakeup, AsyncInv, SyncInv, DoneInv, DataInv, InSync
<1>4. CallbackInv /\ FlightInv /\ SyscallInv
  BY <1>2, Zenon DEF CallbackInv, FlightInv, SyscallInv
<1>5. IdInv
  BY SMTT(30) DEF IdInv, UniqueIds, Unconstructed
<1>6. HeldInv
  BY SMTT(30) DEF HeldInv
<1> QED
  BY <1>1, <1>2, <1>3, <1>4, <1>5, <1>6, Zenon DEF DeviceInv

\* Every step keeps the invariant, if the ids do not wrap.
LEMMA NextInv ==
  ASSUME MaxIds <= MaxInt, DeviceInv, [Next]_vars
  PROVE  DeviceInv'
<1>1. ASSUME NEW t \in Threads, ThreadStep(t) PROVE DeviceInv'
  <2> USE <1>1 DEF ThreadStep
  <2>1. CASE InCall(t)
    BY <2>1, AsyncEnqueueStep, SyncEnqueueStep, WaitStep, ReturnStep, Zenon DEF InCall
  <2>2. CASE BetweenCalls(t)
    BY <2>2, AllocStep, FreeStep, RenewStep, AsyncStep, SyncStep, NoMemStep, Zenon
       DEF BetweenCalls
  <2> QED
    BY <2>1, <2>2, Zenon
<1>2. CASE SyscallStep /\ UNCHANGED <<up, held>>
  BY <1>2, ReadReturnStep, CallbackStep, LoadStep, DoneStep, WakeStep, Zenon
     DEF SyscallStep
<1>3. CASE HelperReads
  BY <1>3, ReadStep, Zenon
<1>4. ASSUME NEW i \in DOMAIN held, NEW err \in ErrCodes, HelperAnswers(i, err)
      PROVE  DeviceInv'
  BY <1>4, AnswerStep, Zenon
<1>5. ASSUME NEW i \in DOMAIN held, HelperAborts(i) PROVE DeviceInv'
  BY <1>5, HelperStep, Zenon DEF HelperAborts, DeviceInv, TypeOK, KernelTypeOK, kvars, device
<1>6. CASE HelperDies
  BY <1>6, HelperStep, Zenon DEF HelperDies, DeviceInv, TypeOK, KernelTypeOK, kvars, device
<1>7. CASE HelperStarts
  BY <1>7, HelperStep, Zenon DEF HelperStarts, DeviceInv, TypeOK, KernelTypeOK, kvars, device
<1>8. CASE HelperStops
  BY <1>8, HelperStep, Zenon DEF HelperStops, terminate_all_requests
<1>9. CASE UNCHANGED vars
  BY <1>9, HelperStep, Zenon DEF vars, DeviceInv, TypeOK, KernelTypeOK, kvars, device
<1> QED
  BY <1>1, <1>2, <1>3, <1>4, <1>5, <1>6, <1>7, <1>8, <1>9, Zenon DEF Next

\* The invariant implies the properties of the transport.
LEMMA InvImplies ==
  ASSUME DeviceInv
  PROVE  /\ RequestsStayAllocated
         /\ AnswerFindsItsRequest
         /\ SyncAnswered
         /\ SyncCallbackOwnsData
<1>1. RequestsStayAllocated
  BY InFlightOwned, Zenon DEF RequestsStayAllocated
<1>2. SyncAnswered
  BY Zenon DEF SyncAnswered, DeviceInv, DoneInv
<1>3. AnswerFindsItsRequest
  <2> SUFFICES ASSUME NEW i \in 1..Returned
               PROVE  \E j \in DOMAIN rtdreqs :
                        FoundAt(j, held[i].id) /\ rtdreqs[j] = held[i].r
    BY Zenon DEF AnswerFindsItsRequest
  <2>1. /\ held \in Seq([id : Int, r : Requests]) /\ Len(held) \in Nat
        /\ DOMAIN held = 1..Len(held)
    BY LenProperties, Zenon DEF DeviceInv, TypeOK
  <2>2. i \in DOMAIN held /\ ~(wpc = "read" /\ i = Len(held))
    <3>1. CASE wpc = "read"
      <4>1. Returned = Len(held) - 1
        BY <3>1, Zenon DEF Returned
      <4>2. i \in 1..Len(held) /\ i # Len(held)
        BY <4>1, <2>1, SMTT(30)
      <4> QED
        BY <4>2, <2>1, Zenon
    <3>2. CASE wpc # "read"
      BY <2>1, <3>2, Zenon DEF Returned
    <3> QED
      BY <3>1, <3>2, Zenon
  <2>3. PICK j \in DOMAIN rtdreqs : rtdreqs[j] = held[i].r
    BY <2>2, Zenon DEF DeviceInv, HeldInv
  <2>4. held[i].r \in Requests /\ held[i].r \in InFlight
    BY <2>2, HeldFacts, Zenon
  <2>5. held[i].id = id[held[i].r] /\ held[i].id # Unconstructed
    BY <2>2, <2>4, InFlightOwned, Zenon DEF DeviceInv, HeldInv, IdInv
  <2>6. rtdreqs \in [1..Len(rtdreqs) -> Requests] /\ Len(rtdreqs) \in Nat
    BY LenProperties, Zenon DEF DeviceInv, TypeOK, KernelTypeOK
  <2>7. \A k \in DOMAIN rtdreqs : id[rtdreqs[k]] = held[i].id => k = j
    BY <2>3, <2>4, <2>5, <2>6, Zenon DEF DeviceInv, IdInv, UniqueIds, InFlightOnce, IsInjective
  <2>8. FoundAt(j, held[i].id)
    BY <2>3, <2>5, <2>6, <2>7, SMTT(30) DEF FoundAt
  <2> QED
    BY <2>3, <2>8, Zenon
<1>4. SyncCallbackOwnsData
  <2>1. CASE wpc = "set_done"
    BY <2>1, Zenon DEF SyncCallbackOwnsData, DeviceInv, SyscallInv, SyncInv, AwaitedBy, InSync
  <2>2. CASE wpc = "sync_callback"
    <3>1. wreq \in Requests /\ wreq \in InFlight /\ callback[wreq] = "sync_callback"
      BY <2>2, Zenon DEF DeviceInv, SyscallInv, InFlight, InSyscall
    <3>2. PICK t \in Threads : AwaitedBy(t, wreq)
      BY <3>1, Zenon DEF DeviceInv, CallbackInv, ClientCallbacks, FlightInv
    <3> QED
      BY <2>2, <3>2, Zenon DEF SyncCallbackOwnsData, DeviceInv, SyncInv, AwaitedBy, InSync
  <2> QED
    BY <2>1, <2>2, Zenon DEF SyncCallbackOwnsData
<1> QED
  BY <1>1, <1>2, <1>3, <1>4, Zenon

\* DeviceInv is an invariant of the transport, whatever the number of
\* threads, requests and data objects, with the helper answering in any
\* order, dying and being restarted.
THEOREM DeviceSafe ==
  ASSUME MaxIds <= MaxInt
  PROVE  Spec => []DeviceInv
<1>1. DeviceInv /\ [Next]_vars => DeviceInv'
  BY NextInv, Zenon
<1> QED
  BY <1>1, InitInv, PTL DEF Spec

\* Every answer reaches the request it is for: kgpu_write never finds another
\* request, nor none.
THEOREM AnswersArrive ==
  ASSUME MaxIds <= MaxInt
  PROVE  Spec => []AnswerFindsItsRequest
<1>1. DeviceInv => AnswerFindsItsRequest
  BY InvImplies, Zenon
<1> QED
  BY <1>1, DeviceSafe, PTL

\* kgpu_call_sync returns only when its request has been answered, and a
\* thread that sleeps on in it has not been answered, or is about to be woken.
THEOREM SyncCallsAreAnswered ==
  ASSUME MaxIds <= MaxInt
  PROVE  Spec => [](SyncAnswered /\ NoLostWakeup)
<1>1. DeviceInv => SyncAnswered /\ NoLostWakeup
  BY InvImplies, Zenon DEF DeviceInv
<1> QED
  BY <1>1, DeviceSafe, PTL

\* sync_callback gives the answer through the data of the call that waits for
\* it: never through data that has been freed, or given to another call.
THEOREM AnswersUseTheCallersData ==
  ASSUME MaxIds <= MaxInt
  PROVE  Spec => []SyncCallbackOwnsData
<1>1. DeviceInv => SyncCallbackOwnsData
  BY InvImplies, Zenon
<1> QED
  BY <1>1, DeviceSafe, PTL

\* The transport only ever touches allocated requests, and the ids tell them
\* apart.
THEOREM RequestsAreKept ==
  ASSUME MaxIds <= MaxInt
  PROVE  Spec => [](RequestsStayAllocated /\ UniqueIds)
<1>1. DeviceInv => RequestsStayAllocated /\ UniqueIds
  BY InvImplies, Zenon DEF DeviceInv, IdInv
<1> QED
  BY <1>1, DeviceSafe, PTL

\* A request is in one place of the transport at a time: on reqs, in the hands
\* of the system call that moves it, or on rtdreqs, and on no list twice.
THEOREM RequestsAreInOnePlace ==
  ASSUME MaxIds <= MaxInt
  PROVE  Spec => []InFlightOnce
<1>1. DeviceInv => InFlightOnce
  BY Zenon DEF DeviceInv
<1> QED
  BY <1>1, DeviceSafe, PTL

-----------------------------------------------------------------------------
(***************************************************************************)
(* The transport implements KgpuCalls.                                     *)
(***************************************************************************)

\* An answer in progress has one of the helper's error codes.
AnswerInv ==
  wpc \in {"callback", "sync_callback", "set_done"} => errcode[wreq] \in ErrCodes

\* Who is in a sync call on r decides its phase.
LEMMA PhaseOfSync ==
  ASSUME DeviceInv, NEW t \in Threads, pc[t] \in InSync
  PROVE  Phase(cur[t]) = IF done[data[t]] = 1 THEN "answered" ELSE "called"
<1>1. cur[t] \notin pending
  BY Zenon DEF DeviceInv, SyncInv
<1>2. \A u \in Threads : pc[u] \in InSync /\ cur[u] = cur[t] => u = t
  BY Zenon DEF DeviceInv, SyncInv
<1>3. \E u \in Threads : pc[u] \in InSync /\ cur[u] = cur[t]
  OBVIOUS
<1>4. (\E u \in Threads : pc[u] \in InSync /\ cur[u] = cur[t] /\ done[data[u]] = 1)
        <=> done[data[t]] = 1
  BY <1>2, Zenon
<1> QED BY <1>1, <1>3, <1>4, Zenon DEF Phase

\* A request that is not pending and in no sync call is at rest.
LEMMA PhaseAtRest ==
  ASSUME NEW r \in Requests, r \notin pending,
         \A t \in Threads : pc[t] \in InSync => cur[t] # r
  PROVE  Phase(r) = "rest"
BY Zenon DEF Phase

\* So is one that its owner takes to be at rest: nobody else is in a call on it.
LEMMA OwnedIsNotInSync ==
  ASSUME DeviceInv, NEW r \in Requests, NEW t \in Threads, AtRest(t, r)
  PROVE  Phase(r) = "rest" /\ \A u \in Threads : pc[u] \in InSync => cur[u] # r
<1>1. \A u \in Threads : pc[u] \in InSync => owner[cur[u]] = u
  BY Zenon DEF DeviceInv, SyncInv
<1>2. pc[t] \notin InSync /\ owner[r] = t /\ r \notin pending
  BY Zenon DEF AtRest, InSync
<1>3. \A u \in Threads : pc[u] \in InSync => cur[u] # r
  BY <1>1, <1>2, Zenon
<1> QED BY <1>2, <1>3, PhaseAtRest, Zenon

\* And one that is not allocated.
LEMMA FreeIsAtRest ==
  ASSUME DeviceInv, NEW r \in Requests, owner[r] = NULL
  PROVE  Phase(r) = "rest"
<1>1. \A u \in Threads : pc[u] \in InSync => owner[cur[u]] = u
  BY Zenon DEF DeviceInv, SyncInv
<1>2. r \notin pending
  BY Zenon DEF DeviceInv, CallbackInv
<1>3. NULL \notin Threads
  BY KernelAssumption, Zenon
<1>4. \A u \in Threads : pc[u] \in InSync => cur[u] # r
  BY <1>1, <1>3, Zenon
<1> QED BY <1>2, <1>4, PhaseAtRest, Zenon

\* r keeps its phase if the calls on it stay what they are.
LEMMA SamePhase ==
  ASSUME NEW r \in Requests,
         r \in pending' <=> r \in pending,
         \A t \in Threads : pc'[t] \in InSync /\ cur'[t] = r <=> pc[t] \in InSync /\ cur[t] = r,
         \A t \in Threads : pc[t] \in InSync /\ cur[t] = r =>
           (done'[data'[t]] = 1 <=> done[data[t]] = 1)
  PROVE  Phase(r)' = Phase(r)
<1>1. (\E t \in Threads : pc'[t] \in InSync /\ cur'[t] = r)
        <=> (\E t \in Threads : pc[t] \in InSync /\ cur[t] = r)
  BY Zenon
<1>2. (\E t \in Threads : pc'[t] \in InSync /\ cur'[t] = r /\ done'[data'[t]] = 1)
        <=> (\E t \in Threads : pc[t] \in InSync /\ cur[t] = r /\ done[data[t]] = 1)
  BY Zenon
<1> QED BY <1>1, <1>2, Zenon DEF Phase

\* A step that starts, answers and ends no call changes no phase.
LEMMA SamePhases ==
  ASSUME UNCHANGED <<pending, done>>,
         \A t \in Threads : /\ pc'[t] \in InSync <=> pc[t] \in InSync
                            /\ pc[t] \in InSync => cur'[t] = cur[t] /\ data'[t] = data[t]
  PROVE  \A r \in Requests : Phase(r)' = Phase(r)
<1> TAKE r \in Requests
<1> QED BY SamePhase, Zenon

\* Nor does the client notice a step that changes no phase and no errcode but of
\* a call under way.
LEMMA Unseen ==
  ASSUME \A r \in Requests : Phase(r)' = Phase(r),
         \A r \in Requests : Phase(r) = "called" \/ errcode'[r] = errcode[r]
  PROVE  UNCHANGED <<CallPhases, CallResults>>
<1>1. CallPhases' = CallPhases
  BY Zenon DEF CallPhases
<1>2. CallResults' = CallResults
  BY Zenon DEF CallResults
<1> QED BY <1>1, <1>2

\* What a step on r alone does to the client's view.
LEMMA SeenOn ==
  ASSUME NEW r \in Requests,
         \A s \in Requests \ {r} : Phase(s)' = Phase(s) /\ errcode'[s] = errcode[s]
  PROVE  /\ CallPhases' = [CallPhases EXCEPT ![r] = Phase(r)']
         /\ CallResults' = [CallResults EXCEPT ![r] =
                              IF Phase(r)' = "called" THEN NULL ELSE errcode'[r]]
         /\ CallPhases[r] = Phase(r)
<1>1. /\ CallPhases = [s \in Requests |-> CallPhases[s]]
      /\ CallPhases' = [s \in Requests |-> CallPhases'[s]]
      /\ \A s \in Requests : CallPhases[s] = Phase(s) /\ CallPhases'[s] = Phase(s)'
  BY Zenon DEF CallPhases
<1>2. /\ CallResults = [s \in Requests |-> CallResults[s]]
      /\ CallResults' = [s \in Requests |-> CallResults'[s]]
      /\ \A s \in Requests :
           /\ CallResults[s] = IF CallPhases[s] = "called" THEN NULL ELSE errcode[s]
           /\ CallResults'[s] = IF CallPhases'[s] = "called" THEN NULL ELSE errcode'[s]
  BY <1>1, Zenon DEF CallResults
<1>3. \A s \in Requests \ {r} : CallPhases'[s] = CallPhases[s] /\ CallResults'[s] = CallResults[s]
  BY <1>1, <1>2, SMT
<1>4. CallPhases' = [CallPhases EXCEPT ![r] = CallPhases'[r]]
  BY <1>1, <1>3, Zenon
<1>5. CallResults' = [CallResults EXCEPT ![r] = CallResults'[r]]
  BY <1>2, <1>3, Zenon
<1> QED BY <1>1, <1>2, <1>4, <1>5, Zenon

\* kgpu_call_async and kgpu_call_sync, up to the lock, are the call.
LEMMA AsyncIsCall ==
  ASSUME DeviceInv, NEW t \in Threads, NEW r \in Requests, kgpu_call_async(t, r)
  PROVE  Calls!Call(r)
<1>1. /\ AtRest(t, r) /\ pending' = pending \cup {r}
      /\ errcode' = errcode /\ done' = done /\ data' = data
      /\ pc' = [pc EXCEPT ![t] = "async_enqueue"] /\ cur' = [cur EXCEPT ![t] = r]
  BY Zenon DEF kgpu_call_async, syncs
<1>2. pc[t] = "client" /\ pc \in [Threads -> PCs] /\ cur \in [Threads -> Requests \cup {NULL}]
  BY <1>1, Zenon DEF AtRest, DeviceInv, TypeOK, KernelTypeOK
<1>3. \A u \in Threads : /\ pc'[u] \in InSync <=> pc[u] \in InSync
                         /\ pc[u] \in InSync => cur'[u] = cur[u]
  BY <1>1, <1>2, Zenon DEF InSync
<1>4. Phase(r) = "rest"
  BY <1>1, OwnedIsNotInSync, Zenon
<1>5. Phase(r)' = "called"
  BY <1>1, Zenon DEF Phase
<1>6. \A s \in Requests \ {r} : Phase(s)' = Phase(s) /\ errcode'[s] = errcode[s]
  <2> SUFFICES ASSUME NEW s \in Requests \ {r} PROVE Phase(s)' = Phase(s)
    BY <1>1, Zenon
  <2>1. s \in pending' <=> s \in pending
    BY <1>1, Zenon
  <2>2. \A u \in Threads : pc'[u] \in InSync /\ cur'[u] = s <=> pc[u] \in InSync /\ cur[u] = s
    BY <1>3, Zenon
  <2>3. \A u \in Threads : done'[data'[u]] = 1 <=> done[data[u]] = 1
    BY <1>1, Zenon
  <2> QED BY <2>1, <2>2, <2>3, SamePhase, Zenon
<1>7. /\ CallPhases' = [CallPhases EXCEPT ![r] = Phase(r)']
      /\ CallResults' = [CallResults EXCEPT ![r] =
                           IF Phase(r)' = "called" THEN NULL ELSE errcode'[r]]
      /\ CallPhases[r] = Phase(r)
  BY <1>6, SeenOn, Zenon
<1> QED BY <1>4, <1>5, <1>7, Zenon DEF Calls!Call

\* In a sync call the request is the thread's, with sync data that is not done.
LEMMA SyncIsCall ==
  ASSUME DeviceInv, NEW t \in Threads, NEW r \in Requests, NEW d \in Data,
         kgpu_call_sync(t, r, d)
  PROVE  Calls!Call(r)
<1>1. /\ AtRest(t, r) /\ d \in freedata /\ pending' = pending /\ errcode' = errcode
      /\ done' = [done EXCEPT ![d] = 0] /\ data' = [data EXCEPT ![t] = d]
      /\ pc' = [pc EXCEPT ![t] = "sync_enqueue"] /\ cur' = [cur EXCEPT ![t] = r]
  BY Zenon DEF kgpu_call_sync
<1>2. /\ pc[t] = "client" /\ pc \in [Threads -> PCs] /\ done \in [Data -> {0, 1}]
      /\ cur \in [Threads -> Requests \cup {NULL}] /\ data \in [Threads -> Data \cup {NULL}]
  BY <1>1, Zenon DEF AtRest, DeviceInv, TypeOK, KernelTypeOK
<1>3. \A u \in Threads : pc[u] \in InSync => data[u] \in Data \ freedata
  BY Zenon DEF DeviceInv, SyncInv
<1>4. /\ pc'[t] \in InSync /\ cur'[t] = r /\ done'[data'[t]] = 0
      /\ pc[t] \notin InSync
  BY <1>1, <1>2, Zenon DEF InSync
<1>5. \A u \in Threads \ {t} :
         /\ pc'[u] = pc[u] /\ cur'[u] = cur[u]
         /\ pc[u] \in InSync => done'[data'[u]] = done[data[u]]
  BY <1>1, <1>2, <1>3, Zenon
<1>6. Phase(r) = "rest" /\ \A u \in Threads : pc[u] \in InSync => cur[u] # r
  BY <1>1, OwnedIsNotInSync, Zenon
<1>7. Phase(r)' = "called"
  <2>1. r \notin pending'
    BY <1>1, Zenon DEF AtRest
  <2>2. \A u \in Threads : pc'[u] \in InSync /\ cur'[u] = r => u = t
    BY <1>5, <1>6, Zenon
  <2>3. done'[data'[t]] # 1
    BY <1>4, SMT
  <2>4. ~ \E u \in Threads : pc'[u] \in InSync /\ cur'[u] = r /\ done'[data'[u]] = 1
    BY <2>2, <2>3, Zenon
  <2>5. \E u \in Threads : pc'[u] \in InSync /\ cur'[u] = r
    BY <1>4, Zenon
  <2> QED BY <2>1, <2>4, <2>5, Zenon DEF Phase
<1>8. \A s \in Requests \ {r} : Phase(s)' = Phase(s) /\ errcode'[s] = errcode[s]
  <2> SUFFICES ASSUME NEW s \in Requests \ {r} PROVE Phase(s)' = Phase(s)
    BY <1>1, Zenon
  <2>1. s \in pending' <=> s \in pending
    BY <1>1, Zenon
  <2>2. \A u \in Threads : pc'[u] \in InSync /\ cur'[u] = s <=> pc[u] \in InSync /\ cur[u] = s
    BY <1>4, <1>5, Zenon
  <2>3. \A u \in Threads : pc[u] \in InSync /\ cur[u] = s =>
          (done'[data'[u]] = 1 <=> done[data[u]] = 1)
    BY <1>4, <1>5, Zenon
  <2> QED BY <2>1, <2>2, <2>3, SamePhase, Zenon
<1>9. /\ CallPhases' = [CallPhases EXCEPT ![r] = Phase(r)']
      /\ CallResults' = [CallResults EXCEPT ![r] =
                           IF Phase(r)' = "called" THEN NULL ELSE errcode'[r]]
      /\ CallPhases[r] = Phase(r)
  BY <1>8, SeenOn, Zenon
<1> QED BY <1>6, <1>7, <1>9, Zenon DEF Calls!Call

\* sync_return is the return of a call that has been answered.
LEMMA ReturnIsReturn ==
  ASSUME DeviceInv, NEW t \in Threads, NEW r \in Requests, cur[t] = r, sync_return(t)
  PROVE  Calls!Return(r)
<1>1. /\ pc[t] = "sync_return" /\ pending' = pending /\ errcode' = errcode /\ done' = done
      /\ data' = [data EXCEPT ![t] = NULL] /\ pc' = [pc EXCEPT ![t] = "client"]
      /\ cur' = [cur EXCEPT ![t] = NULL]
  BY Zenon DEF sync_return
<1>2. /\ pc \in [Threads -> PCs] /\ cur \in [Threads -> Requests \cup {NULL}]
      /\ data \in [Threads -> Data \cup {NULL}]
  BY Zenon DEF DeviceInv, TypeOK, KernelTypeOK
<1>3. pc[t] \in InSync /\ pc'[t] \notin InSync
  BY <1>1, <1>2, Zenon DEF InSync
<1>4. r \notin pending /\ done[data[t]] = 1
  BY <1>1, <1>3, Zenon DEF DeviceInv, SyncInv, DoneInv
<1>5. \A u \in Threads : pc[u] \in InSync /\ cur[u] = r => u = t
  BY <1>3, SMT DEF DeviceInv, SyncInv
<1>6. \A u \in Threads \ {t} : pc'[u] = pc[u] /\ cur'[u] = cur[u] /\ data'[u] = data[u]
  BY <1>1, <1>2, Zenon
<1>7. Phase(r) = "answered"
  BY <1>3, <1>4, PhaseOfSync, Zenon
<1>8. Phase(r)' = "rest"
  <2>1. r \notin pending'
    BY <1>1, <1>4, Zenon
  <2>2. ~ \E u \in Threads : pc'[u] \in InSync /\ cur'[u] = r
    BY <1>3, <1>5, <1>6, Zenon
  <2> QED BY <2>1, <2>2, Zenon DEF Phase
<1>9. \A s \in Requests \ {r} : Phase(s)' = Phase(s) /\ errcode'[s] = errcode[s]
  <2> SUFFICES ASSUME NEW s \in Requests \ {r} PROVE Phase(s)' = Phase(s)
    BY <1>1, Zenon
  <2>1. s \in pending' <=> s \in pending
    BY <1>1, Zenon
  <2>2. \A u \in Threads : pc'[u] \in InSync /\ cur'[u] = s <=> pc[u] \in InSync /\ cur[u] = s
    BY <1>3, <1>6, Zenon
  <2>3. \A u \in Threads : pc[u] \in InSync /\ cur[u] = s =>
          (done'[data'[u]] = 1 <=> done[data[u]] = 1)
    BY <1>1, <1>6, Zenon
  <2> QED BY <2>1, <2>2, <2>3, SamePhase, Zenon
<1>10. /\ CallPhases' = [CallPhases EXCEPT ![r] = Phase(r)']
       /\ CallPhases[r] = Phase(r)
  BY <1>9, SeenOn, Zenon
<1>11. CallResults' = CallResults
  <2> SUFFICES ASSUME NEW s \in Requests
               PROVE  (IF Phase(s)' = "called" THEN NULL ELSE errcode'[s])
                        = (IF Phase(s) = "called" THEN NULL ELSE errcode[s])
    BY Zenon DEF CallResults
  <2>1. CASE s = r
    BY <2>1, <1>1, <1>7, <1>8, Zenon
  <2>2. CASE s # r
    BY <2>2, <1>9, Zenon
  <2> QED BY <2>1, <2>2
<1> QED BY <1>7, <1>8, <1>10, <1>11, Zenon DEF Calls!Return

\* An async call is over, with the errcode of its answer, when its client's
\* callback runs.
LEMMA CallbackIsAnswer ==
  ASSUME DeviceInv, AnswerInv, NEW r \in Requests, wreq = r,
         invoke_callback, callback[r] \in ClientCallbacks
  PROVE  Calls!Answer(r)
<1>1. /\ wpc = "callback" /\ pending' = pending \ {r} /\ errcode' = errcode
      /\ done' = done /\ pc' = pc /\ cur' = cur /\ data' = data
  BY Zenon DEF invoke_callback, syncs, threads, ClientCallbacks
<1>2. errcode[r] \in ErrCodes
  BY <1>1, Zenon DEF AnswerInv
<1>3. r \in InFlight
  BY <1>1, Zenon DEF InFlight, InSyscall
<1>4. r \in pending
  <2>1. \A t \in Threads : pc[t] \in InSync => callback[cur[t]] = "sync_callback"
    BY Zenon DEF DeviceInv, SyncInv
  <2>2. callback[r] # "sync_callback"
    BY Zenon DEF ClientCallbacks
  <2>3. \A t \in Threads : AwaitedBy(t, r) => pc[t] \in InSync /\ cur[t] = r
    BY Zenon DEF AwaitedBy, InSync
  <2> QED BY <1>3, <2>1, <2>2, <2>3, Zenon DEF DeviceInv, FlightInv
<1>5. \A t \in Threads : pc[t] \in InSync => cur[t] # r
  BY <1>4, Zenon DEF DeviceInv, SyncInv
<1>6. Phase(r) = "called"
  BY <1>4, Zenon DEF Phase
<1>7. Phase(r)' = "rest"
  <2>1. r \notin pending'
    BY <1>1, Zenon
  <2>2. ~ \E u \in Threads : pc'[u] \in InSync /\ cur'[u] = r
    BY <1>1, <1>5, Zenon
  <2> QED BY <2>1, <2>2, Zenon DEF Phase
<1>8. \A s \in Requests \ {r} : Phase(s)' = Phase(s) /\ errcode'[s] = errcode[s]
  <2> SUFFICES ASSUME NEW s \in Requests \ {r} PROVE Phase(s)' = Phase(s)
    BY <1>1, Zenon
  <2>1. s \in pending' <=> s \in pending
    BY <1>1, Zenon
  <2> QED BY <1>1, <2>1, SamePhase, Zenon
<1>9. /\ CallPhases' = [CallPhases EXCEPT ![r] = Phase(r)']
      /\ CallResults' = [CallResults EXCEPT ![r] =
                           IF Phase(r)' = "called" THEN NULL ELSE errcode'[r]]
      /\ CallPhases[r] = Phase(r)
  BY <1>8, SeenOn, Zenon
<1>10. CallResults' = [CallResults EXCEPT ![r] = errcode[r]]
  <2>1. (IF Phase(r)' = "called" THEN NULL ELSE errcode'[r]) = errcode[r]
    BY <1>1, <1>7, Zenon
  <2> QED BY <1>9, <2>1, Zenon
<1> QED BY <1>2, <1>6, <1>7, <1>9, <1>10, Zenon DEF Calls!Answer

\* A sync call is answered when sync_callback sets done.
LEMMA DoneIsAnswer ==
  ASSUME DeviceInv, AnswerInv, NEW r \in Requests, wreq = r, set_done
  PROVE  Calls!Answer(r)
<1>1. /\ wpc = "set_done" /\ done' = [d \in Data |-> IF d = wdata THEN 1 ELSE done[d]]
      /\ pending' = pending /\ errcode' = errcode /\ pc' = pc /\ cur' = cur /\ data' = data
  BY Zenon DEF set_done, objects, threads
<1>2. errcode[r] \in ErrCodes
  BY <1>1, Zenon DEF AnswerInv
<1>3. PICK t \in Threads : AwaitedBy(t, r) /\ data[t] = wdata
  BY <1>1, Zenon DEF DeviceInv, SyscallInv
<1>4. pc[t] \in InSync /\ cur[t] = r /\ done[data[t]] = 0
  BY <1>3, Zenon DEF AwaitedBy, InSync
<1>5. r \notin pending /\ data[t] \in Data
  BY <1>4, Zenon DEF DeviceInv, SyncInv
<1>6. \A u \in Threads : pc[u] \in InSync =>
         /\ data[u] \in Data /\ owner[cur[u]] = u
         /\ data[u] = data[t] => u = t
  BY <1>4, Zenon DEF DeviceInv, SyncInv, DataInv
<1>7. Phase(r) = "called"
  <2>1. Phase(r) = IF done[data[t]] = 1 THEN "answered" ELSE "called"
    BY <1>4, PhaseOfSync, Zenon
  <2> QED BY <1>4, <2>1, SMT
<1>8. Phase(r)' = "answered"
  <2>1. done'[data'[t]] = 1
    BY <1>1, <1>3, <1>5, Zenon
  <2>2. r \notin pending' /\ pc'[t] \in InSync /\ cur'[t] = r
    BY <1>1, <1>4, <1>5, Zenon
  <2> QED BY <2>1, <2>2, Zenon DEF Phase
<1>9. \A s \in Requests \ {r} : Phase(s)' = Phase(s) /\ errcode'[s] = errcode[s]
  <2> SUFFICES ASSUME NEW s \in Requests \ {r} PROVE Phase(s)' = Phase(s)
    BY <1>1, Zenon
  <2>1. \A u \in Threads : pc[u] \in InSync /\ cur[u] = s => done'[data'[u]] = done[data[u]]
    BY <1>1, <1>3, <1>4, <1>6, Zenon
  <2> QED BY <1>1, <2>1, SamePhase, Zenon
<1>10. /\ CallPhases' = [CallPhases EXCEPT ![r] = Phase(r)']
       /\ CallResults' = [CallResults EXCEPT ![r] =
                            IF Phase(r)' = "called" THEN NULL ELSE errcode'[r]]
       /\ CallPhases[r] = Phase(r)
  BY <1>9, SeenOn, Zenon
<1>11. CallResults' = [CallResults EXCEPT ![r] = errcode[r]]
  <2>1. (IF Phase(r)' = "called" THEN NULL ELSE errcode'[r]) = errcode[r]
    BY <1>1, <1>8, Zenon
  <2> QED BY <1>10, <2>1, Zenon
<1> QED BY <1>2, <1>7, <1>8, <1>10, <1>11, Zenon DEF Calls!Answer

\* An allocation constructs the request, or is none of the client's calls.
LEMMA AllocIsConstruct ==
  ASSUME DeviceInv, NEW t \in Threads, NEW r \in Requests, NEW cb \in ClientCallbacks,
         kgpu_alloc_request(t, r, cb)
  PROVE  Calls!Construct(r) \/ UNCHANGED <<CallPhases, CallResults>>
<1>1. /\ owner[r] = NULL /\ pending' = pending /\ done' = done
      /\ pc' = pc /\ cur' = cur /\ data' = data
  BY Zenon DEF kgpu_alloc_request, syncs, threads
<1>2. \A s \in Requests : Phase(s)' = Phase(s)
  BY <1>1, SamePhases, Zenon
<1>3. CASE errcode' = errcode
  BY <1>2, <1>3, Unseen, Zenon
<1>4. CASE errcode' = [errcode EXCEPT ![r] = 0]
  <2>1. errcode \in [Requests -> Nat]
    BY Zenon DEF DeviceInv, TypeOK, KernelTypeOK
  <2>2. errcode'[r] = 0 /\ \A s \in Requests \ {r} : errcode'[s] = errcode[s]
    BY <1>4, <2>1, Zenon
  <2>3. /\ CallResults' = [CallResults EXCEPT ![r] =
                             IF Phase(r)' = "called" THEN NULL ELSE errcode'[r]]
        /\ CallPhases[r] = Phase(r)
    BY <1>2, <2>2, SeenOn, Zenon
  <2>4. Phase(r) = "rest"
    BY <1>1, FreeIsAtRest, Zenon
  <2>5. (IF Phase(r)' = "called" THEN NULL ELSE errcode'[r]) = 0
    BY <1>2, <2>2, <2>4, Zenon
  <2>6. CallPhases' = CallPhases
    BY <1>2, Zenon DEF CallPhases
  <2> QED BY <2>3, <2>4, <2>5, <2>6, Zenon DEF Calls!Construct
<1> QED BY <1>3, <1>4, Zenon DEF kgpu_alloc_request, ConstructRequest

\* The other steps of a thread are not seen by the clients.
LEMMA ThreadUnseen ==
  ASSUME DeviceInv, NEW t \in Threads,
         \/ async_enqueue(t) \/ sync_enqueue(t) \/ sync_wait(t)
         \/ \E r \in Requests : \/ kgpu_free_request(t, r) \/ RenewId(t, r)
                                \/ \E d \in Data : kgpu_call_sync_nomem(t, r, d)
  PROVE  UNCHANGED <<CallPhases, CallResults>>
<1>1. pending' = pending /\ done' = done /\ errcode' = errcode /\ data' = data
  BY Zenon DEF async_enqueue, sync_enqueue, sync_wait, kgpu_free_request, RenewId,
               kgpu_call_sync_nomem, objects, syncs, threads
<1>2. pc \in [Threads -> PCs] /\ cur \in [Threads -> Requests \cup {NULL}]
  BY Zenon DEF DeviceInv, TypeOK, KernelTypeOK
<1>3. \/ pc' = pc /\ cur' = cur
      \/ /\ pc[t] = "async_enqueue" /\ pc' = [pc EXCEPT ![t] = "client"]
         /\ cur' = [cur EXCEPT ![t] = NULL]
      \/ /\ pc[t] \in {"sync_enqueue", "sync_wait"} /\ cur' = cur
         /\ \E p \in {"sync_wait", "sync_return", "sync_sleep"} : pc' = [pc EXCEPT ![t] = p]
  BY Zenon DEF async_enqueue, sync_enqueue, sync_wait, kgpu_free_request, RenewId,
               kgpu_call_sync_nomem, threads
<1>4. \A u \in Threads : /\ pc'[u] \in InSync <=> pc[u] \in InSync
                         /\ pc[u] \in InSync => cur'[u] = cur[u]
  BY <1>2, <1>3, Zenon DEF InSync
<1>5. \A s \in Requests : Phase(s)' = Phase(s)
  BY <1>1, <1>4, SamePhases, Zenon
<1> QED BY <1>1, <1>5, Unseen, Zenon

\* An answer stores its errcode while the call is under way.
LEMMA AnswerUnseen ==
  ASSUME DeviceInv, NEW rid, NEW err, kgpu_write(rid, err)
  PROVE  UNCHANGED <<CallPhases, CallResults>>
<1>1. PICK i \in DOMAIN rtdreqs : errcode' = [errcode EXCEPT ![rtdreqs[i]] = err]
  BY Zenon DEF kgpu_write
<1>2. pending' = pending /\ done' = done /\ pc' = pc /\ cur' = cur /\ data' = data
  BY Zenon DEF kgpu_write, syncs, threads
<1>3. \A s \in Requests : Phase(s)' = Phase(s)
  BY <1>2, SamePhases, Zenon
<1>4. errcode \in [Requests -> Nat]
  BY Zenon DEF DeviceInv, TypeOK, KernelTypeOK
<1>5. \A s \in Requests : s = rtdreqs[i] \/ errcode'[s] = errcode[s]
  BY <1>1, <1>4, Zenon
<1>6. rtdreqs[i] \in InFlight
  BY Zenon DEF InFlight, Range
<1>7. Phase(rtdreqs[i]) = "called"
  <2>1. CASE rtdreqs[i] \in pending
    BY <2>1, Zenon DEF Phase
  <2>2. CASE \E t \in Threads : AwaitedBy(t, rtdreqs[i])
    <3>1. PICK t \in Threads : AwaitedBy(t, rtdreqs[i])
      BY <2>2
    <3>2. pc[t] \in InSync /\ cur[t] = rtdreqs[i] /\ done[data[t]] # 1
      BY <3>1, SMT DEF AwaitedBy, InSync
    <3> QED BY <3>2, PhaseOfSync, Zenon
  <2> QED BY <1>6, <2>1, <2>2, Zenon DEF DeviceInv, FlightInv
<1>8. \A s \in Requests : Phase(s) = "called" \/ errcode'[s] = errcode[s]
  BY <1>5, <1>7, Zenon
<1> QED BY <1>3, <1>8, Unseen, Zenon

\* Nor are the other steps of the helper.
LEMMA HelperUnseen ==
  ASSUME DeviceInv,
         \/ read_return \/ sync_callback \/ wake_up \/ kgpu_read
         \/ terminate_all_requests \/ UNCHANGED kvars
         \/ invoke_callback /\ callback[wreq] \notin ClientCallbacks
  PROVE  UNCHANGED <<CallPhases, CallResults>>
<1>1. pending' = pending /\ done' = done /\ errcode' = errcode /\ cur' = cur /\ data' = data
  BY Zenon DEF read_return, sync_callback, wake_up, kgpu_read, terminate_all_requests,
               invoke_callback, kvars, objects, syncs, threads
<1>2. pc \in [Threads -> PCs]
  BY Zenon DEF DeviceInv, TypeOK, KernelTypeOK
<1>3. \/ pc' = pc
      \/ pc' = [t \in Threads |-> IF pc[t] = "sync_sleep" /\ data[t] = wdata
                                  THEN "sync_wait" ELSE pc[t]]
  BY Zenon DEF read_return, sync_callback, wake_up, kgpu_read, terminate_all_requests,
               invoke_callback, kvars, threads
<1>4. \A u \in Threads : pc'[u] \in InSync <=> pc[u] \in InSync
  BY <1>2, <1>3, Zenon DEF InSync
<1>5. \A s \in Requests : Phase(s)' = Phase(s)
  BY <1>1, <1>4, SamePhases, Zenon
<1> QED BY <1>1, <1>5, Unseen, Zenon

\* Every step of the transport is a step of KgpuCalls, or not seen.
LEMMA StepImplements ==
  ASSUME DeviceInv, AnswerInv, [Next]_vars
  PROVE  [Calls!Next]_<<CallPhases, CallResults>>
<1> DEFINE Seen == Calls!Next \/ UNCHANGED <<CallPhases, CallResults>>
<1>1. ASSUME NEW t \in Threads, InCall(t) PROVE Seen
  <2>1. CASE sync_return(t)
    <3>1. PICK r \in Requests : cur[t] = r
      BY <2>1, Zenon DEF sync_return, DeviceInv, SyncInv, InSync
    <3> QED BY <2>1, <3>1, ReturnIsReturn, Zenon DEF Calls!Next
  <2> QED BY <1>1, <2>1, ThreadUnseen, Zenon DEF InCall
<1>2. ASSUME NEW t \in Threads, BetweenCalls(t) PROVE Seen
  <2>1. PICK r \in Requests :
          \/ \E cb \in ClientCallbacks : kgpu_alloc_request(t, r, cb)
          \/ kgpu_free_request(t, r)
          \/ RenewId(t, r)
          \/ kgpu_call_async(t, r)
          \/ \E d \in Data : kgpu_call_sync(t, r, d) \/ kgpu_call_sync_nomem(t, r, d)
    BY <1>2, Zenon DEF BetweenCalls
  <2>2. CASE \E cb \in ClientCallbacks : kgpu_alloc_request(t, r, cb)
    BY <2>2, AllocIsConstruct, Zenon DEF Calls!Next
  <2>3. CASE kgpu_call_async(t, r)
    BY <2>3, AsyncIsCall, Zenon DEF Calls!Next
  <2>4. CASE \E d \in Data : kgpu_call_sync(t, r, d)
    BY <2>4, SyncIsCall, Zenon DEF Calls!Next
  <2> QED BY <2>1, <2>2, <2>3, <2>4, ThreadUnseen, Zenon
<1>3. CASE SyscallStep
  <2>1. wpc \in {"callback", "set_done"} => wreq \in Requests
    BY Zenon DEF DeviceInv, SyscallInv
  <2>2. CASE invoke_callback /\ callback[wreq] \in ClientCallbacks
    <3>1. PICK r \in Requests : wreq = r
      BY <2>1, <2>2, Zenon DEF invoke_callback
    <3> QED BY <2>2, <3>1, CallbackIsAnswer, Zenon DEF Calls!Next
  <2>3. CASE set_done
    <3>1. PICK r \in Requests : wreq = r
      BY <2>1, <2>3, Zenon DEF set_done
    <3> QED BY <2>3, <3>1, DoneIsAnswer, Zenon DEF Calls!Next
  <2> QED BY <1>3, <2>2, <2>3, HelperUnseen, Zenon DEF SyscallStep
<1>4. ASSUME NEW i \in DOMAIN held, NEW err \in ErrCodes, HelperAnswers(i, err) PROVE Seen
  BY <1>4, AnswerUnseen, Zenon DEF HelperAnswers
<1>5. CASE HelperReads \/ HelperStops
  BY <1>5, HelperUnseen, Zenon DEF HelperReads, HelperStops
<1>6. CASE HelperDies \/ HelperStarts \/ \E i \in DOMAIN held : HelperAborts(i)
  <2>1. UNCHANGED kvars
    BY <1>6, Zenon DEF HelperDies, HelperStarts, HelperAborts
  <2> QED BY <2>1, HelperUnseen, Zenon
<1>7. CASE UNCHANGED vars
  <2>1. UNCHANGED kvars
    BY <1>7, Zenon DEF vars
  <2> QED BY <2>1, HelperUnseen, Zenon
<1> QED BY <1>1, <1>2, <1>3, <1>4, <1>5, <1>6, <1>7, Zenon DEF Next, ThreadStep

\* Nobody writes the errcode of a request that kgpu_write is working on.
LEMMA AnswerKept ==
  ASSUME DeviceInv, AnswerInv, [Next]_vars
  PROVE  AnswerInv'
<1> DEFINE Answering == {"callback", "sync_callback", "set_done"}
<1>1. wpc \in Answering => wreq \in Requests /\ owner[wreq] # NULL
  <2>1. wpc \in {"callback", "sync_callback"} => wreq \in InFlight
    BY Zenon DEF InFlight, InSyscall
  <2>2. RequestsStayAllocated
    BY InvImplies, Zenon
  <2>3. ASSUME wpc = "set_done" PROVE owner[wreq] # NULL
    <3>1. PICK t \in Threads : AwaitedBy(t, wreq)
      BY <2>3, Zenon DEF DeviceInv, SyscallInv
    <3>2. pc[t] \in InSync /\ cur[t] = wreq
      BY <3>1, Zenon DEF AwaitedBy, InSync
    <3>3. owner[wreq] = t
      BY <3>2, Zenon DEF DeviceInv, SyncInv
    <3> QED BY <3>3, KernelAssumption, Zenon
  <2>4. wpc \in Answering => wreq \in Requests
    BY Zenon DEF DeviceInv, SyscallInv
  <2> QED BY <2>1, <2>2, <2>3, <2>4, Zenon DEF RequestsStayAllocated
<1>2. errcode \in [Requests -> Nat]
  BY Zenon DEF DeviceInv, TypeOK, KernelTypeOK
<1>3. ASSUME wpc' \in Answering => wpc \in Answering /\ wreq' = wreq,
             errcode' = errcode
      PROVE  AnswerInv'
  BY <1>3, Zenon DEF AnswerInv
<1>4. ASSUME NEW t \in Threads, NEW r \in Requests, NEW cb \in ClientCallbacks,
             kgpu_alloc_request(t, r, cb)
      PROVE  AnswerInv'
  <2>1. /\ owner[r] = NULL /\ wpc' = wpc /\ wreq' = wreq
        /\ errcode' = errcode \/ errcode' = [errcode EXCEPT ![r] = 0]
    BY <1>4, Zenon DEF kgpu_alloc_request, ConstructRequest, syscall
  <2>2. wpc \in Answering => errcode'[wreq] = errcode[wreq]
    BY <1>1, <1>2, <2>1, Zenon
  <2> QED BY <2>1, <2>2, Zenon DEF AnswerInv
<1>5. ASSUME NEW i \in DOMAIN held, NEW err \in ErrCodes, HelperAnswers(i, err)
      PROVE  AnswerInv'
  <2>1. PICK j \in DOMAIN rtdreqs : /\ errcode' = [errcode EXCEPT ![rtdreqs[j]] = err]
                                    /\ wreq' = rtdreqs[j]
    BY <1>5, Zenon DEF HelperAnswers, kgpu_write
  <2>2. rtdreqs[j] \in Requests
    <3>1. rtdreqs \in Seq(Requests)
      BY Types, Zenon
    <3> QED BY <3>1, SMT
  <2>3. errcode'[wreq'] = err
    BY <1>2, <2>1, <2>2, Zenon
  <2> QED BY <2>3, Zenon DEF AnswerInv
<1>6. ASSUME NEW t \in Threads, InCall(t) PROVE AnswerInv'
  BY <1>3, <1>6, Zenon DEF InCall, async_enqueue, sync_enqueue, sync_wait, sync_return,
                          objects, syscall
<1>7. ASSUME NEW t \in Threads, BetweenCalls(t) PROVE AnswerInv'
  BY <1>3, <1>4, <1>7, Zenon DEF BetweenCalls, kgpu_free_request, RenewId, kgpu_call_async,
                          kgpu_call_sync, kgpu_call_sync_nomem, objects, syscall
<1>8. CASE SyscallStep
  <2>1. errcode' = errcode
    BY <1>8, Zenon DEF SyscallStep, read_return, invoke_callback, sync_callback, set_done,
                       wake_up, objects
  <2>2. wpc' \in Answering => wpc \in Answering /\ wreq' = wreq
    BY <1>8, Zenon DEF SyscallStep, read_return, invoke_callback, sync_callback, set_done,
                     wake_up
  <2> QED BY <1>3, <2>1, <2>2, Zenon
<1>9. CASE HelperReads \/ HelperStops
  <2>1. errcode' = errcode
    BY <1>9, Zenon DEF HelperReads, HelperStops, kgpu_read, terminate_all_requests, objects
  <2>2. wpc' \in Answering => wpc \in Answering /\ wreq' = wreq
    BY <1>9, Zenon DEF HelperReads, HelperStops, kgpu_read, terminate_all_requests, syscall
  <2> QED BY <1>3, <2>1, <2>2, Zenon
<1>10. CASE HelperDies \/ HelperStarts \/ (\E i \in DOMAIN held : HelperAborts(i))
              \/ UNCHANGED vars
  <2>1. UNCHANGED kvars
    BY <1>10, Zenon DEF HelperDies, HelperStarts, HelperAborts, vars
  <2> QED BY <1>3, <2>1, Zenon DEF kvars, objects, syscall
<1> QED BY <1>5, <1>6, <1>7, <1>8, <1>9, <1>10, Zenon DEF Next, ThreadStep

\* The transport implements KgpuCalls, for any threads, requests and data
\* objects, if no signal ends a sync call and the ids do not wrap: every call is
\* answered at most once, with one of the helper's error codes, sync calls
\* return after that, and the errcode then stays until the next call.
THEOREM TransportImplementsCalls ==
  ASSUME MaxIds <= MaxInt
  PROVE  Spec => ImplementsCalls
<1>1. Init => AnswerInv /\ Calls!Init
  <2> SUFFICES ASSUME Init PROVE AnswerInv /\ Calls!Init
    OBVIOUS
  <2>1. wpc = "user" /\ pending = {} /\ errcode = [r \in Requests |-> 0]
          /\ pc = [t \in Threads |-> "client"]
    BY Zenon DEF Init, KernelInit
  <2>2. \A t \in Threads : pc[t] \notin InSync
    BY <2>1, Zenon DEF InSync
  <2>3. \A r \in Requests : Phase(r) = "rest"
    BY <2>1, <2>2, PhaseAtRest, Zenon
  <2>4. CallPhases = [r \in Requests |-> "rest"]
    BY <2>3, Zenon DEF CallPhases
  <2>5. \A r \in Requests : (IF Phase(r) = "called" THEN NULL ELSE errcode[r]) = 0
    BY <2>1, <2>3, Zenon
  <2>6. CallResults = [r \in Requests |-> 0]
    BY <2>5, Zenon DEF CallResults
  <2>7. AnswerInv
    BY <2>1, Zenon DEF AnswerInv
  <2> QED BY <2>4, <2>6, <2>7, Zenon DEF Calls!Init
<1>2. DeviceInv /\ AnswerInv /\ [Next]_vars => AnswerInv'
  BY AnswerKept, Zenon
<1>3. DeviceInv /\ AnswerInv /\ [Next]_vars => [Calls!Next]_<<CallPhases, CallResults>>
  BY StepImplements, Zenon
<1> QED
  BY <1>1, <1>2, <1>3, DeviceSafe, PTL DEF Spec, ImplementsCalls, Calls!Spec

-----------------------------------------------------------------------------
(***************************************************************************)
(* What signals cannot break: for any threads, requests and data objects,  *)
(* and any number of interrupted calls, no wake-up of kgpu_call_sync is    *)
(* lost.                                                                   *)
(***************************************************************************)

\* Nobody is in a call when the module has been loaded.
LEMMA WakeupInit == Init => WakeupInv
BY PCFacts, ZenonT(60) DEF Init, KernelInit, WakeupInv, DataInv, NoLostWakeup, PCs, InSync

\* A step that leaves the sync calls alone.
LEMMA NotSync ==
  ASSUME WakeupInv, UNCHANGED <<pc, data, done, freedata>>,
         wpc # "wake" \/ UNCHANGED <<wpc, wdata>>
  PROVE  WakeupInv'
<1>1. DataInv'
  BY Zenon DEF WakeupInv, DataInv
<1>2. NoLostWakeup'
  BY Zenon DEF WakeupInv, NoLostWakeup
<1> QED BY <1>1, <1>2, Zenon DEF WakeupInv

\* A thread that moves on in its call, but does not go to sleep.
LEMMA Moves ==
  ASSUME WakeupInv, NEW t \in Threads, NEW to \in PCs \ {"sync_sleep"},
         pc' = [pc EXCEPT ![t] = to],
         to \in InSync => pc[t] \in InSync,
         UNCHANGED <<data, done, freedata, wpc, wdata>>
  PROVE  WakeupInv'
<1>1. /\ pc' \in [Threads -> PCs] /\ pc'[t] = to
      /\ \A u \in Threads \ {t} : pc'[u] = pc[u]
  BY Zenon DEF WakeupInv
<1>2. \A u \in Threads : pc'[u] \in InSync => pc[u] \in InSync
  BY <1>1, Zenon
<1>3. \A u \in Threads : pc'[u] = "sync_sleep" => pc[u] = "sync_sleep"
  BY <1>1, Zenon
<1>4. DataInv'
  BY <1>2, Zenon DEF WakeupInv, DataInv
<1>5. NoLostWakeup'
  BY <1>3, Zenon DEF WakeupInv, NoLostWakeup
<1> QED BY <1>1, <1>2, <1>4, <1>5, Zenon DEF WakeupInv

\* kgpu_call_sync takes data that no other call has, and clears done.
LEMMA SyncCallStep ==
  ASSUME WakeupInv, NEW t \in Threads, NEW r \in Requests, NEW d \in Data,
         kgpu_call_sync(t, r, d)
  PROVE  WakeupInv'
<1>1. /\ pc[t] = "client" /\ d \in freedata
      /\ pc' = [pc EXCEPT ![t] = "sync_enqueue"]
      /\ data' = [data EXCEPT ![t] = d]
      /\ done' = [done EXCEPT ![d] = 0]
      /\ freedata' = freedata \ {d}
      /\ UNCHANGED <<wpc, wdata>>
  BY Zenon DEF kgpu_call_sync, AtRest, syscall
<1>2. /\ pc' \in [Threads -> PCs] /\ data' \in [Threads -> Data \cup {NULL}]
      /\ done' \in [Data -> {0, 1}] /\ freedata' \subseteq Data
      /\ pc'[t] = "sync_enqueue" /\ data'[t] = d
      /\ \A u \in Threads \ {t} : pc'[u] = pc[u] /\ data'[u] = data[u]
  BY <1>1, Zenon DEF WakeupInv, PCs, InSync
<1>3. ASSUME NEW u \in Threads \ {t}, pc[u] \in InSync
      PROVE  data[u] \in Data \ freedata /\ data[u] # d
  BY <1>1, <1>3, Zenon DEF WakeupInv
<1>4. \A u \in Threads : pc'[u] \in InSync => data'[u] \in Data \ freedata'
  BY <1>1, <1>2, <1>3, Zenon
<1>5. DataInv'
  BY <1>2, <1>3, ZenonT(30) DEF WakeupInv, DataInv
<1>6. NoLostWakeup'
  <2> SUFFICES ASSUME NEW u \in Threads, pc'[u] = "sync_sleep", done'[data'[u]] = 1
               PROVE  wpc' = "wake" /\ wdata' = data'[u]
    BY Zenon DEF NoLostWakeup
  <2>1. u # t
    BY <1>2, Zenon
  <2>2. pc[u] = "sync_sleep" /\ data'[u] = data[u] /\ pc[u] \in InSync
    BY <1>2, <2>1, Zenon DEF InSync
  <2>3. data[u] \in Data /\ data[u] # d
    BY <1>3, <2>1, <2>2, Zenon
  <2>4. done[data[u]] = 1
    BY <1>1, <2>2, <2>3, Zenon DEF WakeupInv
  <2> QED BY <1>1, <2>2, <2>4, Zenon DEF WakeupInv, NoLostWakeup
<1> QED BY <1>2, <1>4, <1>5, <1>6, Zenon DEF WakeupInv

\* wait_event_interruptible sleeps only if done is not set.
LEMMA SleepStep ==
  ASSUME WakeupInv, NEW t \in Threads, sync_wait(t)
  PROVE  WakeupInv'
<1>1. UNCHANGED <<data, done, freedata, wpc, wdata>> /\ pc[t] = "sync_wait"
  BY Zenon DEF sync_wait, syncs, syscall
<1>2. CASE done[data[t]] = 1
  <2>1. pc' = [pc EXCEPT ![t] = "sync_return"]
    BY <1>2, Zenon DEF sync_wait
  <2>2. "sync_return" \in PCs \ {"sync_sleep"} /\ pc[t] \in InSync
    BY <1>1, Zenon DEF PCs, InSync
  <2> QED BY <1>1, <2>1, <2>2, Moves, Zenon
<1>3. CASE done[data[t]] # 1
  <2>1. pc' = [pc EXCEPT ![t] = "sync_sleep"]
    BY <1>3, Zenon DEF sync_wait
  <2>2. /\ pc' \in [Threads -> PCs] /\ pc'[t] = "sync_sleep" /\ pc[t] \in InSync
        /\ \A u \in Threads \ {t} : pc'[u] = pc[u]
    BY <1>1, <2>1, Zenon DEF WakeupInv, PCs, InSync
  <2>3. \A u \in Threads : pc'[u] \in InSync => pc[u] \in InSync
    BY <2>2, Zenon
  <2>4. DataInv'
    BY <1>1, <2>3, Zenon DEF WakeupInv, DataInv
  <2>5. NoLostWakeup'
    BY <1>1, <1>3, <2>2, Zenon DEF WakeupInv, NoLostWakeup
  <2> QED BY <1>1, <2>2, <2>3, <2>4, <2>5, Zenon DEF WakeupInv
<1> QED BY <1>2, <1>3, Zenon

\* kgpu_call_sync gives back its own data: no other call's.
LEMMA DataGivenBack ==
  ASSUME WakeupInv, NEW t \in Threads, sync_return(t)
  PROVE  WakeupInv'
<1>1. /\ pc[t] = "sync_return"
      /\ pc' = [pc EXCEPT ![t] = "client"]
      /\ data' = [data EXCEPT ![t] = NULL]
      /\ freedata' = freedata \cup {data[t]}
      /\ UNCHANGED <<done, wpc, wdata>>
  BY Zenon DEF sync_return, syscall
<1>2. pc[t] \in InSync /\ data[t] \in Data
  BY <1>1, Zenon DEF WakeupInv, InSync
<1>3. /\ pc' \in [Threads -> PCs] /\ data' \in [Threads -> Data \cup {NULL}]
      /\ freedata' \subseteq Data
      /\ pc'[t] \notin InSync
      /\ \A u \in Threads \ {t} : pc'[u] = pc[u] /\ data'[u] = data[u]
  BY <1>1, <1>2, Zenon DEF WakeupInv, PCs, InSync
<1>4. ASSUME NEW u \in Threads, pc'[u] \in InSync
      PROVE  u # t /\ pc[u] \in InSync /\ data'[u] = data[u] /\ data[u] # data[t]
  BY <1>2, <1>3, <1>4, Zenon DEF WakeupInv, DataInv
<1>5. \A u \in Threads : pc'[u] \in InSync => data'[u] \in Data \ freedata'
  BY <1>1, <1>4, Zenon DEF WakeupInv
<1>6. DataInv'
  BY <1>4, Zenon DEF WakeupInv, DataInv
<1>7. NoLostWakeup'
  <2> SUFFICES ASSUME NEW u \in Threads, pc'[u] = "sync_sleep", done'[data'[u]] = 1
               PROVE  wpc' = "wake" /\ wdata' = data'[u]
    BY Zenon DEF NoLostWakeup
  <2>1. pc'[u] \in InSync
    BY Zenon DEF InSync
  <2> QED BY <1>1, <1>3, <1>4, <2>1, Zenon DEF WakeupInv, NoLostWakeup
<1> QED BY <1>1, <1>3, <1>5, <1>6, <1>7, Zenon DEF WakeupInv

\* sync_callback sets done, whoever has the data by now, and is going to wake
\* the thread that sleeps on it.
LEMMA SetDoneStep == WakeupInv /\ set_done => WakeupInv'
<1> SUFFICES ASSUME WakeupInv, set_done PROVE WakeupInv'
  OBVIOUS
<1>1. /\ wpc = "set_done" /\ wpc' = "wake"
      /\ done' = [d \in Data |-> IF d = wdata THEN 1 ELSE done[d]]
      /\ UNCHANGED <<pc, data, freedata, wdata>>
  BY Zenon DEF set_done, threads
<1>2. done' \in [Data -> {0, 1}]
  BY <1>1, Zenon DEF WakeupInv
<1>3. DataInv'
  BY <1>1, Zenon DEF WakeupInv, DataInv
<1>4. NoLostWakeup'
  <2> SUFFICES ASSUME NEW u \in Threads, pc[u] = "sync_sleep", done'[data[u]] = 1
               PROVE  data[u] = wdata
    BY <1>1, Zenon DEF NoLostWakeup
  <2>1. data[u] \in Data
    BY Zenon DEF WakeupInv, InSync
  <2>2. done[data[u]] # 1
    BY <1>1, Zenon DEF WakeupInv, NoLostWakeup
  <2> QED BY <1>1, <2>1, <2>2, Zenon
<1> QED BY <1>1, <1>2, <1>3, <1>4, Zenon DEF WakeupInv

\* wake_up_interruptible leaves nobody asleep on the data.
LEMMA SleeperWakes == WakeupInv /\ wake_up => WakeupInv'
<1> SUFFICES ASSUME WakeupInv, wake_up PROVE WakeupInv'
  OBVIOUS
<1>1. /\ pc' = [t \in Threads |-> IF pc[t] = "sync_sleep" /\ data[t] = wdata
                                  THEN "sync_wait" ELSE pc[t]]
      /\ UNCHANGED <<data, done, freedata>>
  BY Zenon DEF wake_up, syncs
<1>2. \A u \in Threads :
        pc'[u] = IF pc[u] = "sync_sleep" /\ data[u] = wdata THEN "sync_wait" ELSE pc[u]
  BY <1>1, Zenon
<1>3. pc' \in [Threads -> PCs] /\ \A u \in Threads : pc'[u] \in InSync => pc[u] \in InSync
  BY <1>1, <1>2, Zenon DEF WakeupInv, PCs, InSync
<1>4. DataInv'
  BY <1>1, <1>3, Zenon DEF WakeupInv, DataInv
<1>5. NoLostWakeup'
  <2> SUFFICES ASSUME NEW u \in Threads, pc'[u] = "sync_sleep", done[data[u]] = 1
               PROVE  FALSE
    BY <1>1, Zenon DEF NoLostWakeup
  <2>1. pc[u] = "sync_sleep" /\ data[u] # wdata
    BY <1>2, Zenon
  <2> QED BY <2>1, Zenon DEF WakeupInv, NoLostWakeup
<1> QED BY <1>1, <1>3, <1>4, <1>5, Zenon DEF WakeupInv

\* Every step keeps the invariant, those of signals included.
LEMMA WakeupNext == WakeupInv /\ [SignalNext]_vars => WakeupInv'
<1> SUFFICES ASSUME WakeupInv, [SignalNext]_vars PROVE WakeupInv'
  OBVIOUS
<1>1. ASSUME NEW t \in Threads, Signal(t) PROVE WakeupInv'
  <2>1. /\ pc[t] \in {"sync_wait", "sync_sleep"}
        /\ pc' = [pc EXCEPT ![t] = "sync_return"]
        /\ UNCHANGED <<data, done, freedata, wpc, wdata>>
    BY <1>1, Zenon DEF Signal, sync_interrupted, syncs, syscall
  <2>2. pc[t] \in InSync /\ "sync_return" \in PCs \ {"sync_sleep"}
    BY <2>1, Zenon DEF InSync, PCs
  <2> QED BY <2>1, <2>2, Moves, Zenon
<1>2. ASSUME NEW t \in Threads, InCall(t) PROVE WakeupInv'
  <2>1. CASE async_enqueue(t)
    <3>1. /\ pc' = [pc EXCEPT ![t] = "client"]
          /\ UNCHANGED <<data, done, freedata, wpc, wdata>>
      BY <2>1, Zenon DEF async_enqueue, syncs, syscall
    <3>2. "client" \in PCs \ {"sync_sleep"} /\ "client" \notin InSync
      BY Zenon DEF PCs, InSync
    <3> QED BY <3>1, <3>2, Moves, Zenon
  <2>2. CASE sync_enqueue(t)
    <3>1. /\ pc' = [pc EXCEPT ![t] = "sync_wait"] /\ pc[t] = "sync_enqueue"
          /\ UNCHANGED <<data, done, freedata, wpc, wdata>>
      BY <2>2, Zenon DEF sync_enqueue, syncs, syscall
    <3>2. "sync_wait" \in PCs \ {"sync_sleep"} /\ pc[t] \in InSync
      BY <3>1, Zenon DEF PCs, InSync
    <3> QED BY <3>1, <3>2, Moves, Zenon
  <2> QED BY <1>2, <2>1, <2>2, SleepStep, DataGivenBack, Zenon DEF InCall
<1>3. ASSUME NEW t \in Threads, NEW r \in Requests,
             \/ \E cb \in ClientCallbacks : kgpu_alloc_request(t, r, cb)
             \/ kgpu_free_request(t, r) \/ RenewId(t, r)
      PROVE  WakeupInv'
  <2>1. UNCHANGED <<pc, data, done, freedata, wpc, wdata>>
    BY <1>3, Zenon DEF kgpu_alloc_request, kgpu_free_request, RenewId, syncs, threads,
                       syscall
  <2> QED BY <2>1, NotSync, Zenon
<1>4. ASSUME NEW t \in Threads, NEW r \in Requests, kgpu_call_async(t, r)
      PROVE  WakeupInv'
  <2>1. /\ pc' = [pc EXCEPT ![t] = "async_enqueue"]
        /\ UNCHANGED <<data, done, freedata, wpc, wdata>>
    BY <1>4, Zenon DEF kgpu_call_async, syncs, syscall
  <2>2. "async_enqueue" \in PCs \ {"sync_sleep"} /\ "async_enqueue" \notin InSync
    BY Zenon DEF PCs, InSync
  <2> QED BY <2>1, <2>2, Moves, Zenon
<1>5. ASSUME NEW t \in Threads, NEW r \in Requests, NEW d \in Data,
             kgpu_call_sync_nomem(t, r, d)
      PROVE  WakeupInv'
  <2>1. /\ UNCHANGED <<pc, data, done, wpc, wdata>>
        /\ freedata' = freedata \ {d}
    BY <1>5, Zenon DEF kgpu_call_sync_nomem, threads, syscall
  <2>2. DataInv' /\ NoLostWakeup'
    BY <2>1, Zenon DEF WakeupInv, DataInv, NoLostWakeup
  <2> QED BY <2>1, <2>2, Zenon DEF WakeupInv
<1>6. ASSUME NEW t \in Threads, ThreadStep(t) PROVE WakeupInv'
  BY <1>2, <1>3, <1>4, <1>5, <1>6, SyncCallStep, Zenon DEF ThreadStep, BetweenCalls
<1>7. CASE SyscallStep
  <2>1. CASE read_return \/ invoke_callback \/ sync_callback
    <3>1. UNCHANGED <<pc, data, done, freedata>> /\ wpc # "wake"
      BY <2>1, Zenon DEF read_return, invoke_callback, sync_callback, syncs, threads
    <3> QED BY <3>1, NotSync, Zenon
  <2> QED BY <1>7, <2>1, SetDoneStep, SleeperWakes, Zenon DEF SyscallStep
<1>8. CASE \/ HelperReads
           \/ \E i \in DOMAIN held : \E err \in ErrCodes : HelperAnswers(i, err)
  <2>1. UNCHANGED <<pc, data, done, freedata>> /\ wpc # "wake"
    BY <1>8, Zenon DEF HelperReads, HelperAnswers, kgpu_read, kgpu_write, syncs, threads
  <2> QED BY <2>1, NotSync, Zenon
<1>9. CASE \/ \E i \in DOMAIN held : HelperAborts(i)
           \/ HelperDies \/ HelperStarts \/ HelperStops
           \/ UNCHANGED vars
  <2>1. UNCHANGED <<pc, data, done, freedata, wpc, wdata>>
    BY <1>9, Zenon DEF HelperAborts, HelperDies, HelperStarts, HelperStops,
                       terminate_all_requests, vars, kvars, syncs, threads, syscall
  <2> QED BY <2>1, NotSync, Zenon
<1> QED BY <1>1, <1>6, <1>7, <1>8, <1>9, Zenon DEF SignalNext, Next

\* With signals and without, in any number: no thread sleeps on in
\* kgpu_call_sync once its data is done and the wake-up has been given, though
\* an interrupted call frees data that sync_callback may still use for it, and
\* the data may by then belong to another call.
THEOREM NoWakeupIsLost == SignalSpec => []NoLostWakeup
<1>1. WakeupInv => NoLostWakeup
  BY Zenon DEF WakeupInv
<1> QED BY <1>1, WakeupInit, WakeupNext, PTL DEF SignalSpec

=============================================================================
