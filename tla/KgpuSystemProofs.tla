-------------------------- MODULE KgpuSystemProofs --------------------------
(***************************************************************************)
(* The kernel and the helper together: the helper is one that keeps to the *)
(* protocol of the device, so all that is proved of the transport holds of *)
(* the system; and what each side knows of a request is true of the other. *)
(***************************************************************************)
EXTENDS KgpuSystem, KgpuHelperProofs

\* What the helper has read and not answered: what is on rtdreqs or, while read
\* has yet to return, about to get there; and what it has copied of it.
WithHelper == IF wpc = "read" THEN Append(rtdreqs, wreq) ELSE rtdreqs

Copied == [r \in Requests |-> [id |-> id[r], r |-> r]]

Held == Mapped(Copied, WithHelper)

\* What the helper relies on of the transport: the requests it is concerned with
\* have different ids, and are on rtdreqs once.
KernelSide ==
  /\ reqs \in Seq(Requests) /\ rtdreqs \in Seq(Requests) /\ IsInjective(rtdreqs)
  /\ rid_sequence \in 0..MaxInt /\ errcode \in [Requests -> Nat]
  /\ wpc \in {"read", "callback"} => wreq \in Requests
  /\ wpc = "read" => wreq \notin Range(rtdreqs)
  /\ \A r, s \in Range(WithHelper) : id[r] # Unconstructed /\ (id[r] = id[s] => r = s)

\* The helper has not answered what is on rtdreqs, each request under its own id
\* and with its own service; what a read copies is that request's; and the answer
\* that a write gives is the one of the request it has found.
LinkInv ==
  /\ \A r \in Requests : id[r] \in Ids \cup {Unconstructed}
  /\ asks \in [Requests -> Kinds]
  /\ { id[r] : r \in Range(rtdreqs) } = Unanswered
  /\ \A r \in Range(rtdreqs) : sr[id[r]].service = asks[r].service
  /\ wpc = "read" => hpc = "get" /\ kureq = KuRequest(wreq)
  /\ wpc \in {"callback", "sync_callback", "set_done", "wake"} => hpc = "cleanup"
  /\ wpc = "callback" => /\ Head(todo) = id[wreq]
                         /\ errcode[wreq] = sr[id[wreq]].errcode
                         /\ sr[id[wreq]].service = asks[wreq].service

\* The error codes of the system are some that the transport can carry.
LEMMA CodesAreCodes == ErrCodes \subseteq Nat
BY HelperAssumption, SMT DEF ErrCodes, KGPU_NO_SERVICE

\* The requests with the helper, as a list and as a set.
LEMMA WithHelperFacts ==
  ASSUME rtdreqs \in Seq(Requests), wpc = "read" => wreq \in Requests
  PROVE  /\ WithHelper \in Seq(Requests)
         /\ Range(rtdreqs) \subseteq Range(WithHelper)
         /\ wpc = "read" => Range(WithHelper) = Range(rtdreqs) \cup {wreq}
         /\ wpc # "read" => Range(WithHelper) = Range(rtdreqs)
<1>1. CASE wpc = "read"
  <2>1. wreq \in Requests /\ rtdreqs \in Seq(Requests) /\ WithHelper = Append(rtdreqs, wreq)
    BY <1>1, Zenon DEF WithHelper
  <2>2. /\ Append(rtdreqs, wreq) \in Seq(Requests)
        /\ Range(Append(rtdreqs, wreq)) = Range(rtdreqs) \cup {wreq}
    BY <2>1, AppendRange, SMT
  <2> QED
    BY <1>1, <2>1, <2>2, Zenon
<1>2. CASE wpc # "read"
  BY <1>2, Zenon DEF WithHelper
<1> QED
  BY <1>1, <1>2, Zenon

-----------------------------------------------------------------------------
(***************************************************************************)
(* What the helper holds changes with its reads and writes only.           *)
(***************************************************************************)

\* The helper holds the same if its requests are the same and keep their ids.
LEMMA SameHeld ==
  ASSUME WithHelper \in Seq(Requests), UNCHANGED WithHelper,
         \A r \in Range(WithHelper) : id'[r] = id[r]
  PROVE  Held' = Held
<1> DEFINE w == WithHelper
<1>1. \A i \in DOMAIN w : w[i] \in Requests /\ id'[w[i]] = id[w[i]]
  <2>1. \A i \in DOMAIN w : w[i] \in Requests
    BY LenProperties, SMT
  <2> QED
    BY <2>1, Zenon DEF Range
<1>2. \A i \in DOMAIN w : Copied'[w[i]] = Copied[w[i]]
  BY <1>1, Zenon DEF Copied
<1>3. Held' = [i \in DOMAIN w |-> Copied'[w[i]]] /\ Held = [i \in DOMAIN w |-> Copied[w[i]]]
  BY Zenon DEF Held, Mapped
<1> HIDE DEF w
<1> QED
  BY <1>2, <1>3, Zenon

\* A read adds the request it takes.
LEMMA ReadHeld ==
  ASSUME KernelSide, kgpu_read
  PROVE  Held' = Append(Held, [id |-> id[Head(reqs)], r |-> Head(reqs)])
<1>1. /\ wpc = "user" /\ reqs # <<>> /\ wpc' = "read" /\ wreq' = Head(reqs)
      /\ rtdreqs' = rtdreqs /\ id' = id
  BY Zenon DEF kgpu_read, objects
<1>2. Head(reqs) \in Requests /\ rtdreqs \in Seq(Requests)
  BY <1>1, TailFacts, Zenon DEF KernelSide
<1>3. /\ WithHelper = rtdreqs /\ WithHelper' = Append(rtdreqs, Head(reqs))
      /\ Copied' = Copied /\ Copied[Head(reqs)] = [id |-> id[Head(reqs)], r |-> Head(reqs)]
  BY <1>1, <1>2, Zenon DEF WithHelper, Copied
<1> QED
  BY <1>2, <1>3, MappedAppend, ZenonT(60) DEF Held

\* A write takes the one it answers.
LEMMA WriteHeld ==
  ASSUME KernelSide, NEW rid, NEW err, kgpu_write(rid, err)
  PROVE  /\ \E i \in DOMAIN Held : Held[i].id = rid /\ Held' = DelAt(Held, i)
         /\ wreq' \in Range(rtdreqs) /\ wreq' \in Requests /\ id[wreq'] = rid
         /\ Range(rtdreqs') = Range(rtdreqs) \ {wreq'}
         /\ errcode' = [errcode EXCEPT ![wreq'] = err]
<1>1. PICK i \in DOMAIN rtdreqs :
        /\ FoundAt(i, rid) /\ rtdreqs' = DelAt(rtdreqs, i) /\ wreq' = rtdreqs[i]
        /\ errcode' = [errcode EXCEPT ![rtdreqs[i]] = err]
  BY Zenon DEF kgpu_write
<1>2. wpc = "user" /\ wpc' = "callback" /\ id' = id /\ id[rtdreqs[i]] = rid
  BY <1>1, Zenon DEF kgpu_write, FoundAt
<1>3. /\ rtdreqs \in Seq(Requests) /\ i \in 1..Len(rtdreqs) /\ IsInjective(rtdreqs)
  BY LenProperties, Zenon DEF KernelSide
<1>4. /\ rtdreqs[i] \in Requests /\ rtdreqs[i] \in Range(rtdreqs)
      /\ Range(DelAt(rtdreqs, i)) = Range(rtdreqs) \ {rtdreqs[i]}
  BY <1>3, DelAtSet, Zenon
<1>5. WithHelper = rtdreqs /\ WithHelper' = DelAt(rtdreqs, i) /\ Copied' = Copied
  BY <1>1, <1>2, Zenon DEF WithHelper, Copied
<1>6. Held' = DelAt(Held, i)
  BY <1>3, <1>5, MappedDelAt, Zenon DEF Held, DelAt
<1>7. i \in DOMAIN Held /\ Held[i].id = rid
  BY <1>1, <1>2, <1>4, <1>5, Zenon DEF Held, Mapped, Copied
<1> QED
  BY <1>1, <1>2, <1>4, <1>6, <1>7, Zenon

-----------------------------------------------------------------------------
(***************************************************************************)
(* What each side knows of the other's requests.                           *)
(***************************************************************************)

\* A client that allocates, renews, frees or submits requests: the transport
\* keeps it from those that the helper is concerned with.
LEMMA ThreadLinked ==
  ASSUME KernelSide, LinkInv, UNCHANGED <<rtdreqs, wpc, wreq>>, UNCHANGED <<hvars, system>>,
         \A r \in Range(WithHelper) : id'[r] = id[r],
         wpc = "callback" => id'[wreq] = id[wreq] /\ errcode'[wreq] = errcode[wreq],
         \A r \in Requests : id'[r] = id[r] \/ id'[r] = NextRequestId
  PROVE  LinkInv'
<1>1. UNCHANGED <<all_reqs, sr, hpc, todo, asks, kureq>>
  BY Zenon DEF hvars, system
<1>2. NextRequestId \in Ids
  <2>1. rid_sequence \in 0..MaxInt /\ MaxInt \in Nat /\ Ids = 0..MaxInt
    BY KernelAssumption, SystemAssumption, Zenon DEF KernelSide
  <2> QED
    BY <2>1, SMT DEF NextRequestId
<1>3. \A r \in Requests : id'[r] \in Ids \cup {Unconstructed}
  BY <1>2, Zenon DEF LinkInv
<1>4. /\ \A r \in Range(rtdreqs) : id'[r] = id[r]
      /\ wpc = "read" => id'[wreq] = id[wreq]
  BY WithHelperFacts, Zenon DEF KernelSide
<1>5. { id'[r] : r \in Range(rtdreqs) } = Unanswered'
  <2>1. { id'[r] : r \in Range(rtdreqs) } = { id[r] : r \in Range(rtdreqs) }
    BY <1>4, Zenon
  <2> QED
    BY <1>1, <2>1, Zenon DEF LinkInv, Unanswered, Live
<1> QED
  BY <1>1, <1>3, <1>4, <1>5, Zenon DEF LinkInv, KuRequest

\* A read copies the request it takes.
LEMMA ReadLinked ==
  ASSUME LinkInv, Read
  PROVE  LinkInv'
<1>1. /\ hpc = "get" /\ wpc' = "read" /\ wreq' = Head(reqs)
      /\ kureq' = KuRequest(Head(reqs))
      /\ UNCHANGED <<rtdreqs, id, all_reqs, sr, hpc, todo, asks>>
  BY Zenon DEF Read, kgpu_read, objects, hvars
<1> QED
  BY <1>1, Zenon DEF LinkInv, KuRequest, Unanswered, Live

\* What a read returns is a request as clients make them.  Its id is not one the
\* helper still has: the requests in flight have different ids.
LEMMA GotFresh ==
  ASSUME KernelSide, LinkInv, Got
  PROVE  /\ kureq \in KuRequests /\ kureq.id \notin Live
         /\ kureq.id = id[wreq] /\ kureq.service = asks[wreq].service
         /\ kureq.mem = asks[wreq].mem /\ asks[wreq] \in Kinds
<1>1. /\ wpc = "read" /\ wreq \in Requests
      /\ Range(WithHelper) = Range(rtdreqs) \cup {wreq} /\ wreq \notin Range(rtdreqs)
  BY WithHelperFacts, Zenon DEF Got, read_return, KernelSide
<1>2. id[wreq] \in Ids /\ hpc = "get" /\ kureq = KuRequest(wreq) /\ asks[wreq] \in Kinds
  BY <1>1, Zenon DEF LinkInv, KernelSide
<1>3. asks[wreq].service \in Services /\ asks[wreq].mem \in Memory
  <2>1. asks[wreq] \in [service : Services, mem : Memory]
    BY <1>2, SystemAssumption, Zenon
  <2> QED
    BY <2>1, SMT
<1>4. \A r \in Range(rtdreqs) : id[r] # id[wreq]
  BY <1>1, Zenon DEF KernelSide
<1>5. id[wreq] \notin Live
  <2>1. Unanswered = Live
    BY <1>2, Zenon DEF Unanswered
  <2> QED
    BY <1>4, <2>1, Zenon DEF LinkInv
<1> QED
  BY <1>2, <1>3, <1>5, Zenon DEF KuRequest, KuRequests

\* When it returns the helper has one request more, on both sides.
LEMMA GotLinked ==
  ASSUME KernelSide, HelperInv, LinkInv, Got
  PROVE  LinkInv' /\ HelperInv'
<1>1. /\ wpc = "read" /\ wpc' = "user"
      /\ rtdreqs' = Append(rtdreqs, wreq) /\ kh_init_service_request(kureq)
      /\ UNCHANGED <<id, asks>>
  BY Zenon DEF Got, read_return, objects
<1>2. Range(WithHelper) = Range(rtdreqs) \cup {wreq} /\ WithHelper = rtdreqs'
  BY <1>1, WithHelperFacts, Zenon DEF KernelSide, WithHelper
<1>3. /\ kureq.id = id[wreq] /\ kureq.service = asks[wreq].service
      /\ kureq \in KuRequests /\ kureq.id \notin Live
  BY GotFresh, Zenon
<1>4. /\ Unanswered' = Unanswered \cup {id[wreq]}
      /\ sr'[id[wreq]].service = asks[wreq].service
      /\ \A i \in Unanswered : sr'[i].service = sr[i].service
  BY <1>1, <1>3, ReadOwes, Zenon
<1>5. HelperInv'
  BY <1>1, <1>3, ReadKeeps, Zenon
<1>6. { id[r] : r \in Range(rtdreqs') } = Unanswered'
  <2> DEFINE before == Range(rtdreqs)
             after  == Range(rtdreqs')
  <2>1. after = before \cup {wreq} /\ { id[r] : r \in before } = Unanswered
    BY <1>2, Zenon DEF LinkInv
  <2> HIDE DEF before, after
  <2>2. \A x : x \in { id[r] : r \in after } <=> x \in Unanswered \cup {id[wreq]}
    BY <2>1, Zenon
  <2> QED
    BY <1>4, <2>2, Zenon DEF after
<1>7. \A r \in Range(rtdreqs') : sr'[id[r]].service = asks[r].service
  <2>1. \A r \in Range(rtdreqs) : id[r] \in Unanswered /\ sr[id[r]].service = asks[r].service
    BY Zenon DEF LinkInv
  <2> QED
    BY <1>2, <1>4, <2>1, Zenon
<1> QED
  BY <1>1, <1>5, <1>6, <1>7, Zenon DEF LinkInv

\* A write takes from both the request whose answer it gives.
LEMMA RespondLinked ==
  ASSUME KernelSide, HelperInv, LinkInv, NEW i \in Ids, kh_send_response(i),
         kgpu_write(i, sr[i].errcode), UNCHANGED system
  PROVE  LinkInv'
<1>1. wpc' = "callback" /\ UNCHANGED <<id, asks, kureq>>
  BY Zenon DEF kgpu_write, system
<1>2. /\ i \in Unanswered /\ Unanswered' = Unanswered \ {i}
      /\ hpc' = "cleanup" /\ Head(todo') = i /\ sr' = sr
  BY RespondOwes, Zenon
<1>3. /\ wreq' \in Requests /\ wreq' \in Range(rtdreqs) /\ id[wreq'] = i
      /\ Range(rtdreqs') = Range(rtdreqs) \ {wreq'}
      /\ errcode' = [errcode EXCEPT ![wreq'] = sr[i].errcode]
  BY WriteHeld, Zenon
<1>4. errcode'[wreq'] = sr[i].errcode
  BY <1>3, Zenon DEF KernelSide
<1>5. \A r \in Range(rtdreqs) : r # wreq' => id[r] # i
  BY <1>3, WithHelperFacts, Zenon DEF KernelSide
<1>6. { id[r] : r \in Range(rtdreqs') } = Unanswered'
  <2> DEFINE before == Range(rtdreqs)
             after  == Range(rtdreqs')
             w      == wreq'
  <2>1. /\ after = before \ {w} /\ { id[r] : r \in before } = Unanswered
        /\ id[w] = i /\ \A r \in before : r # w => id[r] # i
    BY <1>1, <1>3, <1>5, Zenon DEF LinkInv
  <2> HIDE DEF before, after, w
  <2>2. \A x : x \in { id[r] : r \in after } <=> x \in Unanswered \ {i}
    BY <2>1, Zenon
  <2> QED
    BY <1>2, <2>2, Zenon DEF after
<1>7. \A r \in Range(rtdreqs) : sr'[id'[r]].service = asks'[r].service
  BY <1>1, <1>2, Zenon DEF LinkInv
<1>8. /\ \A r \in Requests : id'[r] \in Ids \cup {Unconstructed}
      /\ asks' \in [Requests -> Kinds]
  BY <1>1, Zenon DEF LinkInv
<1>9. /\ Head(todo') = id'[wreq'] /\ errcode'[wreq'] = sr'[id'[wreq']].errcode
      /\ sr'[id'[wreq']].service = asks'[wreq'].service
  BY <1>1, <1>2, <1>3, <1>4, <1>7, Zenon
<1>10. /\ { id'[r] : r \in Range(rtdreqs') } = Unanswered'
       /\ \A r \in Range(rtdreqs') : sr'[id'[r]].service = asks'[r].service
  BY <1>1, <1>3, <1>6, <1>7, Zenon
<1>11. wpc' # "read"
  BY <1>1, Zenon
<1> QED
  BY <1>2, <1>8, <1>9, <1>10, <1>11, Zenon DEF LinkInv

\* The callback runs before kh_service_done goes on.
LEMMA CallbackLinked ==
  ASSUME LinkInv, Callback
  PROVE  LinkInv'
<1>1. /\ wpc \in {"callback", "sync_callback", "set_done", "wake"}
      /\ wpc' \in {"sync_callback", "set_done", "wake", "user"}
      /\ UNCHANGED <<rtdreqs, id, all_reqs, sr, hpc, todo, asks>>
  BY Zenon DEF Callback, invoke_callback, sync_callback, set_done, wake_up,
     device, objects, hvars, system
<1> QED
  BY <1>1, Zenon DEF LinkInv, Unanswered, Live

\* What the helper and the GPU do by themselves.
LEMMA AsideLinked ==
  ASSUME LinkInv, UNCHANGED <<kvars, system>>, Unanswered' = Unanswered,
         \A i \in Unanswered : sr'[i].service = sr[i].service,
         wpc = "user" \/ UNCHANGED <<sr, hpc, todo>>
  PROVE  LinkInv'
<1>1. UNCHANGED <<rtdreqs, wpc, wreq, id, errcode, asks, kureq>>
  BY Zenon DEF kvars, device, objects, syscall, system
<1>2. \A r \in Range(rtdreqs) : id[r] \in Unanswered /\ sr'[id[r]].service = asks[r].service
  BY Zenon DEF LinkInv
<1> QED
  BY <1>1, <1>2, Zenon DEF LinkInv, KuRequest

\* What the helper and the GPU do outside of a system call leaves the kernel alone.
LEMMA OutsideKeeps ==
  ASSUME HelperInv, LinkInv,
         Poll \/ Work \/ \E s \in Streams : GpuStep(s)
  PROVE  HelperInv' /\ LinkInv'
<1>1. UNCHANGED <<kvars, system>>
  BY Zenon DEF Poll, Work, GpuStep
<1>2. CASE Poll
  <2>1. wpc = "user" /\ kh_get_nothing
    BY <1>2, Zenon DEF Poll
  <2>2. HelperInv' /\ Unanswered' = Unanswered /\ sr' = sr
    BY <2>1, PollWaits, WaitKeeps, WaitOwes, Zenon
  <2> QED
    BY <1>1, <2>1, <2>2, AsideLinked, Zenon
<1>3. CASE Work
  <2>1. wpc = "user" /\ HelperStep
    BY <1>3, Zenon DEF Work
  <2>2. /\ HelperInv' /\ Unanswered' = Unanswered
        /\ \A i \in Unanswered : sr'[i].service = sr[i].service
    BY <2>1, StepKeeps, StepOwes, Zenon
  <2> QED
    BY <1>1, <2>1, <2>2, AsideLinked, Zenon
<1>4. CASE \E s \in Streams : GpuStep(s)
  <2>1. PICK s \in Streams : GpuCompletes(s)
    BY <1>4, Zenon DEF GpuStep
  <2>2. UNCHANGED <<all_reqs, sr, hpc, todo>>
    BY <2>1, Zenon DEF GpuCompletes
  <2>3. HelperInv'
    BY <2>1, GpuKeeps, Zenon
  <2>4. Unanswered' = Unanswered
    BY <2>2, Zenon DEF Unanswered, Live
  <2> QED
    BY <1>1, <2>2, <2>3, <2>4, AsideLinked, Zenon
<1> QED
  BY <1>2, <1>3, <1>4, Zenon


\* Nothing is answered before the helper has read something.
LEMMA InitLinked ==
  ASSUME Init
  PROVE  HelperInv /\ LinkInv /\ Held = <<>>
<1>1. /\ rtdreqs = <<>> /\ wpc = "user" /\ id = [r \in Requests |-> Unconstructed]
      /\ all_reqs = <<>> /\ asks \in [Requests -> Kinds] /\ HelperInit
  BY Zenon DEF Init, KernelInit, HelperInit
<1>2. Held = <<>>
  BY <1>1, MappedEmpty, Zenon DEF Held, WithHelper
<1>3. Range(rtdreqs) = {} /\ Unanswered = {}
  BY <1>1, EmptyList, Zenon DEF Unanswered, Live
<1>4. LinkInv
  BY <1>1, <1>3, Zenon DEF LinkInv
<1> QED
  BY <1>1, <1>2, <1>4, InitKeeps, Zenon

-----------------------------------------------------------------------------
(***************************************************************************)
(* Every step of the system is one of the transport, or none.              *)
(***************************************************************************)

\* The transport, with a helper that holds what this one does.
D == INSTANCE KgpuDeviceProofs WITH up <- TRUE, held <- Held

\* The inductive invariant of the system.
SystemInv == D!DeviceInv /\ HelperInv /\ LinkInv

\* The transport is what the helper relies on; the requests that concern the
\* helper are in flight.
LEMMA DeviceGives ==
  ASSUME D!DeviceInv
  PROVE  /\ KernelSide
         /\ WithHelper \in Seq(Requests) /\ Range(WithHelper) \subseteq D!InFlight
         /\ wpc = "callback" => wreq \in D!InFlight
<1>1. /\ reqs \in Seq(Requests) /\ rtdreqs \in Seq(Requests)
      /\ rid_sequence \in 0..MaxInt /\ errcode \in [Requests -> Nat]
      /\ wpc \in {"read", "callback"} => wreq \in Requests
  BY Zenon DEF D!DeviceInv, D!TypeOK, D!KernelTypeOK, D!SyscallInv
<1>2. /\ D!IsInjective(rtdreqs) /\ D!Range(rtdreqs) \cap D!InSyscall = {}
      /\ wpc \in {"read", "callback"} => wreq \in D!InSyscall
      /\ D!InFlight = D!Range(reqs) \cup D!Range(rtdreqs) \cup D!InSyscall
  BY Zenon DEF D!DeviceInv, D!InFlightOnce, D!InFlight, D!InSyscall
<1>3. D!Range(rtdreqs) = Range(rtdreqs) /\ (D!IsInjective(rtdreqs) <=> IsInjective(rtdreqs))
  BY Zenon DEF D!Range, Range, D!IsInjective, IsInjective
<1>4. WithHelper \in Seq(Requests) /\ Range(WithHelper) \subseteq D!InFlight
  BY <1>1, <1>2, <1>3, WithHelperFacts, Zenon
<1>5. \A r, s \in D!InFlight : id[r] # Unconstructed /\ (id[r] = id[s] => r = s)
  BY KernelAssumption, CodesAreCodes, D!FlightIds, Zenon DEF D!Unconstructed, Unconstructed
<1> QED
  BY <1>1, <1>2, <1>3, <1>4, <1>5, Zenon DEF KernelSide

\* A system that starts is a transport that starts.
LEMMA InitIsInit == Init => D!Init
BY InitLinked, Zenon DEF Init, KernelInit, D!Init, D!KernelInit, KGPU_OK, D!KGPU_OK,
   Unconstructed, D!Unconstructed

\* A thread does what threads of the transport do.
LEMMA ThreadIsThread ==
  ASSUME NEW t \in Threads, InCall(t) \/ BetweenCalls(t)
  PROVE  D!InCall(t) \/ D!BetweenCalls(t)
<1> USE DEF device, objects, syncs, threads, syscall,
            D!device, D!objects, D!syncs, D!threads, D!syscall
<1>1. ASSUME InCall(t) PROVE D!InCall(t)
  BY <1>1, Zenon DEF InCall, async_enqueue, sync_enqueue, sync_wait, sync_return,
     D!InCall, D!async_enqueue, D!sync_enqueue, D!sync_wait, D!sync_return
<1>2. ASSUME BetweenCalls(t) PROVE D!BetweenCalls(t)
  <2>1. PICK r \in Requests :
          \/ \E cb \in ClientCallbacks : kgpu_alloc_request(t, r, cb)
          \/ kgpu_free_request(t, r) \/ RenewId(t, r) \/ kgpu_call_async(t, r)
          \/ \E d \in Data : kgpu_call_sync(t, r, d) \/ kgpu_call_sync_nomem(t, r, d)
    BY <1>2, Zenon DEF BetweenCalls
  <2>2. ASSUME NEW cb \in ClientCallbacks, kgpu_alloc_request(t, r, cb)
        PROVE  cb \in D!ClientCallbacks /\ D!kgpu_alloc_request(t, r, cb)
    BY <2>2, Zenon DEF kgpu_alloc_request, D!kgpu_alloc_request, ConstructRequest,
       D!ConstructRequest, NextRequestId, D!NextRequestId, ClientCallbacks, D!ClientCallbacks,
       Unconstructed, D!Unconstructed
  <2>3. ASSUME kgpu_free_request(t, r) \/ RenewId(t, r) \/ kgpu_call_async(t, r)
        PROVE  D!kgpu_free_request(t, r) \/ D!RenewId(t, r) \/ D!kgpu_call_async(t, r)
    BY <2>3, Zenon DEF kgpu_free_request, RenewId, kgpu_call_async, AtRest, NextRequestId,
       Accepting, KGPU_TERMINATED, D!kgpu_free_request, D!RenewId, D!kgpu_call_async,
       D!AtRest, D!NextRequestId, D!Accepting, D!KGPU_TERMINATED
  <2>4. ASSUME NEW d \in Data, kgpu_call_sync(t, r, d) \/ kgpu_call_sync_nomem(t, r, d)
        PROVE  D!kgpu_call_sync(t, r, d) \/ D!kgpu_call_sync_nomem(t, r, d)
    BY <2>4, Zenon DEF kgpu_call_sync, kgpu_call_sync_nomem, AtRest, Accepting,
       KGPU_TERMINATED, D!kgpu_call_sync, D!kgpu_call_sync_nomem, D!AtRest, D!Accepting,
       D!KGPU_TERMINATED
  <2> QED
    BY <2>1, <2>2, <2>3, <2>4, Zenon DEF D!BetweenCalls
<1> QED
  BY <1>1, <1>2, Zenon

\* The helper does not notice, and keeps what it knows.
LEMMA ThreadStep ==
  ASSUME SystemInv, NEW t \in Threads, InCall(t) \/ BetweenCalls(t), UNCHANGED <<hvars, system>>
  PROVE  LinkInv' /\ D!Next
<1>1. /\ UNCHANGED <<rtdreqs, wpc, wreq>>
      /\ \A r \in D!InFlight : id'[r] = id[r] /\ errcode'[r] = errcode[r]
      /\ \A r \in Requests : id'[r] = id[r] \/ id'[r] = NextRequestId
  BY KernelAssumption, CodesAreCodes, ThreadIsThread, D!ThreadLeaves, Zenon
     DEF SystemInv, D!NextRequestId, NextRequestId
<1>2. /\ KernelSide /\ LinkInv
      /\ WithHelper \in Seq(Requests) /\ \A r \in Range(WithHelper) : id'[r] = id[r]
      /\ wpc = "callback" => id'[wreq] = id[wreq] /\ errcode'[wreq] = errcode[wreq]
  BY <1>1, DeviceGives, Zenon DEF SystemInv
<1>3. LinkInv'
  BY <1>1, <1>2, ThreadLinked, Zenon
<1>4. Held' = Held
  BY <1>1, <1>2, SameHeld, Zenon DEF WithHelper
<1> QED
  BY <1>3, <1>4, ThreadIsThread, Zenon DEF D!ThreadStep, D!Next

\* kgpu_read is the read of a helper.
LEMMA ReadIsRead ==
  ASSUME KernelSide, kgpu_read
  PROVE  D!Next
<1>1. D!kgpu_read
  BY Zenon DEF kgpu_read, D!kgpu_read, objects, syncs, threads, D!objects, D!syncs, D!threads
<1> QED
  BY <1>1, ReadHeld, Zenon DEF D!HelperReads, D!Next

\* kgpu_write of an answer is that of a helper to something it holds.
LEMMA WriteIsAnswer ==
  ASSUME KernelSide, NEW rid, NEW err \in ErrCodes, kgpu_write(rid, err)
  PROVE  D!Next
<1>1. PICK i \in DOMAIN Held : Held[i].id = rid /\ Held' = DelAt(Held, i)
  BY WriteHeld, Zenon
<1>2. D!kgpu_write(rid, err) /\ Held' = D!DelAt(Held, i)
  BY <1>1, Zenon DEF kgpu_write, D!kgpu_write, FoundAt, D!FoundAt, DelAt, D!DelAt,
     syncs, threads, D!syncs, D!threads
<1> QED
  BY <1>1, <1>2, Zenon DEF D!HelperAnswers, D!Next

\* The rest of a system call goes on as it does in the transport.
LEMMA SyscallIsSyscall ==
  ASSUME read_return \/ invoke_callback \/ sync_callback \/ set_done \/ wake_up
  PROVE  D!Next
<1> USE DEF device, objects, syncs, threads, D!device, D!objects, D!syncs, D!threads
<1>1. D!SyscallStep
  BY Zenon DEF read_return, invoke_callback, sync_callback, set_done, wake_up, ClientCallbacks,
     D!SyscallStep, D!read_return, D!invoke_callback, D!sync_callback, D!set_done, D!wake_up,
     D!ClientCallbacks
<1>2. id' = id /\ WithHelper' = WithHelper
  BY Zenon DEF read_return, invoke_callback, sync_callback, set_done, wake_up, WithHelper
<1>3. Held' = Held
  BY <1>2, Zenon DEF Held, Copied
<1> QED
  BY <1>1, <1>3, Zenon DEF D!Next

\* The helper between system calls and the GPU do nothing to the transport.
LEMMA Aside ==
  ASSUME UNCHANGED kvars
  PROVE  UNCHANGED D!vars
<1> USE DEF kvars, device, objects, syncs, threads, syscall
<1>1. Held' = Held
  BY Zenon DEF Held, Copied, WithHelper
<1> QED
  BY <1>1, Zenon DEF D!vars, D!kvars, D!device, D!objects, D!syncs, D!threads, D!syscall

-----------------------------------------------------------------------------
(***************************************************************************)
(* The invariant of the system, and what it gives.                         *)
(***************************************************************************)

\* Every step keeps what links the two, and is one of the transport or none.
LEMMA StepLinked ==
  ASSUME SystemInv, [Next]_vars
  PROVE  HelperInv' /\ LinkInv' /\ [D!Next]_(D!vars)
<1>1. HelperInv /\ LinkInv /\ KernelSide
  BY DeviceGives, Zenon DEF SystemInv
<1>2. UNCHANGED hvars => HelperInv'
  BY <1>1, StutterKeeps, Zenon
<1>3. ASSUME NEW t \in Threads, Client(t) \/ Call(t)
      PROVE  HelperInv' /\ LinkInv' /\ D!Next
  BY <1>2, <1>3, ThreadStep, Zenon DEF Client, Call
<1>4. ASSUME Read PROVE HelperInv' /\ LinkInv' /\ D!Next
  BY <1>1, <1>2, <1>4, ReadIsRead, ReadLinked, Zenon DEF Read
<1>5. ASSUME Got PROVE HelperInv' /\ LinkInv' /\ D!Next
  BY <1>1, <1>5, SyscallIsSyscall, GotLinked, Zenon DEF Got
<1>6. ASSUME Respond PROVE HelperInv' /\ LinkInv' /\ D!Next
  <2>1. PICK i \in Ids : kh_send_response(i) /\ kgpu_write(i, sr[i].errcode) /\ UNCHANGED system
    BY <1>6, Zenon DEF Respond
  <2>2. i \in Live
    BY <1>1, <2>1, RespondOwes, Zenon DEF Unanswered
  <2>3. sr[i].errcode \in ErrCodes
    BY <1>1, <2>2, Zenon DEF HelperInv, ErrcodeInv, ErrCodes, KGPU_NO_SERVICE
  <2> QED
    BY <1>1, <2>1, <2>3, WriteIsAnswer, RespondLinked, RespondKeeps, Zenon
<1>7. ASSUME Callback PROVE HelperInv' /\ LinkInv' /\ D!Next
  BY <1>1, <1>2, <1>7, SyscallIsSyscall, CallbackLinked, Zenon DEF Callback
<1>8. ASSUME Poll \/ Work \/ \E s \in Streams : GpuStep(s)
      PROVE  HelperInv' /\ LinkInv' /\ UNCHANGED kvars
  BY <1>1, <1>8, OutsideKeeps, Zenon DEF Poll, Work, GpuStep
<1>9. ASSUME UNCHANGED vars PROVE HelperInv' /\ LinkInv' /\ UNCHANGED kvars
  <2>1. UNCHANGED hvars /\ UNCHANGED <<kvars, system>>
    BY <1>9, Zenon DEF vars
  <2>2. UNCHANGED <<sr, hpc, todo>> /\ Unanswered' = Unanswered
    BY <2>1, Zenon DEF hvars, Unanswered, Live
  <2> QED
    BY <1>1, <1>2, <2>1, <2>2, AsideLinked, Zenon
<1> QED
  BY <1>3, <1>4, <1>5, <1>6, <1>7, <1>8, <1>9, Aside, Zenon DEF Next, Helper

\* SystemInv is an invariant of the system, for any threads, requests, services
\* and streams, as long as the ids do not wrap: the helper is one the transport
\* can rely on, and the transport gives the helper what it relies on.
THEOREM SystemSafe ==
  ASSUME MaxIds <= MaxInt
  PROVE  Spec => []SystemInv
<1>1. ASSUME SystemInv, [Next]_vars PROVE SystemInv'
  <2>1. HelperInv' /\ LinkInv' /\ [D!Next]_(D!vars) /\ D!DeviceInv
    BY <1>1, StepLinked, Zenon DEF SystemInv
  <2>2. D!DeviceInv'
    BY <2>1, KernelAssumption, CodesAreCodes, D!NextInv, Zenon
  <2> QED
    BY <2>1, <2>2, Zenon DEF SystemInv
<1>2. Init => SystemInv
  BY InitIsInit, InitLinked, KernelAssumption, CodesAreCodes, D!InitInv, Zenon DEF SystemInv
<1> QED
  BY <1>1, <1>2, PTL DEF Spec

\* The kernel's rtdreqs and the helper's all_reqs name the same requests, so
\* that kgpu_write finds every id the helper answers.
THEOREM BooksAlwaysAgree ==
  ASSUME MaxIds <= MaxInt
  PROVE  Spec => []BooksAgree
<1>1. SystemInv => BooksAgree
  BY Zenon DEF SystemInv, LinkInv, BooksAgree, Unanswered, Live
<1> QED
  BY <1>1, SystemSafe, PTL

\* The errcode a callback finds is the one of its own request: the result of its
\* service, or KGPU_NO_SERVICE exactly if the helper has no such service (and no
\* service returns that value itself).
THEOREM ErrcodesAreTheirOwn ==
  ASSUME MaxIds <= MaxInt, KGPU_NO_SERVICE \notin ServErrs
  PROVE  Spec => []ErrcodeIsItsOwn
<1>1. ASSUME SystemInv, wpc = "callback"
      PROVE  /\ errcode[wreq] = KGPU_NO_SERVICE <=> asks[wreq].service \notin Registered
             /\ errcode[wreq] \in ServErrs \cup {0, KGPU_NO_SERVICE}
  <2>1. /\ HelperInv /\ hpc = "cleanup" /\ errcode[wreq] = sr[Head(todo)].errcode
        /\ sr[Head(todo)].service = asks[wreq].service
    BY <1>1, Zenon DEF SystemInv, LinkInv
  <2>2. \/ asks[wreq].service \in Registered /\ errcode[wreq] \in ServErrs \cup {0}
        \/ asks[wreq].service \notin Registered /\ errcode[wreq] = 2
    BY <2>1, AnsweredFacts, Zenon
  <2>3. 0 # 2
    BY SMT
  <2> QED
    BY <2>2, <2>3, Zenon DEF KGPU_NO_SERVICE
<1>2. SystemInv => ErrcodeIsItsOwn
  BY <1>1, Zenon DEF ErrcodeIsItsOwn
<1> QED
  BY <1>2, SystemSafe, PTL

\* A callback that says success runs when the GPU has nothing left to do for the
\* call.
THEOREM SuccessLeavesNoWork ==
  ASSUME MaxIds <= MaxInt
  PROVE  Spec => []NoWorkLeftOnSuccess
<1>1. ASSUME SystemInv, wpc = "callback", errcode[wreq] = 0
      PROVE  \A s \in Streams : id[wreq] \notin Range(gpu[s])
  <2>1. /\ HelperInv /\ hpc = "cleanup" /\ sr[Head(todo)].errcode = 0 /\ Head(todo) = id[wreq]
    BY <1>1, Zenon DEF SystemInv, LinkInv
  <2> QED
    BY <2>1, AnsweredFacts, Zenon
<1>2. SystemInv => NoWorkLeftOnSuccess
  BY <1>1, Zenon DEF NoWorkLeftOnSuccess
<1> QED
  BY <1>2, SystemSafe, PTL

\* In the system, too, every unfinished request is on one list of the helper, once
\* (kh_main_loop): the kernel hands it no request it still has.
THEOREM SystemListsArePartitioned ==
  ASSUME MaxIds <= MaxInt
  PROVE  Spec => []ListsPartitionLive
<1>1. SystemInv => ListsPartitionLive
  BY OnOneList, Zenon DEF SystemInv
<1> QED
  BY <1>1, SystemSafe, PTL

\* No stream is leaked or shared, whatever requests clients make and whenever
\* (gpu_alloc_stream, gpu_free_stream).
THEOREM SystemStreamsAreExclusive ==
  ASSUME MaxIds <= MaxInt
  PROVE  Spec => []StreamsExclusive
<1>1. SystemInv => StreamsExclusive
  BY OneStreamEach, Zenon DEF SystemInv
<1> QED
  BY <1>1, SystemSafe, PTL

\* The memory that is pinned is that of requests in the helper's hands, although
\* requests and ids are used again (gpu_alloc_device_mem, gpu_free_device_mem).
THEOREM SystemPinsAreBalanced ==
  ASSUME MaxIds <= MaxInt
  PROVE  Spec => []PinsBalanced
<1>1. SystemInv => PinsBalanced
  BY PinnedWhileUsed, Zenon DEF SystemInv
<1> QED
  BY <1>1, SystemSafe, PTL

\* Clients map memory for services that the helper knows.
ClientsMapForKnown == \A k \in Kinds : k.mem = "vma" => k.service \in Registered

\* Then no answer makes csc() end the helper.
THEOREM SystemHelperLives ==
  ASSUME MaxIds <= MaxInt, ClientsMapForKnown
  PROVE  Spec => []UnpinsWhatItPinned
<1>1. ASSUME SystemInv, ReleaseInv, [Next]_vars PROVE ReleaseInv'
  <2>1. KernelSide /\ LinkInv /\ HelperInv
    BY <1>1, DeviceGives, Zenon DEF SystemInv
  <2>2. ASSUME UNCHANGED hvars \/ \E s \in Streams : GpuStep(s) PROVE ReleaseInv'
    <3>1. UNCHANGED <<all_reqs, sr, hpc>>
      BY <2>2, Zenon DEF hvars, GpuStep, GpuCompletes
    <3>2. hpc' # "aborted"
      BY <1>1, <3>1, Zenon DEF ReleaseInv
    <3> QED
      BY <1>1, <2>1, <3>1, <3>2, SameRequests, Zenon
  <2>3. CASE Got
    <3>1. /\ kureq \in KuRequests /\ kureq.id \notin Live
          /\ kureq.mem = "vma" => kureq.service \in Registered
      BY <2>1, <2>3, GotFresh, Zenon DEF ClientsMapForKnown
    <3> QED
      BY <1>1, <2>1, <2>3, <3>1, ReadReleases, Zenon DEF Got
  <2>4. CASE Poll
    BY <1>1, <2>1, <2>4, WaitReleases, PollWaits, Zenon DEF Poll
  <2>5. CASE Respond
    BY <1>1, <2>1, <2>5, RespondReleases, Zenon DEF Respond
  <2>6. CASE Work
    BY <1>1, <2>1, <2>6, StepReleases, Zenon DEF Work
  <2>7. CASE Read \/ Callback \/ UNCHANGED vars \/ \E t \in Threads : Client(t) \/ Call(t)
    <3>1. UNCHANGED hvars
      BY <2>7, Zenon DEF Read, Callback, vars, Client, Call
    <3> QED
      BY <2>2, <3>1, Zenon
  <2> QED
    BY <1>1, <2>2, <2>3, <2>4, <2>5, <2>6, <2>7, Zenon DEF Next, Helper
<1>2. Init => ReleaseInv
  BY InitReleases, Zenon DEF Init
<1>3. ReleaseInv => UnpinsWhatItPinned
  BY Zenon DEF ReleaseInv, UnpinsWhatItPinned
<1> QED
  BY <1>1, <1>2, <1>3, SystemSafe, PTL DEF Spec

\* The system implements the transport that KgpuDevice specifies: its helper is
\* one of those KgpuDevice allows, and is never killed.
THEOREM SystemImplementsTransport ==
  ASSUME MaxIds <= MaxInt
  PROVE  Spec => D!Spec
<1>1. SystemInv /\ [Next]_vars => [D!Next]_(D!vars)
  BY StepLinked, Zenon
<1> QED
  BY <1>1, InitIsInit, SystemSafe, PTL DEF Spec, D!Spec

\* What is proved of the transport holds in the system: answers find the request
\* their id was read from, sync calls return after their answer, and requests in
\* flight are allocated and in one place (kgpu_read, kgpu_write, sync_callback).
THEOREM SystemKeepsTransport ==
  ASSUME MaxIds <= MaxInt
  PROVE  Spec => [](/\ D!AnswerFindsItsRequest /\ D!SyncAnswered /\ D!NoLostWakeup
                    /\ D!SyncCallbackOwnsData /\ D!RequestsStayAllocated /\ D!InFlightOnce)
<1>1. D!Spec => []D!AnswerFindsItsRequest
  BY KernelAssumption, CodesAreCodes, D!AnswersArrive, Zenon
<1>2. D!Spec => [](D!SyncAnswered /\ D!NoLostWakeup)
  BY KernelAssumption, CodesAreCodes, D!SyncCallsAreAnswered, Zenon
<1>3. D!Spec => []D!SyncCallbackOwnsData
  BY KernelAssumption, CodesAreCodes, D!AnswersUseTheCallersData, Zenon
<1>4. D!Spec => [](D!RequestsStayAllocated /\ D!UniqueIds)
  BY KernelAssumption, CodesAreCodes, D!RequestsAreKept, Zenon
<1>5. D!Spec => []D!InFlightOnce
  BY KernelAssumption, CodesAreCodes, D!RequestsAreInOnePlace, Zenon
<1> QED
  BY <1>1, <1>2, <1>3, <1>4, <1>5, SystemImplementsTransport, PTL

\* So it implements KgpuCalls: every call is answered at most once, with an error
\* code of the helper's.
THEOREM SystemImplementsCalls ==
  ASSUME MaxIds <= MaxInt
  PROVE  Spec => ImplementsCalls
<1> USE DEF D!CallPhases, CallPhases, D!CallResults, CallResults, D!Phase, Phase, D!InSync, InSync
<1>1. D!Calls!Init => Calls!Init
  BY Zenon DEF D!Calls!Init, Calls!Init
<1>2. D!Calls!Next => Calls!Next
  BY Zenon DEF D!Calls!Next, Calls!Next, D!Calls!Call, Calls!Call, D!Calls!Answer, Calls!Answer,
     D!Calls!Return, Calls!Return, D!Calls!Construct, Calls!Construct
<1>3. D!CallPhases = CallPhases /\ D!CallResults = CallResults
  BY Zenon
<1>4. [D!Calls!Next]_<<D!CallPhases, D!CallResults>> => [Calls!Next]_<<CallPhases, CallResults>>
  BY <1>2, Zenon
<1>5. D!Spec => D!ImplementsCalls
  BY KernelAssumption, CodesAreCodes, D!TransportImplementsCalls, Zenon
<1> QED
  BY <1>1, <1>4, <1>5, SystemImplementsTransport, PTL
     DEF D!ImplementsCalls, D!Calls!Spec, ImplementsCalls, Calls!Spec
=============================================================================
