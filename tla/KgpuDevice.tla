----------------------------- MODULE KgpuDevice -----------------------------
(***************************************************************************)
(* The kernel transport with any helper that keeps to the protocol: it     *)
(* reads requests, answers each id it has read once, in any order and with *)
(* any error code, may die between two system calls and be started again.  *)
(***************************************************************************)
EXTENDS KgpuKernel

CONSTANT ErrCodes   \* the error codes the helper's answers carry

ASSUME ErrCodesAssumption == ErrCodes \subseteq Nat

VARIABLES
  up,    \* a helper has the device open
  held   \* what it has read and not answered: the id, and (for the
         \* properties only) the request the id was copied from

vars == <<kvars, up, held>>

TypeOK ==
  /\ KernelTypeOK
  /\ up \in BOOLEAN
  /\ held \in Seq([id : Int, r : Requests])

Init ==
  /\ KernelInit
  /\ up = TRUE
  /\ held = <<>>

\* read() in kh_get_next_service_request.
HelperReads ==
  /\ up
  /\ kgpu_read
  /\ held' = Append(held, [id |-> id[Head(reqs)], r |-> Head(reqs)])
  /\ UNCHANGED up

\* write() in kh_send_response, of an answer to the i-th request held.
HelperAnswers(i, err) ==
  /\ up
  /\ kgpu_write(held[i].id, err)
  /\ held' = DelAt(held, i)
  /\ UNCHANGED up

\* write() returns -EFAULT, and the assertion of ssc() ends the helper.
HelperAborts(i) ==
  /\ up
  /\ wpc = "user"
  /\ NotFound(held[i].id)
  /\ up' = FALSE
  /\ held' = <<>>
  /\ UNCHANGED kvars

\* The helper is killed; what it held is lost, and the kernel keeps it in
\* rtdreqs.
HelperDies ==
  /\ up
  /\ wpc = "user"
  /\ up' = FALSE
  /\ held' = <<>>
  /\ UNCHANGED kvars

HelperStarts ==
  /\ ~up
  /\ up' = TRUE
  /\ UNCHANGED <<kvars, held>>

\* kh_finit: the ioctl, then exit.  (For a helper that leaves its main loop:
\* nothing in helper.c clears kh_loop_continue.)
HelperStops ==
  /\ up
  /\ terminate_all_requests
  /\ up' = FALSE
  /\ held' = <<>>

ThreadStep(t) ==
  /\ InCall(t) \/ BetweenCalls(t)
  /\ UNCHANGED <<up, held>>

Next ==
  \/ \E t \in Threads : ThreadStep(t)
  \/ SyscallStep /\ UNCHANGED <<up, held>>
  \/ HelperReads
  \/ \E i \in DOMAIN held : \/ \E err \in ErrCodes : HelperAnswers(i, err)
                            \/ HelperAborts(i)
  \/ HelperDies
  \/ HelperStarts
  \/ HelperStops

Spec == Init /\ [][Next]_vars

\* The same with clients that signals can reach: a process that is killed, or
\* interrupted, while it sleeps in kgpu_call_sync.
Signal(t) == sync_interrupted(t) /\ UNCHANGED <<up, held>>

SignalNext == Next \/ \E t \in Threads : Signal(t)

SignalSpec == Init /\ [][SignalNext]_vars

-----------------------------------------------------------------------------
(***************************************************************************)
(* Correctness of the transport.                                           *)
(***************************************************************************)

\* The request the helper's system call is still going to use.
InSyscall == IF wpc \in {"read", "callback", "sync_callback"} THEN {wreq} ELSE {}

\* The requests between their submission and their callback.
InFlight == Range(reqs) \cup Range(rtdreqs) \cup InSyscall

\* A request is never in two places on its way (reqs, the read or write being
\* executed, rtdreqs), nor twice in a list: list_del and list_add_tail under
\* the two locks move it, and no call on it is accepted meanwhile.
InFlightOnce ==
  /\ IsInjective(reqs) /\ IsInjective(rtdreqs)
  /\ Range(reqs) \cap Range(rtdreqs) = {}
  /\ (Range(reqs) \cup Range(rtdreqs)) \cap InSyscall = {}

\* While a request is in flight its object is not freed: the transport
\* reaches req->id, req->callback and req->kdata of live objects only.
RequestsStayAllocated == \A r \in InFlight : owner[r] # NULL

\* No two request objects share an id, though ids are drawn when a slab is
\* populated and stay with an object that is freed and allocated again.
UniqueIds ==
  \A r, s \in Requests : id[r] = id[s] /\ id[r] # Unconstructed => r = s

\* The position in rtdreqs of what the helper holds: the last one read gets
\* there when read returns.
Returned == IF wpc = "read" THEN Len(held) - 1 ELSE Len(held)

\* find_request on the id of an answer finds the very request the id was
\* read from: no answer goes to another request or to none, whatever the
\* order in which the helper answers.
AnswerFindsItsRequest ==
  \A i \in 1..Returned : \E j \in DOMAIN rtdreqs :
    FoundAt(j, held[i].id) /\ rtdreqs[j] = held[i].r

\* kgpu_call_sync goes on to its return only when its request has been
\* answered: the transport will not use the request any more.
SyncAnswered ==
  \A t \in Threads : pc[t] = "sync_return" => cur[t] \notin InFlight

\* sync_callback sets done in the data of a thread that waits for this very
\* request: the data is neither freed nor that of another call.
SyncCallbackOwnsData ==
  wpc \in {"sync_callback", "set_done"} =>
    \E t \in Threads :
      /\ pc[t] \in {"sync_wait", "sync_sleep"}
      /\ cur[t] = wreq
      /\ data[t] = (IF wpc = "set_done" THEN wdata ELSE kdata[wreq])
      /\ data[t] \notin freedata

\* No wake-up is lost: a thread asleep in kgpu_call_sync whose data is done
\* is about to be woken by the sync_callback that set it.
NoLostWakeup ==
  \A t \in Threads : pc[t] = "sync_sleep" /\ done[data[t]] = 1 =>
    wpc = "wake" /\ wdata = data[t]

Calls == INSTANCE KgpuCalls WITH phase <- CallPhases, result <- CallResults

\* The transport implements the calls of KgpuCalls: whatever the helper and the
\* other clients do, a call is answered once, a sync call returns only after
\* that, and from the answer to the next call on the request its errcode does
\* not change.
ImplementsCalls == Calls!Spec

-----------------------------------------------------------------------------
(***************************************************************************)
(* The inductive invariant behind these properties, for clients that no    *)
(* signal reaches (Spec) and ids that have not wrapped (MaxIds <= MaxInt). *)
(***************************************************************************)

\* The request of a thread in an async call is its own, and is pending.
AsyncInv ==
  \A t \in Threads : pc[t] = "async_enqueue" =>
    /\ cur[t] \in pending
    /\ cur[t] \notin InFlight
    /\ owner[cur[t]] = t

\* The request of a thread in a sync call is its own, and points to the
\* thread's sync data.
SyncInv ==
  \A t \in Threads : pc[t] \in InSync =>
    /\ cur[t] \in Requests \ pending
    /\ owner[cur[t]] = t
    /\ data[t] \in Data \ freedata
    /\ callback[cur[t]] = "sync_callback"
    /\ kdata[cur[t]] = data[t]
    /\ old[data[t]].callback \in ClientCallbacks

\* The sync data is done exactly when the request has been answered.
DoneInv ==
  \A t \in Threads :
    /\ pc[t] = "sync_enqueue" => cur[t] \notin InFlight /\ done[data[t]] = 0
    /\ pc[t] = "sync_return" => cur[t] \notin InFlight /\ done[data[t]] = 1

\* No two sync calls share a data object.
DataInv ==
  \A t, u \in Threads :
    pc[t] \in InSync /\ pc[u] \in InSync /\ data[t] = data[u] => t = u

\* Some thread waits in a sync call on r, and its data is not done.
AwaitedBy(t, r) ==
  /\ pc[t] \in {"sync_wait", "sync_sleep"}
  /\ cur[t] = r
  /\ done[data[t]] = 0

\* A pending request is owned and has its client's callback; a request that
\* has sync_callback is in a sync call.
CallbackInv ==
  \A r \in Requests :
    /\ r \in pending => owner[r] # NULL /\ callback[r] \in ClientCallbacks
    /\ callback[r] = "sync_callback" =>
         \E t \in Threads : pc[t] \in InSync /\ cur[t] = r

\* A request in flight is pending or awaited.
FlightInv ==
  \A r \in InFlight :
    r \in pending \/ \E t \in Threads : AwaitedBy(t, r)

\* What the helper's system call works on.
SyscallInv ==
  /\ wpc \in {"read", "callback", "sync_callback", "set_done"} =>
       wreq \in Requests
  /\ wpc = "sync_callback" => callback[wreq] = "sync_callback"
  /\ wpc = "set_done" => /\ wreq \notin InFlight
                         /\ \E t \in Threads :
                              AwaitedBy(t, wreq) /\ data[t] = wdata

\* Ids are drawn in increasing order; an allocated request has one.
IdInv ==
  /\ UniqueIds
  /\ \A r \in Requests : /\ id[r] <= rid_sequence
                         /\ owner[r] # NULL => id[r] # Unconstructed

\* The helper holds each request once, under the id it still has, and the
\* request is in rtdreqs, or in the read that is about to put it there.
HeldInv ==
  /\ \A i, j \in DOMAIN held : held[i].r = held[j].r => i = j
  /\ \A i \in DOMAIN held :
       /\ held[i].id = id[held[i].r]
       /\ \/ \E j \in DOMAIN rtdreqs : rtdreqs[j] = held[i].r
          \/ wpc = "read" /\ i = Len(held) /\ held[i].r = wreq
  /\ wpc = "read" => held # <<>> /\ held[Len(held)].r = wreq

\* The inductive invariant: the transport keeps every request in one place
\* and every call's data with the thread that waits for it.
DeviceInv ==
  /\ TypeOK
  /\ InFlightOnce
  /\ NoLostWakeup
  /\ AsyncInv
  /\ SyncInv
  /\ DoneInv
  /\ DataInv
  /\ CallbackInv
  /\ FlightInv
  /\ SyscallInv
  /\ IdInv
  /\ HeldInv

\* What is left of it with signals (SignalSpec): each sync call has data of its
\* own, and no sleeping thread misses that its data is done.
WakeupInv ==
  /\ pc \in [Threads -> PCs]
  /\ done \in [Data -> {0, 1}]
  /\ freedata \subseteq Data
  /\ \A t \in Threads : pc[t] \in InSync => data[t] \in Data \ freedata
  /\ data \in [Threads -> Data \cup {NULL}]
  /\ DataInv
  /\ NoLostWakeup

=============================================================================
