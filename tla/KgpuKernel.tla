----------------------------- MODULE KgpuKernel -----------------------------
(***************************************************************************)
(* The request transport of the kgpu kernel module (kernelSpace/main.c):   *)
(* kernel threads submit GPU requests with kgpu_call_async and             *)
(* kgpu_call_sync; the userspace helper takes them from the device with    *)
(* read and answers them with write, and the answer runs the request's     *)
(* callback inside the write.                                              *)
(*                                                                         *)
(* The steps are cut where another thread can get in between: a section    *)
(* under a spinlock is one step, and the unlocked reads of kgpudev.state,  *)
(* of a request's callback and kdata, and the write of data->done are      *)
(* steps of their own.  Next-state relations are in the modules that       *)
(* extend this one: they say what the other side of the device does.       *)
(***************************************************************************)
EXTENDS LinkedLists

CONSTANTS
  Threads,     \* kernel threads that use the exported API
  Requests,    \* objects of kgpu_request_cache
  Data,        \* objects of kgpu_sync_call_data_cache
  NULL,        \* no thread, no request, no data
  ClientData,  \* what a client keeps in req->kdata: its own object
  MaxInt,      \* the largest int: 2^31 - 1 in the code
  MaxIds,      \* bound: no new id is drawn once rid_sequence reaches it
  Stoppable    \* whether KGPU_IOC_SET_STOP is ever issued

ASSUME KernelAssumption ==
  /\ NULL \notin Threads \cup Requests \cup Data
  /\ ClientData \notin Data
  /\ MaxInt \in Nat /\ MaxIds \in Nat
  /\ Stoppable \in BOOLEAN

VARIABLES
  state,         \* kgpudev.state
  rid_sequence,  \* kgpudev.rid_sequence
  reqs,          \* kgpudev.reqs: the submitted requests, oldest first
  rtdreqs,       \* kgpudev.rtdreqs: the requests the helper has read
  owner,         \* the thread a request object is allocated to, or NULL
  id, callback, kdata, errcode,  \* the fields of each request object
  pending,       \* async requests whose owner still waits for the callback
  freedata,      \* free objects of kgpu_sync_call_data_cache
  done, old,     \* data->done; data->oldkdata and data->oldcallback
  pc, cur, data, \* of each thread: where it is, its req and its sync data
  wpc, wreq, wdata  \* of the helper inside read or write: the same

device  == <<state, rid_sequence, reqs, rtdreqs>>
objects == <<owner, id, callback, kdata, errcode, pending>>
syncs   == <<freedata, done, old>>
threads == <<pc, cur, data>>
syscall == <<wpc, wreq, wdata>>
kvars   == <<device, objects, syncs, threads, syscall>>

KGPU_OK          == 0
KGPU_NO_RESPONSE == 1
KGPU_NO_SERVICE  == 2
KGPU_TERMINATED  == 3

Unconstructed == -1   \* the id of an object whose slab does not exist yet

\* What the clients' callbacks do with the request: free it (callgpu, calg2)
\* or tell the thread that submitted it (sysbm).
ClientCallbacks == {"mycb_free", "mycb_complete"}
Callbacks       == ClientCallbacks \cup {"sync_callback"}

InSync == {"sync_enqueue", "sync_wait", "sync_sleep", "sync_return"}
PCs    == {"client", "async_enqueue"} \cup InSync
WPCs   == {"user", "read", "callback", "sync_callback", "set_done", "wake"}

KernelTypeOK ==
  /\ state \in {KGPU_OK, KGPU_TERMINATED}
  /\ rid_sequence \in 0..MaxInt
  /\ reqs \in Seq(Requests) /\ rtdreqs \in Seq(Requests)
  /\ owner \in [Requests -> Threads \cup {NULL}]
  /\ id \in [Requests -> Int]
  /\ callback \in [Requests -> Callbacks]
  /\ kdata \in [Requests -> Data \cup {ClientData}]
  /\ errcode \in [Requests -> Nat]
  /\ pending \subseteq Requests
  /\ freedata \subseteq Data
  /\ done \in [Data -> {0, 1}]
  /\ old \in [Data -> [kdata : Data \cup {ClientData}, callback : Callbacks]]
  /\ pc \in [Threads -> PCs]
  /\ cur \in [Threads -> Requests \cup {NULL}]
  /\ data \in [Threads -> Data \cup {NULL}]
  /\ wpc \in WPCs
  /\ wreq \in Requests \cup {NULL}
  /\ wdata \in Data \cup {ClientData, NULL}

\* kgpu_init, as far as the transport is concerned.
KernelInit ==
  /\ state = KGPU_OK /\ rid_sequence = 0
  /\ reqs = <<>> /\ rtdreqs = <<>>
  /\ owner = [r \in Requests |-> NULL]
  /\ id = [r \in Requests |-> Unconstructed]
  /\ callback = [r \in Requests |-> "mycb_free"]
  /\ kdata = [r \in Requests |-> ClientData]
  /\ errcode = [r \in Requests |-> 0]
  /\ pending = {}
  /\ freedata = Data
  /\ done = [d \in Data |-> 0]
  /\ old = [d \in Data |-> [kdata |-> ClientData, callback |-> "mycb_free"]]
  /\ pc = [t \in Threads |-> "client"]
  /\ cur = [t \in Threads |-> NULL]
  /\ data = [t \in Threads |-> NULL]
  /\ wpc = "user" /\ wreq = NULL /\ wdata = NULL

-----------------------------------------------------------------------------
(***************************************************************************)
(* Request objects and their ids.                                          *)
(***************************************************************************)

\* kgpu_next_request_id: the id it returns, which is the new rid_sequence.
\* An overflowing int becomes negative and is then set to 0.
NextRequestId == IF rid_sequence >= MaxInt THEN 0 ELSE rid_sequence + 1

\* kgpu_request_constructor draws the id when the slab page is populated,
\* not when the object is allocated.
ConstructRequest(r) ==
  /\ rid_sequence < MaxIds
  /\ rid_sequence' = NextRequestId
  /\ id' = [id EXCEPT ![r] = NextRequestId]
  /\ errcode' = [errcode EXCEPT ![r] = 0]

\* kgpu_alloc_request: the object comes from a fresh slab page, or it is one
\* that was freed earlier and still has its old contents, id included.  The
\* client then sets callback and kdata.
kgpu_alloc_request(t, r, cb) ==
  /\ pc[t] = "client"
  /\ owner[r] = NULL
  /\ \/ ConstructRequest(r)
     \/ /\ id[r] # Unconstructed
        /\ UNCHANGED <<rid_sequence, id, errcode>>
  /\ owner' = [owner EXCEPT ![r] = t]
  /\ callback' = [callback EXCEPT ![r] = cb]
  /\ kdata' = [kdata EXCEPT ![r] = ClientData]
  /\ UNCHANGED <<state, reqs, rtdreqs, pending, syncs, threads, syscall>>

\* A thread works on a request of its own that it takes to be at rest: no
\* async call on it is pending and no sync call is being executed.
AtRest(t, r) ==
  /\ pc[t] = "client"
  /\ owner[r] = t
  /\ r \notin pending

kgpu_free_request(t, r) ==
  /\ AtRest(t, r)
  /\ owner' = [owner EXCEPT ![r] = NULL]
  /\ UNCHANGED <<device, id, callback, kdata, errcode, pending, syncs,
                 threads, syscall>>

\* A client that uses one object for several calls gives it a new id for
\* each with the exported kgpu_next_request_id, as sysbm does.
RenewId(t, r) ==
  /\ AtRest(t, r)
  /\ rid_sequence < MaxIds
  /\ rid_sequence' = NextRequestId
  /\ id' = [id EXCEPT ![r] = NextRequestId]
  /\ UNCHANGED <<state, reqs, rtdreqs, owner, callback, kdata, errcode,
                 pending, syncs, threads, syscall>>

-----------------------------------------------------------------------------
(***************************************************************************)
(* The calls.  Both read kgpudev.state without a lock, allocate, and only  *)
(* then take reqlock to enqueue.  A call that returns KGPU_TERMINATED or   *)
(* -ENOMEM before it has changed anything is no step here.                 *)
(***************************************************************************)

\* The test of kgpudev.state at the head of both calls.
Accepting == state # KGPU_TERMINATED

\* kgpu_call_async up to the spinlock.
kgpu_call_async(t, r) ==
  /\ AtRest(t, r)
  /\ Accepting
  /\ pending' = pending \cup {r}
  /\ pc' = [pc EXCEPT ![t] = "async_enqueue"]
  /\ cur' = [cur EXCEPT ![t] = r]
  /\ UNCHANGED <<device, owner, id, callback, kdata, errcode, syncs, data,
                 syscall>>

\* kgpu_call_async, under reqlock, and its return.
async_enqueue(t) ==
  /\ pc[t] = "async_enqueue"
  /\ reqs' = Append(reqs, cur[t])
  /\ pc' = [pc EXCEPT ![t] = "client"]
  /\ cur' = [cur EXCEPT ![t] = NULL]
  /\ UNCHANGED <<state, rid_sequence, rtdreqs, objects, syncs, data, syscall>>

\* Faulty variant: done is not cleared.
kgpu_call_sync_NoReset(t, r, d) ==
  /\ AtRest(t, r)
  /\ Accepting
  /\ d \in freedata
  /\ freedata' = freedata \ {d}
  /\ old' = [old EXCEPT ![d] = [kdata |-> kdata[r], callback |-> callback[r]]]
  /\ UNCHANGED done
  /\ kdata' = [kdata EXCEPT ![r] = d]
  /\ callback' = [callback EXCEPT ![r] = "sync_callback"]
  /\ pc' = [pc EXCEPT ![t] = "sync_enqueue"]
  /\ cur' = [cur EXCEPT ![t] = r]
  /\ data' = [data EXCEPT ![t] = d]
  /\ UNCHANGED <<device, owner, id, errcode, pending, syscall>>

\* kgpu_call_sync up to the spinlock: the request's kdata and callback are
\* saved in the sync data and replaced.
kgpu_call_sync(t, r, d) ==
  /\ AtRest(t, r)
  /\ Accepting
  /\ d \in freedata
  /\ freedata' = freedata \ {d}
  /\ old' = [old EXCEPT ![d] = [kdata |-> kdata[r], callback |-> callback[r]]]
  /\ done' = [done EXCEPT ![d] = 0]
  /\ kdata' = [kdata EXCEPT ![r] = d]
  /\ callback' = [callback EXCEPT ![r] = "sync_callback"]
  /\ pc' = [pc EXCEPT ![t] = "sync_enqueue"]
  /\ cur' = [cur EXCEPT ![t] = r]
  /\ data' = [data EXCEPT ![t] = d]
  /\ UNCHANGED <<device, owner, id, errcode, pending, syscall>>

\* kgpu_call_sync when the second allocation, the item, fails: it returns
\* -ENOMEM and does not free the sync data.
kgpu_call_sync_nomem(t, r, d) ==
  /\ AtRest(t, r)
  /\ Accepting
  /\ d \in freedata
  /\ freedata' = freedata \ {d}
  /\ UNCHANGED <<device, objects, done, old, threads, syscall>>

\* kgpu_call_sync, under reqlock.
sync_enqueue(t) ==
  /\ pc[t] = "sync_enqueue"
  /\ reqs' = Append(reqs, cur[t])
  /\ pc' = [pc EXCEPT ![t] = "sync_wait"]
  /\ UNCHANGED <<state, rid_sequence, rtdreqs, objects, syncs, cur, data,
                 syscall>>

\* Faulty variant: the condition is not tested.
sync_wait_NoTest(t) ==
  /\ pc[t] = "sync_wait"
  /\ pc' = [pc EXCEPT ![t] = "sync_return"]
  /\ UNCHANGED <<device, objects, syncs, cur, data, syscall>>

\* wait_event_interruptible: the thread tests the condition, and sleeps if it
\* is false.  (It is on the wait queue before it tests, so a wake-up after
\* the test is not missed.)
sync_wait(t) ==
  /\ pc[t] = "sync_wait"
  /\ pc' = [pc EXCEPT ![t] = IF done[data[t]] = 1 THEN "sync_return"
                                                 ELSE "sync_sleep"]
  /\ UNCHANGED <<device, objects, syncs, cur, data, syscall>>

\* A signal: wait_event_interruptible tests once more and returns, 0 or
\* -ERESTARTSYS; kgpu_call_sync goes on in the same way after both.
sync_interrupted(t) ==
  /\ pc[t] \in {"sync_wait", "sync_sleep"}
  /\ pc' = [pc EXCEPT ![t] = "sync_return"]
  /\ UNCHANGED <<device, objects, syncs, cur, data, syscall>>

\* kgpu_call_sync after the wait: restore the request, free the data, return.
sync_return(t) ==
  /\ pc[t] = "sync_return"
  /\ kdata' = [kdata EXCEPT ![cur[t]] = old[data[t]].kdata]
  /\ callback' = [callback EXCEPT ![cur[t]] = old[data[t]].callback]
  /\ freedata' = freedata \cup {data[t]}
  /\ pc' = [pc EXCEPT ![t] = "client"]
  /\ cur' = [cur EXCEPT ![t] = NULL]
  /\ data' = [data EXCEPT ![t] = NULL]
  /\ UNCHANGED <<device, owner, id, errcode, pending, done, old, syscall>>

-----------------------------------------------------------------------------
(***************************************************************************)
(* The device file, called by the single-threaded helper.                  *)
(***************************************************************************)

\* kgpu_read under reqlock: take the oldest request; the id it has now is
\* copied to the helper.  (With an empty list read returns -EAGAIN or waits.)
kgpu_read ==
  /\ wpc = "user"
  /\ reqs # <<>>
  /\ wreq' = Head(reqs)
  /\ reqs' = Tail(reqs)
  /\ wpc' = "read"
  /\ UNCHANGED <<state, rid_sequence, rtdreqs, objects, syncs, threads, wdata>>

\* kgpu_read under rtdreqlock, and its return.
read_return ==
  /\ wpc = "read"
  /\ rtdreqs' = Append(rtdreqs, wreq)
  /\ wpc' = "user"
  /\ wreq' = NULL
  /\ UNCHANGED <<state, rid_sequence, reqs, objects, syncs, threads, wdata>>

\* Faulty variant: the id is not compared.
FoundAt_First(i, rid) ==
  /\ i \in DOMAIN rtdreqs
  /\ i = 1

\* find_request(rid, 1): the position of the first request read that has
\* this id now.
FoundAt(i, rid) ==
  /\ i \in DOMAIN rtdreqs
  /\ id[rtdreqs[i]] = rid
  /\ \A j \in 1..(i - 1) : id[rtdreqs[j]] # rid

\* Faulty variants: find_request(rid, 0); the errcode is not stored.
kgpu_write_KeepsItem(rid, err) ==
  /\ wpc = "user"
  /\ \E i \in DOMAIN rtdreqs :
       /\ FoundAt(i, rid)
       /\ UNCHANGED rtdreqs
       /\ errcode' = [errcode EXCEPT ![rtdreqs[i]] = err]
       /\ wreq' = rtdreqs[i]
  /\ wpc' = "callback"
  /\ UNCHANGED <<state, rid_sequence, reqs, owner, id, callback, kdata, pending,
                 syncs, threads, wdata>>

kgpu_write_NoErrcode(rid, err) ==
  /\ wpc = "user"
  /\ \E i \in DOMAIN rtdreqs :
       /\ FoundAt(i, rid)
       /\ rtdreqs' = DelAt(rtdreqs, i)
       /\ UNCHANGED errcode
       /\ wreq' = rtdreqs[i]
  /\ wpc' = "callback"
  /\ UNCHANGED <<state, rid_sequence, reqs, owner, id, callback, kdata, pending,
                 syncs, threads, wdata>>

\* kgpu_write of a response to the request with id rid, up to the callback.
kgpu_write(rid, err) ==
  /\ wpc = "user"
  /\ \E i \in DOMAIN rtdreqs :
       /\ FoundAt(i, rid)
       /\ rtdreqs' = DelAt(rtdreqs, i)
       /\ errcode' = [errcode EXCEPT ![rtdreqs[i]] = err]
       /\ wreq' = rtdreqs[i]
  /\ wpc' = "callback"
  /\ UNCHANGED <<state, rid_sequence, reqs, owner, id, callback, kdata, pending,
                 syncs, threads, wdata>>

\* kgpu_write returns -EFAULT: no request the helper has read has this id.
NotFound(rid) == \A i \in DOMAIN rtdreqs : id[rtdreqs[i]] # rid

\* item->r->callback(item->r): load the callback.  A client's callback runs
\* here as a whole, and frees the request or lets the client have it back.
invoke_callback ==
  /\ wpc = "callback"
  /\ \/ /\ callback[wreq] = "sync_callback"
        /\ wpc' = "sync_callback"
        /\ UNCHANGED <<owner, pending, wreq>>
     \/ /\ callback[wreq] \in ClientCallbacks
        /\ pending' = pending \ {wreq}
        /\ owner' = IF callback[wreq] = "mycb_free"
                     THEN [owner EXCEPT ![wreq] = NULL] ELSE owner
        /\ wpc' = "user"
        /\ wreq' = NULL
  /\ UNCHANGED <<device, id, callback, kdata, errcode, syncs, threads, wdata>>

\* sync_callback: data = req->kdata.
sync_callback ==
  /\ wpc = "sync_callback"
  /\ wdata' = kdata[wreq]
  /\ wpc' = "set_done"
  /\ UNCHANGED <<device, objects, syncs, threads, wreq>>

\* Faulty variant: the wake-up is missing.
set_done_NoWake ==
  /\ wpc = "set_done"
  /\ done' = [d \in Data |-> IF d = wdata THEN 1 ELSE done[d]]
  /\ wpc' = "user" /\ wreq' = NULL /\ wdata' = NULL
  /\ UNCHANGED <<device, objects, freedata, old, threads>>

\* sync_callback: data->done = 1.  If data is not a sync data object the
\* write goes into an object of the client.
set_done ==
  /\ wpc = "set_done"
  /\ done' = [d \in Data |-> IF d = wdata THEN 1 ELSE done[d]]
  /\ wpc' = "wake"
  /\ UNCHANGED <<device, objects, freedata, old, threads, wreq, wdata>>

\* sync_callback: wake_up_interruptible(&data->queue), and the return from
\* write.  The data may have been freed since, and be in use for another
\* call: then it is that call's thread that wakes up, and tests again.
wake_up ==
  /\ wpc = "wake"
  /\ pc' = [t \in Threads |-> IF pc[t] = "sync_sleep" /\ data[t] = wdata
                              THEN "sync_wait" ELSE pc[t]]
  /\ wpc' = "user" /\ wreq' = NULL /\ wdata' = NULL
  /\ UNCHANGED <<device, objects, syncs, cur, data>>

\* kgpu_ioctl(KGPU_IOC_SET_STOP): terminate_all_requests, which sets the
\* state, without a lock, and touches no request.
terminate_all_requests ==
  /\ Stoppable
  /\ wpc = "user"
  /\ state' = KGPU_TERMINATED
  /\ UNCHANGED <<rid_sequence, reqs, rtdreqs, objects, syncs, threads, syscall>>

\* A step of thread t inside the API, and one of a client between two calls.
InCall(t) ==
  \/ async_enqueue(t)
  \/ sync_enqueue(t)
  \/ sync_wait(t)
  \/ sync_return(t)

BetweenCalls(t) ==
  \E r \in Requests :
    \/ \E cb \in ClientCallbacks : kgpu_alloc_request(t, r, cb)
    \/ kgpu_free_request(t, r)
    \/ RenewId(t, r)
    \/ kgpu_call_async(t, r)
    \/ \E d \in Data : kgpu_call_sync(t, r, d) \/ kgpu_call_sync_nomem(t, r, d)

\* The rest of a system call the helper is in.
SyscallStep ==
  \/ read_return
  \/ invoke_callback
  \/ sync_callback
  \/ set_done
  \/ wake_up

-----------------------------------------------------------------------------
(***************************************************************************)
(* What the transport looks like to a client: the refinement mapping to    *)
(* KgpuCalls.                                                              *)
(***************************************************************************)

\* The call on r: under way until its callback runs (or, in a sync call, has
\* set done), then over, or not yet returned.
Phase(r) ==
  IF r \in pending THEN "called"
  ELSE IF \E t \in Threads : pc[t] \in InSync /\ cur[t] = r
       THEN IF \E t \in Threads : pc[t] \in InSync /\ cur[t] = r /\ done[data[t]] = 1
            THEN "answered" ELSE "called"
       ELSE "rest"

CallPhases  == [r \in Requests |-> Phase(r)]
CallResults == [r \in Requests |-> IF Phase(r) = "called" THEN NULL ELSE errcode[r]]

=============================================================================
