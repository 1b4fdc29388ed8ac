----------------------------- MODULE KgpuHelper -----------------------------
(***************************************************************************)
(* The userspace helper (userSpace/helper.c) on the CUDA backend           *)
(* (gpuSpace/cudaOperations.cu): a single thread that turns round its main *)
(* loop and moves every request it has read from one list to the next,     *)
(* with a stream of the GPU held in between.                               *)
(*                                                                         *)
(* One step of the helper is one call of a kh_ function on one request;    *)
(* kh_service_done is two, before and after the write system call.  What   *)
(* is on the other side of the device is in the modules that extend this.  *)
(***************************************************************************)
EXTENDS LinkedLists

CONSTANTS
  Ids,         \* request ids
  Services,    \* service names requests ask for
  Registered,  \* those that kh_lookup_service finds
  NStreams,    \* MAX_STREAM_NR: 8 in the code
  MaxWork,     \* bound: a call that queues work on a stream with so much waits
  ServErrs     \* non-zero results of the services' prepare, launch and post

ASSUME HelperAssumption ==
  /\ Ids \subseteq Nat
  /\ Services # {} /\ Registered \subseteq Services
  /\ NStreams \in Nat \ {0} /\ MaxWork \in Nat \ {0}
  /\ ServErrs \subseteq Nat \ {0}

Streams == 0..(NStreams - 1)
NoStream == -1
NoRequest == -1

\* The memory a request's in, out and data are in: the pool the helper gives
\* to the kernel at start, or pages mapped into the helper for the request.
Memory == {"pool", "vma"}

\* Those the GPU may work for.
Owners == Ids \cup {NoRequest}

KuRequests == [id : Ids, service : Services, mem : Memory]

Lists  == {"init", "memdone", "prepared", "running", "post_exec", "done"}
Stages == Lists \cup {"get"}

VARIABLES
  all_reqs,    \* the ids of the requests read and not finished, by age
  lists,       \* init_reqs, memdone_reqs, ...: the same, by progress
  sr,          \* the service request of each id
  streamuses,  \* the streams in use
  gpu,         \* of each stream: the requests its outstanding work belongs to,
               \* NoRequest if they are finished
  pinned,      \* ids whose memory is registered with cudaHostRegister
  hpc, todo    \* the stage of the main loop, and what is left of its pass

hvars == <<all_reqs, lists, sr, streamuses, gpu, pinned, hpc, todo>>

ServiceRequests ==
  [service : Services, mem : Memory, errcode : Nat, stream_id : Streams \cup {NoStream}]

HelperTypeOK ==
  /\ all_reqs \in Seq(Ids)
  /\ lists \in [Lists -> Seq(Ids)]
  /\ sr \in [Ids -> ServiceRequests]
  /\ streamuses \subseteq Streams
  /\ gpu \in [Streams -> Seq(Owners)]
  /\ pinned \subseteq Ids
  /\ hpc \in Stages \cup {"cleanup", "aborted"}
  /\ todo \in Seq(Ids)

\* An id that no service request has: any value will do.
Freed == [service |-> CHOOSE s \in Services : TRUE, mem |-> "pool",
          errcode |-> 0, stream_id |-> NoStream]

\* kh_init and gpu_init, and the start of the main loop.
HelperInit ==
  /\ all_reqs = <<>>
  /\ lists = [l \in Lists |-> <<>>]
  /\ sr = [i \in Ids |-> Freed]
  /\ streamuses = {}
  /\ gpu = [s \in Streams |-> <<>>]
  /\ pinned = {}
  /\ hpc = "done" /\ todo = <<>>

-----------------------------------------------------------------------------
(***************************************************************************)
(* The main loop: kh_main_loop and __kh_process_request.                   *)
(***************************************************************************)

Following == [done |-> "post_exec", post_exec |-> "running", running |-> "prepared",
              prepared |-> "memdone", memdone |-> "init", init |-> "get", get |-> "done"]

\* These stages end their pass at the first call that returns 0.
Once == {"running", "prepared", "memdone"}

\* Begin the pass after stage s over its list, as this step leaves it.
Begin(s) ==
  /\ hpc' = Following[s]
  /\ todo' = IF Following[s] = "get" THEN <<>> ELSE lists'[Following[s]]

\* A call in stage s has returned r: go on with the pass or end it.
GoOn(s, r) ==
  IF Len(todo) = 1 \/ (r = 0 /\ s \in Once)
  THEN Begin(s)
  ELSE hpc' = s /\ todo' = Tail(todo)

\* A pass over an empty list.
EmptyPass ==
  /\ hpc \in Lists
  /\ todo = <<>>
  /\ UNCHANGED <<all_reqs, lists, sr, streamuses, gpu, pinned>>
  /\ Begin(hpc)

\* The request that the pass of stage s is at.
At(s, i) == hpc = s /\ todo # <<>> /\ i = Head(todo)

\* Faulty variant: list_del is missing.
Move_NoDel(i, from, to) ==
  lists' = [lists EXCEPT ![to] = Append(@, i)]

\* list_del and list_add_tail.
Move(i, from, to) ==
  lists' = [lists EXCEPT ![from] = list_del(@, i), ![to] = Append(@, i)]

\* Faulty variant: a negative error code, as the kernel uses.
kh_fail_request_Negative(i, from, err) ==
  /\ sr' = [sr EXCEPT ![i].errcode = -err]
  /\ Move(i, from, "done")

\* kh_fail_request
kh_fail_request(i, from, err) ==
  /\ sr' = [sr EXCEPT ![i].errcode = err]
  /\ Move(i, from, "done")

-----------------------------------------------------------------------------
(***************************************************************************)
(* The stages.                                                             *)
(***************************************************************************)

\* kh_get_next_service_request, when the read has returned kureq:
\* kh_init_service_request.
kh_init_service_request(kureq) ==
  /\ hpc = "get"
  /\ all_reqs' = Append(all_reqs, kureq.id)
  /\ LET found == kureq.service \in Registered IN
     /\ sr' = [sr EXCEPT ![kureq.id] =
                 [service |-> kureq.service, mem |-> kureq.mem, stream_id |-> NoStream,
                  errcode |-> IF found THEN 0 ELSE 2]]
     /\ lists' = [lists EXCEPT ![IF found THEN "init" ELSE "done"] = Append(@, kureq.id)]
  /\ Begin("get")
  /\ UNCHANGED <<streamuses, gpu, pinned>>

\* Faulty variant: the test of all_reqs is the wrong way round.
kh_get_nothing_Swapped ==
  /\ hpc = "get"
  /\ all_reqs = <<>>
  /\ UNCHANGED <<all_reqs, lists, sr, streamuses, gpu, pinned>>
  /\ Begin("get")

\* kh_get_next_service_request when poll reports nothing: it waits as long as
\* all_reqs is empty, and does not wait at all otherwise.
kh_get_nothing ==
  /\ hpc = "get"
  /\ all_reqs # <<>>
  /\ UNCHANGED <<all_reqs, lists, sr, streamuses, gpu, pinned>>
  /\ Begin("get")

\* Faulty variant: the memory is not pinned.
kh_request_alloc_mem_NoPin(i) ==
  /\ At("init", i)
  /\ UNCHANGED pinned
  /\ Move(i, "init", "memdone")
  /\ GoOn("init", 0)
  /\ UNCHANGED <<all_reqs, sr, streamuses, gpu>>

\* kh_request_alloc_mem: gpu_alloc_device_mem pins memory that is not in the
\* pool.
kh_request_alloc_mem(i) ==
  /\ At("init", i)
  /\ pinned' = IF sr[i].mem = "vma" THEN pinned \cup {i} ELSE pinned
  /\ Move(i, "init", "memdone")
  /\ GoOn("init", 0)
  /\ UNCHANGED <<all_reqs, sr, streamuses, gpu>>

\* gpu_alloc_stream: the first stream not in use.
FreeStreams == Streams \ streamuses
FirstFree == { s \in FreeStreams : \A u \in FreeStreams : s <= u }

\* A service queues work for request i on stream s.
Queue(s, i) ==
  /\ Len(gpu[s]) < MaxWork
  /\ gpu' = [gpu EXCEPT ![s] = Append(@, i)]

\* kh_prepare_exec without a free stream: the request stays where it is.
no_stream(i) ==
  /\ At("memdone", i)
  /\ FreeStreams = {}
  /\ UNCHANGED <<all_reqs, lists, sr, streamuses, gpu, pinned>>
  /\ GoOn("memdone", -1)

\* kh_prepare_exec: the service's prepare starts a copy to the GPU.  If it
\* fails, before or after that, the request keeps the stream until it is done.
kh_prepare_exec(i) ==
  /\ At("memdone", i)
  /\ \E s \in FirstFree :
       /\ streamuses' = streamuses \cup {s}
       /\ \/ /\ sr' = [sr EXCEPT ![i].stream_id = s]
             /\ Queue(s, i)
             /\ Move(i, "memdone", "prepared")
             /\ GoOn("memdone", 0)
          \/ \E err \in ServErrs :
               /\ sr' = [sr EXCEPT ![i].stream_id = s, ![i].errcode = err]
               /\ Queue(s, i) \/ UNCHANGED gpu
               /\ Move(i, "memdone", "done")
               /\ GoOn("memdone", err)
  /\ UNCHANGED <<all_reqs, pinned>>

\* kh_launch_exec: it returns 0 also when the launch has failed.
kh_launch_exec(i) ==
  /\ At("prepared", i)
  /\ \/ /\ Queue(sr[i].stream_id, i)
        /\ Move(i, "prepared", "running")
        /\ UNCHANGED sr
     \/ \E err \in ServErrs : kh_fail_request(i, "prepared", err) /\ UNCHANGED gpu
  /\ GoOn("prepared", 0)
  /\ UNCHANGED <<all_reqs, streamuses, pinned>>

\* gpu_execution_finished and gpu_post_finished: __check_stream_done asks
\* CUDA whether all work of the stream is complete.
StreamDone(s) == gpu[s] = <<>>

\* kh_post_exec
kh_post_exec(i) ==
  /\ At("running", i)
  /\ \/ /\ ~StreamDone(sr[i].stream_id)
        /\ UNCHANGED <<lists, sr, gpu>>
        /\ GoOn("running", 1)
     \/ /\ StreamDone(sr[i].stream_id)
        /\ Queue(sr[i].stream_id, i)
        /\ Move(i, "running", "post_exec")
        /\ GoOn("running", 0)
        /\ UNCHANGED sr
     \/ /\ StreamDone(sr[i].stream_id)
        /\ \E err \in ServErrs : kh_fail_request(i, "running", err) /\ GoOn("running", err)
        /\ UNCHANGED gpu
  /\ UNCHANGED <<all_reqs, streamuses, pinned>>

\* Faulty variant: the copy back is not waited for.
kh_finish_post_NoWait(i) ==
  /\ At("post_exec", i)
  /\ Move(i, "post_exec", "done")
  /\ GoOn("post_exec", 0)
  /\ UNCHANGED <<all_reqs, sr, streamuses, gpu, pinned>>

\* kh_finish_post
kh_finish_post(i) ==
  /\ At("post_exec", i)
  /\ IF StreamDone(sr[i].stream_id)
     THEN Move(i, "post_exec", "done") /\ GoOn("post_exec", 0)
     ELSE UNCHANGED lists /\ GoOn("post_exec", 1)
  /\ UNCHANGED <<all_reqs, sr, streamuses, gpu, pinned>>

\* kh_service_done, first half: kh_send_response.
kh_send_response(i) ==
  /\ At("done", i)
  /\ hpc' = "cleanup"
  /\ UNCHANGED <<all_reqs, lists, sr, streamuses, gpu, pinned, todo>>

\* kh_service_done, second half: gpu_free_device_mem unpins memory that is
\* not in the pool, and CUDA reports an error if it was never pinned, which
\* csc() turns into an abort.
UnpinFails(i) == sr[i].mem = "vma" /\ i \notin pinned

\* What the GPU still does for a request that has failed goes on without it: its
\* id may come back with another call, and with other memory.
Disown(i) ==
  gpu' = [s \in Streams |-> [k \in DOMAIN gpu[s] |->
            IF gpu[s][k] = i THEN NoRequest ELSE gpu[s][k]]]

\* Faulty variants: the stream is not freed; the memory is not unpinned; the
\* request is not taken off done_reqs.
kh_service_done_KeepsStream(i) ==
  /\ hpc = "cleanup" /\ i = Head(todo)
  /\ lists' = [lists EXCEPT !["done"] = list_del(@, i)]
  /\ all_reqs' = list_del(all_reqs, i)
  /\ IF UnpinFails(i)
     THEN hpc' = "aborted" /\ UNCHANGED <<sr, pinned, streamuses, todo>>
     ELSE /\ pinned' = pinned \ {i}
          /\ UNCHANGED streamuses
          /\ sr' = [sr EXCEPT ![i] = Freed]
          /\ GoOn("done", 0)
  /\ Disown(i)

kh_service_done_KeepsPins(i) ==
  /\ hpc = "cleanup" /\ i = Head(todo)
  /\ lists' = [lists EXCEPT !["done"] = list_del(@, i)]
  /\ all_reqs' = list_del(all_reqs, i)
  /\ IF UnpinFails(i)
     THEN hpc' = "aborted" /\ UNCHANGED <<sr, pinned, streamuses, todo>>
     ELSE /\ UNCHANGED pinned
          /\ streamuses' = streamuses \ {sr[i].stream_id}
          /\ sr' = [sr EXCEPT ![i] = Freed]
          /\ GoOn("done", 0)
  /\ Disown(i)

kh_service_done_KeepsItem(i) ==
  /\ hpc = "cleanup" /\ i = Head(todo)
  /\ UNCHANGED lists
  /\ all_reqs' = list_del(all_reqs, i)
  /\ IF UnpinFails(i)
     THEN hpc' = "aborted" /\ UNCHANGED <<sr, pinned, streamuses, todo>>
     ELSE /\ pinned' = pinned \ {i}
          /\ streamuses' = streamuses \ {sr[i].stream_id}
          /\ sr' = [sr EXCEPT ![i] = Freed]
          /\ GoOn("done", 0)
  /\ Disown(i)

kh_service_done(i) ==
  /\ hpc = "cleanup" /\ i = Head(todo)
  /\ lists' = [lists EXCEPT !["done"] = list_del(@, i)]
  /\ all_reqs' = list_del(all_reqs, i)
  /\ IF UnpinFails(i)
     THEN hpc' = "aborted" /\ UNCHANGED <<sr, pinned, streamuses, todo>>
     ELSE /\ pinned' = pinned \ {i}
          /\ streamuses' = streamuses \ {sr[i].stream_id}
          /\ sr' = [sr EXCEPT ![i] = Freed]
          /\ GoOn("done", 0)
  /\ Disown(i)

\* The GPU completes the oldest work of a stream.
GpuCompletes(s) ==
  /\ gpu[s] # <<>>
  /\ gpu' = [gpu EXCEPT ![s] = Tail(@)]
  /\ UNCHANGED <<all_reqs, lists, sr, streamuses, pinned, hpc, todo>>

\* A step of the helper that involves no system call.
HelperStep ==
  \/ EmptyPass
  \/ \E i \in Ids : \/ kh_request_alloc_mem(i)
                    \/ no_stream(i)
                    \/ kh_prepare_exec(i)
                    \/ kh_launch_exec(i)
                    \/ kh_post_exec(i)
                    \/ kh_finish_post(i)
                    \/ kh_service_done(i)

-----------------------------------------------------------------------------
\* The requests that are not finished, and those on a list.
Live == Range(all_reqs)

On(l) == Range(lists[l])

\* Every unfinished request is on exactly one of the six lists, once, and the
\* lists hold nothing else; the pass under way has only requests of its own
\* list left.  The helper moves a request with list_del and list_add_tail while
\* list_for_each_safe walks over the list it leaves.
ListsPartitionLive ==
  /\ IsInjective(all_reqs)
  /\ \A l \in Lists : IsInjective(lists[l])
  /\ UNION { On(l) : l \in Lists } = Live
  /\ \A k, l \in Lists : k # l => On(k) \cap On(l) = {}
  /\ hpc \in Lists => Range(todo) \subseteq On(hpc)
  /\ hpc = "cleanup" => Range(todo) \subseteq On("done")

\* streamuses marks exactly the streams that unfinished requests hold, and no
\* two requests share one: no exit from the stages leaks a stream or frees the
\* stream of another request (gpu_alloc_stream, gpu_free_stream).
StreamsExclusive ==
  hpc # "aborted" =>
    LET Holders == { i \in Live : sr[i].stream_id # NoStream } IN
    /\ streamuses = { sr[i].stream_id : i \in Holders }
    /\ \A i, j \in Holders : sr[i].stream_id = sr[j].stream_id => i = j

\* The memory registered with CUDA is the mapped memory of the unfinished
\* requests that are past kh_request_alloc_mem: registered for as long as the
\* GPU may work on it, except for a request that failed, and no longer.
PinsBalanced ==
  hpc # "aborted" =>
    pinned = { i \in Live : sr[i].mem = "vma" /\ sr[i].service \in Registered
                            /\ i \notin On("init") }

\* CUDA accepts each of the helper's cudaHostUnregister calls: no answer makes
\* csc() end the process.
UnpinsWhatItPinned == hpc # "aborted"

=============================================================================
