----------------------------- MODULE KgpuSystem -----------------------------
(***************************************************************************)
(* The kernel transport and the helper together: what the device hands to  *)
(* the helper and takes from it are the system calls of the main loop.     *)
(***************************************************************************)
EXTENDS KgpuKernel, KgpuHelper

CONSTANT Kinds   \* the services and the memory that clients use together

ASSUME SystemAssumption ==
  /\ Ids = 0..MaxInt
  /\ Kinds \subseteq [service : Services, mem : Memory]

VARIABLES
  asks,   \* what each request asks for: the same in all calls on it
  kureq   \* the kgpu_ku_request that a read is copying to the helper

system == <<asks, kureq>>
vars == <<kvars, hvars, system>>

\* fill_ku_request
KuRequest(r) == [id |-> id[r], service |-> asks[r].service, mem |-> asks[r].mem]

Init ==
  /\ KernelInit
  /\ HelperInit
  /\ asks \in [Requests -> Kinds]
  /\ kureq = NULL

Client(t) == BetweenCalls(t) /\ UNCHANGED <<hvars, system>>

Call(t) == InCall(t) /\ UNCHANGED <<hvars, system>>

\* kh_get_next_service_request: poll (kgpu_poll) reports a request; read.
Read ==
  /\ hpc = "get"
  /\ kgpu_read
  /\ kureq' = KuRequest(Head(reqs))
  /\ UNCHANGED <<hvars, asks>>

Got ==
  /\ read_return
  /\ kh_init_service_request(kureq)
  /\ kureq' = NULL
  /\ UNCHANGED asks

\* poll reports no request.
Poll ==
  /\ wpc = "user"
  /\ reqs = <<>>
  /\ kh_get_nothing
  /\ UNCHANGED <<kvars, system>>

\* kh_service_done, up to the callback in kgpu_write.
Respond == \E i \in Ids :
  /\ kh_send_response(i)
  /\ kgpu_write(i, sr[i].errcode)
  /\ UNCHANGED system

\* The rest of the write.
Callback ==
  /\ invoke_callback \/ sync_callback \/ set_done \/ wake_up
  /\ UNCHANGED <<hvars, system>>

Work ==
  /\ wpc = "user"
  /\ HelperStep
  /\ UNCHANGED <<kvars, system>>

Helper == Read \/ Got \/ Poll \/ Respond \/ Callback \/ Work

GpuStep(s) == GpuCompletes(s) /\ UNCHANGED <<kvars, system>>

Next ==
  \/ \E t \in Threads : Client(t) \/ Call(t)
  \/ Helper
  \/ \E s \in Streams : GpuStep(s)

Spec == Init /\ [][Next]_vars

\* A thread in a call and the helper run whenever they can, and the GPU
\* completes its work.  Nothing is assumed of clients between calls.
Fairness ==
  /\ \A t \in Threads : WF_vars(Call(t))
  /\ WF_vars(Helper)
  /\ \A s \in Streams : WF_vars(GpuStep(s))

FairSpec == Spec /\ Fairness

-----------------------------------------------------------------------------
\* The helper's books and the kernel's are the same: rtdreqs holds exactly the
\* requests that the helper has read and not yet written an answer for.  So
\* kgpu_write finds every id that is answered; ssc() would end the helper.
BooksAgree ==
  LET answered == IF hpc = "cleanup" THEN {Head(todo)} ELSE {} IN
  { id[r] : r \in Range(rtdreqs) } = Range(all_reqs) \ answered

\* A client's errcode says what happened to its own request:
\* KGPU_NO_SERVICE for a service that is not registered, and only for that.
ErrcodeIsItsOwn ==
  wpc = "callback" =>
    /\ errcode[wreq] = KGPU_NO_SERVICE <=> asks[wreq].service \notin Registered
    /\ errcode[wreq] \in ServErrs \cup {0, KGPU_NO_SERVICE}

\* When a callback tells a client that its call has succeeded, the GPU has
\* finished all that was queued for the call.  What an earlier call on the same
\* request left behind when it failed is not the call's.
NoWorkLeftOnSuccess ==
  wpc = "callback" /\ errcode[wreq] = 0 =>
    \A s \in Streams : id[wreq] \notin Range(gpu[s])

ErrCodes == ServErrs \cup {0, KGPU_NO_SERVICE}

Calls == INSTANCE KgpuCalls WITH phase <- CallPhases, result <- CallResults

\* The whole system implements the calls of KgpuCalls.
ImplementsCalls == Calls!Spec

\* Every call is answered: an async call has its callback run, a sync call
\* returns.
EveryCallReturns ==
  \A r \in Requests : (Phase(r) # "rest") ~> (Phase(r) = "rest")

=============================================================================
