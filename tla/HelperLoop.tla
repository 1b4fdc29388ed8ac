----------------------------- MODULE HelperLoop -----------------------------
(***************************************************************************)
(* The helper of KgpuHelper in front of a device that hands it every       *)
(* request once, with distinct ids (KgpuDevice shows that the kernel does) *)
(* and takes its answers.                                                  *)
(***************************************************************************)
EXTENDS KgpuHelper

CONSTANT Arriving   \* the requests the device may hand over
ASSUME ArrivingAssumption == Arriving \subseteq KuRequests

VARIABLES
  arrived,   \* ids handed over so far
  ok,        \* history: the services' calls that have succeeded, by id
  answer     \* history: the errcodes written to the device, by id

vars == <<all_reqs, lists, sr, streamuses, gpu, pinned, hpc, todo, arrived, ok, answer>>

Ops == {"prepare", "launch", "post"}

TypeOK ==
  /\ HelperTypeOK
  /\ arrived \subseteq Ids
  /\ ok \in [Ids -> SUBSET Ops]
  /\ answer \in [Ids -> Seq(Nat)]

Init ==
  /\ HelperInit
  /\ arrived = {}
  /\ ok = [i \in Ids |-> {}]
  /\ answer = [i \in Ids |-> <<>>]

\* A call of a service's function counts once the request has moved on to the
\* list that only its success leads to.
Passed == [prepare |-> "prepared", launch |-> "running", post |-> "post_exec"]

\* poll and read succeed.  The helper does nothing with an id but send it back,
\* so it is enough that they come in one order.
Read == \E kureq \in Arriving :
  /\ kureq.id \notin arrived /\ \A i \in Ids \ arrived : kureq.id <= i
  /\ arrived' = arrived \cup {kureq.id}
  /\ kh_init_service_request(kureq)
  /\ UNCHANGED <<ok, answer>>

\* poll times out.
Poll == kh_get_nothing /\ UNCHANGED <<arrived, ok, answer>>

Respond == \E i \in Ids :
  /\ kh_send_response(i)
  /\ answer' = [answer EXCEPT ![i] = Append(@, sr[i].errcode)]
  /\ UNCHANGED <<arrived, ok>>

Work ==
  /\ HelperStep
  /\ ok' = [i \in Ids |-> ok[i] \cup { o \in Ops : i \in Range(lists'[Passed[o]]) }]
  /\ UNCHANGED <<arrived, answer>>

GpuStep(s) == GpuCompletes(s) /\ UNCHANGED <<arrived, ok, answer>>

Helper == Read \/ Poll \/ Respond \/ Work

Next == Helper \/ \E s \in Streams : GpuStep(s)

Spec == Init /\ [][Next]_vars

\* The helper's thread runs whenever it can, and the GPU completes its work.
Fairness == WF_vars(Helper) /\ \A s \in Streams : WF_vars(GpuStep(s))

FairSpec == Spec /\ Fairness

-----------------------------------------------------------------------------
\* An answer with errcode 0 means that prepare, launch and post have all
\* succeeded and that the GPU has finished with the request: no copy into its
\* memory is outstanding when the client is told that the call is complete.
SuccessIsComplete ==
  \A i \in Ids : answer[i] # <<>> /\ answer[i][1] = 0 =>
    /\ ok[i] = Ops
    /\ \A s \in Streams : i \notin Range(gpu[s])

\* No request is answered twice, and a request leaves the helper only
\* answered: kh_service_done is reached once on every path, the failing ones
\* included.
AnsweredOnce ==
  \A i \in Ids : /\ Len(answer[i]) <= 1
                 /\ i \in arrived \ Live => Len(answer[i]) = 1

\* Every request the helper has read is answered: none is forgotten on a list,
\* and neither the passes that end after one request nor a full stream pool
\* starve one.
EveryRequestAnswered ==
  \A i \in Ids : i \in arrived ~> answer[i] # <<>>

=============================================================================
