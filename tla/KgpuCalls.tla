----------------------------- MODULE KgpuCalls ------------------------------
(***************************************************************************)
(* What the kgpu API promises its clients about the calls on each request, *)
(* whoever serves them: a call is answered at most once, with a result     *)
(* that is then the request's errcode; a sync call returns after that.     *)
(***************************************************************************)
EXTENDS Naturals

CONSTANTS Requests, ErrCodes, NULL

VARIABLES
  phase,   \* of each request: "rest", "called", or "answered" (a sync call
           \* that has yet to return)
  result   \* the errcode of the last call, and NULL during one

Init ==
  /\ phase = [r \in Requests |-> "rest"]
  /\ result = [r \in Requests |-> 0]

Call(r) ==
  /\ phase[r] = "rest"
  /\ phase' = [phase EXCEPT ![r] = "called"]
  /\ result' = [result EXCEPT ![r] = NULL]

\* The callback: an async call is over, a sync call can return.
Answer(r) ==
  /\ phase[r] = "called"
  /\ \E next \in {"rest", "answered"} : phase' = [phase EXCEPT ![r] = next]
  /\ \E err \in ErrCodes : result' = [result EXCEPT ![r] = err]

Return(r) ==
  /\ phase[r] = "answered"
  /\ phase' = [phase EXCEPT ![r] = "rest"]
  /\ UNCHANGED result

\* A request allocated from a fresh slab has no errcode.
Construct(r) ==
  /\ phase[r] = "rest"
  /\ result' = [result EXCEPT ![r] = 0]
  /\ UNCHANGED phase

Next == \E r \in Requests : Call(r) \/ Answer(r) \/ Return(r) \/ Construct(r)

Spec == Init /\ [][Next]_<<phase, result>>

=============================================================================
