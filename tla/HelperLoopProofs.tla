-------------------------- MODULE HelperLoopProofs --------------------------
(***************************************************************************)
(* The theorems about HelperLoop, for any numbers of requests and streams. *)
(* What the helper does with its requests is in KgpuHelperProofs; here are *)
(* the answers it gives and the calls of the services that led to them.    *)
(***************************************************************************)
EXTENDS HelperLoop, KgpuHelperProofs

\* Between the two halves of kh_service_done(i).
Answering(i) == hpc = "cleanup" /\ i = Head(todo)

\* The answers so far: none for a request that is not yet at kh_service_done.
AnswerInv ==
  /\ Live \subseteq arrived
  /\ \A i \in Ids :
       /\ i \notin arrived => answer[i] = <<>>
       /\ i \in Live /\ ~Answering(i) => answer[i] = <<>>
       /\ Answering(i) => Len(answer[i]) = 1 /\ answer[i][1] = sr[i].errcode
       /\ i \in arrived /\ i \notin Live => Len(answer[i]) = 1

\* The request is to be answered with 0, or was.
Succeeded(i) ==
  \/ i \in On("done") /\ sr[i].errcode = 0
  \/ i \in arrived /\ i \notin Live /\ answer[i][1] = 0

\* The calls of the service that a request is past.
ServedInv ==
  \A i \in Ids :
    /\ i \in On("prepared") => "prepare" \in ok[i]
    /\ i \in On("running") => "prepare" \in ok[i] /\ "launch" \in ok[i]
    /\ i \in On("post_exec") \/ Succeeded(i) =>
         "prepare" \in ok[i] /\ "launch" \in ok[i] /\ "post" \in ok[i]

\* The inductive invariant.
LoopInv == TypeOK /\ HelperInv /\ AnswerInv /\ ServedInv

-----------------------------------------------------------------------------
(***************************************************************************)
(* The steps.                                                              *)
(***************************************************************************)

\* The calls that have succeeded after a step of the helper.
Served ==
  ok' = [i \in Ids |-> ok[i] \cup { o \in Ops : i \in Range(lists'[Passed[o]]) }]

\* It adds the calls whose lists the requests are on.
LEMMA ServedSets ==
  ASSUME TypeOK, Served
  PROVE  /\ ok' \in [Ids -> SUBSET Ops]
         /\ \A i \in Ids : /\ \A o \in ok[i] : o \in ok'[i]
                           /\ i \in On("prepared")' => "prepare" \in ok'[i]
                           /\ i \in On("running")' => "launch" \in ok'[i]
                           /\ i \in On("post_exec")' => "post" \in ok'[i]
<1>1. ok \in [Ids -> SUBSET Ops]
  BY Zenon DEF TypeOK
<1>2. \A i \in Ids :
        ok'[i] = ok[i] \cup { o \in Ops : i \in Range(lists'[Passed[o]]) }
  BY Zenon DEF Served
<1>3. ok' \in [Ids -> SUBSET Ops]
  BY <1>1, Zenon DEF Served
<1>4. /\ Passed["prepare"] = "prepared" /\ "prepare" \in Ops
      /\ Passed["launch"] = "running" /\ "launch" \in Ops
      /\ Passed["post"] = "post_exec" /\ "post" \in Ops
  BY SMTT(30) DEF Passed, Ops
<1> QED
  BY <1>2, <1>3, <1>4, Zenon DEF On

\* A step of the helper that leaves the requests where they are.
LEMMA StayAnswers ==
  ASSUME LoopInv, Waits, UNCHANGED <<arrived, answer>>, ok' = ok \/ Served
  PROVE  LoopInv'
<1>0. TypeOK /\ HelperInv /\ AnswerInv /\ ServedInv
  BY Zenon DEF LoopInv
<1>1. UNCHANGED <<all_reqs, lists, sr>> /\ hpc \in Stages /\ hpc' \in Stages
  BY Zenon DEF Waits
<1>2. hpc # "cleanup" /\ hpc' # "cleanup"
  BY <1>1, SMTT(30) DEF Stages, Lists
<1>3. Live' = Live /\ \A l : On(l)' = On(l)
  BY <1>1, Zenon DEF Live, On
<1>4. ok' \in [Ids -> SUBSET Ops] /\ \A i \in Ids : \A o \in ok[i] : o \in ok'[i]
  <2>1. CASE ok' = ok
    BY <1>0, <2>1, Zenon DEF TypeOK
  <2>2. CASE Served
    BY <1>0, <2>2, ServedSets, Zenon
  <2> QED
    BY <2>1, <2>2, Zenon
<1>5. HelperInv'
  BY <1>0, WaitKeeps, Zenon
<1>6. \A i : Succeeded(i)' <=> Succeeded(i)
  BY <1>1, <1>3, Zenon DEF Succeeded
<1>7. TypeOK'
  BY <1>0, <1>4, <1>5, Zenon DEF TypeOK, HelperInv
<1>8. AnswerInv'
  BY <1>0, <1>2, <1>3, Zenon DEF AnswerInv, Answering
<1>9. ServedInv'
  BY <1>0, <1>3, <1>4, <1>6, Zenon DEF ServedInv
<1> QED
  BY <1>5, <1>7, <1>8, <1>9, Zenon DEF LoopInv

\* A request goes on to another list.
LEMMA MoveAnswers ==
  ASSUME LoopInv, NEW i \in Ids, NEW from, NEW to, Advance(i, from, to),
         Served, UNCHANGED <<arrived, answer>>
  PROVE  LoopInv'
<1>0. TypeOK /\ HelperInv /\ AnswerInv /\ ServedInv
  BY Zenon DEF LoopInv
<1>1. /\ from \in Lists /\ to \in Lists /\ i \in On(from) /\ i \in Live
      /\ \A l \in Lists : i \in On(l)' <=> l = to
      /\ \A l \in Lists : \A j : j # i => (j \in On(l)' <=> j \in On(l))
      /\ Live' = Live
      /\ hpc # "cleanup" /\ hpc' # "cleanup"
  BY <1>0, AdvanceSets, Zenon
<1>2. /\ "init" \in Lists /\ "memdone" \in Lists /\ "prepared" \in Lists
      /\ "running" \in Lists /\ "post_exec" \in Lists /\ "done" \in Lists
  BY ListNames, Zenon
<1>3. HelperInv'
  BY <1>0, AdvanceKeeps, Zenon
<1>4. TypeOK'
  <2>1. ok' \in [Ids -> SUBSET Ops]
    BY <1>0, ServedSets, Zenon
  <2> QED
    BY <1>0, <1>3, <2>1, Zenon DEF TypeOK, HelperInv
<1>5. AnswerInv'
  BY <1>0, <1>1, Zenon DEF AnswerInv, Answering
<1>6. \A j : j # i /\ j \in Ids => (Succeeded(j)' <=> Succeeded(j))
  <2>1. \A j \in Ids : j # i => sr'[j] = sr[j]
    BY Zenon DEF Advance
  <2> QED
    BY <1>1, <1>2, <2>1, Zenon DEF Succeeded
<1>7. Succeeded(i)' => from = "post_exec"
  <2>1. i \in Live' /\ (i \in On("done")' => to = "done")
    BY <1>1, <1>2, Zenon
  <2>2. to = "done" /\ from # "post_exec" => sr'[i].errcode \in ServErrs
    BY Zenon DEF Advance
  <2>3. \A err \in ServErrs : err # 0
    BY HelperAssumption, SMTT(30)
  <2> QED
    BY <2>1, <2>2, <2>3, Zenon DEF Succeeded
<1>8. ServedInv'
  <2>1. \A j \in Ids : /\ \A o \in ok[j] : o \in ok'[j]
                       /\ j \in On("prepared")' => "prepare" \in ok'[j]
                       /\ j \in On("running")' => "launch" \in ok'[j]
                       /\ j \in On("post_exec")' => "post" \in ok'[j]
    BY <1>0, ServedSets, Zenon
  <2> SUFFICES ASSUME NEW j \in Ids
               PROVE  /\ j \in On("prepared")' => "prepare" \in ok'[j]
                      /\ j \in On("running")' => "prepare" \in ok'[j] /\ "launch" \in ok'[j]
                      /\ j \in On("post_exec")' \/ Succeeded(j)' =>
                           "prepare" \in ok'[j] /\ "launch" \in ok'[j] /\ "post" \in ok'[j]
    BY Zenon DEF ServedInv
  <2>2. CASE j # i
    BY <1>0, <1>1, <1>2, <1>6, <2>1, <2>2, Zenon DEF ServedInv
  <2>3. CASE j = i
    <3>1. (to = "running" => from = "prepared") /\ (to = "post_exec" => from = "running")
      BY SMTT(30) DEF Advance
    <3>2. /\ i \in On("prepared")' => to = "prepared"
          /\ i \in On("running")' => from = "prepared"
          /\ i \in On("post_exec")' => from = "running"
      BY <1>1, <1>2, <3>1, Zenon
    <3>3. /\ from = "prepared" => "prepare" \in ok[i]
          /\ from = "running" => "prepare" \in ok[i] /\ "launch" \in ok[i]
          /\ from = "post_exec" =>
               "prepare" \in ok[i] /\ "launch" \in ok[i] /\ "post" \in ok[i]
      BY <1>0, <1>1, Zenon DEF ServedInv
    <3> QED
      BY <1>7, <2>1, <2>3, <3>2, <3>3, Zenon
  <2> QED
    BY <2>2, <2>3, Zenon
<1> QED
  BY <1>3, <1>4, <1>5, <1>8, Zenon DEF LoopInv

\* kh_send_response: the one answer to the request.
LEMMA RespondStep ==
  ASSUME LoopInv, NEW i \in Ids, kh_send_response(i), UNCHANGED <<arrived, ok>>,
         answer' = [answer EXCEPT ![i] = Append(@, sr[i].errcode)]
  PROVE  LoopInv'
<1>0. TypeOK /\ HelperInv /\ AnswerInv /\ ServedInv
  BY Zenon DEF LoopInv
<1>1. /\ hpc = "done" /\ i \in On("done") /\ i \in Live /\ i = Head(todo)
      /\ hpc' = "cleanup" /\ UNCHANGED <<all_reqs, lists, sr, todo>>
      /\ Live' = Live /\ \A l : On(l)' = On(l)
  BY <1>0, RespondFacts, Zenon
<1>2. "done" # "cleanup"
  BY SMTT(30)
<1>3. HelperInv'
  BY <1>0, RespondKeeps, Zenon
<1>4. answer[i] = <<>>
  BY <1>0, <1>1, <1>2, Zenon DEF AnswerInv, Answering
<1>5. /\ answer' \in [Ids -> Seq(Nat)]
      /\ \A j \in Ids : j # i => answer'[j] = answer[j]
      /\ Len(answer'[i]) = 1 /\ answer'[i][1] = sr[i].errcode
  <2>1. answer \in [Ids -> Seq(Nat)] /\ sr[i].errcode \in Nat
    BY <1>0, StageTypes, Zenon DEF TypeOK
  <2>2. <<>> \in Seq(Nat) /\ Len(<<>>) = 0
    BY EmptySeq, Zenon
  <2> DEFINE A == Append(<<>>, sr[i].errcode)
  <2>3. A \in Seq(Nat) /\ Len(A) = 1 /\ A[1] = sr[i].errcode
    BY <2>1, <2>2, AppendFacts, SMTT(30)
  <2>4. answer' = [answer EXCEPT ![i] = A]
    BY <1>4, <2>1, SMTT(30)
  <2> HIDE DEF A
  <2> QED
    BY <2>1, <2>3, <2>4, SMTT(30)
<1>6. \A j \in Ids : Succeeded(j)' <=> Succeeded(j)
  BY <1>1, <1>5, Zenon DEF Succeeded
<1>7. TypeOK'
  BY <1>0, <1>3, <1>5, Zenon DEF TypeOK, HelperInv
<1>8. AnswerInv'
  BY <1>0, <1>1, <1>2, <1>5, Zenon DEF AnswerInv, Answering
<1>9. ServedInv'
  BY <1>0, <1>1, <1>6, Zenon DEF ServedInv
<1> QED
  BY <1>3, <1>7, <1>8, <1>9, Zenon DEF LoopInv

\* kh_get_next_service_request: a request the helper has not had before.
LEMMA ReadStep ==
  ASSUME LoopInv, NEW q \in Arriving, q.id \notin arrived,
         arrived' = arrived \cup {q.id}, kh_init_service_request(q),
         UNCHANGED <<ok, answer>>
  PROVE  LoopInv'
<1> DEFINE k == q.id
<1>0. TypeOK /\ HelperInv /\ AnswerInv /\ ServedInv
  BY Zenon DEF LoopInv
<1>1. q \in KuRequests /\ k \notin Live /\ Live \subseteq arrived
  BY <1>0, ArrivingAssumption, Zenon DEF AnswerInv
<1>2. /\ k \in Ids /\ Live' = Live \cup {k} /\ hpc # "cleanup" /\ hpc' # "cleanup"
      /\ \A l \in Lists : \A j : j # k => (j \in On(l)' <=> j \in On(l))
      /\ \A j \in Ids : j # k => sr'[j] = sr[j]
  BY <1>0, <1>1, ReadSets, Zenon
<1>3. PICK to \in {"init", "done"} :
        /\ \A l \in Lists : k \in On(l)' <=> l = to
        /\ to = "done" => sr'[k].errcode = 2
  BY <1>0, <1>1, ReadSets, Zenon
<1>4. HelperInv'
  BY <1>0, <1>1, ReadKeeps, Zenon
<1>5. arrived' = arrived \cup {k} /\ k \notin arrived
  BY Zenon
<1> HIDE DEF k
<1>6. TypeOK'
  BY <1>0, <1>2, <1>4, <1>5, Zenon DEF TypeOK, HelperInv
<1>7. AnswerInv'
  <2>1. answer[k] = <<>>
    BY <1>0, <1>2, <1>5, Zenon DEF AnswerInv
  <2> QED
    BY <1>0, <1>1, <1>2, <1>5, <2>1, Zenon DEF AnswerInv, Answering
<1>8. /\ k \notin On("prepared")' /\ k \notin On("running")' /\ k \notin On("post_exec")'
      /\ k \in On("done")' => sr'[k].errcode # 0
  <2>1. 2 # 0 /\ to # "prepared" /\ to # "running" /\ to # "post_exec"
    BY SMTT(30)
  <2> QED
    BY <1>3, <2>1, ListNames, Zenon
<1>9. ~Succeeded(k)' /\ \A j \in Ids : j # k => (Succeeded(j)' <=> Succeeded(j))
  <2>1. /\ k \in Live'
        /\ \A j : j # k => (j \in Live' <=> j \in Live) /\ (j \in arrived' <=> j \in arrived)
    BY <1>2, <1>5, Zenon
  <2>2. \A j \in Ids : j # k => sr'[j] = sr[j] /\ (j \in On("done")' <=> j \in On("done"))
    BY <1>2, ListNames, Zenon
  <2> QED
    BY <1>8, <2>1, <2>2, Zenon DEF Succeeded
<1>10. ServedInv'
  <2> SUFFICES ASSUME NEW j \in Ids
               PROVE  /\ j \in On("prepared")' => "prepare" \in ok[j]
                      /\ j \in On("running")' => "prepare" \in ok[j] /\ "launch" \in ok[j]
                      /\ j \in On("post_exec")' \/ Succeeded(j)' =>
                           "prepare" \in ok[j] /\ "launch" \in ok[j] /\ "post" \in ok[j]
    BY Zenon DEF ServedInv
  <2>1. CASE j = k
    BY <1>8, <1>9, <2>1, Zenon
  <2>2. CASE j # k
    BY <1>0, <1>2, <1>9, <2>2, ListNames, Zenon DEF ServedInv
  <2> QED
    BY <2>1, <2>2, Zenon
<1> QED
  BY <1>4, <1>6, <1>7, <1>10, Zenon DEF LoopInv

\* kh_service_done after the answer.
LEMMA DoneStep ==
  ASSUME LoopInv, NEW i \in Ids, kh_service_done(i), Served, UNCHANGED <<arrived, answer>>
  PROVE  LoopInv'
<1>0. TypeOK /\ HelperInv /\ AnswerInv /\ ServedInv
  BY Zenon DEF LoopInv
<1>1. /\ hpc = "cleanup" /\ i = Head(todo) /\ i \in On("done") /\ i \in Live
      /\ Live' = Live \ {i} /\ \A l \in Lists : i \notin On(l)'
      /\ \A l \in Lists : \A j : j # i => (j \in On(l)' <=> j \in On(l))
      /\ \A j \in Ids : j # i => sr'[j] = sr[j]
      /\ hpc' # "cleanup"
  BY <1>0, DoneSets, Zenon
<1>2. HelperInv'
  BY <1>0, DoneKeeps, Zenon
<1>3. TypeOK'
  <2>1. ok' \in [Ids -> SUBSET Ops]
    BY <1>0, ServedSets, Zenon
  <2> QED
    BY <1>0, <1>2, <2>1, Zenon DEF TypeOK, HelperInv
<1>4. /\ Len(answer[i]) = 1 /\ answer[i][1] = sr[i].errcode /\ i \in arrived
  BY <1>0, <1>1, Zenon DEF AnswerInv, Answering
<1>5. AnswerInv'
  BY <1>0, <1>1, <1>4, Zenon DEF AnswerInv, Answering
<1>6. \A j \in Ids : Succeeded(j)' => Succeeded(j)
  <2> SUFFICES ASSUME NEW j \in Ids, Succeeded(j)' PROVE Succeeded(j)
    OBVIOUS
  <2>1. CASE j = i
    BY <1>1, <1>4, <2>1, ListNames, Zenon DEF Succeeded
  <2>2. CASE j # i
    BY <1>1, <2>2, ListNames, Zenon DEF Succeeded
  <2> QED
    BY <2>1, <2>2, Zenon
<1>7. ServedInv'
  <2>1. \A j \in Ids : \A o \in ok[j] : o \in ok'[j]
    BY <1>0, ServedSets, Zenon
  <2>2. \A l \in Lists : \A j : j \in On(l)' => j \in On(l)
    BY <1>1, Zenon
  <2> QED
    BY <1>0, <1>6, <2>1, <2>2, ListNames, Zenon DEF ServedInv
<1> QED
  BY <1>2, <1>3, <1>5, <1>7, Zenon DEF LoopInv

-----------------------------------------------------------------------------
(***************************************************************************)
(* The theorems.                                                           *)
(***************************************************************************)

\* The helper starts with nothing.
LEMMA InitLoop == Init => LoopInv
<1> SUFFICES ASSUME Init PROVE LoopInv
  OBVIOUS
<1>1. /\ HelperInit /\ arrived = {}
      /\ ok = [i \in Ids |-> {}] /\ answer = [i \in Ids |-> <<>>]
  BY Zenon DEF Init
<1>2. HelperInv
  BY <1>1, InitKeeps, Zenon
<1>3. Live = {} /\ \A l \in Lists : On(l) = {}
  BY <1>1, EmptyList, Zenon DEF Live, On, HelperInit
<1>4. hpc # "cleanup"
  BY <1>1, SMTT(30) DEF HelperInit
<1>5. TypeOK
  BY <1>1, <1>2, EmptySeq, Zenon DEF TypeOK, HelperInv
<1>6. AnswerInv
  BY <1>1, <1>3, <1>4, Zenon DEF AnswerInv, Answering
<1>7. \A i \in Ids : ~Succeeded(i)
  BY <1>1, <1>3, ListNames, Zenon DEF Succeeded
<1>8. ServedInv
  BY <1>3, <1>7, ListNames, Zenon DEF ServedInv
<1> QED
  BY <1>2, <1>5, <1>6, <1>8, Zenon DEF LoopInv

\* Every step keeps the invariant.
LEMMA LoopStep == LoopInv /\ [Next]_vars => LoopInv'
<1> SUFFICES ASSUME LoopInv, [Next]_vars PROVE LoopInv'
  OBVIOUS
<1>0. HelperInv
  BY Zenon DEF LoopInv
<1>1. CASE Read
  BY <1>1, ReadStep, Zenon DEF Read
<1>2. CASE Poll
  <2>1. Waits
    BY <1>0, <1>2, PollWaits, Zenon DEF Poll
  <2> QED
    BY <1>2, <2>1, StayAnswers, Zenon DEF Poll
<1>3. CASE Respond
  BY <1>3, RespondStep, Zenon DEF Respond
<1>4. CASE Work
  <2>1. HelperStep /\ Served /\ UNCHANGED <<arrived, answer>>
    BY <1>4, Zenon DEF Work, Served
  <2>2. CASE Waits
    BY <2>1, <2>2, StayAnswers, Zenon
  <2>3. CASE Moves
    BY <2>1, <2>3, MoveAnswers, Zenon DEF Moves
  <2>4. CASE \E i \in Ids : kh_service_done(i)
    BY <2>1, <2>4, DoneStep, Zenon
  <2> QED
    BY <1>0, <2>1, <2>2, <2>3, <2>4, StepShape, Zenon
<1>5. CASE (\E s \in Streams : GpuStep(s)) \/ UNCHANGED vars
  <2>1. UNCHANGED <<all_reqs, lists, sr, hpc, todo, arrived, ok, answer>>
    BY <1>5, Zenon DEF GpuStep, GpuCompletes, vars
  <2>2. HelperInv'
    <3>1. CASE \E s \in Streams : GpuStep(s)
      BY <1>0, <3>1, GpuKeeps, Zenon DEF GpuStep
    <3>2. CASE UNCHANGED vars
      BY <1>0, <3>2, StutterKeeps, Zenon DEF vars, hvars
    <3> QED
      BY <1>5, <3>1, <3>2, Zenon
  <2>3. Live' = Live /\ \A l : On(l)' = On(l)
    BY <2>1, Zenon DEF Live, On
  <2>4. \A i : Succeeded(i)' <=> Succeeded(i)
    BY <2>1, <2>3, Zenon DEF Succeeded
  <2>5. TypeOK'
    BY <2>1, <2>2, Zenon DEF LoopInv, TypeOK, HelperInv
  <2>6. AnswerInv' /\ ServedInv'
    BY <2>1, <2>3, <2>4, Zenon DEF LoopInv, AnswerInv, Answering, ServedInv
  <2> QED
    BY <2>2, <2>5, <2>6, Zenon DEF LoopInv
<1> QED
  BY <1>1, <1>2, <1>3, <1>4, <1>5, Zenon DEF Next, Helper

\* The invariant of the helper's main loop: which requests it has and where,
\* what each has been through, and which streams, pins, answers and work on the
\* GPU go with that.
THEOREM LoopSafe == Spec => []LoopInv
  BY InitLoop, LoopStep, PTL DEF Spec

\* The helper's state stays well formed: what it has on its lists are ids, the
\* streams that it marks exist and the error codes that it writes are numbers.
THEOREM TypesAreRight == Spec => []TypeOK
<1>1. LoopInv => TypeOK
  BY Zenon DEF LoopInv
<1> QED
  BY <1>1, LoopSafe, PTL

\* Every unfinished request is on one list, once, and a pass walks over its own.
THEOREM RequestsAreOnOneList == Spec => []ListsPartitionLive
<1>1. LoopInv => ListsPartitionLive
  BY OnOneList, Zenon DEF LoopInv
<1> QED
  BY <1>1, LoopSafe, PTL

\* No stage leaks a stream or gives one to two requests.
THEOREM StreamsAreExclusive == Spec => []StreamsExclusive
<1>1. LoopInv => StreamsExclusive
  BY OneStreamEach, Zenon DEF LoopInv
<1> QED
  BY <1>1, LoopSafe, PTL

\* Exactly the mapped memory of requests past kh_request_alloc_mem is pinned.
THEOREM PinsAreBalanced == Spec => []PinsBalanced
<1>1. LoopInv => PinsBalanced
  BY PinnedWhileUsed, Zenon DEF LoopInv
<1> QED
  BY <1>1, LoopSafe, PTL

\* No request is answered twice, and none leaves the helper without an answer.
THEOREM AnswersAreSingle == Spec => []AnsweredOnce
<1>1. LoopInv => AnsweredOnce
  <2> SUFFICES ASSUME LoopInv, NEW i \in Ids
               PROVE  /\ Len(answer[i]) <= 1
                      /\ i \in arrived \ Live => Len(answer[i]) = 1
    BY Zenon DEF AnsweredOnce
  <2>1. answer[i] = <<>> \/ Len(answer[i]) = 1
    BY Zenon DEF LoopInv, AnswerInv
  <2>2. i \in arrived \ Live => Len(answer[i]) = 1
    BY Zenon DEF LoopInv, AnswerInv
  <2>3. Len(<<>>) = 0
    BY EmptySeq, Zenon
  <2>4. Len(answer[i]) = 0 \/ Len(answer[i]) = 1
    BY <2>1, <2>3, Zenon
  <2>5. Len(answer[i]) <= 1
    <3>1. 0 <= 1 /\ 1 <= 1
      BY SMTT(30)
    <3> QED
      BY <2>4, <3>1, Zenon
  <2> QED
    BY <2>2, <2>5, Zenon
<1> QED
  BY <1>1, LoopSafe, PTL

\* A client that is told of success has had all three calls of the service, and
\* the GPU is finished with its memory.
THEOREM SuccessIsFinal == Spec => []SuccessIsComplete
<1>1. LoopInv => SuccessIsComplete
  <2> SUFFICES ASSUME LoopInv, NEW i \in Ids, answer[i] # <<>>, answer[i][1] = 0
               PROVE  ok[i] = Ops /\ \A s \in Streams : i \notin Range(gpu[s])
    BY Zenon DEF SuccessIsComplete
  <2>1. Succeeded(i)
    <3>1. CASE i \in Live
      <4>1. Answering(i) /\ sr[i].errcode = 0
        BY <3>1, Zenon DEF LoopInv, AnswerInv
      <4>2. /\ todo \in Seq(Ids) /\ todo # <<>> /\ IsInjective(todo) /\ i = Head(todo)
            /\ Range(todo) \subseteq On("done")
        BY <4>1, Zenon DEF LoopInv, HelperInv, HelperTypeOK, PlaceInv, Answering
      <4>3. Head(todo) \in Range(todo)
        BY <4>2, TailSet, Zenon
      <4> QED
        BY <4>1, <4>2, <4>3, Zenon DEF Succeeded
    <3>2. CASE i \notin Live
      BY <3>2, Zenon DEF LoopInv, AnswerInv, Succeeded
    <3> QED
      BY <3>1, <3>2, Zenon
  <2>2. "prepare" \in ok[i] /\ "launch" \in ok[i] /\ "post" \in ok[i]
    BY <2>1, Zenon DEF LoopInv, ServedInv
  <2>3. ok[i] \subseteq Ops
    BY Zenon DEF LoopInv, TypeOK
  <2>4. ok[i] = Ops
    BY <2>2, <2>3, Zenon DEF Ops
  <2>5. \A s \in Streams : i \notin Range(gpu[s])
    <3>1. i # NoRequest
      BY HelperAssumption, SMTT(30) DEF NoRequest
    <3> QED
      BY <2>1, <3>1, Zenon DEF LoopInv, HelperInv, GpuInv, Succeeded
  <2> QED
    BY <2>4, <2>5, Zenon
<1> QED
  BY <1>1, LoopSafe, PTL

-----------------------------------------------------------------------------
(***************************************************************************)
(* The helper does not abort, if it can release what it is given.          *)
(***************************************************************************)

\* Memory mapped for a request comes only with a service the helper knows.
KnownIfMapped == \A q \in Arriving : q.mem = "vma" => q.service \in Registered

\* Every step of the loop keeps the helper able to release what it has.
LEMMA ReleaseStep ==
  ASSUME KnownIfMapped, LoopInv, ReleaseInv, [Next]_vars
  PROVE  ReleaseInv'
<1>1. HelperInv /\ AnswerInv
  BY Zenon DEF LoopInv
<1>2. CASE Read
  <2>1. PICK q \in Arriving : q.id \notin arrived /\ kh_init_service_request(q)
    BY <1>2, Zenon DEF Read
  <2>2. /\ q \in KuRequests /\ q.id \notin Live
        /\ q.mem = "vma" => q.service \in Registered
    BY <1>1, <2>1, ArrivingAssumption, Zenon DEF AnswerInv, KnownIfMapped
  <2> QED
    BY <1>1, <2>1, <2>2, ReadReleases, Zenon
<1>3. CASE Poll
  BY <1>1, <1>3, WaitReleases, PollWaits, Zenon DEF Poll
<1>4. CASE Respond
  BY <1>1, <1>4, RespondReleases, Zenon DEF Respond
<1>5. CASE Work
  BY <1>1, <1>5, StepReleases, Zenon DEF Work
<1>6. CASE (\E s \in Streams : GpuStep(s)) \/ UNCHANGED vars
  <2>1. UNCHANGED <<all_reqs, sr, hpc>>
    BY <1>6, Zenon DEF GpuStep, GpuCompletes, vars
  <2>2. hpc' # "aborted"
    BY <2>1, Zenon DEF ReleaseInv
  <2> QED
    BY <1>1, <2>1, <2>2, SameRequests, Zenon
<1> QED
  BY <1>2, <1>3, <1>4, <1>5, <1>6, Zenon DEF Next, Helper

\* CUDA accepts every cudaHostUnregister of the helper, so that csc() does not
\* end it, if an unknown service is asked for only with memory of the pool.
THEOREM NoUnpinAborts ==
  ASSUME KnownIfMapped
  PROVE  Spec => []UnpinsWhatItPinned
<1>1. Init => ReleaseInv
  BY InitReleases, Zenon DEF Init
<1>2. LoopInv /\ ReleaseInv /\ [Next]_vars => ReleaseInv'
  BY ReleaseStep, Zenon
<1>3. ReleaseInv => UnpinsWhatItPinned
  BY Zenon DEF ReleaseInv, UnpinsWhatItPinned
<1> QED
  BY <1>1, <1>2, <1>3, LoopSafe, PTL DEF Spec

=============================================================================
