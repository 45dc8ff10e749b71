--------------------------- MODULE CorsFutureProofs ---------------------------
(***************************************************************************)
(* Proofs about CorsFuture, for every set of requests, builders, tables,   *)
(* services and inner outcomes that meets its assumptions.                 *)
(***************************************************************************)
EXTENDS CorsFuture, CorsPolicyProofs

(***************************************************************************)
(* What a poll makes of a future.                                          *)
(***************************************************************************)

Assumptions ==
    /\ Requests \subseteq Request /\ Settings \subseteq Config
    /\ \A t \in Tables : t \subseteq Value
    /\ Absent \notin Services /\ Outcomes \subseteq Answer
    /\ Absent \notin Outcomes /\ Running \notin Outcomes /\ Running # Absent

\* What the modules assume of their constants, as one fact.
LEMMA ConstantFacts == Assumptions
  BY RequestsAssumption, SettingsAssumption, TablesAssumption, ServicesAssumption,
     OutcomesAssumption, DistinctAssumption DEF Assumptions

\* The origin future yields the value of the ACAO header, or None.
LEMMA OriginResultType ==
    ASSUME TypeOK, NEW r \in Req, stage[r] = "pending"
    PROVE  OriginResult(r) \in OptValue
<1>1. fut[r] \in Future
  BY DEF TypeOK, Live
<1>2. fut[r].request.origin \in OptValue
  BY <1>1, ConstantFacts DEF Assumptions, Future, Request
<1>3. QED
  BY <1>1, <1>2 DEF OriginResult, Future, OriginFuture, OptValue

\* Taking the verdict out of a future leaves a future, and all else in it as it was.
LEMMA DecidedFacts ==
    ASSUME TypeOK, NEW r \in Req, stage[r] = "pending"
    PROVE  /\ fut[r] \in Future
           /\ Decided(r) \in Future
           /\ Decided(r).request = fut[r].request
           /\ Decided(r).variant = fut[r].variant
           /\ Decided(r).service = fut[r].service
           /\ Decided(r).inner = fut[r].inner
           /\ Decided(r).allow_origin_complete = fut[r].allow_origin_complete
<1>1. fut[r] \in Future
  BY DEF TypeOK, Live
<1> DEFINE headers == push_opt(fut[r].headers, "ACAO", OriginResult(r))
<1>2. headers \in Buffer
  BY <1>1, OriginResultType, PushOptType DEF Future, HeaderName, CorsHeader
<1>3. [fut[r].allow_origin_future EXCEPT !.res = Absent] \in OriginFuture
  BY <1>1 DEF Future, OriginFuture, OptValue
<1>4. Decided(r) = [fut[r] EXCEPT
          !.allow_origin_future = [fut[r].allow_origin_future EXCEPT !.res = Absent],
          !.headers = headers]
  BY <1>1 DEF Decided, Future
<1> HIDE DEF headers
<1>5. QED
  BY <1>1, <1>2, <1>3, <1>4 DEF Future

\* Remembering the decision gives up the service and changes nothing else of a future.
LEMMA CompletedFacts ==
    ASSUME NEW f \in Future
    PROVE  /\ Completed(f) \in Future
           /\ Completed(f).request = f.request
           /\ Completed(f).variant = f.variant
           /\ Completed(f).inner = f.inner
           /\ Completed(f).service = Absent
           /\ Completed(f).allow_origin_complete
  BY DEF Completed, Future

\* An answer the middleware makes up is an answer.
LEMMA OkType ==
    ASSUME NEW status \in Nat, NEW buf \in Buffer
    PROVE  Ok(status, merge_headers(NoHeaders, buf)) \in Answer
<1>1. NoHeaders \in HeaderMap
  BY DEF NoHeaders, HeaderMap, OptValue
<1>2. QED
  BY <1>1, MergeHeadersType DEF Ok, Answer

\* The inner service's response with the headers merged in is an answer.
LEMMA InnerAnswerType ==
    ASSUME NEW o \in Outcomes, NEW buf \in Buffer
    PROVE  InnerAnswer(o, buf) \in Answer
<1>1. o \in Answer
  BY ConstantFacts DEF Assumptions
<1>2. merge_headers(o.headers, buf) \in HeaderMap
  BY <1>1, MergeHeadersType DEF Answer
<1>3. QED
  BY <1>1, <1>2 DEF InnerAnswer, Answer

(***************************************************************************)
(* Type correctness.                                                       *)
(***************************************************************************)

\* The state a Cors starts in is well typed.
LEMMA InitType == Init => TypeOK
<1> SUFFICES ASSUME Init PROVE TypeOK
  OBVIOUS
<1>1. config \in Config
  BY UpdateVaryType, ConstantFacts DEF Init, Assumptions
<1>2. QED
  BY <1>1 DEF Init, TypeOK, Live

\* Cors::call makes a future of the type.
LEMMA CallType ==
    ASSUME TypeOK, NEW r \in Req, NEW a \in Clones, NEW q \in Requests,
           Call(r, a, q)
    PROVE  TypeOK'
<1> USE DEF TypeOK
<1>1. q \in Request /\ q.origin \in OptValue
  BY ConstantFacts DEF Assumptions, Request
<1>2. to_future(config.allow_origin, table, q.origin) \in OriginFuture
  BY <1>1, ToFutureFacts DEF Config
<1>3. common_headers(config) \in Buffer
  BY CommonHeadersType
<1>4. fut'[r] \in Future
  BY <1>2, <1>3 DEF Call, Future
<1>5. fut' \in [Req -> Future \cup {Absent}]
  BY <1>2, <1>3 DEF Call, Future
<1>6. verdict' \in [Req -> {"unknown", "allowed", "denied"}]
  BY DEF Call, Said
<1>7. stage' \in [Req -> {"idle", "pending", "done", "dropped"}]
  BY DEF Call
<1>8. task' \in [Req -> [woken : BOOLEAN, wakers : SUBSET {"origin", "inner"}]]
  BY DEF Call
<1>9. \A s \in Req : Live(s)' => fut'[s] \in Future
  BY <1>4 DEF Call, Live
<1>10. QED
  BY <1>5, <1>6, <1>7, <1>8, <1>9 DEF Call

\* Finishing and waiting keep the types, if the answer has its.
LEMMA FinishesType ==
    ASSUME TypeOK, NEW r \in Req, NEW a \in Answer, Finishes(r, a)
    PROVE  /\ stage' \in [Req -> {"idle", "pending", "done", "dropped"}]
           /\ answer' \in [Req -> Answer \cup {Absent}]
           /\ task' \in [Req -> [woken : BOOLEAN, wakers : SUBSET {"origin", "inner"}]]
           /\ \A s \in Req \ {r} : Live(s)' = Live(s)
  BY DEF TypeOK, Finishes, Live

\* Leaving a waker keeps the type of the tasks.
LEMMA WaitsType ==
    ASSUME TypeOK, NEW r \in Req, NEW w \in {"origin", "inner"}, Waits(r, w)
    PROVE  task' \in [Req -> [woken : BOOLEAN, wakers : SUBSET {"origin", "inner"}]]
  BY DEF TypeOK, Waits

\* A future that resolves wakes its task if the task left a waker with it.
LEMMA WakesFacts ==
    ASSUME TypeOK, NEW r \in Req, NEW w, Wakes(r, w)
    PROVE  /\ task' \in [Req -> [woken : BOOLEAN, wakers : SUBSET {"origin", "inner"}]]
           /\ task'[r].wakers = task[r].wakers
           /\ task'[r].woken <=> (task[r].woken \/ w \in task[r].wakers)
<1> DEFINE woken == task[r].woken \/ w \in task[r].wakers
<1>1. woken \in BOOLEAN
  OBVIOUS
<1>2. task' = [task EXCEPT ![r].woken = woken]
  BY DEF Wakes
<1>3. woken <=> (task[r].woken \/ w \in task[r].wakers)
  OBVIOUS
<1> HIDE DEF woken
<1>4. task' \in [Req -> [woken : BOOLEAN, wakers : SUBSET {"origin", "inner"}]]
  BY <1>1, <1>2 DEF TypeOK
<1>5. task'[r].wakers = task[r].wakers /\ task'[r].woken = woken
  BY <1>2 DEF TypeOK
<1>6. QED
  BY <1>3, <1>4, <1>5

\* Replacing a live future by a future keeps the type of fut.
LEMMA FutType ==
    ASSUME TypeOK, NEW r \in Req, NEW f \in Future, fut' = [fut EXCEPT ![r] = f]
    PROVE  /\ fut' \in [Req -> Future \cup {Absent}]
           /\ fut'[r] = f
           /\ \A s \in Req \ {r} : fut'[s] = fut[s]
  BY DEF TypeOK

\* A refusal keeps the types.
LEMMA PollRefusesType ==
    ASSUME TypeOK, NEW r \in Req, PollRefuses(r)
    PROVE  TypeOK'
<1> DEFINE f   == Completed(Decided(r))
           ans == Ok(config.rejection_status, merge_headers(NoHeaders, Decided(r).headers))
<1>1. stage[r] = "pending"
  BY DEF PollRefuses, Deciding, Polled
<1>2. Decided(r) \in Future /\ f \in Future
  BY <1>1, DecidedFacts, CompletedFacts
<1>3. ans \in Answer
  BY <1>2, OkType DEF TypeOK, Config, Future
<1>4. fut' = [fut EXCEPT ![r] = f] /\ Finishes(r, ans)
      /\ UNCHANGED <<config, service, table, verdict, calls>>
  BY DEF PollRefuses
<1> HIDE DEF f, ans
<1>5. QED
  BY <1>2, <1>3, <1>4, FinishesType, FutType DEF TypeOK, Live

\* A dispatch keeps the types: there is a service to call.
LEMMA PollDispatchesType ==
    ASSUME TypeOK, OriginFutureAgrees, DispatchedOnce, NEW r \in Req, PollDispatches(r)
    PROVE  TypeOK'
<1> DEFINE f       == Decided(r)
           headers == DispatchHeaders(r)
<1>1. stage[r] = "pending" /\ fut[r].variant = "Forward" /\ ~fut[r].allow_origin_complete
  BY DEF PollDispatches, Deciding, Polled
<1>2. /\ f \in Future
      /\ Completed(f) \in Future
  BY <1>1, DecidedFacts, CompletedFacts
<1>3. headers \in Buffer
  <2>1. f.request \in Request /\ f.headers \in Buffer
    BY <1>2, ConstantFacts DEF Future, Assumptions
  <2>2. compute_into(config, table, f.request, is_preflight_request(f.request), f.headers)
            \in Buffer
    BY <2>1, ComputeIntoType DEF TypeOK, is_preflight_request
  <2>3. QED
    BY <2>1, <2>2 DEF DispatchHeaders
<1>4. calls' \in [Req -> Seq(Services)]
  <2>1. fut[r].service \in Services
    BY <1>1, DecidedFacts DEF DispatchedOnce, Future
  <2>2. QED
    BY <2>1 DEF PollDispatches, TypeOK
<1>5. PICK inner \in {Running} \cup Outcomes :
          /\ fut' = [fut EXCEPT ![r] =
                 [Completed(f) EXCEPT !.inner = inner, !.headers = headers]]
          /\ IF inner = Running
             THEN Waits(r, "inner") /\ UNCHANGED <<stage, answer>>
             ELSE Finishes(r, InnerAnswer(inner, headers))
  BY DEF PollDispatches
<1> DEFINE g == [Completed(f) EXCEPT !.inner = inner, !.headers = headers]
<1> HIDE DEF f, headers
<1>6. g \in Future
  BY <1>2, <1>3 DEF Future
<1>7. fut' = [fut EXCEPT ![r] = g]
  BY <1>5
<1> HIDE DEF g
<1>8. UNCHANGED <<config, service, table, verdict>>
  BY DEF PollDispatches
<1>9. CASE inner = Running
  BY <1>1, <1>4, <1>5, <1>6, <1>7, <1>8, <1>9, WaitsType, FutType DEF TypeOK, Live
<1>10. CASE inner # Running
  <2>1. InnerAnswer(inner, headers) \in Answer
    BY <1>3, <1>10, InnerAnswerType
  <2>2. Finishes(r, InnerAnswer(inner, headers))
    BY <1>5, <1>10
  <2>3. QED
    BY <2>1, <2>2, <1>4, <1>6, <1>7, <1>8, FinishesType, FutType DEF TypeOK, Live
<1>11. QED
  BY <1>9, <1>10

\* Polling the inner future keeps the types: there is an inner future to poll.
LEMMA PollInnerType ==
    ASSUME TypeOK, DispatchedOnce, NEW r \in Req, PollInner(r)
    PROVE  TypeOK'
<1>1. fut[r] \in Future /\ stage[r] = "pending"
  BY DEF PollInner, Polled, TypeOK, Live
<1>2. fut[r].inner \in {Running} \cup Outcomes
  BY <1>1 DEF PollInner, DispatchedOnce, Future
<1>3. UNCHANGED <<config, service, table, fut, verdict, calls>>
  BY DEF PollInner
<1>4. CASE fut[r].inner = Running
  BY <1>1, <1>3, <1>4, WaitsType DEF PollInner, TypeOK, Live
<1>5. CASE fut[r].inner # Running
  <2>1. InnerAnswer(fut[r].inner, fut[r].headers) \in Answer
    BY <1>1, <1>2, <1>5, InnerAnswerType DEF Future
  <2>2. Finishes(r, InnerAnswer(fut[r].inner, fut[r].headers))
    BY <1>5 DEF PollInner
  <2>3. QED
    BY <2>1, <2>2, <1>1, <1>3, FinishesType DEF TypeOK, Live
<1>6. QED
  BY <1>4, <1>5

\* Answering a preflight keeps the types.
LEMMA PollPreflightType ==
    ASSUME TypeOK, NEW r \in Req, PollPreflight(r)
    PROVE  TypeOK'
<1> DEFINE f       == Decided(r)
           headers == compute_into(config, table, f.request, TRUE, f.headers)
           status  == IF config.deliver_non_allowed_origin THEN 200
                      ELSE config.rejection_status
           g       == [f EXCEPT !.headers = headers]
<1>1. stage[r] = "pending"
  BY DEF PollPreflight, Deciding, Polled
<1>2. f \in Future /\ f.headers \in Buffer /\ f.request \in Request
  BY <1>1, DecidedFacts, ConstantFacts DEF Future, Assumptions
<1>3. headers \in Buffer
  BY <1>2, ComputeIntoType DEF TypeOK
<1>4. UNCHANGED <<config, service, table, verdict, calls>>
  BY DEF PollPreflight
<1> DEFINE refusal == Ok(status, merge_headers(NoHeaders, f.headers))
           grant   == Ok(200, merge_headers(NoHeaders, headers))
<1>5. refusal \in Answer /\ grant \in Answer
  BY <1>2, <1>3, OkType DEF TypeOK, Config
<1>6. \/ fut' = [fut EXCEPT ![r] = f] /\ Finishes(r, refusal)
      \/ fut' = [fut EXCEPT ![r] = g] /\ Finishes(r, grant)
  BY DEF PollPreflight
<1> HIDE DEF f, headers, refusal, grant
<1>7. g \in Future
  BY <1>2, <1>3 DEF Future
<1> HIDE DEF g
<1>8. ASSUME NEW h \in Future, NEW ans \in Answer,
             fut' = [fut EXCEPT ![r] = h], Finishes(r, ans)
      PROVE  TypeOK'
  BY <1>4, <1>8, FinishesType, FutType DEF TypeOK, Live
<1>9. QED
  BY <1>2, <1>5, <1>6, <1>7, <1>8

\* The inner future resolves to one of its outcomes.
LEMMA InnerFinishType ==
    ASSUME TypeOK, NEW r \in Req, InnerFinish(r)
    PROVE  TypeOK'
<1>1. fut[r] \in Future
  BY DEF InnerFinish, TypeOK, Live
<1>2. PICK o \in Outcomes : fut' = [fut EXCEPT ![r].inner = o]
  BY DEF InnerFinish
<1>3. [fut[r] EXCEPT !.inner = o] \in Future
  BY <1>1 DEF Future
<1>4. fut' = [fut EXCEPT ![r] = [fut[r] EXCEPT !.inner = o]]
  BY <1>2
<1> HIDE DEF TypeOK
<1>5. /\ fut' \in [Req -> Future \cup {Absent}]
      /\ fut'[r] \in Future
      /\ \A s \in Req \ {r} : fut'[s] = fut[s]
  BY <1>3, <1>4, FutType
<1>6. task' \in [Req -> [woken : BOOLEAN, wakers : SUBSET {"origin", "inner"}]]
  BY WakesFacts DEF InnerFinish
<1>7. QED
  BY <1>5, <1>6 DEF InnerFinish, TypeOK, Live

\* What happens to the clones of a Cors.
CloneStep ==
    \E a \in Clones : (\E b \in Clones : Clone(a, b)) \/ DropCors(a) \/ InnerMut(a)

\* A clone that is made, dropped or given another service concerns no request.
LEMMA CloneStepFacts ==
    ASSUME TypeOK, CloneStep
    PROVE  /\ service' \in [Clones -> Services \cup {Absent}]
           /\ UNCHANGED <<config, table, stage, fut, task, verdict, calls, answer>>
<1>1. PICK a \in Clones : (\E b \in Clones : Clone(a, b)) \/ DropCors(a) \/ InnerMut(a)
  BY DEF CloneStep
<1>2. CASE \E b \in Clones : Clone(a, b)
  BY <1>2 DEF Clone, TypeOK
<1>3. CASE DropCors(a)
  BY <1>3 DEF DropCors, TypeOK
<1>4. CASE InnerMut(a)
  BY <1>4 DEF InnerMut, TypeOK
<1>5. QED
  BY <1>1, <1>2, <1>3, <1>4

\* The steps that touch neither a future nor an answer.
LEMMA OtherStepsType ==
    ASSUME TypeOK,
           \/ \E r \in Req : \/ PollWaitsForOrigin(r) \/ Drop(r)
                             \/ SpuriousWake(r) \/ Move(r) \/ OriginReply(r)
           \/ ChangeTable \/ CloneStep
    PROVE  TypeOK'
<1>1. ASSUME NEW r \in Req, PollWaitsForOrigin(r) PROVE TypeOK'
  BY <1>1, WaitsType DEF PollWaitsForOrigin, TypeOK, Live
<1>2. ASSUME NEW r \in Req, Drop(r) PROVE TypeOK'
  BY <1>2 DEF Drop, TypeOK, Live
<1>3. ASSUME NEW r \in Req, SpuriousWake(r) PROVE TypeOK'
  BY <1>3 DEF SpuriousWake, TypeOK, Live
<1>3a. ASSUME NEW r \in Req, Move(r) PROVE TypeOK'
  BY <1>3a DEF Move, TypeOK, Live
<1>4. ASSUME NEW r \in Req, OriginReply(r) PROVE TypeOK'
  BY <1>4, WakesFacts DEF OriginReply, TypeOK, Live, Said
<1>5. ASSUME ChangeTable PROVE TypeOK'
  BY <1>5 DEF ChangeTable, TypeOK, Live
<1>6. ASSUME CloneStep PROVE TypeOK'
  BY <1>6, CloneStepFacts DEF TypeOK, Live
<1>7. QED
  BY <1>1, <1>2, <1>3, <1>3a, <1>4, <1>5, <1>6

(***************************************************************************)
(* The inductive invariant.  It adds to the checked invariants only that a *)
(* request nobody called has no calls: DispatchIsAdmitted needs to know    *)
(* that the verdict of a called request is final, RefusalIsJustified that  *)
(* a decided future was dispatched, and both that the origin future and    *)
(* the verdict agree until the decision.                                   *)
(***************************************************************************)

IdleIsUncalled == \A r \in Req : stage[r] = "idle" => calls[r] = <<>>

IInv ==
    /\ TypeOK
    /\ IdleIsUncalled
    /\ DispatchIsAdmitted
    /\ RefusalIsJustified
    /\ DispatchedOnce
    /\ OriginFutureAgrees
    /\ NoLostWakeup

\* The type of every step, given the invariant in the state it starts from.
LEMMA NextType == IInv /\ [Next]_vars => TypeOK'
<1> SUFFICES ASSUME IInv, [Next]_vars PROVE TypeOK'
  OBVIOUS
<1> USE DEF IInv
<1>1. CASE UNCHANGED vars
  BY <1>1 DEF vars, TypeOK, Live
<1>2. CASE Next
  BY <1>2, CallType, PollRefusesType, PollDispatchesType, PollInnerType,
     PollPreflightType, InnerFinishType, OtherStepsType DEF Next, CloneStep
<1>3. QED
  BY <1>1, <1>2

\* The invariant holds before the first request.
LEMMA InitInv == Init => IInv
<1> SUFFICES ASSUME Init PROVE IInv
  OBVIOUS
<1>1. TypeOK
  BY InitType
<1>2. QED
  BY <1>1 DEF IInv, Init, IdleIsUncalled, DispatchIsAdmitted, RefusalIsJustified,
     DispatchedOnce, OriginFutureAgrees, NoLostWakeup, Live

\* A step of request r leaves every other request alone.
OthersUnchanged(r) ==
    /\ config' = config
    /\ \A s \in Req \ {r} :
           /\ stage'[s] = stage[s] /\ fut'[s] = fut[s] /\ task'[s] = task[s]
           /\ verdict'[s] = verdict[s] /\ calls'[s] = calls[s] /\ answer'[s] = answer[s]

\* A step of one request leaves every other request alone.
LEMMA OthersAreUnchanged ==
    ASSUME TypeOK, NEW r \in Req,
           \/ \E a \in Clones, q \in Requests : Call(r, a, q)
           \/ PollWaitsForOrigin(r) \/ PollRefuses(r) \/ PollDispatches(r)
           \/ PollInner(r) \/ PollPreflight(r)
           \/ Drop(r) \/ SpuriousWake(r) \/ Move(r) \/ OriginReply(r) \/ InnerFinish(r)
    PROVE  OthersUnchanged(r)
<1> USE DEF OthersUnchanged, TypeOK
<1>1. CASE \E a \in Clones, q \in Requests : Call(r, a, q)
  BY <1>1 DEF Call
<1>2. CASE PollWaitsForOrigin(r)
  BY <1>2 DEF PollWaitsForOrigin, Waits
<1>3. CASE PollRefuses(r)
  BY <1>3 DEF PollRefuses, Finishes
<1>4. CASE PollDispatches(r)
  <2>1. /\ UNCHANGED <<config, verdict>>
        /\ \A s \in Req \ {r} : calls'[s] = calls[s]
    BY <1>4 DEF PollDispatches
  <2>2. \A s \in Req \ {r} : fut'[s] = fut[s]
    BY <1>4 DEF PollDispatches
  <2>3. PICK ans : \/ Waits(r, "inner") /\ UNCHANGED <<stage, answer>>
                  \/ Finishes(r, ans)
    BY <1>4 DEF PollDispatches
  <2>4. \A s \in Req \ {r} :
            stage'[s] = stage[s] /\ answer'[s] = answer[s] /\ task'[s] = task[s]
    BY <2>3 DEF Finishes, Waits
  <2>5. QED
    BY <2>1, <2>2, <2>4
<1>5. CASE PollInner(r)
  BY <1>5 DEF PollInner, Finishes, Waits
<1>6. CASE PollPreflight(r)
  BY <1>6 DEF PollPreflight, Finishes
<1>7. CASE Drop(r)
  BY <1>7 DEF Drop
<1>8. CASE SpuriousWake(r) \/ Move(r)
  BY <1>8 DEF SpuriousWake, Move
<1>9. CASE OriginReply(r)
  BY <1>9 DEF OriginReply, Wakes
<1>10. CASE InnerFinish(r)
  BY <1>10 DEF InnerFinish, Wakes
<1>11. QED
  BY <1>1, <1>2, <1>3, <1>4, <1>5, <1>6, <1>7, <1>8, <1>9, <1>10

\* What the invariant says of one request.
Good(r) ==
    /\ stage[r] = "idle" => calls[r] = <<>>
    /\ calls[r] # <<>> =>
           /\ verdict[r] # "unknown"
           /\ Live(r) /\ HasOrigin(fut[r].request) /\ verdict[r] = "denied" =>
                  /\ config.deliver_non_allowed_origin
                  /\ \/ ~is_websocket_upgrade_request(fut[r].request)
                     \/ config.deliver_non_allowed_origin_websocket_upgrade
    /\ stage[r] = "done" /\ fut[r].variant = "Forward" /\ calls[r] = <<>> =>
           /\ verdict[r] = "denied"
           /\ HasOrigin(fut[r].request)
           /\ answer[r].status = config.rejection_status
    /\ Len(calls[r]) <= 1
    /\ stage[r] = "pending" /\ fut[r].variant = "Forward" =>
           IF fut[r].allow_origin_complete
           THEN calls[r] # <<>> /\ fut[r].inner # Absent /\ fut[r].service = Absent
           ELSE calls[r] = <<>> /\ fut[r].inner = Absent /\ fut[r].service # Absent
    /\ stage[r] = "pending" /\ ~fut[r].allow_origin_complete =>
           IF fut[r].allow_origin_future.state = "Ready"
           THEN /\ verdict[r] # "unknown"
                /\ fut[r].allow_origin_future.res # Absent <=> verdict[r] = "allowed"
           ELSE HasOrigin(fut[r].request)
    /\ stage[r] = "pending" /\ ~task[r].woken =>
           \/ /\ "origin" \in task[r].wakers
              /\ ~fut[r].allow_origin_complete
              /\ ~OriginReady(r)
           \/ /\ "inner" \in task[r].wakers
              /\ fut[r].inner = Running

\* The inductive invariant is a conjunction over the requests.
LEMMA GoodIsIInv == TypeOK => (IInv <=> \A r \in Req : Good(r))
  BY DEF IInv, Good, IdleIsUncalled, DispatchIsAdmitted, RefusalIsJustified,
     DispatchedOnce, OriginFutureAgrees, NoLostWakeup

\* The invariant of a request survives the steps of the others.
LEMMA GoodFrame ==
    ASSUME NEW r \in Req, NEW s \in Req \ {r}, OthersUnchanged(r), Good(s)
    PROVE  Good(s)'
  BY DEF Good, OthersUnchanged, OriginReady, Live

\* A future that was just created satisfies the invariant of its request.
LEMMA GoodCall ==
    ASSUME TypeOK, NEW r \in Req, Good(r), NEW a \in Clones, NEW q \in Requests,
           Call(r, a, q)
    PROVE  Good(r)'
<1> DEFINE origin_future == to_future(config.allow_origin, table, q.origin)
<1>1. /\ origin_future \in OriginFuture
      /\ origin_future.state = "Ready" =>
             (origin_future.res # Absent <=> Allows(config.allow_origin, table, q.origin))
      /\ origin_future.state = "Pending" => HasOrigin(q)
  BY ToFutureFacts, ConstantFacts DEF TypeOK, Config, Assumptions, Request, HasOrigin
<1>2. service[a] # Absent
  BY DEF Call
<1>3. /\ stage[r] = "idle" /\ stage'[r] = "pending" /\ task'[r].woken
      /\ calls' = calls
      /\ verdict'[r] = IF origin_future.state = "Pending" THEN "unknown"
                       ELSE Said(Allows(config.allow_origin, table, q.origin))
  BY DEF Call, TypeOK
<1>4. /\ fut'[r].request = q
      /\ fut'[r].allow_origin_future = origin_future
      /\ ~fut'[r].allow_origin_complete
      /\ fut'[r].inner = Absent
      /\ fut'[r].variant = "Forward" => fut'[r].service = service[a]
  BY DEF Call, TypeOK
<1> HIDE DEF origin_future
<1>5. QED
  BY <1>1, <1>2, <1>3, <1>4 DEF Good, Said, OriginFuture, TypeOK

\* The decision reads the verdict: what the future holds is what the policy said.
LEMMA DecisionFollowsVerdict ==
    ASSUME TypeOK, NEW r \in Req, Good(r), Deciding(r)
    PROVE  /\ verdict[r] # "unknown"
           /\ OriginResult(r) = Absent <=> verdict[r] = "denied"
<1>1. stage[r] = "pending" /\ ~fut[r].allow_origin_complete /\ OriginReady(r)
      /\ fut[r] \in Future
  BY DEF Deciding, Polled, TypeOK, Live
<1>2. verdict[r] # "unknown"
  BY <1>1 DEF Good, OriginReady
<1>3. verdict[r] \in {"allowed", "denied"}
  BY <1>2 DEF TypeOK
<1>4. CASE fut[r].allow_origin_future.state = "Ready"
  BY <1>1, <1>3, <1>4 DEF Good, OriginResult
<1>5. CASE fut[r].allow_origin_future.state # "Ready"
  BY <1>1, <1>3, <1>5 DEF Good, OriginResult, HasOrigin
<1>6. QED
  BY <1>2, <1>4, <1>5

\* So does one that waits for the verdict: its waker is left.
LEMMA GoodWaits ==
    ASSUME TypeOK, NEW r \in Req, Good(r), PollWaitsForOrigin(r)
    PROVE  Good(r)'
<1>1. /\ stage'[r] = stage[r] /\ fut' = fut /\ verdict' = verdict /\ config' = config
      /\ calls' = calls /\ answer' = answer
      /\ ~fut[r].allow_origin_complete /\ ~OriginReady(r) /\ stage[r] = "pending"
  BY DEF PollWaitsForOrigin, Polled
<1>2. "origin" \in task'[r].wakers
  BY DEF PollWaitsForOrigin, Waits, TypeOK
<1>3. QED
  BY <1>1, <1>2 DEF Good, OriginReady, Live

\* A refusal is justified by the verdict, and calls nothing.
LEMMA GoodRefuses ==
    ASSUME TypeOK, NEW r \in Req, Good(r), PollRefuses(r)
    PROVE  Good(r)'
<1>1. /\ Deciding(r) /\ stage[r] = "pending" /\ ~fut[r].allow_origin_complete
      /\ fut[r].variant = "Forward" /\ Disallowed(r)
      /\ config' = config /\ verdict' = verdict /\ calls' = calls
  BY DEF PollRefuses, Deciding, Polled, Refuses
<1>2. verdict[r] = "denied" /\ HasOrigin(fut[r].request) /\ calls[r] = <<>>
  BY <1>1, DecisionFollowsVerdict DEF Disallowed, Good
<1>3. stage'[r] = "done" /\ answer'[r].status = config.rejection_status
  BY DEF PollRefuses, Finishes, Ok, TypeOK
<1>4. fut'[r] = Completed(Decided(r))
  BY DEF PollRefuses, TypeOK
<1>5. fut'[r].request = fut[r].request
  BY <1>1, <1>4, DecidedFacts, CompletedFacts
<1>6. QED
  BY <1>1, <1>2, <1>3, <1>5 DEF Good, Live

\* A dispatch is admitted by the verdict, and the first one.
LEMMA GoodDispatches ==
    ASSUME TypeOK, NEW r \in Req, Good(r), PollDispatches(r)
    PROVE  Good(r)'
<1>1. /\ Deciding(r) /\ stage[r] = "pending" /\ ~fut[r].allow_origin_complete
      /\ fut[r].variant = "Forward" /\ ~Refuses(r)
      /\ config' = config /\ verdict' = verdict
      /\ calls'[r] = Append(calls[r], fut[r].service)
  BY DEF PollDispatches, Deciding, Polled, TypeOK
<1>2. /\ verdict[r] # "unknown"
      /\ OriginResult(r) = Absent <=> verdict[r] = "denied"
  BY <1>1, DecisionFollowsVerdict
<1>3. calls'[r] # <<>> /\ Len(calls'[r]) = 1
  <2>1. calls[r] = <<>>
    BY <1>1 DEF Good
  <2>2. calls'[r] = <<fut[r].service>>
    BY <1>1, <2>1
  <2>3. QED
    BY <2>2
<1>4. HasOrigin(fut[r].request) /\ verdict[r] = "denied" =>
          /\ config.deliver_non_allowed_origin
          /\ \/ ~is_websocket_upgrade_request(fut[r].request)
             \/ config.deliver_non_allowed_origin_websocket_upgrade
  BY <1>1, <1>2 DEF Refuses, Disallowed
<1>4a. PICK headers : \E inner \in {Running} \cup Outcomes :
          /\ fut' = [fut EXCEPT ![r] =
                 [Completed(Decided(r)) EXCEPT !.inner = inner, !.headers = headers]]
          /\ IF inner = Running
             THEN Waits(r, "inner") /\ UNCHANGED <<stage, answer>>
             ELSE Finishes(r, InnerAnswer(inner, headers))
  BY DEF PollDispatches
<1>5. PICK inner \in {Running} \cup Outcomes :
          /\ fut' = [fut EXCEPT ![r] =
                 [Completed(Decided(r)) EXCEPT !.inner = inner, !.headers = headers]]
          /\ IF inner = Running
             THEN Waits(r, "inner") /\ UNCHANGED <<stage, answer>>
             ELSE Finishes(r, InnerAnswer(inner, headers))
  BY <1>4a
<1>6. /\ Completed(Decided(r)) \in Future
      /\ Completed(Decided(r)).request = fut[r].request
      /\ Completed(Decided(r)).variant = "Forward"
      /\ Completed(Decided(r)).service = Absent
      /\ Completed(Decided(r)).allow_origin_complete
  BY <1>1, DecidedFacts, CompletedFacts
<1>7. /\ fut'[r].request = fut[r].request
      /\ fut'[r].service = Absent
      /\ fut'[r].allow_origin_complete
      /\ fut'[r].inner = inner
  BY <1>5, <1>6 DEF TypeOK, Future
<1>8. inner # Absent
  BY ConstantFacts DEF Assumptions
<1>9. \/ /\ inner = Running /\ stage'[r] = "pending" /\ "inner" \in task'[r].wakers
      \/ stage'[r] = "done"
  BY <1>1, <1>5 DEF Waits, Finishes, TypeOK
<1>10. QED
  BY <1>1, <1>2, <1>3, <1>4, <1>7, <1>8, <1>9 DEF Good, Live

\* Polling the inner future again calls nothing.
LEMMA GoodPollInner ==
    ASSUME TypeOK, NEW r \in Req, Good(r), PollInner(r)
    PROVE  Good(r)'
<1>1. /\ stage[r] = "pending" /\ fut[r].variant = "Forward"
      /\ fut[r].allow_origin_complete
      /\ UNCHANGED <<config, fut, verdict, calls>>
  BY DEF PollInner, Polled
<1>2. calls[r] # <<>>
  BY <1>1 DEF Good
<1>3. \/ /\ fut[r].inner = Running /\ stage'[r] = "pending"
         /\ "inner" \in task'[r].wakers
      \/ stage'[r] = "done"
  BY <1>1 DEF PollInner, Waits, Finishes, TypeOK
<1>4. QED
  BY <1>1, <1>2, <1>3 DEF Good, Live

\* A preflight is answered without a call, and there never was one.
LEMMA GoodPreflight ==
    ASSUME TypeOK, NEW r \in Req, Good(r), PollPreflight(r)
    PROVE  Good(r)'
<1> DEFINE f == Decided(r)
<1>1. /\ stage[r] = "pending" /\ fut[r].variant = "Preflight"
      /\ UNCHANGED <<config, verdict, calls>>
  BY DEF PollPreflight, Deciding, Polled
<1>2. stage'[r] = "done"
  BY DEF PollPreflight, Finishes, TypeOK
<1>3. f \in Future /\ f.request = fut[r].request /\ f.variant = "Preflight"
  BY <1>1, DecidedFacts
<1>4. PICK h : fut' = [fut EXCEPT ![r] = f] \/ fut' = [fut EXCEPT ![r] = [f EXCEPT !.headers = h]]
  BY DEF PollPreflight
<1> HIDE DEF f
<1>5. fut'[r].request = fut[r].request /\ fut'[r].variant = "Preflight"
  BY <1>3, <1>4 DEF TypeOK, Future
<1>6. QED
  BY <1>1, <1>2, <1>5 DEF Good, Live

\* A verdict that arrives wakes the future that waits for it.
LEMMA GoodOriginReply ==
    ASSUME TypeOK, NEW r \in Req, Good(r), OriginReply(r)
    PROVE  Good(r)'
<1>1. /\ stage[r] = "pending" /\ verdict[r] = "unknown"
      /\ UNCHANGED <<config, stage, fut, calls, answer>>
  BY DEF OriginReply
<1>2. verdict'[r] \in {"allowed", "denied"}
  BY DEF OriginReply, Said, TypeOK
<1>3. calls[r] = <<>>
  BY <1>1 DEF Good
<1>4. ~task'[r].woken =>
          ~task[r].woken /\ "origin" \notin task[r].wakers /\ task'[r].wakers = task[r].wakers
  BY WakesFacts DEF OriginReply
<1>5. fut[r].allow_origin_future.state = "Ready" => fut[r].allow_origin_complete
  BY <1>1 DEF Good
<1>6. QED
  BY <1>1, <1>2, <1>3, <1>4, <1>5 DEF Good, Live

\* An inner future that resolves wakes the future that waits for it.
LEMMA GoodInnerFinish ==
    ASSUME TypeOK, NEW r \in Req, Good(r), InnerFinish(r)
    PROVE  Good(r)'
<1>1. /\ stage[r] = "pending" /\ fut[r].inner = Running /\ fut[r] \in Future
      /\ UNCHANGED <<config, stage, verdict, calls, answer>>
  BY DEF InnerFinish, TypeOK, Live
<1>2. PICK o \in Outcomes : fut' = [fut EXCEPT ![r].inner = o]
  BY DEF InnerFinish
<1>3. /\ fut'[r].inner = o /\ o # Absent
      /\ fut'[r].request = fut[r].request /\ fut'[r].variant = fut[r].variant
      /\ fut'[r].service = fut[r].service
      /\ fut'[r].allow_origin_complete = fut[r].allow_origin_complete
      /\ fut'[r].allow_origin_future = fut[r].allow_origin_future
  BY <1>1, <1>2, ConstantFacts DEF TypeOK, Future, Assumptions
<1>4. ~task'[r].woken =>
          ~task[r].woken /\ "inner" \notin task[r].wakers /\ task'[r].wakers = task[r].wakers
  BY WakesFacts DEF InnerFinish
<1>5. Running # Absent
  BY ConstantFacts DEF Assumptions
<1>6. QED
  BY <1>1, <1>3, <1>4, <1>5 DEF Good, Live, OriginReady

\* Neither a drop nor a wake-up without a cause disturbs the invariant.
LEMMA GoodDropOrWake ==
    ASSUME TypeOK, NEW r \in Req, Good(r), Drop(r) \/ SpuriousWake(r) \/ Move(r)
    PROVE  Good(r)'
<1>1. CASE Drop(r)
  BY <1>1 DEF Drop, Good, TypeOK, Live
<1>2. CASE SpuriousWake(r) \/ Move(r)
  BY <1>2 DEF SpuriousWake, Move, Good, TypeOK, Live, OriginReady
<1>3. QED
  BY <1>1, <1>2

\* Every step keeps the inductive invariant.
LEMMA NextInv == IInv /\ [Next]_vars => IInv'
<1> SUFFICES ASSUME IInv, [Next]_vars PROVE IInv'
  OBVIOUS
<1>1. TypeOK /\ \A r \in Req : Good(r)
  BY GoodIsIInv DEF IInv
<1>2. TypeOK'
  BY NextType
<1>3. ASSUME NEW r \in Req, OthersUnchanged(r), Good(r)'
      PROVE  \A s \in Req : Good(s)'
  <2> SUFFICES ASSUME NEW s \in Req PROVE Good(s)'
    OBVIOUS
  <2>1. CASE s = r
    BY <1>3, <2>1
  <2>2. CASE s # r
    BY <1>1, <1>3, <2>2, GoodFrame
  <2>3. QED
    BY <2>1, <2>2
<1>4. \A r \in Req : Good(r)'
  <2>1. ASSUME NEW r \in Req, NEW a \in Clones, NEW q \in Requests, Call(r, a, q)
        PROVE  \A s \in Req : Good(s)'
    BY <1>1, <1>3, <2>1, GoodCall, OthersAreUnchanged
  <2>2. ASSUME NEW r \in Req, PollWaitsForOrigin(r)
        PROVE  \A s \in Req : Good(s)'
    BY <1>1, <1>3, <2>2, GoodWaits, OthersAreUnchanged
  <2>3. ASSUME NEW r \in Req, PollRefuses(r)
        PROVE  \A s \in Req : Good(s)'
    BY <1>1, <1>3, <2>3, GoodRefuses, OthersAreUnchanged
  <2>4. ASSUME NEW r \in Req, PollDispatches(r)
        PROVE  \A s \in Req : Good(s)'
    BY <1>1, <1>3, <2>4, GoodDispatches, OthersAreUnchanged
  <2>5. ASSUME NEW r \in Req, PollInner(r)
        PROVE  \A s \in Req : Good(s)'
    BY <1>1, <1>3, <2>5, GoodPollInner, OthersAreUnchanged
  <2>6. ASSUME NEW r \in Req, PollPreflight(r)
        PROVE  \A s \in Req : Good(s)'
    BY <1>1, <1>3, <2>6, GoodPreflight, OthersAreUnchanged
  <2>7. ASSUME NEW r \in Req, Drop(r) \/ SpuriousWake(r) \/ Move(r)
        PROVE  \A s \in Req : Good(s)'
    BY <1>1, <1>3, <2>7, GoodDropOrWake, OthersAreUnchanged
  <2>8. ASSUME NEW r \in Req, OriginReply(r)
        PROVE  \A s \in Req : Good(s)'
    BY <1>1, <1>3, <2>8, GoodOriginReply, OthersAreUnchanged
  <2>9. ASSUME NEW r \in Req, InnerFinish(r)
        PROVE  \A s \in Req : Good(s)'
    BY <1>1, <1>3, <2>9, GoodInnerFinish, OthersAreUnchanged
  <2>10. CASE ChangeTable \/ CloneStep \/ UNCHANGED vars
    BY <1>1, <2>10, CloneStepFacts DEF ChangeTable, vars, Good, Live, OriginReady
  <2>11. QED
    BY <2>1, <2>2, <2>3, <2>4, <2>5, <2>6, <2>7, <2>8, <2>9, <2>10
       DEF Next, CloneStep
<1>5. QED
  BY <1>2, <1>4 DEF IInv, Good, IdleIsUncalled, DispatchIsAdmitted, RefusalIsJustified,
     DispatchedOnce, OriginFutureAgrees, NoLostWakeup

\* The inductive invariant holds in every reachable state.
LEMMA SpecInv == Spec => []IInv
  BY InitInv, NextInv, PTL DEF Spec

(***************************************************************************)
(* The theorems.                                                           *)
(***************************************************************************)

\* Every field of a future, every answer and every call stays of its type.
THEOREM TypeCorrect == Spec => []TypeOK
<1>1. IInv => TypeOK
  BY DEF IInv
<1>2. QED
  BY <1>1, SpecInv, PTL

\* No application code runs for a request the policy turned down and the configuration
\* refuses, nor for any request before the policy has spoken: the reason why Cors::call
\* holds the service instead of calling it.
THEOREM NoDisallowedDispatch == Spec => []DispatchIsAdmitted
<1>1. IInv => DispatchIsAdmitted
  BY DEF IInv
<1>2. QED
  BY <1>1, SpecInv, PTL

\* Conversely only a request with an Origin the policy turned down is answered by a
\* Forward future without the inner service.
THEOREM OnlyDisallowedAreRefused == Spec => []RefusalIsJustified
<1>1. IInv => RefusalIsJustified
  BY DEF IInv
<1>2. QED
  BY <1>1, SpecInv, PTL

\* The inner service is called at most once for a request, and `polled after completion'
\* is never reached by a caller that stops polling a finished future.
THEOREM SingleDispatch == Spec => []DispatchedOnce
<1>1. IInv => DispatchedOnce
  BY DEF IInv
<1>2. QED
  BY <1>1, SpecInv, PTL

\* The verdict taken out of the origin future is the one the policy gave.
THEOREM VerdictKept == Spec => []OriginFutureAgrees
<1>1. IInv => OriginFutureAgrees
  BY DEF IInv
<1>2. QED
  BY <1>1, SpecInv, PTL

\* Whenever a poll returns Pending, the future that must wake the task has its waker.
THEOREM WakersRegistered == Spec => []NoLostWakeup
<1>1. IInv => NoLostWakeup
  BY DEF IInv
<1>2. QED
  BY <1>1, SpecInv, PTL
===============================================================================
