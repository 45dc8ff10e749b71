--------------------------- MODULE CorsServiceProofs ---------------------------
(***************************************************************************)
(* What the caller of a Cors service sees.  The futures of CorsFuture      *)
(* implement the promise of CorsService: the initial states are initial    *)
(* states of it, and every step is one of its steps or changes nothing it  *)
(* can see.  And the headers of an answer match the verdict of its         *)
(* request.                                                                *)
(***************************************************************************)
EXTENDS CorsBufferProofs

(***************************************************************************)
(* What CorsService sees of the futures: the mapping in CorsFuture!Promise.*)
(***************************************************************************)

Open      == {r \in Req : stage[r] = "pending"}
Asked(r)  == IF Live(r) THEN fut[r].request ELSE Absent
Kept(r)   == IF Live(r) THEN fut[r].service ELSE Absent
Closed(r) == IF stage[r] \in {"idle", "pending"} THEN "none"
             ELSE IF stage[r] = "dropped" THEN "abandoned"
             ELSE IF calls[r] = <<>> THEN "middleware"
             ELSE "handler"

\* CorsService reads the configuration and the policy as CorsFuture does.
LEMMA SameReading ==
    /\ \A c : Promise!update_vary(c) = update_vary(c)
    /\ \A c : Promise!validate(c) = validate(c)
    /\ \A p, t, o : Promise!Allows(p, t, o) <=> Allows(p, t, o)
    /\ \A q : Promise!HasOrigin(q) <=> HasOrigin(q)
    /\ \A q : Promise!is_preflight_request(q) <=> is_preflight_request(q)
    /\ \A q : Promise!is_websocket_upgrade_request(q) = is_websocket_upgrade_request(q)
<1>1. \A c : Promise!update_vary(c) = update_vary(c)
  BY DEF Promise!update_vary, update_vary, Promise!Vary_list, Vary_list,
         Promise!join_names, join_names, Promise!derived_vary, derived_vary
<1>2. \A c : Promise!validate(c) = validate(c)
  BY DEF Promise!validate, validate, Promise!is_wildcard, is_wildcard,
         Promise!Wildcard, Wildcard
<1>3. \A p, t, o : Promise!Allows(p, t, o) <=> Allows(p, t, o)
  BY DEF Promise!Allows, Allows, Promise!origin_list_matches, origin_list_matches
<1>4. QED
  BY <1>1, <1>2, <1>3
     DEF Promise!HasOrigin, HasOrigin, Promise!is_preflight_request, is_preflight_request,
         Promise!is_websocket_upgrade_request, is_websocket_upgrade_request

(***************************************************************************)
(* An invariant more: the variant of a future is the kind of its request,  *)
(* a preflight the middleware answers has no service to call, and there is *)
(* no verdict before the call.                                             *)
(***************************************************************************)

Kinds(r) ==
    Live(r) => (fut[r].variant = "Preflight"
                    <=> is_preflight_request(fut[r].request) /\ ~config.deliver_preflight)

Unserved(r) ==
    stage[r] = "pending" /\ fut[r].variant = "Preflight" =>
        calls[r] = <<>> /\ fut[r].service = Absent

Unheard(r) == stage[r] = "idle" => verdict[r] = "unknown"

KindInv == \A r \in Req : Kinds(r) /\ Unserved(r) /\ Unheard(r)

\* What a step may make of a live future: it keeps its request and its variant.
Continues(r) ==
    /\ config' = config
    /\ Live(r)' => /\ Live(r)
                   /\ fut'[r].request = fut[r].request
                   /\ fut'[r].variant = fut[r].variant
    /\ stage'[r] = "pending" /\ fut[r].variant = "Preflight" =>
           /\ stage[r] = "pending"
           /\ calls'[r] = calls[r] /\ fut'[r].service = fut[r].service
    /\ stage'[r] = "idle" => stage[r] = "idle" /\ verdict'[r] = verdict[r]

\* A request that continues keeps the invariant.
LEMMA ContinuesFacts ==
    ASSUME NEW r \in Req, Continues(r), Kinds(r), Unserved(r), Unheard(r)
    PROVE  Kinds(r)' /\ Unserved(r)' /\ Unheard(r)'
  BY DEF Continues, Kinds, Unserved, Unheard, Live, is_preflight_request

\* What becomes of the fields of a future that is refused.
LEMMA RefusalView ==
    ASSUME TypeOK, NEW r \in Req, PollRefuses(r)
    PROVE  /\ stage[r] = "pending" /\ stage'[r] = "done"
           /\ fut'[r].request = fut[r].request /\ fut'[r].variant = fut[r].variant
           /\ fut'[r].service = Absent
<1>1. stage[r] = "pending" /\ stage'[r] = "done" /\ fut'[r] = Completed(Decided(r))
  BY DEF PollRefuses, Deciding, Polled, Finishes, TypeOK
<1>2. QED
  BY <1>1, DecidedFacts, CompletedFacts

\* A dispatch keeps request and variant and gives the service away.
LEMMA DispatchView ==
    ASSUME TypeOK, NEW r \in Req, PollDispatches(r)
    PROVE  /\ stage[r] = "pending" /\ stage'[r] \in {"pending", "done"}
           /\ fut'[r].request = fut[r].request /\ fut'[r].variant = fut[r].variant
           /\ fut'[r].service = Absent
<1> DEFINE headers == DispatchHeaders(r)
<1>1. stage[r] = "pending" /\ stage'[r] \in {"pending", "done"}
  BY DEF PollDispatches, Deciding, Polled, Finishes, TypeOK
<1>2. PICK inner : fut' = [fut EXCEPT ![r] =
                      [Completed(Decided(r)) EXCEPT !.inner = inner, !.headers = headers]]
  BY DEF PollDispatches
<1> DEFINE f == Completed(Decided(r))
<1>3. /\ f \in Future /\ f.request = fut[r].request /\ f.variant = fut[r].variant
      /\ f.service = Absent
  BY <1>1, DecidedFacts, CompletedFacts
<1>4. fut'[r] = [f EXCEPT !.inner = inner, !.headers = headers]
  BY <1>2 DEF TypeOK
<1> HIDE DEF f, headers
<1>5. QED
  BY <1>1, <1>3, <1>4 DEF Future

\* An answered preflight keeps all three.
LEMMA PreflightView ==
    ASSUME TypeOK, NEW r \in Req, PollPreflight(r)
    PROVE  /\ stage[r] = "pending" /\ stage'[r] = "done"
           /\ fut'[r].request = fut[r].request /\ fut'[r].variant = fut[r].variant
           /\ fut'[r].service = fut[r].service
<1> DEFINE f == Decided(r)
<1>1. stage[r] = "pending" /\ stage'[r] = "done"
  BY DEF PollPreflight, Deciding, Polled, Finishes, TypeOK
<1>2. PICK h : \/ fut' = [fut EXCEPT ![r] = f]
               \/ fut' = [fut EXCEPT ![r] = [f EXCEPT !.headers = h]]
  BY DEF PollPreflight
<1>3. /\ f \in Future /\ f.request = fut[r].request /\ f.variant = fut[r].variant
      /\ f.service = fut[r].service
  BY <1>1, DecidedFacts
<1> HIDE DEF f
<1>4. fut'[r] = f \/ fut'[r] = [f EXCEPT !.headers = h]
  BY <1>2 DEF TypeOK
<1>5. QED
  BY <1>1, <1>3, <1>4 DEF Future

\* The steps that CorsService does not see: they keep request, service and calls.
LEMMA SilentView ==
    ASSUME TypeOK, NEW r \in Req,
           \/ PollWaitsForOrigin(r) \/ SpuriousWake(r) \/ Move(r) \/ OriginReply(r)
           \/ InnerFinish(r) \/ PollInner(r)
    PROVE  /\ UNCHANGED <<config, service, table, calls>>
           /\ stage[r] = "pending" /\ stage'[r] \in {"pending", "done"}
           /\ fut'[r].request = fut[r].request /\ fut'[r].variant = fut[r].variant
           /\ fut'[r].service = fut[r].service
           /\ ~PollInner(r) => stage' = stage
           /\ ~OriginReply(r) => verdict' = verdict
<1>1. CASE PollWaitsForOrigin(r)
  BY <1>1 DEF PollWaitsForOrigin, Polled
<1>2. CASE SpuriousWake(r) \/ Move(r)
  BY <1>2 DEF SpuriousWake, Move
<1>3. CASE OriginReply(r)
  BY <1>3 DEF OriginReply
<1>4. CASE InnerFinish(r)
  <2>1. fut[r] \in Future /\ stage[r] = "pending"
        /\ UNCHANGED <<config, service, table, stage, verdict, calls>>
    BY <1>4 DEF InnerFinish, TypeOK, Live
  <2>2. PICK o : fut' = [fut EXCEPT ![r].inner = o]
    BY <1>4 DEF InnerFinish
  <2>3. /\ fut'[r].request = fut[r].request /\ fut'[r].variant = fut[r].variant
        /\ fut'[r].service = fut[r].service
    BY <2>1, <2>2 DEF TypeOK, Future
  <2>4. QED
    BY <2>1, <2>3
<1>5. CASE PollInner(r)
  BY <1>5 DEF PollInner, Polled, Finishes, TypeOK
<1>6. QED
  BY <1>1, <1>2, <1>3, <1>4, <1>5

\* A new future is of the kind of its request.
LEMMA KindCall ==
    ASSUME TypeOK, NEW r \in Req, Good(r), NEW a \in Clones, NEW q \in Requests,
           Call(r, a, q)
    PROVE  Kinds(r)' /\ Unserved(r)' /\ Unheard(r)'
<1>1. /\ config' = config /\ calls' = calls /\ stage[r] = "idle" /\ stage'[r] = "pending"
      /\ fut'[r].request = q
      /\ fut'[r].variant = "Preflight" <=> is_preflight_request(q) /\ ~config.deliver_preflight
      /\ fut'[r].variant = "Preflight" => fut'[r].service = Absent
  BY DEF Call, TypeOK
<1>2. calls[r] = <<>>
  BY <1>1 DEF Good
<1>3. QED
  BY <1>1, <1>2 DEF Kinds, Unserved, Unheard, Live, is_preflight_request

\* Every step keeps the invariant.
LEMMA KindStep == IInv /\ KindInv /\ [Next]_vars => KindInv'
<1> SUFFICES ASSUME IInv, KindInv, [Next]_vars, NEW s \in Req
             PROVE  Kinds(s)' /\ Unserved(s)' /\ Unheard(s)'
  BY DEF KindInv
<1>1. TypeOK /\ Good(s) /\ Kinds(s) /\ Unserved(s) /\ Unheard(s)
  BY GoodIsIInv DEF IInv, KindInv
<1>2. ASSUME NEW r \in Req, OthersUnchanged(r), r # s
      PROVE  Continues(s)
  BY <1>2 DEF OthersUnchanged, Continues, Live
<1>3. ASSUME NEW r \in Req, NEW a \in Clones, NEW q \in Requests, Call(r, a, q)
      PROVE  Kinds(s)' /\ Unserved(s)' /\ Unheard(s)'
  BY <1>1, <1>2, <1>3, KindCall, ContinuesFacts, OthersAreUnchanged
<1>4. ASSUME NEW r \in Req, PollRefuses(r) PROVE Continues(s)
  <2>1. CASE r = s
    BY <1>1, <1>4, <2>1, RefusalView DEF Continues, Live, PollRefuses
  <2>2. QED
    BY <1>1, <1>2, <1>4, <2>1, OthersAreUnchanged
<1>5. ASSUME NEW r \in Req, PollDispatches(r) PROVE Continues(s)
  <2>1. CASE r = s
    BY <1>1, <1>5, <2>1, DispatchView DEF Continues, Live, PollDispatches
  <2>2. QED
    BY <1>1, <1>2, <1>5, <2>1, OthersAreUnchanged
<1>6. ASSUME NEW r \in Req, PollPreflight(r) PROVE Continues(s)
  <2>1. CASE r = s
    BY <1>1, <1>6, <2>1, PreflightView DEF Continues, Live, PollPreflight
  <2>2. QED
    BY <1>1, <1>2, <1>6, <2>1, OthersAreUnchanged
<1>7. ASSUME NEW r \in Req,
             \/ PollWaitsForOrigin(r) \/ SpuriousWake(r) \/ Move(r) \/ OriginReply(r)
             \/ InnerFinish(r) \/ PollInner(r)
      PROVE  Continues(s)
  <2>1. CASE r = s
    BY <1>1, <1>7, <2>1, SilentView DEF Continues, Live
  <2>2. QED
    BY <1>1, <1>2, <1>7, <2>1, OthersAreUnchanged
<1>8. ASSUME NEW r \in Req, Drop(r) PROVE Continues(s)
  <2>1. CASE r = s
    BY <1>1, <1>8, <2>1 DEF Continues, Live, Drop, TypeOK
  <2>2. QED
    BY <1>1, <1>2, <1>8, <2>1, OthersAreUnchanged
<1>9. CASE ChangeTable \/ CloneStep \/ UNCHANGED vars
  <2>1. Continues(s)
    BY <1>1, <1>9, CloneStepFacts DEF ChangeTable, vars, Continues, Live
  <2>2. QED
    BY <1>1, <2>1, ContinuesFacts
<1>10. QED
  BY <1>1, <1>3, <1>4, <1>5, <1>6, <1>7, <1>8, <1>9, ContinuesFacts DEF Next, CloneStep

\* It holds in every reachable state.
LEMMA SpecKinds == Spec => []KindInv
<1>1. Init => KindInv
  BY DEF Init, KindInv, Kinds, Unserved, Unheard, Live
<1>2. QED
  BY <1>1, KindStep, SpecInv, PTL DEF Spec

(***************************************************************************)
(* Every step maps to a step of CorsService or to none.                    *)
(***************************************************************************)

request == [r \in Req |-> Asked(r)]
handler == [r \in Req |-> Kept(r)]
reply   == [r \in Req |-> Closed(r)]

\* What a step of request r does to the view of CorsService.
LEMMA ViewFrame ==
    ASSUME TypeOK, TypeOK', NEW r \in Req, OthersUnchanged(r)
    PROVE  /\ request' = [request EXCEPT ![r] = Asked(r)']
           /\ handler' = [handler EXCEPT ![r] = Kept(r)']
           /\ reply' = [reply EXCEPT ![r] = Closed(r)']
           /\ calls' = [calls EXCEPT ![r] = calls'[r]]
           /\ verdict' = [verdict EXCEPT ![r] = verdict'[r]]
           /\ stage'[r] = "pending" => Open' = Open \cup {r}
           /\ stage'[r] # "pending" => Open' = Open \ {r}
<1>1. \A s \in Req \ {r} :
          /\ Asked(s)' = Asked(s) /\ Kept(s)' = Kept(s) /\ Closed(s)' = Closed(s)
          /\ calls'[s] = calls[s] /\ verdict'[s] = verdict[s] /\ stage'[s] = stage[s]
  BY DEF OthersUnchanged, Asked, Kept, Closed, Live
<1>2. calls' = [calls EXCEPT ![r] = calls'[r]] /\ verdict' = [verdict EXCEPT ![r] = verdict'[r]]
  BY <1>1 DEF TypeOK
<1>3. request' = [request EXCEPT ![r] = Asked(r)']
  BY <1>1 DEF request
<1>4. handler' = [handler EXCEPT ![r] = Kept(r)']
  BY <1>1 DEF handler
<1>5. reply' = [reply EXCEPT ![r] = Closed(r)']
  BY <1>1 DEF reply
<1>6. /\ stage'[r] = "pending" => Open' = Open \cup {r}
      /\ stage'[r] # "pending" => Open' = Open \ {r}
  BY <1>1 DEF Open
<1>7. QED
  BY <1>2, <1>3, <1>4, <1>5, <1>6

\* Cors::call opens a request.
LEMMA CallOpens ==
    ASSUME TypeOK, TypeOK', NEW r \in Req, Good(r), Unheard(r),
           NEW a \in Clones, NEW q \in Requests, Call(r, a, q)
    PROVE  Promise!Open(r, a, q)
<1>1. /\ service[a] # Absent /\ stage[r] = "idle" /\ stage'[r] = "pending"
      /\ UNCHANGED <<config, service, table, calls>>
      /\ fut'[r].request = q
      /\ fut'[r].service = IF is_preflight_request(q) /\ ~config.deliver_preflight
                           THEN Absent ELSE service[a]
  BY DEF Call, TypeOK
<1>2. OthersUnchanged(r)
  BY OthersAreUnchanged
<1>3. verdict' = [verdict EXCEPT ![r] = Said(Allows(config.allow_origin, table, q.origin))]
      \/ verdict' = verdict
  <2>1. \/ verdict' = [verdict EXCEPT ![r] = Said(Allows(config.allow_origin, table, q.origin))]
        \/ verdict' = [verdict EXCEPT ![r] = "unknown"]
    BY DEF Call
  <2>2. verdict[r] = "unknown"
    BY <1>1 DEF Unheard
  <2>3. QED
    BY <2>1, <2>2 DEF TypeOK
<1>4. /\ request' = [request EXCEPT ![r] = q]
      /\ handler' = [handler EXCEPT ![r] = fut'[r].service]
      /\ reply' = [reply EXCEPT ![r] = "none"]
      /\ Open' = Open \cup {r}
  BY <1>1, <1>2, ViewFrame DEF Asked, Kept, Closed, Live
<1>5. reply[r] = "none" /\ reply' = reply /\ r \notin Open
  BY <1>1, <1>4 DEF reply, Closed, Open
<1>6. Promise!Says(r, q) \/ UNCHANGED verdict
  BY <1>3, SameReading DEF Promise!Says, Said
<1>7. QED
  BY <1>1, <1>4, <1>5, <1>6, SameReading
     DEF Promise!Open, Promise!Synthetic, Open, request, handler, reply, Asked, Kept, Closed

\* What the promise admits, in terms of the future's own test.
LEMMA AdmittedFacts ==
    ASSUME TypeOK, NEW r \in Req, Good(r), Kinds(r), Deciding(r)
    PROVE  /\ fut[r].variant = "Preflight" => ~Promise!Admitted(fut[r].request, verdict[r])
           /\ Refuses(r) => ~Promise!Admitted(fut[r].request, verdict[r])
           /\ fut[r].variant = "Forward" /\ ~Refuses(r) =>
                  Promise!Admitted(fut[r].request, verdict[r])
<1>1. /\ verdict[r] # "unknown" /\ verdict[r] \in {"unknown", "allowed", "denied"}
      /\ OriginResult(r) = Absent <=> verdict[r] = "denied"
  BY DecisionFollowsVerdict DEF TypeOK
<1>2. /\ Live(r) /\ stage[r] = "pending"
      /\ fut[r].variant = "Preflight" <=> Promise!Synthetic(fut[r].request)
  BY SameReading DEF Deciding, Polled, Live, Kinds, Promise!Synthetic
<1>3. QED
  BY <1>1, <1>2, SameReading DEF Promise!Admitted, Refuses, Disallowed

\* The view of a pending request.
LEMMA PendingView ==
    ASSUME NEW r \in Req, stage[r] = "pending"
    PROVE  /\ r \in Open /\ request[r] = fut[r].request
           /\ handler[r] = fut[r].service /\ reply[r] = "none"
  BY DEF Open, request, handler, reply, Asked, Kept, Closed, Live

\* A refused request is closed by the middleware.
LEMMA RefusesCloses ==
    ASSUME TypeOK, TypeOK', NEW r \in Req, Good(r), Kinds(r), PollRefuses(r)
    PROVE  Promise!CloseUnhandled(r)
<1>1. /\ Deciding(r) /\ Refuses(r) /\ fut[r].variant = "Forward"
      /\ ~fut[r].allow_origin_complete
      /\ UNCHANGED <<config, service, table, verdict, calls>>
  BY DEF PollRefuses, Deciding
<1>2. /\ stage[r] = "pending" /\ stage'[r] = "done" /\ fut'[r].service = Absent
      /\ fut'[r].request = fut[r].request
  BY RefusalView
<1>3. calls[r] = <<>> /\ verdict[r] # "unknown"
      /\ ~Promise!Admitted(fut[r].request, verdict[r])
  BY <1>1, <1>2, AdmittedFacts, DecisionFollowsVerdict DEF Good
<1>4. /\ request' = [request EXCEPT ![r] = fut[r].request]
      /\ handler' = [handler EXCEPT ![r] = Absent]
      /\ reply' = [reply EXCEPT ![r] = "middleware"]
      /\ Open' = Open \ {r}
  BY <1>1, <1>2, <1>3, ViewFrame, OthersAreUnchanged DEF Asked, Kept, Closed, Live
<1>5. r \in Open /\ request[r] = fut[r].request /\ request' = request
  BY <1>2, <1>4, PendingView DEF request
<1>6. QED
  BY <1>1, <1>3, <1>4, <1>5
     DEF Promise!CloseUnhandled, Open, request, handler, reply, Asked, Kept, Closed

\* So is a preflight, which never had a handler.
LEMMA PreflightCloses ==
    ASSUME TypeOK, TypeOK', NEW r \in Req, Good(r), Kinds(r), Unserved(r), PollPreflight(r)
    PROVE  Promise!CloseUnhandled(r)
<1>1. /\ Deciding(r) /\ fut[r].variant = "Preflight"
      /\ UNCHANGED <<config, service, table, verdict, calls>>
  BY DEF PollPreflight
<1>2. /\ stage[r] = "pending" /\ stage'[r] = "done"
      /\ fut'[r].service = fut[r].service /\ fut'[r].request = fut[r].request
  BY PreflightView
<1>3. /\ calls[r] = <<>> /\ fut[r].service = Absent /\ verdict[r] # "unknown"
      /\ ~Promise!Admitted(fut[r].request, verdict[r])
  BY <1>1, <1>2, AdmittedFacts, DecisionFollowsVerdict DEF Unserved
<1>4. /\ request' = [request EXCEPT ![r] = fut[r].request]
      /\ handler' = [handler EXCEPT ![r] = Absent]
      /\ reply' = [reply EXCEPT ![r] = "middleware"]
      /\ Open' = Open \ {r}
  BY <1>1, <1>2, <1>3, ViewFrame, OthersAreUnchanged DEF Asked, Kept, Closed, Live
<1>5. r \in Open /\ request[r] = fut[r].request /\ request' = request
  BY <1>2, <1>4, PendingView DEF request
<1>6. QED
  BY <1>1, <1>3, <1>4, <1>5
     DEF Promise!CloseUnhandled, Open, request, handler, reply, Asked, Kept, Closed

\* A dispatch runs the handler, and closes the request if the inner future is ready.
LEMMA DispatchRuns ==
    ASSUME TypeOK, TypeOK', NEW r \in Req, Good(r), Kinds(r), PollDispatches(r)
    PROVE  Promise!Handle(r) \/ Promise!CloseHandled(r)
<1>1. /\ Deciding(r) /\ ~Refuses(r) /\ fut[r].variant = "Forward"
      /\ ~fut[r].allow_origin_complete
      /\ calls' = [calls EXCEPT ![r] = Append(@, fut[r].service)]
      /\ UNCHANGED <<config, service, table, verdict>>
  BY DEF PollDispatches, Deciding
<1>2. /\ stage[r] = "pending" /\ stage'[r] \in {"pending", "done"}
      /\ fut'[r].service = Absent /\ fut'[r].request = fut[r].request
  BY DispatchView
<1>3. calls[r] = <<>> /\ Promise!Admitted(fut[r].request, verdict[r])
  BY <1>1, <1>2, AdmittedFacts DEF Good
<1>4. calls' = [calls EXCEPT ![r] = <<fut[r].service>>] /\ calls'[r] # <<>>
  BY <1>1, <1>3 DEF TypeOK
<1>5. /\ request' = [request EXCEPT ![r] = fut[r].request]
      /\ handler' = [handler EXCEPT ![r] = Absent]
      /\ reply' = [reply EXCEPT ![r] = IF stage'[r] = "done" THEN "handler" ELSE "none"]
      /\ stage'[r] = "pending" => Open' = Open \cup {r}
      /\ stage'[r] = "done" => Open' = Open \ {r}
  BY <1>2, <1>4, ViewFrame, OthersAreUnchanged DEF Asked, Kept, Closed, Live
<1>6. /\ r \in Open /\ request[r] = fut[r].request /\ handler[r] = fut[r].service
      /\ reply[r] = "none" /\ request' = request
  BY <1>2, <1>5, PendingView DEF request
<1>7. Promise!Run(r)
  BY <1>3, <1>4, <1>5, <1>6 DEF Promise!Run, Open, request, handler, Asked, Kept
<1>8. CASE stage'[r] = "pending"
  <2>1. Open' = Open /\ reply' = reply
    BY <1>5, <1>6, <1>8 DEF reply
  <2>2. QED
    BY <1>1, <1>6, <1>7, <2>1
       DEF Promise!Handle, Open, request, reply, Asked, Closed
<1>9. CASE stage'[r] = "done"
  BY <1>1, <1>5, <1>6, <1>7, <1>9
     DEF Promise!CloseHandled, Open, request, handler, reply, Asked, Kept, Closed
<1>10. QED
  BY <1>2, <1>8, <1>9

\* Polling the inner future is invisible until it is ready, and then closes the request.
LEMMA PollInnerCloses ==
    ASSUME TypeOK, TypeOK', NEW r \in Req, Good(r), PollInner(r)
    PROVE  Promise!CloseHandled(r) \/ UNCHANGED Promise!vars
<1>1. /\ fut[r].variant = "Forward" /\ fut[r].allow_origin_complete
      /\ UNCHANGED <<config, service, table, fut, verdict, calls>>
  BY DEF PollInner
<1>2. stage[r] = "pending" /\ (stage' = stage \/ stage'[r] = "done")
  BY DEF PollInner, Polled, Finishes, TypeOK
<1>3. calls[r] # <<>>
  BY <1>1, <1>2 DEF Good
<1>4. CASE stage' = stage
  BY <1>1, <1>4 DEF Promise!vars, Live
<1>5. CASE stage'[r] = "done"
  <2>1. /\ request' = [request EXCEPT ![r] = fut[r].request]
        /\ handler' = [handler EXCEPT ![r] = fut[r].service]
        /\ reply' = [reply EXCEPT ![r] = "handler"]
        /\ Open' = Open \ {r}
    BY <1>1, <1>3, <1>5, ViewFrame, OthersAreUnchanged DEF Asked, Kept, Closed, Live
  <2>2. r \in Open /\ request' = request /\ handler' = handler
    BY <1>2, <2>1, PendingView DEF request, handler
  <2>3. QED
    BY <1>1, <1>3, <2>1, <2>2
       DEF Promise!CloseHandled, Open, request, handler, reply, Asked, Kept, Closed
<1>6. QED
  BY <1>2, <1>4, <1>5

\* A drop abandons the request.
LEMMA DropAbandons ==
    ASSUME TypeOK, TypeOK', NEW r \in Req, Drop(r)
    PROVE  Promise!Abandon(r)
<1>1. /\ stage[r] = "pending" /\ stage'[r] = "dropped"
      /\ UNCHANGED <<config, service, table, verdict, calls>>
  BY DEF Drop, TypeOK
<1>2. /\ request' = [request EXCEPT ![r] = Absent]
      /\ handler' = [handler EXCEPT ![r] = Absent]
      /\ reply' = [reply EXCEPT ![r] = "abandoned"]
      /\ Open' = Open \ {r}
  BY <1>1, ViewFrame, OthersAreUnchanged DEF Asked, Kept, Closed, Live
<1>3. QED
  BY <1>1, <1>2, PendingView
     DEF Promise!Abandon, Open, request, handler, reply, Asked, Kept, Closed

\* The application's predicate decides.
LEMMA ReplyDecides ==
    ASSUME TypeOK, NEW r \in Req, OriginReply(r)
    PROVE  Promise!Decide(r)
<1>1. /\ stage[r] = "pending" /\ verdict[r] = "unknown"
      /\ verdict' = [verdict EXCEPT ![r] =
             Said(Allows(config.allow_origin, table, fut[r].request.origin))]
      /\ UNCHANGED <<config, service, table, stage, fut, calls>>
  BY DEF OriginReply
<1>2. r \in Open /\ request[r] = fut[r].request
  BY <1>1, PendingView
<1>3. Promise!Says(r, request[r])
  BY <1>1, <1>2, SameReading DEF Promise!Says, Said
<1>4. UNCHANGED <<Open, request, handler, reply>>
  BY <1>1 DEF Open, request, handler, reply, Asked, Kept, Closed, Live
<1>5. QED
  BY <1>1, <1>2, <1>3, <1>4
     DEF Promise!Decide, Open, request, handler, reply, Asked, Kept, Closed

\* The other steps of a request are invisible.
LEMMA SilentSteps ==
    ASSUME TypeOK, TypeOK', NEW r \in Req,
           PollWaitsForOrigin(r) \/ SpuriousWake(r) \/ Move(r) \/ InnerFinish(r)
    PROVE  UNCHANGED Promise!vars
<1>1. /\ UNCHANGED <<config, service, table, verdict, calls, stage>>
      /\ stage[r] = "pending"
      /\ fut'[r].request = fut[r].request /\ fut'[r].service = fut[r].service
  BY SilentView DEF PollWaitsForOrigin, SpuriousWake, Move, InnerFinish, PollInner
<1>2. /\ request' = [request EXCEPT ![r] = fut[r].request]
      /\ handler' = [handler EXCEPT ![r] = fut[r].service]
  BY <1>1, ViewFrame, OthersAreUnchanged DEF Asked, Kept, Live
<1>3. UNCHANGED <<Open, request, handler, reply>>
  BY <1>1, <1>2, PendingView DEF Open, request, handler, reply, Closed
<1>4. QED
  BY <1>1, <1>3 DEF Promise!vars, Open, request, handler, reply, Asked, Kept, Closed

\* What a server does to its clones, and the application to its table, it does to the
\* promise's.
LEMMA SharedSteps ==
    ASSUME TypeOK, ChangeTable \/ CloneStep
    PROVE  Promise!Next
<1>1. CASE ChangeTable
  <2>1. UNCHANGED <<Open, request, handler, reply>>
    BY <1>1 DEF ChangeTable, Open, request, handler, reply, Asked, Kept, Closed, Live
  <2>2. Promise!ChangeTable
    BY <1>1, <2>1 DEF ChangeTable, Promise!ChangeTable, Open, request, handler, reply,
                      Asked, Kept, Closed
  <2>3. QED
    BY <2>2 DEF Promise!Next
<1>2. CASE CloneStep
  <2>1. /\ UNCHANGED <<config, table, verdict, calls>>
        /\ UNCHANGED <<Open, request, handler, reply>>
    BY <1>2, CloneStepFacts DEF Open, request, handler, reply, Asked, Kept, Closed, Live
  <2>2. \E a \in Clones :
            \/ /\ service[a] = Absent
               /\ \E b \in Clones : service' = [service EXCEPT ![a] = service[b]]
            \/ /\ service[a] # Absent
               /\ \E s \in Services \cup {Absent} : service' = [service EXCEPT ![a] = s]
    <3>1. ASSUME NEW a \in Clones, NEW b \in Clones, Clone(a, b)
          PROVE  /\ service[b] = Absent
                 /\ service' = [service EXCEPT ![b] = service[a]]
      BY <3>1 DEF Clone
    <3>2. ASSUME NEW a \in Clones, DropCors(a) \/ InnerMut(a)
          PROVE  /\ service[a] # Absent
                 /\ \E s \in Services \cup {Absent} : service' = [service EXCEPT ![a] = s]
      BY <3>2 DEF DropCors, InnerMut
    <3>3. QED
      BY <1>2, <3>1, <3>2 DEF CloneStep
  <2>3. \E a \in Clones : Promise!ChangeClone(a)
    BY <2>1, <2>2 DEF Promise!ChangeClone, Open, request, handler, reply,
                      Asked, Kept, Closed
  <2>4. QED
    BY <2>3 DEF Promise!Next
<1>3. QED
  BY <1>1, <1>2

\* Every step of the futures is a step of the promise, or none of its.
LEMMA PromiseStep ==
    IInv /\ KindInv /\ [Next]_vars => [Promise!Next]_Promise!vars
<1> SUFFICES ASSUME IInv, KindInv, [Next]_vars
             PROVE  Promise!Next \/ UNCHANGED Promise!vars
  OBVIOUS
<1>1. TypeOK /\ TypeOK' /\ \A r \in Req : Good(r) /\ Kinds(r) /\ Unserved(r) /\ Unheard(r)
  BY GoodIsIInv, NextType DEF IInv, KindInv
<1>2. ASSUME NEW r \in Req, NEW a \in Clones, NEW q \in Requests, Call(r, a, q)
      PROVE  Promise!Next
  BY <1>1, <1>2, CallOpens DEF Promise!Next
<1>3. ASSUME NEW r \in Req, PollRefuses(r) \/ PollPreflight(r)
      PROVE  Promise!Next
  BY <1>1, <1>3, RefusesCloses, PreflightCloses DEF Promise!Next
<1>4. ASSUME NEW r \in Req, PollDispatches(r)
      PROVE  Promise!Next
  BY <1>1, <1>4, DispatchRuns DEF Promise!Next
<1>5. ASSUME NEW r \in Req, PollInner(r)
      PROVE  Promise!Next \/ UNCHANGED Promise!vars
  BY <1>1, <1>5, PollInnerCloses DEF Promise!Next
<1>6. ASSUME NEW r \in Req, Drop(r) \/ OriginReply(r)
      PROVE  Promise!Next
  BY <1>1, <1>6, DropAbandons, ReplyDecides DEF Promise!Next
<1>7. ASSUME NEW r \in Req,
             PollWaitsForOrigin(r) \/ SpuriousWake(r) \/ Move(r) \/ InnerFinish(r)
      PROVE  UNCHANGED Promise!vars
  BY <1>1, <1>7, SilentSteps
<1>8. CASE ChangeTable \/ CloneStep
  BY <1>1, <1>8, SharedSteps
<1>9. CASE UNCHANGED vars
  BY <1>9 DEF vars, Promise!vars, Live
<1>10. QED
  BY <1>2, <1>3, <1>4, <1>5, <1>6, <1>7, <1>8, <1>9 DEF Next, CloneStep

\* The promise starts where the futures start.
LEMMA PromiseInit == Init => Promise!Init
<1> SUFFICES ASSUME Init PROVE Promise!Init
  OBVIOUS
<1>1. /\ Open = {}
      /\ request = [r \in Req |-> Absent] /\ handler = [r \in Req |-> Absent]
      /\ reply = [r \in Req |-> "none"]
  BY DEF Init, Open, request, handler, reply, Asked, Kept, Closed, Live
<1>2. config \in {Promise!update_vary(c) : c \in {s \in Settings : Promise!validate(s)}}
  BY SameReading DEF Init
<1>3. QED
  BY <1>1, <1>2 DEF Init, Promise!Init, Open, request, handler, reply, Asked, Kept, Closed

\* For any number of requests and clones, no behaviour of the futures shows an application
\* a request that was handled twice, by another clone's handler, before its verdict or
\* against it, or that was closed twice.
THEOREM PromiseKept == Spec => KeepsPromise
<1>1. QED
  BY PromiseInit, PromiseStep, SpecInv, SpecKinds, PTL
     DEF Spec, KeepsPromise, Promise!Spec

(***************************************************************************)
(* The answers, from the buffer that the decision fills to the response it *)
(* is merged into, which may be polls, tables and tasks later.             *)
(***************************************************************************)

(***************************************************************************)
(* What buffers keep and merging preserves.                                *)
(***************************************************************************)

\* A push keeps what is in the buffer, and adds the value if there is one.
LEMMA PushOptKeeps ==
    ASSUME NEW buf \in Buffer, NEW n \in HeaderName, NEW v \in OptValue
    PROVE  /\ Contents(buf) \subseteq Contents(push_opt(buf, n, v))
           /\ v # Absent => <<n, v>> \in Contents(push_opt(buf, n, v))
<1>1. CASE v = Absent
  BY <1>1 DEF push_opt
<1>2. CASE v # Absent
  <2> DEFINE out == push_opt(buf, n, v)
  <2>1. /\ Len(buf) \in Nat /\ Len(out) = Len(buf) + 1
        /\ \A i \in 1..Len(buf) : out[i] = buf[i]
        /\ out[Len(buf) + 1] = <<n, v>>
    BY <1>2 DEF push_opt, Buffer, OptValue
  <2> HIDE DEF out
  <2>2. Len(buf) + 1 \in 1..Len(out) /\ \A i \in 1..Len(buf) : i \in 1..Len(out)
    BY <2>1
  <2>3. Contents(buf) \subseteq Contents(out) /\ <<n, v>> \in Contents(out)
    BY <2>1, <2>2 DEF Contents
  <2>4. QED
    BY <2>3 DEF out
<1>3. QED
  BY <1>1, <1>2

\* The lazy headers leave what was pushed before them.
LEMMA ComputeIntoKeeps ==
    ASSUME NEW c \in Config, NEW q \in Request, NEW t, NEW pre \in BOOLEAN,
           NEW buf \in Buffer
    PROVE  Contents(buf) \subseteq Contents(compute_into(c, t, q, pre, buf))
<1> DEFINE creds == push_opt(buf, "ACAC", credentials_header(c, t, q))
           meths == push_opt(creds, "ACAM", methods_header(c, q))
           hdrs  == push_opt(meths, "ACAH", headers_header(c, q))
           age   == push_opt(hdrs, "ACMA", max_age_header(c))
           expo  == push_opt(creds, "ACEH", expose_header(c))
<1>1. {"ACAC", "ACAM", "ACAH", "ACMA", "ACEH"} \subseteq HeaderName
  BY DEF HeaderName, CorsHeader
<1>2. compute_into(c, t, q, pre, buf) = IF pre THEN age ELSE expo
  BY DEF compute_into
<1>3. creds \in Buffer /\ Contents(buf) \subseteq Contents(creds)
  BY <1>1, PushOptType, PushOptKeeps, KnobHeaderTypes
<1> HIDE DEF creds
<1>4. /\ meths \in Buffer /\ Contents(creds) \subseteq Contents(meths)
      /\ Contents(creds) \subseteq Contents(expo)
  BY <1>1, <1>3, PushOptType, PushOptKeeps, KnobHeaderTypes
<1> HIDE DEF meths, expo
<1>5. hdrs \in Buffer /\ Contents(meths) \subseteq Contents(hdrs)
  BY <1>1, <1>4, PushOptType, PushOptKeeps, KnobHeaderTypes
<1> HIDE DEF hdrs
<1>6. Contents(hdrs) \subseteq Contents(age)
  BY <1>1, <1>5, PushOptKeeps, KnobHeaderTypes
<1> HIDE DEF age
<1>7. QED
  BY <1>2, <1>3, <1>4, <1>5, <1>6

\* A merged header is the buffer's where it has one, and the target's elsewhere; Vary is
\* both.
LEMMA MergeFacts ==
    ASSUME NEW target, NEW buf \in Buffer, Distinct(buf)
    PROVE  LET h == merge_headers(target, buf)
           IN  /\ \A n \in CorsHeader, v \in Value :
                      <<n, v>> \in Contents(buf) => h[n] = v
               /\ \A n \in HeaderName \ Names(buf) : h[n] = target[n]
               /\ \A v \in Value : <<"Vary", v>> \in Contents(buf) =>
                      h["Vary"] = IF target["Vary"] = Absent THEN v ELSE target["Vary"] \cup v
<1> DEFINE h       == merge_headers(target, buf)
           at(n)   == {i \in 1..Len(buf) : buf[i][1] = n}
           last(n) == {i \in at(n) : \A j \in at(n) : j <= i}
<1>1. \A n \in HeaderName :
          LET mine == UNION {buf[i][2] : i \in IF n = "Vary" THEN at(n) ELSE last(n)}
          IN  h[n] = IF at(n) = {} THEN target[n]
                     ELSE IF n = "Vary" /\ target[n] # Absent THEN target[n] \cup mine
                     ELSE mine
  BY DEF merge_headers
<1> HIDE DEF h
<1>2. ASSUME NEW n \in HeaderName \ Names(buf)
      PROVE  h[n] = target[n]
  <2>1. at(n) = {}
    BY DEF Names
  <2>2. QED
    BY <1>1, <2>1
<1>3. ASSUME NEW n \in HeaderName, NEW v \in Value, <<n, v>> \in Contents(buf)
      PROVE  /\ at(n) # {}
             /\ UNION {buf[i][2] : i \in at(n)} = v
             /\ UNION {buf[i][2] : i \in last(n)} = v
  <2>1. PICK k \in 1..Len(buf) : buf[k] = <<n, v>>
    BY <1>3 DEF Contents
  <2>2. at(n) = {k} /\ k <= k
    BY <2>1 DEF Distinct, Buffer
  <2>3. last(n) = {k}
    BY <2>2
  <2> HIDE DEF at, last
  <2>4. {buf[i][2] : i \in {k}} = {v}
    BY <2>1
  <2>5. QED
    BY <2>2, <2>3, <2>4
<1> HIDE DEF at, last
<1>4. ASSUME NEW n \in CorsHeader, NEW v \in Value, <<n, v>> \in Contents(buf)
      PROVE  h[n] = v
  <2>1. n \in HeaderName /\ n # "Vary"
    BY DEF HeaderName, CorsHeader
  <2>2. QED
    BY <1>1, <1>3, <1>4, <2>1
<1>5. ASSUME NEW v \in Value, <<"Vary", v>> \in Contents(buf)
      PROVE  h["Vary"] = IF target["Vary"] = Absent THEN v ELSE target["Vary"] \cup v
  <2>1. "Vary" \in HeaderName
    BY DEF HeaderName
  <2>2. QED
    BY <1>1, <1>3, <1>5, <2>1
<1>6. QED
  BY <1>2, <1>4, <1>5 DEF h

(***************************************************************************)
(* The inductive invariant: what the origin future will yield is the value *)
(* of an allowed origin, a decided buffer shows the verdict, and so does   *)
(* the answer it was merged into.                                          *)
(***************************************************************************)

Granting(r) == AllowedValue(config.allow_origin, fut[r].request.origin)

Expects(r) == Undecided(r) =>
    IF fut[r].allow_origin_future.state = "Ready"
    THEN verdict[r] = "allowed" => fut[r].allow_origin_future.res = Granting(r)
    ELSE config.allow_origin.kind = "AsyncPredicate"

\* A buffer shows the verdict, and headers merged from it into `own' match it.
Shows(r, buf) ==
    /\ verdict[r] = "allowed" => <<"ACAO", Granting(r)>> \in Contents(buf)
    /\ verdict[r] = "denied" /\ HasOrigin(fut[r].request) => Names(buf) \subseteq {"Vary"}
    /\ config.vary # Absent => <<"Vary", config.vary>> \in Contents(buf)

Matches(r, h, own) ==
    /\ verdict[r] = "allowed" => h["ACAO"] = Granting(r)
    /\ verdict[r] = "denied" /\ HasOrigin(fut[r].request) =>
           \A n \in CorsHeader : h[n] = own[n]
    /\ \A vary \in {config.vary, own["Vary"]} \ {Absent} :
           h["Vary"] # Absent /\ vary \subseteq h["Vary"]

Told(r) == stage[r] = "pending" /\ fut[r].allow_origin_complete =>
    verdict[r] # "unknown" /\ Shows(r, fut[r].headers)

Matched(r) == stage[r] = "done" /\ answer[r].result = "Ok" =>
    Matches(r, answer[r].headers, Own(r))

Answering(r) == Expects(r) /\ Told(r) /\ Matched(r)

AnswerInv == \A r \in Req : Answering(r)

\* AnswerMatchesVerdict, request by request.
LEMMA MatchedIsAnswer == AnswerMatchesVerdict <=> \A r \in Req : Matched(r)
  BY DEF AnswerMatchesVerdict, Matched, Matches, Granting

\* Merging a buffer that shows the verdict gives headers that match it.
LEMMA ShownMatches ==
    ASSUME TypeOK, NEW r \in Req, NEW target \in HeaderMap, NEW buf \in Buffer,
           Distinct(buf), Shows(r, buf)
    PROVE  Matches(r, merge_headers(target, buf), target)
<1> DEFINE h == merge_headers(target, buf)
<1>1. /\ \A n \in CorsHeader, v \in Value : <<n, v>> \in Contents(buf) => h[n] = v
      /\ \A n \in HeaderName \ Names(buf) : h[n] = target[n]
      /\ \A v \in Value : <<"Vary", v>> \in Contents(buf) =>
             h["Vary"] = IF target["Vary"] = Absent THEN v ELSE target["Vary"] \cup v
  BY MergeFacts
<1> HIDE DEF h
<1>2. \A x \in Contents(buf) : x \in HeaderName \X Value
  BY DEF Contents, Buffer
<1>3. "Vary" \in HeaderName /\ CorsHeader \subseteq HeaderName /\ "Vary" \notin CorsHeader
      /\ "ACAO" \in CorsHeader
  BY DEF HeaderName, CorsHeader
<1>4. verdict[r] = "allowed" => h["ACAO"] = Granting(r)
  BY <1>1, <1>2, <1>3 DEF Shows
<1>5. verdict[r] = "denied" /\ HasOrigin(fut[r].request) =>
          \A n \in CorsHeader : h[n] = target[n]
  BY <1>1, <1>3 DEF Shows
<1>6. ASSUME config.vary # Absent
      PROVE  /\ h["Vary"] = IF target["Vary"] = Absent THEN config.vary
                            ELSE target["Vary"] \cup config.vary
             /\ config.vary \in Value
  BY <1>1, <1>2, <1>6 DEF Shows
<1>7. target["Vary"] \in OptValue
  BY <1>3 DEF HeaderMap
<1>8. \A v \in Value : target["Vary"] # Absent =>
          target["Vary"] \cup v \in Value /\ target["Vary"] \cup v # Absent
  BY <1>7, ValueFacts DEF OptValue, Value
<1>9. config.vary # Absent => h["Vary"] # Absent /\ config.vary \subseteq h["Vary"]
  BY <1>6, <1>8
<1>10. ASSUME target["Vary"] # Absent
       PROVE  h["Vary"] # Absent /\ target["Vary"] \subseteq h["Vary"]
  <2>1. CASE "Vary" \in Names(buf)
    <3>1. PICK i \in 1..Len(buf) : buf[i][1] = "Vary"
      BY <2>1 DEF Names
    <3>2. buf[i] \in Contents(buf) /\ buf[i] = <<"Vary", buf[i][2]>> /\ buf[i][2] \in Value
      BY <3>1 DEF Contents, Buffer
    <3>3. h["Vary"] = target["Vary"] \cup buf[i][2]
      BY <1>1, <1>10, <3>2
    <3>4. QED
      BY <1>8, <1>10, <3>2, <3>3
  <2>2. CASE "Vary" \notin Names(buf)
    BY <1>1, <1>3, <1>10, <2>2
  <2>3. QED
    BY <2>1, <2>2
<1>11. QED
  BY <1>4, <1>5, <1>9, <1>10 DEF Matches, h

(***************************************************************************)
(* The decision.                                                           *)
(***************************************************************************)

\* A decided buffer shows the verdict; with the lazy headers too, where they are computed.
LEMMA DecidedShows ==
    ASSUME TypeOK, BufferFits, NEW r \in Req, Good(r), Expects(r), Deciding(r),
           NEW pre \in BOOLEAN
    PROVE  LET f    == Decided(r)
               lazy == compute_into(config, table, f.request, pre, f.headers)
           IN  /\ f.headers \in Buffer /\ lazy \in Buffer
               /\ Distinct(f.headers) /\ Distinct(lazy)
               /\ Shows(r, f.headers)
               /\ ~Disallowed(r) => Shows(r, lazy)
<1> DEFINE f    == Decided(r)
           lazy == compute_into(config, table, f.request, pre, f.headers)
<1>1. stage[r] = "pending" /\ ~fut[r].allow_origin_complete /\ Undecided(r) /\ OriginReady(r)
      /\ fut[r] \in Future
  BY DEF Deciding, Polled, Undecided, TypeOK, Live
<1>2. /\ f.headers \in Buffer /\ f.request = fut[r].request /\ f.request \in Request
      /\ f.headers = push_opt(Initial, "ACAO", OriginResult(r))
  BY <1>1, DecidedFacts, ConstantFacts, BufferFitsParts
     DEF Decided, Future, Assumptions, Live
<1>3. lazy \in Buffer /\ Contents(f.headers) \subseteq Contents(lazy)
  BY <1>2, ComputeIntoType, ComputeIntoKeeps DEF TypeOK
<1>4. Distinct(f.headers) /\ Distinct(lazy)
  BY <1>1, DecidedFits DEF Fits
<1> HIDE DEF f, lazy
<1>5. /\ verdict[r] \in {"allowed", "denied"}
      /\ OriginResult(r) = Absent <=> verdict[r] = "denied"
  BY DecisionFollowsVerdict DEF TypeOK
<1>6. OriginResult(r) \in OptValue /\ {"ACAO", "Vary"} \subseteq HeaderName
  BY <1>1, OriginResultType DEF HeaderName, CorsHeader
<1>7. verdict[r] = "allowed" => OriginResult(r) = Granting(r)
  <2>1. CASE fut[r].allow_origin_future.state = "Ready"
    BY <1>1, <2>1 DEF Expects, OriginResult
  <2>2. CASE fut[r].allow_origin_future.state # "Ready"
    BY <1>1, <2>2 DEF Expects, OriginResult, Granting, AllowedValue
  <2>3. QED
    BY <2>1, <2>2
<1>8. /\ Initial \in Buffer /\ Distinct(Initial) /\ Names(Initial) \subseteq {"Vary"}
      /\ config.vary # Absent => <<"Vary", config.vary>> \in Contents(Initial)
  <2>1. config.vary \in OptValue /\ <<>> \in Buffer
    BY DEF TypeOK, Config, Buffer
  <2>2. config.vary # Absent => <<"Vary", config.vary>> \in Contents(Initial)
    BY <1>6, <2>1, PushOptKeeps DEF Initial, common_headers, vary_header
  <2>3. QED
    BY <2>2, InitialFacts DEF TypeOK
<1>9. Contents(Initial) \subseteq Contents(f.headers)
      /\ (OriginResult(r) # Absent => <<"ACAO", OriginResult(r)>> \in Contents(f.headers))
  BY <1>2, <1>6, <1>8, PushOptKeeps
<1>10. verdict[r] = "denied" => f.headers = Initial
  BY <1>2, <1>5 DEF push_opt
<1>11. Shows(r, f.headers)
  BY <1>5, <1>7, <1>8, <1>9, <1>10 DEF Shows
<1>12. ~Disallowed(r) => Shows(r, lazy)
  BY <1>3, <1>5, <1>11 DEF Shows, Disallowed
<1>13. QED
  BY <1>2, <1>3, <1>4, <1>11, <1>12 DEF f, lazy

\* So do the headers of a dispatch.
LEMMA DispatchShows ==
    ASSUME TypeOK, BufferFits, NEW r \in Req, Good(r), Expects(r), Deciding(r)
    PROVE  /\ DispatchHeaders(r) \in Buffer /\ Distinct(DispatchHeaders(r))
           /\ Shows(r, DispatchHeaders(r))
<1> DEFINE f    == Decided(r)
           pre  == is_preflight_request(f.request)
           lazy == compute_into(config, table, f.request, pre, f.headers)
<1>1. pre \in BOOLEAN
  BY DEF is_preflight_request
<1>2. /\ f.headers \in Buffer /\ lazy \in Buffer
      /\ Distinct(f.headers) /\ Distinct(lazy)
      /\ Shows(r, f.headers)
      /\ ~Disallowed(r) => Shows(r, lazy)
  BY <1>1, DecidedShows
<1>3. DispatchHeaders(r) = IF OriginResult(r) = Absent THEN f.headers ELSE lazy
  BY DEF DispatchHeaders
<1> HIDE DEF lazy, f
<1>4. QED
  BY <1>2, <1>3 DEF Disallowed

(***************************************************************************)
(* The steps.                                                              *)
(***************************************************************************)

\* A step that ends a future answers rightly if the headers it answers match the verdict.
LEMMA DoneAnswers ==
    ASSUME NEW r \in Req, NEW own, stage'[r] = "done", config' = config, verdict' = verdict,
           fut'[r].request = fut[r].request, Own(r)' = own,
           answer'[r].result = "Ok" => Matches(r, answer'[r].headers, own)
    PROVE  Answering(r)'
<1>1. Matched(r)'
  BY DEF Matched, Matches, Granting
<1>2. Expects(r)' /\ Told(r)'
  BY DEF Expects, Told, Undecided
<1>3. QED
  BY <1>1, <1>2 DEF Answering

\* A new future expects what the policy said.
LEMMA AnswerCall ==
    ASSUME TypeOK, NEW r \in Req, NEW a \in Clones, NEW q \in Requests, Call(r, a, q)
    PROVE  Answering(r)'
<1> DEFINE of == to_future(config.allow_origin, table, q.origin)
<1>1. /\ config' = config /\ stage'[r] = "pending"
      /\ fut'[r].request = q /\ ~fut'[r].allow_origin_complete
      /\ fut'[r].allow_origin_future = of
      /\ verdict'[r] = IF of.state = "Pending" THEN "unknown"
                       ELSE Said(Allows(config.allow_origin, table, q.origin))
  BY DEF Call, TypeOK
<1>2. IF of.state = "Ready"
      THEN verdict'[r] = "allowed" => of.res = AllowedValue(config.allow_origin, q.origin)
      ELSE config.allow_origin.kind = "AsyncPredicate"
  BY <1>1 DEF to_future, Said
<1> HIDE DEF of
<1>3. Expects(r)'
  BY <1>1, <1>2 DEF Expects, Granting
<1>4. QED
  BY <1>1, <1>3 DEF Answering, Told, Matched

\* A refusal carries nothing but Vary.
LEMMA AnswerRefuses ==
    ASSUME TypeOK, BufferFits, NEW r \in Req, Good(r), Expects(r), PollRefuses(r)
    PROVE  Answering(r)'
<1> DEFINE buf == Decided(r).headers
<1>1. /\ Deciding(r) /\ fut[r].variant = "Forward" /\ ~fut[r].allow_origin_complete
      /\ UNCHANGED <<config, verdict, calls>>
      /\ answer'[r].headers = merge_headers(NoHeaders, buf)
  BY DEF PollRefuses, Deciding, Finishes, Ok, TypeOK
<1>2. stage[r] = "pending" /\ stage'[r] = "done" /\ fut'[r].request = fut[r].request
  BY RefusalView
<1>3. calls'[r] = <<>>
  BY <1>1, <1>2 DEF Good
<1>4. buf \in Buffer /\ Distinct(buf) /\ Shows(r, buf)
  BY <1>1, DecidedShows
<1>5. NoHeaders \in HeaderMap
  BY DEF NoHeaders, HeaderMap, OptValue
<1> HIDE DEF buf
<1>6. Matches(r, answer'[r].headers, NoHeaders)
  BY <1>1, <1>4, <1>5, ShownMatches
<1>7. Own(r)' = NoHeaders
  BY <1>3 DEF Own
<1>8. QED
  BY <1>1, <1>2, <1>6, <1>7, DoneAnswers

\* A preflight is answered with the headers its verdict calls for.
LEMMA AnswerPreflight ==
    ASSUME TypeOK, BufferFits, NEW r \in Req, Good(r), Unserved(r), Expects(r),
           PollPreflight(r)
    PROVE  Answering(r)'
<1> DEFINE f    == Decided(r)
           lazy == compute_into(config, table, f.request, TRUE, f.headers)
<1>0. PICK status, buf :
          /\ buf = IF Disallowed(r) THEN f.headers ELSE lazy
          /\ Finishes(r, Ok(status, merge_headers(NoHeaders, buf)))
  <2>1. CASE Disallowed(r)
    BY <2>1 DEF PollPreflight
  <2>2. CASE ~Disallowed(r)
    BY <2>2 DEF PollPreflight
  <2>3. QED
    BY <2>1, <2>2
<1>1. /\ Deciding(r) /\ fut[r].variant = "Preflight" /\ UNCHANGED <<config, verdict, calls>>
      /\ answer'[r].headers = merge_headers(NoHeaders, buf)
  BY <1>0 DEF PollPreflight, Finishes, Ok, TypeOK
<1>2. stage[r] = "pending" /\ stage'[r] = "done" /\ fut'[r].request = fut[r].request
  BY PreflightView
<1>3. calls'[r] = <<>>
  BY <1>1, <1>2 DEF Unserved
<1>4. /\ f.headers \in Buffer /\ lazy \in Buffer
      /\ Distinct(f.headers) /\ Distinct(lazy)
      /\ Shows(r, f.headers)
      /\ ~Disallowed(r) => Shows(r, lazy)
  BY <1>1, DecidedShows
<1>5. NoHeaders \in HeaderMap
  BY DEF NoHeaders, HeaderMap, OptValue
<1> HIDE DEF f, lazy
<1>6. Matches(r, answer'[r].headers, NoHeaders)
  BY <1>0, <1>1, <1>4, <1>5, ShownMatches
<1>7. Own(r)' = NoHeaders
  BY <1>3 DEF Own
<1>8. QED
  BY <1>1, <1>2, <1>6, <1>7, DoneAnswers

\* What the inner service answered keeps its own Vary and gets the headers.
LEMMA InnerAnswerMatches ==
    ASSUME TypeOK, NEW r \in Req, NEW o \in Outcomes, NEW buf \in Buffer, Distinct(buf),
           Shows(r, buf), InnerAnswer(o, buf).result = "Ok"
    PROVE  Matches(r, InnerAnswer(o, buf).headers, o.headers)
<1>1. o \in Answer
  BY ConstantFacts DEF Assumptions
<1>2. o.result = "Ok" /\ InnerAnswer(o, buf).headers = merge_headers(o.headers, buf)
  BY <1>1 DEF InnerAnswer, Answer
<1>3. o.headers \in HeaderMap
  BY <1>1 DEF Answer
<1>4. QED
  BY <1>2, <1>3, ShownMatches

\* A dispatch leaves a buffer that shows the verdict, or answers with it at once.
LEMMA AnswerDispatches ==
    ASSUME TypeOK, BufferFits, NEW r \in Req, Good(r), Expects(r), PollDispatches(r)
    PROVE  Answering(r)'
<1> DEFINE headers == DispatchHeaders(r)
           f       == Completed(Decided(r))
<1>1. /\ Deciding(r) /\ UNCHANGED <<config, verdict>>
      /\ calls'[r] = Append(calls[r], fut[r].service)
  BY DEF PollDispatches, TypeOK
<1>2. stage[r] = "pending" /\ fut'[r].request = fut[r].request
  BY DispatchView
<1>3. calls'[r] # <<>>
  <2>1. calls[r] = <<>>
    BY <1>2 DEF Good, PollDispatches, Deciding
  <2>2. QED
    BY <1>1, <2>1
<1>4. headers \in Buffer /\ Distinct(headers) /\ Shows(r, headers)
  BY <1>1, DispatchShows
<1>5. f \in Future /\ f.allow_origin_complete
  BY <1>2, DecidedFacts, CompletedFacts
<1>6. PICK inner \in {Running} \cup Outcomes :
          /\ fut' = [fut EXCEPT ![r] = [f EXCEPT !.inner = inner, !.headers = headers]]
          /\ IF inner = Running
             THEN Waits(r, "inner") /\ UNCHANGED <<stage, answer>>
             ELSE Finishes(r, InnerAnswer(inner, headers))
  BY DEF PollDispatches
<1>7. verdict[r] # "unknown"
  BY <1>1, DecisionFollowsVerdict
<1> HIDE DEF headers, f
<1>8. /\ fut'[r].inner = inner /\ fut'[r].headers = headers
      /\ fut'[r].allow_origin_complete
  BY <1>5, <1>6 DEF TypeOK, Future
<1>9. CASE inner = Running
  <2>1. stage'[r] = "pending"
    BY <1>2, <1>6, <1>9
  <2>2. Told(r)'
    BY <1>1, <1>2, <1>4, <1>7, <1>8 DEF Told, Shows, Granting
  <2>3. QED
    BY <1>8, <2>1, <2>2 DEF Answering, Expects, Undecided, Matched
<1>10. CASE inner # Running
  <2>1. stage'[r] = "done" /\ answer'[r] = InnerAnswer(inner, headers)
    BY <1>6, <1>10 DEF Finishes, TypeOK
  <2>2. Own(r)' = inner.headers
    BY <1>3, <1>8 DEF Own
  <2>3. answer'[r].result = "Ok" => Matches(r, answer'[r].headers, inner.headers)
    BY <1>4, <1>10, <2>1, InnerAnswerMatches
  <2>4. QED
    BY <1>1, <1>2, <2>1, <2>2, <2>3, DoneAnswers
<1>11. QED
  BY <1>9, <1>10

\* An inner future that is ready is answered with the headers kept since the decision.
LEMMA AnswerInner ==
    ASSUME TypeOK, BufferFits, NEW r \in Req, Good(r), Told(r), PollInner(r)
    PROVE  Answering(r)'
<1>1. /\ fut[r].variant = "Forward" /\ fut[r].allow_origin_complete
      /\ stage[r] = "pending" /\ fut[r] \in Future
      /\ UNCHANGED <<config, fut, verdict, calls>>
  BY DEF PollInner, Polled, TypeOK, Live
<1>2. /\ Shows(r, fut[r].headers) /\ verdict[r] # "unknown"
      /\ fut[r].headers \in Buffer /\ Distinct(fut[r].headers)
  BY <1>1, BufferFitsParts DEF Told, Future, Live, Fits
<1>3. calls[r] # <<>> /\ fut[r].inner \in {Running} \cup Outcomes
  BY <1>1 DEF Good, Future
<1>4. CASE fut[r].inner = Running
  <2>1. stage' = stage
    BY <1>4 DEF PollInner
  <2>2. QED
    BY <1>1, <1>2, <2>1
       DEF Answering, Expects, Undecided, Told, Matched, Shows, Granting
<1>5. CASE fut[r].inner # Running
  <2> DEFINE ans == InnerAnswer(fut[r].inner, fut[r].headers)
  <2>1. stage'[r] = "done" /\ answer'[r] = ans
    BY <1>5 DEF PollInner, Finishes, TypeOK
  <2>2. Own(r)' = fut[r].inner.headers
    BY <1>1, <1>3 DEF Own
  <2>3. ans.result = "Ok" => Matches(r, ans.headers, fut[r].inner.headers)
    BY <1>2, <1>3, <1>5, InnerAnswerMatches
  <2> HIDE DEF ans
  <2>4. QED
    BY <1>1, <2>1, <2>2, <2>3, DoneAnswers
<1>6. QED
  BY <1>4, <1>5

\* The other steps of a request write neither its headers nor its answer.
LEMMA AnswerOther ==
    ASSUME TypeOK, NEW r \in Req, Good(r), Answering(r),
           \/ PollWaitsForOrigin(r) \/ SpuriousWake(r) \/ Move(r) \/ OriginReply(r)
           \/ InnerFinish(r) \/ Drop(r)
    PROVE  Answering(r)'
<1> USE DEF Answering, Expects, Undecided, Told, Matched
<1>1. CASE PollWaitsForOrigin(r)
  BY <1>1 DEF PollWaitsForOrigin, Polled, Shows, Granting
<1>2. CASE SpuriousWake(r) \/ Move(r)
  BY <1>2 DEF SpuriousWake, Move, Shows, Granting
<1>3. CASE OriginReply(r)
  <2>1. stage[r] = "pending" /\ verdict[r] = "unknown" /\ UNCHANGED <<config, stage, fut>>
    BY <1>3 DEF OriginReply
  <2>2. fut[r].allow_origin_complete
            \/ fut[r].allow_origin_future.state # "Ready"
    BY <2>1 DEF Good
  <2>3. QED
    BY <2>1, <2>2
<1>4. CASE InnerFinish(r)
  <2>1. stage[r] = "pending" /\ fut[r] \in Future /\ UNCHANGED <<config, stage, verdict>>
    BY <1>4 DEF InnerFinish, TypeOK, Live
  <2>2. PICK o : fut' = [fut EXCEPT ![r].inner = o]
    BY <1>4 DEF InnerFinish
  <2>3. /\ fut'[r].request = fut[r].request /\ fut'[r].headers = fut[r].headers
        /\ fut'[r].allow_origin_complete = fut[r].allow_origin_complete
        /\ fut'[r].allow_origin_future = fut[r].allow_origin_future
    BY <2>1, <2>2 DEF TypeOK, Future
  <2>4. QED
    BY <2>1, <2>3 DEF Shows, Granting
<1>5. CASE Drop(r)
  BY <1>5 DEF Drop, TypeOK
<1>6. QED
  BY <1>1, <1>2, <1>3, <1>4, <1>5

\* What is right of a request stays right where nothing of it changes.
LEMMA AnswerKept ==
    ASSUME NEW r \in Req, Answering(r), config' = config,
           stage'[r] = stage[r], fut'[r] = fut[r], verdict'[r] = verdict[r],
           calls'[r] = calls[r], answer'[r] = answer[r]
    PROVE  Answering(r)'
<1>1. Own(r)' = Own(r)
  BY DEF Own
<1>2. Expects(r)'
  BY DEF Answering, Expects, Undecided, Granting
<1>3. Told(r)'
  BY DEF Answering, Told, Shows, Granting
<1>4. Matched(r)'
  BY <1>1 DEF Answering, Matched, Matches, Granting
<1>5. QED
  BY <1>2, <1>3, <1>4 DEF Answering

\* Every step keeps the invariant.
LEMMA AnswerStep ==
    IInv /\ KindInv /\ BufferFits /\ AnswerInv /\ [Next]_vars => AnswerInv'
<1> SUFFICES ASSUME IInv, KindInv, BufferFits, AnswerInv, [Next]_vars, NEW s \in Req
             PROVE  Answering(s)'
  BY DEF AnswerInv
<1>1. /\ TypeOK
      /\ \A r \in Req : Good(r) /\ Unserved(r) /\ Answering(r) /\ Expects(r) /\ Told(r)
  BY GoodIsIInv DEF IInv, KindInv, AnswerInv, Answering
<1>2. ASSUME NEW r \in Req, OthersUnchanged(r), Answering(r)'
      PROVE  Answering(s)'
  <2>1. CASE r = s
    BY <1>2, <2>1
  <2>2. CASE r # s
    BY <1>1, <1>2, <2>2, AnswerKept DEF OthersUnchanged
  <2>3. QED
    BY <2>1, <2>2
<1>3. ASSUME NEW r \in Req, NEW a \in Clones, NEW q \in Requests, Call(r, a, q)
      PROVE  Answering(s)'
  BY <1>1, <1>2, <1>3, AnswerCall, OthersAreUnchanged
<1>4. ASSUME NEW r \in Req, PollRefuses(r) PROVE Answering(s)'
  BY <1>1, <1>2, <1>4, AnswerRefuses, OthersAreUnchanged
<1>5. ASSUME NEW r \in Req, PollDispatches(r) PROVE Answering(s)'
  BY <1>1, <1>2, <1>5, AnswerDispatches, OthersAreUnchanged
<1>6. ASSUME NEW r \in Req, PollInner(r) PROVE Answering(s)'
  BY <1>1, <1>2, <1>6, AnswerInner, OthersAreUnchanged
<1>7. ASSUME NEW r \in Req, PollPreflight(r) PROVE Answering(s)'
  BY <1>1, <1>2, <1>7, AnswerPreflight, OthersAreUnchanged
<1>8. ASSUME NEW r \in Req,
             \/ PollWaitsForOrigin(r) \/ SpuriousWake(r) \/ Move(r) \/ OriginReply(r)
             \/ InnerFinish(r) \/ Drop(r)
      PROVE  Answering(s)'
  BY <1>1, <1>2, <1>8, AnswerOther, OthersAreUnchanged
<1>9. CASE ChangeTable \/ CloneStep \/ UNCHANGED vars
  <2>1. UNCHANGED <<config, stage, fut, verdict, calls, answer>>
    BY <1>1, <1>9, CloneStepFacts DEF ChangeTable, vars
  <2>2. QED
    BY <1>1, <2>1, AnswerKept
<1>10. QED
  BY <1>3, <1>4, <1>5, <1>6, <1>7, <1>8, <1>9 DEF Next, CloneStep

\* Whatever the table, the policy and the inner service do between the verdict and the
\* answer, and however the future is polled: an allowed answer names the allowed origin, a
\* disallowed one has no CORS header but the inner service's, and no Vary name is lost.
THEOREM AnswersMatchVerdicts == Spec => []AnswerMatchesVerdict
<1>1. Init => AnswerInv
  BY DEF Init, AnswerInv, Answering, Expects, Undecided, Told, Matched
<1>2. AnswerInv => AnswerMatchesVerdict
  BY MatchedIsAnswer DEF AnswerInv, Answering
<1>3. QED
  BY <1>1, <1>2, AnswerStep, SpecInv, SpecKinds, BufferNeverOverflows, PTL DEF Spec

(***************************************************************************)
(* What the inner service answered reaches the caller.                     *)
(***************************************************************************)

Relays(ans, inner, buf) ==
    /\ inner.result = "Err" => ans = inner
    /\ inner.result = "Ok" =>
        /\ ans.result = "Ok" /\ ans.status = inner.status
        /\ \A n \in HeaderName : ~Holds(buf, n) => ans.headers[n] = inner.headers[n]

Relayed(r) == stage[r] = "done" =>
    /\ answer[r].result = "Err" => calls[r] # <<>>
    /\ calls[r] # <<>> =>
           fut[r].inner \in Outcomes /\ Relays(answer[r], fut[r].inner, fut[r].headers)

\* InnerAnswerIsKept, request by request.
LEMMA RelayedIsKept == InnerAnswerIsKept <=> \A r \in Req : Relayed(r)
  BY DEF InnerAnswerIsKept, Relayed, Relays

\* An error is passed on, a response keeps what no header was collected for.
LEMMA InnerAnswerRelays ==
    ASSUME NEW o \in Outcomes, NEW buf \in Buffer, Distinct(buf)
    PROVE  Relays(InnerAnswer(o, buf), o, buf)
<1>1. o \in Answer
  BY ConstantFacts DEF Assumptions
<1>2. CASE o.result = "Err"
  BY <1>2 DEF InnerAnswer, Relays
<1>3. CASE o.result = "Ok"
  <2> DEFINE h == merge_headers(o.headers, buf)
  <2>1. \A n \in HeaderName \ Names(buf) : h[n] = o.headers[n]
    BY MergeFacts
  <2>2. \A n : ~Holds(buf, n) => n \notin Names(buf)
    BY DEF Holds, Names
  <2> HIDE DEF h
  <2>3. InnerAnswer(o, buf) = [o EXCEPT !.headers = h]
    BY <1>3 DEF InnerAnswer, h
  <2>4. /\ InnerAnswer(o, buf).result = "Ok" /\ InnerAnswer(o, buf).status = o.status
        /\ InnerAnswer(o, buf).headers = h
    BY <1>1, <1>3, <2>3 DEF Answer
  <2>5. QED
    BY <1>3, <2>1, <2>2, <2>4 DEF Relays
<1>4. QED
  BY <1>1, <1>2, <1>3 DEF Answer

\* An inner future that is ready in the poll that created it.
LEMMA RelayDispatches ==
    ASSUME TypeOK, TypeOK', BufferFits', NEW r \in Req, Good(r), PollDispatches(r)
    PROVE  Relayed(r)'
<1> DEFINE headers == DispatchHeaders(r)
           f       == Completed(Decided(r))
<1>1. PICK inner \in {Running} \cup Outcomes :
          /\ fut' = [fut EXCEPT ![r] = [f EXCEPT !.inner = inner, !.headers = headers]]
          /\ IF inner = Running
             THEN Waits(r, "inner") /\ UNCHANGED <<stage, answer>>
             ELSE Finishes(r, InnerAnswer(inner, headers))
  BY DEF PollDispatches
<1>2. stage[r] = "pending" /\ calls'[r] = Append(calls[r], fut[r].service)
  BY DispatchView DEF PollDispatches, TypeOK
<1>3. calls'[r] # <<>>
  <2>1. calls[r] = <<>>
    BY <1>2 DEF Good, PollDispatches, Deciding
  <2>2. QED
    BY <1>2, <2>1
<1>4. f \in Future
  BY <1>2, DecidedFacts, CompletedFacts
<1> HIDE DEF headers, f
<1>5. fut'[r].inner = inner /\ fut'[r].headers = headers
  BY <1>1, <1>4 DEF TypeOK, Future
<1>6. CASE inner = Running
  BY <1>1, <1>2, <1>6 DEF Relayed
<1>7. CASE inner # Running
  <2>1. stage'[r] = "done" /\ answer'[r] = InnerAnswer(inner, headers)
    BY <1>1, <1>7 DEF Finishes, TypeOK
  <2>2. Live(r)' /\ fut'[r] \in Future
    BY <2>1 DEF Live, TypeOK
  <2>3. headers \in Buffer /\ Distinct(headers)
    <3>1. Distinct(fut[r].headers)'
      BY <2>2 DEF BufferFits, Distinct
    <3>2. QED
      BY <1>5, <2>2, <3>1 DEF Future, Distinct
  <2>4. Relays(answer'[r], inner, headers)
    BY <1>7, <2>1, <2>3, InnerAnswerRelays
  <2>5. QED
    BY <1>3, <1>5, <1>7, <2>4 DEF Relayed, Relays, Holds
<1>8. QED
  BY <1>6, <1>7

\* One that is ready in a later poll.
LEMMA RelayInner ==
    ASSUME TypeOK, BufferFits, NEW r \in Req, Good(r), PollInner(r)
    PROVE  Relayed(r)'
<1>1. /\ fut[r].variant = "Forward" /\ fut[r].allow_origin_complete
      /\ stage[r] = "pending" /\ fut[r] \in Future
      /\ UNCHANGED <<config, fut, verdict, calls>>
  BY DEF PollInner, Polled, TypeOK, Live
<1>2. /\ fut[r].headers \in Buffer /\ Distinct(fut[r].headers)
      /\ calls[r] # <<>> /\ fut[r].inner \in {Running} \cup Outcomes
  BY <1>1, BufferFitsParts DEF Future, Live, Fits, Good
<1>3. CASE fut[r].inner = Running
  BY <1>1, <1>3 DEF PollInner, Relayed
<1>4. CASE fut[r].inner # Running
  <2>1. answer'[r] = InnerAnswer(fut[r].inner, fut[r].headers)
    BY <1>4 DEF PollInner, Finishes, TypeOK
  <2>2. Relays(answer'[r], fut[r].inner, fut[r].headers)
    BY <1>2, <1>4, <2>1, InnerAnswerRelays
  <2>3. QED
    BY <1>1, <1>2, <1>4, <2>2 DEF Relayed, Relays, Holds
<1>5. QED
  BY <1>3, <1>4

\* What the middleware answers by itself is a response, and the service was not called.
LEMMA RelayOwn ==
    ASSUME TypeOK, NEW r \in Req, Good(r), Unserved(r), PollRefuses(r) \/ PollPreflight(r)
    PROVE  Relayed(r)'
<1>1. PICK status, h : Finishes(r, Ok(status, h))
  BY DEF PollRefuses, PollPreflight
<1>2. answer'[r].result = "Ok" /\ calls' = calls
  BY <1>1 DEF Finishes, Ok, TypeOK, PollRefuses, PollPreflight
<1>3. calls[r] = <<>>
  <2>1. stage[r] = "pending" /\ ~fut[r].allow_origin_complete
    BY DEF PollRefuses, PollPreflight, Deciding, Polled
  <2>2. CASE PollRefuses(r)
    BY <2>1, <2>2 DEF PollRefuses, Good
  <2>3. CASE PollPreflight(r)
    BY <2>1, <2>3 DEF PollPreflight, Unserved
  <2>4. QED
    BY <2>2, <2>3
<1>4. QED
  BY <1>2, <1>3 DEF Relayed

\* Every step keeps the invariant.
LEMMA RelayStep ==
    ASSUME IInv, IInv', KindInv, BufferFits, BufferFits', [Next]_vars,
           NEW s \in Req, Relayed(s)
    PROVE  Relayed(s)'
<1>1. /\ TypeOK /\ TypeOK'
      /\ \A r \in Req : Good(r) /\ Unserved(r)
  BY GoodIsIInv DEF IInv, KindInv
<1>2. ASSUME stage'[s] = "done" => stage[s] = "done" /\ fut'[s] = fut[s]
                                   /\ calls'[s] = calls[s] /\ answer'[s] = answer[s]
      PROVE  Relayed(s)'
  BY <1>2 DEF Relayed, Relays, Holds
<1>3. ASSUME NEW r \in Req, OthersUnchanged(r), Relayed(r)' PROVE Relayed(s)'
  <2>1. CASE r = s
    BY <1>3, <2>1
  <2>2. CASE r # s
    BY <1>2, <1>3, <2>2 DEF OthersUnchanged
  <2>3. QED
    BY <2>1, <2>2
<1>4. ASSUME NEW r \in Req, PollRefuses(r) \/ PollPreflight(r) PROVE Relayed(s)'
  BY <1>1, <1>3, <1>4, RelayOwn, OthersAreUnchanged
<1>5. ASSUME NEW r \in Req, PollDispatches(r) PROVE Relayed(s)'
  BY <1>1, <1>3, <1>5, RelayDispatches, OthersAreUnchanged
<1>6. ASSUME NEW r \in Req, PollInner(r) PROVE Relayed(s)'
  BY <1>1, <1>3, <1>6, RelayInner, OthersAreUnchanged
<1>7. ASSUME NEW r \in Req,
             \/ \E a \in Clones, q \in Requests : Call(r, a, q)
             \/ PollWaitsForOrigin(r) \/ SpuriousWake(r) \/ Move(r) \/ OriginReply(r)
             \/ InnerFinish(r) \/ Drop(r)
      PROVE  Relayed(s)'
  <2>1. stage'[r] # "done"
    BY <1>1, <1>7 DEF Call, PollWaitsForOrigin, Polled, SpuriousWake, Move, OriginReply,
                      InnerFinish, Drop, TypeOK
  <2>2. QED
    BY <1>1, <1>3, <1>7, <2>1, OthersAreUnchanged DEF Relayed
<1>8. CASE ChangeTable \/ CloneStep \/ UNCHANGED vars
  <2>1. UNCHANGED <<stage, fut, calls, answer>>
    BY <1>1, <1>8, CloneStepFacts DEF ChangeTable, vars
  <2>2. QED
    BY <1>2, <2>1
<1>9. QED
  BY <1>4, <1>5, <1>6, <1>7, <1>8 DEF Next, CloneStep

\* Whatever the interleaving: a failure of the inner service is the answer, unaltered, and
\* its responses keep their status and every header the middleware has none for.
THEOREM InnerAnswersPass == Spec => []InnerAnswerIsKept
<1> DEFINE RelayInv == \A r \in Req : Relayed(r)
<1>1. Init => RelayInv
  BY DEF Init, Relayed
<1>2. IInv /\ IInv' /\ KindInv /\ BufferFits /\ BufferFits' /\ RelayInv /\ [Next]_vars
          => RelayInv'
  BY RelayStep
<1>3. RelayInv => InnerAnswerIsKept
  BY RelayedIsKept
<1> HIDE DEF RelayInv
<1>4. QED
  BY <1>1, <1>2, <1>3, SpecInv, SpecKinds, BufferNeverOverflows, PTL DEF Spec

(***************************************************************************)
(* A list of origins.                                                      *)
(***************************************************************************)

\* The request names listed origins, and nothing else.
Listed(r) ==
    /\ fut[r].request.origin # {}
    /\ \A o \in fut[r].request.origin : o \in config.allow_origin.value

\* A list answers at once, and what it says does not change.
Judged(r) ==
    Live(r) /\ HasOrigin(fut[r].request) /\ config.allow_origin.kind = "List" =>
        verdict[r] = Said(Listed(r))

\* What a step leaves of a request that was judged.
Recalls(r) ==
    /\ config' = config
    /\ Live(r)' => Live(r) /\ fut'[r].request = fut[r].request
    /\ verdict[r] # "unknown" => verdict'[r] = verdict[r]

\* A request that is recalled stays judged.
LEMMA RecallsFacts ==
    ASSUME NEW r \in Req, Recalls(r), Judged(r)
    PROVE  Judged(r)'
  BY DEF Recalls, Judged, Listed, HasOrigin, Said

\* A list is asked by the call.
LEMMA JudgedCall ==
    ASSUME TypeOK, NEW r \in Req, NEW a \in Clones, NEW q \in Requests, Call(r, a, q)
    PROVE  Judged(r)'
<1> DEFINE of == to_future(config.allow_origin, table, q.origin)
<1>1. /\ config' = config /\ fut'[r].request = q
      /\ verdict'[r] = IF of.state = "Pending" THEN "unknown"
                       ELSE Said(Allows(config.allow_origin, table, q.origin))
  BY DEF Call, TypeOK
<1>2. ASSUME config.allow_origin.kind = "List", HasOrigin(q)
      PROVE  verdict'[r] = Said(/\ q.origin # {}
                                /\ \A o \in q.origin : o \in config.allow_origin.value)
  <2>1. of.state = "Ready"
    BY <1>2 DEF to_future
  <2>2. q.origin \subseteq config.allow_origin.value
            <=> \A o \in q.origin : o \in config.allow_origin.value
    OBVIOUS
  <2>3. Allows(config.allow_origin, table, q.origin)
            <=> /\ q.origin # {}
                /\ \A o \in q.origin : o \in config.allow_origin.value
    BY <1>2, <2>2 DEF Allows, HasOrigin, origin_list_matches
  <2>4. QED
    BY <1>1, <2>1, <2>3 DEF Said
<1> HIDE DEF of
<1>3. QED
  BY <1>1, <1>2 DEF Judged, Listed, HasOrigin, Said

\* Every step keeps the invariant.
LEMMA JudgedStep ==
    ASSUME IInv, [Next]_vars, NEW s \in Req, Judged(s)
    PROVE  Judged(s)'
<1>1. TypeOK
  BY DEF IInv
<1>2. ASSUME NEW r \in Req, OthersUnchanged(r), r = s => Judged(s)' PROVE Judged(s)'
  <2>1. r # s => Recalls(s)
    BY <1>2 DEF OthersUnchanged, Recalls, Live
  <2>2. QED
    BY <1>2, <2>1, RecallsFacts
<1>3. ASSUME NEW r \in Req, NEW a \in Clones, NEW q \in Requests, Call(r, a, q)
      PROVE  Judged(s)'
  BY <1>1, <1>2, <1>3, JudgedCall, OthersAreUnchanged
<1>4. ASSUME PollRefuses(s) \/ PollDispatches(s) \/ PollPreflight(s) PROVE Recalls(s)
  BY <1>1, <1>4, RefusalView, DispatchView, PreflightView
     DEF Recalls, Live, PollRefuses, PollDispatches, PollPreflight
<1>5. ASSUME \/ PollWaitsForOrigin(s) \/ SpuriousWake(s) \/ Move(s) \/ OriginReply(s)
             \/ InnerFinish(s) \/ PollInner(s)
      PROVE  Recalls(s)
  BY <1>1, <1>5, SilentView DEF Recalls, Live, OriginReply
<1>6. ASSUME Drop(s) PROVE Recalls(s)
  BY <1>1, <1>6 DEF Recalls, Live, Drop, TypeOK
<1>7. ASSUME NEW r \in Req,
             \/ PollRefuses(r) \/ PollDispatches(r) \/ PollPreflight(r)
             \/ PollWaitsForOrigin(r) \/ SpuriousWake(r) \/ Move(r) \/ OriginReply(r)
             \/ InnerFinish(r) \/ PollInner(r) \/ Drop(r)
      PROVE  Judged(s)'
  <2>1. r = s => Judged(s)'
    BY <1>4, <1>5, <1>6, <1>7, RecallsFacts
  <2>2. QED
    BY <1>1, <1>2, <1>7, <2>1, OthersAreUnchanged
<1>8. CASE ChangeTable \/ CloneStep \/ UNCHANGED vars
  <2>1. Recalls(s)
    BY <1>1, <1>8, CloneStepFacts DEF ChangeTable, vars, Recalls, Live
  <2>2. QED
    BY <2>1, RecallsFacts
<1>9. QED
  BY <1>3, <1>7, <1>8 DEF Next, CloneStep

\* From the list to the answer: only a request whose Origin names nothing but listed origins
\* is granted one, or handled where disallowed requests are refused, and each such request
\* is granted.
THEOREM OnlyListedAreGranted == Spec => []ListedOriginsOnly
<1> DEFINE ListInv == \A r \in Req : Judged(r)
<1>1. Init => ListInv
  BY DEF Init, Judged, Live
<1>2. IInv /\ ListInv /\ [Next]_vars => ListInv'
  BY JudgedStep
<1>3. IInv /\ ListInv /\ AnswerMatchesVerdict => ListedOriginsOnly
  <2> SUFFICES ASSUME IInv, ListInv, AnswerMatchesVerdict, NEW r \in Req,
                      Live(r), HasOrigin(fut[r].request), config.allow_origin.kind = "List"
               PROVE  /\ calls[r] # <<>> => Listed(r) \/ config.deliver_non_allowed_origin
                      /\ stage[r] = "done" /\ answer[r].result = "Ok" =>
                             IF Listed(r)
                             THEN answer[r].headers["ACAO"] = fut[r].request.origin
                             ELSE \A n \in CorsHeader :
                                      answer[r].headers[n] = Own(r)[n]
    BY DEF ListedOriginsOnly, Listed
  <2>1. verdict[r] = IF Listed(r) THEN "allowed" ELSE "denied"
    BY DEF Judged, Said
  <2>2. calls[r] # <<>> /\ ~Listed(r) => config.deliver_non_allowed_origin
    BY <2>1 DEF IInv, DispatchIsAdmitted
  <2>3. Matched(r)
    BY MatchedIsAnswer
  <2>4. Granting(r) = fut[r].request.origin
    BY DEF Granting, AllowedValue
  <2>5. QED
    BY <2>1, <2>2, <2>3, <2>4 DEF Matched, Matches
<1> HIDE DEF ListInv
<1>4. QED
  BY <1>1, <1>2, <1>3, SpecInv, AnswersMatchVerdicts, PTL DEF Spec
================================================================================
