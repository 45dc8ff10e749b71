------------------------------ MODULE CorsFuture ------------------------------
(***************************************************************************)
(* Cors::call and the future it returns, polled by an executor.            *)
(*                                                                         *)
(* A request is answered by a future that first waits for the origin       *)
(* verdict and then either answers by itself (a refusal, a short-circuited *)
(* preflight) or calls the inner service and waits for it.  The futures    *)
(* run under an executor that polls a task only when it was woken, and the *)
(* caller may drop a future at any moment.  A server holds a clone of the  *)
(* Cors per connection, the clones share the configuration and nothing     *)
(* else, and a future outlives the clone that made it.  The application    *)
(* changes its origin table and the inner services of clones meanwhile.    *)
(***************************************************************************)
EXTENDS CorsPolicy

CONSTANTS
    Running,      \* an inner future that has not resolved
    Clones,       \* the identities of the clones of one Cors
    Req,          \* the identities of the requests
    Requests,     \* what a request may look like
    Settings,     \* the builders a Cors may have been built from
    Services,     \* the values the inner service may have
    Tables,       \* the contents the application's origin table may have
    Outcomes      \* what a call of the inner service may end with

\* The result of a poll that is Ready.
Err == [result |-> "Err", status |-> 0, headers |-> NoHeaders]
Ok(status, headers) == [result |-> "Ok", status |-> status, headers |-> headers]
Answer == [result : {"Ok", "Err"}, status : Nat, headers : HeaderMap]

ASSUME RequestsAssumption == Requests \subseteq Request
ASSUME SettingsAssumption == Settings \subseteq Config
ASSUME TablesAssumption   == \A t \in Tables : t \subseteq Value
ASSUME ServicesAssumption == Absent \notin Services
ASSUME OutcomesAssumption == Outcomes \subseteq Answer
ASSUME DistinctAssumption ==
    /\ Absent \notin Requests /\ Absent \notin Outcomes
    /\ Running \notin Outcomes /\ Running # Absent

VARIABLES
    config,     \* Cors.config: the Arc<CorsBuilder>, never written after build
    service,    \* per clone: Cors.inner, Absent before it is cloned and once it is dropped
    table,      \* the application's origin table
    stage,      \* per request: not called, its future alive, finished, or dropped
    fut,        \* per request: the fields of CorsFuture
    task,       \* per request: whether the task that owns its future was woken, and the
                \* futures that hold the waker of this task
    verdict,    \* per request: what the origin policy said, once it said it
    calls,      \* per request: the services its inner calls went to
    answer      \* per request: what its future resolved to

vars == <<config, service, table, stage, fut, task, verdict, calls, answer>>

\* The fields of CorsFuture; the ones it copies out of config are read there, and
\* parts, body and service, which the code takes together, are `service'.
Future == [variant : {"Forward", "Preflight"}, request : Requests,
           allow_origin_future : OriginFuture, allow_origin_complete : BOOLEAN,
           service : Services \cup {Absent},
           inner : {Running, Absent} \cup Outcomes, headers : Buffer]

\* The future of the request exists: it was created and not dropped.
Live(r) == stage[r] \in {"pending", "done"}

TypeOK ==
    /\ config \in Config
    /\ service \in [Clones -> Services \cup {Absent}]
    /\ table \in Tables
    /\ stage \in [Req -> {"idle", "pending", "done", "dropped"}]
    /\ fut \in [Req -> Future \cup {Absent}]
    /\ task \in [Req -> [woken : BOOLEAN, wakers : SUBSET {"origin", "inner"}]]
    /\ verdict \in [Req -> {"unknown", "allowed", "denied"}]
    /\ calls \in [Req -> Seq(Services)]
    /\ answer \in [Req -> Answer \cup {Absent}]
    /\ \A r \in Req : Live(r) => fut[r] \in Future

Init ==
    /\ config \in {update_vary(c) : c \in {s \in Settings : validate(s)}}
    /\ \E a \in Clones, s \in Services :
           service = [b \in Clones |-> IF b = a THEN s ELSE Absent]
    /\ table \in Tables
    /\ stage = [r \in Req |-> "idle"]
    /\ fut = [r \in Req |-> Absent]
    /\ task = [r \in Req |-> [woken |-> FALSE, wakers |-> {}]]
    /\ verdict = [r \in Req |-> "unknown"]
    /\ calls = [r \in Req |-> <<>>]
    /\ answer = [r \in Req |-> Absent]

(***************************************************************************)
(* Cors::call.                                                             *)
(***************************************************************************)

Said(allowed) == IF allowed THEN "allowed" ELSE "denied"

\* The clone a is called.  Its inner service is cloned, not called.  A synchronous policy
\* is consulted here, an asynchronous one answers later.  Whoever called polls the future
\* at once.
Call(r, a, q) ==
    LET origin_future == to_future(config.allow_origin, table, q.origin)
        preflight     == is_preflight_request(q) /\ ~config.deliver_preflight
    IN  /\ stage[r] = "idle"
        /\ service[a] # Absent
        /\ stage' = [stage EXCEPT ![r] = "pending"]
        /\ fut' = [fut EXCEPT ![r] =
               [variant |-> IF preflight THEN "Preflight" ELSE "Forward",
                request |-> q,
                allow_origin_future |-> origin_future,
                allow_origin_complete |-> FALSE,
                service |-> IF preflight THEN Absent ELSE service[a],
                inner |-> Absent,
                headers |-> common_headers(config)]]
        /\ verdict' = [verdict EXCEPT ![r] =
               IF origin_future.state = "Pending" THEN "unknown"
               ELSE Said(Allows(config.allow_origin, table, q.origin))]
        /\ task' = [task EXCEPT ![r].woken = TRUE]
        /\ UNCHANGED <<config, service, table, calls, answer>>

(***************************************************************************)
(* CorsFuture::poll, one action per path through it.  Every path consumes  *)
(* the wake-up that caused the poll; one that returns Pending has left its *)
(* waker with the future it waits for.                                     *)
(***************************************************************************)

Polled(r) == stage[r] = "pending" /\ task[r].woken

\* Mutant: a boxed future is not polled again once it was pending.
OriginReady_NeverAgain(r) == fut[r].allow_origin_future.state = "Ready"

\* AllowOriginFuture::poll: a Ready one always is, a boxed one when the
\* application's future has resolved.
OriginReady(r) ==
    fut[r].allow_origin_future.state = "Ready" \/ verdict[r] # "unknown"

OriginResult(r) ==
    IF fut[r].allow_origin_future.state = "Ready" THEN fut[r].allow_origin_future.res
    ELSE IF verdict[r] = "allowed" THEN fut[r].request.origin ELSE Absent

Deciding(r) == Polled(r) /\ ~fut[r].allow_origin_complete /\ OriginReady(r)

\* Mutant: a request without an Origin counts as one with a disallowed one.
Disallowed_IgnoresHasOrigin(r) == OriginResult(r) = Absent

\* !origin_allowed && has_origin
Disallowed(r) == OriginResult(r) = Absent /\ HasOrigin(fut[r].request)

\* Mutant: handshakes are treated like any other request.
Refuses_IgnoresUpgrade(r) == Disallowed(r) /\ ~config.deliver_non_allowed_origin

\* A handshake is refused even where other disallowed requests are delivered.
Refuses(r) ==
    /\ Disallowed(r)
    /\ \/ ~config.deliver_non_allowed_origin
       \/ /\ is_websocket_upgrade_request(fut[r].request)
          /\ ~config.deliver_non_allowed_origin_websocket_upgrade

\* Mutant: the allowed origin is not pushed.
Decided_Unpushed(r) == [fut[r] EXCEPT !.allow_origin_future.res = Absent]

\* The future after AllowOriginFuture::poll returned Ready: the result is taken
\* out of it, and pushed if there is one.
Decided(r) ==
    [fut[r] EXCEPT !.allow_origin_future.res = Absent,
                   !.headers = push_opt(@, "ACAO", OriginResult(r))]

\* Mutant: the lazy headers are computed for whatever is delivered.
DispatchHeaders_Always(r) ==
    LET f == Decided(r)
    IN  compute_into(config, table, f.request, is_preflight_request(f.request), f.headers)

\* The lazy headers are computed at the dispatch, and only for an allowed origin.
DispatchHeaders(r) ==
    LET f == Decided(r)
    IN  IF OriginResult(r) = Absent THEN f.headers
        ELSE compute_into(config, table, f.request, is_preflight_request(f.request), f.headers)

\* Mutants: the decision is not remembered; the service is not taken.
Completed_Forgotten(f) == [f EXCEPT !.service = Absent]
Completed_KeepsService(f) == [f EXCEPT !.allow_origin_complete = TRUE]

\* The Forward variant decides once: its service, body and parts are taken.
Completed(f) == [f EXCEPT !.allow_origin_complete = TRUE, !.service = Absent]

\* Mutants: Pending is returned without leaving a waker; the inner future is left alone
\* once it was polled at the dispatch.
Waits_Unregistered(r, source) == task' = [task EXCEPT ![r].woken = FALSE]
Waits_OnlyOnce(r, source) ==
    task' = [task EXCEPT ![r] =
        [woken  |-> FALSE,
         wakers |-> IF fut[r].allow_origin_complete THEN @.wakers ELSE @.wakers \cup {source}]]

Waits(r, source) ==
    task' = [task EXCEPT ![r] = [woken |-> FALSE, wakers |-> @.wakers \cup {source}]]

Finishes(r, ans) ==
    /\ stage' = [stage EXCEPT ![r] = "done"]
    /\ answer' = [answer EXCEPT ![r] = ans]
    /\ task' = [task EXCEPT ![r].woken = FALSE]

\* Mutant: the headers are merged into whatever the inner service ends with.
InnerAnswer_MergesErr(outcome, headers) ==
    [outcome EXCEPT !.headers = merge_headers(@, headers)]

\* ready!(inner.poll(cx))?, then the headers are merged into its response.
InnerAnswer(outcome, headers) ==
    IF outcome.result = "Err" THEN outcome
    ELSE [outcome EXCEPT !.headers = merge_headers(@, headers)]

\* Both variants: the verdict is not in yet.
PollWaitsForOrigin(r) ==
    /\ Polled(r)
    /\ ~fut[r].allow_origin_complete
    /\ ~OriginReady(r)
    /\ Waits(r, "origin")
    /\ UNCHANGED <<config, service, table, stage, fut, verdict, calls, answer>>

\* Forward: refused.  Service, body and parts go, and only Vary is answered.
PollRefuses(r) ==
    LET f == Decided(r)
    IN  /\ Deciding(r)
        /\ fut[r].variant = "Forward"
        /\ Refuses(r)
        /\ fut' = [fut EXCEPT ![r] = Completed(f)]
        /\ Finishes(r, Ok(config.rejection_status, merge_headers(NoHeaders, f.headers)))
        /\ UNCHANGED <<config, service, table, verdict, calls>>

\* Forward: delivered.  The inner service is called, and its future is polled in the
\* same poll: it may be ready already.
PollDispatches(r) ==
    LET headers == DispatchHeaders(r)
    IN  /\ Deciding(r)
        /\ fut[r].variant = "Forward"
        /\ ~Refuses(r)
        /\ calls' = [calls EXCEPT ![r] = Append(@, fut[r].service)]
        /\ \E inner \in {Running} \cup Outcomes :
               /\ fut' = [fut EXCEPT ![r] =
                      [Completed(Decided(r)) EXCEPT !.inner = inner, !.headers = headers]]
               /\ IF inner = Running
                  THEN Waits(r, "inner") /\ UNCHANGED <<stage, answer>>
                  ELSE Finishes(r, InnerAnswer(inner, headers))
        /\ UNCHANGED <<config, service, table, verdict>>

\* Forward, after the dispatch: the inner future is polled again.
PollInner(r) ==
    /\ Polled(r)
    /\ fut[r].variant = "Forward"
    /\ fut[r].allow_origin_complete
    /\ IF fut[r].inner = Running
       THEN Waits(r, "inner") /\ UNCHANGED <<stage, answer>>
       ELSE Finishes(r, InnerAnswer(fut[r].inner, fut[r].headers))
    /\ UNCHANGED <<config, service, table, fut, verdict, calls>>

\* Preflight: answered here.  Without an Origin the lazy headers are computed even
\* though no origin was allowed.
PollPreflight(r) ==
    LET f       == Decided(r)
        headers == compute_into(config, table, f.request, TRUE, f.headers)
    IN  /\ Deciding(r)
        /\ fut[r].variant = "Preflight"
        /\ IF Disallowed(r)
           THEN /\ fut' = [fut EXCEPT ![r] = f]
                /\ Finishes(r, Ok(IF config.deliver_non_allowed_origin THEN 200
                                  ELSE config.rejection_status,
                                  merge_headers(NoHeaders, f.headers)))
           ELSE /\ fut' = [fut EXCEPT ![r] = [f EXCEPT !.headers = headers]]
                /\ Finishes(r, Ok(200, merge_headers(NoHeaders, headers)))
        /\ UNCHANGED <<config, service, table, verdict, calls>>

(***************************************************************************)
(* The caller, the executor and the application.                           *)
(***************************************************************************)

\* The caller drops the future before it finished (a closed connection, a timeout).
Drop(r) ==
    /\ stage[r] = "pending"
    /\ stage' = [stage EXCEPT ![r] = "dropped"]
    /\ fut' = [fut EXCEPT ![r] = Absent]
    /\ task' = [task EXCEPT ![r].woken = FALSE]
    /\ UNCHANGED <<config, service, table, verdict, calls, answer>>

\* The connection that polls the future is woken for a reason of its own.
SpuriousWake(r) ==
    /\ stage[r] = "pending"
    /\ ~task[r].woken
    /\ task' = [task EXCEPT ![r].woken = TRUE]
    /\ UNCHANGED <<config, service, table, stage, fut, verdict, calls, answer>>

\* The future goes to another task, which polls it at once.  The wakers left so far wake
\* the old one.
Move(r) ==
    /\ stage[r] = "pending"
    /\ task' = [task EXCEPT ![r] = [woken |-> TRUE, wakers |-> {}]]
    /\ UNCHANGED <<config, service, table, stage, fut, verdict, calls, answer>>

\* A future the request waits for resolves, and wakes the task if it left a waker.
Wakes(r, source) ==
    task' = [task EXCEPT ![r].woken = @ \/ source \in task[r].wakers]

\* The application's asynchronous predicate looks the origin up.
OriginReply(r) ==
    /\ stage[r] = "pending"
    /\ verdict[r] = "unknown"
    /\ verdict' = [verdict EXCEPT ![r] =
           Said(Allows(config.allow_origin, table, fut[r].request.origin))]
    /\ Wakes(r, "origin")
    /\ UNCHANGED <<config, service, table, stage, fut, calls, answer>>

InnerFinish(r) ==
    /\ stage[r] = "pending"
    /\ fut[r].inner = Running
    /\ \E outcome \in Outcomes : fut' = [fut EXCEPT ![r].inner = outcome]
    /\ Wakes(r, "inner")
    /\ UNCHANGED <<config, service, table, stage, verdict, calls, answer>>

\* The application rewrites its table (a tenant added, removed).
ChangeTable ==
    /\ table' \in Tables \ {table}
    /\ UNCHANGED <<config, service, stage, fut, task, verdict, calls, answer>>

\* A connection is accepted: it gets a clone, which shares the configuration.
Clone(a, b) ==
    /\ service[a] # Absent
    /\ service[b] = Absent
    /\ service' = [service EXCEPT ![b] = service[a]]
    /\ UNCHANGED <<config, table, stage, fut, task, verdict, calls, answer>>

\* A connection ends and drops its clone; the futures it made do not need it.
DropCors(a) ==
    /\ service[a] # Absent
    /\ service' = [service EXCEPT ![a] = Absent]
    /\ UNCHANGED <<config, table, stage, fut, task, verdict, calls, answer>>

\* Mutant: the clones share their inner service.
InnerMut_Shared(a) ==
    /\ service[a] # Absent
    /\ \E s \in Services \ {service[a]} :
           service' = [b \in Clones |-> IF service[b] = Absent THEN Absent ELSE s]
    /\ UNCHANGED <<config, table, stage, fut, task, verdict, calls, answer>>

\* Cors::inner_mut, on one clone.
InnerMut(a) ==
    /\ service[a] # Absent
    /\ \E s \in Services \ {service[a]} : service' = [service EXCEPT ![a] = s]
    /\ UNCHANGED <<config, table, stage, fut, task, verdict, calls, answer>>

Poll(r) ==
    \/ PollWaitsForOrigin(r) \/ PollRefuses(r) \/ PollDispatches(r)
    \/ PollInner(r) \/ PollPreflight(r)

Next ==
    \/ \E r \in Req :
           \/ \E a \in Clones, q \in Requests : Call(r, a, q)
           \/ PollWaitsForOrigin(r)
           \/ PollRefuses(r)
           \/ PollDispatches(r)
           \/ PollInner(r)
           \/ PollPreflight(r)
           \/ Drop(r)
           \/ SpuriousWake(r)
           \/ Move(r)
           \/ OriginReply(r)
           \/ InnerFinish(r)
    \/ ChangeTable
    \/ \E a \in Clones :
           \/ \E b \in Clones : Clone(a, b)
           \/ DropCors(a)
           \/ InnerMut(a)

Spec == Init /\ [][Next]_vars

\* The executor polls a woken task.  The application's futures make progress only
\* once polled: they are owed to resolve if they hold a waker, time and again when their
\* owner moves.  Nothing is assumed of callers, moves, wakes without a cause, tables,
\* services and clones.
Fairness ==
    \A r \in Req :
        /\ WF_vars(Poll(r))
        /\ SF_vars("origin" \in task[r].wakers /\ OriginReply(r))
        /\ SF_vars("inner" \in task[r].wakers /\ InnerFinish(r))

LiveSpec == Spec /\ Fairness

(***************************************************************************)
(* Safety.                                                                 *)
(***************************************************************************)

\* `no application code runs for a disallowed origin' (cors.rs): the inner service is
\* called only once the policy has answered, and never for a request it turned down
\* where the configuration refuses such requests.
DispatchIsAdmitted ==
    \A r \in Req : calls[r] # <<>> =>
        /\ verdict[r] # "unknown"
        /\ Live(r) /\ HasOrigin(fut[r].request) /\ verdict[r] = "denied" =>
            /\ config.deliver_non_allowed_origin
            /\ \/ ~is_websocket_upgrade_request(fut[r].request)
               \/ config.deliver_non_allowed_origin_websocket_upgrade

\* A Forward future is answered without a call of the inner service only where the
\* policy turned an origin down: an allowed request and one without an Origin always
\* reach it (tests: no_origin_passes_through, websocket_upgrade_without_origin).
RefusalIsJustified ==
    \A r \in Req :
        stage[r] = "done" /\ fut[r].variant = "Forward" /\ calls[r] = <<>> =>
            /\ verdict[r] = "denied"
            /\ HasOrigin(fut[r].request)
            /\ answer[r].status = config.rejection_status

\* The inner service is called at most once for a request, however often its future is
\* polled, and the future keeps the service exactly as long as it has not decided: a
\* poll never finds neither a service to call nor an inner future to poll.
DispatchedOnce ==
    \A r \in Req :
        /\ Len(calls[r]) <= 1
        /\ stage[r] = "pending" /\ fut[r].variant = "Forward" =>
            IF fut[r].allow_origin_complete
            THEN calls[r] # <<>> /\ fut[r].inner # Absent /\ fut[r].service = Absent
            ELSE calls[r] = <<>> /\ fut[r].inner = Absent /\ fut[r].service # Absent

\* A pending future whose task was not woken waits for something that has not happened
\* yet and that holds the waker of the task that polls it now: no wake-up is lost, not the
\* one of an inner future created in the poll that returns Pending, nor any after a move.
NoLostWakeup ==
    \A r \in Req : stage[r] = "pending" /\ ~task[r].woken =>
        \/ /\ "origin" \in task[r].wakers
           /\ ~fut[r].allow_origin_complete
           /\ ~OriginReady(r)
        \/ /\ "inner" \in task[r].wakers
           /\ fut[r].inner = Running

\* A verdict is not lost on its way to the decision: an undecided future still holds
\* what a synchronous policy said (polling a Ready AllowOriginFuture takes it out, so a
\* second poll of it would read None), and only a request with an Origin waits.
OriginFutureAgrees ==
    \A r \in Req : stage[r] = "pending" /\ ~fut[r].allow_origin_complete =>
        IF fut[r].allow_origin_future.state = "Ready"
        THEN /\ verdict[r] # "unknown"
             /\ fut[r].allow_origin_future.res # Absent <=> verdict[r] = "allowed"
        ELSE HasOrigin(fut[r].request)

\* HeaderBuf never overflows (its push panics), holds no header twice, and holds nothing
\* but Vary until the decision, whatever the number of polls that came before it.
BufferFits ==
    \A r \in Req : Live(r) =>
        /\ Len(fut[r].headers) <= CAPACITY
        /\ \A i, j \in 1..Len(fut[r].headers) :
               fut[r].headers[i][1] = fut[r].headers[j][1] => i = j
        /\ stage[r] = "pending" /\ ~fut[r].allow_origin_complete =>
               fut[r].headers = common_headers(config)

\* The headers of the response the inner service produced, if it was called.
Own(r) == IF calls[r] = <<>> THEN NoHeaders ELSE fut[r].inner.headers

\* An answer of an allowed request names the allowed origin, whatever the inner service
\* said; one of a disallowed request carries no CORS header the inner service did not
\* set itself; and no answer loses a Vary name, the middleware's or the inner service's.
AnswerMatchesVerdict ==
    \A r \in Req : stage[r] = "done" /\ answer[r].result = "Ok" =>
        LET h == answer[r].headers
            q == fut[r].request
        IN  /\ verdict[r] = "allowed" =>
                   h["ACAO"] = AllowedValue(config.allow_origin, q.origin)
            /\ verdict[r] = "denied" /\ HasOrigin(q) =>
                   \A n \in CorsHeader : h[n] = Own(r)[n]
            /\ \A vary \in {config.vary, Own(r)["Vary"]} \ {Absent} :
                   h["Vary"] # Absent /\ vary \subseteq h["Vary"]

\* Under a list of origins, `every non-empty token must appear in allowed' (allow_origin.rs),
\* and there must be one: a request whose Origin names only listed origins is granted it, and
\* one that names another as well, or nothing at all, gets no CORS header from the
\* middleware and no handler where disallowed requests are refused.
ListedOriginsOnly ==
    \A r \in Req :
        /\ Live(r) /\ HasOrigin(fut[r].request) /\ config.allow_origin.kind = "List"
        => LET asked  == fut[r].request.origin
               listed == asked # {} /\ \A o \in asked : o \in config.allow_origin.value
           IN  /\ calls[r] # <<>> => listed \/ config.deliver_non_allowed_origin
               /\ stage[r] = "done" /\ answer[r].result = "Ok" =>
                      IF listed THEN answer[r].headers["ACAO"] = asked
                      ELSE \A n \in CorsHeader : answer[r].headers[n] = Own(r)[n]

Holds(buf, name) == \E i \in 1..Len(buf) : buf[i][1] = name

\* What the inner service answered reaches the caller: its failure as it is, with nothing
\* merged into it, its response with its status and every header the middleware did not
\* collect one for; and the middleware never fails by itself.
InnerAnswerIsKept ==
    \A r \in Req : stage[r] = "done" =>
        /\ answer[r].result = "Err" => calls[r] # <<>>
        /\ calls[r] # <<>> =>
            LET inner == fut[r].inner
            IN  /\ inner \in Outcomes
                /\ inner.result = "Err" => answer[r] = inner
                /\ inner.result = "Ok" =>
                    /\ answer[r].result = "Ok" /\ answer[r].status = inner.status
                    /\ \A n \in HeaderName :
                           ~Holds(fut[r].headers, n) => answer[r].headers[n] = inner.headers[n]

\* A poll that leaves the future waiting for the verdict, or for the inner future, leaves
\* its headers and the calls made for it alone: polls nobody asked for are harmless.
IdlePollIsHarmless ==
    [][\A r \in Req :
           /\ stage[r] = "pending" /\ stage'[r] = "pending"
           /\ fut[r].allow_origin_complete = fut'[r].allow_origin_complete
           => fut'[r].headers = fut[r].headers /\ calls'[r] = calls[r]]_vars

\* Credentials are granted by the policies of one instant: Access-Control-Allow-Credentials
\* enters the headers of a request only in the step that decides it, after the policy
\* allowed its origin (or for a preflight without one), and only if the credentials knob
\* grants them then, whatever the table said at call, at the verdict or says later.
CredentialsFollowVerdict ==
    [][\A r \in Req :
           /\ Live(r)'
           /\ Holds(fut'[r].headers, "ACAC")
           /\ Live(r) => ~Holds(fut[r].headers, "ACAC")
           => /\ stage[r] = "pending" /\ ~fut[r].allow_origin_complete
              /\ \/ verdict[r] = "allowed"
                 \/ fut[r].variant = "Preflight" /\ ~HasOrigin(fut[r].request)
              /\ credentials_header(config, table, fut[r].request) # Absent]_vars

(***************************************************************************)
(* Liveness, under Fairness.                                               *)
(***************************************************************************)

\* Every request is answered, unless its caller drops the future.
EveryCallResolves ==
    \A r \in Req : stage[r] = "pending" ~> stage[r] \in {"done", "dropped"}

\* A request the policy allowed reaches the inner service, unless it is a preflight the
\* middleware answers or its caller drops the future.
AllowedIsDispatched ==
    \A r \in Req :
        stage[r] = "pending" /\ verdict[r] = "allowed" /\ fut[r].variant = "Forward"
            ~> calls[r] # <<>> \/ stage[r] = "dropped"

(***************************************************************************)
(* Refinement: the futures keep the promise of CorsService.  A request is  *)
(* open while its future is pending, and its handler is the service clone  *)
(* the future holds.                                                       *)
(***************************************************************************)

Promise == INSTANCE CorsService WITH
    open    <- {r \in Req : stage[r] = "pending"},
    request <- [r \in Req |-> IF Live(r) THEN fut[r].request ELSE Absent],
    handler <- [r \in Req |-> IF Live(r) THEN fut[r].service ELSE Absent],
    handled <- calls,
    reply   <- [r \in Req |-> IF stage[r] \in {"idle", "pending"} THEN "none"
                             ELSE IF stage[r] = "dropped" THEN "abandoned"
                             ELSE IF calls[r] = <<>> THEN "middleware"
                             ELSE "handler"]

\* Every behaviour of the futures is one the promise allows: one verdict per request,
\* taken while it is open; at most one run of the handler it was opened with, after an
\* admitting verdict; and one reply.
KeepsPromise == Promise!Spec

(***************************************************************************)
(* What the documentation says and the code does not do.                   *)
(***************************************************************************)

\* allow_credentials.rs, to_header: `When the Origin header is absent (no CORS
\* request), credentials are never emitted.'
NoCredentialsWithoutOrigin ==
    \A r \in Req :
        stage[r] = "done" /\ answer[r].result = "Ok" /\ ~HasOrigin(fut[r].request) =>
            answer[r].headers["ACAC"] = Own(r)["ACAC"]

\* allow_origin.rs, exact: `Allows a single, fixed origin.'; config.rs,
\* deliver_non_allowed_origin: `If false, such requests are rejected'.
ExactAllowsItsOriginOnly ==
    \A r \in Req :
        /\ calls[r] # <<>> /\ stage[r] = "done"
        /\ config.allow_origin.kind = "Const"
        /\ config.allow_origin.value # Wildcard
        /\ ~config.deliver_non_allowed_origin
        => fut[r].request.origin \in {Absent, config.allow_origin.value}
===============================================================================
