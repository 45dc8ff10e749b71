------------------------------ MODULE CorsService ------------------------------
(***************************************************************************)
(* What the middleware promises an application, with no future, no poll and *)
(* no header buffer in sight: every request is opened, gets one verdict of  *)
(* the policy while it is open, is handled at most once, by the handler the *)
(* clone that opened it had then and only if the verdict admits it, and is  *)
(* closed once: replied to, or abandoned by its caller.                     *)
(***************************************************************************)
EXTENDS CorsPolicy

CONSTANTS Clones, Req, Requests, Settings, Services, Tables

VARIABLES
    config,     \* the configuration served
    service,    \* per clone of the middleware: the handler it opens requests with
    table,      \* the application's origin table
    open,       \* the requests opened and not closed
    request,    \* per request: what was asked, forgotten when it is abandoned
    handler,    \* per request: the handler kept to run for it, if any
    verdict,    \* per request: unknown, then what the policy said of it
    handled,    \* per request: the handlers that ran for it, in order
    reply       \* per request: how it was closed

vars == <<config, service, table, open, request, handler, verdict, handled, reply>>

Synthetic(q) == is_preflight_request(q) /\ ~config.deliver_preflight

\* A handler may see a request its verdict allows, one without an Origin, and a
\* disallowed one the configuration delivers; a short-circuited preflight never.
Admitted(q, said) ==
    /\ ~Synthetic(q)
    /\ said # "unknown"
    /\ \/ said = "allowed"
       \/ ~HasOrigin(q)
       \/ /\ config.deliver_non_allowed_origin
          /\ \/ ~is_websocket_upgrade_request(q)
             \/ config.deliver_non_allowed_origin_websocket_upgrade

Init ==
    /\ config \in {update_vary(c) : c \in {s \in Settings : validate(s)}}
    /\ \E a \in Clones, s \in Services :
           service = [b \in Clones |-> IF b = a THEN s ELSE Absent]
    /\ table \in Tables
    /\ open = {}
    /\ request = [r \in Req |-> Absent]
    /\ handler = [r \in Req |-> Absent]
    /\ verdict = [r \in Req |-> "unknown"]
    /\ handled = [r \in Req |-> <<>>]
    /\ reply = [r \in Req |-> "none"]

Says(r, q) ==
    verdict' = [verdict EXCEPT ![r] =
        IF Allows(config.allow_origin, table, q.origin) THEN "allowed" ELSE "denied"]

\* The policy may speak as soon as the request is opened, or later.
Open(r, a, q) ==
    /\ service[a] # Absent
    /\ r \notin open /\ reply[r] = "none"
    /\ open' = open \cup {r}
    /\ request' = [request EXCEPT ![r] = q]
    /\ handler' = [handler EXCEPT ![r] = IF Synthetic(q) THEN Absent ELSE service[a]]
    /\ Says(r, q) \/ UNCHANGED verdict
    /\ UNCHANGED <<config, service, table, handled, reply>>

\* The verdict is the policy's at an instant the request is open, and is final.
Decide(r) ==
    /\ r \in open
    /\ verdict[r] = "unknown"
    /\ Says(r, request[r])
    /\ UNCHANGED <<config, service, table, open, request, handler, handled, reply>>

\* A handler runs once, and is not kept any longer.
Run(r) ==
    /\ r \in open
    /\ Admitted(request[r], verdict[r])
    /\ handled[r] = <<>>
    /\ handled' = [handled EXCEPT ![r] = <<handler[r]>>]
    /\ handler' = [handler EXCEPT ![r] = Absent]

Handle(r) ==
    /\ Run(r)
    /\ UNCHANGED <<config, service, table, open, request, verdict, reply>>

\* Closed by the handler if it ran, perhaps in this very step.
CloseHandled(r) ==
    /\ r \in open
    /\ open' = open \ {r}
    /\ \/ handled[r] # <<>> /\ UNCHANGED <<handled, handler>>
       \/ Run(r)
    /\ reply' = [reply EXCEPT ![r] = "handler"]
    /\ UNCHANGED <<config, service, table, request, verdict>>

\* Closed by the middleware if the request is not for the handler, which goes unused.
CloseUnhandled(r) ==
    /\ r \in open
    /\ verdict[r] # "unknown"
    /\ ~Admitted(request[r], verdict[r])
    /\ open' = open \ {r}
    /\ handler' = [handler EXCEPT ![r] = Absent]
    /\ reply' = [reply EXCEPT ![r] = "middleware"]
    /\ UNCHANGED <<config, service, table, request, verdict, handled>>

Abandon(r) ==
    /\ r \in open
    /\ open' = open \ {r}
    /\ request' = [request EXCEPT ![r] = Absent]
    /\ handler' = [handler EXCEPT ![r] = Absent]
    /\ reply' = [reply EXCEPT ![r] = "abandoned"]
    /\ UNCHANGED <<config, service, table, verdict, handled>>

ChangeTable ==
    /\ table' \in Tables \ {table}
    /\ UNCHANGED <<config, service, open, request, handler, verdict, handled, reply>>

\* A clone appears with the handler of another, loses it, or has it exchanged, and the
\* other clones and every open request keep theirs.
ChangeClone(a) ==
    /\ \/ /\ service[a] = Absent
          /\ \E b \in Clones : service' = [service EXCEPT ![a] = service[b]]
       \/ /\ service[a] # Absent
          /\ \E s \in Services \cup {Absent} : service' = [service EXCEPT ![a] = s]
    /\ UNCHANGED <<config, table, open, request, handler, verdict, handled, reply>>

Next ==
    \/ \E r \in Req :
           \/ \E a \in Clones, q \in Requests : Open(r, a, q)
           \/ Decide(r)
           \/ Handle(r)
           \/ CloseHandled(r)
           \/ CloseUnhandled(r)
           \/ Abandon(r)
    \/ ChangeTable
    \/ \E a \in Clones : ChangeClone(a)

Spec == Init /\ [][Next]_vars
===============================================================================
