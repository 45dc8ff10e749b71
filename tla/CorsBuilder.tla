------------------------------ MODULE CorsBuilder ------------------------------
(***************************************************************************)
(* The life of a configuration: a builder is filled in by setters in any   *)
(* order, validated and turned into a Cors, whose configuration may be     *)
(* cloned out again, edited and rebuilt while the first Cors keeps serving.*)
(***************************************************************************)
EXTENDS CorsPolicy

CONSTANTS
    Origins, Methods, Headers, Exposed, Seconds, Varies,
    Statuses,       \* what the application makes the setters' arguments of
    Requests,       \* the requests a built configuration is judged by
    Tables,         \* the contents of the application's origin table
    MaxEdits        \* bound on the number of setter calls

ASSUME ArgumentsAssumption ==
    /\ UNION {Origins, Methods, Headers, Exposed, Seconds, Varies} \subseteq Tokens
    /\ Statuses \subseteq Nat /\ MaxEdits \in Nat
    /\ Requests \subseteq Request
    /\ \A t \in Tables : t \subseteq Value
ASSUME NoBuilderAssumption == Absent \notin Config

VARIABLES
    builder,    \* the CorsBuilder being filled in, Absent once it is consumed
    cors,       \* the configuration of the last Cors built
    pin,        \* the last argument of vary() on this builder or the ones it was
                \* cloned from, if it was called at all
    pinned,     \* the pin of the last Cors built
    edits       \* the setter calls so far

vars == <<builder, cors, pin, pinned, edits>>

NoPin == [set |-> FALSE, names |-> Absent]
Pin(names) == [set |-> TRUE, names |-> names]

TypeOK ==
    /\ builder \in Config \cup {Absent}
    /\ cors \in Config \cup {Absent}
    /\ {pin, pinned} \subseteq [set : BOOLEAN, names : OptValue]
    /\ edits \in 0..MaxEdits
    /\ pin.set = (builder # Absent /\ builder.vary_pinned) \/ builder = Absent
    /\ pinned.set = (cors # Absent /\ cors.vary_pinned)

Init ==
    /\ builder = Default
    /\ cors = Absent
    /\ pin = NoPin
    /\ pinned = NoPin
    /\ edits = 0

(***************************************************************************)
(* The setters.                                                            *)
(***************************************************************************)

\* Every setter consumes the builder and returns it with one knob changed, unless the
\* constructor of its argument panics: then the builder is gone.
Becomes(changed) ==
    /\ builder # Absent
    /\ edits < MaxEdits
    /\ edits' = edits + 1
    /\ builder' = changed
    /\ UNCHANGED <<cors, pinned>>

\* What an application can pass as an origin policy, by a constructor or by Into.
OriginArguments ==
    {AllowOrigin_any, AllowOrigin_mirror_request, AllowOrigin_predicate,
     AllowOrigin_async_predicate}
        \cup {AllowOrigin_exact({o}) : o \in Origins}
        \cup {AllowOrigin_list(l) : l \in SUBSET Origins}

SetOrigin == \E p \in OriginArguments :
    /\ Becomes(IF p = Absent THEN Absent ELSE [builder EXCEPT !.allow_origin = p])
    /\ UNCHANGED pin
SetCredentials ==
    \E c \in {AllowCredentials_from(yes) : yes \in BOOLEAN} \cup {AllowCredentials_predicate} :
        Becomes([builder EXCEPT !.allow_credentials = c]) /\ UNCHANGED pin
SetMethods ==
    \E m \in {AllowMethods_any, AllowMethods_mirror_request}
                 \cup {AllowMethods_list(l) : l \in SUBSET Methods} :
        Becomes([builder EXCEPT !.allow_methods = m]) /\ UNCHANGED pin
SetHeaders ==
    \E h \in {AllowHeaders_any, AllowHeaders_mirror_request}
                 \cup {AllowHeaders_list(l) : l \in SUBSET Headers} :
        Becomes([builder EXCEPT !.allow_headers = h]) /\ UNCHANGED pin
SetExposed ==
    \E e \in {ExposeHeaders_any} \cup {ExposeHeaders_list(l) : l \in SUBSET Exposed} :
        Becomes([builder EXCEPT !.expose_headers = e]) /\ UNCHANGED pin
SetMaxAge == \E seconds \in Seconds :
    Becomes([builder EXCEPT !.max_age = MaxAge_exact(seconds)]) /\ UNCHANGED pin

\* Mutant: vary() forgets to disable the derivation.
SetVary_Unpinned == \E names \in SUBSET Varies :
    Becomes([builder EXCEPT !.vary = Vary_list(names)]) /\ pin' = Pin(Vary_list(names))

SetVary == \E names \in SUBSET Varies :
    /\ Becomes([builder EXCEPT !.vary = Vary_list(names), !.vary_pinned = TRUE])
    /\ pin' = Pin(Vary_list(names))
SetDeliverPreflight == \E b \in BOOLEAN :
    Becomes([builder EXCEPT !.deliver_preflight = b]) /\ UNCHANGED pin
SetDeliverNonAllowed == \E b \in BOOLEAN :
    Becomes([builder EXCEPT !.deliver_non_allowed_origin = b]) /\ UNCHANGED pin
SetDeliverUpgrade == \E b \in BOOLEAN :
    /\ Becomes([builder EXCEPT !.deliver_non_allowed_origin_websocket_upgrade = b])
    /\ UNCHANGED pin
SetStatus == \E s \in Statuses :
    Becomes([builder EXCEPT !.rejection_status = s]) /\ UNCHANGED pin

(***************************************************************************)
(* try_build (build panics where it returns an error), and the ways to a   *)
(* new builder: a fresh one, or a clone of the configuration being served. *)
(***************************************************************************)

TryBuild ==
    /\ builder # Absent
    /\ builder' = Absent
    /\ IF validate(builder)
       THEN cors' = update_vary(builder) /\ pinned' = pin
       ELSE UNCHANGED <<cors, pinned>>
    /\ UNCHANGED <<pin, edits>>

New ==
    /\ builder = Absent
    /\ builder' = Default
    /\ pin' = NoPin
    /\ UNCHANGED <<cors, pinned, edits>>

CloneConfig ==
    /\ builder = Absent
    /\ cors # Absent
    /\ builder' = cors
    /\ pin' = pinned
    /\ UNCHANGED <<cors, pinned, edits>>

Next ==
    \/ SetOrigin \/ SetCredentials \/ SetMethods \/ SetHeaders \/ SetExposed
    \/ SetMaxAge \/ SetVary \/ SetDeliverPreflight \/ SetDeliverNonAllowed
    \/ SetDeliverUpgrade \/ SetStatus
    \/ TryBuild \/ New \/ CloneConfig

Spec == Init /\ [][Next]_vars

(***************************************************************************)
(* Properties of every configuration that was built, judged by the headers *)
(* it makes for each request.                                              *)
(***************************************************************************)

\* The CORS headers of an answer to q that the inner service adds nothing to.
HeadersFor(q, table) ==
    LET allowed   == Allows(cors.allow_origin, table, q.origin)
        lazy      == allowed \/ /\ is_preflight_request(q) /\ ~cors.deliver_preflight
                                /\ ~HasOrigin(q)
        acao      == push_opt(<<>>, "ACAO", IF allowed
                              THEN AllowedValue(cors.allow_origin, q.origin) ELSE Absent)
        preflight == is_preflight_request(q)
    IN  merge_headers(NoHeaders,
            IF lazy THEN compute_into(cors, table, q, preflight, acao) ELSE acao)

\* A cache may serve q1's answer to q2: both reads, or both preflights, alike in every
\* header Vary names.
SharesCacheEntry(q1, q2) ==
    /\ is_preflight_request(q1) = is_preflight_request(q2)
    /\ is_preflight_request(q1) \/ "OPTIONS" \notin {q1.method, q2.method}
    /\ "Origin" \in cors.vary => q1.origin = q2.origin
    /\ "ACRM" \in cors.vary => q1.acrm = q2.acrm
    /\ "ACRH" \in cors.vary => q1.acrh = q2.acrh

\* update_vary: a derived Vary is never stale or too small, after whatever edits and
\* rebuilds.  Two requests a cache cannot tell apart by it get the same CORS headers.
DerivedVaryIsEnough ==
    cors # Absent /\ ~pinned.set =>
        \A q1, q2 \in Requests : SharesCacheEntry(q1, q2) =>
            \A t \in Tables : HeadersFor(q1, t) = HeadersFor(q2, t)

\* `Pins Vary to a specific list of header names, disabling automatic derivation': the
\* last vary() call wins over every later setter, build, clone and rebuild.
PinSurvives == cors # Absent /\ pinned.set => cors.vary = pinned.names

HasStar(value) == value # Absent /\ "*" \in value

\* The request itself brought the `*' that a knob which only mirrors answers.
Mirrored(q, n) ==
    \/ /\ n = "ACAO" /\ HasStar(q.origin)
       /\ cors.allow_origin.kind \in {"MirrorRequest", "Predicate", "AsyncPredicate"}
    \/ n = "ACAM" /\ HasStar(q.acrm) /\ cors.allow_methods.kind = "MirrorRequest"
    \/ n = "ACAH" /\ HasStar(q.acrh) /\ cors.allow_headers.kind = "MirrorRequest"

\* What validate, and the assertions of AllowOrigin::exact and list, keep out of a Cors that
\* grants credentials to every request, whatever the constructors, the order of the setters
\* and the Origin.  Access-Control-Allow-Origin never names `*', and the three lists are
\* never `*' alone, unless it is an echo of the request's own.  A list that names `*' beside
\* something else is not kept out: see WildcardIsConfigError.
CredentialsNeverMeetWildcard ==
    cors # Absent /\ cors.allow_credentials = "Yes" =>
        \A q \in Requests, t \in Tables, n \in {"ACAO", "ACAM", "ACAH", "ACEH"} :
            LET value == HeadersFor(q, t)[n]
            IN  value = Wildcard \/ (n = "ACAO" /\ HasStar(value)) => Mirrored(q, n)

(***************************************************************************)
(* What the documentation says and the code does not do.                   *)
(***************************************************************************)

\* config.rs, try_build: `Returns a [`ConfigError`] when any Fetch-mandated incompatibility
\* is violated: `allow_credentials: true` combined with `*` in `allow_origin`,
\* `allow_methods`, `allow_headers`, or `expose_headers`.'
WildcardIsConfigError ==
    cors # Absent /\ cors.allow_credentials = "Yes" =>
        /\ ~HasStar(cors.allow_origin.value)
        /\ ~HasStar(cors.allow_methods.value)
        /\ ~HasStar(cors.allow_headers.value)
        /\ ~HasStar(cors.expose_headers)
===============================================================================
