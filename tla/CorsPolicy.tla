------------------------------ MODULE CorsPolicy ------------------------------
(***************************************************************************)
(* The pure part of the middleware: what a request looks like to it, what  *)
(* each configuration knob answers, and how the answers become the headers *)
(* of a response.  Nothing here has state; CorsFuture and CorsBuilder do.  *)
(*                                                                         *)
(* A header value is the set of the tokens in it: `Origin: a b' is         *)
(* {"a", "b"}, `*' is Wildcard, an empty value is {}.  The order and the   *)
(* separators of a value are not modelled.  Absent is Rust's None.         *)
(***************************************************************************)
EXTENDS Naturals, Sequences

CONSTANTS
    Absent,         \* None: no header, no service handle, no answer yet
    Tokens,         \* every token a header value may hold
    HttpTokens      \* those of them that util.rs::is_valid_token accepts

\* What every knob may emit whatever the request: `*', `true', the names in Vary.
FixedTokens == {"*", "true", "Origin", "ACRM", "ACRH"}

ASSUME TokensAssumption == FixedTokens \cup HttpTokens \subseteq Tokens
ASSUME AbsentAssumption == \A v \in SUBSET Tokens : Absent # v

Value    == SUBSET Tokens
OptValue == Value \cup {Absent}
Wildcard == {"*"}

(***************************************************************************)
(* Requests and the headers of a response.                                 *)
(***************************************************************************)

Request == [method : {"OPTIONS", "GET"}, origin : OptValue, acrm : OptValue,
            acrh : OptValue, sec_websocket_version : BOOLEAN]

HasOrigin(q) == q.origin # Absent

is_preflight_request(q) == q.method = "OPTIONS" /\ q.acrm # Absent

is_websocket_upgrade_request(q) == q.sec_websocket_version

\* ACA-Origin, -Credentials, -Methods, -Headers, ACE-Headers, AC-Max-Age.
CorsHeader == {"ACAO", "ACAC", "ACAM", "ACAH", "ACEH", "ACMA"}
HeaderName == CorsHeader \cup {"Vary"}

HeaderMap == [HeaderName -> OptValue]
NoHeaders == [n \in HeaderName |-> Absent]

(***************************************************************************)
(* The configuration: one field per field of CorsBuilder.                  *)
(***************************************************************************)

AllowOrigin == [kind : {"Const", "List", "MirrorRequest", "Predicate", "AsyncPredicate"},
                value : Value]
Mirrorable  == [kind : {"Const", "MirrorRequest"}, value : OptValue]

Config == [allow_origin      : AllowOrigin,
           allow_credentials : {"Yes", "No", "Predicate"},
           allow_methods     : Mirrorable,
           allow_headers     : Mirrorable,
           expose_headers    : OptValue,
           max_age           : OptValue,
           vary              : OptValue,
           vary_pinned       : BOOLEAN,
           deliver_preflight : BOOLEAN,
           deliver_non_allowed_origin : BOOLEAN,
           deliver_non_allowed_origin_websocket_upgrade : BOOLEAN,
           rejection_status  : Nat]

(***************************************************************************)
(* The constructors of the knobs.  One that panics has the value Absent.   *)
(* Names are lists without repetition, so their order is left out.         *)
(***************************************************************************)

separated_by_commas(names) == IF names = {} THEN Absent ELSE names

AllowOrigin_any == [kind |-> "Const", value |-> Wildcard]

\* Panics on `*', which any() is for.
AllowOrigin_exact(origin) ==
    IF origin = Wildcard THEN Absent ELSE [kind |-> "Const", value |-> origin]

\* Mutant: the assertion is forgotten.
AllowOrigin_list_Unchecked(origins) == [kind |-> "List", value |-> origins]

\* Panics if `*' is among the origins.
AllowOrigin_list(origins) ==
    IF "*" \in origins THEN Absent ELSE [kind |-> "List", value |-> origins]

\* The predicates look the origin up in the application's table.
AllowOrigin_predicate == [kind |-> "Predicate", value |-> {}]
AllowOrigin_async_predicate == [kind |-> "AsyncPredicate", value |-> {}]
AllowOrigin_mirror_request == [kind |-> "MirrorRequest", value |-> {}]

AllowMethods_any == [kind |-> "Const", value |-> Wildcard]
AllowMethods_list(methods) ==
    [kind |-> "Const", value |-> separated_by_commas(methods)]
AllowMethods_mirror_request == [kind |-> "MirrorRequest", value |-> Absent]

AllowHeaders_any == [kind |-> "Const", value |-> Wildcard]
AllowHeaders_list(headers) ==
    [kind |-> "Const", value |-> separated_by_commas(headers)]
AllowHeaders_mirror_request == [kind |-> "MirrorRequest", value |-> Absent]

ExposeHeaders_any == Wildcard
ExposeHeaders_list(headers) == separated_by_commas(headers)

AllowCredentials_from(yes) == IF yes THEN "Yes" ELSE "No"
AllowCredentials_predicate == "Predicate"

\* A whole number of seconds is one token.
MaxAge_exact(seconds) == {seconds}

join_names(names) == IF names = {} THEN Absent ELSE names
Vary_list(names) == join_names(names)
Vary_default == Vary_list({"Origin", "ACRM", "ACRH"})

\* CorsBuilder::default.
Default ==
    [allow_origin      |-> AllowOrigin_list({}),
     allow_credentials |-> "No",
     allow_methods     |-> AllowMethods_mirror_request,
     allow_headers     |-> AllowHeaders_mirror_request,
     expose_headers    |-> Absent,
     max_age           |-> Absent,
     vary              |-> Vary_default,
     vary_pinned       |-> FALSE,
     deliver_preflight |-> FALSE,
     deliver_non_allowed_origin |-> TRUE,
     deliver_non_allowed_origin_websocket_upgrade |-> FALSE,
     rejection_status  |-> 400]

\* The literal `*' the validation looks for: a configured value, never a mirrored one.
is_wildcard(knob) == knob.kind = "Const" /\ knob.value = Wildcard

\* Mutant: the exposed headers are not looked at.
validate_ExposeUnchecked(c) ==
    c.allow_credentials = "Yes" =>
        ~is_wildcard(c.allow_origin) /\ ~is_wildcard(c.allow_methods)
            /\ ~is_wildcard(c.allow_headers)

validate(c) ==
    c.allow_credentials = "Yes" =>
        /\ ~is_wildcard(c.allow_origin)
        /\ ~is_wildcard(c.allow_methods)
        /\ ~is_wildcard(c.allow_headers)
        /\ c.expose_headers # Wildcard

\* Mutant: a mirrored method is not named in Vary.
derived_vary_WithoutMethod(c) ==
    {"Origin"} \cup (IF c.allow_headers.kind = "MirrorRequest" THEN {"ACRH"} ELSE {})

derived_vary(c) ==
    {"Origin"}
        \cup (IF c.allow_methods.kind = "MirrorRequest" THEN {"ACRM"} ELSE {})
        \cup (IF c.allow_headers.kind = "MirrorRequest" THEN {"ACRH"} ELSE {})

\* Mutant: a pinned Vary is derived anew.
update_vary_IgnoresPin(c) == [c EXCEPT !.vary = Vary_list(derived_vary(c))]

update_vary(c) ==
    IF c.vary_pinned THEN c ELSE [c EXCEPT !.vary = Vary_list(derived_vary(c))]

(***************************************************************************)
(* The origin verdict.  `table' is the application's own table of header   *)
(* values, the one its predicates look a request up in (Tenants in         *)
(* examples/multitenant.rs).                                               *)
(***************************************************************************)

\* Mutants: one listed token is enough; no token is needed.
origin_list_matches_AnyToken(allowed, origin) == \E o \in origin : o \in allowed
origin_list_matches_NoToken(allowed, origin) == origin \subseteq allowed

\* Every token must be listed, and there must be one.
origin_list_matches(allowed, origin) == origin # {} /\ origin \subseteq allowed

\* What the policy answers for an origin while the table is `table'.
Allows(policy, table, origin) ==
    \/ policy.kind = "Const"
    \/ /\ origin # Absent
       /\ \/ policy.kind = "List" /\ origin_list_matches(policy.value, origin)
          \/ policy.kind = "MirrorRequest"
          \/ policy.kind \in {"Predicate", "AsyncPredicate"} /\ origin \in table

\* The Access-Control-Allow-Origin value of an allowed request.
AllowedValue(policy, origin) ==
    IF policy.kind = "Const" THEN policy.value ELSE origin

OriginFuture == [state : {"Ready", "Pending"}, res : OptValue]

\* Mutant: one listed token is enough.
to_future_AnyToken(policy, table, origin) ==
    IF policy.kind = "AsyncPredicate" /\ origin # Absent
    THEN [state |-> "Pending", res |-> Absent]
    ELSE [state |-> "Ready",
          res   |-> IF \/ Allows(policy, table, origin)
                       \/ policy.kind = "List" /\ origin # Absent
                              /\ origin \cap policy.value # {}
                    THEN AllowedValue(policy, origin) ELSE Absent]

\* An asynchronous policy has an opinion on requests with an Origin only.
to_future(policy, table, origin) ==
    IF policy.kind = "AsyncPredicate" /\ origin # Absent
    THEN [state |-> "Pending", res |-> Absent]
    ELSE [state |-> "Ready",
          res   |-> IF Allows(policy, table, origin)
                    THEN AllowedValue(policy, origin) ELSE Absent]

(***************************************************************************)
(* The headers each knob contributes, and the buffer they are collected in.*)
(***************************************************************************)

credentials_header(c, table, q) ==
    IF \/ c.allow_credentials = "Yes"
       \/ c.allow_credentials = "Predicate" /\ HasOrigin(q) /\ q.origin \in table
    THEN {"true"} ELSE Absent

methods_header(c, q) ==
    IF c.allow_methods.kind = "Const" THEN c.allow_methods.value
    ELSE IF \E t \in HttpTokens : q.acrm = {t} THEN q.acrm
    ELSE Absent

headers_header(c, q) ==
    IF c.allow_headers.kind = "Const" THEN c.allow_headers.value
    ELSE IF q.acrh # Absent /\ q.acrh \cap HttpTokens # {} THEN q.acrh \cap HttpTokens
    ELSE Absent

expose_header(c)  == c.expose_headers
max_age_header(c) == c.max_age
vary_header(c)    == c.vary

CAPACITY == 6

Buffer == Seq(HeaderName \X Value)

push_opt(buf, name, value) ==
    IF value = Absent THEN buf ELSE Append(buf, <<name, value>>)

\* What every CORS-shaped response carries, whatever the verdict.
common_headers(c) == push_opt(<<>>, "Vary", vary_header(c))

\* Mutant: a preflight gets the headers of a simple request as well.
compute_into_Both(c, table, q, preflight, buf) ==
    LET creds == push_opt(buf, "ACAC", credentials_header(c, table, q))
        meths == push_opt(creds, "ACAM", methods_header(c, q))
        hdrs  == push_opt(meths, "ACAH", headers_header(c, q))
        age   == push_opt(hdrs, "ACMA", max_age_header(c))
    IN  push_opt(IF preflight THEN age ELSE creds, "ACEH", expose_header(c))

compute_into(c, table, q, preflight, buf) ==
    LET creds == push_opt(buf, "ACAC", credentials_header(c, table, q))
        meths == push_opt(creds, "ACAM", methods_header(c, q))
        hdrs  == push_opt(meths, "ACAH", headers_header(c, q))
    IN  IF preflight THEN push_opt(hdrs, "ACMA", max_age_header(c))
        ELSE push_opt(creds, "ACEH", expose_header(c))

\* Mutant: Vary overwrites the target's like any other header.
merge_headers_Overwrites(target, buf) ==
    [n \in HeaderName |->
        LET at   == {i \in 1..Len(buf) : buf[i][1] = n}
            last == {i \in at : \A j \in at : j <= i}
        IN  IF at = {} THEN target[n] ELSE UNION {buf[i][2] : i \in last}]

\* Vary is appended to the target's, without its duplicates; any other header
\* overwrites the target's, the last of its name in the buffer if there are two.
merge_headers(target, buf) ==
    [n \in HeaderName |->
        LET at   == {i \in 1..Len(buf) : buf[i][1] = n}
            last == {i \in at : \A j \in at : j <= i}
            mine == UNION {buf[i][2] : i \in IF n = "Vary" THEN at ELSE last}
        IN  IF at = {} THEN target[n]
            ELSE IF n = "Vary" /\ target[n] # Absent THEN target[n] \cup mine
            ELSE mine]
===============================================================================
