-------------------------- MODULE CorsBuilderProofs ---------------------------
(***************************************************************************)
(* Proofs about CorsBuilder, for every set of arguments, any number of     *)
(* edits, and every request a configuration may be judged by.              *)
(***************************************************************************)
EXTENDS CorsBuilder, CorsPolicyProofs

(***************************************************************************)
(* The inductive invariant.                                                *)
(***************************************************************************)

\* The assertions of AllowOrigin::list and exact, which validate relies on without looking:
\* `*' is no listed origin, and a fixed one holds it only if it is all of it.
Checked(policy) ==
    /\ policy.kind = "List" => "*" \notin policy.value
    /\ policy.kind = "Const" => policy.value = Wildcard \/ "*" \notin policy.value

OriginIsChecked(c) == Checked(c.allow_origin)

BuilderInv ==
    builder # Absent =>
        /\ OriginIsChecked(builder)
        /\ pin.set => builder.vary = pin.names

CorsInv ==
    cors # Absent =>
        /\ validate(cors) /\ OriginIsChecked(cors)
        /\ IF cors.vary_pinned THEN cors.vary = pinned.names
           ELSE cors.vary = derived_vary(cors)

IInv == TypeOK /\ BuilderInv /\ CorsInv

(***************************************************************************)
(* Arguments and configurations have their types.                          *)
(***************************************************************************)

\* What a constructor that does not panic makes is a checked policy.
LEMMA OriginArgumentFacts ==
    ASSUME NEW p \in OriginArguments, p # Absent
    PROVE  /\ p \in AllowOrigin
           /\ Checked(p)
<1>1. Wildcard \in Value /\ {} \in Value /\ \A l \in SUBSET Origins : l \in Value
  BY ValueFacts, ArgumentsAssumption DEF Value
<1>2. CASE \E o \in Origins : p = AllowOrigin_exact({o})
  BY <1>1, <1>2 DEF AllowOrigin_exact, AllowOrigin, Checked, Wildcard
<1>3. CASE \E l \in SUBSET Origins : p = AllowOrigin_list(l)
  BY <1>1, <1>3 DEF AllowOrigin_list, AllowOrigin, Checked
<1>4. CASE p \in {AllowOrigin_any, AllowOrigin_mirror_request, AllowOrigin_predicate,
                  AllowOrigin_async_predicate}
  BY <1>1, <1>4 DEF AllowOrigin_any, AllowOrigin_mirror_request, AllowOrigin_predicate,
                    AllowOrigin_async_predicate, AllowOrigin, Checked
<1>5. QED
  BY <1>2, <1>3, <1>4 DEF OriginArguments

\* A list of names becomes a header value or none.
LEMMA JoinedTypes ==
    ASSUME NEW names \in SUBSET Tokens
    PROVE  separated_by_commas(names) \in OptValue /\ join_names(names) \in OptValue
  BY DEF separated_by_commas, join_names, OptValue, Value

\* CorsBuilder::default has its type, an empty list of origins and no pin.
LEMMA DefaultFacts ==
    Default \in Config /\ OriginIsChecked(Default) /\ ~Default.vary_pinned
<1>1. /\ AllowOrigin_list({}) = [kind |-> "List", value |-> {}]
      /\ AllowOrigin_list({}) \in AllowOrigin
  BY DEF AllowOrigin_list, AllowOrigin, Value
<1>2. AllowMethods_mirror_request \in Mirrorable /\ AllowHeaders_mirror_request \in Mirrorable
  BY DEF AllowMethods_mirror_request, AllowHeaders_mirror_request, Mirrorable, OptValue
<1>3. Vary_default \in OptValue
  BY JoinedTypes, TokensAssumption DEF Vary_default, Vary_list, FixedTokens
<1>4. Absent \in OptValue
  BY DEF OptValue
<1>5. QED
  BY <1>1, <1>2, <1>3, <1>4 DEF Default, Config, OriginIsChecked, Checked

\* validate looks at no field update_vary writes, and the Vary it leaves is the pinned
\* one or the derived one.
LEMMA BuiltFacts ==
    ASSUME NEW c \in Config
    PROVE  /\ update_vary(c) \in Config
           /\ update_vary(c).vary_pinned = c.vary_pinned
           /\ validate(c) => validate(update_vary(c))
           /\ OriginIsChecked(c) => OriginIsChecked(update_vary(c))
           /\ c.vary_pinned => update_vary(c) = c
           /\ ~c.vary_pinned => update_vary(c).vary = derived_vary(update_vary(c))
<1> DEFINE u == update_vary(c)
<1>1. u \in Config
  BY UpdateVaryType
<1>2. c.vary_pinned => u = c
  BY DEF update_vary
<1>3. /\ u.vary_pinned = c.vary_pinned /\ u.allow_origin = c.allow_origin
      /\ u.allow_methods = c.allow_methods /\ u.allow_headers = c.allow_headers
      /\ u.expose_headers = c.expose_headers /\ u.allow_credentials = c.allow_credentials
  BY DEF update_vary, Config
<1>4. ~c.vary_pinned => u.vary = derived_vary(c)
  <2>1. derived_vary(c) # {}
    BY DEF derived_vary
  <2>2. QED
    BY <2>1 DEF update_vary, Vary_list, join_names, Config
<1> HIDE DEF u
<1>5. validate(c) => validate(u)
  BY <1>3 DEF validate, is_wildcard
<1>6. OriginIsChecked(c) => OriginIsChecked(u)
  BY <1>3 DEF OriginIsChecked
<1>7. derived_vary(u) = derived_vary(c)
  BY <1>3 DEF derived_vary
<1>8. QED
  BY <1>1, <1>2, <1>3, <1>4, <1>5, <1>6, <1>7 DEF u

(***************************************************************************)
(* The steps.                                                              *)
(***************************************************************************)

\* The invariant holds of a new builder.
LEMMA InitInv == Init => IInv
<1> SUFFICES ASSUME Init PROVE IInv
  OBVIOUS
<1>1. TypeOK
  <2>1. NoPin \in [set : BOOLEAN, names : OptValue]
    BY DEF NoPin, OptValue
  <2>2. NoPin.set = FALSE /\ Default.vary_pinned = FALSE
    BY DefaultFacts DEF NoPin, Config
  <2>3. 0 \in 0..MaxEdits
    BY ArgumentsAssumption
  <2>4. /\ builder = Default /\ cors = Absent /\ pin = NoPin /\ pinned = NoPin /\ edits = 0
    BY DEF Init
  <2>5. QED
    BY <2>1, <2>2, <2>3, <2>4, DefaultFacts DEF TypeOK
<1>2. BuilderInv /\ CorsInv
  BY DefaultFacts DEF Init, BuilderInv, CorsInv, NoPin
<1>3. QED
  BY <1>1, <1>2 DEF IInv

\* A setter that changes a knob other than Vary keeps the pin.
LEMMA SetterInv ==
    ASSUME IInv, NEW new, Becomes(new), UNCHANGED pin,
           builder # Absent /\ new # Absent =>
               /\ new \in Config /\ OriginIsChecked(new)
               /\ new.vary = builder.vary /\ new.vary_pinned = builder.vary_pinned
    PROVE  IInv'
<1>1. /\ builder # Absent /\ builder' = new /\ cors' = cors /\ pinned' = pinned
      /\ pin' = pin /\ edits' = edits + 1 /\ edits < MaxEdits
  BY DEF Becomes
<1>2. edits' \in 0..MaxEdits
  BY <1>1, ArgumentsAssumption DEF IInv, TypeOK
<1>3. TypeOK'
  BY <1>1, <1>2 DEF IInv, TypeOK
<1>4. BuilderInv'
  BY <1>1 DEF IInv, BuilderInv
<1>5. CorsInv'
  BY <1>1 DEF IInv, CorsInv
<1>6. QED
  BY <1>3, <1>4, <1>5 DEF IInv

\* One lemma for the setters, one knob after the other.
LEMMA KnobsInv ==
    ASSUME IInv,
           \/ SetOrigin \/ SetCredentials \/ SetMethods \/ SetHeaders \/ SetExposed
           \/ SetMaxAge \/ SetDeliverPreflight \/ SetDeliverNonAllowed
           \/ SetDeliverUpgrade \/ SetStatus
    PROVE  IInv'
<1>1. builder # Absent => builder \in Config /\ OriginIsChecked(builder)
  BY DEF IInv, TypeOK, BuilderInv
<1>2. CASE SetOrigin
  <2>1. PICK p \in OriginArguments :
            /\ Becomes(IF p = Absent THEN Absent ELSE [builder EXCEPT !.allow_origin = p])
            /\ UNCHANGED pin
    BY <1>2 DEF SetOrigin
  <2> DEFINE new == IF p = Absent THEN Absent ELSE [builder EXCEPT !.allow_origin = p]
  <2>2. builder # Absent /\ p # Absent =>
            /\ new \in Config /\ OriginIsChecked(new)
            /\ new.vary = builder.vary /\ new.vary_pinned = builder.vary_pinned
    BY <1>1, OriginArgumentFacts DEF Config, OriginIsChecked
  <2>3. QED
    BY <2>1, <2>2, SetterInv
<1>3. CASE SetCredentials
  <2>1. PICK c \in {"Yes", "No", "Predicate"} :
            Becomes([builder EXCEPT !.allow_credentials = c]) /\ UNCHANGED pin
    BY <1>3 DEF SetCredentials, AllowCredentials_from, AllowCredentials_predicate
  <2> DEFINE new == [builder EXCEPT !.allow_credentials = c]
  <2>2. builder # Absent =>
            /\ new \in Config /\ OriginIsChecked(new)
            /\ new.vary = builder.vary /\ new.vary_pinned = builder.vary_pinned
    BY <1>1 DEF Config, OriginIsChecked
  <2>3. QED
    BY <2>1, <2>2, SetterInv
<1>4. CASE SetMethods
  <2>1. PICK m \in {AllowMethods_any, AllowMethods_mirror_request}
                       \cup {AllowMethods_list(l) : l \in SUBSET Methods} :
            Becomes([builder EXCEPT !.allow_methods = m]) /\ UNCHANGED pin
    BY <1>4 DEF SetMethods
  <2>2. m \in Mirrorable
    BY JoinedTypes, ValueFacts, ArgumentsAssumption
       DEF AllowMethods_any, AllowMethods_mirror_request, AllowMethods_list,
           Mirrorable, OptValue
  <2> DEFINE new == [builder EXCEPT !.allow_methods = m]
  <2>3. builder # Absent =>
            /\ new \in Config /\ OriginIsChecked(new)
            /\ new.vary = builder.vary /\ new.vary_pinned = builder.vary_pinned
    BY <1>1, <2>2 DEF Config, OriginIsChecked
  <2>4. QED
    BY <2>1, <2>3, SetterInv
<1>5. CASE SetHeaders
  <2>1. PICK h \in {AllowHeaders_any, AllowHeaders_mirror_request}
                       \cup {AllowHeaders_list(l) : l \in SUBSET Headers} :
            Becomes([builder EXCEPT !.allow_headers = h]) /\ UNCHANGED pin
    BY <1>5 DEF SetHeaders
  <2>2. h \in Mirrorable
    BY JoinedTypes, ValueFacts, ArgumentsAssumption
       DEF AllowHeaders_any, AllowHeaders_mirror_request, AllowHeaders_list,
           Mirrorable, OptValue
  <2> DEFINE new == [builder EXCEPT !.allow_headers = h]
  <2>3. builder # Absent =>
            /\ new \in Config /\ OriginIsChecked(new)
            /\ new.vary = builder.vary /\ new.vary_pinned = builder.vary_pinned
    BY <1>1, <2>2 DEF Config, OriginIsChecked
  <2>4. QED
    BY <2>1, <2>3, SetterInv
<1>6. CASE SetExposed
  <2>1. PICK e \in {ExposeHeaders_any} \cup {ExposeHeaders_list(l) : l \in SUBSET Exposed} :
            Becomes([builder EXCEPT !.expose_headers = e]) /\ UNCHANGED pin
    BY <1>6 DEF SetExposed
  <2>2. e \in OptValue
    BY JoinedTypes, ValueFacts, ArgumentsAssumption
       DEF ExposeHeaders_any, ExposeHeaders_list, OptValue
  <2> DEFINE new == [builder EXCEPT !.expose_headers = e]
  <2>3. builder # Absent =>
            /\ new \in Config /\ OriginIsChecked(new)
            /\ new.vary = builder.vary /\ new.vary_pinned = builder.vary_pinned
    BY <1>1, <2>2 DEF Config, OriginIsChecked
  <2>4. QED
    BY <2>1, <2>3, SetterInv
<1>7. CASE SetMaxAge
  <2>1. PICK s \in Seconds :
            Becomes([builder EXCEPT !.max_age = MaxAge_exact(s)]) /\ UNCHANGED pin
    BY <1>7 DEF SetMaxAge
  <2>2. MaxAge_exact(s) \in OptValue
    BY ArgumentsAssumption DEF MaxAge_exact, OptValue, Value
  <2> DEFINE new == [builder EXCEPT !.max_age = MaxAge_exact(s)]
  <2>3. builder # Absent =>
            /\ new \in Config /\ OriginIsChecked(new)
            /\ new.vary = builder.vary /\ new.vary_pinned = builder.vary_pinned
    BY <1>1, <2>2 DEF Config, OriginIsChecked
  <2>4. QED
    BY <2>1, <2>3, SetterInv
<1>8. CASE SetDeliverPreflight
  <2>1. PICK b \in BOOLEAN :
            Becomes([builder EXCEPT !.deliver_preflight = b]) /\ UNCHANGED pin
    BY <1>8 DEF SetDeliverPreflight
  <2> DEFINE new == [builder EXCEPT !.deliver_preflight = b]
  <2>2. builder # Absent =>
            /\ new \in Config /\ OriginIsChecked(new)
            /\ new.vary = builder.vary /\ new.vary_pinned = builder.vary_pinned
    BY <1>1 DEF Config, OriginIsChecked
  <2>3. QED
    BY <2>1, <2>2, SetterInv
<1>9. CASE SetDeliverNonAllowed
  <2>1. PICK b \in BOOLEAN :
            Becomes([builder EXCEPT !.deliver_non_allowed_origin = b]) /\ UNCHANGED pin
    BY <1>9 DEF SetDeliverNonAllowed
  <2> DEFINE new == [builder EXCEPT !.deliver_non_allowed_origin = b]
  <2>2. builder # Absent =>
            /\ new \in Config /\ OriginIsChecked(new)
            /\ new.vary = builder.vary /\ new.vary_pinned = builder.vary_pinned
    BY <1>1 DEF Config, OriginIsChecked
  <2>3. QED
    BY <2>1, <2>2, SetterInv
<1>10. CASE SetDeliverUpgrade
  <2>1. PICK b \in BOOLEAN :
            /\ Becomes([builder EXCEPT !.deliver_non_allowed_origin_websocket_upgrade = b])
            /\ UNCHANGED pin
    BY <1>10 DEF SetDeliverUpgrade
  <2> DEFINE new == [builder EXCEPT !.deliver_non_allowed_origin_websocket_upgrade = b]
  <2>2. builder # Absent =>
            /\ new \in Config /\ OriginIsChecked(new)
            /\ new.vary = builder.vary /\ new.vary_pinned = builder.vary_pinned
    BY <1>1 DEF Config, OriginIsChecked
  <2>3. QED
    BY <2>1, <2>2, SetterInv
<1>11. CASE SetStatus
  <2>1. PICK s \in Statuses :
            Becomes([builder EXCEPT !.rejection_status = s]) /\ UNCHANGED pin
    BY <1>11 DEF SetStatus
  <2> DEFINE new == [builder EXCEPT !.rejection_status = s]
  <2>2. builder # Absent =>
            /\ new \in Config /\ OriginIsChecked(new)
            /\ new.vary = builder.vary /\ new.vary_pinned = builder.vary_pinned
    BY <1>1, ArgumentsAssumption DEF Config, OriginIsChecked
  <2>3. QED
    BY <2>1, <2>2, SetterInv
<1>12. QED
  BY <1>2, <1>3, <1>4, <1>5, <1>6, <1>7, <1>8, <1>9, <1>10, <1>11

\* vary() pins.
LEMMA SetVaryInv ==
    ASSUME IInv, SetVary
    PROVE  IInv'
<1>1. PICK names \in SUBSET Varies :
          /\ Becomes([builder EXCEPT !.vary = Vary_list(names), !.vary_pinned = TRUE])
          /\ pin' = Pin(Vary_list(names))
  BY DEF SetVary
<1> DEFINE new == [builder EXCEPT !.vary = Vary_list(names), !.vary_pinned = TRUE]
<1>2. /\ builder # Absent /\ builder' = new /\ cors' = cors /\ pinned' = pinned
      /\ edits' = edits + 1 /\ edits < MaxEdits
  BY <1>1 DEF Becomes
<1>3. Vary_list(names) \in OptValue
  BY JoinedTypes, ArgumentsAssumption DEF Vary_list
<1>4. builder \in Config /\ OriginIsChecked(builder)
  BY <1>2 DEF IInv, TypeOK, BuilderInv
<1>5. /\ new \in Config /\ OriginIsChecked(new)
      /\ new.vary = Vary_list(names) /\ new.vary_pinned = TRUE
  BY <1>3, <1>4 DEF Config, OriginIsChecked
<1> HIDE DEF new
<1>6. /\ pin' \in [set : BOOLEAN, names : OptValue]
      /\ pin'.set = TRUE /\ pin'.names = Vary_list(names)
  BY <1>1, <1>3 DEF Pin
<1>7. edits' \in 0..MaxEdits
  BY <1>2, ArgumentsAssumption DEF IInv, TypeOK
<1>8. new # Absent
  BY <1>5, NoBuilderAssumption
<1>9. TypeOK'
  BY <1>2, <1>5, <1>6, <1>7, <1>8 DEF IInv, TypeOK
<1>10. BuilderInv' /\ CorsInv'
  BY <1>2, <1>5, <1>6 DEF IInv, BuilderInv, CorsInv
<1>11. QED
  BY <1>9, <1>10 DEF IInv

\* What is built is validated, with its Vary pinned or derived.
LEMMA TryBuildInv ==
    ASSUME IInv, TryBuild
    PROVE  IInv'
<1>1. /\ builder # Absent /\ builder \in Config /\ OriginIsChecked(builder)
      /\ pin.set = builder.vary_pinned /\ (pin.set => builder.vary = pin.names)
  <2>1. builder # Absent /\ builder \in Config
    BY DEF IInv, TypeOK, TryBuild
  <2>2. pin.set \in BOOLEAN /\ builder.vary_pinned \in BOOLEAN
    BY <2>1 DEF IInv, TypeOK, Config
  <2>3. pin.set <=> builder.vary_pinned
    BY <2>1 DEF IInv, TypeOK
  <2>4. OriginIsChecked(builder) /\ (pin.set => builder.vary = pin.names)
    BY <2>1 DEF IInv, BuilderInv
  <2>5. QED
    BY <2>1, <2>2, <2>3, <2>4
<1>2. builder' = Absent /\ pin' = pin /\ edits' = edits
  BY DEF TryBuild
<1>3. CASE validate(builder)
  <2>1. cors' = update_vary(builder) /\ pinned' = pin
    BY <1>3 DEF TryBuild
  <2>2. /\ cors' \in Config /\ cors'.vary_pinned = builder.vary_pinned
        /\ validate(cors') /\ OriginIsChecked(cors')
        /\ builder.vary_pinned => cors'.vary = builder.vary
        /\ ~builder.vary_pinned => cors'.vary = derived_vary(cors')
    BY <1>1, <1>3, <2>1, BuiltFacts
  <2>3. cors' # Absent
    BY <2>2, NoBuilderAssumption
  <2>4. builder.vary_pinned \in BOOLEAN
    BY <1>1 DEF Config
  <2>5. TypeOK'
    BY <1>1, <1>2, <2>1, <2>2, <2>3 DEF IInv, TypeOK
  <2>6. validate(cors)' /\ OriginIsChecked(cors)' /\ derived_vary(cors)' = derived_vary(cors')
    BY <2>2 DEF validate, is_wildcard, OriginIsChecked, derived_vary
  <2>7. BuilderInv' /\ CorsInv'
    BY <1>1, <1>2, <2>1, <2>2, <2>4, <2>6 DEF BuilderInv, CorsInv
  <2>8. QED
    BY <2>5, <2>7 DEF IInv
<1>4. CASE ~validate(builder)
  <2>1. cors' = cors /\ pinned' = pinned
    BY <1>4 DEF TryBuild
  <2>2. QED
    BY <1>2, <2>1 DEF IInv, TypeOK, BuilderInv, CorsInv
<1>5. QED
  BY <1>3, <1>4

\* A builder taken from nothing, or from the configuration being served.
LEMMA NewBuilderInv ==
    ASSUME IInv, New \/ CloneConfig
    PROVE  IInv'
<1>1. CASE New
  <2>1. /\ builder' = Default /\ pin' = NoPin /\ cors' = cors
        /\ pinned' = pinned /\ edits' = edits
    BY <1>1 DEF New
  <2>2. /\ NoPin \in [set : BOOLEAN, names : OptValue] /\ NoPin.set = FALSE
        /\ Default.vary_pinned = FALSE
    BY DefaultFacts DEF NoPin, OptValue, Config
  <2>3. TypeOK'
    BY <2>1, <2>2, DefaultFacts DEF IInv, TypeOK
  <2>4. BuilderInv' /\ CorsInv'
    BY <2>1, <2>2, DefaultFacts DEF IInv, BuilderInv, CorsInv
  <2>5. QED
    BY <2>3, <2>4 DEF IInv
<1>2. CASE CloneConfig
  <2>1. /\ cors # Absent /\ builder' = cors /\ pin' = pinned /\ cors' = cors
        /\ pinned' = pinned /\ edits' = edits
    BY <1>2 DEF CloneConfig
  <2>2. TypeOK'
    BY <2>1 DEF IInv, TypeOK
  <2>3. BuilderInv' /\ CorsInv'
    BY <2>1 DEF IInv, TypeOK, BuilderInv, CorsInv
  <2>4. QED
    BY <2>2, <2>3 DEF IInv
<1>3. QED
  BY <1>1, <1>2

\* Every step keeps it.
LEMMA NextInv == IInv /\ [Next]_vars => IInv'
<1> SUFFICES ASSUME IInv, [Next]_vars PROVE IInv'
  OBVIOUS
<1>1. CASE UNCHANGED vars
  BY <1>1 DEF vars, IInv, TypeOK, BuilderInv, CorsInv
<1>2. CASE SetVary
  BY <1>2, SetVaryInv
<1>3. CASE TryBuild
  BY <1>3, TryBuildInv
<1>4. CASE New \/ CloneConfig
  BY <1>4, NewBuilderInv
<1>5. CASE \/ SetOrigin \/ SetCredentials \/ SetMethods \/ SetHeaders \/ SetExposed
           \/ SetMaxAge \/ SetDeliverPreflight \/ SetDeliverNonAllowed
           \/ SetDeliverUpgrade \/ SetStatus
  BY <1>5, KnobsInv
<1>6. QED
  BY <1>1, <1>2, <1>3, <1>4, <1>5 DEF Next

\* It holds in every reachable state.
LEMMA SpecInv == Spec => []IInv
  BY InitInv, NextInv, PTL DEF Spec

(***************************************************************************)
(* The headers a configuration makes.                                      *)
(***************************************************************************)

\* A header of HeadersFor is the allowed origin or what one of the knobs answers.
LEMMA HeadersForFacts ==
    ASSUME cors \in Config, NEW q \in Request, NEW t,
           NEW n \in {"ACAO", "ACAM", "ACAH", "ACEH"},
           NEW v, v # Absent, HeadersFor(q, t)[n] = v
    PROVE  \/ /\ n = "ACAO"
              /\ Allows(cors.allow_origin, t, q.origin)
              /\ AllowedValue(cors.allow_origin, q.origin) = v
           \/ n = "ACAM" /\ methods_header(cors, q) = v
           \/ n = "ACAH" /\ headers_header(cors, q) = v
           \/ n = "ACEH" /\ expose_header(cors) = v
<1> DEFINE allowed   == Allows(cors.allow_origin, t, q.origin)
           lazy      == allowed \/ /\ is_preflight_request(q) /\ ~cors.deliver_preflight
                                   /\ ~HasOrigin(q)
           value     == IF allowed THEN AllowedValue(cors.allow_origin, q.origin) ELSE Absent
           acao      == push_opt(<<>>, "ACAO", value)
           preflight == is_preflight_request(q)
           filled    == compute_into(cors, t, q, preflight, acao)
           buf       == IF lazy THEN filled ELSE acao
<1>1. HeadersFor(q, t) = merge_headers(NoHeaders, buf)
  BY DEF HeadersFor
<1>2. value \in OptValue
  BY DEF Allows, AllowedValue, Config, AllowOrigin, Request, OptValue
<1>3. /\ <<>> \in Buffer /\ Distinct(<<>>) /\ Names(<<>>) = {} /\ Contents(<<>>) = {}
      /\ "ACAO" \in HeaderName
  BY DEF Buffer, Distinct, Names, Contents, HeaderName, CorsHeader
<1> HIDE DEF value
<1>4. /\ acao \in Buffer /\ Distinct(acao) /\ Names(acao) \subseteq {"ACAO"}
      /\ \A pair \in Contents(acao) : value # Absent /\ pair = <<"ACAO", value>>
  BY <1>2, <1>3, PushOptFacts, PushOptContents
<1>5. preflight \in BOOLEAN
  BY DEF is_preflight_request
<1> HIDE DEF acao, preflight
<1>6. filled \in Buffer /\ Distinct(filled)
  BY <1>4, <1>5, ComputeIntoType, ComputeIntoFacts
<1>7. \A pair \in Contents(filled) :
          \/ pair = <<"ACAO", value>>
          \/ pair = <<"ACAC", credentials_header(cors, t, q)>>
          \/ pair = <<"ACAM", methods_header(cors, q)>>
          \/ pair = <<"ACAH", headers_header(cors, q)>>
          \/ pair = <<"ACMA", max_age_header(cors)>>
          \/ pair = <<"ACEH", expose_header(cors)>>
  BY <1>4, <1>5, ComputeIntoContents
<1> HIDE DEF filled, lazy
<1>8. buf \in Buffer /\ Distinct(buf)
  BY <1>4, <1>6
<1>9. n \in CorsHeader
  BY DEF CorsHeader
<1>10. <<n, v>> \in Contents(buf)
  <2> HIDE DEF buf
  <2>1. QED
    BY <1>1, <1>8, <1>9, MergedIsHeld
<1>11. \/ <<n, v>> = <<"ACAO", value>>
       \/ <<n, v>> = <<"ACAC", credentials_header(cors, t, q)>>
       \/ <<n, v>> = <<"ACAM", methods_header(cors, q)>>
       \/ <<n, v>> = <<"ACAH", headers_header(cors, q)>>
       \/ <<n, v>> = <<"ACMA", max_age_header(cors)>>
       \/ <<n, v>> = <<"ACEH", expose_header(cors)>>
  BY <1>4, <1>7, <1>10
<1>12. n = "ACAO" => value = v
  BY <1>11
<1>13. value = v => allowed /\ AllowedValue(cors.allow_origin, q.origin) = v
  BY DEF value
<1>14. QED
  BY <1>11, <1>12, <1>13

\* With credentials for everyone, only an echo can be a wildcard, or name `*' as an origin.
LEMMA WildcardIsMirrored ==
    ASSUME cors \in Config, validate(cors), OriginIsChecked(cors),
           cors.allow_credentials = "Yes", NEW q \in Request, NEW t,
           NEW n \in {"ACAO", "ACAM", "ACAH", "ACEH"}, NEW v, HeadersFor(q, t)[n] = v,
           v = Wildcard \/ (n = "ACAO" /\ HasStar(v))
    PROVE  Mirrored(q, n)
<1>1. /\ ~is_wildcard(cors.allow_origin) /\ ~is_wildcard(cors.allow_methods)
      /\ ~is_wildcard(cors.allow_headers) /\ cors.expose_headers # Wildcard
  BY DEF validate
<1>2. /\ cors.allow_origin \in AllowOrigin /\ cors.allow_methods \in Mirrorable
      /\ cors.allow_headers \in Mirrorable
  BY DEF Config
<1>3. v # Absent /\ "*" \in v
  BY ValueFacts DEF HasStar, Wildcard
<1>4. CASE /\ n = "ACAO"
           /\ Allows(cors.allow_origin, t, q.origin)
           /\ AllowedValue(cors.allow_origin, q.origin) = v
  <2>1. Checked(cors.allow_origin)
    BY DEF OriginIsChecked
  <2>2. cors.allow_origin.kind # "Const"
    BY <1>1, <1>3, <1>4, <2>1 DEF AllowedValue, is_wildcard, Checked
  <2>3. q.origin = v /\ HasStar(q.origin)
    BY <1>3, <1>4, <2>2 DEF AllowedValue, HasStar
  <2>4. cors.allow_origin.kind # "List"
    BY <1>3, <1>4, <2>1, <2>3 DEF Allows, origin_list_matches, Checked
  <2>5. QED
    BY <1>2, <1>4, <2>2, <2>3, <2>4 DEF Mirrored, AllowOrigin
<1>5. CASE n = "ACAM" /\ methods_header(cors, q) = v
  <2>1. v = Wildcard
    BY <1>5
  <2>2. cors.allow_methods.kind # "Const" /\ q.acrm = v
    BY <1>1, <1>3, <1>5, <2>1 DEF methods_header, is_wildcard
  <2>3. QED
    BY <1>2, <1>3, <1>5, <2>2 DEF Mirrored, Mirrorable, HasStar
<1>6. CASE n = "ACAH" /\ headers_header(cors, q) = v
  <2>1. v = Wildcard
    BY <1>6
  <2>2. /\ cors.allow_headers.kind # "Const"
        /\ q.acrh # Absent /\ q.acrh \cap HttpTokens = v
    BY <1>1, <1>3, <1>6, <2>1 DEF headers_header, is_wildcard
  <2>3. QED
    BY <1>2, <1>3, <1>6, <2>2 DEF Mirrored, Mirrorable, HasStar
<1>7. CASE n = "ACEH" /\ expose_header(cors) = v
  BY <1>1, <1>7 DEF expose_header
<1>8. QED
  BY <1>3, <1>4, <1>5, <1>6, <1>7, HeadersForFacts

\* Requests that agree on what the derived Vary names get the same headers.
LEMMA SameEntrySameHeaders ==
    ASSUME cors \in Config, cors.vary = derived_vary(cors),
           NEW q1 \in Request, NEW q2 \in Request, SharesCacheEntry(q1, q2), NEW t
    PROVE  HeadersFor(q1, t) = HeadersFor(q2, t)
<1>1. q1.origin = q2.origin /\ is_preflight_request(q1) = is_preflight_request(q2)
  BY DEF SharesCacheEntry, derived_vary
<1>2. HasOrigin(q1) = HasOrigin(q2)
  BY <1>1 DEF HasOrigin
<1>3. credentials_header(cors, t, q1) = credentials_header(cors, t, q2)
  BY <1>1, <1>2 DEF credentials_header
<1>4. methods_header(cors, q1) = methods_header(cors, q2)
  <2>1. cors.allow_methods.kind = "MirrorRequest" => q1.acrm = q2.acrm
    BY DEF SharesCacheEntry, derived_vary
  <2>2. cors.allow_methods.kind \in {"Const", "MirrorRequest"}
    BY DEF Config, Mirrorable
  <2>3. QED
    BY <2>1, <2>2 DEF methods_header
<1>5. headers_header(cors, q1) = headers_header(cors, q2)
  <2>1. cors.allow_headers.kind = "MirrorRequest" => q1.acrh = q2.acrh
    BY DEF SharesCacheEntry, derived_vary
  <2>2. cors.allow_headers.kind \in {"Const", "MirrorRequest"}
    BY DEF Config, Mirrorable
  <2>3. QED
    BY <2>1, <2>2 DEF headers_header
<1>6. ASSUME NEW pre, NEW buf
      PROVE  compute_into(cors, t, q1, pre, buf) = compute_into(cors, t, q2, pre, buf)
  BY <1>3, <1>4, <1>5 DEF compute_into
<1>7. QED
  BY <1>1, <1>2, <1>6 DEF HeadersFor

(***************************************************************************)
(* Theorems.                                                               *)
(***************************************************************************)

\* Every variable keeps its type, and a pin never parts from its flag, for whatever
\* arguments and any number of edits.
THEOREM BuilderTypeCorrect == Spec => []TypeOK
<1>1. IInv => TypeOK
  BY DEF IInv
<1>2. QED
  BY <1>1, SpecInv, PTL

\* The last vary() call wins: over later setters, builds, clones and rebuilds.
THEOREM PinIsKept == Spec => []PinSurvives
<1>1. IInv => PinSurvives
  <2> SUFFICES ASSUME IInv, cors # Absent, pinned.set PROVE cors.vary = pinned.names
    BY DEF PinSurvives
  <2>1. cors.vary_pinned
    BY DEF IInv, TypeOK
  <2>2. QED
    BY <2>1 DEF IInv, CorsInv
<1>2. QED
  BY <1>1, SpecInv, PTL

\* However its configuration was put together, a Cors that grants credentials to everyone
\* answers an Access-Control-Allow-Origin that names `*', and a list of methods or headers
\* that is `*', only where it echoes a `*' of the request.
THEOREM NoWildcardWithCredentials == Spec => []CredentialsNeverMeetWildcard
<1>1. IInv => CredentialsNeverMeetWildcard
  <2> SUFFICES ASSUME IInv, cors # Absent, cors.allow_credentials = "Yes",
                      NEW q \in Requests, NEW t \in Tables,
                      NEW n \in {"ACAO", "ACAM", "ACAH", "ACEH"}, NEW v,
                      HeadersFor(q, t)[n] = v,
                      v = Wildcard \/ (n = "ACAO" /\ HasStar(v))
               PROVE  Mirrored(q, n)
    BY DEF CredentialsNeverMeetWildcard
  <2>1. cors \in Config /\ validate(cors) /\ OriginIsChecked(cors)
    BY DEF IInv, TypeOK, CorsInv
  <2>2. q \in Request
    BY ArgumentsAssumption
  <2>3. QED
    BY <2>1, <2>2, WildcardIsMirrored
<1>2. QED
  BY <1>1, SpecInv, PTL

\* A Vary that was derived tells apart any two requests that get different CORS headers.
THEOREM DerivedVarySuffices == Spec => []DerivedVaryIsEnough
<1>1. IInv => DerivedVaryIsEnough
  <2> SUFFICES ASSUME IInv, cors # Absent, ~pinned.set,
                      NEW q1 \in Requests, NEW q2 \in Requests,
                      SharesCacheEntry(q1, q2), NEW t \in Tables
               PROVE  HeadersFor(q1, t) = HeadersFor(q2, t)
    BY DEF DerivedVaryIsEnough
  <2>1. cors \in Config /\ ~cors.vary_pinned
    BY DEF IInv, TypeOK
  <2>2. cors.vary = derived_vary(cors)
    BY <2>1 DEF IInv, CorsInv
  <2>3. q1 \in Request /\ q2 \in Request
    BY ArgumentsAssumption
  <2>4. QED
    BY <2>1, <2>2, <2>3, SameEntrySameHeaders
<1>2. QED
  BY <1>1, SpecInv, PTL
===============================================================================
