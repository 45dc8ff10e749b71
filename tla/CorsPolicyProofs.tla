--------------------------- MODULE CorsPolicyProofs ---------------------------
(***************************************************************************)
(* Lemmas about the operators of CorsPolicy, which the proofs about the    *)
(* modules with state rest on.                                             *)
(***************************************************************************)
EXTENDS CorsPolicy, TLAPS

(***************************************************************************)
(* What the operators return.                                              *)
(***************************************************************************)

\* Absent is no header value; * and true are.
LEMMA ValueFacts ==
    /\ Absent \notin Value
    /\ Wildcard \in Value
    /\ {"true"} \in Value
  BY AbsentAssumption, TokensAssumption DEF Value, Wildcard, FixedTokens

\* try_build keeps a builder a builder: the Vary it derives is a header value.
LEMMA UpdateVaryType ==
    ASSUME NEW c \in Config
    PROVE  update_vary(c) \in Config
<1>1. derived_vary(c) \in Value
  BY TokensAssumption DEF derived_vary, Value, FixedTokens
<1>2. QED
  BY <1>1 DEF update_vary, Config, Vary_list, join_names, OptValue

\* to_future is Ready with a value exactly where the policy allows the request, and
\* Pending only for a request with an Origin.
LEMMA ToFutureFacts ==
    ASSUME NEW p \in AllowOrigin, NEW t, NEW o \in OptValue
    PROVE  /\ to_future(p, t, o) \in OriginFuture
           /\ to_future(p, t, o).state = "Ready" =>
                  (to_future(p, t, o).res # Absent <=> Allows(p, t, o))
           /\ to_future(p, t, o).state = "Pending" => o # Absent
<1>1. Allows(p, t, o) => AllowedValue(p, o) \in Value
  BY DEF Allows, AllowedValue, AllowOrigin, OptValue
<1>2. QED
  BY <1>1, ValueFacts DEF to_future, OriginFuture, OptValue

\* A push makes a header buffer of a header buffer.
LEMMA PushOptType ==
    ASSUME NEW buf \in Buffer, NEW n \in HeaderName, NEW v \in OptValue
    PROVE  push_opt(buf, n, v) \in Buffer
  BY DEF push_opt, Buffer, OptValue

\* Every knob answers a header value, or no header.
LEMMA KnobHeaderTypes ==
    ASSUME NEW c \in Config, NEW q \in Request, NEW t
    PROVE  /\ credentials_header(c, t, q) \in OptValue
           /\ methods_header(c, q) \in OptValue
           /\ headers_header(c, q) \in OptValue
           /\ max_age_header(c) \in OptValue
           /\ expose_header(c) \in OptValue
           /\ vary_header(c) \in OptValue
<1>1. credentials_header(c, t, q) \in OptValue
  BY ValueFacts DEF credentials_header, OptValue
<1>2. methods_header(c, q) \in OptValue
  BY DEF methods_header, OptValue, Config, Mirrorable, Request
<1>3. headers_header(c, q) \in OptValue
  <2>1. q.acrh # Absent => q.acrh \cap HttpTokens \in Value
    BY DEF Request, OptValue, Value
  <2>2. QED
    BY <2>1 DEF headers_header, OptValue, Config, Mirrorable
<1>4. /\ max_age_header(c) \in OptValue /\ expose_header(c) \in OptValue
      /\ vary_header(c) \in OptValue
  BY DEF max_age_header, expose_header, vary_header, Config
<1>5. QED
  BY <1>1, <1>2, <1>3, <1>4

\* What every response carries is a buffer.
LEMMA CommonHeadersType ==
    ASSUME NEW c \in Config
    PROVE  common_headers(c) \in Buffer
<1>1. <<>> \in Buffer /\ "Vary" \in HeaderName
  BY DEF Buffer, HeaderName
<1>2. vary_header(c) \in OptValue
  BY DEF vary_header, Config
<1>3. QED
  BY <1>1, <1>2, PushOptType DEF common_headers

\* The lazy headers are pushed into a buffer.
LEMMA ComputeIntoType ==
    ASSUME NEW c \in Config, NEW q \in Request, NEW t, NEW pre \in BOOLEAN,
           NEW buf \in Buffer
    PROVE  compute_into(c, t, q, pre, buf) \in Buffer
<1> DEFINE creds == push_opt(buf, "ACAC", credentials_header(c, t, q))
           meths == push_opt(creds, "ACAM", methods_header(c, q))
           hdrs  == push_opt(meths, "ACAH", headers_header(c, q))
<1>1. {"ACAC", "ACAM", "ACAH", "ACMA", "ACEH"} \subseteq HeaderName
  BY DEF HeaderName, CorsHeader
<1>2. creds \in Buffer
  BY <1>1, PushOptType, KnobHeaderTypes
<1>3. meths \in Buffer
  BY <1>1, <1>2, PushOptType, KnobHeaderTypes
<1>4. hdrs \in Buffer
  BY <1>1, <1>3, PushOptType, KnobHeaderTypes
<1>5. push_opt(hdrs, "ACMA", max_age_header(c)) \in Buffer
  BY <1>1, <1>4, PushOptType, KnobHeaderTypes
<1>6. push_opt(creds, "ACEH", expose_header(c)) \in Buffer
  BY <1>1, <1>2, PushOptType, KnobHeaderTypes
<1>7. QED
  BY <1>5, <1>6 DEF compute_into

\* Merging a buffer into the headers of a response leaves headers of a response.
LEMMA MergeHeadersType ==
    ASSUME NEW target \in HeaderMap, NEW buf \in Buffer
    PROVE  merge_headers(target, buf) \in HeaderMap
<1>1. ASSUME NEW n \in HeaderName
      PROVE  merge_headers(target, buf)[n] \in OptValue
  <2> DEFINE at   == {i \in 1..Len(buf) : buf[i][1] = n}
             last == {i \in at : \A j \in at : j <= i}
             from == IF n = "Vary" THEN at ELSE last
             mine == UNION {buf[i][2] : i \in from}
  <2>1. \A i \in from : buf[i][2] \in Value
    BY DEF Buffer
  <2>2. mine \in Value
    BY <2>1 DEF Value
  <2>3. target[n] \in OptValue
    BY DEF HeaderMap
  <2>4. target[n] # Absent => target[n] \cup mine \in Value
    BY <2>2, <2>3 DEF OptValue, Value
  <2>5. merge_headers(target, buf)[n] =
            IF at = {} THEN target[n]
            ELSE IF n = "Vary" /\ target[n] # Absent THEN target[n] \cup mine
            ELSE mine
    BY DEF merge_headers
  <2>6. QED
    BY <2>2, <2>3, <2>4, <2>5 DEF OptValue
<1>2. merge_headers(target, buf) = [n \in HeaderName |-> merge_headers(target, buf)[n]]
  BY DEF merge_headers
<1>3. QED
  BY <1>1, <1>2 DEF HeaderMap

(***************************************************************************)
(* What a buffer holds.                                                    *)
(***************************************************************************)

Names(buf) == {buf[i][1] : i \in 1..Len(buf)}

Distinct(buf) == \A i, j \in 1..Len(buf) : buf[i][1] = buf[j][1] => i = j

\* A push adds at most one slot and one name, and keeps the names apart if it is new.
LEMMA PushOptFacts ==
    ASSUME NEW buf \in Buffer, NEW n \in HeaderName, NEW v \in OptValue,
           n \notin Names(buf), Distinct(buf)
    PROVE  /\ push_opt(buf, n, v) \in Buffer
           /\ Distinct(push_opt(buf, n, v))
           /\ Names(push_opt(buf, n, v)) \subseteq Names(buf) \cup {n}
           /\ Len(push_opt(buf, n, v)) <= Len(buf) + 1
<1> DEFINE out == push_opt(buf, n, v)
<1>1. CASE v = Absent
  <2>1. out = buf
    BY <1>1 DEF push_opt
  <2>2. Len(buf) \in Nat
    BY DEF Buffer
  <2>3. QED
    BY <2>1, <2>2
<1>2. CASE v # Absent
  <2>1. v \in Value /\ out = Append(buf, <<n, v>>)
    BY <1>2 DEF push_opt, OptValue
  <2>2. /\ out \in Buffer
        /\ Len(buf) \in Nat /\ Len(out) = Len(buf) + 1
        /\ \A i \in 1..Len(buf) : out[i] = buf[i]
        /\ out[Len(buf) + 1] = <<n, v>>
    BY <2>1 DEF Buffer
  <2> HIDE DEF out
  <2>3. \A i \in 1..Len(out) : i \in 1..Len(buf) \/ i = Len(buf) + 1
    BY <2>2
  <2>4. \A i \in 1..Len(buf) : out[i][1] = buf[i][1] /\ out[i][1] # n
    BY <2>2 DEF Names
  <2>5. out[Len(buf) + 1][1] = n
    BY <2>2
  <2>6. Distinct(out)
    BY <2>3, <2>4, <2>5 DEF Distinct
  <2>7. Names(out) \subseteq Names(buf) \cup {n}
    BY <2>3, <2>4, <2>5 DEF Names
  <2>8. QED
    BY <2>2, <2>6, <2>7 DEF out
<1>3. QED
  BY <1>1, <1>2

\* The lazy headers add at most four, none of them Vary or Allow-Origin.
LEMMA ComputeIntoFacts ==
    ASSUME NEW c \in Config, NEW q \in Request, NEW t, NEW pre \in BOOLEAN,
           NEW buf \in Buffer, Distinct(buf), Names(buf) \subseteq {"Vary", "ACAO"}
    PROVE  /\ Distinct(compute_into(c, t, q, pre, buf))
           /\ Len(compute_into(c, t, q, pre, buf)) <= Len(buf) + 4
<1> DEFINE creds == push_opt(buf, "ACAC", credentials_header(c, t, q))
           meths == push_opt(creds, "ACAM", methods_header(c, q))
           hdrs  == push_opt(meths, "ACAH", headers_header(c, q))
           age   == push_opt(hdrs, "ACMA", max_age_header(c))
           expo  == push_opt(creds, "ACEH", expose_header(c))
<1>1. {"ACAC", "ACAM", "ACAH", "ACMA", "ACEH"} \subseteq HeaderName
  BY DEF HeaderName, CorsHeader
<1>2. max_age_header(c) \in OptValue /\ expose_header(c) \in OptValue
  BY KnobHeaderTypes
<1>3. compute_into(c, t, q, pre, buf) = IF pre THEN age ELSE expo
  BY DEF compute_into
<1>4. /\ creds \in Buffer /\ Distinct(creds) /\ Len(creds) <= Len(buf) + 1
      /\ Names(creds) \subseteq {"Vary", "ACAO", "ACAC"}
  BY <1>1, PushOptFacts, KnobHeaderTypes
<1> HIDE DEF creds
<1>5. /\ meths \in Buffer /\ Distinct(meths) /\ Len(meths) <= Len(creds) + 1
      /\ Names(meths) \subseteq {"Vary", "ACAO", "ACAC", "ACAM"}
  BY <1>1, <1>4, PushOptFacts, KnobHeaderTypes
<1>6. expo \in Buffer /\ Distinct(expo) /\ Len(expo) <= Len(creds) + 1
  BY <1>1, <1>2, <1>4, PushOptFacts
<1> HIDE DEF meths, expo
<1>7. /\ hdrs \in Buffer /\ Distinct(hdrs) /\ Len(hdrs) <= Len(meths) + 1
      /\ Names(hdrs) \subseteq {"Vary", "ACAO", "ACAC", "ACAM", "ACAH"}
  BY <1>1, <1>5, PushOptFacts, KnobHeaderTypes
<1> HIDE DEF hdrs
<1>8. age \in Buffer /\ Distinct(age) /\ Len(age) <= Len(hdrs) + 1
  BY <1>1, <1>2, <1>7, PushOptFacts
<1> HIDE DEF age
<1>9. /\ Len(buf) \in Nat /\ Len(creds) \in Nat /\ Len(meths) \in Nat
      /\ Len(hdrs) \in Nat /\ Len(age) \in Nat /\ Len(expo) \in Nat
  BY <1>4, <1>5, <1>6, <1>7, <1>8 DEF Buffer
<1>10. QED
  BY <1>3, <1>4, <1>5, <1>6, <1>7, <1>8, <1>9

Contents(buf) == {buf[i] : i \in 1..Len(buf)}

\* A push adds the pair it was given, if there is a value, and nothing else.
LEMMA PushOptContents ==
    ASSUME NEW buf \in Buffer, NEW n \in HeaderName, NEW v \in OptValue
    PROVE  \A pair \in Contents(push_opt(buf, n, v)) :
               pair \in Contents(buf) \/ (v # Absent /\ pair = <<n, v>>)
<1>1. CASE v = Absent
  BY <1>1 DEF push_opt
<1>2. CASE v # Absent
  <2> DEFINE out == push_opt(buf, n, v)
  <2>1. /\ Len(buf) \in Nat /\ Len(out) = Len(buf) + 1
        /\ \A i \in 1..Len(buf) : out[i] = buf[i]
        /\ out[Len(buf) + 1] = <<n, v>>
    BY <1>2 DEF push_opt, Buffer, OptValue
  <2> HIDE DEF out
  <2>2. \A i \in 1..Len(out) : i \in 1..Len(buf) \/ i = Len(buf) + 1
    BY <2>1
  <2>3. \A pair \in Contents(out) : pair \in Contents(buf) \/ pair = <<n, v>>
    BY <2>1, <2>2 DEF Contents
  <2>4. QED
    BY <1>2, <2>3 DEF out
<1>3. QED
  BY <1>1, <1>2

\* Every lazy header is the answer of its knob.
LEMMA ComputeIntoContents ==
    ASSUME NEW c \in Config, NEW q \in Request, NEW t, NEW pre \in BOOLEAN,
           NEW buf \in Buffer, NEW pair \in Contents(compute_into(c, t, q, pre, buf))
    PROVE  \/ pair \in Contents(buf)
           \/ pair = <<"ACAC", credentials_header(c, t, q)>>
           \/ methods_header(c, q) # Absent /\ pair = <<"ACAM", methods_header(c, q)>>
           \/ headers_header(c, q) # Absent /\ pair = <<"ACAH", headers_header(c, q)>>
           \/ pair = <<"ACMA", max_age_header(c)>>
           \/ pair = <<"ACEH", expose_header(c)>>
<1> DEFINE creds == push_opt(buf, "ACAC", credentials_header(c, t, q))
           meths == push_opt(creds, "ACAM", methods_header(c, q))
           hdrs  == push_opt(meths, "ACAH", headers_header(c, q))
           age   == push_opt(hdrs, "ACMA", max_age_header(c))
           expo  == push_opt(creds, "ACEH", expose_header(c))
<1>1. {"ACAC", "ACAM", "ACAH", "ACMA", "ACEH"} \subseteq HeaderName
  BY DEF HeaderName, CorsHeader
<1>2. compute_into(c, t, q, pre, buf) = IF pre THEN age ELSE expo
  BY DEF compute_into
<1>3. creds \in Buffer
  BY <1>1, PushOptType, KnobHeaderTypes
<1>4. \A x \in Contents(creds) :
          x \in Contents(buf) \/ x = <<"ACAC", credentials_header(c, t, q)>>
  BY <1>1, PushOptContents, KnobHeaderTypes
<1> HIDE DEF creds
<1>5. meths \in Buffer
  BY <1>1, <1>3, PushOptType, KnobHeaderTypes
<1>6. \A x \in Contents(meths) :
          \/ x \in Contents(creds)
          \/ methods_header(c, q) # Absent /\ x = <<"ACAM", methods_header(c, q)>>
  BY <1>1, <1>3, PushOptContents, KnobHeaderTypes
<1>7. \A x \in Contents(expo) : x \in Contents(creds) \/ x = <<"ACEH", expose_header(c)>>
  BY <1>1, <1>3, PushOptContents, KnobHeaderTypes
<1> HIDE DEF meths, expo
<1>8. hdrs \in Buffer
  BY <1>1, <1>5, PushOptType, KnobHeaderTypes
<1>9. \A x \in Contents(hdrs) :
          \/ x \in Contents(meths)
          \/ headers_header(c, q) # Absent /\ x = <<"ACAH", headers_header(c, q)>>
  BY <1>1, <1>5, PushOptContents, KnobHeaderTypes
<1> HIDE DEF hdrs
<1>10. \A x \in Contents(age) : x \in Contents(hdrs) \/ x = <<"ACMA", max_age_header(c)>>
  BY <1>1, <1>8, PushOptContents, KnobHeaderTypes
<1> HIDE DEF age
<1>11. QED
  BY <1>2, <1>4, <1>6, <1>7, <1>9, <1>10

\* In a response that had no header of its own, a header is one the buffer holds.
LEMMA MergedIsHeld ==
    ASSUME NEW buf \in Buffer, Distinct(buf), NEW n \in CorsHeader, NEW v,
           v # Absent, merge_headers(NoHeaders, buf)[n] = v
    PROVE  <<n, v>> \in Contents(buf)
<1> DEFINE at   == {i \in 1..Len(buf) : buf[i][1] = n}
           last == {i \in at : \A j \in at : j <= i}
           mine == UNION {buf[i][2] : i \in last}
<1>1. n \in HeaderName /\ n # "Vary"
  BY DEF HeaderName, CorsHeader
<1>2. v = IF at = {} THEN Absent ELSE mine
  BY <1>1 DEF merge_headers, NoHeaders
<1>3. PICK i \in 1..Len(buf) : buf[i][1] = n
  BY <1>2
<1>4. at = {i} /\ Len(buf) \in Nat
  BY <1>3 DEF Distinct, Buffer
<1>5. last = {i}
  BY <1>4
<1>6. v = buf[i][2]
  BY <1>2, <1>4, <1>5
<1>7. buf[i] = <<buf[i][1], buf[i][2]>>
  BY DEF Buffer
<1>8. QED
  BY <1>3, <1>6, <1>7 DEF Contents
===============================================================================
