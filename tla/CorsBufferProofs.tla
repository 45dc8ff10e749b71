--------------------------- MODULE CorsBufferProofs ---------------------------
(***************************************************************************)
(* The buffer of a future.  It cannot overflow, for every configuration    *)
(* and every interleaving; and a step that decides nothing leaves it       *)
(* alone, so that credentials are granted only by the deciding poll.       *)
(***************************************************************************)
EXTENDS CorsFutureProofs

(***************************************************************************)
(* The capacity of HeaderBuf is enough for every response.                 *)
(***************************************************************************)

Initial == common_headers(config)

\* The buffer of a new future holds Vary or nothing.
LEMMA InitialFacts ==
    ASSUME config \in Config
    PROVE  /\ Initial \in Buffer /\ Distinct(Initial) /\ Len(Initial) <= 1
           /\ Names(Initial) \subseteq {"Vary"}
<1>1. <<>> \in Buffer /\ Distinct(<<>>) /\ Names(<<>>) = {} /\ Len(<<>>) = 0
  BY DEF Buffer, Distinct, Names
<1>2. "Vary" \in HeaderName /\ vary_header(config) \in OptValue
  BY DEF HeaderName, Config, vary_header
<1>3. QED
  BY <1>1, <1>2, PushOptFacts DEF Initial, common_headers

\* What BufferFits says of the buffer of one live future.
Fits(buf) == Distinct(buf) /\ Len(buf) <= CAPACITY

Undecided(r) == stage[r] = "pending" /\ ~fut[r].allow_origin_complete

\* BufferFits, request by request.
LEMMA BufferFitsParts ==
    BufferFits <=> \A r \in Req : Live(r) =>
        Fits(fut[r].headers) /\ (Undecided(r) => fut[r].headers = Initial)
  BY DEF BufferFits, Fits, Distinct, Undecided, Initial

\* The buffer of a future that has just taken its verdict, and with the lazy headers.
LEMMA DecidedFits ==
    ASSUME TypeOK, BufferFits, NEW r \in Req, Undecided(r), NEW pre \in BOOLEAN
    PROVE  LET buf == Decided(r).headers
           IN  /\ Fits(buf)
               /\ Fits(compute_into(config, table, Decided(r).request, pre, buf))
<1> DEFINE buf == Decided(r).headers
<1>1. stage[r] = "pending" /\ Live(r) /\ fut[r] \in Future
  BY DEF Undecided, Live, TypeOK
<1>2. buf = push_opt(fut[r].headers, "ACAO", OriginResult(r))
  BY <1>1 DEF Decided, Future
<1>3. fut[r].headers = Initial
  BY <1>1, BufferFitsParts
<1>4. OriginResult(r) \in OptValue /\ "ACAO" \in HeaderName
  BY <1>1, OriginResultType DEF HeaderName, CorsHeader
<1>5. /\ Initial \in Buffer /\ Distinct(Initial) /\ Len(Initial) <= 1
      /\ Names(Initial) \subseteq {"Vary"}
  BY InitialFacts DEF TypeOK
<1>6. /\ buf \in Buffer /\ Distinct(buf) /\ Len(buf) <= Len(Initial) + 1
      /\ Names(buf) \subseteq {"Vary", "ACAO"}
  BY <1>2, <1>3, <1>4, <1>5, PushOptFacts
<1>7. Decided(r).request \in Request
  BY <1>1, DecidedFacts, ConstantFacts DEF Future, Assumptions
<1> HIDE DEF buf
<1>8. /\ Distinct(compute_into(config, table, Decided(r).request, pre, buf))
      /\ Len(compute_into(config, table, Decided(r).request, pre, buf)) <= Len(buf) + 4
  BY <1>6, <1>7, ComputeIntoFacts DEF TypeOK
<1>9. compute_into(config, table, Decided(r).request, pre, buf) \in Buffer
  BY <1>6, <1>7, ComputeIntoType DEF TypeOK
<1>10. /\ Len(Initial) \in Nat /\ Len(buf) \in Nat
       /\ Len(compute_into(config, table, Decided(r).request, pre, buf)) \in Nat
  BY <1>5, <1>6, <1>9 DEF Buffer
<1>11. Fits(buf) /\ Fits(compute_into(config, table, Decided(r).request, pre, buf))
  BY <1>5, <1>6, <1>8, <1>10 DEF Fits, CAPACITY
<1>12. QED
  BY <1>11 DEF buf

FitsOne(r) == Live(r) => Fits(fut[r].headers) /\ (Undecided(r) => fut[r].headers = Initial)

\* The buffer of a request survives the steps of the others.
LEMMA FitsFrame ==
    ASSUME NEW r \in Req, NEW s \in Req \ {r}, OthersUnchanged(r), FitsOne(s)
    PROVE  FitsOne(s)'
  BY DEF FitsOne, OthersUnchanged, Live, Undecided, Initial

\* The steps that write a buffer.
LEMMA FitsCall ==
    ASSUME TypeOK, NEW r \in Req, NEW a \in Clones, NEW q \in Requests,
           Call(r, a, q)
    PROVE  FitsOne(r)'
<1>1. fut'[r].headers = Initial /\ config' = config
  BY DEF Call, TypeOK, Initial
<1>2. Fits(Initial)
  <2>1. Initial \in Buffer /\ Distinct(Initial) /\ Len(Initial) <= 1
    BY InitialFacts DEF TypeOK
  <2>2. Len(Initial) \in Nat
    BY <2>1 DEF Buffer
  <2>3. QED
    BY <2>1, <2>2 DEF Fits, CAPACITY
<1>3. QED
  BY <1>1, <1>2 DEF FitsOne, Fits, Initial

\* A refusal pushes no lazy header.
LEMMA FitsRefuses ==
    ASSUME TypeOK, BufferFits, NEW r \in Req, PollRefuses(r)
    PROVE  FitsOne(r)'
<1>1. Undecided(r) /\ stage[r] = "pending"
  BY DEF PollRefuses, Deciding, Polled, Undecided
<1>2. fut'[r] = Completed(Decided(r)) /\ Decided(r) \in Future
  BY <1>1, DecidedFacts DEF PollRefuses, TypeOK
<1>3. fut'[r].headers = Decided(r).headers
  BY <1>2 DEF Completed, Future
<1>4. stage'[r] = "done"
  BY DEF PollRefuses, Finishes, TypeOK
<1>5. Fits(Decided(r).headers)
  BY <1>1, DecidedFits
<1>6. QED
  BY <1>3, <1>4, <1>5 DEF FitsOne, Undecided, Fits, Distinct

\* A dispatch pushes the lazy headers once.
LEMMA FitsDispatches ==
    ASSUME TypeOK, BufferFits, NEW r \in Req, PollDispatches(r)
    PROVE  FitsOne(r)'
<1> DEFINE f       == Decided(r)
           headers == DispatchHeaders(r)
<1>1. Undecided(r) /\ stage[r] = "pending"
  BY DEF PollDispatches, Deciding, Polled, Undecided
<1>2. Completed(f) \in Future /\ Completed(f).allow_origin_complete
  BY <1>1, DecidedFacts, CompletedFacts
<1>3. Fits(headers)
  BY <1>1, DecidedFits DEF is_preflight_request, DispatchHeaders
<1>4. PICK inner : fut' = [fut EXCEPT ![r] =
                        [Completed(f) EXCEPT !.inner = inner, !.headers = headers]]
  BY DEF PollDispatches
<1> HIDE DEF f, headers
<1>5. fut'[r].headers = headers /\ fut'[r].allow_origin_complete
  BY <1>2, <1>4 DEF TypeOK, Future
<1>6. QED
  BY <1>3, <1>5 DEF FitsOne, Undecided, Fits, Distinct

\* So does the answer to a preflight.
LEMMA FitsPreflight ==
    ASSUME TypeOK, BufferFits, NEW r \in Req, PollPreflight(r)
    PROVE  FitsOne(r)'
<1> DEFINE f       == Decided(r)
           headers == compute_into(config, table, f.request, TRUE, f.headers)
<1>1. Undecided(r) /\ stage[r] = "pending"
  BY DEF PollPreflight, Deciding, Polled, Undecided
<1>2. stage'[r] = "done"
  BY DEF PollPreflight, Finishes, TypeOK
<1>3. Fits(f.headers) /\ Fits(headers) /\ f \in Future
  BY <1>1, DecidedFits, DecidedFacts
<1>4. \/ fut' = [fut EXCEPT ![r] = f]
      \/ fut' = [fut EXCEPT ![r] = [f EXCEPT !.headers = headers]]
  BY DEF PollPreflight
<1> HIDE DEF f, headers
<1>5. fut'[r].headers \in {f.headers, headers}
  BY <1>3, <1>4 DEF TypeOK, Future
<1>6. QED
  BY <1>2, <1>3, <1>5 DEF FitsOne, Undecided, Fits, Distinct

\* The steps that leave the buffers alone.
LEMMA FitsOther ==
    ASSUME TypeOK, NEW r \in Req, FitsOne(r),
           \/ PollWaitsForOrigin(r) \/ PollInner(r) \/ Drop(r)
           \/ SpuriousWake(r) \/ Move(r) \/ OriginReply(r) \/ InnerFinish(r)
    PROVE  FitsOne(r)'
<1> USE DEF FitsOne, Live, Undecided, Initial
<1>1. CASE PollWaitsForOrigin(r)
  BY <1>1 DEF PollWaitsForOrigin, Polled
<1>2. CASE PollInner(r)
  BY <1>2 DEF PollInner, Polled
<1>3. CASE Drop(r)
  BY <1>3 DEF Drop, TypeOK
<1>4. CASE SpuriousWake(r) \/ Move(r)
  BY <1>4 DEF SpuriousWake, Move
<1>5. CASE OriginReply(r)
  BY <1>5 DEF OriginReply
<1>6. CASE InnerFinish(r)
  <2>1. fut[r] \in Future /\ stage[r] = "pending"
        /\ UNCHANGED <<config, stage>>
    BY <1>6 DEF InnerFinish, TypeOK
  <2>2. PICK o : fut' = [fut EXCEPT ![r].inner = o]
    BY <1>6 DEF InnerFinish
  <2>3. /\ fut'[r].headers = fut[r].headers
        /\ fut'[r].allow_origin_complete = fut[r].allow_origin_complete
    BY <2>1, <2>2 DEF TypeOK, Future
  <2>4. QED
    BY <2>1, <2>3
<1>7. QED
  BY <1>1, <1>2, <1>3, <1>4, <1>5, <1>6

\* Every step keeps the buffers within their capacity.
LEMMA BufferStep == IInv /\ BufferFits /\ [Next]_vars => BufferFits'
<1> SUFFICES ASSUME IInv, BufferFits, [Next]_vars PROVE BufferFits'
  OBVIOUS
<1>1. TypeOK /\ \A r \in Req : FitsOne(r)
  BY BufferFitsParts DEF IInv, FitsOne
<1>2. ASSUME NEW r \in Req, OthersUnchanged(r), FitsOne(r)'
      PROVE  \A s \in Req : FitsOne(s)'
  <2> SUFFICES ASSUME NEW s \in Req PROVE FitsOne(s)'
    OBVIOUS
  <2>1. CASE s = r
    BY <1>2, <2>1
  <2>2. CASE s # r
    BY <1>1, <1>2, <2>2, FitsFrame
  <2>3. QED
    BY <2>1, <2>2
<1>3. \A r \in Req : FitsOne(r)'
  <2>1. ASSUME NEW r \in Req, NEW a \in Clones, NEW q \in Requests, Call(r, a, q)
        PROVE  \A s \in Req : FitsOne(s)'
    BY <1>1, <1>2, <2>1, FitsCall, OthersAreUnchanged
  <2>2. ASSUME NEW r \in Req, PollRefuses(r) PROVE \A s \in Req : FitsOne(s)'
    BY <1>1, <1>2, <2>2, FitsRefuses, OthersAreUnchanged
  <2>3. ASSUME NEW r \in Req, PollDispatches(r) PROVE \A s \in Req : FitsOne(s)'
    BY <1>1, <1>2, <2>3, FitsDispatches, OthersAreUnchanged
  <2>4. ASSUME NEW r \in Req, PollPreflight(r) PROVE \A s \in Req : FitsOne(s)'
    BY <1>1, <1>2, <2>4, FitsPreflight, OthersAreUnchanged
  <2>5. ASSUME NEW r \in Req,
               \/ PollWaitsForOrigin(r) \/ PollInner(r) \/ Drop(r)
               \/ SpuriousWake(r) \/ Move(r) \/ OriginReply(r) \/ InnerFinish(r)
        PROVE  \A s \in Req : FitsOne(s)'
    BY <1>1, <1>2, <2>5, FitsOther, OthersAreUnchanged
  <2>6. CASE ChangeTable \/ CloneStep \/ UNCHANGED vars
    BY <1>1, <2>6, CloneStepFacts
       DEF ChangeTable, vars, FitsOne, Live, Undecided, Initial
  <2>7. QED
    BY <2>1, <2>2, <2>3, <2>4, <2>5, <2>6 DEF Next, CloneStep
<1>4. QED
  BY <1>3 DEF BufferFits, FitsOne, Fits, Distinct, Undecided, Initial, Live

\* HeaderBuf::push never panics: six slots hold every response, with no name twice, and
\* a future that has not decided holds Vary alone.
THEOREM BufferNeverOverflows == Spec => []BufferFits
<1>1. Init => BufferFits
  BY DEF Init, BufferFits, Live
<1>2. QED
  BY <1>1, BufferStep, SpecInv, PTL DEF Spec

(***************************************************************************)
(* What a step may never do.                                               *)
(***************************************************************************)

\* IdlePollIsHarmless and CredentialsFollowVerdict, of one request.
Harmless(r) ==
    /\ stage[r] = "pending" /\ stage'[r] = "pending"
    /\ fut[r].allow_origin_complete = fut'[r].allow_origin_complete
    => fut'[r].headers = fut[r].headers /\ calls'[r] = calls[r]

Granted(r) ==
    /\ stage[r] = "pending" /\ ~fut[r].allow_origin_complete
    /\ \/ verdict[r] = "allowed"
       \/ fut[r].variant = "Preflight" /\ ~HasOrigin(fut[r].request)
    /\ credentials_header(config, table, fut[r].request) # Absent

Rightful(r) ==
    /\ Live(r)'
    /\ Holds(fut'[r].headers, "ACAC")
    /\ Live(r) => ~Holds(fut[r].headers, "ACAC")
    => Granted(r)

\* A step that neither creates the future nor writes its headers or its calls.
Keeps(r) ==
    /\ Live(r)' => Live(r) /\ fut'[r].headers = fut[r].headers
    /\ calls'[r] = calls[r]

\* Such a step is harmless, and grants nothing.
LEMMA KeepsFacts ==
    ASSUME NEW r \in Req, Keeps(r)
    PROVE  Harmless(r) /\ Rightful(r)
  BY DEF Keeps, Harmless, Rightful, Live

\* The steps of a request that keep them, and every step of another.
LEMMA KeepingSteps ==
    ASSUME TypeOK, NEW r \in Req,
           \/ PollWaitsForOrigin(r) \/ PollInner(r) \/ Drop(r)
           \/ SpuriousWake(r) \/ Move(r) \/ OriginReply(r) \/ InnerFinish(r)
    PROVE  Keeps(r)
<1> USE DEF Keeps, Live
<1>1. CASE PollWaitsForOrigin(r)
  BY <1>1 DEF PollWaitsForOrigin
<1>2. CASE PollInner(r)
  BY <1>2 DEF PollInner, Polled
<1>3. CASE Drop(r)
  BY <1>3 DEF Drop, TypeOK
<1>4. CASE SpuriousWake(r) \/ Move(r)
  BY <1>4 DEF SpuriousWake, Move
<1>5. CASE OriginReply(r)
  BY <1>5 DEF OriginReply
<1>6. CASE InnerFinish(r)
  <2>1. fut[r] \in Future /\ stage[r] = "pending" /\ UNCHANGED <<stage, calls>>
    BY <1>6 DEF InnerFinish, TypeOK
  <2>2. PICK o : fut' = [fut EXCEPT ![r].inner = o]
    BY <1>6 DEF InnerFinish
  <2>3. fut'[r].headers = fut[r].headers
    BY <2>1, <2>2 DEF TypeOK, Future
  <2>4. QED
    BY <2>1, <2>3
<1>7. QED
  BY <1>1, <1>2, <1>3, <1>4, <1>5, <1>6

\* A step of another request is such a step.
LEMMA KeepsFrame ==
    ASSUME NEW r \in Req, NEW s \in Req \ {r}, OthersUnchanged(r)
    PROVE  Keeps(s)
  BY DEF OthersUnchanged, Keeps, Live

(***************************************************************************)
(* The deciding polls.                                                     *)
(***************************************************************************)

\* Before the lazy headers, a decided future holds no credentials; with them, only
\* what the knob grants.
LEMMA LazyCredentials ==
    ASSUME TypeOK, BufferFits, NEW r \in Req, Undecided(r), NEW pre \in BOOLEAN
    PROVE  LET f == Decided(r)
           IN  /\ ~Holds(f.headers, "ACAC")
               /\ Holds(compute_into(config, table, f.request, pre, f.headers), "ACAC") =>
                      credentials_header(config, table, fut[r].request) # Absent
<1> DEFINE f    == Decided(r)
           lazy == compute_into(config, table, f.request, pre, f.headers)
<1>1. stage[r] = "pending" /\ Live(r) /\ fut[r] \in Future
  BY DEF Undecided, Live, TypeOK
<1>2. /\ f.headers \in Buffer /\ f.request = fut[r].request /\ f.request \in Request
      /\ f.headers = push_opt(Initial, "ACAO", OriginResult(r))
  BY <1>1, DecidedFacts, ConstantFacts, BufferFitsParts DEF Decided, Future, Assumptions
<1>3. Names(f.headers) \subseteq {"Vary", "ACAO"}
  <2>1. Initial \in Buffer /\ Distinct(Initial) /\ Names(Initial) \subseteq {"Vary"}
    BY InitialFacts DEF TypeOK
  <2>2. OriginResult(r) \in OptValue /\ "ACAO" \in HeaderName
    BY <1>1, OriginResultType DEF HeaderName, CorsHeader
  <2>3. QED
    BY <1>2, <2>1, <2>2, PushOptFacts
<1> HIDE DEF f
<1>4. ~Holds(f.headers, "ACAC")
  BY <1>3 DEF Holds, Names
<1>5. ASSUME Holds(lazy, "ACAC")
      PROVE  credentials_header(config, table, fut[r].request) # Absent
  <2>1. PICK i \in 1..Len(lazy) : lazy[i][1] = "ACAC"
    BY <1>5 DEF Holds
  <2>2. lazy \in Buffer
    BY <1>2, ComputeIntoType DEF TypeOK
  <2>3. lazy[i] \in HeaderName \X Value /\ lazy[i] \in Contents(lazy)
    BY <2>1, <2>2 DEF Buffer, Contents
  <2>4. lazy[i] \notin Contents(f.headers)
    BY <1>3, <2>1 DEF Contents, Names
  <2>5. \/ lazy[i] \in Contents(f.headers)
        \/ lazy[i] = <<"ACAC", credentials_header(config, table, f.request)>>
        \/ lazy[i] = <<"ACAM", methods_header(config, f.request)>>
        \/ lazy[i] = <<"ACAH", headers_header(config, f.request)>>
        \/ lazy[i] = <<"ACMA", max_age_header(config)>>
        \/ lazy[i] = <<"ACEH", expose_header(config)>>
    <3> HIDE DEF lazy
    <3>1. lazy[i] \in Contents(compute_into(config, table, f.request, pre, f.headers))
      BY <2>3 DEF lazy
    <3>2. QED
      BY <1>2, <3>1, ComputeIntoContents DEF TypeOK
  <2>6. lazy[i] = <<"ACAC", credentials_header(config, table, f.request)>>
    <3> HIDE DEF lazy
    <3>1. QED
      BY <2>1, <2>4, <2>5
  <2>7. QED
    BY <1>2, <2>3, <2>6, ValueFacts
<1>6. QED
  BY <1>4, <1>5 DEF f

\* A deciding poll is not idle; what it grants, it grants for an allowed origin or for a
\* preflight without one.
LEMMA DecidingSteps ==
    ASSUME TypeOK, BufferFits, NEW r \in Req, Good(r),
           PollRefuses(r) \/ PollDispatches(r) \/ PollPreflight(r)
    PROVE  Harmless(r) /\ Rightful(r)
<1> DEFINE f       == Decided(r)
           lazy(p) == compute_into(config, table, f.request, p, f.headers)
<1>1. /\ Deciding(r) /\ Undecided(r) /\ stage[r] = "pending"
      /\ ~fut[r].allow_origin_complete /\ f \in Future
  BY DecidedFacts DEF PollRefuses, PollDispatches, PollPreflight, Deciding, Polled, Undecided
<1>2. verdict[r] # "unknown" /\ (OriginResult(r) = Absent <=> verdict[r] = "denied")
  BY <1>1, DecisionFollowsVerdict
<1>3. OriginResult(r) # Absent => verdict[r] = "allowed"
  BY <1>2 DEF TypeOK
<1>4. /\ ~Holds(f.headers, "ACAC")
      /\ \A p \in BOOLEAN : Holds(lazy(p), "ACAC") =>
             credentials_header(config, table, fut[r].request) # Absent
  BY <1>1, LazyCredentials
<1> HIDE DEF f
<1>5. CASE PollRefuses(r)
  <2>1. stage'[r] = "done"
    BY <1>5 DEF PollRefuses, Finishes, TypeOK
  <2>2. fut'[r] = Completed(f)
    BY <1>5 DEF PollRefuses, TypeOK, f
  <2>3. fut'[r].headers = f.headers
    BY <1>1, <2>2 DEF Completed, Future
  <2>4. QED
    BY <1>4, <2>1, <2>3 DEF Harmless, Rightful
<1>6. CASE PollDispatches(r)
  <2> DEFINE headers == DispatchHeaders(r)
  <2>1. PICK inner : fut' = [fut EXCEPT ![r] =
                        [Completed(f) EXCEPT !.inner = inner, !.headers = headers]]
    BY <1>6 DEF PollDispatches, f
  <2>2. Completed(f) \in Future /\ Completed(f).allow_origin_complete
    BY <1>1, CompletedFacts
  <2>3. headers = IF OriginResult(r) = Absent THEN f.headers
                  ELSE lazy(is_preflight_request(f.request))
    BY DEF DispatchHeaders, f
  <2>4. is_preflight_request(f.request) \in BOOLEAN
    BY DEF is_preflight_request
  <2> HIDE DEF headers, lazy
  <2>5. fut'[r].headers = headers /\ fut'[r].allow_origin_complete
    BY <2>1, <2>2 DEF TypeOK, Future
  <2>6. Harmless(r)
    BY <1>1, <2>5 DEF Harmless
  <2>7. ASSUME Holds(headers, "ACAC") PROVE Granted(r)
    BY <1>1, <1>3, <1>4, <2>3, <2>4, <2>7 DEF Granted
  <2>8. QED
    BY <2>5, <2>6, <2>7 DEF Rightful
<1>7. CASE PollPreflight(r)
  <2>1. stage'[r] = "done" /\ fut[r].variant = "Preflight"
    BY <1>7 DEF PollPreflight, Finishes, TypeOK
  <2>2. \/ Disallowed(r) /\ fut' = [fut EXCEPT ![r] = f]
        \/ ~Disallowed(r) /\ fut' = [fut EXCEPT ![r] = [f EXCEPT !.headers = lazy(TRUE)]]
    BY <1>7 DEF PollPreflight, f
  <2> DEFINE full == lazy(TRUE)
             g    == [f EXCEPT !.headers = full]
  <2>3. fut' = [fut EXCEPT ![r] = f] \/ (fut' = [fut EXCEPT ![r] = g] /\ ~Disallowed(r))
    BY <2>2
  <2> HIDE DEF full
  <2>4. g.headers = full
    BY <1>1 DEF Future
  <2> HIDE DEF g
  <2>5. fut'[r] = f \/ (fut'[r] = g /\ ~Disallowed(r))
    BY <2>3 DEF TypeOK
  <2>6. \/ fut'[r].headers = f.headers
        \/ ~Disallowed(r) /\ fut'[r].headers = lazy(TRUE)
    BY <2>4, <2>5 DEF full
  <2>7. ~Disallowed(r) => verdict[r] = "allowed" \/ ~HasOrigin(fut[r].request)
    BY <1>3 DEF Disallowed
  <2>8. QED
    BY <1>1, <1>4, <2>1, <2>6, <2>7 DEF Harmless, Rightful, Granted
<1>8. QED
  BY <1>5, <1>6, <1>7

\* A new future holds Vary or nothing.
LEMMA CallSteps ==
    ASSUME TypeOK, NEW r \in Req, NEW a \in Clones, NEW q \in Requests, Call(r, a, q)
    PROVE  Harmless(r) /\ Rightful(r)
<1>1. stage[r] = "idle" /\ fut'[r].headers = Initial
  BY DEF Call, TypeOK, Initial
<1>2. ~Holds(Initial, "ACAC")
  <2>1. Names(Initial) \subseteq {"Vary"}
    BY InitialFacts DEF TypeOK
  <2>2. QED
    BY <2>1 DEF Holds, Names
<1>3. QED
  BY <1>1, <1>2 DEF Harmless, Rightful

(***************************************************************************)
(* The theorems.                                                           *)
(***************************************************************************)

\* Both hold of every request in every step.
LEMMA StepFacts ==
    IInv /\ BufferFits /\ [Next]_vars => \A r \in Req : Harmless(r) /\ Rightful(r)
<1> SUFFICES ASSUME IInv, BufferFits, [Next]_vars, NEW s \in Req
             PROVE  Harmless(s) /\ Rightful(s)
  OBVIOUS
<1>1. TypeOK /\ Good(s)
  BY GoodIsIInv DEF IInv
<1>2. ASSUME NEW r \in Req, OthersUnchanged(r), r # s
      PROVE  Harmless(s) /\ Rightful(s)
  BY <1>2, KeepsFrame, KeepsFacts
<1>3. ASSUME NEW r \in Req, NEW a \in Clones, NEW q \in Requests, Call(r, a, q)
      PROVE  Harmless(s) /\ Rightful(s)
  BY <1>1, <1>2, <1>3, CallSteps, OthersAreUnchanged
<1>4. ASSUME NEW r \in Req, PollRefuses(r) \/ PollDispatches(r) \/ PollPreflight(r)
      PROVE  Harmless(s) /\ Rightful(s)
  BY <1>1, <1>2, <1>4, DecidingSteps, OthersAreUnchanged
<1>5. ASSUME NEW r \in Req,
             \/ PollWaitsForOrigin(r) \/ PollInner(r) \/ Drop(r)
             \/ SpuriousWake(r) \/ Move(r) \/ OriginReply(r) \/ InnerFinish(r)
      PROVE  Harmless(s) /\ Rightful(s)
  BY <1>1, <1>2, <1>5, KeepingSteps, KeepsFacts, OthersAreUnchanged
<1>6. CASE ChangeTable \/ CloneStep \/ UNCHANGED vars
  <2>1. Keeps(s)
    BY <1>1, <1>6, CloneStepFacts DEF ChangeTable, vars, Keeps, Live
  <2>2. QED
    BY <2>1, KeepsFacts
<1>7. QED
  BY <1>3, <1>4, <1>5, <1>6 DEF Next, CloneStep

\* A poll that leaves the future waiting changes neither its headers nor its calls,
\* however often and by whatever task it is polled.
THEOREM IdlePollsAreHarmless == Spec => IdlePollIsHarmless
<1>1. IInv /\ BufferFits /\ [Next]_vars => [\A r \in Req : Harmless(r)]_vars
  BY StepFacts
<1>2. QED
  BY <1>1, SpecInv, BufferNeverOverflows, PTL DEF Spec, IdlePollIsHarmless, Harmless

\* Credentials are granted in the deciding poll only, for an allowed origin or a preflight
\* without one, and by what the table says at that instant.
THEOREM CredentialsAreDecided == Spec => CredentialsFollowVerdict
<1>1. IInv /\ BufferFits /\ [Next]_vars => [\A r \in Req : Rightful(r)]_vars
  BY StepFacts
<1>2. QED
  BY <1>1, SpecInv, BufferNeverOverflows, PTL
     DEF Spec, CredentialsFollowVerdict, Rightful, Granted
================================================================================
