-------------------------- MODULE MirrorHeadersProofs --------------------------
(***************************************************************************)
(* mirror_sanitized answers the tokens of the request's header, for every  *)
(* number of segments and whatever is in them.                             *)
(***************************************************************************)
EXTENDS MirrorHeaders, LinesProofs

Valid == {s \in Segment : is_valid_token(s)}

\* What a filter of the segments looked at so far has kept.
Filtered == Kept(Trimmed(Done(raw, rest)), Valid)

\* The fast path has accepted every segment it looked at; the slow path has written the
\* tokens of those it looked at.
ScanInv ==
    /\ raw # <<>> /\ Left(raw, rest)
    /\ path = "fast" => out = <<>> /\ \A i \in 1..Len(Done(raw, rest)) :
                                          FastAccepts(Done(raw, rest)[i])
    /\ path = "slow" => out = Rendered(Filtered)

\* The inductive invariant.
IInv == TypeOK /\ ScanInv /\ MirrorIsFilter

(***************************************************************************)
(* Segments.                                                               *)
(***************************************************************************)

\* A valid segment is one that may be answered; a comma is no segment.
LEMMA SegmentFacts ==
    /\ Valid \subseteq Segment
    /\ Valid \subseteq [text : HttpTokens, padded : {FALSE}]
    /\ Comma \notin Segment
    /\ \A s \in Segment : trim_ascii(s) \in Segment /\ trim_ascii(s).text = s.text
                          /\ (FastAccepts(s) => trim_ascii(s) = s /\ s \in Valid)
<1>1. Comma.text = "," /\ "," # NoText /\ "," \notin Texts
  BY TextsAssumption DEF Comma, NoText
<1>2. Comma \notin Segment
  BY <1>1 DEF Segment
<1>3. Valid \subseteq Segment /\ Valid \subseteq [text : HttpTokens, padded : {FALSE}]
  BY DEF Valid, Segment, is_valid_token
<1>4. ASSUME NEW s \in Segment
      PROVE  /\ trim_ascii(s) \in Segment /\ trim_ascii(s).text = s.text
             /\ FastAccepts(s) => trim_ascii(s) = s /\ s \in Valid
  BY DEF Segment, trim_ascii, FastAccepts, is_valid_token, Valid
<1>5. QED
  BY <1>2, <1>3, <1>4

\* Trimming is done segment by segment.
LEMMA TrimmedFacts ==
    ASSUME NEW s \in Seq(Segment)
    PROVE  /\ Trimmed(s) \in Seq(Segment)
           /\ Trimmed(<<>>) = <<>>
           /\ \A e \in Segment : Trimmed(Append(s, e)) = Append(Trimmed(s), trim_ascii(e))
<1>1. ASSUME NEW q \in Seq(Segment)
      PROVE  /\ Trimmed(q) \in Seq(Segment) /\ Len(Trimmed(q)) = Len(q)
             /\ \A i \in 1..Len(q) : Trimmed(q)[i] = trim_ascii(q[i])
  <2>1. Len(q) \in Nat /\ \A i \in 1..Len(q) : trim_ascii(q[i]) \in Segment
    BY SegmentFacts
  <2>2. QED
    BY <2>1 DEF Trimmed
<1>2. Trimmed(<<>>) = <<>>
  BY DEF Trimmed
<1>3. ASSUME NEW e \in Segment
      PROVE  Trimmed(Append(s, e)) = Append(Trimmed(s), trim_ascii(e))
  <2> DEFINE t == Append(s, e)
             u == Append(Trimmed(s), trim_ascii(e))
  <2>1. /\ t \in Seq(Segment) /\ Len(t) = Len(s) + 1 /\ Len(s) \in Nat
        /\ t[Len(s) + 1] = e /\ \A i \in 1..Len(s) : t[i] = s[i]
    OBVIOUS
  <2>2. trim_ascii(e) \in Segment
    BY SegmentFacts
  <2>3. /\ u \in Seq(Segment) /\ Len(u) = Len(s) + 1
        /\ u[Len(s) + 1] = trim_ascii(e) /\ \A i \in 1..Len(s) : u[i] = trim_ascii(s[i])
    BY <1>1, <2>2
  <2> HIDE DEF t, u
  <2>4. /\ Trimmed(t) \in Seq(Segment) /\ Len(Trimmed(t)) = Len(s) + 1
        /\ \A i \in 1..(Len(s) + 1) : Trimmed(t)[i] = u[i]
    BY <1>1, <2>1, <2>3
  <2>5. Trimmed(t) = u
    BY <2>3, <2>4, SeqEqual
  <2>6. QED
    BY <2>5 DEF t, u
<1>4. QED
  BY <1>1, <1>2, <1>3

\* What may be answered.
LEMMA RenderedIsClean ==
    ASSUME NEW s \in Seq(Valid)
    PROVE  Rendered(s) \in Clean /\ (Rendered(s) = <<>> <=> s = <<>>)
<1> DEFINE C == [text : HttpTokens, padded : {FALSE}] \cup {Comma}
<1>1. s \in Seq(C) /\ Comma \in C
  BY SegmentFacts, SeqMonotonic
<1> HIDE DEF C
<1>2. Separated(s, Comma) \in Seq(C) /\ (Separated(s, Comma) = <<>> <=> s = <<>>)
  BY <1>1, SeparatedType
<1>3. QED
  BY <1>2 DEF Rendered, Clean, C

(***************************************************************************)
(* The inductive invariant.                                                *)
(***************************************************************************)

\* It holds initially.
LEMMA InitInv == Init => IInv
<1> SUFFICES ASSUME Init PROVE IInv
  OBVIOUS
<1>1. raw \in Seq(Segment) /\ raw # <<>>
  <2>1. PICK n \in 1..MaxSegments : raw \in [1..n -> Segment]
    BY DEF Init
  <2>2. MaxSegments \in Nat \ {0}
    BY TextsAssumption, Zenon
  <2>3. n \in Nat \ {0}
    BY <2>2
  <2>4. QED
    BY <2>1, <2>3
<1>2. <<>> \in Clean
  BY DEF Clean
<1>3. Left(raw, rest) /\ Done(raw, rest) = <<>>
  BY <1>1, LoopEnds DEF Init
<1>4. QED
  BY <1>1, <1>2, <1>3 DEF Init, IInv, TypeOK, ScanInv, MirrorIsFilter

\* The fast path goes on while it accepts, and starts over on the slow one otherwise.
LEMMA FastScanInv == IInv /\ FastScan => IInv'
<1> SUFFICES ASSUME IInv, FastScan PROVE IInv'
  OBVIOUS
<1>1. /\ raw \in Seq(Segment) /\ rest \in Seq(Segment) /\ rest # <<>> /\ raw # <<>>
      /\ Left(raw, rest) /\ path = "fast" /\ out = <<>> /\ out \in Clean
      /\ UNCHANGED <<raw, out, result>> /\ result = Absent
  BY DEF IInv, TypeOK, ScanInv, FastScan
<1>2. CASE FastAccepts(Head(rest))
  <2>1. /\ Left(raw, Tail(rest)) /\ Tail(rest) \in Seq(Segment)
        /\ Done(raw, rest) \in Seq(Segment) /\ Head(rest) \in Segment
        /\ Done(raw, Tail(rest)) = Append(Done(raw, rest), Head(rest))
    BY <1>1, LoopStep
  <2>2. rest' = Tail(rest) /\ path' = "fast"
    BY <1>1, <1>2 DEF FastScan
  <2>3. \A i \in 1..Len(Done(raw, rest)) : FastAccepts(Done(raw, rest)[i])
    BY <1>1 DEF IInv, ScanInv
  <2>4. \A i \in 1..Len(Done(raw, Tail(rest))) : FastAccepts(Done(raw, Tail(rest))[i])
    <3> DEFINE d == Done(raw, rest)
               t == Append(d, Head(rest))
    <3>1. /\ Len(d) \in Nat /\ Len(t) = Len(d) + 1 /\ t[Len(d) + 1] = Head(rest)
          /\ \A i \in 1..Len(d) : t[i] = d[i]
      BY <2>1
    <3> HIDE DEF d, t
    <3>2. \A i \in 1..Len(t) : FastAccepts(t[i])
      BY <3>1, <2>3, <1>2 DEF d
    <3>3. QED
      BY <3>2, <2>1 DEF d, t
  <2>5. QED
    BY <1>1, <2>1, <2>2, <2>4 DEF IInv, TypeOK, ScanInv, MirrorIsFilter
<1>3. CASE ~FastAccepts(Head(rest))
  <2>1. rest' = raw /\ path' = "slow"
    BY <1>1, <1>3 DEF FastScan
  <2>2. Left(raw, raw) /\ Done(raw, raw) = <<>>
    BY <1>1, LoopEnds
  <2>3. Rendered(Kept(Trimmed(<<>>), Valid)) = <<>>
    <3>1. Trimmed(<<>>) = <<>>
      BY <1>1, TrimmedFacts
    <3>2. <<>> \in Seq(Valid)
      OBVIOUS
    <3>3. QED
      BY <3>1, <3>2, KeptEmpty, RenderedIsClean
  <2>4. Valid' = Valid
    BY DEF Valid
  <2>5. Filtered' = Kept(Trimmed(<<>>), Valid)
    BY <1>1, <2>1, <2>2 DEF Filtered
  <2>6. QED
    BY <1>1, <2>1, <2>2, <2>3, <2>5 DEF IInv, TypeOK, ScanInv, MirrorIsFilter
<1>4. QED
  BY <1>2, <1>3

\* The echo is the filtered value, since every segment was accepted.
LEMMA FastEchoInv == IInv /\ FastEcho => IInv'
<1> SUFFICES ASSUME IInv, FastEcho PROVE IInv'
  OBVIOUS
<1>1. /\ raw \in Seq(Segment) /\ raw # <<>> /\ path = "fast" /\ rest = <<>>
      /\ path' = "done" /\ result' = Rendered(raw) /\ UNCHANGED <<raw, rest, out>>
  BY DEF IInv, TypeOK, ScanInv, FastEcho, Returns
<1>2. \A i \in 1..Len(raw) : FastAccepts(raw[i])
  <2>1. Done(raw, rest) = raw
    BY <1>1, LoopEnds
  <2>2. QED
    BY <1>1, <2>1 DEF IInv, ScanInv
<1>3. \A i \in 1..Len(raw) : trim_ascii(raw[i]) = raw[i] /\ raw[i] \in Valid
  BY <1>1, <1>2, SegmentFacts
<1>4. Trimmed(raw) = raw
  <2>1. Trimmed(raw) = [i \in 1..Len(raw) |-> raw[i]]
    BY <1>3 DEF Trimmed
  <2>2. QED
    BY <1>1, <2>1
<1>5. Sanitized = raw
  <2>1. Kept(raw, Valid) = raw
    BY <1>1, <1>3, KeptAll
  <2>2. QED
    BY <1>4, <2>1 DEF Sanitized, Valid
<1>6. raw \in Seq(Valid)
  BY <1>1, <1>3
<1>7. Rendered(raw) \in Clean
  BY <1>6, RenderedIsClean
<1>8. MirrorIsFilter'
  <2>1. Sanitized' = Sanitized
    BY <1>1 DEF Sanitized
  <2>2. QED
    BY <1>1, <1>5, <2>1 DEF MirrorIsFilter
<1>9. QED
  BY <1>1, <1>7, <1>8 DEF IInv, TypeOK, ScanInv

\* The slow path writes the segment if it is a token, after a comma if it is not the first.
LEMMA SlowScanInv == IInv /\ SlowScan => IInv'
<1> SUFFICES ASSUME IInv, SlowScan PROVE IInv'
  OBVIOUS
<1> DEFINE d == Done(raw, rest)
           cleaned == trim_ascii(Head(rest))
<1>1. /\ raw \in Seq(Segment) /\ rest \in Seq(Segment) /\ rest # <<>> /\ raw # <<>>
      /\ Left(raw, rest) /\ path = "slow" /\ out = Rendered(Filtered)
      /\ rest' = Tail(rest) /\ UNCHANGED <<raw, path, result>> /\ result = Absent
      /\ out' = IF is_valid_token(cleaned) THEN Written(cleaned) ELSE out
  BY DEF IInv, TypeOK, ScanInv, SlowScan
<1>2. /\ Left(raw, Tail(rest)) /\ Tail(rest) \in Seq(Segment)
      /\ d \in Seq(Segment) /\ Head(rest) \in Segment
      /\ Done(raw, Tail(rest)) = Append(d, Head(rest))
  BY <1>1, LoopStep
<1>3. cleaned \in Segment /\ (is_valid_token(cleaned) <=> cleaned \in Valid)
  BY <1>2, SegmentFacts DEF Valid
<1> HIDE DEF d, cleaned
<1>4. Trimmed(d) \in Seq(Segment) /\ Trimmed(Append(d, Head(rest))) = Append(Trimmed(d), cleaned)
  BY <1>2, TrimmedFacts DEF cleaned
<1>5. Filtered = Kept(Trimmed(d), Valid)
  BY DEF Filtered, d
<1>6. Filtered' = IF cleaned \in Valid THEN Append(Filtered, cleaned) ELSE Filtered
  <2>1. Filtered' = Kept(Append(Trimmed(d), cleaned), Valid)
    BY <1>1, <1>2, <1>4 DEF Filtered, Valid
  <2>2. QED
    BY <1>3, <1>4, <1>5, <2>1, KeptAppend
<1>7. Filtered \in Seq(Valid)
  BY <1>4, <1>5, KeptType
<1>8. out' = Rendered(Filtered')
  <2>1. CASE cleaned \in Valid
    <3>1. Filtered \in Seq(Valid \cup {Comma}) /\ Comma \in Valid \cup {Comma}
          /\ cleaned \in Valid \cup {Comma}
      BY <1>7, <2>1, SeqMonotonic
    <3>2. Rendered(Append(Filtered, cleaned)) =
              IF Rendered(Filtered) = <<>> THEN <<cleaned>>
              ELSE Rendered(Filtered) \o <<Comma, cleaned>>
      BY <3>1, SeparatedAppend DEF Rendered
    <3>3. QED
      BY <1>1, <1>3, <1>6, <2>1, <3>2 DEF Written
  <2>2. CASE cleaned \notin Valid
    BY <1>1, <1>3, <1>6, <2>2
  <2>3. QED
    BY <2>1, <2>2
<1>9. out' \in Clean
  <2>1. Filtered' \in Seq(Valid)
    BY <1>6, <1>7
  <2>2. QED
    BY <1>8, <2>1, RenderedIsClean
<1>10. QED
  BY <1>1, <1>2, <1>8, <1>9 DEF IInv, TypeOK, ScanInv, MirrorIsFilter

\* At the end of the slow path every segment was looked at.
LEMMA SlowReturnInv == IInv /\ SlowReturn => IInv'
<1> SUFFICES ASSUME IInv, SlowReturn PROVE IInv'
  OBVIOUS
<1>1. /\ raw \in Seq(Segment) /\ raw # <<>> /\ path = "slow" /\ rest = <<>> /\ out \in Clean
      /\ out = Rendered(Filtered) /\ path' = "done" /\ UNCHANGED <<raw, rest, out>>
      /\ result' = IF out = <<>> THEN Absent ELSE out
  BY DEF IInv, TypeOK, ScanInv, SlowReturn, Returns
<1>2. Filtered = Sanitized
  <2>1. Done(raw, rest) = raw
    BY <1>1, LoopEnds
  <2>2. QED
    BY <2>1 DEF Filtered, Sanitized, Valid
<1>3. Rendered(Sanitized) = <<>> <=> Sanitized = <<>>
  <2>1. Sanitized \in Seq(Valid)
    BY <1>1, TrimmedFacts, KeptType DEF Sanitized, Valid
  <2>2. QED
    BY <2>1, RenderedIsClean
<1>4. MirrorIsFilter'
  <2>1. Sanitized' = Sanitized
    BY <1>1 DEF Sanitized
  <2>2. QED
    BY <1>1, <1>2, <1>3, <2>1 DEF MirrorIsFilter
<1>5. QED
  BY <1>1, <1>4 DEF IInv, TypeOK, ScanInv

\* Every step keeps it.
LEMMA NextInv == IInv /\ [Next]_vars => IInv'
<1>1. IInv /\ UNCHANGED vars => IInv'
  BY DEF IInv, TypeOK, ScanInv, Filtered, MirrorIsFilter, Sanitized, vars
<1>2. QED
  BY <1>1, FastScanInv, FastEchoInv, SlowScanInv, SlowReturnInv DEF Next

\* Every reachable state has it.
LEMMA SpecInv == Spec => []IInv
<1>1. QED
  BY InitInv, NextInv, PTL DEF Spec

(***************************************************************************)
(* The policy.                                                             *)
(***************************************************************************)

Texted(S) == {s.text : s \in S}

\* The texts of a value are those of its segments.
LEMMA TextsOfRendered ==
    ASSUME NEW s \in Seq(Segment)
    PROVE  TextsOf(Rendered(s)) = Texted(Range(s)) \ {NoText}
<1>1. s \in Seq(Segment \cup {Comma}) /\ Comma \in Segment \cup {Comma}
  BY SeqMonotonic
<1>2. Range(Separated(s, Comma)) \ {Comma} = Range(s) \ {Comma}
  BY <1>1, SeparatedRange
<1>3. Comma \notin Range(s)
  <2>1. Range(s) \subseteq Segment
    BY RangeOfSeq
  <2>2. QED
    BY <2>1, SegmentFacts
<1>4. Range(Rendered(s)) \ {Comma} = Range(s)
  BY <1>2, <1>3 DEF Rendered
<1>5. QED
  BY <1>4 DEF TextsOf, Texted

\* The tokens that are kept are those the policy sees in the header.
LEMMA SanitizedTexts ==
    ASSUME raw \in Seq(Segment)
    PROVE  /\ Sanitized \in Seq(Valid)
           /\ Texted(Range(Sanitized)) = TextsOf(Rendered(raw)) \cap HttpTokens
           /\ Sanitized = <<>> <=> TextsOf(Rendered(raw)) \cap HttpTokens = {}
<1> DEFINE t == Trimmed(raw)
<1>1. t \in Seq(Segment)
  BY TrimmedFacts
<1>2. Sanitized \in Seq(Valid) /\ Range(Sanitized) = Range(t) \cap Valid
  BY <1>1, KeptType, KeptRange DEF Sanitized, Valid
<1>3. Range(t) = {trim_ascii(s) : s \in Range(raw)}
  BY DEF Trimmed, Range
<1>4. Range(raw) \subseteq Segment
  BY RangeOfSeq
<1>5. \A s \in Segment : trim_ascii(s).text = s.text
                         /\ (trim_ascii(s) \in Valid <=> s.text \in HttpTokens)
  BY DEF Segment, trim_ascii, Valid, is_valid_token
<1> HIDE DEF t
<1>6. Texted(Range(Sanitized)) = Texted(Range(raw)) \cap HttpTokens
  <2>1. ASSUME NEW x \in Texted(Range(Sanitized)) PROVE x \in Texted(Range(raw)) \cap HttpTokens
    <3>1. PICK c \in Range(t) \cap Valid : x = c.text
      BY <1>2 DEF Texted
    <3>2. PICK s \in Range(raw) : c = trim_ascii(s)
      BY <1>3, <3>1
    <3>3. QED
      BY <1>4, <1>5, <3>1, <3>2 DEF Texted
  <2>2. ASSUME NEW x \in Texted(Range(raw)) \cap HttpTokens PROVE x \in Texted(Range(Sanitized))
    <3>1. PICK s \in Range(raw) : x = s.text
      BY DEF Texted
    <3>2. trim_ascii(s) \in Range(t) \cap Valid /\ trim_ascii(s).text = x
      BY <1>3, <1>4, <1>5, <2>2, <3>1
    <3>3. QED
      BY <1>2, <3>2 DEF Texted
  <2>3. QED
    BY <2>1, <2>2
<1>7. NoText \notin HttpTokens
  BY TextsAssumption, TokensAssumption
<1>8. TextsOf(Rendered(raw)) \cap HttpTokens = Texted(Range(raw)) \cap HttpTokens
  BY <1>7, TextsOfRendered
<1>9. Sanitized = <<>> <=> Range(Sanitized) = {}
  BY <1>2 DEF Range
<1>10. Range(Sanitized) = {} <=> Texted(Range(Sanitized)) = {}
  BY DEF Texted
<1>11. QED
  BY <1>2, <1>6, <1>8, <1>9, <1>10

\* An answer that is the filtered header agrees with the policy.
LEMMA FilterAgrees == TypeOK /\ MirrorIsFilter => AgreesWithPolicy
<1> SUFFICES ASSUME TypeOK, MirrorIsFilter, path = "done" PROVE
        /\ headers_header(Default, Preflight(Rendered(raw))) =
               IF result = Absent THEN Absent ELSE TextsOf(result)
        /\ result # Absent => \A s \in Range(result) \ {Comma} : is_valid_token(s)
  BY DEF AgreesWithPolicy
<1> DEFINE asked == TextsOf(Rendered(raw))
<1>1. raw \in Seq(Segment)
  BY DEF TypeOK
<1>2. /\ Sanitized \in Seq(Valid) /\ Texted(Range(Sanitized)) = asked \cap HttpTokens
      /\ Sanitized = <<>> <=> asked \cap HttpTokens = {}
  BY <1>1, SanitizedTexts
<1>3. result = IF Sanitized = <<>> THEN Absent ELSE Rendered(Sanitized)
  BY DEF MirrorIsFilter
<1>4. asked # Absent
  <2>1. Range(raw) \subseteq Segment
    BY <1>1, RangeOfSeq
  <2>2. Texted(Range(raw)) \ {NoText} \subseteq Tokens
    BY <2>1, TextsAssumption DEF Texted, Segment
  <2>3. asked \in SUBSET Tokens
    BY <1>1, <2>2, TextsOfRendered
  <2>4. QED
    BY <2>3, AbsentAssumption
<1> HIDE DEF asked
<1>5. headers_header(Default, Preflight(Rendered(raw))) =
          IF asked \cap HttpTokens # {} THEN asked \cap HttpTokens ELSE Absent
  <2>1. Default.allow_headers.kind = "MirrorRequest"
    BY DEF Default, AllowHeaders_mirror_request
  <2>2. Preflight(Rendered(raw)).acrh = asked
    BY DEF Preflight, asked
  <2>3. QED
    BY <1>4, <2>1, <2>2 DEF headers_header
<1>6. CASE Sanitized = <<>>
  BY <1>2, <1>3, <1>5, <1>6
<1>7. CASE Sanitized # <<>>
  <2>1. Sanitized \in Seq(Segment) /\ Rendered(Sanitized) \in Clean
    BY <1>2, SegmentFacts, SeqMonotonic, RenderedIsClean
  <2>2. TextsOf(Rendered(Sanitized)) = (asked \cap HttpTokens) \ {NoText}
    BY <1>2, <2>1, TextsOfRendered
  <2>3. NoText \notin HttpTokens
    BY TextsAssumption, TokensAssumption
  <2>4. Rendered(Sanitized) # Absent
    BY <2>1, TextsAssumption
  <2>5. \A s \in Range(Rendered(Sanitized)) \ {Comma} : is_valid_token(s)
    <3>1. Range(Rendered(Sanitized)) \subseteq [text : HttpTokens, padded : {FALSE}] \cup {Comma}
      BY <2>1, RangeOfSeq DEF Clean
    <3>2. QED
      BY <3>1 DEF is_valid_token
  <2>6. QED
    BY <1>2, <1>3, <1>5, <1>7, <2>2, <2>3, <2>4, <2>5
<1>8. QED
  BY <1>6, <1>7

(***************************************************************************)
(* The theorems.                                                           *)
(***************************************************************************)

\* What is answered, on the way as at the end, is made of tokens and commas.
THEOREM MirrorTypeCorrect == Spec => []TypeOK
<1>1. IInv => TypeOK
  BY DEF IInv
<1>2. QED
  BY <1>1, SpecInv, PTL

\* Both paths of mirror_sanitized answer the tokens of the header, in order, and no header
\* if there is none.
THEOREM BothPathsFilter == Spec => []MirrorIsFilter
<1>1. IInv => MirrorIsFilter
  BY DEF IInv
<1>2. QED
  BY <1>1, SpecInv, PTL

\* What is answered is what CorsPolicy says of the header, and would be echoed if it were
\* asked with again.
THEOREM MirrorAgrees == Spec => []AgreesWithPolicy
<1>1. IInv => AgreesWithPolicy
  BY FilterAgrees DEF IInv
<1>2. QED
  BY <1>1, SpecInv, PTL
===============================================================================
