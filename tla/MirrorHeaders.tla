---------------------------- MODULE MirrorHeaders ----------------------------
(***************************************************************************)
(* mirror_sanitized: Access-Control-Request-Headers is echoed as it is if  *)
(* each of its segments is a token, and rebuilt from its tokens otherwise. *)
(*                                                                         *)
(* A segment is what is between the commas of a value: some text, perhaps  *)
(* none, perhaps with white space around it.  A value is a sequence of     *)
(* segments and commas.                                                    *)
(***************************************************************************)
EXTENDS CorsPolicy, Lines

CONSTANTS
    Texts,          \* what a segment holds besides white space
    MaxSegments     \* bound on the segments of a value

NoText == ""

Segment == [text : Texts \cup {NoText}, padded : BOOLEAN]
Comma   == [text |-> ",", padded |-> FALSE]

\* The value whose segments these are.
Rendered(segments) == Separated(segments, Comma)

\* What is answered holds tokens and commas only, on the way as at the end.
Clean == Seq([text : HttpTokens, padded : {FALSE}] \cup {Comma})

ASSUME TextsAssumption ==
    /\ Texts \subseteq Tokens /\ {NoText, ","} \cap Tokens = {}
    /\ Absent \notin Clean /\ MaxSegments \in Nat \ {0}

VARIABLES
    raw,        \* the segments of the request's header
    path,       \* the part of the function that runs, or "done"
    rest,       \* the segments this part has not looked at
    out,        \* what the slow path wrote
    result      \* the value answered, or Absent

vars == <<raw, path, rest, out, result>>

TypeOK ==
    /\ {raw, rest} \subseteq Seq(Segment)
    /\ path \in {"fast", "slow", "done"}
    /\ out \in Clean
    /\ result \in Clean \cup {Absent}
    /\ path = "done" \/ result = Absent

Init ==
    /\ raw \in UNION {[1..n -> Segment] : n \in 1..MaxSegments}
    /\ path = "fast"
    /\ rest = raw
    /\ out = <<>>
    /\ result = Absent

\* Mutant: an empty segment counts as a token.
is_valid_token_Empty(segment) ==
    ~segment.padded /\ segment.text \in HttpTokens \cup {NoText}

\* util.rs::is_valid_token: an empty segment is none, nor is one with white space in it.
is_valid_token(segment) == ~segment.padded /\ segment.text \in HttpTokens

trim_ascii(segment) == [segment EXCEPT !.padded = FALSE]

\* Mutant: the fast path trims what it tests, but not what it answers.
FastAccepts_Trimmed(segment) == is_valid_token(trim_ascii(segment))

FastAccepts(segment) == is_valid_token(segment)

Returns(value) == path' = "done" /\ result' = value /\ UNCHANGED <<raw, rest, out>>

\* all(is_valid_token): the scan stops at the first segment that is none.
FastScan ==
    /\ path = "fast" /\ rest # <<>>
    /\ IF FastAccepts(Head(rest))
       THEN rest' = Tail(rest) /\ UNCHANGED path
       ELSE rest' = raw /\ path' = "slow"
    /\ UNCHANGED <<raw, out, result>>

FastEcho ==
    /\ path = "fast" /\ rest = <<>>
    /\ Returns(Rendered(raw))

\* Mutant: a comma after each token instead of between them.
Written_Trailing(cleaned) == out \o <<cleaned, Comma>>

Written(cleaned) == IF out = <<>> THEN <<cleaned>> ELSE out \o <<Comma, cleaned>>

SlowScan ==
    /\ path = "slow" /\ rest # <<>>
    /\ LET cleaned == trim_ascii(Head(rest))
       IN  out' = IF is_valid_token(cleaned) THEN Written(cleaned) ELSE out
    /\ rest' = Tail(rest)
    /\ UNCHANGED <<raw, path, result>>

SlowReturn ==
    /\ path = "slow" /\ rest = <<>>
    /\ Returns(IF out = <<>> THEN Absent ELSE out)

Next == FastScan \/ FastEcho \/ SlowScan \/ SlowReturn

Spec == Init /\ [][Next]_vars

(***************************************************************************)
(* Properties.                                                             *)
(***************************************************************************)

\* The tokens of the request's header, in their order, without what surrounds them.
Trimmed(segments) == [i \in 1..Len(segments) |-> trim_ascii(segments[i])]
Sanitized == Kept(Trimmed(raw), {s \in Segment : is_valid_token(s)})

\* `Filters Access-Control-Request-Headers to valid tokens, preserving their order': both
\* paths answer every token of the request and nothing else, no white space, no empty
\* segment and no other text; and no header at all if the request has no token.
MirrorIsFilter ==
    path = "done" => result = IF Sanitized = <<>> THEN Absent ELSE Rendered(Sanitized)

\* The texts of a value, as CorsPolicy sees it.
TextsOf(value) == {s.text : s \in Range(value) \ {Comma}} \ {NoText}
Preflight(value) ==
    [method |-> "OPTIONS", origin |-> Absent, acrm |-> Absent,
     acrh |-> TextsOf(value), sec_websocket_version |-> FALSE]

\* What is answered is what CorsPolicy!headers_header says of the same header, and an
\* answer that is asked with again is echoed: it would pass the fast path.
AgreesWithPolicy ==
    path = "done" =>
        /\ headers_header(Default, Preflight(Rendered(raw))) =
               IF result = Absent THEN Absent ELSE TextsOf(result)
        /\ result # Absent => \A s \in Range(result) \ {Comma} : is_valid_token(s)
===============================================================================
