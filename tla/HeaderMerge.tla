----------------------------- MODULE HeaderMerge -----------------------------
(***************************************************************************)
(* merge_headers and dedup_vary on the bytes they write: the headers of a  *)
(* Cors go into a response one after the other, and a Vary value goes in   *)
(* token by token, through an array on the stack that spills to the heap.  *)
(* A Cors around a Cors merges into what the inner one merged.             *)
(*                                                                         *)
(* A header holds lines, a line is a sequence of pieces: tokens and the    *)
(* separators between them.  A piece has a size in bytes and a lower-case  *)
(* form; its characters are left out.  CorsPolicy!merge_headers is what    *)
(* all of this computes.                                                   *)
(***************************************************************************)
EXTENDS CorsPolicy, Lines

CONSTANTS
    Size,         \* the bytes of a token
    Lower,        \* a token in lower case
    Responses,    \* the headers an inner service may answer with
    HeaderBufs,   \* what the buffers to merge may hold
    MaxMerges     \* bound on the nesting of Cors in Cors

DEDUP_VARY_STACK == 128

Sep   == ", "
Line  == Seq(Tokens \cup {Sep})
Lines == [HeaderName -> Seq(Line)]
Pairs == Seq(HeaderName \X Line)

ASSUME SizesAssumption ==
    /\ Size \in [Tokens -> Nat \ {0}] /\ Lower \in [Tokens -> Tokens]
    /\ Sep \notin Tokens /\ Absent \notin Line /\ MaxMerges \in Nat
    /\ Responses \subseteq Lines /\ HeaderBufs \subseteq Pairs

VARIABLES
    target,     \* the HeaderMap merged into
    before,     \* the same before this merge
    headers,    \* the HeaderBuf being merged
    todo,       \* the pairs of it not merged yet
    dedup,      \* inside dedup_vary
    tokens,     \* the tokens of the value that dedup_vary has not looked at
    stack,      \* what dedup_vary wrote on the stack, stack[..len]
    len,
    heap,       \* what it wrote on the heap, once it does
    merges      \* the merges so far

vars == <<target, before, headers, todo, dedup, tokens, stack, len, heap, merges>>

TypeOK ==
    /\ {target, before} \subseteq Lines
    /\ {headers, todo} \subseteq Pairs
    /\ dedup \in BOOLEAN
    /\ tokens \in Seq(Tokens)
    /\ stack \in Line
    /\ len \in 0..DEDUP_VARY_STACK
    /\ heap \in Line \cup {Absent}
    /\ merges \in 0..MaxMerges

Init ==
    /\ target \in Responses
    /\ before = target
    /\ headers = <<>> /\ todo = <<>>
    /\ dedup = FALSE /\ tokens = <<>>
    /\ stack = <<>> /\ len = 0 /\ heap = Absent
    /\ merges = 0

(***************************************************************************)
(* merge_headers, one action per pair.                                     *)
(***************************************************************************)

Idle == todo = <<>> /\ ~dedup

Merge(buf) ==
    /\ Idle
    /\ merges < MaxMerges
    /\ merges' = merges + 1
    /\ before' = target
    /\ headers' = buf /\ todo' = buf
    /\ UNCHANGED <<target, dedup, tokens, stack, len, heap>>

Name == todo[1][1]
Val  == todo[1][2]

\* The iteration over the pairs, outside dedup_vary.
NextPair == todo # <<>> /\ ~dedup

TokensOf(line) == Kept(line, Tokens)

\* target.insert drops every line the name had.
Insert ==
    /\ NextPair /\ Name # "Vary"
    /\ target' = [target EXCEPT ![Name] = <<Val>>]
    /\ todo' = Tail(todo)
    /\ UNCHANGED <<before, headers, dedup, tokens, stack, len, heap, merges>>

\* The fast path of dedup_vary: the response has no Vary yet.
AppendWhole ==
    /\ NextPair /\ Name = "Vary" /\ target["Vary"] = <<>>
    /\ target' = [target EXCEPT !["Vary"] = <<Val>>]
    /\ todo' = Tail(todo)
    /\ UNCHANGED <<before, headers, dedup, tokens, stack, len, heap, merges>>

EnterDedup ==
    /\ NextPair /\ Name = "Vary" /\ target["Vary"] # <<>>
    /\ dedup' = TRUE
    /\ tokens' = TokensOf(Val)
    /\ stack' = <<>> /\ len' = 0 /\ heap' = Absent
    /\ UNCHANGED <<target, before, headers, todo, merges>>

(***************************************************************************)
(* The loop of dedup_vary, one action per way through an iteration.        *)
(***************************************************************************)

\* Mutant: the names are compared byte by byte.
already_listed_Verbatim(lines, tok) ==
    \E i \in 1..Len(lines) : tok \in Range(TokensOf(lines[i]))

already_listed(lines, tok) ==
    \E i \in 1..Len(lines) : \E e \in Range(TokensOf(lines[i])) : Lower[e] = Lower[tok]

\* Mutant: only the stack is looked at.
needs_sep_Stack == len > 0

needs_sep == IF heap = Absent THEN len > 0 ELSE heap # <<>>

SepLen == IF needs_sep THEN 2 ELSE 0

\* Mutants: the separator does not count; one byte of the array is never used.
FitsOnStack_WithoutSep(tok) == len + Size[tok] <= DEDUP_VARY_STACK
FitsOnStack_OffByOne(tok) == len + SepLen + Size[tok] < DEDUP_VARY_STACK

FitsOnStack(tok) == len + SepLen + Size[tok] <= DEDUP_VARY_STACK

Pushed(pieces, tok) == pieces \o (IF needs_sep THEN <<Sep, tok>> ELSE <<tok>>)

\* An iteration over a token that goes into the output.
Takes(tok) ==
    /\ dedup /\ tokens # <<>> /\ tok = Head(tokens)
    /\ ~already_listed(target["Vary"], tok)
    /\ tokens' = Tail(tokens)

Skip ==
    /\ dedup /\ tokens # <<>>
    /\ already_listed(target["Vary"], Head(tokens))
    /\ tokens' = Tail(tokens)
    /\ UNCHANGED <<target, before, headers, todo, dedup, stack, len, heap, merges>>

PushStack == \E tok \in Tokens :
    /\ Takes(tok)
    /\ heap = Absent /\ FitsOnStack(tok)
    /\ stack' = Pushed(stack, tok)
    /\ len' = len + SepLen + Size[tok]
    /\ UNCHANGED <<target, before, headers, todo, dedup, heap, merges>>

\* What the stack holds is copied to the heap first.
Spill == \E tok \in Tokens :
    /\ Takes(tok)
    /\ heap = Absent /\ ~FitsOnStack(tok)
    /\ heap' = Pushed(stack, tok)
    /\ UNCHANGED <<target, before, headers, todo, dedup, stack, len, merges>>

PushHeap == \E tok \in Tokens :
    /\ Takes(tok)
    /\ heap # Absent
    /\ heap' = Pushed(heap, tok)
    /\ UNCHANGED <<target, before, headers, todo, dedup, stack, len, merges>>

\* Mutant: the stack is returned even after a spill.
Written_Stack == stack

Written == IF heap = Absent THEN stack ELSE heap

\* The line is appended to the response's, unless nothing is left of it.
LeaveDedup ==
    /\ dedup /\ tokens = <<>>
    /\ dedup' = FALSE
    /\ target' = IF Written = <<>> THEN target
                 ELSE [target EXCEPT !["Vary"] = Append(@, Written)]
    /\ todo' = Tail(todo)
    /\ stack' = <<>> /\ len' = 0 /\ heap' = Absent
    /\ UNCHANGED <<before, headers, tokens, merges>>

Next ==
    \/ \E buf \in HeaderBufs : Merge(buf)
    \/ Insert \/ AppendWhole \/ EnterDedup
    \/ Skip \/ PushStack \/ Spill \/ PushHeap
    \/ LeaveDedup

Spec == Init /\ [][Next]_vars

(***************************************************************************)
(* Properties.                                                             *)
(***************************************************************************)

Joined(toks) == Separated(toks, Sep)

PieceSize == [piece \in Tokens \cup {Sep} |-> IF piece = Sep THEN 2 ELSE Size[piece]]
Bytes(line) == Total(line, PieceSize)

\* The tokens of the Vary value that were looked at so far.
Seen == LET all == TokensOf(Val) IN SubSeq(all, 1, Len(all) - Len(tokens))

\* At every iteration the output is the tokens seen that the response does not list, in
\* their order, with one separator between any two of them and none at either end:
\* wherever the spill comes, before, between or at the first of them.
WrittenIsFiltered ==
    dedup => Written = Joined(Kept(Seen,
                 {tok \in Tokens : ~already_listed(target["Vary"], tok)}))

\* The slices of the stack array are in bounds (they would panic) and hold what was
\* written; and nothing is allocated for an output the array has room for.
SpillsOnlyWhenFull ==
    dedup => /\ len = Bytes(stack)
             /\ len <= DEDUP_VARY_STACK
             /\ heap # Absent => Bytes(heap) > DEDUP_VARY_STACK

\* Header lines as CorsPolicy sees them.
Folded(lines) ==
    IF lines = <<>> THEN Absent
    ELSE {Lower[t] : t \in UNION {Range(TokensOf(lines[i])) : i \in 1..Len(lines)}}
FoldedMap(map) == [n \in HeaderName |-> Folded(map[n])]
FoldedBuf(buf) == [i \in 1..Len(buf) |-> <<buf[i][1], Folded(<<buf[i][2]>>)>>]

\* A whole merge, with its buffers and its spill, is CorsPolicy!merge_headers: names that
\* differ in case are one name, the inner service's Vary lines stay as they were, in front,
\* and every other header of the buffer is the only one of its name.
MergeIsUnion ==
    Idle => /\ FoldedMap(target) = merge_headers(FoldedMap(before), FoldedBuf(headers))
            /\ \E n \in 0..Len(target["Vary"]) : SubSeq(target["Vary"], 1, n) = before["Vary"]
            /\ \A i \in 1..Len(headers) :
                   headers[i][1] # "Vary" => Len(target[headers[i][1]]) = 1

\* `an inner service that itself emits e.g. Vary: Origin does not end up with a redundant
\* duplicate': a line a Cors adds names nothing an earlier line names in any case, so
\* neither does the line of a Cors around a Cors.
VaryLinesDoNotRepeat ==
    LET lines == target["Vary"]
    IN  Idle => \A i, j \in 1..Len(lines) : i < j /\ j > Len(before["Vary"]) =>
            Folded(<<lines[i]>>) \cap Folded(<<lines[j]>>) = {}
===============================================================================
