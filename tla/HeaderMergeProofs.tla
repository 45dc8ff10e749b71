-------------------------- MODULE HeaderMergeProofs --------------------------
(***************************************************************************)
(* merge_headers and dedup_vary: the stack array holds what is written,    *)
(* the output is the filtered tokens, and a merge is the union that        *)
(* CorsPolicy says, for tokens of any size, any headers and any nesting.   *)
(***************************************************************************)
EXTENDS HeaderMerge, LinesProofs

(***************************************************************************)
(* Lines and their size.                                                   *)
(***************************************************************************)

\* The constants, one by one.
LEMMA ConstantFacts ==
    /\ Size \in [Tokens -> Nat \ {0}] /\ Lower \in [Tokens -> Tokens]
    /\ Sep \notin Tokens /\ Absent \notin Line
    /\ Responses \subseteq Lines /\ HeaderBufs \subseteq Pairs
  BY SizesAssumption

\* Every piece has a size.
LEMMA PieceSizeType ==
    /\ PieceSize \in [Tokens \cup {Sep} -> Nat]
    /\ \A piece \in Tokens \cup {Sep} : PieceSize[piece] > 0
    /\ PieceSize[Sep] = 2 /\ \A tok \in Tokens : PieceSize[tok] = Size[tok]
<1>1. ASSUME NEW piece \in Tokens \cup {Sep}
      PROVE  (IF piece = Sep THEN 2 ELSE Size[piece]) \in Nat \ {0}
  BY ConstantFacts
<1>2. QED
  BY <1>1, ConstantFacts DEF PieceSize

\* The size of a line is a number, and no line but the empty one has none.
LEMMA BytesType ==
    ASSUME NEW line \in Line
    PROVE  Bytes(line) \in Nat /\ Bytes(<<>>) = 0 /\ (line # <<>> => Bytes(line) > 0)
<1> DEFINE S == Tokens \cup {Sep}
<1>1. line \in Seq(S) /\ PieceSize \in [S -> Nat]
  BY PieceSizeType DEF Line
<1> HIDE DEF S
<1>2. Bytes(line) \in Nat /\ Bytes(<<>>) = 0
  BY <1>1, TotalType DEF Bytes
<1>3. ASSUME line # <<>> PROVE Bytes(line) > 0
  <2>1. PICK s \in Seq(S), e \in S : line = Append(s, e)
    BY <1>1, <1>3, SequenceEmptyOrAppend
  <2>2. Bytes(line) = Bytes(s) + PieceSize[e] /\ Bytes(s) \in Nat
    BY <1>1, <2>1, TotalAppend, TotalType DEF Bytes
  <2>3. PieceSize[e] \in Nat /\ PieceSize[e] > 0
    BY PieceSizeType DEF S
  <2>4. QED
    BY <2>2, <2>3
<1>4. QED
  BY <1>2, <1>3

\* A token that is appended adds its size, and a separator two bytes.
LEMMA BytesAppend ==
    ASSUME NEW line \in Line, NEW tok \in Tokens
    PROVE  /\ line \o <<tok>> \in Line /\ line \o <<Sep, tok>> \in Line
           /\ Bytes(line \o <<tok>>) = Bytes(line) + Size[tok]
           /\ Bytes(line \o <<Sep, tok>>) = Bytes(line) + 2 + Size[tok]
<1> DEFINE S == Tokens \cup {Sep}
<1>1. line \in Seq(S) /\ PieceSize \in [S -> Nat] /\ tok \in S /\ Sep \in S
  BY PieceSizeType DEF Line
<1>2. PieceSize[Sep] = 2 /\ PieceSize[tok] = Size[tok] /\ Size[tok] \in Nat /\ Bytes(line) \in Nat
  BY PieceSizeType, ConstantFacts, BytesType
<1> HIDE DEF S
<1>3. /\ Append(line, tok) \in Seq(S) /\ Append(line, Sep) \in Seq(S)
      /\ Append(Append(line, Sep), tok) \in Seq(S)
      /\ line \o <<tok>> = Append(line, tok)
      /\ line \o <<Sep, tok>> = Append(Append(line, Sep), tok)
  BY <1>1
<1>4. Bytes(Append(line, tok)) = Bytes(line) + Size[tok]
  BY <1>1, <1>2, TotalAppend DEF Bytes
<1>5. Bytes(Append(Append(line, Sep), tok)) = Bytes(Append(line, Sep)) + Size[tok]
  <2> DEFINE u == Append(line, Sep)
  <2>1. u \in Seq(S)
    BY <1>3
  <2> HIDE DEF u
  <2>2. Total(Append(u, tok), PieceSize) = Total(u, PieceSize) + PieceSize[tok]
    BY <1>1, <2>1, TotalAppend
  <2>3. QED
    BY <1>2, <2>2 DEF Bytes, u
<1>6. Bytes(Append(line, Sep)) = Bytes(line) + 2
  BY <1>1, <1>2, TotalAppend DEF Bytes
<1>7. QED
  BY <1>2, <1>3, <1>4, <1>5, <1>6 DEF Line, S

\* The tokens of a line are tokens, and are in it.
LEMMA TokensOfFacts ==
    ASSUME NEW line \in Line
    PROVE  TokensOf(line) \in Seq(Tokens) /\ Range(TokensOf(line)) = Range(line) \cap Tokens
  BY KeptType, KeptRange DEF TokensOf, Line

(***************************************************************************)
(* The bounds of the array.                                                *)
(***************************************************************************)

\* What dedup_vary works on.
LoopInv ==
    dedup => /\ todo # <<>> /\ Name = "Vary" /\ target["Vary"] # <<>>
             /\ Left(TokensOf(Val), tokens)

Bounds == TypeOK /\ LoopInv /\ SpillsOnlyWhenFull

\* The pair that is merged.
LEMMA PairFacts ==
    ASSUME TypeOK, todo # <<>>
    PROVE  /\ Name \in HeaderName /\ Val \in Line /\ Head(todo) = <<Name, Val>>
           /\ Tail(todo) \in Pairs
           /\ \A n \in HeaderName : target[n] \in Seq(Line)
<1>1. todo \in Seq(HeaderName \X Line) /\ target \in [HeaderName -> Seq(Line)]
  BY DEF TypeOK, Pairs, Lines
<1>2. Head(todo) = todo[1] /\ todo[1] \in HeaderName \X Line /\ Tail(todo) \in Seq(HeaderName \X Line)
  BY <1>1
<1>3. QED
  BY <1>1, <1>2 DEF Name, Val, Pairs

\* The flag and the sizes of the code describe the output: a separator is written exactly
\* if something was, and the sum the room on the stack is tested with is the new size.
LEMMA PushFacts ==
    ASSUME Bounds, dedup, NEW tok \in Tokens
    PROVE  /\ Written \in Line /\ Pushed(Written, tok) \in Line
           /\ needs_sep <=> Written # <<>>
           /\ Bytes(Pushed(Written, tok)) = Bytes(Written) + SepLen + Size[tok]
           /\ Bytes(Written) \in Nat /\ SepLen \in Nat /\ Size[tok] \in Nat
<1>1. Written \in Line
  BY DEF Bounds, TypeOK, Written
<1>2. needs_sep <=> Written # <<>>
  <2>1. CASE heap = Absent
    <3>1. stack \in Line /\ len = Bytes(stack)
      BY DEF Bounds, TypeOK, SpillsOnlyWhenFull
    <3>2. len > 0 <=> stack # <<>>
      BY <3>1, BytesType
    <3>3. QED
      BY <2>1, <3>2 DEF needs_sep, Written
  <2>2. CASE heap # Absent
    BY <2>2 DEF needs_sep, Written
  <2>3. QED
    BY <2>1, <2>2
<1>3. /\ Written \o <<tok>> \in Line /\ Written \o <<Sep, tok>> \in Line
      /\ Bytes(Written \o <<tok>>) = Bytes(Written) + Size[tok]
      /\ Bytes(Written \o <<Sep, tok>>) = Bytes(Written) + 2 + Size[tok]
      /\ Bytes(Written) \in Nat /\ Size[tok] \in Nat
  BY <1>1, BytesAppend, BytesType, ConstantFacts
<1>4. QED
  BY <1>1, <1>2, <1>3 DEF Pushed, SepLen

\* Before the first merge there is no output.
LEMMA InitBounds == Init => Bounds
<1> SUFFICES ASSUME Init PROVE Bounds
  OBVIOUS
<1>1. target \in Lines /\ <<>> \in Line /\ <<>> \in Pairs
  BY ConstantFacts DEF Init, Line, Pairs
<1>2. 0 \in 0..MaxMerges /\ 0 \in 0..DEDUP_VARY_STACK
  <2>1. MaxMerges \in Nat
    BY SizesAssumption, Zenon
  <2>2. QED
    BY <2>1 DEF DEDUP_VARY_STACK
<1>3. <<>> \in Seq(Tokens)
  OBVIOUS
<1>4. TypeOK
  BY <1>1, <1>2, <1>3 DEF Init, TypeOK
<1>5. QED
  BY <1>4 DEF Init, Bounds, LoopInv, SpillsOnlyWhenFull

\* The steps outside the loop leave the array alone.
LEMMA OutsideBounds ==
    ASSUME Bounds, (\E buf \in HeaderBufs : Merge(buf)) \/ Insert \/ AppendWhole
    PROVE  Bounds'
<1>1. /\ ~dedup' /\ merges' \in 0..MaxMerges
      /\ UNCHANGED <<dedup, tokens, stack, len, heap>>
  <2>1. merges \in 0..MaxMerges /\ MaxMerges \in Nat
    BY SizesAssumption DEF Bounds, TypeOK
  <2>2. QED
    BY <2>1 DEF Merge, Idle, Insert, AppendWhole, NextPair
<1>2. /\ {target', before'} \subseteq Lines
      /\ {headers', todo'} \subseteq Pairs
  <2>1. CASE \E buf \in HeaderBufs : Merge(buf)
    BY <2>1, ConstantFacts DEF Merge, Bounds, TypeOK
  <2>2. CASE Insert \/ AppendWhole
    <3>1. /\ Name \in HeaderName /\ Val \in Line /\ Tail(todo) \in Pairs
          /\ target \in Lines /\ before \in Lines /\ headers \in Pairs /\ "Vary" \in HeaderName
      BY <2>2, PairFacts DEF Insert, AppendWhole, NextPair, Bounds, TypeOK, HeaderName
    <3>2. <<Val>> \in Seq(Line)
      BY <3>1
    <3>3. \A n \in HeaderName : [target EXCEPT ![n] = <<Val>>] \in Lines
      BY <3>1, <3>2 DEF Lines
    <3>4. QED
      BY <2>2, <3>1, <3>3 DEF Insert, AppendWhole
  <2>3. QED
    BY <2>1, <2>2
<1>3. QED
  BY <1>1, <1>2 DEF Bounds, TypeOK, LoopInv, SpillsOnlyWhenFull

\* Entering the loop resets the output.
LEMMA EnterBounds == Bounds /\ EnterDedup => Bounds'
<1> SUFFICES ASSUME Bounds, EnterDedup PROVE Bounds'
  OBVIOUS
<1>1. /\ todo # <<>> /\ Name = "Vary" /\ target["Vary"] # <<>> /\ tokens' = TokensOf(Val)
      /\ stack' = <<>> /\ len' = 0 /\ heap' = Absent /\ dedup' = TRUE
      /\ UNCHANGED <<target, before, headers, todo, merges>>
  BY DEF EnterDedup, NextPair
<1>2. Val \in Line /\ <<>> \in Line
  BY <1>1, PairFacts DEF Bounds, Line
<1>3. TokensOf(Val) \in Seq(Tokens) /\ Left(TokensOf(Val), TokensOf(Val))
  BY <1>2, TokensOfFacts, LoopEnds
<1>4. Bytes(<<>>) = 0
  BY <1>2, BytesType
<1>5. QED
  BY <1>1, <1>2, <1>3, <1>4
     DEF Bounds, TypeOK, LoopInv, SpillsOnlyWhenFull, Name, Val, DEDUP_VARY_STACK

\* An iteration: what the three ways to take a token and the way to skip one share.
LEMMA IterationFacts ==
    ASSUME Bounds, dedup, tokens # <<>>, tokens' = Tail(tokens),
           UNCHANGED <<target, before, headers, todo, dedup, merges>>
    PROVE  /\ tokens' \in Seq(Tokens) /\ LoopInv' /\ Val' = Val /\ Val \in Line
           /\ Done(TokensOf(Val), tokens) \in Seq(Tokens) /\ Head(tokens) \in Tokens
           /\ Done(TokensOf(Val), tokens') = Append(Done(TokensOf(Val), tokens), Head(tokens))
<1>1. todo # <<>> /\ Left(TokensOf(Val), tokens) /\ tokens \in Seq(Tokens) /\ TypeOK
  BY DEF Bounds, TypeOK, LoopInv
<1>2. Val \in Line /\ TokensOf(Val) \in Seq(Tokens)
  BY <1>1, PairFacts, TokensOfFacts
<1>3. Val' = Val /\ Name' = Name
  BY DEF Val, Name
<1>4. /\ Left(TokensOf(Val), Tail(tokens)) /\ Tail(tokens) \in Seq(Tokens)
      /\ Done(TokensOf(Val), tokens) \in Seq(Tokens) /\ Head(tokens) \in Tokens
      /\ Done(TokensOf(Val), Tail(tokens)) = Append(Done(TokensOf(Val), tokens), Head(tokens))
  BY <1>1, <1>2, LoopStep
<1>5. QED
  BY <1>2, <1>3, <1>4 DEF Bounds, LoopInv

\* A skipped token leaves the output alone.
LEMMA SkipBounds == Bounds /\ Skip => Bounds'
<1> SUFFICES ASSUME Bounds, Skip PROVE Bounds'
  OBVIOUS
<1>1. tokens' \in Seq(Tokens) /\ LoopInv'
  BY IterationFacts DEF Skip
<1>2. QED
  BY <1>1 DEF Skip, Bounds, TypeOK, SpillsOnlyWhenFull

\* A token goes on the stack if it fits there.
LEMMA PushStackBounds == Bounds /\ PushStack => Bounds'
<1> SUFFICES ASSUME Bounds, NEW tok \in Tokens,
                    Takes(tok), heap = Absent, FitsOnStack(tok),
                    stack' = Pushed(stack, tok), len' = len + SepLen + Size[tok],
                    UNCHANGED <<target, before, headers, todo, dedup, heap, merges>>
             PROVE  Bounds'
  BY DEF PushStack
<1>1. dedup /\ tokens' \in Seq(Tokens) /\ LoopInv'
  BY IterationFacts DEF Takes
<1>2. Written = stack /\ len = Bytes(stack)
  BY <1>1 DEF Written, Bounds, SpillsOnlyWhenFull
<1>3. /\ stack' \in Line /\ len' = Bytes(stack') /\ len' \in Nat
  BY <1>1, <1>2, PushFacts
<1>4. len' <= DEDUP_VARY_STACK
  BY DEF FitsOnStack
<1>5. len' \in 0..DEDUP_VARY_STACK
  BY <1>3, <1>4 DEF DEDUP_VARY_STACK
<1>6. QED
  BY <1>1, <1>3, <1>4, <1>5 DEF Bounds, TypeOK, SpillsOnlyWhenFull

\* One that does not fit takes the output to the heap.
LEMMA SpillBounds == Bounds /\ Spill => Bounds'
<1> SUFFICES ASSUME Bounds, NEW tok \in Tokens,
                    Takes(tok), heap = Absent, ~FitsOnStack(tok), heap' = Pushed(stack, tok),
                    UNCHANGED <<target, before, headers, todo, dedup, stack, len, merges>>
             PROVE  Bounds'
  BY DEF Spill
<1>1. dedup /\ tokens' \in Seq(Tokens) /\ LoopInv'
  BY IterationFacts DEF Takes
<1>2. Written = stack /\ len = Bytes(stack)
  BY <1>1 DEF Written, Bounds, SpillsOnlyWhenFull
<1>3. heap' \in Line /\ Bytes(heap') = len + SepLen + Size[tok]
      /\ len \in Nat /\ SepLen \in Nat /\ Size[tok] \in Nat
  BY <1>1, <1>2, PushFacts
<1>4. Bytes(heap') > DEDUP_VARY_STACK
  BY <1>3 DEF FitsOnStack, DEDUP_VARY_STACK
<1>5. QED
  BY <1>1, <1>3, <1>4 DEF Bounds, TypeOK, SpillsOnlyWhenFull

\* On the heap the output only grows.
LEMMA PushHeapBounds == Bounds /\ PushHeap => Bounds'
<1> SUFFICES ASSUME Bounds, NEW tok \in Tokens,
                    Takes(tok), heap # Absent, heap' = Pushed(heap, tok),
                    UNCHANGED <<target, before, headers, todo, dedup, stack, len, merges>>
             PROVE  Bounds'
  BY DEF PushHeap
<1>1. dedup /\ tokens' \in Seq(Tokens) /\ LoopInv'
  BY IterationFacts DEF Takes
<1>2. Written = heap /\ Bytes(heap) > DEDUP_VARY_STACK
  BY <1>1 DEF Written, Bounds, SpillsOnlyWhenFull
<1>3. heap' \in Line /\ Bytes(heap') = Bytes(heap) + SepLen + Size[tok]
      /\ Bytes(heap) \in Nat /\ SepLen \in Nat /\ Size[tok] \in Nat
  BY <1>1, <1>2, PushFacts
<1>4. Bytes(heap') > DEDUP_VARY_STACK
  BY <1>2, <1>3 DEF DEDUP_VARY_STACK
<1>5. QED
  BY <1>1, <1>3, <1>4 DEF Bounds, TypeOK, SpillsOnlyWhenFull

\* The line that is left is a line of the response.
LEMMA LeaveBounds == Bounds /\ LeaveDedup => Bounds'
<1> SUFFICES ASSUME Bounds, LeaveDedup PROVE Bounds'
  OBVIOUS
<1>1. dedup /\ todo # <<>> /\ Tail(todo) \in Pairs /\ target["Vary"] \in Seq(Line)
  <2>1. dedup /\ todo # <<>> /\ "Vary" \in HeaderName
    BY DEF LeaveDedup, Bounds, LoopInv, HeaderName
  <2>2. QED
    BY <2>1, PairFacts DEF Bounds
<1>2. Written \in Line /\ target \in Lines /\ <<>> \in Line
  BY DEF Bounds, TypeOK, Written, Line
<1>3. target' \in Lines
  <2>1. Append(target["Vary"], Written) \in Seq(Line)
    BY <1>1, <1>2
  <2>2. [target EXCEPT !["Vary"] = Append(target["Vary"], Written)] \in Lines
    BY <1>2, <2>1 DEF Lines
  <2>3. QED
    BY <1>2, <2>2 DEF LeaveDedup
<1>4. 0 \in 0..DEDUP_VARY_STACK
  BY DEF DEDUP_VARY_STACK
<1>5. TypeOK'
  BY <1>1, <1>2, <1>3, <1>4 DEF LeaveDedup, Bounds, TypeOK
<1>6. QED
  BY <1>5 DEF LeaveDedup, Bounds, LoopInv, SpillsOnlyWhenFull

\* Every step keeps the bounds.
LEMMA NextBounds == Bounds /\ [Next]_vars => Bounds'
<1>1. Bounds /\ UNCHANGED vars => Bounds'
  BY DEF Bounds, TypeOK, LoopInv, SpillsOnlyWhenFull, Name, Val, vars
<1>2. QED
  BY <1>1, OutsideBounds, EnterBounds, SkipBounds, PushStackBounds, SpillBounds,
     PushHeapBounds, LeaveBounds DEF Next

(***************************************************************************)
(* The output of dedup_vary.                                               *)
(***************************************************************************)

\* The tokens the response does not list.
Fresh == {tok \in Tokens : ~already_listed(target["Vary"], tok)}

\* WrittenIsFiltered, in the terms of LinesProofs.
LEMMA FilteredDef ==
    WrittenIsFiltered <=>
        (dedup => Written = Joined(Kept(Done(TokensOf(Val), tokens), Fresh)))
  BY DEF WrittenIsFiltered, Seen, Done, Fresh

Filtered == Bounds /\ WrittenIsFiltered

\* An iteration that takes a token appends it to the output, wherever that is.
LEMMA PushFiltered ==
    ASSUME Filtered, NEW tok \in Tokens, Takes(tok), Bounds',
           Written' = Pushed(Written, tok),
           UNCHANGED <<target, before, headers, todo, dedup, merges>>
    PROVE  WrittenIsFiltered'
<1> DEFINE d == Done(TokensOf(Val), tokens)
<1>1. /\ dedup /\ tokens # <<>> /\ tokens' = Tail(tokens) /\ Bounds
      /\ tok = Head(tokens) /\ tok \in Fresh
  BY DEF Takes, Filtered, Fresh
<1>2. /\ Val' = Val /\ Fresh' = Fresh
      /\ d \in Seq(Tokens) /\ Done(TokensOf(Val), tokens') = Append(d, tok)
  BY <1>1, IterationFacts DEF Fresh
<1>3. Written = Joined(Kept(d, Fresh))
  BY <1>1, FilteredDef DEF Filtered
<1> HIDE DEF d
<1>4. Kept(Append(d, tok), Fresh) = Append(Kept(d, Fresh), tok) /\ Kept(d, Fresh) \in Seq(Tokens)
  <2>1. d \in Seq(Tokens) /\ tok \in Fresh
    BY <1>1, <1>2
  <2>2. Kept(Append(d, tok), Fresh) = Append(Kept(d, Fresh), tok)
    BY <2>1, KeptAppend
  <2>3. Kept(d, Fresh) \in Seq(Tokens)
    BY <2>1, KeptType
  <2>4. QED
    BY <2>2, <2>3
<1>5. Joined(Append(Kept(d, Fresh), tok)) =
          IF Written = <<>> THEN <<tok>> ELSE Written \o <<Sep, tok>>
  <2> DEFINE S == Tokens \cup {Sep}
  <2>1. Kept(d, Fresh) \in Seq(S) /\ Sep \in S /\ tok \in S
    BY <1>4, SeqMonotonic
  <2> HIDE DEF S
  <2>2. QED
    BY <2>1, <1>3, SeparatedAppend DEF Joined
<1>6. Pushed(Written, tok) = Joined(Append(Kept(d, Fresh), tok))
  <2>1. Written \in Line /\ (needs_sep <=> Written # <<>>)
    BY <1>1, PushFacts
  <2>2. Pushed(Written, tok) = IF Written = <<>> THEN Written \o <<tok>> ELSE Written \o <<Sep, tok>>
    BY <2>1 DEF Pushed
  <2>3. Written = <<>> => Written \o <<tok>> = <<tok>>
    BY <2>1 DEF Line
  <2>4. QED
    BY <1>5, <2>2, <2>3
<1>7. Written' = Joined(Kept(Done(TokensOf(Val), tokens'), Fresh))
  BY <1>2, <1>4, <1>6
<1>8. (Done(TokensOf(Val), tokens))' = Done(TokensOf(Val), tokens')
  BY <1>2
<1>9. QED
  BY <1>2, <1>7, <1>8 DEF WrittenIsFiltered, Seen, Done, Fresh

\* Every step keeps the output filtered.
LEMMA NextFiltered == Filtered /\ [Next]_vars => Filtered'
<1> SUFFICES ASSUME Filtered, [Next]_vars PROVE WrittenIsFiltered'
  BY NextBounds DEF Filtered
<1>1. Bounds /\ Bounds'
  BY NextBounds DEF Filtered
<1>2. CASE UNCHANGED vars
  BY <1>2 DEF vars, Filtered, WrittenIsFiltered, Written, Seen, Val, already_listed
<1>3. CASE (\E buf \in HeaderBufs : Merge(buf)) \/ Insert \/ AppendWhole \/ LeaveDedup
  <2>1. ~dedup'
    BY <1>3 DEF Merge, Idle, Insert, AppendWhole, NextPair, LeaveDedup
  <2>2. QED
    BY <2>1 DEF WrittenIsFiltered
<1>4. CASE EnterDedup
  <2>1. /\ todo # <<>> /\ tokens' = TokensOf(Val) /\ Written' = <<>> /\ Val' = Val
    BY <1>4 DEF EnterDedup, NextPair, Written, Val
  <2>2. TokensOf(Val) \in Seq(Tokens)
    BY <1>1, <2>1, PairFacts, TokensOfFacts DEF Bounds
  <2>3. (Done(TokensOf(Val), tokens))' = <<>>
    BY <2>1, <2>2, LoopEnds
  <2>4. Joined(Kept(<<>>, Fresh')) = <<>>
    <3>1. Kept(<<>>, Fresh') = <<>>
      BY KeptEmpty
    <3>2. Joined(<<>>) = <<>>
      BY DEF Joined, Separated
    <3>3. QED
      BY <3>1, <3>2
  <2>5. QED
    BY <2>1, <2>3, <2>4 DEF WrittenIsFiltered, Seen, Done, Fresh
<1>5. CASE Skip
  <2> DEFINE d == Done(TokensOf(Val), tokens)
  <2>1. /\ dedup /\ tokens # <<>> /\ tokens' = Tail(tokens) /\ Head(tokens) \notin Fresh
        /\ UNCHANGED <<target, before, headers, todo, dedup, merges>>
        /\ Written' = Written
    BY <1>5 DEF Skip, Fresh, Written
  <2>2. /\ Val' = Val /\ Fresh' = Fresh /\ Head(tokens) \in Tokens
        /\ d \in Seq(Tokens) /\ Done(TokensOf(Val), tokens') = Append(d, Head(tokens))
    BY <1>1, <2>1, IterationFacts DEF Fresh
  <2>3. Written = Joined(Kept(d, Fresh))
    BY <2>1, FilteredDef DEF Filtered
  <2> HIDE DEF d
  <2>4. Kept(Append(d, Head(tokens)), Fresh) = Kept(d, Fresh)
    BY <2>1, <2>2, KeptAppend
  <2>5. Written' = Joined(Kept(Done(TokensOf(Val), tokens'), Fresh))
    BY <2>1, <2>2, <2>3, <2>4
  <2>6. QED
    BY <2>2, <2>5 DEF WrittenIsFiltered, Seen, Done, Fresh
<1>6. CASE PushStack
  <2>1. PICK tok \in Tokens :
            Takes(tok) /\ heap = Absent /\ heap' = Absent /\ stack' = Pushed(stack, tok)
    BY <1>6 DEF PushStack
  <2>2. Written' = Pushed(Written, tok)
    BY <2>1 DEF Written
  <2>3. UNCHANGED <<target, before, headers, todo, dedup, merges>>
    BY <1>6 DEF PushStack
  <2>4. QED
    BY <1>1, <2>1, <2>2, <2>3, PushFiltered
<1>7. CASE Spill \/ PushHeap
  <2>1. PICK tok \in Tokens : Takes(tok) /\ heap' = Pushed(Written, tok)
    BY <1>7 DEF Spill, PushHeap, Written
  <2>2. dedup /\ Pushed(Written, tok) \in Line
    BY <1>1, <2>1, PushFacts DEF Takes
  <2>3. Written' = Pushed(Written, tok)
    BY <2>1, <2>2, ConstantFacts DEF Written
  <2>4. UNCHANGED <<target, before, headers, todo, dedup, merges>>
    BY <1>7 DEF Spill, PushHeap
  <2>5. QED
    BY <1>1, <2>1, <2>3, <2>4, PushFiltered
<1>8. QED
  BY <1>2, <1>3, <1>4, <1>5, <1>6, <1>7 DEF Next
(***************************************************************************)
(* The names a line lists, in lower case.                                  *)
(***************************************************************************)

Names(line) == {Lower[t] : t \in Range(TokensOf(line))}

\* The names of a line are lower-case tokens, and the empty line has none.
LEMMA NamesType ==
    ASSUME NEW line \in Line
    PROVE  Names(line) \subseteq Tokens /\ Folded(<<line>>) = Names(line) /\ Names(<<>>) = {}
<1>1. Range(TokensOf(line)) \subseteq Tokens
  BY TokensOfFacts
<1>2. Folded(<<line>>) = Names(line)
  <2>1. <<line>> # <<>> /\ 1..Len(<<line>>) = {1} /\ <<line>>[1] = line
    OBVIOUS
  <2>2. UNION {Range(TokensOf(<<line>>[i])) : i \in {1}} = Range(TokensOf(line))
    BY <2>1
  <2>3. QED
    BY <2>1, <2>2 DEF Folded, Names
<1>3. TokensOf(<<>>) = <<>>
  BY KeptEmpty DEF TokensOf
<1>4. QED
  BY <1>1, <1>2, <1>3, ConstantFacts DEF Names, Range

\* A header lists the names of its lines.
LEMMA FoldedFacts ==
    ASSUME NEW lines \in Seq(Line), lines # <<>>
    PROVE  /\ Folded(lines) \in SUBSET Tokens /\ Folded(lines) # Absent
           /\ \A x : x \in Folded(lines) <=> \E i \in 1..Len(lines) : x \in Names(lines[i])
           /\ \A tok \in Tokens : already_listed(lines, tok) <=> Lower[tok] \in Folded(lines)
<1>1. \A i \in 1..Len(lines) : lines[i] \in Line
  OBVIOUS
<1>2. \A x : x \in Folded(lines) <=> \E i \in 1..Len(lines) : x \in Names(lines[i])
  BY DEF Folded, Names
<1>3. Folded(lines) \subseteq Tokens
  BY <1>1, <1>2, NamesType
<1>4. ASSUME NEW tok \in Tokens
      PROVE  already_listed(lines, tok) <=> Lower[tok] \in Folded(lines)
  BY <1>2 DEF already_listed, Names
<1>5. QED
  BY <1>2, <1>3, <1>4, AbsentAssumption

\* A line more adds its names.
LEMMA FoldedAppend ==
    ASSUME NEW lines \in Seq(Line), lines # <<>>, NEW line \in Line
    PROVE  Folded(Append(lines, line)) = Folded(lines) \cup Names(line)
<1> DEFINE more == Append(lines, line)
<1>1. /\ more \in Seq(Line) /\ more # <<>> /\ Len(more) = Len(lines) + 1 /\ Len(lines) \in Nat
      /\ more[Len(lines) + 1] = line /\ \A i \in 1..Len(lines) : more[i] = lines[i]
  OBVIOUS
<1> HIDE DEF more
<1>2. \A x : x \in Folded(more) <=> \E i \in 1..(Len(lines) + 1) : x \in Names(more[i])
  BY <1>1, FoldedFacts
<1>3. \A x : x \in Folded(lines) <=> \E i \in 1..Len(lines) : x \in Names(lines[i])
  BY FoldedFacts
<1>4. ASSUME NEW x
      PROVE  (\E i \in 1..(Len(lines) + 1) : x \in Names(more[i])) <=>
                 (\E i \in 1..Len(lines) : x \in Names(lines[i])) \/ x \in Names(line)
  <2>1. \A i \in 1..(Len(lines) + 1) : i \in 1..Len(lines) \/ i = Len(lines) + 1
    BY <1>1
  <2>2. \A i \in 1..Len(lines) : i \in 1..(Len(lines) + 1)
    BY <1>1
  <2>3. Len(lines) + 1 \in 1..(Len(lines) + 1)
    BY <1>1
  <2>4. QED
    BY <1>1, <2>1, <2>2, <2>3
<1>5. Folded(more) \subseteq Folded(lines) \cup Names(line)
  BY <1>2, <1>3, <1>4
<1>6. Folded(lines) \cup Names(line) \subseteq Folded(more)
  BY <1>2, <1>3, <1>4
<1>7. QED
  BY <1>5, <1>6 DEF more

\* The loop over, the output names what the value names and the response does not.
LEMMA WrittenNames ==
    ASSUME Filtered, dedup, tokens = <<>>
    PROVE  /\ Written \in Line /\ Val \in Line /\ target["Vary"] \in Seq(Line)
           /\ Names(Written) = Names(Val) \ Folded(target["Vary"])
<1>1. todo # <<>> /\ target["Vary"] # <<>> /\ "Vary" \in HeaderName /\ TypeOK
  BY DEF Filtered, Bounds, LoopInv, HeaderName
<1>2. Written \in Line /\ Val \in Line /\ target["Vary"] \in Seq(Line)
  BY <1>1, PairFacts, PushFacts, ConstantFacts DEF Written, TypeOK
<1> DEFINE all == TokensOf(Val)
<1>3. all \in Seq(Tokens) /\ Fresh \subseteq Tokens
  BY <1>2, TokensOfFacts DEF Fresh
<1>4. Written = Joined(Kept(all, Fresh))
  BY <1>3, LoopEnds, FilteredDef DEF Filtered
<1> HIDE DEF all
<1>5. Range(TokensOf(Written)) = Range(all) \cap Fresh
  <2>1. Kept(all, Fresh) \in Seq(Tokens) /\ Range(Kept(all, Fresh)) = Range(all) \cap Fresh
    BY <1>3, KeptType, KeptRange
  <2> DEFINE S == Tokens \cup {Sep}
             k == Kept(all, Fresh)
  <2>2. k \in Seq(S) /\ Sep \in S
    BY <2>1, SeqMonotonic
  <2> HIDE DEF S, k
  <2>3. Range(Separated(k, Sep)) \ {Sep} = Range(k) \ {Sep}
    BY <2>2, SeparatedRange
  <2>4. Range(Written) \ {Sep} = Range(all) \cap Fresh
    BY <1>3, <1>4, <2>1, <2>3, ConstantFacts DEF Joined, k
  <2>5. Range(TokensOf(Written)) = Range(Written) \cap Tokens
    BY <1>2, TokensOfFacts
  <2>6. Range(Written) \subseteq Tokens \cup {Sep}
    BY <1>2 DEF Line, Range
  <2>7. QED
    BY <1>3, <2>4, <2>5, <2>6, ConstantFacts
<1>6. \A tok \in Tokens : tok \in Fresh <=> Lower[tok] \notin Folded(target["Vary"])
  BY <1>1, <1>2, FoldedFacts DEF Fresh
<1>7. Range(all) \subseteq Tokens
  BY <1>3 DEF Range
<1>8. Names(Written) = Names(Val) \ Folded(target["Vary"])
  BY <1>5, <1>6, <1>7 DEF Names, all
<1>9. QED
  BY <1>2, <1>8
(***************************************************************************)
(* A merge, pair by pair.                                                  *)
(***************************************************************************)

OneMore(buf, name, value) == Append(buf, <<name, value>>)

\* r2 is r with the value merged into the header.
MergesInto(r2, r, name, value) ==
    \A n \in HeaderName :
        r2[n] = IF n # name THEN r[n]
                ELSE IF name = "Vary" /\ r["Vary"] # Absent THEN r["Vary"] \cup value
                ELSE value

\* What CorsPolicy!merge_headers does with one pair more.
LEMMA MergeOneMore ==
    ASSUME NEW m \in HeaderMap, NEW buf \in Seq(HeaderName \X SUBSET Tokens),
           NEW name \in HeaderName, NEW value \in SUBSET Tokens,
           NEW r, r = merge_headers(m, buf)
    PROVE  MergesInto(merge_headers(m, OneMore(buf, name, value)), r, name, value)
<1> DEFINE more   == Append(buf, <<name, value>>)
           N      == Len(buf)
           at(n)   == {i \in 1..N : buf[i][1] = n}
           last(n) == {i \in at(n) : \A j \in at(n) : j <= i}
           mine(n) == UNION {buf[i][2] : i \in IF n = "Vary" THEN at(n) ELSE last(n)}
           at2(n)   == {i \in 1..(N + 1) : more[i][1] = n}
           last2(n) == {i \in at2(n) : \A j \in at2(n) : j <= i}
           mine2(n) == UNION {more[i][2] : i \in IF n = "Vary" THEN at2(n) ELSE last2(n)}
           r2     == merge_headers(m, more)
<1>1. /\ N \in Nat /\ Len(more) = N + 1 /\ more[N + 1] = <<name, value>>
      /\ \A i \in 1..N : more[i] = buf[i] /\ buf[i][2] \in SUBSET Tokens
      /\ \A i \in 1..(N + 1) : i \in 1..N \/ i = N + 1
      /\ \A i \in 1..N : i \in 1..(N + 1) /\ i < N + 1
  OBVIOUS
<1> HIDE DEF more, N
<1>2. \A n \in HeaderName :
          r[n] = IF at(n) = {} THEN m[n]
                 ELSE IF n = "Vary" /\ m[n] # Absent THEN m[n] \cup mine(n) ELSE mine(n)
  BY DEF merge_headers, N
<1>3. \A n \in HeaderName :
          r2[n] = IF at2(n) = {} THEN m[n]
                  ELSE IF n = "Vary" /\ m[n] # Absent THEN m[n] \cup mine2(n) ELSE mine2(n)
  BY <1>1 DEF merge_headers
<1>4. ASSUME NEW n \in HeaderName, n # name PROVE r2[n] = r[n]
  <2>1. at2(n) = at(n)
    BY <1>1, <1>4
  <2>2. last2(n) = last(n)
    BY <2>1
  <2>3. \A i \in at(n) : more[i] = buf[i]
    BY <1>1
  <2>4. mine2(n) = mine(n)
    <3> DEFINE I == IF n = "Vary" THEN at(n) ELSE last(n)
    <3>1. mine2(n) = UNION {more[i][2] : i \in I} /\ mine(n) = UNION {buf[i][2] : i \in I}
      BY <2>1, <2>2
    <3>2. \A i \in I : more[i] = buf[i]
      BY <2>3
    <3> HIDE DEF I, mine, mine2
    <3>3. QED
      BY <3>1, <3>2
  <2> HIDE DEF at, at2, mine, mine2
  <2>5. QED
    BY <1>2, <1>3, <2>1, <2>4
<1>5. at2(name) = at(name) \cup {N + 1} /\ N + 1 \in 1..(N + 1)
  BY <1>1
<1>6. ASSUME name # "Vary" PROVE r2[name] = value
  <2>1. \A j \in at2(name) : j <= N + 1
    BY <1>1
  <2>2. \A i \in at2(name) : i # N + 1 => ~(N + 1 <= i)
    BY <1>1
  <2>3. last2(name) = {N + 1}
    BY <1>5, <2>1, <2>2
  <2>4. mine2(name) = value
    BY <1>1, <1>6, <2>3
  <2>5. at2(name) # {}
    BY <1>5
  <2> HIDE DEF at2, mine2
  <2>6. QED
    BY <1>3, <1>6, <2>4, <2>5
<1>7. ASSUME name = "Vary"
      PROVE  r2[name] = IF r["Vary"] # Absent THEN r["Vary"] \cup value ELSE value
  <2>1. mine2(name) = mine(name) \cup value
    <3>1. mine2(name) = UNION {more[i][2] : i \in at(name) \cup {N + 1}}
      BY <1>5, <1>7
    <3>2. mine(name) = UNION {buf[i][2] : i \in at(name)}
      BY <1>7
    <3>3. \A i \in at(name) : more[i] = buf[i]
      BY <1>1
    <3>4. more[N + 1][2] = value
      BY <1>1
    <3> HIDE DEF at, mine, mine2
    <3>5. QED
      BY <3>1, <3>2, <3>3, <3>4
  <2>2. mine(name) \in SUBSET Tokens /\ (at(name) = {} => mine(name) = {})
    BY <1>1, <1>7
  <2>3. at2(name) # {}
    BY <1>5
  <2>4. mine(name) # Absent
    BY <2>2, AbsentAssumption
  <2>5. ASSUME m["Vary"] # Absent
        PROVE  r["Vary"] = m["Vary"] \cup mine(name) /\ r["Vary"] # Absent
    <3>1. m["Vary"] \in SUBSET Tokens
      BY <1>7, <2>5 DEF HeaderMap, OptValue, Value
    <3> HIDE DEF at, mine
    <3>2. r["Vary"] = m["Vary"] \cup mine(name)
      BY <1>2, <1>7, <2>2, <2>5
    <3>3. QED
      BY <2>2, <3>1, <3>2, AbsentAssumption
  <2> HIDE DEF r2, at, at2, mine, mine2
  <2>6. r2["Vary"] = IF m["Vary"] # Absent THEN m["Vary"] \cup mine2(name) ELSE mine2(name)
    BY <1>3, <1>7, <2>3
  <2>7. m["Vary"] = Absent => r["Vary"] = IF at(name) = {} THEN Absent ELSE mine(name)
    BY <1>2, <1>7
  <2>8. QED
    BY <1>7, <2>1, <2>2, <2>4, <2>5, <2>6, <2>7
<1> HIDE DEF r2
<1>8. MergesInto(r2, r, name, value)
  BY <1>4, <1>6, <1>7 DEF MergesInto
<1>9. QED
  BY <1>8 DEF more, r2, OneMore

\* Nothing to merge changes nothing.
LEMMA MergeNothing ==
    ASSUME NEW m \in HeaderMap
    PROVE  merge_headers(m, <<>>) = m
<1>1. \A n \in HeaderName : {i \in 1..Len(<<>>) : <<>>[i][1] = n} = {}
  OBVIOUS
<1>2. m = [n \in HeaderName |-> m[n]]
  BY DEF HeaderMap
<1>3. QED
  BY <1>1, <1>2 DEF merge_headers

\* Headers and buffers as CorsPolicy sees them.
LEMMA FoldedMapType ==
    ASSUME NEW map \in Lines
    PROVE  /\ FoldedMap(map) \in HeaderMap
           /\ \A n \in HeaderName : FoldedMap(map)[n] = Folded(map[n])
           /\ \A n \in HeaderName : map[n] \in Seq(Line)
<1>1. \A n \in HeaderName : map[n] \in Seq(Line)
  BY DEF Lines
<1>2. \A n \in HeaderName : Folded(map[n]) \in OptValue
  <2>1. Folded(<<>>) = Absent
    BY DEF Folded
  <2>2. QED
    BY <1>1, <2>1, FoldedFacts DEF OptValue, Value
<1>3. QED
  BY <1>1, <1>2 DEF FoldedMap, HeaderMap

LEMMA FoldedBufAppend ==
    ASSUME NEW buf \in Pairs, NEW name \in HeaderName, NEW line \in Line
    PROVE  /\ FoldedBuf(buf) \in Seq(HeaderName \X SUBSET Tokens) /\ FoldedBuf(<<>>) = <<>>
           /\ FoldedBuf(Append(buf, <<name, line>>)) = Append(FoldedBuf(buf), <<name, Names(line)>>)
<1> DEFINE P    == HeaderName \X SUBSET Tokens
           more == Append(buf, <<name, line>>)
           N    == Len(buf)
<1>1. /\ N \in Nat /\ Len(more) = N + 1 /\ more[N + 1] = <<name, line>>
      /\ \A i \in 1..N : more[i] = buf[i] /\ buf[i][1] \in HeaderName /\ buf[i][2] \in Line
      /\ \A i \in 1..(N + 1) : i \in 1..N \/ i = N + 1
  BY DEF Pairs
<1> HIDE DEF more
<1>2. FoldedBuf(buf) \in Seq(P) /\ Len(FoldedBuf(buf)) = N
  <2>1. \A i \in 1..N : <<buf[i][1], Folded(<<buf[i][2]>>)>> \in P
    BY <1>1, NamesType
  <2> HIDE DEF P
  <2>2. FoldedBuf(buf) \in [1..N -> P]
    BY <2>1 DEF FoldedBuf
  <2> HIDE DEF N
  <2>3. QED
    BY <1>1, <2>2
<1>3. <<name, Names(line)>> \in P
  BY NamesType
<1> HIDE DEF P
<1>4. \A i \in 1..(N + 1) : FoldedBuf(more)[i] = Append(FoldedBuf(buf), <<name, Names(line)>>)[i]
  <2>1. ASSUME NEW i \in 1..N
        PROVE  FoldedBuf(more)[i] = Append(FoldedBuf(buf), <<name, Names(line)>>)[i]
    <3>1. FoldedBuf(more)[i] = FoldedBuf(buf)[i]
      BY <1>1 DEF FoldedBuf
    <3>2. Append(FoldedBuf(buf), <<name, Names(line)>>)[i] = FoldedBuf(buf)[i]
      BY <1>2, <1>3
    <3>3. QED
      BY <3>1, <3>2
  <2>2. FoldedBuf(more)[N + 1] = <<name, Folded(<<line>>)>>
    BY <1>1 DEF FoldedBuf
  <2>3. Append(FoldedBuf(buf), <<name, Names(line)>>)[N + 1] = <<name, Names(line)>>
    BY <1>2, <1>3
  <2>4. Folded(<<line>>) = Names(line)
    BY NamesType
  <2>5. QED
    BY <1>1, <2>1, <2>2, <2>3, <2>4
<1>5. /\ Append(FoldedBuf(buf), <<name, Names(line)>>) \in Seq(P)
      /\ Len(Append(FoldedBuf(buf), <<name, Names(line)>>)) = N + 1
  BY <1>2, <1>3
<1>6. DOMAIN FoldedBuf(more) = 1..(N + 1) /\ FoldedBuf(more) = [i \in 1..(N + 1) |-> FoldedBuf(more)[i]]
  BY <1>1 DEF FoldedBuf
<1> DEFINE u == Append(FoldedBuf(buf), <<name, Names(line)>>)
           v == FoldedBuf(more)
<1>7. u = [i \in 1..(N + 1) |-> u[i]]
  <2> HIDE DEF u
  <2>1. u \in Seq(P) /\ Len(u) = N + 1
    BY <1>5 DEF u
  <2> HIDE DEF N
  <2>2. QED
    BY <2>1
<1>8. u = v
  <2>1. v = [i \in 1..(N + 1) |-> v[i]] /\ \A i \in 1..(N + 1) : v[i] = u[i]
    BY <1>4, <1>6
  <2> HIDE DEF u, v
  <2>2. QED
    BY <1>7, <2>1
<1>9. FoldedBuf(<<>>) = <<>>
  BY DEF FoldedBuf
<1>10. QED
  BY <1>2, <1>8, <1>9 DEF P, more, u, v

\* The lines a merge found are in front of those it leaves.
InFront(s, t) == \E n \in 0..Len(t) : SubSeq(t, 1, n) = s

\* They stay there when a line is appended.
LEMMA InFrontAppend ==
    ASSUME NEW t \in Seq(Line), NEW line \in Line
    PROVE  /\ InFront(t, t)
           /\ \A s : InFront(s, t) => InFront(s, Append(t, line))
<1>1. InFront(t, t)
  BY SubSeqFull DEF InFront
<1>2. ASSUME NEW n \in 0..Len(t) PROVE SubSeq(Append(t, line), 1, n) = SubSeq(t, 1, n)
  <2> DEFINE a == SubSeq(Append(t, line), 1, n)
             b == SubSeq(t, 1, n)
  <2>1. /\ Append(t, line) \in Seq(Line) /\ Len(Append(t, line)) = Len(t) + 1 /\ Len(t) \in Nat
        /\ \A i \in 1..Len(t) : Append(t, line)[i] = t[i]
    OBVIOUS
  <2>2. a = [i \in 1..n |-> Append(t, line)[i]] /\ b = [i \in 1..n |-> t[i]]
    BY <2>1
  <2>3. \A i \in 1..n : Append(t, line)[i] = t[i]
    BY <2>1
  <2> HIDE DEF a, b
  <2>4. a = b
    BY <2>2, <2>3
  <2>5. QED
    BY <2>4 DEF a, b
<1>3. ASSUME NEW s, InFront(s, t) PROVE InFront(s, Append(t, line))
  <2>1. PICK n \in 0..Len(t) : SubSeq(t, 1, n) = s
    BY <1>3 DEF InFront
  <2>2. n \in 0..Len(Append(t, line)) /\ SubSeq(Append(t, line), 1, n) = s
    BY <1>2, <2>1
  <2>3. QED
    BY <2>2 DEF InFront
<1>4. QED
  BY <1>1, <1>3
\* The pairs merged so far.
Merged == Done(headers, todo)

\* What holds of a merge between any two pairs, and inside dedup_vary.
MergeInv ==
    /\ Left(headers, todo)
    /\ FoldedMap(target) = merge_headers(FoldedMap(before), FoldedBuf(Merged))
    /\ InFront(before["Vary"], target["Vary"])
    /\ \A i \in 1..Len(Merged) : Merged[i][1] # "Vary" => Len(target[Merged[i][1]]) = 1

\* A pair is merged when the lines of its name say what merge_headers would say.
LEMMA PairMerges ==
    ASSUME TypeOK, MergeInv, todo # <<>>, todo' = Tail(todo), UNCHANGED <<before, headers>>,
           NEW lines \in Seq(Line), target' = [target EXCEPT ![Name] = lines],
           Folded(lines) = IF Name = "Vary" /\ target["Vary"] # <<>>
                           THEN Folded(target["Vary"]) \cup Names(Val) ELSE Names(Val),
           IF Name = "Vary" THEN InFront(before["Vary"], lines) ELSE Len(lines) = 1
    PROVE  MergeInv'
<1> DEFINE P  == HeaderName \X Line
           b  == FoldedMap(before)
           m  == FoldedMap(target)
           fb == FoldedBuf(Merged)
<1>1. /\ Name \in HeaderName /\ Val \in Line /\ Head(todo) = <<Name, Val>>
      /\ headers \in Seq(P) /\ todo \in Seq(P) /\ target \in Lines /\ before \in Lines
      /\ "Vary" \in HeaderName /\ Left(headers, todo)
  BY PairFacts DEF TypeOK, Pairs, MergeInv, HeaderName
<1>2. /\ Left(headers, Tail(todo)) /\ Merged \in Seq(P)
      /\ Done(headers, Tail(todo)) = Append(Merged, <<Name, Val>>)
  <2> HIDE DEF P
  <2>1. QED
    BY <1>1, LoopStep DEF Merged
<1>3. Merged' = Append(Merged, <<Name, Val>>) /\ Left(headers, todo)'
  BY <1>2 DEF Merged
<1>4. Merged \in Pairs
  BY <1>2 DEF Pairs
<1>5. FoldedMap(target') = merge_headers(b, FoldedBuf(Append(Merged, <<Name, Val>>)))
  <2>1. b \in HeaderMap /\ Names(Val) \in SUBSET Tokens
    BY <1>1, FoldedMapType, NamesType
  <2>2. /\ fb \in Seq(HeaderName \X SUBSET Tokens)
        /\ FoldedBuf(Append(Merged, <<Name, Val>>)) = Append(fb, <<Name, Names(Val)>>)
    BY <1>1, <1>4, FoldedBufAppend
  <2>3. m = merge_headers(b, fb)
    BY DEF MergeInv
  <2>4. m["Vary"] = Folded(target["Vary"]) /\ (m["Vary"] # Absent <=> target["Vary"] # <<>>)
    <3>1. target["Vary"] \in Seq(Line) /\ m["Vary"] = Folded(target["Vary"])
      BY <1>1, FoldedMapType
    <3>2. target["Vary"] # <<>> => Folded(target["Vary"]) # Absent
      BY <3>1, FoldedFacts
    <3>3. target["Vary"] = <<>> => Folded(target["Vary"]) = Absent
      BY DEF Folded
    <3>4. QED
      BY <3>1, <3>2, <3>3
  <2>5. \A n \in HeaderName :
            FoldedMap(target')[n] = IF n # Name THEN m[n] ELSE Folded(lines)
    <3>1. DOMAIN target = HeaderName
      BY <1>1 DEF Lines
    <3>2. ASSUME NEW n \in HeaderName, n # Name PROVE FoldedMap(target')[n] = m[n]
      <4>1. target'[n] = target[n]
        BY <1>1, <3>1, <3>2
      <4>2. QED
        BY <4>1 DEF FoldedMap
    <3>3. FoldedMap(target')[Name] = Folded(lines)
      <4>1. target'[Name] = lines
        BY <1>1, <3>1
      <4>2. QED
        BY <1>1, <4>1 DEF FoldedMap
    <3> HIDE DEF m
    <3>4. QED
      BY <3>2, <3>3
  <2> HIDE DEF b, m, fb
  <2> DEFINE v  == Names(Val)
             r2 == merge_headers(b, OneMore(fb, Name, v))
  <2>6. v \in SUBSET Tokens
    BY <2>1
  <2> HIDE DEF v
  <2>7. MergesInto(r2, m, Name, v)
    BY <1>1, <2>1, <2>2, <2>3, <2>6, MergeOneMore
  <2>8. Folded(lines) = IF Name = "Vary" /\ m["Vary"] # Absent THEN m["Vary"] \cup v ELSE v
    BY <2>4 DEF v
  <2> DEFINE f2 == FoldedMap(target')
  <2>9. f2 = [n \in HeaderName |-> f2[n]]
    BY DEF FoldedMap
  <2>10. r2 = [n \in HeaderName |-> r2[n]]
    BY DEF merge_headers
  <2> HIDE DEF f2, r2
  <2>11. \A n \in HeaderName : f2[n] = r2[n]
    BY <2>5, <2>7, <2>8 DEF f2, MergesInto
  <2>12. f2 = r2
    BY <2>9, <2>10, <2>11
  <2>13. QED
    BY <2>2, <2>12 DEF f2, r2, v, OneMore
<1>6. (FoldedMap(target) = merge_headers(FoldedMap(before), FoldedBuf(Merged)))'
  <2>1. FoldedMap(before)' = b /\ FoldedMap(target)' = FoldedMap(target')
    BY DEF FoldedMap
  <2>2. FoldedBuf(Merged)' = FoldedBuf(Append(Merged, <<Name, Val>>))
    BY <1>3 DEF FoldedBuf
  <2>3. QED
    BY <1>5, <2>1, <2>2
<1>7. InFront(before["Vary"], target["Vary"])'
  <2>1. target'["Vary"] = IF Name = "Vary" THEN lines ELSE target["Vary"]
    BY <1>1 DEF Lines
  <2>2. InFront(before["Vary"], target'["Vary"])
    BY <2>1 DEF MergeInv
  <2>3. QED
    BY <2>2 DEF InFront
<1>8. (\A i \in 1..Len(Merged) : Merged[i][1] # "Vary" => Len(target[Merged[i][1]]) = 1)'
  <2> DEFINE more == Append(Merged, <<Name, Val>>)
  <2>1. /\ Len(more) = Len(Merged) + 1 /\ Len(Merged) \in Nat
        /\ more[Len(Merged) + 1] = <<Name, Val>>
        /\ \A i \in 1..Len(Merged) : more[i] = Merged[i] /\ Merged[i][1] \in HeaderName
        /\ \A i \in 1..(Len(Merged) + 1) : i \in 1..Len(Merged) \/ i = Len(Merged) + 1
    BY <1>2
  <2> HIDE DEF more
  <2>2. \A n \in HeaderName : target'[n] = IF n = Name THEN lines ELSE target[n]
    BY <1>1 DEF Lines
  <2>3. ASSUME NEW i \in 1..(Len(Merged) + 1), more[i][1] # "Vary"
        PROVE  Len(target'[more[i][1]]) = 1
    <3>1. CASE more[i][1] = Name
      BY <1>1, <2>2, <2>3, <3>1
    <3>2. CASE more[i][1] # Name
      <4>1. i \in 1..Len(Merged) /\ more[i] = Merged[i] /\ Merged[i][1] \in HeaderName
        BY <2>1, <3>2
      <4>2. QED
        BY <2>2, <2>3, <3>2, <4>1 DEF MergeInv
    <3>3. QED
      BY <3>1, <3>2
  <2>4. Merged' = more
    BY <1>3 DEF more
  <2>5. QED
    BY <2>1, <2>3, <2>4
<1>9. QED
  BY <1>3, <1>6, <1>7, <1>8 DEF MergeInv

\* VaryLinesDoNotRepeat, at every step.
NoRepeat ==
    LET lines == target["Vary"]
    IN  \A i, j \in 1..Len(lines) : i < j /\ j > Len(before["Vary"]) =>
            Folded(<<lines[i]>>) \cap Folded(<<lines[j]>>) = {}

IInv == Filtered /\ MergeInv /\ NoRepeat

\* Before the first merge, and at the start of one, nothing is merged.
LEMMA MergeStarts ==
    ASSUME TypeOK, headers = todo, before = target
    PROVE  MergeInv /\ NoRepeat
<1>1. headers \in Seq(HeaderName \X Line) /\ target \in Lines
  BY DEF TypeOK, Pairs
<1>2. Left(headers, todo) /\ Merged = <<>>
  BY <1>1, LoopEnds DEF Merged
<1>3. FoldedMap(target) = merge_headers(FoldedMap(before), FoldedBuf(Merged))
  <2>1. FoldedBuf(<<>>) = <<>>
    BY DEF FoldedBuf
  <2>2. FoldedMap(target) \in HeaderMap
    BY <1>1, FoldedMapType
  <2>3. QED
    BY <1>2, <2>1, <2>2, MergeNothing
<1>4. target["Vary"] \in Seq(Line)
  BY <1>1, FoldedMapType DEF HeaderName
<1>5. InFront(before["Vary"], target["Vary"])
  BY <1>4, InFrontAppend, SubSeqFull DEF InFront
<1>6. MergeInv
  BY <1>2, <1>3, <1>5 DEF MergeInv
<1>7. NoRepeat
  BY <1>4 DEF NoRepeat
<1>8. QED
  BY <1>6, <1>7
\* A header that is not Vary, and the first Vary line.
LEMMA PutWhole ==
    ASSUME TypeOK, MergeInv, NoRepeat, Insert \/ AppendWhole
    PROVE  MergeInv' /\ NoRepeat'
<1>1. /\ todo # <<>> /\ todo' = Tail(todo) /\ UNCHANGED <<before, headers>>
      /\ target' = [target EXCEPT ![Name] = <<Val>>]
      /\ Name = "Vary" => target["Vary"] = <<>>
  BY DEF Insert, AppendWhole, NextPair
<1>2. /\ Name \in HeaderName /\ Val \in Line /\ <<Val>> \in Seq(Line) /\ "Vary" \in HeaderName
      /\ target \in Lines
  BY <1>1, PairFacts DEF HeaderName, TypeOK
<1>3. Folded(<<Val>>) = Names(Val)
  BY <1>2, NamesType
<1>4. ASSUME Name = "Vary" PROVE InFront(before["Vary"], <<Val>>)
  <2>1. <<>> \in Seq(Line) /\ Append(<<>>, Val) = <<Val>>
    BY <1>2
  <2>2. InFront(before["Vary"], <<>>)
    BY <1>1, <1>4 DEF MergeInv
  <2>3. InFront(before["Vary"], Append(<<>>, Val))
    BY <1>2, <2>1, <2>2, InFrontAppend
  <2>4. QED
    BY <2>1, <2>3
<1>5. Len(<<Val>>) = 1
  OBVIOUS
<1>6. MergeInv'
  BY <1>1, <1>2, <1>3, <1>4, <1>5, PairMerges
<1>7. NoRepeat'
  <2>1. target'["Vary"] = IF Name = "Vary" THEN <<Val>> ELSE target["Vary"]
    BY <1>1, <1>2 DEF Lines
  <2>2. CASE Name = "Vary"
    <3>1. Len(target'["Vary"]) = 1
      BY <1>5, <2>1, <2>2
    <3>2. QED
      BY <3>1 DEF NoRepeat
  <2>3. CASE Name # "Vary"
    <3>1. target'["Vary"] = target["Vary"]
      BY <2>1, <2>3
    <3>2. QED
      BY <1>1, <3>1 DEF NoRepeat
  <2>4. QED
    BY <2>2, <2>3
<1>8. QED
  BY <1>6, <1>7

\* The line dedup_vary leaves names what the value names and the response did not.
LEMMA PutRest ==
    ASSUME Filtered, MergeInv, NoRepeat, LeaveDedup
    PROVE  MergeInv' /\ NoRepeat'
<1> DEFINE old   == target["Vary"]
           lines == IF Written = <<>> THEN old ELSE Append(old, Written)
<1>1. /\ dedup /\ tokens = <<>> /\ TypeOK /\ todo # <<>> /\ Name = "Vary" /\ old # <<>>
      /\ todo' = Tail(todo) /\ UNCHANGED <<before, headers>>
      /\ "Vary" \in HeaderName /\ target \in Lines
  BY DEF LeaveDedup, Filtered, Bounds, TypeOK, LoopInv, HeaderName
<1>2. /\ Written \in Line /\ Val \in Line /\ old \in Seq(Line)
      /\ Names(Written) = Names(Val) \ Folded(old)
  BY <1>1, WrittenNames
<1>3. target' = [target EXCEPT ![Name] = lines]
  <2>1. CASE Written = <<>>
    <3>1. target = [target EXCEPT !["Vary"] = target["Vary"]]
      BY <1>1 DEF Lines
    <3>2. QED
      BY <1>1, <2>1, <3>1 DEF LeaveDedup
  <2>2. CASE Written # <<>>
    BY <1>1, <2>2 DEF LeaveDedup
  <2>3. QED
    BY <2>1, <2>2
<1>4. lines \in Seq(Line) /\ InFront(before["Vary"], lines)
  <2>1. InFront(before["Vary"], old)
    BY DEF MergeInv
  <2> HIDE DEF old
  <2>2. InFront(before["Vary"], Append(old, Written))
    BY <1>2, <2>1, InFrontAppend
  <2>3. QED
    BY <1>2, <2>1, <2>2
<1>5. Folded(lines) = Folded(old) \cup Names(Val)
  <2> HIDE DEF old
  <2>1. Written = <<>> => Names(Written) = {}
    BY <1>2, NamesType
  <2>2. Folded(Append(old, Written)) = Folded(old) \cup Names(Written)
    BY <1>1, <1>2, FoldedAppend
  <2>3. QED
    BY <1>2, <2>1, <2>2
<1>6. MergeInv'
  <2> HIDE DEF lines
  <2>1. QED
    BY <1>1, <1>3, <1>4, <1>5, PairMerges
<1>7. target'["Vary"] = lines
  <2> HIDE DEF lines
  <2>1. QED
    BY <1>1, <1>3 DEF Lines
<1>8. NoRepeat'
  <2> SUFFICES ASSUME NEW i \in 1..Len(lines), NEW j \in 1..Len(lines),
                      i < j, j > Len(before["Vary"])
               PROVE  Folded(<<lines[i]>>) \cap Folded(<<lines[j]>>) = {}
    <3> HIDE DEF lines
    <3>1. before' = before
      BY <1>1
    <3>2. QED
      BY <1>7, <3>1 DEF NoRepeat
  <2>1. Len(old) \in Nat /\ Len(lines) \in Len(old)..(Len(old) + 1)
    BY <1>2
  <2>2. \A k \in 1..Len(old) : lines[k] = old[k] /\ old[k] \in Line
    BY <1>2
  <2>3. CASE j \in 1..Len(old)
    <3>1. i \in 1..Len(old)
      BY <2>1, <2>3
    <3>2. Folded(<<old[i]>>) \cap Folded(<<old[j]>>) = {}
      BY <2>3, <3>1 DEF NoRepeat
    <3> HIDE DEF old, lines
    <3>3. QED
      BY <2>2, <2>3, <3>1, <3>2
  <2>4. CASE j \notin 1..Len(old)
    <3>1. j = Len(old) + 1 /\ i \in 1..Len(old) /\ Written # <<>>
      BY <2>1, <2>4
    <3>2. lines[j] = Written
      BY <1>2, <3>1
    <3> HIDE DEF old, lines
    <3>3. /\ Folded(<<old[i]>>) = Names(old[i])
          /\ Folded(<<Written>>) = Names(Written)
      BY <1>2, <2>2, <3>1, NamesType
    <3>4. Names(old[i]) \subseteq Folded(old)
      BY <1>1, <1>2, <3>1, FoldedFacts
    <3>5. QED
      BY <1>2, <2>2, <3>1, <3>2, <3>3, <3>4
  <2>5. QED
    BY <2>3, <2>4
<1>9. QED
  BY <1>6, <1>8

\* Every step merges what merge_headers would.
LEMMA NextMerges == IInv /\ [Next]_vars => IInv'
<1> SUFFICES ASSUME IInv, [Next]_vars PROVE MergeInv' /\ NoRepeat'
  BY NextFiltered DEF IInv
<1>1. Filtered /\ TypeOK /\ TypeOK'
  BY NextFiltered DEF IInv, Filtered, Bounds
<1>2. CASE UNCHANGED <<target, before, headers, todo>>
  BY <1>2 DEF IInv, MergeInv, NoRepeat, Merged
<1>3. CASE \E buf \in HeaderBufs : Merge(buf)
  <2>1. headers' = todo' /\ before' = target'
    BY <1>3 DEF Merge
  <2>2. (TypeOK /\ headers = todo /\ before = target => MergeInv /\ NoRepeat)'
    BY MergeStarts, PTL
  <2>3. QED
    BY <1>1, <2>1, <2>2
<1>4. CASE Insert \/ AppendWhole
  BY <1>1, <1>4, PutWhole DEF IInv
<1>5. CASE LeaveDedup
  BY <1>1, <1>5, PutRest DEF IInv
<1>6. CASE EnterDedup \/ Skip \/ PushStack \/ Spill \/ PushHeap
  BY <1>2, <1>6 DEF EnterDedup, Skip, PushStack, Spill, PushHeap
<1>7. CASE UNCHANGED vars
  BY <1>2, <1>7 DEF vars
<1>8. QED
  BY <1>3, <1>4, <1>5, <1>6, <1>7 DEF Next

LEMMA InitMerges == Init => IInv
<1> SUFFICES ASSUME Init PROVE IInv
  OBVIOUS
<1>1. Bounds
  BY InitBounds
<1>2. WrittenIsFiltered
  BY DEF Init, WrittenIsFiltered
<1>3. headers = todo /\ before = target
  BY DEF Init
<1>4. MergeInv /\ NoRepeat
  BY <1>1, <1>3, MergeStarts DEF Bounds
<1>5. QED
  BY <1>1, <1>2, <1>4 DEF IInv, Filtered

\* When a merge is over, every pair of the buffer is merged.
LEMMA MergeEnds == IInv => MergeIsUnion /\ VaryLinesDoNotRepeat
<1> SUFFICES ASSUME IInv PROVE MergeIsUnion /\ VaryLinesDoNotRepeat
  OBVIOUS
<1>1. ASSUME Idle PROVE MergeIsUnion
  <2>1. headers \in Seq(HeaderName \X Line)
    BY DEF IInv, Filtered, Bounds, TypeOK, Pairs
  <2>2. Merged = headers
    BY <1>1, <2>1, LoopEnds DEF Merged, Idle
  <2>3. QED
    BY <2>2 DEF IInv, MergeInv, MergeIsUnion, InFront
<1>2. QED
  BY <1>1 DEF IInv, NoRepeat, MergeIsUnion, VaryLinesDoNotRepeat

(***************************************************************************)
(* The theorems.                                                           *)
(***************************************************************************)

\* Every state of every merge satisfies the invariant.
LEMMA MergeInvariant == Spec => []IInv
  BY InitMerges, NextMerges, PTL DEF Spec

\* The state of a merge has its types: the lines of the response, the pairs to merge and
\* the output of dedup_vary.
THEOREM HeaderMergeTypeCorrect == Spec => []TypeOK
<1>1. IInv => TypeOK
  BY DEF IInv, Filtered, Bounds
<1>2. QED
  BY <1>1, MergeInvariant, PTL

\* dedup_vary never writes outside its array of 128 bytes, the first len bytes of it are
\* what was written, and it allocates for no output the array has room for, whatever the
\* sizes of the tokens.
THEOREM StackIsSound == Spec => []SpillsOnlyWhenFull
<1>1. IInv => SpillsOnlyWhenFull
  BY DEF IInv, Filtered, Bounds
<1>2. QED
  BY <1>1, MergeInvariant, PTL

\* What dedup_vary writes, on the stack or on the heap, are the tokens of the value that
\* the response does not list, in their order and with one separator between any two.
THEOREM DedupIsFilter == Spec => []WrittenIsFiltered
<1>1. IInv => WrittenIsFiltered
  BY DEF IInv, Filtered
<1>2. QED
  BY <1>1, MergeInvariant, PTL

\* A whole merge computes CorsPolicy!merge_headers, which the proofs about CorsFuture and
\* CorsService take for it: no Vary name is lost or added, the lines of the inner service
\* stay in front, and every other header of the buffer is the only one of its name.
THEOREM MergeImplementsPolicy == Spec => []MergeIsUnion
<1>1. IInv => MergeIsUnion
  BY MergeEnds
<1>2. QED
  BY <1>1, MergeInvariant, PTL

\* No line a merge adds to Vary names what an earlier line names, in any case, however many
\* Cors are nested.
THEOREM NoRedundantVary == Spec => []VaryLinesDoNotRepeat
<1>1. IInv => VaryLinesDoNotRepeat
  BY MergeEnds
<1>2. QED
  BY <1>1, MergeInvariant, PTL
===============================================================================
