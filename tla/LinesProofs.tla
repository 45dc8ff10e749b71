----------------------------- MODULE LinesProofs -----------------------------
(***************************************************************************)
(* Lemmas about the operators of Lines, which are recursive functions.     *)
(* Induction is stated with sets: a set of numbers that holds zero and the *)
(* successor of each of its members holds all of them.                     *)
(***************************************************************************)
EXTENDS Lines, SequenceTheorems, WellFoundedInduction, TLAPS

(***************************************************************************)
(* Induction and recursion on the natural numbers.                         *)
(***************************************************************************)

\* A set of natural numbers that is not empty has a least member.
LEMMA LeastNumber ==
    ASSUME NEW T \in SUBSET Nat, T # {}
    PROVE  \E n \in T : \A m \in T : n <= m
<1> DEFINE R == OpToRel(<, Nat)
<1>1. IsWellFoundedOn(R, Nat)
  BY NatLessThanWellFounded
<1>2. PICK n \in T : \A m \in T : <<m, n>> \notin R
  <2> HIDE DEF R
  <2> QED BY <1>1, WFMin
<1>3. n \in Nat /\ \A m \in T : m \in Nat /\ ~(m < n)
  BY <1>2 DEF OpToRel
<1>4. QED
  BY <1>3

\* Induction: what holds zero and is closed under successor holds every number.
LEMMA Induction ==
    ASSUME NEW T, 0 \in T, \A n \in Nat : n \in T => n + 1 \in T
    PROVE  Nat \subseteq T
<1> SUFFICES ASSUME Nat \ T # {} PROVE FALSE
  OBVIOUS
<1>1. PICK n \in Nat \ T : \A m \in Nat \ T : n <= m
  BY LeastNumber
<1>2. n - 1 \in Nat /\ n - 1 \in T
  BY <1>1
<1>3. QED
  BY <1>1, <1>2

\* f starts with v0 and goes on by step, up to N.
Runs(f, N, v0, step) == f[0] = v0 /\ \A n \in 1..N : f[n] = step[<<n, f[n - 1]>>]

\* Recursion: whatever the steps, some function takes them.
LEMMA Recursion ==
    ASSUME NEW N \in Nat, NEW V, NEW v0 \in V, NEW step \in [(1..N) \X V -> V]
    PROVE  \E f \in [0..N -> V] : Runs(f, N, v0, step)
<1> USE DEF Runs
<1> DEFINE Upto(f, m) == f[0] = v0 /\ \A n \in 1..m : f[n] = step[<<n, f[n - 1]>>]
           T == {m \in Nat : m <= N => \E f \in [0..m -> V] : Upto(f, m)}
<1>1. 0 \in T
  <2>1. [n \in 0..0 |-> v0] \in [0..0 -> V] /\ Upto([n \in 0..0 |-> v0], 0)
    OBVIOUS
  <2>2. QED
    BY <2>1
<1>2. ASSUME NEW m \in Nat, m \in T PROVE m + 1 \in T
  <2> SUFFICES ASSUME m + 1 <= N
               PROVE  \E f \in [0..(m + 1) -> V] : Upto(f, m + 1)
    OBVIOUS
  <2>1. PICK f \in [0..m -> V] : Upto(f, m)
    BY <1>2
  <2> DEFINE g == [n \in 0..(m + 1) |-> IF n = m + 1 THEN step[<<m + 1, f[m]>>] ELSE f[n]]
  <2>2. m + 1 \in 1..N /\ f[m] \in V
    BY <2>1
  <2>3. g \in [0..(m + 1) -> V]
    BY <2>1, <2>2
  <2>4. g[0] = v0
    BY <2>1
  <2>5. ASSUME NEW n \in 1..(m + 1) PROVE g[n] = step[<<n, g[n - 1]>>]
    <3>1. g[n - 1] = f[n - 1]
      OBVIOUS
    <3>2. CASE n = m + 1
      <4>1. n - 1 = m /\ g[m + 1] = step[<<m + 1, f[m]>>]
        BY <3>2
      <4>2. QED
        BY <3>1, <3>2, <4>1
    <3>3. CASE n # m + 1
      <4>1. n \in 1..m
        BY <3>3
      <4>2. f[n] = step[<<n, f[n - 1]>>] /\ g[n] = f[n]
        BY <2>1, <4>1
      <4>3. QED
        BY <3>1, <4>2
    <3>4. QED
      BY <3>2, <3>3
  <2>6. QED
    BY <2>3, <2>4, <2>5
<1>3. N \in T
  <2> HIDE DEF T
  <2> QED BY <1>1, <1>2, Induction
<1>4. QED
  BY <1>3

\* f and g start alike and go on alike; they are alike.
GoAlike(f, g, N) ==
    f[0] = g[0] /\ \A n \in 1..N : f[n - 1] = g[n - 1] => f[n] = g[n]
Alike(f, g, N) == \A n \in 0..N : f[n] = g[n]

\* Two functions that take the same steps are the same.
LEMMA RecursionIsUnique ==
    ASSUME NEW N \in Nat, NEW f, NEW g, GoAlike(f, g, N)
    PROVE  Alike(f, g, N)
<1> USE DEF GoAlike, Alike
<1> DEFINE T == {n \in Nat : n <= N => f[n] = g[n]}
<1>1. 0 \in T
  OBVIOUS
<1>2. ASSUME NEW n \in Nat, n \in T PROVE n + 1 \in T
  <2>1. CASE n + 1 <= N
    <3>1. n + 1 \in 1..N /\ (n + 1) - 1 = n /\ f[n] = g[n]
      BY <1>2, <2>1
    <3>2. QED
      BY <3>1
  <2>2. QED
    BY <2>1
<1>3. Nat \subseteq T
  <2> HIDE DEF T
  <2> QED BY <1>1, <1>2, Induction
<1>4. QED
  BY <1>3

(***************************************************************************)
(* Kept: what a filter keeps.                                              *)
(***************************************************************************)

KeepStep(s, K, f, n) == IF s[n] \in K THEN Append(f[n - 1], s[n]) ELSE f[n - 1]

\* f is what the filter has kept after each element.
Keeps(f, s, K) ==
    /\ f[0] = <<>>
    /\ \A n \in 1..Len(s) : f[n] = KeepStep(s, K, f, n)
    /\ Kept(s, K) = f[Len(s)]

\* Kept is the last value of the recursive function it is defined by.
LEMMA KeptDef ==
    ASSUME NEW S, NEW s \in Seq(S), NEW K
    PROVE  \E f \in [0..Len(s) -> Seq(S \cap K)] : Keeps(f, s, K)
<1> DEFINE N == Len(s)
           step == [nv \in (1..N) \X Seq(S \cap K) |->
                       IF s[nv[1]] \in K THEN Append(nv[2], s[nv[1]]) ELSE nv[2]]
           Is(f) == f = [n \in 0..N |-> IF n = 0 THEN <<>> ELSE KeepStep(s, K, f, n)]
           kept == CHOOSE f : Is(f)
<1>1. N \in Nat /\ \A n \in 1..N : s[n] \in S
  OBVIOUS
<1>2. step \in [(1..N) \X Seq(S \cap K) -> Seq(S \cap K)]
  OBVIOUS
<1>3. PICK f \in [0..N -> Seq(S \cap K)] :
          f[0] = <<>> /\ \A n \in 1..N : f[n] = step[<<n, f[n - 1]>>]
  <2>1. <<>> \in Seq(S \cap K)
    OBVIOUS
  <2> DEFINE V  == Seq(S \cap K)
             v0 == <<>>
  <2> HIDE DEF step, N, V, v0
  <2>2. N \in Nat /\ step \in [(1..N) \X V -> V] /\ v0 \in V
    BY <2>1, <1>1, <1>2 DEF V, v0
  <2>3. \E f \in [0..N -> V] : Runs(f, N, v0, step)
    BY <2>2, Recursion
  <2>4. QED
    BY <2>3 DEF V, v0, Runs
<1>4. \A n \in 1..N : f[n] = KeepStep(s, K, f, n)
  <2> SUFFICES ASSUME NEW n \in 1..N PROVE f[n] = KeepStep(s, K, f, n)
    OBVIOUS
  <2>1. f[n - 1] \in Seq(S \cap K)
    <3> HIDE DEF N
    <3>1. n - 1 \in 0..N
      BY <1>1
    <3>2. QED
      BY <3>1
  <2>2. f[n] = step[<<n, f[n - 1]>>]
    BY <1>3
  <2>3. QED
    BY <2>1, <2>2 DEF KeepStep
<1>5. Is(f)
  BY <1>3, <1>4
<1>6. Is(kept)
  BY <1>5
<1>7. Kept(s, K) = kept[N]
  BY DEF Kept, KeepStep
<1>8. kept[0] = <<>> /\ \A n \in 1..N : kept[n] = KeepStep(s, K, kept, n)
  <2> HIDE DEF kept
  <2>1. \A n \in 0..N : kept[n] = IF n = 0 THEN <<>> ELSE KeepStep(s, K, kept, n)
    BY <1>6
  <2> HIDE DEF N
  <2>2. QED
    BY <2>1, <1>1
<1>9. Alike(kept, f, N)
  <2> HIDE DEF kept, N
  <2>1. GoAlike(kept, f, N)
    BY <1>3, <1>4, <1>8 DEF KeepStep, GoAlike
  <2>2. QED
    BY <2>1, <1>1, RecursionIsUnique
<1>10. QED
  BY <1>3, <1>4, <1>7, <1>9, <1>1 DEF Alike, Keeps

\* What is kept of a sequence: elements of it, from K.
LEMMA KeptType ==
    ASSUME NEW S, NEW s \in Seq(S), NEW K
    PROVE  Kept(s, K) \in Seq(S) /\ Kept(s, K) \in Seq(K)
<1>1. Kept(s, K) \in Seq(S \cap K)
  BY KeptDef DEF Keeps
<1>2. QED
  BY <1>1, SeqMonotonic

\* Nothing is kept of nothing.
LEMMA KeptEmpty ==
    ASSUME NEW K
    PROVE  Kept(<<>>, K) = <<>>
<1> DEFINE s == <<>>
<1>1. s \in Seq({}) /\ Len(s) = 0
  OBVIOUS
<1> HIDE DEF s
<1>2. PICK f \in [0..Len(s) -> Seq({} \cap K)] : Keeps(f, s, K)
  BY <1>1, KeptDef
<1>3. QED
  BY <1>1, <1>2 DEF Keeps, s

\* One element more is kept or is not.
LEMMA KeptAppend ==
    ASSUME NEW S, NEW s \in Seq(S), NEW K, NEW e \in S
    PROVE  Kept(Append(s, e), K) =
               IF e \in K THEN Append(Kept(s, K), e) ELSE Kept(s, K)
<1> DEFINE N == Len(s)
           t == Append(s, e)
<1>1. /\ t \in Seq(S) /\ Len(t) = N + 1 /\ N \in Nat
      /\ t[N + 1] = e /\ \A n \in 1..N : t[n] = s[n]
  OBVIOUS
<1>2. PICK f \in [0..N -> Seq(S \cap K)] : Keeps(f, s, K)
  BY KeptDef
<1> HIDE DEF t
<1>3. PICK g \in [0..Len(t) -> Seq(S \cap K)] : Keeps(g, t, K)
  BY <1>1, KeptDef
<1>4. Alike(f, g, N)
  <2>1. ASSUME NEW n \in 1..N, f[n - 1] = g[n - 1] PROVE f[n] = g[n]
    <3>1. n \in 1..(N + 1) /\ t[n] = s[n]
      BY <1>1
    <3>2. QED
      BY <2>1, <3>1, <1>1, <1>2, <1>3 DEF Keeps, KeepStep
  <2>2. GoAlike(f, g, N)
    BY <2>1, <1>2, <1>3 DEF GoAlike, Keeps
  <2> HIDE DEF N
  <2>3. QED
    BY <2>2, <1>1, RecursionIsUnique
<1>5. g[N] = f[N] /\ N + 1 \in 1..(N + 1) /\ (N + 1) - 1 = N
  BY <1>1, <1>4 DEF Alike
<1>6. QED
  BY <1>1, <1>2, <1>3, <1>5 DEF Keeps, KeepStep, t

\* What is kept are the elements that are in K.
LEMMA KeptRange ==
    ASSUME NEW S, NEW s \in Seq(S), NEW K
    PROVE  Range(Kept(s, K)) = Range(s) \cap K
<1> DEFINE N == Len(s)
<1>1. N \in Nat /\ \A n \in 1..N : s[n] \in S
  OBVIOUS
<1>2. PICK f \in [0..N -> Seq(S \cap K)] : Keeps(f, s, K)
  BY KeptDef
<1> DEFINE F == [n \in 0..N |-> Range(f[n])]
           G == [n \in 0..N |-> {s[i] : i \in 1..n} \cap K]
<1>3. F[0] = G[0]
  BY <1>1, <1>2 DEF Keeps, Range
<1>4. ASSUME NEW n \in 1..N, F[n - 1] = G[n - 1] PROVE F[n] = G[n]
  <2>1. n \in 0..N /\ n - 1 \in 0..N /\ n \in Nat /\ n - 1 \in Nat
    BY <1>1
  <2>2. {s[i] : i \in 1..n} = {s[i] : i \in 1..(n - 1)} \cup {s[n]}
    BY <2>1
  <2>3. G[n] = G[n - 1] \cup ({s[n]} \cap K)
    BY <2>1, <2>2
  <2>4. f[n] = KeepStep(s, K, f, n) /\ f[n - 1] \in Seq(S \cap K)
    BY <1>2, <2>1 DEF Keeps
  <2>5. CASE s[n] \in K
    <3>1. Range(Append(f[n - 1], s[n])) = Range(f[n - 1]) \cup {s[n]}
      <4>1. ASSUME NEW q \in Seq(S \cap K), NEW e \in S \cap K
            PROVE  Range(Append(q, e)) = Range(q) \cup {e}
        <5>1. /\ DOMAIN q = 1..Len(q) /\ DOMAIN Append(q, e) = 1..(Len(q) + 1) /\ Len(q) \in Nat
              /\ Append(q, e)[Len(q) + 1] = e
              /\ \A i \in 1..Len(q) : Append(q, e)[i] = q[i]
          OBVIOUS
        <5>2. 1..(Len(q) + 1) = 1..Len(q) \cup {Len(q) + 1}
          BY <5>1
        <5>3. QED
          BY <5>1, <5>2 DEF Range
      <4>2. s[n] \in S \cap K
        BY <1>1, <2>5
      <4>3. QED
        BY <4>1, <4>2, <2>4
    <3>2. QED
      BY <1>4, <2>1, <2>3, <2>4, <2>5, <3>1 DEF KeepStep
  <2>6. CASE s[n] \notin K
    BY <1>4, <2>1, <2>3, <2>4, <2>6 DEF KeepStep
  <2>7. QED
    BY <2>5, <2>6
<1>5. Alike(F, G, N)
  <2>1. GoAlike(F, G, N)
    <3> HIDE DEF F, G
    <3> QED BY <1>3, <1>4 DEF GoAlike
  <2> HIDE DEF F, G, N
  <2>2. QED
    BY <2>1, <1>1, RecursionIsUnique
<1>6. F[N] = G[N]
  BY <1>1, <1>5 DEF Alike
<1>7. QED
  BY <1>1, <1>2, <1>6 DEF Keeps, Range

\* A filter that accepts every element changes nothing.
LEMMA KeptAll ==
    ASSUME NEW S, NEW s \in Seq(S), NEW K, \A n \in 1..Len(s) : s[n] \in K
    PROVE  Kept(s, K) = s
<1> DEFINE N == Len(s)
           G == [n \in 0..N |-> SubSeq(s, 1, n)]
<1>1. N \in Nat /\ \A n \in 1..N : s[n] \in S
  OBVIOUS
<1>2. PICK f \in [0..N -> Seq(S \cap K)] : Keeps(f, s, K)
  BY KeptDef
<1>3. f[0] = G[0]
  BY <1>1, <1>2, SubSeqEmpty DEF Keeps
<1>4. ASSUME NEW n \in 1..N, f[n - 1] = G[n - 1] PROVE f[n] = G[n]
  <2>1. n \in 0..N /\ n - 1 \in 0..N /\ n \in Nat /\ n - 1 \in Nat
    BY <1>1
  <2>2. f[n] = Append(SubSeq(s, 1, n - 1), s[n])
    BY <1>2, <1>4, <2>1 DEF Keeps, KeepStep
  <2>3. SubSeq(s, 1, n) = Append(SubSeq(s, 1, n - 1), s[n])
    <3>1. 1 \in 1..Len(s) /\ n \in 1..Len(s)
      BY <1>1
    <3>2. SubSeq(s, 1, n) = SubSeq(s, 1, n - 1) \o <<s[n]>>
      BY <3>1, SubSeqRecursiveSecond
    <3>3. SubSeq(s, 1, n - 1) \in Seq(S) /\ s[n] \in S
      BY <1>1, <2>1, SubSeqProperties
    <3>4. QED
      BY <3>2, <3>3, AppendIsConcat
  <2>4. QED
    BY <2>1, <2>2, <2>3
<1>5. Alike(f, G, N)
  <2>1. GoAlike(f, G, N)
    <3> HIDE DEF G
    <3> QED BY <1>3, <1>4 DEF GoAlike
  <2> HIDE DEF G, N
  <2>2. QED
    BY <2>1, <1>1, RecursionIsUnique
<1>6. f[N] = SubSeq(s, 1, N)
  BY <1>1, <1>5 DEF Alike
<1>7. QED
  BY <1>2, <1>6, SubSeqFull DEF Keeps

(***************************************************************************)
(* Total: the weight of a sequence.                                        *)
(***************************************************************************)

\* f is the weight up to each element.
Sums(f, s, weight) ==
    /\ f[0] = 0
    /\ \A n \in 1..Len(s) : f[n] = f[n - 1] + weight[s[n]]
    /\ Total(s, weight) = f[Len(s)]

\* Total is the last value of the recursive function it is defined by.
LEMMA TotalDef ==
    ASSUME NEW S, NEW s \in Seq(S), NEW weight \in [S -> Nat]
    PROVE  \E f \in [0..Len(s) -> Nat] : Sums(f, s, weight)
<1> DEFINE N == Len(s)
           step == [nv \in (1..N) \X Nat |-> nv[2] + weight[s[nv[1]]]]
           Is(f) == f = [n \in 0..N |-> IF n = 0 THEN 0 ELSE f[n - 1] + weight[s[n]]]
           total == CHOOSE f : Is(f)
<1>1. N \in Nat /\ \A n \in 1..N : s[n] \in S /\ weight[s[n]] \in Nat
  OBVIOUS
<1>2. step \in [(1..N) \X Nat -> Nat]
  BY <1>1
<1>3. PICK f \in [0..N -> Nat] : Runs(f, N, 0, step)
  <2> HIDE DEF step, N
  <2> QED BY <1>1, <1>2, Recursion
<1>4. f[0] = 0 /\ \A n \in 1..N : f[n] = f[n - 1] + weight[s[n]]
  <2> SUFFICES ASSUME NEW n \in 1..N PROVE f[0] = 0 /\ f[n] = f[n - 1] + weight[s[n]]
    BY <1>3 DEF Runs
  <2>1. f[n - 1] \in Nat
    <3> HIDE DEF N
    <3>1. n - 1 \in 0..N
      BY <1>1
    <3>2. QED
      BY <3>1
  <2>2. f[0] = 0 /\ f[n] = step[<<n, f[n - 1]>>]
    BY <1>3 DEF Runs
  <2>3. QED
    BY <2>1, <2>2
<1>5. Is(f)
  BY <1>4
<1>6. Is(total)
  BY <1>5
<1>7. Total(s, weight) = total[N]
  BY DEF Total
<1>8. total[0] = 0 /\ \A n \in 1..N : total[n] = total[n - 1] + weight[s[n]]
  <2> HIDE DEF total
  <2>1. \A n \in 0..N : total[n] = IF n = 0 THEN 0 ELSE total[n - 1] + weight[s[n]]
    BY <1>6
  <2> HIDE DEF N
  <2>2. QED
    BY <2>1, <1>1
<1>9. Alike(total, f, N)
  <2> HIDE DEF total, N
  <2>1. GoAlike(total, f, N)
    BY <1>4, <1>8 DEF GoAlike
  <2>2. QED
    BY <2>1, <1>1, RecursionIsUnique
<1>10. total[N] = f[N]
  <2> HIDE DEF total, N
  <2> QED BY <1>9, <1>1 DEF Alike
<1>11. Sums(f, s, weight)
  <2> HIDE DEF total
  <2> QED BY <1>4, <1>7, <1>10 DEF Sums
<1>12. QED
  BY <1>11

\* A weight is a number, and nothing weighs nothing.
LEMMA TotalType ==
    ASSUME NEW S, NEW s \in Seq(S), NEW weight \in [S -> Nat]
    PROVE  Total(s, weight) \in Nat /\ Total(<<>>, weight) = 0
<1>1. Total(s, weight) \in Nat
  BY TotalDef DEF Sums
<1>2. Total(<<>>, weight) = 0
  <2> DEFINE e == <<>>
  <2>1. e \in Seq(S) /\ Len(e) = 0
    OBVIOUS
  <2> HIDE DEF e
  <2>2. PICK f \in [0..Len(e) -> Nat] : Sums(f, e, weight)
    BY <2>1, TotalDef
  <2>3. QED
    BY <2>1, <2>2 DEF Sums, e
<1>3. QED
  BY <1>1, <1>2

\* One element more adds its weight.
LEMMA TotalAppend ==
    ASSUME NEW S, NEW s \in Seq(S), NEW weight \in [S -> Nat], NEW e \in S
    PROVE  Total(Append(s, e), weight) = Total(s, weight) + weight[e]
<1> DEFINE N == Len(s)
           t == Append(s, e)
<1>1. /\ t \in Seq(S) /\ Len(t) = N + 1 /\ N \in Nat
      /\ t[N + 1] = e /\ \A n \in 1..N : t[n] = s[n]
  OBVIOUS
<1>2. PICK f \in [0..N -> Nat] : Sums(f, s, weight)
  BY TotalDef
<1> HIDE DEF t
<1>3. PICK g \in [0..Len(t) -> Nat] : Sums(g, t, weight)
  BY <1>1, TotalDef
<1>4. Alike(f, g, N)
  <2>1. ASSUME NEW n \in 1..N, f[n - 1] = g[n - 1] PROVE f[n] = g[n]
    <3>1. n \in 1..(N + 1) /\ t[n] = s[n]
      BY <1>1
    <3>2. QED
      BY <2>1, <3>1, <1>1, <1>2, <1>3 DEF Sums
  <2>2. GoAlike(f, g, N)
    BY <2>1, <1>2, <1>3 DEF GoAlike, Sums
  <2> HIDE DEF N
  <2>3. QED
    BY <2>2, <1>1, RecursionIsUnique
<1>5. g[N] = f[N] /\ N + 1 \in 1..(N + 1) /\ (N + 1) - 1 = N
  BY <1>1, <1>4 DEF Alike
<1>6. QED
  BY <1>1, <1>2, <1>3, <1>5 DEF Sums, t

(***************************************************************************)
(* Separated: a sequence with a separator between its elements.            *)
(***************************************************************************)

\* A joined sequence is a sequence, empty if there is nothing to join.
LEMMA SeparatedType ==
    ASSUME NEW S, NEW s \in Seq(S), NEW sep \in S
    PROVE  /\ Separated(s, sep) \in Seq(S)
           /\ Len(Separated(s, sep)) = IF s = <<>> THEN 0 ELSE 2 * Len(s) - 1
           /\ Separated(s, sep) = <<>> <=> s = <<>>
<1> DEFINE M == IF s = <<>> THEN 0 ELSE 2 * Len(s) - 1
<1>1. M \in Nat /\ 1..M = 1..(2 * Len(s) - 1) /\ (M = 0 <=> s = <<>>)
  OBVIOUS
<1>2. \A i \in 1..M : i % 2 = 1 => (i + 1) \div 2 \in 1..Len(s)
  OBVIOUS
<1>3. Separated(s, sep) \in [1..M -> S]
  <2> HIDE DEF M
  <2> QED BY <1>1, <1>2 DEF Separated
<1>4. Separated(s, sep) \in Seq(S) /\ Len(Separated(s, sep)) = M
  <2> HIDE DEF M
  <2> QED BY <1>1, <1>3
<1>5. QED
  BY <1>1, <1>4

\* One element more comes after a separator, unless it is the first.
LEMMA SeparatedAppend ==
    ASSUME NEW S, NEW s \in Seq(S), NEW sep \in S, NEW e \in S
    PROVE  Separated(Append(s, e), sep) =
               IF Separated(s, sep) = <<>> THEN <<e>> ELSE Separated(s, sep) \o <<sep, e>>
<1> DEFINE t == Append(s, e)
<1>1. /\ t \in Seq(S) /\ t # <<>> /\ Len(t) = Len(s) + 1 /\ Len(s) \in Nat
      /\ t[Len(s) + 1] = e /\ \A n \in 1..Len(s) : t[n] = s[n]
  OBVIOUS
<1>2. /\ Separated(s, sep) \in Seq(S) /\ Separated(t, sep) \in Seq(S)
      /\ Len(Separated(s, sep)) = IF s = <<>> THEN 0 ELSE 2 * Len(s) - 1
      /\ Len(Separated(t, sep)) = 2 * Len(s) + 1
      /\ Separated(s, sep) = <<>> <=> s = <<>>
  <2> HIDE DEF t
  <2>1. /\ Separated(s, sep) \in Seq(S)
        /\ Len(Separated(s, sep)) = IF s = <<>> THEN 0 ELSE 2 * Len(s) - 1
        /\ Separated(s, sep) = <<>> <=> s = <<>>
    BY SeparatedType
  <2>2. Separated(t, sep) \in Seq(S) /\ Len(Separated(t, sep)) = 2 * Len(t) - 1
    BY <1>1, SeparatedType
  <2>3. QED
    BY <1>1, <2>1, <2>2
<1>3. \A i \in 1..(2 * Len(s) + 1) :
          Separated(t, sep)[i] = IF i % 2 = 1 THEN t[(i + 1) \div 2] ELSE sep
  BY <1>1 DEF Separated
<1>4. CASE s = <<>>
  <2>1. Len(Separated(t, sep)) = 1 /\ Separated(t, sep)[1] = e
    BY <1>1, <1>2, <1>3, <1>4
  <2>2. QED
    BY <1>2, <1>4, <2>1
<1>5. CASE s # <<>>
  <2> DEFINE u == Separated(s, sep) \o <<sep, e>>
             L == 2 * Len(s) - 1
  <2>1. L \in Nat /\ Len(Separated(s, sep)) = L
    BY <1>1, <1>2, <1>5
  <2>2. u \in Seq(S) /\ Len(u) = L + 2
    BY <1>2, <2>1
  <2>3. ASSUME NEW i \in 1..(L + 2) PROVE Separated(t, sep)[i] = u[i]
    <3>0. Separated(t, sep)[i] = IF i % 2 = 1 THEN t[(i + 1) \div 2] ELSE sep
      <4>1. L + 2 = 2 * Len(s) + 1
        BY <1>1
      <4>2. QED
        BY <1>3, <4>1
    <3>1. CASE i <= L
      <4>1. u[i] = Separated(s, sep)[i]
        BY <1>2, <2>1, <3>1
      <4>2. Separated(s, sep)[i] = IF i % 2 = 1 THEN s[(i + 1) \div 2] ELSE sep
        BY <3>1 DEF Separated
      <4>3. i % 2 = 1 => (i + 1) \div 2 \in 1..Len(s)
        BY <1>1, <3>1
      <4>4. i % 2 = 1 => t[(i + 1) \div 2] = s[(i + 1) \div 2]
        BY <1>1, <4>3
      <4> HIDE DEF u, t
      <4>5. QED
        BY <3>0, <4>1, <4>2, <4>4
    <3>2. CASE i = L + 1
      <4>1. i = 2 * Len(s) /\ i % 2 = 0
        BY <1>1, <3>2
      <4>2. u[i] = sep
        BY <1>2, <2>1, <3>2
      <4> HIDE DEF u, t
      <4>3. QED
        BY <3>0, <4>1, <4>2
    <3>3. CASE i = L + 2
      <4>1. i = 2 * Len(s) + 1 /\ i % 2 = 1 /\ (i + 1) \div 2 = Len(s) + 1
        BY <1>1, <3>3
      <4>2. u[i] = e
        BY <1>2, <2>1, <3>3
      <4> HIDE DEF u, t
      <4>3. QED
        BY <1>1, <3>0, <4>1, <4>2
    <3>4. QED
      BY <2>1, <3>1, <3>2, <3>3
  <2>4. Len(Separated(t, sep)) = L + 2
    BY <1>1, <1>2
  <2> HIDE DEF u, L
  <2>5. Separated(t, sep) = u
    BY <1>2, <2>2, <2>3, <2>4, SeqEqual
  <2>6. QED
    BY <1>2, <1>5, <2>5 DEF u
<1>6. QED
  BY <1>4, <1>5

\* A joined sequence holds its elements, and separators.
LEMMA SeparatedRange ==
    ASSUME NEW S, NEW s \in Seq(S), NEW sep \in S
    PROVE  Range(Separated(s, sep)) \ {sep} = Range(s) \ {sep}
<1>1. Len(s) \in Nat /\ DOMAIN s = 1..Len(s)
  OBVIOUS
<1>2. DOMAIN Separated(s, sep) = 1..(2 * Len(s) - 1)
  BY DEF Separated
<1>3. ASSUME NEW i \in 1..(2 * Len(s) - 1)
      PROVE  Separated(s, sep)[i] = sep \/ \E n \in 1..Len(s) : Separated(s, sep)[i] = s[n]
  <2>1. Separated(s, sep)[i] = IF i % 2 = 1 THEN s[(i + 1) \div 2] ELSE sep
    BY DEF Separated
  <2>2. i % 2 = 1 => (i + 1) \div 2 \in 1..Len(s)
    BY <1>1
  <2>3. QED
    BY <2>1, <2>2
<1>4. ASSUME NEW n \in 1..Len(s)
      PROVE  \E i \in 1..(2 * Len(s) - 1) : Separated(s, sep)[i] = s[n]
  <2>1. /\ 2 * n - 1 \in 1..(2 * Len(s) - 1) /\ (2 * n - 1) % 2 = 1
        /\ ((2 * n - 1) + 1) \div 2 = n
    BY <1>1
  <2>2. Separated(s, sep)[2 * n - 1] = s[n]
    BY <2>1 DEF Separated
  <2>3. QED
    BY <2>1, <2>2
<1>5. QED
  BY <1>1, <1>2, <1>3, <1>4 DEF Range

(***************************************************************************)
(* A loop over a sequence: what it has done and what is left.              *)
(***************************************************************************)

Left(s, rest) ==
    /\ Len(rest) <= Len(s)
    /\ \A i \in 1..Len(rest) : rest[i] = s[Len(s) - Len(rest) + i]

Done(s, rest) == SubSeq(s, 1, Len(s) - Len(rest))

\* Before the loop everything is left, after it everything is done.
LEMMA LoopEnds ==
    ASSUME NEW S, NEW s \in Seq(S)
    PROVE  Left(s, s) /\ Done(s, s) = <<>> /\ Done(s, <<>>) = s
<1>1. Left(s, s)
  BY DEF Left
<1>2. Done(s, s) = <<>>
  BY SubSeqEmpty DEF Done
<1>3. Done(s, <<>>) = s
  <2>1. Len(s) - Len(<<>>) = Len(s)
    OBVIOUS
  <2>2. QED
    BY <2>1, SubSeqFull DEF Done
<1>4. QED
  BY <1>1, <1>2, <1>3

\* An iteration moves the head of what is left to the end of what is done.
LEMMA LoopStep ==
    ASSUME NEW S, NEW s \in Seq(S), NEW rest \in Seq(S), rest # <<>>, Left(s, rest)
    PROVE  /\ Left(s, Tail(rest)) /\ Tail(rest) \in Seq(S)
           /\ Done(s, rest) \in Seq(S) /\ Head(rest) \in S
           /\ Done(s, Tail(rest)) = Append(Done(s, rest), Head(rest))
<1> DEFINE n == Len(s) - Len(rest)
<1>1. /\ Len(s) \in Nat /\ Len(rest) \in Nat \ {0} /\ Len(Tail(rest)) = Len(rest) - 1
      /\ Tail(rest) \in Seq(S) /\ Head(rest) = rest[1] /\ Head(rest) \in S
      /\ \A i \in 1..(Len(rest) - 1) : Tail(rest)[i] = rest[i + 1]
      /\ \A i \in 1..Len(s) : s[i] \in S
  OBVIOUS
<1>2. n \in 0..(Len(s) - 1) /\ Len(s) - Len(Tail(rest)) = n + 1
  BY <1>1 DEF Left
<1>3. Head(rest) = s[n + 1]
  <2>1. 1 \in 1..Len(rest)
    BY <1>1
  <2>2. QED
    BY <1>1, <2>1 DEF Left
<1>4. Left(s, Tail(rest))
  <2>1. ASSUME NEW i \in 1..(Len(rest) - 1) PROVE Tail(rest)[i] = s[n + 1 + i]
    <3>1. i + 1 \in 1..Len(rest) /\ n + (i + 1) = n + 1 + i
      BY <1>1, <1>2
    <3>2. rest[i + 1] = s[n + (i + 1)]
      BY <3>1 DEF Left
    <3>3. QED
      BY <1>1, <3>1, <3>2
  <2> HIDE DEF n
  <2>2. QED
    BY <1>1, <1>2, <2>1 DEF Left
<1>5. Done(s, rest) \in Seq(S)
  BY <1>1, <1>2, SubSeqProperties DEF Done
<1>6. SubSeq(s, 1, n + 1) = SubSeq(s, 1, n) \o <<s[n + 1]>>
  <2>1. 1 \in 1..Len(s) /\ n + 1 \in 1..Len(s) /\ (n + 1) - 1 = n
    BY <1>1, <1>2
  <2>2. SubSeq(s, 1, n + 1) = SubSeq(s, 1, (n + 1) - 1) \o <<s[n + 1]>>
    <3> HIDE DEF n
    <3> QED BY <2>1, SubSeqRecursiveSecond
  <2>3. QED
    BY <2>1, <2>2
<1>7. Done(s, Tail(rest)) = Append(Done(s, rest), Head(rest))
  <2>1. Append(Done(s, rest), Head(rest)) = Done(s, rest) \o <<Head(rest)>>
    BY <1>1, <1>5, AppendIsConcat
  <2>2. QED
    BY <1>2, <1>3, <1>6, <2>1 DEF Done
<1>8. QED
  BY <1>1, <1>4, <1>5, <1>7
===============================================================================
