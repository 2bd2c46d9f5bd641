---------------------------- MODULE KakaoTextProofs ----------------------------
(***************************************************************************)
(* What the cutting of a text into messages keeps, for every text.  The    *)
(* operators of KakaoText are recursive functions over the lines; they are *)
(* reasoned about by the least number at which a claim would fail.         *)
(***************************************************************************)
EXTENDS KakaoText, SequenceTheorems, FiniteSetTheorems, WellFoundedInduction, TLAPS

Line == [at : Nat \X Nat, size : Nat]

-----------------------------------------------------------------------------
(* Induction and recursion, over sets and functions *)

LEMMA LeastNat ==
  ASSUME NEW T \in SUBSET Nat, T # {}
  PROVE  \E x \in T : \A y \in T : x <= y
  <1>1. IsWellFoundedOn(OpToRel(<, Nat), Nat)
    BY NatLessThanWellFounded
  <1>2. \E x \in T : \A y \in T : ~(<<y, x>> \in OpToRel(<, Nat))
    BY <1>1, WFMin
  <1>3. \A x, y \in Nat : x < y => <<x, y>> \in OpToRel(<, Nat)
    BY DEF OpToRel
  <1>4. PICK x \in T : \A y \in T : ~(y < x)
    BY <1>2, <1>3
  <1>5. \A y \in T : x <= y
    BY <1>4
  <1> QED BY <1>5

\* A claim that holds at 0 and passes from i to i + 1 has no counterexample.
LEMMA NoFirstFailure ==
  ASSUME NEW n \in Nat, NEW good \in SUBSET (0..n), 0 \in good,
         \A i \in 1..n : i - 1 \in good => i \in good
  PROVE  good = 0..n
  <1> DEFINE bad == (0..n) \ good
  <1> SUFFICES ASSUME bad # {} PROVE FALSE
    OBVIOUS
  <1>1. PICK m \in bad : \A y \in bad : m <= y
    <2>1. bad \in SUBSET Nat
      OBVIOUS
    <2> QED BY <2>1, LeastNat
  <1>2. m \in 1..n
    OBVIOUS
  <1>3. m - 1 \in 0..n /\ m - 1 \notin bad
    BY <1>1, <1>2
  <1> QED BY <1>2, <1>3

\* The partial sums of n numbers.
Sums(n, w, f) == f[0] = 0 /\ \A i \in 1..n : f[i] = f[i - 1] + w[i]

LEMMA SumsExist ==
  ASSUME NEW n \in Nat, NEW w \in [1..n -> Nat]
  PROVE  \E f \in [0..n -> Nat] : Sums(n, w, f)
  <1> DEFINE good == {m \in 0..n : \E f \in [0..m -> Nat] : Sums(m, w, f)}
  <1>1. 0 \in good
    <2>1. [i \in 0..0 |-> 0] \in [0..0 -> Nat] /\ Sums(0, w, [i \in 0..0 |-> 0])
      BY DEF Sums
    <2> QED BY <2>1
  <1>2. ASSUME NEW m \in 1..n, m - 1 \in good PROVE m \in good
    <2>1. PICK f \in [0..(m - 1) -> Nat] : Sums(m - 1, w, f)
      BY <1>2
    <2> DEFINE g == [i \in 0..m |-> IF i = m THEN f[m - 1] + w[m] ELSE f[i]]
    <2>2. g \in [0..m -> Nat]
      OBVIOUS
    <2>3. Sums(m, w, g)
      BY <2>1 DEF Sums
    <2> HIDE DEF g
    <2> QED BY <2>2, <2>3, SMTT(30)
  <1>3. good = 0..n
    <2> HIDE DEF good
    <2>1. good \in SUBSET (0..n)
      BY DEF good
    <2> QED BY <1>1, <1>2, <2>1, NoFirstFailure
  <1>4. n \in 0..n
    OBVIOUS
  <1> QED BY <1>3, <1>4

LEMMA SumsUnique ==
  ASSUME NEW n \in Nat, NEW w \in [1..n -> Nat], NEW f, NEW g,
         Sums(n, w, f), Sums(n, w, g)
  PROVE  \A i \in 0..n : f[i] \in Nat /\ f[i] = g[i]
  <1> DEFINE good == {i \in 0..n : f[i] \in Nat /\ f[i] = g[i]}
  <1>1. 0 \in good
    BY DEF Sums
  <1>2. ASSUME NEW i \in 1..n, i - 1 \in good PROVE i \in good
    BY <1>2 DEF Sums
  <1>3. good = 0..n
    BY <1>1, <1>2, NoFirstFailure
  <1> QED BY <1>3

-----------------------------------------------------------------------------
(* Size *)

\* What line i adds to the size of the lines before it.
Adds(lines) == [i \in 1..Len(lines) |-> lines[i].size + (IF i = 1 THEN 0 ELSE 1)]

LEMMA AddsType ==
  ASSUME NEW lines \in Seq(Line)
  PROVE  Adds(lines) \in [1..Len(lines) -> Nat] /\ Len(lines) \in Nat
  <1>1. \A i \in 1..Len(lines) : lines[i] \in Line
    OBVIOUS
  <1>2. \A i \in 1..Len(lines) : lines[i].size \in Nat
    BY <1>1 DEF Line
  <1> QED BY <1>2 DEF Adds

LEMMA SizeIsSum ==
  ASSUME NEW lines \in Seq(Line)
  PROVE  \E f : Sums(Len(lines), Adds(lines), f) /\ Size(lines) = f[Len(lines)]
  <1> DEFINE n == Len(lines)
             body(f) == [i \in 0..n |-> IF i = 0 THEN 0
                          ELSE f[i - 1] + lines[i].size + (IF i = 1 THEN 0 ELSE 1)]
             upTo == CHOOSE f : f = body(f)
  <1>1. n \in Nat /\ Adds(lines) \in [1..n -> Nat]
    BY AddsType
  <1>2. \A i \in 1..n : lines[i].size \in Nat
    <2>1. \A i \in 1..n : lines[i] \in Line
      OBVIOUS
    <2> QED BY <2>1 DEF Line
  <1>3. Size(lines) = upTo[n]
    BY DEF Size
  <1>4. \A i \in 1..n : Adds(lines)[i] = lines[i].size + (IF i = 1 THEN 0 ELSE 1)
    BY DEF Adds
  <1> HIDE DEF n
  <1>5. PICK f \in [0..n -> Nat] : Sums(n, Adds(lines), f)
    BY <1>1, SumsExist
  <1>6. f = body(f)
    <2>1. \A i \in 1..n : f[i] = f[i - 1] + Adds(lines)[i] /\ f[i - 1] \in Nat
      BY <1>1, <1>5 DEF Sums
    <2>2. ASSUME NEW i \in 1..n
          PROVE  f[i] = f[i - 1] + lines[i].size + (IF i = 1 THEN 0 ELSE 1)
      BY <1>2, <1>4, <2>1
    <2>3. f[0] = 0
      BY <1>5 DEF Sums
    <2>4. \A i \in 0..n : i # 0 => i \in 1..n
      BY <1>1
    <2> QED BY <2>2, <2>3, <2>4
  <1>7. upTo = body(upTo)
    <2> HIDE DEF body
    <2> QED BY <1>6
  <1> HIDE DEF upTo
  <1> DEFINE good == {i \in 0..n : upTo[i] = f[i]}
  <1>8. 0 \in good
    <2>1. upTo[0] = 0 /\ f[0] = 0 /\ 0 \in 0..n
      BY <1>1, <1>5, <1>7 DEF Sums
    <2> QED BY <2>1
  <1>9. ASSUME NEW i \in 1..n, i - 1 \in good PROVE i \in good
    <2>1. i \in 0..n /\ i # 0
      BY <1>1
    <2>2. upTo[i] = upTo[i - 1] + lines[i].size + (IF i = 1 THEN 0 ELSE 1)
      BY <1>7, <2>1
    <2>3. f[i] = f[i - 1] + Adds(lines)[i] /\ f[i - 1] \in Nat
      BY <1>1, <1>5 DEF Sums
    <2>4. upTo[i - 1] = f[i - 1]
      BY <1>9
    <2> QED BY <1>2, <1>4, <2>1, <2>2, <2>3, <2>4, SMTT(30)
  <1>10. good = 0..n
    <2> HIDE DEF good
    <2>1. good \in SUBSET (0..n)
      BY DEF good
    <2> QED BY <1>1, <1>8, <1>9, <2>1, NoFirstFailure
  <1>11. upTo[n] = f[n]
    <2>1. n \in 0..n
      BY <1>1
    <2> QED BY <1>10, <2>1
  <1> QED BY <1>3, <1>5, <1>11 DEF n

LEMMA SizeOfSums ==
  ASSUME NEW lines \in Seq(Line), NEW f, Sums(Len(lines), Adds(lines), f)
  PROVE  Size(lines) = f[Len(lines)] /\ Size(lines) \in Nat
  <1>1. PICK g : Sums(Len(lines), Adds(lines), g) /\ Size(lines) = g[Len(lines)]
    BY SizeIsSum
  <1>2. \A i \in 0..Len(lines) : f[i] \in Nat /\ f[i] = g[i]
    BY <1>1, AddsType, SumsUnique
  <1>3. Len(lines) \in 0..Len(lines)
    BY AddsType
  <1> QED BY <1>1, <1>2, <1>3

LEMMA SizeNat == ASSUME NEW lines \in Seq(Line) PROVE Size(lines) \in Nat
  BY SizeIsSum, SizeOfSums

LEMMA SizeEmpty == Size(<<>>) = 0
  <1>1. <<>> \in Seq(Line) /\ Len(<<>>) = 0
    OBVIOUS
  <1>2. \E f : Sums(0, Adds(<<>>), f) /\ Size(<<>>) = f[0]
    BY <1>1, SizeIsSum
  <1> QED BY <1>2 DEF Sums

LEMMA SizeAppend ==
  ASSUME NEW lines \in Seq(Line), NEW line \in Line
  PROVE  Size(Append(lines, line)) =
           Size(lines) + line.size + (IF lines = <<>> THEN 0 ELSE 1)
  <1> DEFINE n == Len(lines)
             longer == Append(lines, line)
  <1>1. /\ longer \in Seq(Line) /\ Len(longer) = n + 1 /\ n \in Nat
        /\ longer[n + 1] = line /\ \A i \in 1..n : longer[i] = lines[i]
        /\ lines = <<>> <=> n + 1 = 1
    OBVIOUS
  <1>2. PICK f : Sums(n + 1, Adds(longer), f) /\ Size(longer) = f[n + 1]
    BY <1>1, SizeIsSum
  <1>3. /\ \A i \in 1..n : Adds(longer)[i] = Adds(lines)[i]
        /\ Adds(longer)[n + 1] = line.size + (IF lines = <<>> THEN 0 ELSE 1)
    <2> HIDE DEF n, longer
    <2>1. \A i \in 1..(n + 1) : Adds(longer)[i] = longer[i].size + (IF i = 1 THEN 0 ELSE 1)
      BY <1>1 DEF Adds
    <2>2. \A i \in 1..n : Adds(lines)[i] = lines[i].size + (IF i = 1 THEN 0 ELSE 1)
      BY DEF Adds, n
    <2>3. n + 1 \in 1..(n + 1) /\ \A i \in 1..n : i \in 1..(n + 1)
      BY <1>1
    <2> QED BY <1>1, <2>1, <2>2, <2>3
  <1> HIDE DEF n, longer
  <1>4. Sums(n, Adds(lines), f)
    BY <1>1, <1>2, <1>3 DEF Sums
  <1>5. Size(lines) = f[n] /\ Size(lines) \in Nat
    BY <1>4, SizeOfSums DEF n
  <1>6. f[n + 1] = f[n] + Adds(longer)[n + 1]
    BY <1>1, <1>2 DEF Sums
  <1>7. line.size \in Nat
    BY DEF Line
  <1> QED BY <1>2, <1>3, <1>5, <1>6, <1>7 DEF longer

-----------------------------------------------------------------------------
(* FlattenSeq *)

\* The first n sequences of s joined, one after the other.
Joins(n, s, f) == f[0] = <<>> /\ \A i \in 1..n : f[i] = f[i - 1] \o s[i]

LEMMA JoinsExist ==
  ASSUME NEW n \in Nat, NEW S, NEW s \in [1..n -> Seq(S)]
  PROVE  \E f \in [0..n -> Seq(S)] : Joins(n, s, f)
  <1> DEFINE good == {m \in 0..n : \E f \in [0..m -> Seq(S)] : Joins(m, s, f)}
  <1>1. 0 \in good
    <2>1. <<>> \in Seq(S)
      OBVIOUS
    <2> DEFINE z == [i \in 0..0 |-> <<>>]
    <2>2. z \in [0..0 -> Seq(S)] /\ Joins(0, s, z) /\ 0 \in 0..n
      BY <2>1 DEF Joins
    <2> HIDE DEF z
    <2> QED BY <2>2, Zenon
  <1>2. ASSUME NEW m \in 1..n, m - 1 \in good PROVE m \in good
    <2>1. PICK f \in [0..(m - 1) -> Seq(S)] : Joins(m - 1, s, f)
      BY <1>2
    <2> DEFINE g == [i \in 0..m |-> IF i = m THEN f[m - 1] \o s[m] ELSE f[i]]
    <2>2. f[m - 1] \o s[m] \in Seq(S)
      <3>1. f[m - 1] \in Seq(S) /\ s[m] \in Seq(S)
        OBVIOUS
      <3> QED BY <3>1
    <2>3. g \in [0..m -> Seq(S)]
      BY <2>2
    <2>4. ASSUME NEW i \in 1..m PROVE g[i] = g[i - 1] \o s[i]
      <3>1. CASE i = m
        <4>1. g[i] = f[m - 1] \o s[m] /\ g[i - 1] = f[m - 1]
          BY <3>1
        <4> HIDE DEF g
        <4> QED BY <3>1, <4>1, Zenon
      <3>2. CASE i # m
        <4>1. i \in 1..(m - 1) /\ g[i] = f[i] /\ g[i - 1] = f[i - 1]
          BY <3>2
        <4> HIDE DEF g
        <4> QED BY <2>1, <4>1, Zenon DEF Joins
      <3> QED BY <3>1, <3>2
    <2>5. g[0] = f[0] /\ m \in 0..n
      OBVIOUS
    <2> HIDE DEF g
    <2>6. Joins(m, s, g)
      BY <2>1, <2>4, <2>5, Zenon DEF Joins
    <2> QED BY <2>3, <2>5, <2>6, Zenon
  <1>3. good = 0..n
    <2> HIDE DEF good
    <2>1. good \in SUBSET (0..n)
      BY DEF good
    <2> QED BY <1>1, <1>2, <2>1, NoFirstFailure
  <1>4. n \in 0..n
    OBVIOUS
  <1> QED BY <1>3, <1>4

LEMMA JoinsUnique ==
  ASSUME NEW n \in Nat, NEW S, NEW s \in [1..n -> Seq(S)], NEW f, NEW g,
         Joins(n, s, f), Joins(n, s, g)
  PROVE  \A i \in 0..n : f[i] \in Seq(S) /\ f[i] = g[i]
  <1> DEFINE good == {i \in 0..n : f[i] \in Seq(S) /\ f[i] = g[i]}
  <1>1. 0 \in good
    <2>1. <<>> \in Seq(S)
      OBVIOUS
    <2>2. 0 \in 0..n
      OBVIOUS
    <2> QED BY <2>1, <2>2, Zenon DEF Joins
  <1>2. ASSUME NEW i \in 1..n, i - 1 \in good PROVE i \in good
    <2>1. f[i - 1] \in Seq(S) /\ s[i] \in Seq(S) /\ f[i - 1] = g[i - 1]
      BY <1>2
    <2>2. f[i] = f[i - 1] \o s[i] /\ g[i] = f[i - 1] \o s[i]
      BY <2>1 DEF Joins
    <2>3. f[i - 1] \o s[i] \in Seq(S) /\ i \in 0..n
      BY <2>1
    <2> QED BY <2>2, <2>3, Zenon
  <1>3. good = 0..n
    <2> HIDE DEF good
    <2>1. good \in SUBSET (0..n)
      BY DEF good
    <2> QED BY <1>1, <1>2, <2>1, NoFirstFailure
  <1> QED BY <1>3

LEMMA FlattenIsJoin ==
  ASSUME NEW S, NEW seqs \in Seq(Seq(S))
  PROVE  \E f : Joins(Len(seqs), seqs, f) /\ FlattenSeq(seqs) = f[Len(seqs)]
  <1> DEFINE n == Len(seqs)
             body(f) == [i \in 1..n |-> IF i = 1 THEN seqs[i] ELSE f[i - 1] \o seqs[i]]
             flatten == CHOOSE f : f = body(f)
  <1>1. n \in Nat /\ seqs \in [1..n -> Seq(S)]
    OBVIOUS
  <1>2. FlattenSeq(seqs) = IF n = 0 THEN seqs ELSE flatten[n]
    BY DEF FlattenSeq
  <1>3. n = 0 => seqs = <<>>
    OBVIOUS
  <1> HIDE DEF n
  <1>4. PICK f \in [0..n -> Seq(S)] : Joins(n, seqs, f)
    BY <1>1, JoinsExist
  <1>5. CASE n = 0
    <2>1. f[n] = <<>>
      BY <1>4, <1>5 DEF Joins
    <2> QED BY <1>2, <1>3, <1>4, <1>5, <2>1 DEF n
  <1>6. CASE n # 0
    <2> DEFINE g == [i \in 1..n |-> f[i]]
    <2>1. \A i \in 1..n : f[i] = f[i - 1] \o seqs[i]
      BY <1>4 DEF Joins
    <2>2. f[1] = seqs[1]
      <3>1. 1 \in 1..n /\ 1 - 1 = 0
        BY <1>1, <1>6
      <3>4. f[1] = f[1 - 1] \o seqs[1] /\ f[0] = <<>>
        BY <2>1, <1>4, <3>1, Zenon DEF Joins
      <3>2. seqs[1] \in Seq(S)
        BY <1>1, <1>6
      <3>3. \A x \in Seq(S) : <<>> \o x = x
        OBVIOUS
      <3> QED BY <3>1, <3>2, <3>3, <3>4, Zenon
    <2>3. g = body(g)
      <3>1. \A i \in 1..n : i # 1 => i - 1 \in 1..n
        BY <1>1
      <3> QED BY <2>1, <2>2, <3>1
    <2>4. flatten = body(flatten)
      <3> HIDE DEF body
      <3> QED BY <2>3
    <2> HIDE DEF flatten
    <2>5. Joins(n, seqs, [i \in 0..n |-> IF i = 0 THEN <<>> ELSE flatten[i]])
      <3> DEFINE h == [i \in 0..n |-> IF i = 0 THEN <<>> ELSE flatten[i]]
      <3>1. flatten[1] = seqs[1] /\ 1 \in 1..n
        BY <1>1, <1>6, <2>4
      <3>2. \A i \in 1..n : i # 1 => flatten[i] = flatten[i - 1] \o seqs[i]
        BY <2>4
      <3>3. h[0] = <<>> /\ \A i \in 1..n : h[i] = flatten[i]
        BY <1>1
      <3>4. ASSUME NEW i \in 1..n PROVE h[i] = h[i - 1] \o seqs[i]
        <4>1. CASE i = 1
          <5>1. h[1] = seqs[1] /\ h[i - 1] = <<>>
            BY <3>1, <3>3, <4>1
          <5>2. seqs[1] \in Seq(S)
            BY <1>1, <3>1
          <5>3. \A x \in Seq(S) : <<>> \o x = x
            OBVIOUS
          <5> HIDE DEF h
          <5> QED BY <4>1, <5>1, <5>2, <5>3
        <4>2. CASE i # 1
          <5>1. i - 1 \in 1..n
            BY <1>1, <4>2
          <5> QED BY <3>2, <3>3, <4>2, <5>1
        <4> QED BY <4>1, <4>2
      <3> HIDE DEF h
      <3>5. Joins(n, seqs, h)
        BY <3>3, <3>4 DEF Joins
      <3> QED BY <3>5 DEF h
    <2>6. n \in 0..n /\ n # 0
      BY <1>1, <1>6
    <2> DEFINE h == [i \in 0..n |-> IF i = 0 THEN <<>> ELSE flatten[i]]
    <2>7. h[n] = flatten[n]
      BY <2>6
    <2>8. Joins(n, seqs, h)
      BY <2>5
    <2> HIDE DEF h
    <2> QED BY <1>2, <1>6, <2>7, <2>8 DEF n
  <1> QED BY <1>5, <1>6

LEMMA FlattenOfJoins ==
  ASSUME NEW S, NEW seqs \in Seq(Seq(S)), NEW f, Joins(Len(seqs), seqs, f)
  PROVE  FlattenSeq(seqs) = f[Len(seqs)] /\ FlattenSeq(seqs) \in Seq(S)
  <1>1. PICK g : Joins(Len(seqs), seqs, g) /\ FlattenSeq(seqs) = g[Len(seqs)]
    BY FlattenIsJoin
  <1>2. /\ Len(seqs) \in Nat /\ Len(seqs) \in 0..Len(seqs)
        /\ seqs \in [1..Len(seqs) -> Seq(S)]
    OBVIOUS
  <1>3. \A i \in 0..Len(seqs) : f[i] \in Seq(S) /\ f[i] = g[i]
    BY <1>1, <1>2, JoinsUnique
  <1> QED BY <1>1, <1>2, <1>3

LEMMA FlattenType ==
  ASSUME NEW S, NEW seqs \in Seq(Seq(S))
  PROVE  FlattenSeq(seqs) \in Seq(S)
  BY FlattenIsJoin, FlattenOfJoins

LEMMA FlattenEmpty == FlattenSeq(<<>>) = <<>>
  BY DEF FlattenSeq

LEMMA FlattenAppend ==
  ASSUME NEW S, NEW seqs \in Seq(Seq(S)), NEW seq \in Seq(S)
  PROVE  FlattenSeq(Append(seqs, seq)) = FlattenSeq(seqs) \o seq
  <1> DEFINE n == Len(seqs)
             longer == Append(seqs, seq)
  <1>1. /\ longer \in Seq(Seq(S)) /\ Len(longer) = n + 1 /\ n \in Nat
        /\ longer[n + 1] = seq /\ \A i \in 1..n : longer[i] = seqs[i]
    OBVIOUS
  <1> HIDE DEF n, longer
  <1>2. PICK f : Joins(n + 1, longer, f) /\ FlattenSeq(longer) = f[n + 1]
    BY <1>1, FlattenIsJoin
  <1>3. Joins(n, seqs, f)
    <2>1. \A i \in 1..n : i \in 1..(n + 1)
      BY <1>1
    <2> QED BY <1>1, <1>2, <2>1, Zenon DEF Joins
  <1>4. FlattenSeq(seqs) = f[n]
    BY <1>3, FlattenOfJoins DEF n
  <1>5. f[n + 1] = f[n] \o longer[n + 1]
    <2>1. n + 1 \in 1..(n + 1) /\ (n + 1) - 1 = n
      BY <1>1
    <2>2. f[n + 1] = f[(n + 1) - 1] \o longer[n + 1]
      BY <1>2, <2>1, Zenon DEF Joins
    <2> QED BY <2>1, <2>2, Zenon
  <1> QED BY <1>1, <1>2, <1>4, <1>5 DEF longer

\* How a sequence grows.
LEMMA Growth ==
  ASSUME NEW S, NEW s \in Seq(S)
  PROVE  /\ SubSeq(s, 1, 0) = <<>> /\ SubSeq(s, 1, Len(s)) = s /\ Len(s) \in Nat
         /\ \A k \in 0..Len(s) : SubSeq(s, 1, k) \in Seq(S) /\ Len(SubSeq(s, 1, k)) = k
         /\ \A k \in 1..Len(s) :
              /\ s[k] \in S /\ k - 1 \in 0..Len(s)
              /\ SubSeq(s, 1, k) = Append(SubSeq(s, 1, k - 1), s[k])
  <1>1. ASSUME NEW k \in 0..Len(s)
        PROVE  SubSeq(s, 1, k) \in Seq(S) /\ Len(SubSeq(s, 1, k)) = k
    OBVIOUS
  <1>2. ASSUME NEW k \in 1..Len(s)
        PROVE  /\ s[k] \in S /\ k - 1 \in 0..Len(s)
               /\ SubSeq(s, 1, k) = Append(SubSeq(s, 1, k - 1), s[k])
    OBVIOUS
  <1>3. SubSeq(s, 1, 0) = <<>> /\ SubSeq(s, 1, Len(s)) = s /\ Len(s) \in Nat
    OBVIOUS
  <1> QED BY <1>1, <1>2, <1>3

LEMMA Gluing ==
  ASSUME NEW S, NEW a \in Seq(S), NEW b \in Seq(S)
  PROVE  a \o <<>> = a /\ <<>> \o a = a /\ a \o b \in Seq(S)
  OBVIOUS

LEMMA GlueAppend ==
  ASSUME NEW S, NEW a \in Seq(S), NEW b \in Seq(S), NEW x \in S
  PROVE  a \o Append(b, x) = Append(a \o b, x) /\ a \o b \in Seq(S)
  OBVIOUS

LEMMA GluedFrom ==
  ASSUME NEW S, NEW a \in Seq(S), NEW b \in Seq(S), NEW c \in Seq(S),
         Len(c) = Len(a) + Len(b),
         \A i \in 1..Len(a) : c[i] = a[i],
         \A i \in 1..Len(b) : c[Len(a) + i] = b[i]
  PROVE  c = a \o b
  <1>1. a \o b \in Seq(S) /\ Len(a \o b) = Len(a) + Len(b)
    OBVIOUS
  <1>2. ASSUME NEW i \in 1..Len(c) PROVE c[i] = (a \o b)[i]
    <2>1. CASE i <= Len(a)
      BY <2>1
    <2>2. CASE i > Len(a)
      <3>1. i - Len(a) \in 1..Len(b) /\ Len(a) + (i - Len(a)) = i
        BY <2>2
      <3>2. (a \o b)[i] = b[i - Len(a)]
        BY <2>2
      <3> QED BY <3>1, <3>2
    <2> QED BY <2>1, <2>2
  <1> QED BY <1>1, <1>2, SeqEqual

LEMMA FlattenConcat ==
  ASSUME NEW S, NEW a \in Seq(Seq(S)), NEW b \in Seq(Seq(S))
  PROVE  FlattenSeq(a \o b) = FlattenSeq(a) \o FlattenSeq(b)
  <1> DEFINE to(k) == SubSeq(b, 1, k)
             good == {k \in 0..Len(b) :
                        FlattenSeq(a \o to(k)) = FlattenSeq(a) \o FlattenSeq(to(k))}
  <1>1. FlattenSeq(a) \in Seq(S)
    BY FlattenType
  <1>2. /\ to(0) = <<>> /\ to(Len(b)) = b /\ Len(b) \in Nat
        /\ \A k \in 0..Len(b) : to(k) \in Seq(Seq(S))
        /\ \A k \in 1..Len(b) : /\ b[k] \in Seq(S) /\ k - 1 \in 0..Len(b)
                               /\ to(k) = Append(to(k - 1), b[k])
    BY Growth, Zenon
  <1> HIDE DEF to
  <1>3. 0 \in good
    <2>1. a \o to(0) = a /\ FlattenSeq(a) \o FlattenSeq(to(0)) = FlattenSeq(a)
      <3>1. to(0) = <<>> /\ FlattenSeq(to(0)) = <<>>
        BY <1>2, FlattenEmpty
      <3> QED BY <1>1, <3>1, Gluing, Zenon
    <2>2. 0 \in 0..Len(b)
      BY <1>2
    <2> QED BY <2>1, <2>2
  <1>4. ASSUME NEW k \in 1..Len(b), k - 1 \in good PROVE k \in good
    <2> DEFINE x == to(k - 1)
    <2>1. x \in Seq(Seq(S)) /\ b[k] \in Seq(S) /\ to(k) = Append(x, b[k])
      BY <1>2, Zenon
    <2>8. k \in 0..Len(b)
      BY <1>2
    <2>2. FlattenSeq(a \o x) = FlattenSeq(a) \o FlattenSeq(x)
      BY <1>4
    <2> HIDE DEF x
    <2>3. a \o Append(x, b[k]) = Append(a \o x, b[k]) /\ a \o x \in Seq(Seq(S))
      BY <2>1, GlueAppend, Zenon
    <2>4. FlattenSeq(Append(a \o x, b[k])) = (FlattenSeq(a) \o FlattenSeq(x)) \o b[k]
      BY <2>1, <2>2, <2>3, FlattenAppend, ZenonT(30)
    <2>5. FlattenSeq(Append(x, b[k])) = FlattenSeq(x) \o b[k]
      BY <2>1, FlattenAppend
    <2>6. (FlattenSeq(a) \o FlattenSeq(x)) \o b[k] = FlattenSeq(a) \o (FlattenSeq(x) \o b[k])
      <3>1. FlattenSeq(x) \in Seq(S)
        BY <2>1, FlattenType
      <3>2. b[k] \in Seq(S)
        BY <2>1, Zenon
      <3>3. \A p, q, r \in Seq(S) : (p \o q) \o r = p \o (q \o r)
        BY SMTT(30)
      <3> QED BY <1>1, <3>1, <3>2, <3>3, Zenon
    <2>7. FlattenSeq(a \o to(k)) = FlattenSeq(a) \o FlattenSeq(to(k))
      BY <2>1, <2>3, <2>4, <2>5, <2>6, Zenon
    <2> QED BY <2>7, <2>8
  <1>5. good = 0..Len(b)
    <2> HIDE DEF good
    <2>1. good \in SUBSET (0..Len(b))
      BY DEF good
    <2> QED BY <1>2, <1>3, <1>4, <2>1, NoFirstFailure
  <1>6. Len(b) \in 0..Len(b)
    BY <1>2
  <1> QED BY <1>2, <1>5, <1>6

\* Joining sequences without elements gives none.
LEMMA FlattenNothing ==
  ASSUME NEW seqs \in Seq({<<>>})
  PROVE  FlattenSeq(seqs) = <<>>
  <1>1. \A s \in Seq({}) : s = <<>>
    OBVIOUS
  <1>2. <<>> \in Seq({})
    OBVIOUS
  <1>3. seqs \in Seq(Seq({}))
    <2>1. {<<>>} \subseteq Seq({})
      BY <1>2
    <2>2. \A S, T : S \subseteq T => Seq(S) \subseteq Seq(T)
      OBVIOUS
    <2> QED BY <2>1, <2>2, Zenon
  <1> QED BY <1>1, <1>3, FlattenType

-----------------------------------------------------------------------------
(* The lines of a text that can arrive *)

Bit(line) == IF Told(line) /\ line.size <= Cap THEN <<line>> ELSE <<>>
Bits(lines) == [i \in 1..Len(lines) |-> Bit(lines[i])]
Kept(lines) == Pick(lines, Fitting(lines))

LEMMA BitsType ==
  ASSUME NEW lines \in Seq(Line)
  PROVE  Bits(lines) \in Seq(Seq(Line)) /\ Len(Bits(lines)) = Len(lines)
  <1>1. \A i \in 1..Len(lines) : lines[i] \in Line
    OBVIOUS
  <1>2. \A l \in Line : Bit(l) \in Seq(Line)
    <2>1. \A l \in Line : <<l>> \in Seq(Line) /\ <<>> \in Seq(Line)
      OBVIOUS
    <2> QED BY <2>1 DEF Bit
  <1>3. Len(lines) \in Nat
    OBVIOUS
  <1> HIDE DEF Line
  <1> QED BY <1>1, <1>2, <1>3 DEF Bits

LEMMA KeptIsBits ==
  ASSUME NEW lines \in Seq(Line)
  PROVE  Kept(lines) = FlattenSeq(Bits(lines))
  <1>1. DOMAIN lines = 1..Len(lines)
    OBVIOUS
  <1>2. [i \in DOMAIN lines |-> IF i \in Fitting(lines) THEN <<lines[i]>> ELSE <<>>] = Bits(lines)
    BY <1>1, Zenon DEF Bits, Bit, Fitting
  <1> QED BY <1>2 DEF Kept, Pick

LEMMA KeptType == ASSUME NEW lines \in Seq(Line) PROVE Kept(lines) \in Seq(Line)
  BY KeptIsBits, BitsType, FlattenType

LEMMA KeptConcat ==
  ASSUME NEW a \in Seq(Line), NEW b \in Seq(Line)
  PROVE  Kept(a \o b) = Kept(a) \o Kept(b)
  <1>1. a \o b \in Seq(Line)
    OBVIOUS
  <1>2. Bits(a \o b) = Bits(a) \o Bits(b)
    <2>1. /\ Bits(a) \in Seq(Seq(Line)) /\ Len(Bits(a)) = Len(a)
          /\ Bits(b) \in Seq(Seq(Line)) /\ Len(Bits(b)) = Len(b)
          /\ Bits(a \o b) \in Seq(Seq(Line)) /\ Len(Bits(a \o b)) = Len(a \o b)
      BY <1>1, BitsType, Zenon
    <2>2. /\ Len(a) \in Nat /\ Len(b) \in Nat /\ Len(a \o b) = Len(a) + Len(b)
          /\ \A i \in 1..Len(a) : (a \o b)[i] = a[i] /\ i \in 1..Len(a \o b)
          /\ \A i \in 1..Len(b) : /\ (a \o b)[Len(a) + i] = b[i]
                                /\ Len(a) + i \in 1..Len(a \o b)
      OBVIOUS
    <2>3. \A i \in 1..Len(a) : Bits(a \o b)[i] = Bits(a)[i]
      BY <2>2, Zenon DEF Bits
    <2>4. \A i \in 1..Len(b) : Bits(a \o b)[Len(a) + i] = Bits(b)[i]
      BY <2>2, Zenon DEF Bits
    <2>5. Len(Bits(a \o b)) = Len(Bits(a)) + Len(Bits(b))
      BY <2>1, <2>2, Zenon
    <2> DEFINE x == Bits(a)
               y == Bits(b)
               z == Bits(a \o b)
    <2>6. /\ x \in Seq(Seq(Line)) /\ y \in Seq(Seq(Line)) /\ z \in Seq(Seq(Line))
          /\ Len(z) = Len(x) + Len(y) /\ \A i \in 1..Len(x) : z[i] = x[i]
          /\ \A i \in 1..Len(y) : z[Len(x) + i] = y[i]
      BY <2>1, <2>3, <2>4, <2>5, Zenon
    <2> HIDE DEF x, y, z
    <2>7. z = x \o y
      BY <2>6, GluedFrom, Zenon
    <2> QED BY <2>7 DEF x, y, z
  <1>3. /\ Kept(a \o b) = FlattenSeq(Bits(a \o b)) /\ Kept(a) = FlattenSeq(Bits(a))
        /\ Kept(b) = FlattenSeq(Bits(b))
    BY <1>1, KeptIsBits
  <1>4. Bits(a) \in Seq(Seq(Line)) /\ Bits(b) \in Seq(Seq(Line))
    BY BitsType
  <1>5. FlattenSeq(Bits(a) \o Bits(b)) = FlattenSeq(Bits(a)) \o FlattenSeq(Bits(b))
    BY <1>4, FlattenConcat, Zenon
  <1> QED BY <1>2, <1>3, <1>5, Zenon

\* Nothing arrives of lines none of which can.
LEMMA KeptNothing ==
  ASSUME NEW lines \in Seq(Line), \A i \in 1..Len(lines) : Bit(lines[i]) = <<>>
  PROVE  Kept(lines) = <<>>
  <1>1. Bits(lines) \in Seq({<<>>})
    <2>1. Len(lines) \in Nat
      OBVIOUS
    <2> QED BY <2>1 DEF Bits
  <1> QED BY <1>1, FlattenNothing, KeptIsBits

LEMMA KeptOne ==
  ASSUME NEW line \in Line
  PROVE  Kept(<<line>>) = Bit(line)
  <1>1. /\ <<line>> \in Seq(Line) /\ Bits(<<line>>) = Append(<<>>, Bit(line))
    BY DEF Bits
  <1>2. Bit(line) \in Seq(Line) /\ <<>> \in Seq(Seq(Line))
    BY DEF Bit
  <1>3. FlattenSeq(Append(<<>>, Bit(line))) = <<>> \o Bit(line)
    BY <1>2, FlattenAppend, FlattenEmpty
  <1> QED BY <1>1, <1>2, <1>3, KeptIsBits, Gluing

LEMMA KeptEmpty == Kept(<<>>) = <<>>
  <1>1. Kept(<<>>) = FlattenSeq(<<>>)
    BY DEF Kept, Pick, Fitting
  <1> QED BY <1>1, FlattenEmpty

LEMMA KeptAppend ==
  ASSUME NEW lines \in Seq(Line), NEW line \in Line
  PROVE  Kept(Append(lines, line)) = Kept(lines) \o Bit(line)
  <1>1. Append(lines, line) = lines \o <<line>> /\ <<line>> \in Seq(Line)
    OBVIOUS
  <1> QED BY <1>1, KeptConcat, KeptOne

-----------------------------------------------------------------------------
(* What Size says of the lines *)

LEMMA SizeOne == ASSUME NEW line \in Line PROVE Size(<<line>>) = line.size
  <1>1. <<line>> = Append(<<>>, line) /\ <<>> \in Seq(Line)
    OBVIOUS
  <1>2. line.size \in Nat
    BY DEF Line
  <1>3. Size(Append(<<>>, line)) = Size(<<>>) + line.size + 0
    BY <1>1, SizeAppend
  <1>4. Size(Append(<<>>, line)) = line.size
    <2> HIDE DEF Size
    <2> QED BY <1>2, <1>3, SizeEmpty
  <1> QED BY <1>1, <1>4, Zenon

\* No beginning of a text, and no line of it, is longer than the text.
LEMMA SizeCovers ==
  ASSUME NEW lines \in Seq(Line)
  PROVE  /\ \A k \in 0..Len(lines) : Size(SubSeq(lines, 1, k)) <= Size(lines)
         /\ \A i \in 1..Len(lines) : lines[i].size <= Size(lines)
  <1> DEFINE to(k) == SubSeq(lines, 1, k)
             n == Len(lines)
             good == {k \in 0..n : /\ \A j \in 0..k : Size(to(j)) <= Size(to(k))
                                   /\ \A i \in 1..k : lines[i].size <= Size(to(k))}
  <1>1. /\ to(0) = <<>> /\ to(n) = lines /\ n \in Nat
        /\ \A k \in 0..n : to(k) \in Seq(Line)
        /\ \A k \in 1..n : /\ lines[k] \in Line /\ k - 1 \in 0..n
                          /\ to(k) = Append(to(k - 1), lines[k])
    BY Growth, Zenon
  <1> HIDE DEF to, n
  <1>2. \A k \in 0..n : Size(to(k)) \in Nat
    BY <1>1, SizeNat
  <1>3. ASSUME NEW k \in 1..n
        PROVE  /\ lines[k].size \in Nat
               /\ Size(to(k)) >= Size(to(k - 1)) + lines[k].size
    <2>1. lines[k].size \in Nat
      BY <1>1 DEF Line
    <2>2. to(k - 1) \in Seq(Line) /\ Size(to(k - 1)) \in Nat
      BY <1>1, <1>2
    <2>3. Size(to(k)) = Size(to(k - 1)) + lines[k].size + (IF to(k - 1) = <<>> THEN 0 ELSE 1)
      BY <1>1, <2>2, SizeAppend, ZenonT(60)
    <2> QED BY <2>1, <2>2, <2>3
  <1>4. 0 \in good
    <2>1. 0 \in 0..n /\ \A j \in 0..0 : j = 0
      BY <1>1
    <2> QED BY <1>2, <2>1
  <1>5. ASSUME NEW k \in 1..n, k - 1 \in good PROVE k \in good
    <2>1. /\ \A j \in 0..(k - 1) : Size(to(j)) <= Size(to(k - 1))
          /\ \A i \in 1..(k - 1) : lines[i].size <= Size(to(k - 1))
      BY <1>5
    <2>6. k \in 0..n /\ k - 1 \in 0..n
      BY <1>1
    <2>2. Size(to(k)) \in Nat /\ Size(to(k - 1)) \in Nat /\ k \in 0..n
      BY <1>2, <2>6
    <2>3. Size(to(k - 1)) <= Size(to(k)) /\ lines[k].size <= Size(to(k))
      BY <1>3, <2>2
    <2>4. ASSUME NEW j \in 0..k PROVE Size(to(j)) <= Size(to(k))
      <3>1. CASE j = k
        BY <2>2, <3>1
      <3>2. CASE j # k
        <4>1. j \in 0..(k - 1) /\ j \in 0..n
          BY <1>1, <3>2
        <4> QED BY <1>2, <2>1, <2>2, <2>3, <4>1
      <3> QED BY <3>1, <3>2
    <2>5. ASSUME NEW i \in 1..k PROVE lines[i].size <= Size(to(k))
      <3>1. CASE i = k
        BY <2>3, <3>1
      <3>2. CASE i # k
        <4>1. i \in 1..(k - 1) /\ i \in 1..n
          BY <1>1, <3>2
        <4> QED BY <1>3, <2>1, <2>2, <2>3, <4>1
      <3> QED BY <3>1, <3>2
    <2> QED BY <2>2, <2>4, <2>5
  <1>6. good = 0..n
    <2> HIDE DEF good
    <2>1. good \in SUBSET (0..n)
      BY DEF good
    <2> QED BY <1>1, <1>4, <1>5, <2>1, NoFirstFailure
  <1>7. n \in 0..n
    BY <1>1
  <1>8. /\ \A j \in 0..n : Size(to(j)) <= Size(to(n))
        /\ \A i \in 1..n : lines[i].size <= Size(to(n))
    BY <1>6, <1>7
  <1> QED BY <1>1, <1>8 DEF to, n

\* A text that fits a message, or is a single line, arrives but for the lines
\* that cannot.
Small(lines) == Size(lines) <= MaxText \/ Len(lines) = 1

LEMMA ReceivedKept ==
  ASSUME NEW lines \in Seq(Line), Small(lines), NEW labelled
  PROVE  Received(Message(lines, labelled)) = Kept(lines)
  <1> DEFINE here == {i \in DOMAIN lines : Told(lines[i]) /\ Size(SubSeq(lines, 1, i)) <= Cap}
  <1>1. DOMAIN lines = 1..Len(lines) /\ Len(lines) \in Nat
    OBVIOUS
  <1>2. ASSUME NEW i \in 1..Len(lines)
        PROVE  Size(SubSeq(lines, 1, i)) <= Cap <=> lines[i].size <= Cap
    <2>1. lines[i] \in Line /\ i \in 0..Len(lines) /\ SubSeq(lines, 1, i) \in Seq(Line)
      BY Growth, <1>1
    <2>2. /\ lines[i].size \in Nat /\ Size(lines) \in Nat
          /\ Size(SubSeq(lines, 1, i)) \in Nat
      BY <2>1, SizeNat DEF Line
    <2>3. CASE Size(lines) <= MaxText
      <3>1. Size(SubSeq(lines, 1, i)) <= Size(lines) /\ lines[i].size <= Size(lines)
        BY <2>1, SizeCovers
      <3> QED BY <2>2, <2>3, <3>1, SizesAssumption
    <2>4. CASE Len(lines) = 1
      <3>1. i = 1 /\ SubSeq(lines, 1, 1) = lines /\ lines = <<lines[1]>>
        BY <2>4, Growth
      <3>2. Size(<<lines[1]>>) = lines[1].size
        BY <2>1, <3>1, SizeOne
      <3> QED BY <3>1, <3>2
    <2> QED BY <2>3, <2>4 DEF Small
  <1>3. here = Fitting(lines)
    BY <1>1, <1>2 DEF Fitting
  <1>4. Message(lines, labelled).lines = lines
    BY DEF Message
  <1> QED BY <1>3, <1>4 DEF Received, Kept

-----------------------------------------------------------------------------
(* Chunks *)

State == [chunks : Seq(Seq(Line)), current : Seq(Line)]
Start == [chunks |-> <<>>, current |-> <<>>]

LEMMA StateFields ==
  ASSUME NEW state \in State
  PROVE  state.chunks \in Seq(Seq(Line)) /\ state.current \in Seq(Line)
  BY DEF State

LEMMA StartType == Start \in State
  <1>1. \A S : <<>> \in Seq(S)
    OBVIOUS
  <1> QED BY <1>1, Zenon DEF State, Start

LEMMA AddLineCases ==
  ASSUME NEW state \in State, NEW line \in Line
  PROVE  /\ Overflows(state.current, line) =>
              AddLine(state, line) = [chunks |-> Append(state.chunks, state.current),
                                      current |-> <<line>>]
         /\ ~Overflows(state.current, line) /\ Size(state.current) = 0 =>
              AddLine(state, line) = [chunks |-> state.chunks, current |-> <<line>>]
         /\ ~Overflows(state.current, line) /\ Size(state.current) # 0 =>
              AddLine(state, line) = [chunks |-> state.chunks,
                                      current |-> Append(state.current, line)]
  BY DEF AddLine, Joined, State

LEMMA AddLineType ==
  ASSUME NEW state \in State, NEW line \in Line
  PROVE  AddLine(state, line) \in State
  <1>1. state.chunks \in Seq(Seq(Line)) /\ state.current \in Seq(Line)
    BY StateFields
  <1>2. <<line>> \in Seq(Line) /\ Append(state.current, line) \in Seq(Line)
    BY <1>1
  <1>3. Append(state.chunks, state.current) \in Seq(Seq(Line))
    <2>1. \A S : \A q \in Seq(S), x \in S : Append(q, x) \in Seq(S)
      OBVIOUS
    <2> QED BY <1>1, <2>1, Zenon
  <1>4. \A c \in Seq(Seq(Line)), l \in Seq(Line) : [chunks |-> c, current |-> l] \in State
    BY DEF State
  <1>5. CASE Overflows(state.current, line)
    BY <1>2, <1>3, <1>4, <1>5, AddLineCases, Zenon
  <1>6. CASE ~Overflows(state.current, line) /\ Size(state.current) = 0
    BY <1>1, <1>2, <1>4, <1>6, AddLineCases, Zenon
  <1>7. CASE ~Overflows(state.current, line) /\ Size(state.current) # 0
    BY <1>1, <1>2, <1>4, <1>7, AddLineCases, Zenon
  <1> QED BY <1>5, <1>6, <1>7

\* f[i] is the state of the loop after i lines.
Loops(n, text, f) == f[0] = Start /\ \A i \in 1..n : f[i] = AddLine(f[i - 1], text[i])

LEMMA LoopsExist ==
  ASSUME NEW n \in Nat, NEW text \in [1..n -> Line]
  PROVE  \E f \in [0..n -> State] : Loops(n, text, f)
  <1> DEFINE good == {m \in 0..n : \E f \in [0..m -> State] : Loops(m, text, f)}
  <1>1. 0 \in good
    <2> DEFINE z == [i \in 0..0 |-> Start]
    <2>1. z \in [0..0 -> State] /\ Loops(0, text, z) /\ 0 \in 0..n
      BY StartType DEF Loops
    <2> HIDE DEF z
    <2> QED BY <2>1, Zenon
  <1>2. ASSUME NEW m \in 1..n, m - 1 \in good PROVE m \in good
    <2>1. PICK f \in [0..(m - 1) -> State] : Loops(m - 1, text, f)
      BY <1>2
    <2> DEFINE next == AddLine(f[m - 1], text[m])
               g == [i \in 0..m |-> IF i = m THEN next ELSE f[i]]
    <2>2. f[m - 1] \in State /\ text[m] \in Line
      OBVIOUS
    <2>3. next \in State
      BY <2>2, AddLineType
    <2> HIDE DEF next
    <2>4. g \in [0..m -> State]
      BY <2>3
    <2>5. ASSUME NEW i \in 1..m PROVE g[i] = AddLine(g[i - 1], text[i])
      <3>1. CASE i = m
        <4>1. g[i] = next /\ g[i - 1] = f[m - 1]
          BY <3>1
        <4> HIDE DEF g
        <4> QED BY <3>1, <4>1, Zenon DEF next
      <3>2. CASE i # m
        <4>1. i \in 1..(m - 1) /\ g[i] = f[i] /\ g[i - 1] = f[i - 1]
          BY <3>2
        <4> HIDE DEF g
        <4> QED BY <2>1, <4>1, Zenon DEF Loops
      <3> QED BY <3>1, <3>2
    <2>6. g[0] = f[0] /\ m \in 0..n
      OBVIOUS
    <2> HIDE DEF g
    <2>7. Loops(m, text, g)
      BY <2>1, <2>5, <2>6, Zenon DEF Loops
    <2> QED BY <2>4, <2>6, <2>7, Zenon
  <1>3. good = 0..n
    <2> HIDE DEF good
    <2>1. good \in SUBSET (0..n)
      BY DEF good
    <2> QED BY <1>1, <1>2, <2>1, NoFirstFailure
  <1>4. n \in 0..n
    OBVIOUS
  <1> QED BY <1>3, <1>4

\* What the loop leaves in `current` is the last chunk, unless it is empty.
Closed(end) == IF Size(end.current) > 0 THEN Append(end.chunks, end.current) ELSE end.chunks

LEMMA ChunksAreLooped ==
  ASSUME NEW text \in Seq(Line)
  PROVE  \E f \in [0..Len(text) -> State] :
           Loops(Len(text), text, f) /\ Chunks(text) = Closed(f[Len(text)])
  <1> DEFINE n == Len(text)
             body(f) == [i \in 0..n |-> IF i = 0 THEN [chunks |-> <<>>, current |-> <<>>]
                                        ELSE AddLine(f[i - 1], text[i])]
             after == CHOOSE f : f = body(f)
  <1>1. n \in Nat /\ text \in [1..n -> Line]
    OBVIOUS
  <1>2. Chunks(text) = Closed(after[n])
    BY DEF Chunks, Closed
  <1> HIDE DEF n
  <1>3. PICK f \in [0..n -> State] : Loops(n, text, f)
    BY <1>1, LoopsExist
  <1>4. f[0] = Start /\ \A i \in 1..n : f[i] = AddLine(f[i - 1], text[i])
    BY <1>3 DEF Loops
  <1>5. f = body(f)
    <2>1. \A i \in 0..n : i # 0 => i \in 1..n
      BY <1>1
    <2> QED BY <1>4, <2>1 DEF Start
  <1>6. after = body(after)
    <2> HIDE DEF body
    <2> QED BY <1>5
  <1> HIDE DEF after
  <1> DEFINE good == {i \in 0..n : after[i] = f[i]}
  <1>7. 0 \in good
    <2>1. 0 \in 0..n
      BY <1>1
    <2> QED BY <1>4, <1>6, <2>1 DEF Start
  <1>8. ASSUME NEW i \in 1..n, i - 1 \in good PROVE i \in good
    <2>1. i \in 0..n /\ i # 0
      BY <1>1
    <2>2. after[i] = AddLine(after[i - 1], text[i])
      BY <1>6, <2>1
    <2> QED BY <1>4, <1>8, <2>1, <2>2
  <1>9. good = 0..n
    <2> HIDE DEF good
    <2>1. good \in SUBSET (0..n)
      BY DEF good
    <2> QED BY <1>1, <1>7, <1>8, <2>1, NoFirstFailure
  <1>10. after[n] = f[n]
    <2>1. n \in 0..n
      BY <1>1
    <2> QED BY <1>9, <2>1
  <1> QED BY <1>2, <1>3, <1>10 DEF n

-----------------------------------------------------------------------------
(* What the loop keeps *)

Keeps(chunks) == [k \in 1..Len(chunks) |-> Kept(chunks[k])]
KeptAll(chunks) == FlattenSeq(Keeps(chunks))

LEMMA KeepsType ==
  ASSUME NEW chunks \in Seq(Seq(Line))
  PROVE  /\ Keeps(chunks) \in Seq(Seq(Line)) /\ KeptAll(chunks) \in Seq(Line)
         /\ Len(Keeps(chunks)) = Len(chunks)
  <1>1. \A k \in 1..Len(chunks) : chunks[k] \in Seq(Line)
    OBVIOUS
  <1>2. \A k \in 1..Len(chunks) : Kept(chunks[k]) \in Seq(Line)
    BY <1>1, KeptType
  <1>3. Len(chunks) \in Nat
    OBVIOUS
  <1>4. Keeps(chunks) \in Seq(Seq(Line)) /\ Len(Keeps(chunks)) = Len(chunks)
    BY <1>2, <1>3 DEF Keeps
  <1> QED BY <1>4, FlattenType DEF KeptAll

LEMMA KeptAllEmpty == KeptAll(<<>>) = <<>>
  <1>1. Keeps(<<>>) = <<>>
    BY DEF Keeps
  <1> QED BY <1>1, FlattenEmpty DEF KeptAll

LEMMA Longer ==
  ASSUME NEW S, NEW q \in Seq(S), NEW x \in S
  PROVE  /\ Append(q, x) \in Seq(S) /\ Len(Append(q, x)) = Len(q) + 1 /\ Len(q) \in Nat
         /\ Append(q, x)[Len(q) + 1] = x
         /\ \A k \in 1..Len(q) : Append(q, x)[k] = q[k]
         /\ \A k \in 1..Len(Append(q, x)) : k \in 1..Len(q) \/ k = Len(q) + 1
  OBVIOUS

LEMMA SomeAfterAppend == ASSUME NEW S, NEW q \in Seq(S), NEW x \in S PROVE Append(q, x) # <<>>
  <1>1. Len(Append(q, x)) # 0
    BY Longer
  <1>2. Len(<<>>) = 0
    OBVIOUS
  <1> QED BY <1>1, <1>2, Zenon

LEMMA LongerFrom ==
  ASSUME NEW S, NEW q \in Seq(S), NEW x \in S, NEW z \in Seq(S), Len(z) = Len(q) + 1,
         z[Len(q) + 1] = x, \A k \in 1..Len(q) : z[k] = q[k]
  PROVE  z = Append(q, x)
  <1>1. /\ Append(q, x) \in Seq(S) /\ Len(Append(q, x)) = Len(z)
        /\ \A k \in 1..Len(z) : z[k] = Append(q, x)[k]
    OBVIOUS
  <1> QED BY <1>1, SeqEqual

LEMMA KeptAllAppend ==
  ASSUME NEW chunks \in Seq(Seq(Line)), NEW chunk \in Seq(Line)
  PROVE  KeptAll(Append(chunks, chunk)) = KeptAll(chunks) \o Kept(chunk)
  <1> DEFINE n == Len(chunks)
             more == Append(chunks, chunk)
  <1>1. /\ more \in Seq(Seq(Line)) /\ Len(more) = n + 1 /\ n \in Nat
        /\ more[n + 1] = chunk /\ \A k \in 1..n : more[k] = chunks[k]
    <2> DEFINE T == Seq(Line)
    <2>1. chunks \in Seq(T) /\ chunk \in T
      OBVIOUS
    <2> HIDE DEF T
    <2>2. /\ more \in Seq(T) /\ Len(more) = n + 1 /\ n \in Nat
          /\ more[n + 1] = chunk /\ \A k \in 1..n : more[k] = chunks[k]
      BY <2>1, Longer
    <2> QED BY <2>2 DEF T
  <1>2. Keeps(chunks) \in Seq(Seq(Line)) /\ Len(Keeps(chunks)) = n /\ Kept(chunk) \in Seq(Line)
    BY KeepsType, KeptType
  <1>3. Keeps(more) = Append(Keeps(chunks), Kept(chunk))
    <2> HIDE DEF n, more
    <2>1. Keeps(more) \in Seq(Seq(Line)) /\ Len(Keeps(more)) = n + 1
      BY <1>1, KeepsType, Zenon
    <2>2. n + 1 \in 1..(n + 1) /\ \A k \in 1..n : k \in 1..(n + 1)
      BY <1>1
    <2>3. Keeps(more)[n + 1] = Kept(chunk)
      BY <1>1, <2>2, Zenon DEF Keeps
    <2>4. \A k \in 1..n : Keeps(more)[k] = Kept(more[k])
      BY <1>1, <2>2, Zenon DEF Keeps
    <2>5. \A k \in 1..n : Keeps(chunks)[k] = Kept(chunks[k])
      BY Zenon DEF Keeps, n
    <2>6. \A k \in 1..n : Keeps(more)[k] = Keeps(chunks)[k]
      BY <1>1, <2>4, <2>5, Zenon
    <2> DEFINE T == Seq(Line)
               x == Keeps(chunks)
               y == Kept(chunk)
               z == Keeps(more)
    <2>7. /\ x \in Seq(T) /\ y \in T /\ z \in Seq(T) /\ Len(x) = n /\ Len(z) = n + 1
          /\ z[n + 1] = y /\ \A k \in 1..n : z[k] = x[k]
      BY <1>2, <2>1, <2>3, <2>6, Zenon
    <2> HIDE DEF T, x, y, z
    <2>8. z = Append(x, y)
      BY <2>7, LongerFrom
    <2> QED BY <2>8 DEF x, y, z
  <1>4. FlattenSeq(Append(Keeps(chunks), Kept(chunk))) = FlattenSeq(Keeps(chunks)) \o Kept(chunk)
    BY <1>2, FlattenAppend, Zenon
  <1> QED BY <1>3, <1>4, Zenon DEF KeptAll

\* A size of 0 leaves nothing to tell.
LEMMA KeptBlank ==
  ASSUME NEW lines \in Seq(Line), Size(lines) = 0
  PROVE  Kept(lines) = <<>>
  <1>1. ASSUME NEW i \in 1..Len(lines) PROVE Bit(lines[i]) = <<>>
    <2>1. lines[i] \in Line /\ lines[i].size <= 0
      BY SizeCovers
    <2>2. lines[i].size \in Nat
      BY <2>1 DEF Line
    <2>3. ~Told(lines[i])
      BY <2>1, <2>2 DEF Told, Written
    <2> QED BY <2>3 DEF Bit
  <1> QED BY <1>1, KeptNothing

\* Every line the loop takes is in the chunks or in `current`, in order.
LEMMA AddLineKeeps ==
  ASSUME NEW state \in State, NEW line \in Line
  PROVE  KeptAll(AddLine(state, line).chunks) \o Kept(AddLine(state, line).current) =
           (KeptAll(state.chunks) \o Kept(state.current)) \o Bit(line)
  <1> DEFINE next == AddLine(state, line)
             all == KeptAll(state.chunks)
             now == Kept(state.current)
  <1>1. state.chunks \in Seq(Seq(Line)) /\ state.current \in Seq(Line)
    BY StateFields
  <1>2. all \in Seq(Line) /\ now \in Seq(Line) /\ Bit(line) \in Seq(Line)
    <2>1. Bit(line) \in Seq(Line)
      BY DEF Bit
    <2> QED BY <1>1, <2>1, KeepsType, KeptType
  <1>3. CASE Overflows(state.current, line)
    <2>1. next.chunks = Append(state.chunks, state.current) /\ next.current = <<line>>
      BY <1>3, AddLineCases
    <2>2. KeptAll(next.chunks) = all \o now
      BY <1>1, <2>1, KeptAllAppend
    <2>3. Kept(next.current) = Bit(line)
      BY <2>1, KeptOne
    <2> QED BY <2>2, <2>3
  <1>4. CASE ~Overflows(state.current, line) /\ Size(state.current) = 0
    <2>1. next.chunks = state.chunks /\ next.current = <<line>>
      BY <1>4, AddLineCases
    <2>2. now = <<>> /\ Kept(next.current) = Bit(line)
      BY <1>1, <1>4, <2>1, KeptBlank, KeptOne
    <2>3. all \o <<>> = all
      BY <1>2
    <2> HIDE DEF all, now, next
    <2>4. KeptAll(next.chunks) = all
      BY <2>1 DEF all
    <2> QED BY <2>2, <2>3, <2>4 DEF next, all, now
  <1>5. CASE ~Overflows(state.current, line) /\ Size(state.current) # 0
    <2>1. next.chunks = state.chunks /\ next.current = Append(state.current, line)
      BY <1>5, AddLineCases
    <2>2. Kept(next.current) = now \o Bit(line)
      BY <1>1, <2>1, KeptAppend
    <2>3. \A p, q, r \in Seq(Line) : (p \o q) \o r = p \o (q \o r)
      OBVIOUS
    <2>4. (all \o now) \o Bit(line) = all \o (now \o Bit(line))
      BY <1>2, <2>3, Zenon
    <2> QED BY <2>1, <2>2, <2>4
  <1> QED BY <1>3, <1>4, <1>5

AllSmall(state) == /\ \A k \in 1..Len(state.chunks) : Small(state.chunks[k])
                   /\ Small(state.current)

LEMMA AddLineSmall ==
  ASSUME NEW state \in State, NEW line \in Line, AllSmall(state)
  PROVE  AllSmall(AddLine(state, line))
  <1> DEFINE next == AddLine(state, line)
  <1>1. state.chunks \in Seq(Seq(Line)) /\ state.current \in Seq(Line)
    BY StateFields
  <1>2. Small(<<line>>)
    BY DEF Small
  <1>3. CASE Overflows(state.current, line)
    <2>1. next.chunks = Append(state.chunks, state.current) /\ next.current = <<line>>
      BY <1>3, AddLineCases
    <2>2. \A k \in 1..Len(next.chunks) :
            next.chunks[k] = state.current
            \/ (k \in 1..Len(state.chunks) /\ next.chunks[k] = state.chunks[k])
      <3> DEFINE T == Seq(Line)
      <3>1. state.chunks \in Seq(T) /\ state.current \in T
        BY <1>1
      <3> HIDE DEF T, next
      <3> QED BY <2>1, <3>1, Longer
    <2> HIDE DEF next
    <2>3. AllSmall(next)
      BY <1>2, <2>1, <2>2, Zenon DEF AllSmall
    <2> QED BY <2>3 DEF next
  <1>4. CASE ~Overflows(state.current, line) /\ Size(state.current) = 0
    <2>1. next.chunks = state.chunks /\ next.current = <<line>>
      BY <1>4, AddLineCases
    <2> QED BY <1>2, <2>1 DEF AllSmall
  <1>5. CASE ~Overflows(state.current, line) /\ Size(state.current) # 0
    <2>1. next.chunks = state.chunks /\ next.current = Append(state.current, line)
      BY <1>5, AddLineCases
    <2>2. Size(state.current) \in Nat /\ line.size \in Nat
      BY <1>1, SizeNat DEF Line
    <2>3. Size(next.current) <= Size(state.current) + line.size + 1
      BY <1>1, <2>1, <2>2, SizeAppend
    <2>4. Size(state.current) + line.size + 1 <= MaxText
      BY <1>5, <2>2, SizesAssumption DEF Overflows
    <2>5. Size(next.current) \in Nat
      <3>1. next.current \in Seq(Line)
        BY <1>1, <2>1
      <3> QED BY <3>1, SizeNat
    <2>6. Small(next.current)
      BY <2>2, <2>3, <2>4, <2>5, SizesAssumption DEF Small
    <2> QED BY <2>1, <2>6 DEF AllSmall
  <1> QED BY <1>3, <1>4, <1>5

\* Without a line that fills a message alone, every chunk fits and has text.
HasText(lines) == \E i \in 1..Len(lines) : Written(lines[i])
Tight(lines) == Size(lines) <= MaxText /\ HasText(lines)
AllTight(state) ==
  /\ \A k \in 1..Len(state.chunks) : Tight(state.chunks[k])
  /\ Size(state.current) <= MaxText
  /\ Size(state.current) > 0 => HasText(state.current)

LEMMA HasTextOne ==
  ASSUME NEW line \in Line, line.size > 0
  PROVE  HasText(<<line>>)
  BY DEF HasText, Written

LEMMA HasTextAppend ==
  ASSUME NEW lines \in Seq(Line), NEW line \in Line, HasText(lines)
  PROVE  HasText(Append(lines, line))
  <1>1. PICK i \in 1..Len(lines) : Written(lines[i])
    BY DEF HasText
  <1>2. i \in 1..Len(Append(lines, line)) /\ Append(lines, line)[i] = lines[i]
    OBVIOUS
  <1> QED BY <1>1, <1>2 DEF HasText

LEMMA AddLineTight ==
  ASSUME NEW state \in State, NEW line \in Line, AllTight(state), line.size < MaxText
  PROVE  AllTight(AddLine(state, line))
  <1> DEFINE next == AddLine(state, line)
  <1>1. state.chunks \in Seq(Seq(Line)) /\ state.current \in Seq(Line)
    BY StateFields
  <1>2. Size(state.current) \in Nat /\ line.size \in Nat /\ MaxText \in Nat
    BY <1>1, SizeNat, SizesAssumption DEF Line
  <1>3. Size(<<line>>) <= MaxText /\ (Size(<<line>>) > 0 => HasText(<<line>>))
    <2>1. Size(<<line>>) = line.size
      BY SizeOne
    <2> QED BY <1>2, <2>1, HasTextOne
  <1>4. CASE Overflows(state.current, line)
    <2>1. next.chunks = Append(state.chunks, state.current) /\ next.current = <<line>>
      BY <1>4, AddLineCases
    <2>2. \A k \in 1..Len(next.chunks) :
            next.chunks[k] = state.current
            \/ (k \in 1..Len(state.chunks) /\ next.chunks[k] = state.chunks[k])
      <3> DEFINE T == Seq(Line)
      <3>1. state.chunks \in Seq(T) /\ state.current \in T
        BY <1>1
      <3> HIDE DEF T, next
      <3> QED BY <2>1, <3>1, Longer
    <2>3. Tight(state.current)
      <3>1. Size(state.current) > 0
        BY <1>2, <1>4 DEF Overflows
      <3> QED BY <3>1 DEF Tight, AllTight
    <2> HIDE DEF next
    <2>4. AllTight(next)
      BY <1>3, <2>1, <2>2, <2>3, Zenon DEF AllTight
    <2> QED BY <2>4 DEF next
  <1>5. CASE ~Overflows(state.current, line) /\ Size(state.current) = 0
    <2>1. next.chunks = state.chunks /\ next.current = <<line>>
      BY <1>5, AddLineCases
    <2> QED BY <1>3, <2>1 DEF AllTight
  <1>6. CASE ~Overflows(state.current, line) /\ Size(state.current) # 0
    <2>1. next.chunks = state.chunks /\ next.current = Append(state.current, line)
      BY <1>6, AddLineCases
    <2>2. Size(next.current) <= Size(state.current) + line.size + 1
      BY <1>1, <1>2, <2>1, SizeAppend
    <2>3. Size(state.current) + line.size + 1 <= MaxText
      BY <1>2, <1>6 DEF Overflows
    <2>4. Size(next.current) \in Nat
      <3>1. next.current \in Seq(Line)
        BY <1>1, <2>1
      <3> QED BY <3>1, SizeNat
    <2>5. Size(next.current) <= MaxText
      BY <1>2, <2>2, <2>3, <2>4
    <2>6. HasText(next.current)
      <3>1. HasText(state.current)
        BY <1>2, <1>6 DEF AllTight
      <3> QED BY <1>1, <2>1, <3>1, HasTextAppend
    <2> QED BY <2>1, <2>5, <2>6 DEF AllTight
  <1> QED BY <1>4, <1>5, <1>6

-----------------------------------------------------------------------------
(* What the chunks of a text hold *)

LEMMA LoopKeeps ==
  ASSUME NEW text \in Seq(Line), NEW f \in [0..Len(text) -> State],
         Loops(Len(text), text, f)
  PROVE  LET end == f[Len(text)] IN
           /\ KeptAll(end.chunks) \o Kept(end.current) = Kept(text)
           /\ AllSmall(end)
           /\ (\A i \in 1..Len(text) : text[i].size < MaxText) => AllTight(end)
  <1> DEFINE n == Len(text)
             to(k) == SubSeq(text, 1, k)
             plain == \A i \in 1..n : text[i].size < MaxText
             kept(k) == KeptAll(f[k].chunks) \o Kept(f[k].current) = Kept(to(k))
             good == {k \in 0..n : kept(k) /\ AllSmall(f[k]) /\ (plain => AllTight(f[k]))}
  <1>1. /\ to(0) = <<>> /\ to(n) = text /\ n \in Nat
        /\ \A k \in 0..n : to(k) \in Seq(Line)
        /\ \A k \in 1..n : /\ text[k] \in Line /\ k - 1 \in 0..n
                          /\ to(k) = Append(to(k - 1), text[k])
    BY Growth, Zenon
  <1> HIDE DEF to, n
  <1>2. f[0] = Start /\ \A k \in 1..n : f[k] = AddLine(f[k - 1], text[k])
    BY DEF Loops, n
  <1>3. 0 \in good
    <2>1. 0 \in 0..n /\ f[0].chunks = <<>> /\ f[0].current = <<>> /\ Len(<<>>) = 0
      BY <1>1, <1>2 DEF Start
    <2>2. KeptAll(<<>>) \o Kept(<<>>) = Kept(to(0))
      <3>1. <<>> \o <<>> = <<>>
        OBVIOUS
      <3> QED BY <1>1, <3>1, KeptAllEmpty, KeptEmpty
    <2>3. Size(<<>>) <= MaxText /\ ~(Size(<<>>) > 0)
      BY SizeEmpty, SizesAssumption
    <2>4. AllSmall(f[0]) /\ AllTight(f[0])
      BY <2>1, <2>3 DEF AllSmall, AllTight, Small
    <2> QED BY <2>1, <2>2, <2>4
  <1>4. ASSUME NEW k \in 1..n, k - 1 \in good PROVE k \in good
    <2>1. /\ text[k] \in Line /\ k - 1 \in 0..n /\ to(k) = Append(to(k - 1), text[k])
          /\ to(k - 1) \in Seq(Line) /\ f[k] = AddLine(f[k - 1], text[k])
      BY <1>1, <1>2, Zenon
    <2>2. f[k - 1] \in State /\ k \in 0..n
      <3>1. k - 1 \in 0..Len(text)
        BY <2>1 DEF n
      <3>2. f[k - 1] \in State
        BY <3>1
      <3>3. k \in 0..n
        BY <1>1
      <3> QED BY <3>2, <3>3
    <2>3. kept(k - 1) /\ AllSmall(f[k - 1]) /\ (plain => AllTight(f[k - 1]))
      BY <1>4
    <2>4. kept(k)
      <3>1. KeptAll(f[k].chunks) \o Kept(f[k].current) =
              (KeptAll(f[k - 1].chunks) \o Kept(f[k - 1].current)) \o Bit(text[k])
        BY <2>1, <2>2, AddLineKeeps, Zenon
      <3>2. Kept(to(k)) = Kept(to(k - 1)) \o Bit(text[k])
        BY <2>1, KeptAppend, Zenon
      <3> QED BY <2>3, <3>1, <3>2, Zenon
    <2>5. AllSmall(f[k])
      BY <2>1, <2>2, <2>3, AddLineSmall, Zenon
    <2>6. ASSUME plain PROVE AllTight(f[k])
      BY <2>1, <2>2, <2>3, <2>6, AddLineTight, Zenon
    <2> HIDE DEF kept, plain
    <2> QED BY <2>2, <2>4, <2>5, <2>6, Zenon
  <1>5. good = 0..n
    <2> HIDE DEF good
    <2>1. good \in SUBSET (0..n)
      BY DEF good
    <2> QED BY <1>1, <1>3, <1>4, <2>1, NoFirstFailure
  <1>6. n \in 0..n
    BY <1>1
  <1>7. kept(n) /\ AllSmall(f[n]) /\ (plain => AllTight(f[n]))
    BY <1>5, <1>6
  <1> QED BY <1>1, <1>7 DEF n

LEMMA ChunksKeep ==
  ASSUME NEW text \in Seq(Line)
  PROVE  /\ Chunks(text) \in Seq(Seq(Line)) /\ KeptAll(Chunks(text)) = Kept(text)
         /\ \A k \in 1..Len(Chunks(text)) : Small(Chunks(text)[k])
         /\ (\A i \in 1..Len(text) : text[i].size < MaxText) =>
              \A k \in 1..Len(Chunks(text)) : Tight(Chunks(text)[k])
  <1>1. PICK f \in [0..Len(text) -> State] :
          Loops(Len(text), text, f) /\ Chunks(text) = Closed(f[Len(text)])
    BY ChunksAreLooped
  <1> DEFINE end == f[Len(text)]
             plain == \A i \in 1..Len(text) : text[i].size < MaxText
  <1>2. /\ KeptAll(end.chunks) \o Kept(end.current) = Kept(text)
        /\ AllSmall(end) /\ (plain => AllTight(end))
    BY <1>1, LoopKeeps
  <1>3. end \in State
    <2>1. Len(text) \in 0..Len(text)
      OBVIOUS
    <2> QED BY <2>1
  <1> HIDE DEF end, plain
  <1>4. end.chunks \in Seq(Seq(Line)) /\ end.current \in Seq(Line)
    BY <1>3, StateFields
  <1>5. Chunks(text) = Closed(end)
    BY <1>1 DEF end
  <1>6. Size(end.current) \in Nat
    BY <1>4, SizeNat
  <1>7. CASE Size(end.current) > 0
    <2>1. Chunks(text) = Append(end.chunks, end.current)
      BY <1>5, <1>7 DEF Closed
    <2>2. KeptAll(Chunks(text)) = Kept(text)
      BY <1>2, <1>4, <2>1, KeptAllAppend
    <2>3. /\ Chunks(text) \in Seq(Seq(Line))
          /\ \A k \in 1..Len(Chunks(text)) :
               Chunks(text)[k] = end.current
               \/ (k \in 1..Len(end.chunks) /\ Chunks(text)[k] = end.chunks[k])
      <3> DEFINE T == Seq(Line)
      <3>1. end.chunks \in Seq(T) /\ end.current \in T
        BY <1>4
      <3> HIDE DEF T
      <3>2. /\ Chunks(text) \in Seq(T)
            /\ \A k \in 1..Len(Chunks(text)) :
                 Chunks(text)[k] = end.current
                 \/ (k \in 1..Len(end.chunks) /\ Chunks(text)[k] = end.chunks[k])
        BY <2>1, <3>1, Longer
      <3> QED BY <3>2 DEF T
    <2>4. \A k \in 1..Len(Chunks(text)) : Small(Chunks(text)[k])
      BY <1>2, <2>3, Zenon DEF AllSmall
    <2>5. ASSUME plain PROVE \A k \in 1..Len(Chunks(text)) : Tight(Chunks(text)[k])
      <3>1. AllTight(end) /\ Tight(end.current)
        BY <1>2, <1>7, <2>5 DEF AllTight, Tight
      <3> QED BY <2>3, <3>1, Zenon DEF AllTight
    <2> QED BY <2>2, <2>3, <2>4, <2>5 DEF plain
  <1>8. CASE ~(Size(end.current) > 0)
    <2>1. Chunks(text) = end.chunks
      BY <1>5, <1>8 DEF Closed
    <2>2. Kept(end.current) = <<>>
      BY <1>4, <1>6, <1>8, KeptBlank
    <2>3. KeptAll(end.chunks) \o <<>> = KeptAll(end.chunks)
      <3>1. KeptAll(end.chunks) \in Seq(Line)
        BY <1>4, KeepsType
      <3> QED BY <3>1
    <2>4. KeptAll(Chunks(text)) = Kept(text)
      BY <1>2, <2>1, <2>2, <2>3, Zenon
    <2>5. \A k \in 1..Len(Chunks(text)) : Small(Chunks(text)[k])
      BY <1>2, <2>1, Zenon DEF AllSmall
    <2>6. ASSUME plain PROVE \A k \in 1..Len(Chunks(text)) : Tight(Chunks(text)[k])
      BY <1>2, <2>1, <2>6, Zenon DEF AllTight
    <2> QED BY <1>4, <2>1, <2>4, <2>5, <2>6 DEF plain
  <1> QED BY <1>7, <1>8

-----------------------------------------------------------------------------
(* A text with something written in it gives at least one chunk *)

Begun(state) == state.chunks # <<>> \/ Size(state.current) > 0

LEMMA AddLineBegun ==
  ASSUME NEW state \in State, NEW line \in Line, Begun(state) \/ Written(line)
  PROVE  Begun(AddLine(state, line))
  <1> DEFINE next == AddLine(state, line)
  <1>1. state.chunks \in Seq(Seq(Line)) /\ state.current \in Seq(Line)
    BY StateFields
  <1>2. Size(state.current) \in Nat /\ line.size \in Nat
    BY <1>1, SizeNat DEF Line
  <1>3. CASE Overflows(state.current, line)
    <2>1. next.chunks = Append(state.chunks, state.current)
      BY <1>3, AddLineCases
    <2>2. Append(state.chunks, state.current) # <<>>
      BY <1>1, SomeAfterAppend, Zenon
    <2> QED BY <2>1, <2>2 DEF Begun
  <1>4. CASE ~Overflows(state.current, line) /\ Size(state.current) = 0
    <2>1. next.chunks = state.chunks /\ next.current = <<line>>
      BY <1>4, AddLineCases
    <2>2. Size(next.current) = line.size
      BY <2>1, SizeOne
    <2>3. state.chunks # <<>> \/ line.size > 0
      BY <1>4 DEF Begun, Written
    <2> QED BY <2>1, <2>2, <2>3 DEF Begun
  <1>5. CASE ~Overflows(state.current, line) /\ Size(state.current) # 0
    <2>1. next.current = Append(state.current, line)
      BY <1>5, AddLineCases
    <2>2. Size(next.current) >= Size(state.current) + line.size
      BY <1>1, <1>2, <2>1, SizeAppend
    <2>3. Size(next.current) \in Nat
      <3>1. next.current \in Seq(Line)
        BY <1>1, <2>1
      <3> QED BY <3>1, SizeNat
    <2>4. Size(next.current) > 0
      BY <1>2, <1>5, <2>2, <2>3
    <2> QED BY <2>4 DEF Begun
  <1> QED BY <1>3, <1>4, <1>5

LEMMA ChunksExist ==
  ASSUME NEW text \in Seq(Line), HasText(text)
  PROVE  Chunks(text) # <<>>
  <1>1. PICK f \in [0..Len(text) -> State] :
          Loops(Len(text), text, f) /\ Chunks(text) = Closed(f[Len(text)])
    BY ChunksAreLooped
  <1> DEFINE n == Len(text)
             good == {k \in 0..n : (\E i \in 1..k : Written(text[i])) => Begun(f[k])}
  <1>2. n \in Nat /\ n \in 0..n /\ \A k \in 1..n : text[k] \in Line /\ k - 1 \in 0..n
    OBVIOUS
  <1>3. \A k \in 1..n : f[k] = AddLine(f[k - 1], text[k])
    BY <1>1 DEF Loops
  <1>4. \A k \in 0..n : f[k] \in State
    OBVIOUS
  <1> HIDE DEF n
  <1>5. 0 \in good
    BY <1>2
  <1>6. ASSUME NEW k \in 1..n, k - 1 \in good PROVE k \in good
    <2>1. k \in 0..n /\ k - 1 \in 0..n
      BY <1>2
    <2>2. SUFFICES ASSUME NEW i \in 1..k, Written(text[i]) PROVE Begun(f[k])
      BY <2>1
    <2>3. i = k \/ i \in 1..(k - 1)
      OBVIOUS
    <2>4. Begun(f[k - 1]) \/ Written(text[k])
      BY <1>6, <2>2, <2>3
    <2>5. text[k] \in Line /\ f[k - 1] \in State /\ f[k] = AddLine(f[k - 1], text[k])
      BY <1>2, <1>3, <1>4, <2>1, Zenon
    <2> QED BY <2>4, <2>5, AddLineBegun, Zenon
  <1>7. good = 0..n
    <2> HIDE DEF good
    <2>1. good \in SUBSET (0..n)
      BY DEF good
    <2> QED BY <1>2, <1>5, <1>6, <2>1, NoFirstFailure
  <1>8. Begun(f[n])
    <2>1. \E i \in 1..n : Written(text[i])
      BY DEF HasText, n
    <2>2. n \in good
      BY <1>2, <1>7, Zenon
    <2> QED BY <2>1, <2>2
  <1>9. f[n].chunks \in Seq(Seq(Line)) /\ f[n].current \in Seq(Line)
    BY <1>2, <1>4, StateFields, Zenon
  <1>10. Chunks(text) = Closed(f[n])
    BY <1>1 DEF n
  <1>11. CASE Size(f[n].current) > 0
    <2> DEFINE T == Seq(Line)
    <2>1. f[n].chunks \in Seq(T) /\ f[n].current \in T
      BY <1>9
    <2> HIDE DEF T
    <2>2. Append(f[n].chunks, f[n].current) # <<>>
      BY <2>1
    <2> QED BY <1>10, <1>11, <2>2 DEF Closed
  <1>12. CASE ~(Size(f[n].current) > 0)
    BY <1>8, <1>10, <1>12 DEF Closed, Begun
  <1> QED BY <1>11, <1>12

-----------------------------------------------------------------------------
(* What is heard of the messages of one split text *)

Msg == [lines : Seq(Line), size : Nat]
Hears(messages) == [i \in 1..Len(messages) |-> Received(messages[i])]

LEMMA PickType ==
  ASSUME NEW lines \in Seq(Line), NEW at
  PROVE  Pick(lines, at) \in Seq(Line)
  <1> DEFINE bits == [i \in DOMAIN lines |-> IF i \in at THEN <<lines[i]>> ELSE <<>>]
  <1>1. DOMAIN lines = 1..Len(lines) /\ Len(lines) \in Nat
    OBVIOUS
  <1>2. \A i \in 1..Len(lines) : <<lines[i]>> \in Seq(Line) /\ <<>> \in Seq(Line)
    OBVIOUS
  <1>3. bits \in Seq(Seq(Line))
    <2> DEFINE T == Seq(Line)
    <2>1. \A i \in 1..Len(lines) : <<lines[i]>> \in T /\ <<>> \in T
      BY <1>2
    <2> HIDE DEF T
    <2>2. bits \in Seq(T)
      BY <1>1, <2>1
    <2> QED BY <2>2 DEF T
  <1> QED BY <1>3, FlattenType DEF Pick

LEMMA HearsType ==
  ASSUME NEW messages \in Seq(Msg)
  PROVE  /\ Hears(messages) \in Seq(Seq(Line)) /\ Len(Hears(messages)) = Len(messages)
         /\ Heard(messages) = FlattenSeq(Hears(messages)) /\ Heard(messages) \in Seq(Line)
  <1>1. Len(messages) \in Nat /\ DOMAIN messages = 1..Len(messages)
    OBVIOUS
  <1>2. ASSUME NEW i \in 1..Len(messages) PROVE Received(messages[i]) \in Seq(Line)
    <2>1. messages[i] \in Msg
      OBVIOUS
    <2>2. messages[i].lines \in Seq(Line)
      BY <2>1 DEF Msg
    <2> QED BY <2>2, PickType DEF Received
  <1>3. Hears(messages) \in Seq(Seq(Line)) /\ Len(Hears(messages)) = Len(messages)
    <2> DEFINE T == Seq(Line)
    <2>1. \A i \in 1..Len(messages) : Received(messages[i]) \in T
      BY <1>2
    <2> HIDE DEF T
    <2>2. Hears(messages) \in Seq(T) /\ Len(Hears(messages)) = Len(messages)
      BY <1>1, <2>1 DEF Hears
    <2> QED BY <2>2 DEF T
  <1>4. Heard(messages) = FlattenSeq(Hears(messages))
    BY <1>1 DEF Heard, Hears
  <1> QED BY <1>3, <1>4, FlattenType

LEMMA HeardConcat ==
  ASSUME NEW a \in Seq(Msg), NEW b \in Seq(Msg)
  PROVE  Heard(a \o b) = Heard(a) \o Heard(b)
  <1>1. a \o b \in Seq(Msg) /\ Len(a) \in Nat /\ Len(b) \in Nat
    OBVIOUS
  <1>2. Hears(a \o b) = Hears(a) \o Hears(b)
    <2> DEFINE T == Seq(Line)
               c == a \o b
    <2>1. /\ Hears(a) \in Seq(T) /\ Len(Hears(a)) = Len(a)
          /\ Hears(b) \in Seq(T) /\ Len(Hears(b)) = Len(b)
          /\ Hears(c) \in Seq(T) /\ Len(Hears(c)) = Len(c)
      BY <1>1, HearsType
    <2>2. /\ Len(c) = Len(a) + Len(b)
          /\ \A i \in 1..Len(a) : c[i] = a[i] /\ i \in 1..Len(c)
          /\ \A i \in 1..Len(b) : c[Len(a) + i] = b[i] /\ Len(a) + i \in 1..Len(c)
      OBVIOUS
    <2> HIDE DEF T, c
    <2>3. \A i \in 1..Len(a) : Hears(c)[i] = Hears(a)[i]
      BY <2>2, Zenon DEF Hears
    <2>4. \A i \in 1..Len(b) : Hears(c)[Len(a) + i] = Hears(b)[i]
      BY <2>2, Zenon DEF Hears
    <2>5. /\ Len(Hears(c)) = Len(Hears(a)) + Len(Hears(b))
          /\ \A i \in 1..Len(Hears(a)) : Hears(c)[i] = Hears(a)[i]
          /\ \A i \in 1..Len(Hears(b)) : Hears(c)[Len(Hears(a)) + i] = Hears(b)[i]
      BY <2>1, <2>2, <2>3, <2>4, Zenon
    <2>6. Hears(c) = Hears(a) \o Hears(b)
      BY <2>1, <2>5, GluedFrom, Zenon
    <2> QED BY <2>6 DEF c
  <1>3. /\ Heard(a) = FlattenSeq(Hears(a)) /\ Heard(b) = FlattenSeq(Hears(b))
        /\ Heard(a \o b) = FlattenSeq(Hears(a \o b))
        /\ Hears(a) \in Seq(Seq(Line)) /\ Hears(b) \in Seq(Seq(Line))
    BY <1>1, HearsType
  <1>4. FlattenSeq(Hears(a) \o Hears(b)) = FlattenSeq(Hears(a)) \o FlattenSeq(Hears(b))
    BY <1>3, FlattenConcat, Zenon
  <1> QED BY <1>2, <1>3, <1>4, Zenon

LEMMA MessageType ==
  ASSUME NEW lines \in Seq(Line), NEW labelled \in BOOLEAN
  PROVE  /\ Message(lines, labelled) \in Msg /\ Message(lines, labelled).lines = lines
         /\ Message(lines, labelled).size <= Size(lines) + LabelSize
         /\ ~labelled => Message(lines, labelled).size = Size(lines)
  BY SizeNat, SizesAssumption DEF Message, Msg

\* A message that is not cut and says something.
Plain(message) == message.size <= Cap /\ HasText(message.lines)

LEMMA HeardOne ==
  ASSUME NEW message \in Msg
  PROVE  Heard(<<message>>) = Received(message) /\ Received(message) \in Seq(Line)
  <1>1. <<message>> \in Seq(Msg) /\ message.lines \in Seq(Line)
    BY DEF Msg
  <1>2. Received(message) \in Seq(Line)
    BY <1>1, PickType DEF Received
  <1>3. Hears(<<message>>) = Append(<<>>, Received(message))
    BY DEF Hears
  <1>4. FlattenSeq(Append(<<>>, Received(message))) = <<>> \o Received(message)
    <2>1. <<>> \in Seq(Seq(Line))
      OBVIOUS
    <2> QED BY <1>2, <2>1, FlattenAppend, FlattenEmpty
  <1>5. <<>> \o Received(message) = Received(message)
    BY <1>2, Gluing
  <1> QED BY <1>1, <1>2, <1>3, <1>4, <1>5, HearsType

LEMMA SplitKeeps ==
  ASSUME NEW text \in Seq(Line), HasText(text)
  PROVE  /\ Split(text) \in Seq(Msg) /\ Split(text) # <<>> /\ Heard(Split(text)) = Kept(text)
         /\ (\A i \in 1..Len(text) : text[i].size < MaxText) =>
              \A k \in 1..Len(Split(text)) : Plain(Split(text)[k])
  <1> DEFINE plain == \A i \in 1..Len(text) : text[i].size < MaxText
             chunks == Chunks(text)
  <1>1. /\ chunks \in Seq(Seq(Line)) /\ KeptAll(chunks) = Kept(text) /\ chunks # <<>>
        /\ \A k \in 1..Len(chunks) : Small(chunks[k])
        /\ plain => \A k \in 1..Len(chunks) : Tight(chunks[k])
    BY ChunksKeep, ChunksExist
  <1>2. Size(text) \in Nat
    BY SizeNat
  <1>3. CASE Size(text) <= MaxText
    <2> DEFINE message == Message(text, FALSE)
    <2>1. Split(text) = <<message>>
      BY <1>3 DEF Split
    <2>2. message \in Msg /\ message.lines = text /\ message.size = Size(text)
      BY MessageType
    <2>3. Received(message) = Kept(text)
      BY <1>3, ReceivedKept DEF Small
    <2> HIDE DEF message
    <2>4. Plain(message)
      <3>1. Size(text) <= Cap
        BY <1>2, <1>3, SizesAssumption
      <3> QED BY <2>2, <3>1, Zenon DEF Plain
    <2>5. Heard(<<message>>) = Received(message)
      BY <2>2, HeardOne
    <2>6. /\ <<message>> \in Seq(Msg) /\ <<message>> # <<>>
          /\ \A k \in 1..Len(<<message>>) : <<message>>[k] = message
      BY <2>2
    <2> QED BY <2>1, <2>3, <2>4, <2>5, <2>6
  <1>4. CASE ~(Size(text) <= MaxText)
    <2> DEFINE many == Len(chunks) > 1
               messages == [i \in 1..Len(chunks) |-> Message(chunks[i], many)]
    <2>1. Len(chunks) \in Nat /\ DOMAIN chunks = 1..Len(chunks) /\ Len(chunks) # 0
      <3> DEFINE T == Seq(Line)
      <3>1. chunks \in Seq(T) /\ chunks # <<>>
        BY <1>1
      <3> HIDE DEF T, chunks
      <3> QED BY <3>1
    <2>2. Split(text) = messages
      BY <1>4, <2>1 DEF Split
    <2>3. many \in BOOLEAN
      OBVIOUS
    <2>4. ASSUME NEW k \in 1..Len(chunks) PROVE chunks[k] \in Seq(Line)
      BY <1>1
    <2> HIDE DEF many, chunks, plain
    <2>5. ASSUME NEW k \in 1..Len(chunks)
          PROVE  /\ messages[k] \in Msg /\ messages[k].lines = chunks[k]
                 /\ messages[k].size <= Size(chunks[k]) + LabelSize
                 /\ Received(messages[k]) = Kept(chunks[k])
      <3>1. messages[k] = Message(chunks[k], many)
        OBVIOUS
      <3>2. Received(Message(chunks[k], many)) = Kept(chunks[k])
        BY <1>1, <2>4, ReceivedKept, Zenon
      <3> QED BY <2>3, <2>4, <3>1, <3>2, MessageType, Zenon
    <2>6. /\ messages \in Seq(Msg) /\ Len(messages) = Len(chunks) /\ messages # <<>>
      <3> HIDE DEF Msg
      <3> QED BY <2>1, <2>5
    <2>7. Hears(messages) = Keeps(chunks)
      <3> HIDE DEF messages
      <3> QED BY <2>5, <2>6, Zenon DEF Hears, Keeps
    <2> HIDE DEF messages
    <2>8. Heard(messages) = Kept(text)
      BY <1>1, <2>6, <2>7, HearsType, Zenon DEF KeptAll
    <2>9. ASSUME plain, NEW k \in 1..Len(messages) PROVE Plain(messages[k])
      <3>1. k \in 1..Len(chunks)
        BY <2>6
      <3>2. /\ messages[k].lines = chunks[k] /\ messages[k].size <= Size(chunks[k]) + LabelSize
            /\ messages[k] \in Msg /\ Tight(chunks[k]) /\ chunks[k] \in Seq(Line)
        BY <1>1, <2>4, <2>5, <2>9, <3>1, Zenon
      <3>3. Size(chunks[k]) \in Nat /\ messages[k].size \in Nat
        BY <3>2, SizeNat DEF Msg
      <3>4. messages[k].size <= Cap
        BY <3>2, <3>3, SizesAssumption DEF Tight
      <3> QED BY <3>2, <3>4, Zenon DEF Plain, Tight
    <2> QED BY <2>2, <2>6, <2>8, <2>9, Zenon DEF plain
  <1> QED BY <1>3, <1>4

-----------------------------------------------------------------------------
(* Slices of a text *)

LEMMA SetEnds ==
  ASSUME NEW n \in Nat, NEW T \in SUBSET (1..n), T # {}
  PROVE  Min(T) \in T /\ Max(T) \in T /\ \A y \in T : Min(T) <= y /\ y <= Max(T)
  <1>1. \E x \in T : \A y \in T : x <= y
    <2>1. T \in SUBSET Nat
      OBVIOUS
    <2> QED BY <2>1, LeastNat
  <1>2. \E x \in T : \A y \in T : x >= y
    <2> DEFINE U == {n - y : y \in T}
    <2>1. U \in SUBSET Nat /\ U # {}
      <3>1. \A y \in T : n - y \in Nat
        OBVIOUS
      <3>2. PICK y \in T : TRUE
        OBVIOUS
      <3>3. n - y \in U
        OBVIOUS
      <3> QED BY <3>1, <3>3, Zenon
    <2>2. PICK u \in U : \A v \in U : u <= v
      <3> HIDE DEF U
      <3> QED BY <2>1, LeastNat
    <2>3. PICK x \in T : u = n - x
      OBVIOUS
    <2>4. ASSUME NEW y \in T PROVE x >= y
      <3>1. n - y \in U
        OBVIOUS
      <3>2. n - x <= n - y
        BY <2>2, <2>3, <3>1
      <3>3. x \in 1..n /\ y \in 1..n
        OBVIOUS
      <3> QED BY <3>2, <3>3
    <2> QED BY <2>4
  <1>3. Min(T) \in T /\ \A y \in T : Min(T) <= y
    BY <1>1 DEF Min
  <1>4. Max(T) \in T /\ \A y \in T : Max(T) >= y
    BY <1>2 DEF Max
  <1>5. ASSUME NEW y \in T PROVE y <= Max(T)
    <2>1. \A x \in T : x \in Nat
      OBVIOUS
    <2>2. y \in Nat /\ Max(T) \in Nat /\ Max(T) >= y
      BY <1>4, <2>1, Zenon
    <2> HIDE DEF Max
    <2> QED BY <2>2
  <1> QED BY <1>3, <1>4, <1>5

LEMMA Slice ==
  ASSUME NEW S, NEW s \in Seq(S), NEW a \in 1..(Len(s) + 1), NEW b \in (a - 1)..Len(s)
  PROVE  /\ SubSeq(s, a, b) \in Seq(S) /\ Len(SubSeq(s, a, b)) = b - a + 1
         /\ \A k \in 1..(b - a + 1) : /\ k + a - 1 \in a..b
                                     /\ SubSeq(s, a, b)[k] = s[k + a - 1]
  OBVIOUS

LEMMA SliceInTwo ==
  ASSUME NEW S, NEW s \in Seq(S), NEW a \in 1..(Len(s) + 1), NEW b \in (a - 1)..Len(s),
         NEW m \in (a - 1)..b
  PROVE  SubSeq(s, a, b) = SubSeq(s, a, m) \o SubSeq(s, m + 1, b)
  <1> DEFINE x == SubSeq(s, a, m)
             y == SubSeq(s, m + 1, b)
             z == SubSeq(s, a, b)
  <1>1. m \in (a - 1)..Len(s) /\ m + 1 \in 1..(Len(s) + 1) /\ b \in ((m + 1) - 1)..Len(s)
    OBVIOUS
  <1>2. /\ x \in Seq(S) /\ Len(x) = m - a + 1
        /\ \A k \in 1..(m - a + 1) : x[k] = s[k + a - 1]
    BY <1>1, Slice
  <1>3. /\ y \in Seq(S) /\ Len(y) = b - (m + 1) + 1
        /\ \A k \in 1..(b - (m + 1) + 1) : y[k] = s[k + (m + 1) - 1]
    BY <1>1, Slice
  <1>4. /\ z \in Seq(S) /\ Len(z) = b - a + 1
        /\ \A k \in 1..(b - a + 1) : z[k] = s[k + a - 1]
    BY Slice
  <1> HIDE DEF x, y, z
  <1>5. Len(z) = Len(x) + Len(y)
    BY <1>2, <1>3, <1>4
  <1>6. ASSUME NEW k \in 1..Len(x) PROVE z[k] = x[k]
    <2>1. k \in 1..(m - a + 1) /\ k \in 1..(b - a + 1)
      BY <1>2
    <2> QED BY <1>2, <1>4, <2>1
  <1>7. ASSUME NEW k \in 1..Len(y) PROVE z[Len(x) + k] = y[k]
    <2>1. Len(x) + k \in 1..(b - a + 1) /\ (Len(x) + k) + a - 1 = k + (m + 1) - 1
      BY <1>2, <1>3
    <2>2. z[Len(x) + k] = s[(Len(x) + k) + a - 1]
      BY <1>4, <2>1
    <2>3. y[k] = s[k + (m + 1) - 1]
      BY <1>3
    <2> QED BY <2>1, <2>2, <2>3
  <1>8. z = x \o y
    BY <1>2, <1>3, <1>4, <1>5, <1>6, <1>7, GluedFrom
  <1> QED BY <1>8 DEF x, y, z

LEMMA KeptSlice ==
  ASSUME NEW s \in Seq(Line), NEW a \in 1..(Len(s) + 1), NEW b \in (a - 1)..Len(s),
         NEW m \in (a - 1)..b
  PROVE  Kept(SubSeq(s, a, b)) = Kept(SubSeq(s, a, m)) \o Kept(SubSeq(s, m + 1, b))
  <1>1. m \in (a - 1)..Len(s) /\ m + 1 \in 1..(Len(s) + 1) /\ b \in ((m + 1) - 1)..Len(s)
    OBVIOUS
  <1>2. SubSeq(s, a, m) \in Seq(Line) /\ SubSeq(s, m + 1, b) \in Seq(Line)
    BY <1>1, Slice
  <1>3. SubSeq(s, a, b) = SubSeq(s, a, m) \o SubSeq(s, m + 1, b)
    BY SliceInTwo
  <1> QED BY <1>2, <1>3, KeptConcat

LEMMA UnwrittenBit == ASSUME NEW line \in Line, ~Written(line) PROVE Bit(line) = <<>>
  BY DEF Bit, Told

LEMMA KeptUnwritten ==
  ASSUME NEW s \in Seq(Line), NEW a \in 1..(Len(s) + 1), NEW b \in (a - 1)..Len(s),
         \A i \in a..b : ~Written(s[i])
  PROVE  Kept(SubSeq(s, a, b)) = <<>>
  <1> DEFINE t == SubSeq(s, a, b)
  <1>1. /\ t \in Seq(Line) /\ Len(t) = b - a + 1
        /\ \A k \in 1..(b - a + 1) : k + a - 1 \in a..b /\ t[k] = s[k + a - 1]
    BY Slice
  <1> HIDE DEF t
  <1>2. ASSUME NEW k \in 1..Len(t) PROVE Bit(t[k]) = <<>>
    <2>1. t[k] \in Line
      BY <1>1
    <2>2. ~Written(t[k])
      BY <1>1
    <2> QED BY <2>1, <2>2, UnwrittenBit
  <1>3. Kept(t) = <<>>
    BY <1>1, <1>2, KeptNothing
  <1> QED BY <1>3 DEF t

\* Every line of lines is a line of text.
From(lines, text) ==
  lines \in Seq(Line) /\ \A k \in 1..Len(lines) : \E i \in 1..Len(text) : lines[k] = text[i]

LEMMA StripKeeps ==
  ASSUME NEW lines \in Seq(Line)
  PROVE  From(Strip(lines), lines) /\ Kept(Strip(lines)) = Kept(lines)
  <1> DEFINE n == Len(lines)
             written == {i \in 1..n : Written(lines[i])}
  <1>1. DOMAIN lines = 1..n /\ n \in Nat /\ SubSeq(lines, 1, n) = lines
    OBVIOUS
  <1>2. CASE written = {}
    <2>1. Strip(lines) = <<>>
      BY <1>1, <1>2 DEF Strip
    <2>2. Kept(SubSeq(lines, 1, n)) = <<>>
      <3>1. 1 \in 1..(n + 1) /\ n \in (1 - 1)..n
        BY <1>1
      <3>2. \A i \in 1..n : ~Written(lines[i])
        BY <1>2
      <3> QED BY <3>1, <3>2, KeptUnwritten
    <2>3. From(<<>>, lines)
      BY DEF From
    <2> QED BY <1>1, <2>1, <2>2, <2>3, KeptEmpty
  <1>3. CASE written # {}
    <2> DEFINE a == Min(written)
               b == Max(written)
    <2>1. a \in written /\ b \in written /\ \A i \in written : a <= i /\ i <= b
      <3>1. written \in SUBSET (1..n)
        OBVIOUS
      <3> HIDE DEF written
      <3> QED BY <1>1, <1>3, <3>1, SetEnds
    <2>2. Strip(lines) = SubSeq(lines, a, b)
      BY <1>1, <1>3 DEF Strip
    <2> HIDE DEF a, b, n
    <2>3. /\ a \in 1..n /\ b \in a..n /\ a \in Nat /\ b \in Nat
          /\ \A i \in 1..(a - 1) : ~Written(lines[i])
          /\ \A i \in (b + 1)..n : ~Written(lines[i])
      BY <1>1, <2>1
    <2>4. /\ 1 \in 1..(n + 1) /\ n \in (1 - 1)..n /\ a - 1 \in (1 - 1)..n
          /\ (a - 1) + 1 = a /\ a \in 1..(n + 1) /\ n \in (a - 1)..n /\ b \in (a - 1)..n
          /\ b + 1 \in 1..(n + 1) /\ n \in ((b + 1) - 1)..n
      BY <1>1, <2>3
    <2>5. Kept(lines) = Kept(SubSeq(lines, 1, a - 1)) \o Kept(SubSeq(lines, a, n))
      BY <1>1, <2>4, KeptSlice DEF n
    <2>6. Kept(SubSeq(lines, a, n)) =
            Kept(SubSeq(lines, a, b)) \o Kept(SubSeq(lines, b + 1, n))
      BY <2>4, KeptSlice DEF n
    <2>7. Kept(SubSeq(lines, 1, a - 1)) = <<>> /\ Kept(SubSeq(lines, b + 1, n)) = <<>>
      BY <2>3, <2>4, KeptUnwritten DEF n
    <2>8. /\ SubSeq(lines, a, b) \in Seq(Line) /\ Len(SubSeq(lines, a, b)) = b - a + 1
          /\ \A k \in 1..(b - a + 1) : /\ k + a - 1 \in a..b
                                      /\ SubSeq(lines, a, b)[k] = lines[k + a - 1]
      BY <2>4, Slice DEF n
    <2>9. Kept(SubSeq(lines, a, b)) \in Seq(Line)
      BY <2>8, KeptType
    <2>10. Kept(SubSeq(lines, a, b)) = Kept(lines)
      BY <2>5, <2>6, <2>7, <2>9, Gluing
    <2>11. From(SubSeq(lines, a, b), lines)
      <3>1. \A i \in a..b : i \in 1..Len(lines)
        BY <1>1, <2>3 DEF n
      <3> QED BY <2>8, <3>1 DEF From
    <2> QED BY <2>2, <2>10, <2>11
  <1> QED BY <1>2, <1>3

-----------------------------------------------------------------------------
(* The two parts of a text are what stands before its second marker *)

LEMMA OwnType ==
  ASSUME NEW k \in Nat, NEW size \in Nat
  PROVE  Own(k, size) \in Line /\ ~Told(Own(k, size)) /\ Own(k, size).size = size
  BY DEF Own, Line, Told

LEMMA FromSlice ==
  ASSUME NEW s \in Seq(Line), NEW a \in 1..(Len(s) + 1), NEW b \in (a - 1)..Len(s)
  PROVE  /\ From(Strip(SubSeq(s, a, b)), s)
         /\ Kept(Strip(SubSeq(s, a, b))) = Kept(SubSeq(s, a, b))
  <1> DEFINE t == SubSeq(s, a, b)
  <1>1. /\ t \in Seq(Line) /\ Len(t) = b - a + 1
        /\ \A k \in 1..(b - a + 1) : k + a - 1 \in a..b /\ t[k] = s[k + a - 1]
    BY Slice
  <1>2. ASSUME NEW k \in 1..Len(t) PROVE \E i \in 1..Len(s) : t[k] = s[i]
    <2>1. k + a - 1 \in 1..Len(s) /\ t[k] = s[k + a - 1]
      BY <1>1
    <2> QED BY <2>1
  <1> HIDE DEF t
  <1>3. From(Strip(t), t) /\ Kept(Strip(t)) = Kept(t)
    BY <1>1, StripKeeps
  <1>4. From(Strip(t), s)
    BY <1>2, <1>3, ZenonT(30) DEF From
  <1> QED BY <1>3, <1>4 DEF t

\* Pick of the fitting lines up to m is what is kept of that much of the text.
LEMMA PickUpTo ==
  ASSUME NEW lines \in Seq(Line), NEW m \in 0..Len(lines), NEW at,
         \A i \in 1..Len(lines) : i \in at <=> i \in Fitting(lines) /\ i <= m
  PROVE  Pick(lines, at) = Kept(SubSeq(lines, 1, m))
  <1> DEFINE n == Len(lines)
             bits == [i \in 1..n |-> IF i \in at THEN <<lines[i]>> ELSE <<>>]
             shown == SubSeq(lines, 1, m)
             none == [i \in 1..(n - m) |-> <<>>]
             T == Seq(Line)
  <1>1. DOMAIN lines = 1..n /\ n \in Nat /\ m \in Nat /\ m <= n
    OBVIOUS
  <1>2. Pick(lines, at) = FlattenSeq(bits)
    BY <1>1 DEF Pick
  <1>3. /\ shown \in Seq(Line) /\ Len(shown) = m
        /\ \A k \in 1..m : shown[k] = lines[k] /\ k \in 1..n
    <2>1. 1 \in 1..(n + 1) /\ m \in (1 - 1)..n
      BY <1>1
    <2>2. /\ SubSeq(lines, 1, m) \in Seq(Line) /\ Len(SubSeq(lines, 1, m)) = m - 1 + 1
          /\ \A k \in 1..(m - 1 + 1) : /\ k + 1 - 1 \in 1..m
                                      /\ SubSeq(lines, 1, m)[k] = lines[k + 1 - 1]
      BY <2>1, Slice
    <2> HIDE DEF n
    <2>3. \A k \in 1..m : k + 1 - 1 = k /\ k \in 1..n
      BY <1>1
    <2> QED BY <1>1, <2>2, <2>3
  <1>4. Bits(shown) \in Seq(T) /\ Len(Bits(shown)) = m /\ Kept(shown) = FlattenSeq(Bits(shown))
    BY <1>3, BitsType, KeptIsBits
  <1>5. none \in Seq({<<>>}) /\ none \in Seq(T) /\ Len(none) = n - m
    <2>1. <<>> \in T
      OBVIOUS
    <2> HIDE DEF T, n
    <2> QED BY <1>1, <2>1
  <1>6. ASSUME NEW i \in 1..n
        PROVE  IF i \in at THEN bits[i] = Bit(lines[i]) /\ i <= m
               ELSE bits[i] = <<>> /\ (i <= m => Bit(lines[i]) = <<>>)
    BY <1>1 DEF Fitting, Bit
  <1>7. \A i \in 1..n : <<lines[i]>> \in T /\ <<>> \in T
    OBVIOUS
  <1>8. bits \in Seq(T) /\ Len(bits) = n
    <2> HIDE DEF T, n
    <2> QED BY <1>1, <1>7
  <1> HIDE DEF bits, shown, none, T, n
  <1>9. ASSUME NEW i \in 1..m PROVE bits[i] = Bits(shown)[i]
    <2>1. i \in 1..n /\ i <= m /\ shown[i] = lines[i]
      BY <1>1, <1>3
    <2>2. bits[i] = Bit(lines[i])
      BY <1>6, <2>1
    <2>3. Bits(shown)[i] = Bit(shown[i])
      BY <1>3 DEF Bits
    <2> QED BY <2>1, <2>2, <2>3
  <1>10. ASSUME NEW i \in 1..(n - m) PROVE bits[m + i] = none[i]
    <2>1. m + i \in 1..n /\ ~(m + i <= m)
      BY <1>1
    <2>2. bits[m + i] = <<>>
      BY <1>6, <2>1
    <2> QED BY <2>2 DEF none
  <1>11. bits = Bits(shown) \o none
    <2>1. /\ Len(bits) = Len(Bits(shown)) + Len(none)
          /\ \A i \in 1..Len(Bits(shown)) : bits[i] = Bits(shown)[i]
      BY <1>1, <1>4, <1>5, <1>8, <1>9
    <2>2. \A i \in 1..Len(none) : bits[Len(Bits(shown)) + i] = none[i]
      BY <1>4, <1>5, <1>10
    <2> QED BY <1>4, <1>5, <1>8, <2>1, <2>2, GluedFrom, Zenon
  <1>12. FlattenSeq(bits) = FlattenSeq(Bits(shown)) \o FlattenSeq(none)
    BY <1>4, <1>5, <1>11, FlattenConcat, Zenon DEF T
  <1>13. FlattenSeq(none) = <<>>
    BY <1>5, FlattenNothing
  <1>14. Kept(shown) \in Seq(Line)
    BY <1>3, KeptType
  <1>15. FlattenSeq(bits) = Kept(shown)
    BY <1>4, <1>12, <1>13, <1>14, Gluing
  <1> QED BY <1>2, <1>15 DEF shown

LEMMA EndOfPart ==
  ASSUME NEW text \in Seq(Line), NEW from \in 0..Len(text)
  PROVE  LET end == EndOf(text, from) IN
           /\ end \in from..Len(text)
           /\ \A i \in (from + 1)..end : i \notin Markers(text)
           /\ end = Len(text) \/ (end + 1 \in Markers(text) /\ end + 1 > from)
  <1> DEFINE n == Len(text)
             next == {i \in Markers(text) : i > from}
             end == EndOf(text, from)
  <1>1. n \in Nat /\ DOMAIN text = 1..n
    OBVIOUS
  <1>2. next \in SUBSET (1..n) /\ Markers(text) \in SUBSET (1..n)
    BY <1>1 DEF Markers
  <1>3. CASE next = {}
    <2>1. end = n
      BY <1>3 DEF EndOf
    <2>2. ASSUME NEW i \in (from + 1)..n PROVE i \notin Markers(text)
      BY <1>3
    <2> QED BY <1>1, <2>1, <2>2
  <1>4. CASE next # {}
    <2>1. end = Min(next) - 1
      BY <1>4 DEF EndOf
    <2>2. Min(next) \in next /\ \A i \in next : Min(next) <= i
      <3> HIDE DEF next
      <3> QED BY <1>1, <1>2, <1>4, SetEnds
    <2>3. Min(next) \in Markers(text) /\ Min(next) > from /\ Min(next) \in 1..n
      BY <1>2, <2>2
    <2> HIDE DEF end
    <2>4. end + 1 = Min(next) /\ end \in from..n
      BY <1>1, <2>1, <2>3
    <2>5. ASSUME NEW i \in (from + 1)..end, i \in Markers(text) PROVE FALSE
      <3>1. i \in next
        BY <2>5
      <3>2. Min(next) <= i
        BY <2>2, <3>1
      <3> QED BY <2>3, <2>4, <3>2
    <2> QED BY <2>3, <2>4, <2>5 DEF end
  <1> QED BY <1>3, <1>4

LEMMA MarkerUnwritten == \A text : \A i \in Markers(text) : ~Written(text[i])
  BY DEF Markers, Marker, Own, Written

\* Before the second marker, where the second part ends, there is at most one.
LEMMA BeforeSecond ==
  ASSUME NEW text \in Seq(Line), Markers(text) # {}
  PROVE  LET last == EndOf(text, Min(Markers(text))) IN
           BeforeSecondMarker(text) = Kept(SubSeq(text, 1, last))
  <1> DEFINE n == Len(text)
             M == Markers(text)
             first == Min(M)
             last == EndOf(text, first)
             before(i) == {j \in M : j < i}
             at == {i \in Fitting(text) : Cardinality(before(i)) < 2}
  <1>1. n \in Nat /\ DOMAIN text = 1..n
    OBVIOUS
  <1>2. M \in SUBSET (1..n) /\ IsFiniteSet(M) /\ M # {}
    <2>1. M \in SUBSET (1..n)
      BY <1>1 DEF Markers
    <2>2. IsFiniteSet(1..n)
      BY <1>1, FS_Interval
    <2> QED BY <2>1, <2>2, FS_Subset
  <1>3. first \in M /\ \A i \in M : first <= i
    <2> HIDE DEF M
    <2> QED BY <1>1, <1>2, SetEnds
  <1>4. first \in 0..n /\ first \in 1..n
    BY <1>1, <1>2, <1>3
  <1>5. /\ last \in first..n /\ \A i \in (first + 1)..last : i \notin M
        /\ last = n \/ (last + 1 \in M /\ last + 1 > first)
    <2> HIDE DEF first
    <2> QED BY <1>4, EndOfPart, Zenon
  <1> HIDE DEF M, first, last, n
  <1>6. \A i : before(i) \in SUBSET M /\ IsFiniteSet(before(i))
    <2>1. \A i : before(i) \in SUBSET M
      OBVIOUS
    <2> HIDE DEF before
    <2> QED BY <1>2, <2>1, FS_Subset
  <1>7. ASSUME NEW i \in 1..n, i <= last PROVE Cardinality(before(i)) < 2
    <2>1. before(i) \in SUBSET {first}
      <3>1. ASSUME NEW j \in M, j < i PROVE j = first
        <4>1. j \in 1..n /\ first <= j /\ first \in 1..n /\ last \in first..n
          BY <1>2, <1>3, <1>4, <1>5, <3>1
        <4>2. ~(j \in (first + 1)..last)
          BY <1>5, <3>1
        <4> QED BY <1>1, <1>7, <3>1, <4>1, <4>2
      <3> QED BY <3>1
    <2>2. Cardinality(before(i)) <= 1 /\ Cardinality(before(i)) \in Nat
      <3> HIDE DEF before
      <3>1. IsFiniteSet({first}) /\ Cardinality({first}) = 1
        BY FS_Singleton
      <3> QED BY <1>6, <2>1, <3>1, FS_Subset, FS_CardinalityType
    <2> HIDE DEF before
    <2> QED BY <2>2
  <1>8. ASSUME NEW i \in Fitting(text), ~(i <= last) PROVE ~(Cardinality(before(i)) < 2)
    <2>1. i \in 1..n /\ Told(text[i])
      BY <1>1, <1>8 DEF Fitting
    <2>2. last \in Nat /\ first \in Nat /\ last + 1 \in M /\ last + 1 > first
      BY <1>1, <1>4, <1>5, <1>8, <2>1
    <2>3. i # last + 1
      <3>1. ~Written(text[last + 1])
        BY <2>2, MarkerUnwritten DEF M
      <3> QED BY <2>1, <3>1 DEF Told
    <2>4. {first, last + 1} \in SUBSET before(i)
      <3>1. last + 1 < i /\ first < i
        BY <1>8, <2>1, <2>2, <2>3
      <3> QED BY <1>3, <2>2, <3>1
    <2>5. Cardinality({first} \cup {last + 1}) = 2
      <3>1. last + 1 \notin {first}
        BY <2>2
      <3>2. Cardinality({first}) = 1 /\ IsFiniteSet({first})
        BY FS_Singleton
      <3>3. Cardinality({first} \cup {last + 1}) = 1 + 1
        BY <3>1, <3>2, FS_AddElement
      <3>4. 1 + 1 = 2
        OBVIOUS
      <3> QED BY <3>3, <3>4, Zenon
    <2>6. {first} \cup {last + 1} = {first, last + 1}
      OBVIOUS
    <2> HIDE DEF before
    <2>7. 2 <= Cardinality(before(i)) /\ Cardinality(before(i)) \in Nat
      BY <1>6, <2>4, <2>5, <2>6, FS_Subset, FS_CardinalityType
    <2> QED BY <2>7
  <1>9. \A i \in 1..n : i \in at <=> i \in Fitting(text) /\ i <= last
    <2> HIDE DEF before
    <2> QED BY <1>7, <1>8
  <1>10. last \in 0..n
    BY <1>1, <1>4, <1>5
  <1>11. BeforeSecondMarker(text) = Pick(text, at)
    BY DEF BeforeSecondMarker, M
  <1> HIDE DEF at
  <1>12. Pick(text, at) = Kept(SubSeq(text, 1, last))
    BY <1>9, <1>10, PickUpTo DEF n
  <1> QED BY <1>11, <1>12 DEF last, first, M

LEMMA NoMarker ==
  ASSUME NEW text \in Seq(Line), Markers(text) = {}
  PROVE  BeforeSecondMarker(text) = Kept(text)
  <1>1. \A i : {j \in Markers(text) : j < i} = {}
    OBVIOUS
  <1>2. Cardinality({}) < 2
    BY FS_EmptySet
  <1>3. {i \in Fitting(text) : Cardinality({j \in Markers(text) : j < i}) < 2} = Fitting(text)
    BY <1>1, <1>2, Zenon
  <1> QED BY <1>3, Zenon DEF BeforeSecondMarker, Kept

LEMMA PartsKeep ==
  ASSUME NEW text \in Seq(Line)
  PROVE  /\ From(ContentPart(text), text) /\ From(SchedulePart(text), text)
         /\ Kept(ContentPart(text)) \o Kept(SchedulePart(text)) = BeforeSecondMarker(text)
  <1> DEFINE n == Len(text)
             M == Markers(text)
             end == EndOf(text, 0)
  <1>1. n \in Nat /\ DOMAIN text = 1..n /\ SubSeq(text, 1, n) = text /\ 0 \in 0..n
    OBVIOUS
  <1>2. /\ end \in 0..n /\ \A i \in (0 + 1)..end : i \notin M
        /\ end = n \/ (end + 1 \in M /\ end + 1 > 0)
    BY <1>1, EndOfPart, Zenon
  <1> HIDE DEF end, n
  <1>3. 1 \in 1..(n + 1) /\ end \in (1 - 1)..n /\ n \in (1 - 1)..n
    BY <1>1, <1>2
  <1>4. /\ From(ContentPart(text), text)
        /\ Kept(ContentPart(text)) = Kept(SubSeq(text, 1, end))
    BY <1>3, FromSlice, Zenon DEF ContentPart, end, n
  <1>5. CASE M = {}
    <2>1. end = n
      BY <1>2, <1>5
    <2>2. SchedulePart(text) = <<>> /\ From(<<>>, text)
      BY <1>5 DEF SchedulePart, From
    <2>3. Kept(text) \in Seq(Line) /\ Kept(text) \o <<>> = Kept(text)
      <3>1. Kept(text) \in Seq(Line)
        BY KeptType
      <3> QED BY <3>1, Gluing
    <2> QED BY <1>1, <1>4, <1>5, <2>1, <2>2, <2>3, KeptEmpty, NoMarker, Zenon DEF M
  <1>6. CASE M # {}
    <2> DEFINE first == Min(M)
               last == EndOf(text, first)
    <2>1. first \in M /\ first \in 1..n /\ \A i \in M : first <= i
      <3>1. M \in SUBSET (1..n)
        BY <1>1 DEF Markers
      <3> HIDE DEF M
      <3> QED BY <1>1, <1>6, <3>1, SetEnds
    <2>2. first \in 0..n
      BY <1>1, <2>1
    <2>3. last \in first..n
      <3> HIDE DEF first
      <3> QED BY <2>2, EndOfPart, Zenon DEF n
    <2>4. SchedulePart(text) = Strip(SubSeq(text, first + 1, last))
      BY <1>6, Zenon DEF SchedulePart
    <2>5. BeforeSecondMarker(text) = Kept(SubSeq(text, 1, last))
      BY <1>6, BeforeSecond, Zenon
    <2> HIDE DEF first, last, M
    <2>6. end = first - 1
      <3>1. ~(first \in (0 + 1)..end)
        BY <1>2, <2>1
      <3>2. end < first
        BY <1>1, <1>2, <2>1, <3>1
      <3>3. end # n
        BY <1>1, <1>2, <2>1, <3>2
      <3>4. first <= end + 1
        BY <1>2, <2>1, <3>3
      <3> QED BY <1>1, <1>2, <2>1, <3>2, <3>4
    <2>7. /\ last \in (1 - 1)..n /\ first - 1 \in (1 - 1)..last /\ (first - 1) + 1 = first
          /\ first \in 1..(n + 1) /\ last \in (first - 1)..n /\ first \in (first - 1)..last
          /\ first \in (first - 1)..n
          /\ first + 1 \in 1..(n + 1) /\ last \in ((first + 1) - 1)..n
      BY <1>1, <2>1, <2>3
    <2>8. Kept(SubSeq(text, 1, last)) =
            Kept(SubSeq(text, 1, first - 1)) \o Kept(SubSeq(text, first, last))
      BY <1>3, <2>7, KeptSlice DEF n
    <2>9. Kept(SubSeq(text, first, last)) =
            Kept(SubSeq(text, first, first)) \o Kept(SubSeq(text, first + 1, last))
      BY <2>7, KeptSlice DEF n
    <2>10. Kept(SubSeq(text, first, first)) = <<>>
      <3>1. \A i \in first..first : i = first
        BY <2>1
      <3>2. \A i \in first..first : ~Written(text[i])
        BY <2>1, <3>1, MarkerUnwritten, Zenon DEF M
      <3> QED BY <2>7, <3>2, KeptUnwritten DEF n
    <2>11. /\ From(SchedulePart(text), text)
           /\ Kept(SchedulePart(text)) = Kept(SubSeq(text, first + 1, last))
      BY <2>4, <2>7, FromSlice, Zenon DEF n
    <2>12. Kept(SubSeq(text, first + 1, last)) \in Seq(Line)
      <3>1. SchedulePart(text) \in Seq(Line)
        BY <2>11 DEF From
      <3> QED BY <2>11, <3>1, KeptType
    <2>13. Kept(SubSeq(text, first, last)) = Kept(SchedulePart(text))
      BY <2>9, <2>10, <2>11, <2>12, Gluing
    <2> QED BY <1>4, <2>5, <2>6, <2>8, <2>11, <2>13, Zenon
  <1> QED BY <1>5, <1>6

-----------------------------------------------------------------------------
(* The messages of a notice *)

\* A heading: something written, nothing told, no line that fills a chunk.
Heading(lines) ==
  /\ lines \in Seq(Line) /\ HasText(lines) /\ Kept(lines) = <<>>
  /\ \A i \in 1..Len(lines) : lines[i].size < MaxText

LEMMA OwnLines ==
  ASSUME NEW lines \in Seq(Line),
         \A i \in 1..Len(lines) : \E k \in Nat, size \in 0..2 : lines[i] = Own(k, size)
  PROVE  Kept(lines) = <<>> /\ \A i \in 1..Len(lines) : lines[i].size < MaxText
  <1>1. ASSUME NEW i \in 1..Len(lines) PROVE Bit(lines[i]) = <<>> /\ lines[i].size < MaxText
    <2>1. PICK k \in Nat, size \in 0..2 : lines[i] = Own(k, size)
      OBVIOUS
    <2>2. size \in Nat /\ size < MaxText
      BY SizesAssumption
    <2>3. ~Told(lines[i]) /\ lines[i].size = size
      BY <2>1, <2>2, OwnType
    <2> QED BY <2>2, <2>3 DEF Bit
  <1> QED BY <1>1, KeptNothing

LEMMA Headings == Heading(ContentHead) /\ Heading(ScheduleHead)
  <1>1. ASSUME NEW k \in Nat, NEW head, head = <<Own(k, 2), Blank, Own(4, 1), Blank>>
        PROVE  Heading(head)
    <2>1. Own(k, 2) \in Line /\ Own(4, 1) \in Line /\ Own(1, 0) \in Line
      BY OwnType
    <2>2. /\ head \in Seq(Line) /\ Len(head) = 4 /\ head[1] = Own(k, 2)
          /\ head[2] = Own(1, 0) /\ head[3] = Own(4, 1) /\ head[4] = Own(1, 0)
      BY <1>1, <2>1 DEF Blank
    <2>3. ASSUME NEW i \in 1..Len(head)
          PROVE  \E j \in Nat, size \in 0..2 : head[i] = Own(j, size)
      <3>1. i = 1 \/ i = 2 \/ i = 3 \/ i = 4
        BY <2>2
      <3> QED BY <2>2, <3>1
    <2>4. HasText(head)
      BY <2>2, OwnType DEF HasText, Written
    <2> QED BY <2>2, <2>3, <2>4, OwnLines DEF Heading
  <1> QED BY <1>1 DEF ContentHead, ScheduleHead

LEMMA BlankKept ==
  <<Blank>> \in Seq(Line) /\ Kept(<<Blank>>) = <<>>
    /\ \A i \in 1..Len(<<Blank>>) : <<Blank>>[i].size < MaxText
  <1>1. Own(1, 0) \in Line /\ ~Told(Own(1, 0)) /\ Own(1, 0).size = 0
    BY OwnType
  <1>2. Kept(<<Own(1, 0)>>) = Bit(Own(1, 0))
    BY <1>1, KeptOne
  <1>3. /\ <<Own(1, 0)>> \in Seq(Line) /\ Len(<<Own(1, 0)>>) = 1
        /\ <<Own(1, 0)>>[1] = Own(1, 0)
    BY <1>1
  <1>4. 0 < MaxText
    BY SizesAssumption
  <1> QED BY <1>1, <1>2, <1>3, <1>4 DEF Bit, Blank

LEMMA Headed ==
  ASSUME NEW head, Heading(head), NEW part \in Seq(Line)
  PROVE  /\ Split(head \o part) \in Seq(Msg) /\ Split(head \o part) # <<>>
         /\ Heard(Split(head \o part)) = Kept(part)
         /\ (\A i \in 1..Len(part) : part[i].size < MaxText) =>
              \A k \in 1..Len(Split(head \o part)) : Plain(Split(head \o part)[k])
  <1> DEFINE text == head \o part
  <1>1. head \in Seq(Line) /\ HasText(head) /\ Kept(head) = <<>>
    BY DEF Heading
  <1>2. /\ text \in Seq(Line) /\ Len(text) = Len(head) + Len(part)
        /\ Len(head) \in Nat /\ Len(part) \in Nat
        /\ \A i \in 1..Len(head) : text[i] = head[i]
        /\ \A i \in (Len(head) + 1)..Len(text) :
             text[i] = part[i - Len(head)] /\ i - Len(head) \in 1..Len(part)
    BY <1>1
  <1>3. Kept(text) = Kept(part)
    <2>1. Kept(part) \in Seq(Line)
      BY KeptType
    <2>2. Kept(text) = Kept(head) \o Kept(part)
      BY <1>1, KeptConcat, ZenonT(30)
    <2>3. <<>> \o Kept(part) = Kept(part)
      BY <2>1
    <2> QED BY <1>1, <2>2, <2>3, Zenon
  <1> HIDE DEF text
  <1>4. HasText(text)
    <2>1. \A i \in 1..Len(head) : i \in 1..Len(text)
      BY <1>2
    <2> QED BY <1>1, <1>2, <2>1, Zenon DEF HasText
  <1>5. ASSUME \A i \in 1..Len(part) : part[i].size < MaxText, NEW i \in 1..Len(text)
        PROVE  text[i].size < MaxText
    <2>1. i \in 1..Len(head) \/ i \in (Len(head) + 1)..Len(text)
      BY <1>2
    <2> QED BY <1>2, <1>5, <2>1, Zenon DEF Heading
  <1> QED BY <1>2, <1>3, <1>4, <1>5, SplitKeeps, Zenon DEF text

\* The messages of a notice (send_notice_summary, _send_chunked, send_text of
\* kakao.py) hold each line of its text up to the second marker once and in order,
\* whatever the text; and as long as every line leaves room for a newline, none is
\* cut and each holds some text.
THEOREM NoticeMessagesKeep ==
  ASSUME NEW text \in Seq(Line)
  PROVE  /\ NoticeMessages(text) \in Seq(Msg) /\ NoticeMessages(text) # <<>>
         /\ Heard(NoticeMessages(text)) = BeforeSecondMarker(text)
         /\ (\A i \in 1..Len(text) : text[i].size < MaxText) =>
              \A k \in 1..Len(NoticeMessages(text)) : Plain(NoticeMessages(text)[k])
  <1> DEFINE content == ContentPart(text)
             schedule == SchedulePart(text)
             body == IF content = <<>> THEN <<Blank>> ELSE content
             a == Split(ContentHead \o body)
             b == IF schedule = <<>> THEN <<>> ELSE Split(ScheduleHead \o schedule)
             plain == \A i \in 1..Len(text) : text[i].size < MaxText
  <1>1. /\ From(content, text) /\ From(schedule, text)
        /\ Kept(content) \o Kept(schedule) = BeforeSecondMarker(text)
    BY PartsKeep
  <1>2. NoticeMessages(text) = a \o b
    BY DEF NoticeMessages
  <1> HIDE DEF content, schedule
  <1>3. /\ content \in Seq(Line)
        /\ plain => \A i \in 1..Len(content) : content[i].size < MaxText
    BY <1>1, Zenon DEF From
  <1>4. /\ schedule \in Seq(Line)
        /\ plain => \A i \in 1..Len(schedule) : schedule[i].size < MaxText
    BY <1>1, Zenon DEF From
  <1>5. /\ body \in Seq(Line) /\ Kept(body) = Kept(content)
        /\ plain => \A i \in 1..Len(body) : body[i].size < MaxText
    <2>1. CASE content = <<>>
      <3>1. body = <<Blank>> /\ Kept(content) = <<>>
        BY <2>1, KeptEmpty
      <3> HIDE DEF body
      <3> QED BY <3>1, BlankKept, Zenon
    <2>2. CASE content # <<>>
      <3>1. body = content
        BY <2>2
      <3> HIDE DEF body, plain
      <3> QED BY <1>3, <3>1
    <2> QED BY <2>1, <2>2
  <1> HIDE DEF body, plain
  <1>6. /\ a \in Seq(Msg) /\ a # <<>> /\ Heard(a) = Kept(content)
        /\ plain => \A k \in 1..Len(a) : Plain(a[k])
    BY <1>5, Headings, Headed, Zenon DEF plain
  <1>7. /\ b \in Seq(Msg) /\ Heard(b) = Kept(schedule)
        /\ plain => \A k \in 1..Len(b) : Plain(b[k])
    <2>1. CASE schedule = <<>>
      <3>1. <<>> \in Seq(Msg) /\ \A k \in 1..Len(<<>>) : FALSE
        OBVIOUS
      <3>2. Heard(<<>>) = <<>>
        <4>1. Hears(<<>>) = <<>>
          BY DEF Hears
        <4> QED BY <3>1, <4>1, HearsType, FlattenEmpty
      <3> QED BY <2>1, <3>1, <3>2, KeptEmpty, Zenon
    <2>2. CASE schedule # <<>>
      <3>1. b = Split(ScheduleHead \o schedule)
        BY <2>2
      <3> QED BY <1>4, <3>1, Headings, Headed, Zenon DEF plain
    <2> QED BY <2>1, <2>2
  <1> HIDE DEF a, b
  <1>8. Heard(a \o b) = Heard(a) \o Heard(b)
    BY <1>6, <1>7, HeardConcat
  <1>9. a \o b \in Seq(Msg) /\ a \o b # <<>> /\ \A k \in 1..Len(a \o b) :
          \/ k \in 1..Len(a) /\ (a \o b)[k] = a[k]
          \/ k - Len(a) \in 1..Len(b) /\ (a \o b)[k] = b[k - Len(a)]
    <2> HIDE DEF Msg
    <2>1. /\ a \o b \in Seq(Msg) /\ Len(a \o b) = Len(a) + Len(b)
          /\ Len(a) \in Nat \ {0} /\ Len(b) \in Nat
      BY <1>6, <1>7
    <2>2. ASSUME NEW k \in 1..Len(a \o b)
          PROVE  \/ k \in 1..Len(a) /\ (a \o b)[k] = a[k]
                 \/ k - Len(a) \in 1..Len(b) /\ (a \o b)[k] = b[k - Len(a)]
      BY <1>6, <1>7, <2>1
    <2>3. Len(a \o b) # 0 /\ Len(<<>>) = 0
      BY <2>1
    <2> QED BY <2>1, <2>2, <2>3, Zenon
  <1>10. plain => \A k \in 1..Len(a \o b) : Plain((a \o b)[k])
    BY <1>6, <1>7, <1>9, Zenon
  <1> QED BY <1>1, <1>2, <1>6, <1>7, <1>8, <1>9, <1>10, Zenon DEF plain

LEMMA TitleMessageKeep ==
  /\ TitleMessage \in Seq(Msg) /\ TitleMessage # <<>> /\ Heard(TitleMessage) = <<>>
  /\ \A k \in 1..Len(TitleMessage) : Plain(TitleMessage[k])
  <1> DEFINE lines == SubSeq(ContentHead, 1, 3)
  <1>1. Own(3, 2) \in Line /\ Own(1, 0) \in Line /\ Own(4, 1) \in Line
        /\ Own(3, 2).size = 2 /\ Own(1, 0).size = 0 /\ Own(4, 1).size = 1
    BY OwnType
  <1> DEFINE two == Append(<<Own(3, 2)>>, Own(1, 0))
  <1>2. /\ lines = Append(two, Own(4, 1)) /\ two \in Seq(Line) /\ two # <<>>
        /\ <<Own(3, 2)>> \in Seq(Line) /\ <<Own(3, 2)>> # <<>>
    BY <1>1 DEF ContentHead, Blank
  <1>3. Size(two) = Size(<<Own(3, 2)>>) + Own(1, 0).size + 1
    BY <1>1, <1>2, SizeAppend
  <1>4. Size(Append(two, Own(4, 1))) = Size(two) + Own(4, 1).size + 1
    <2> HIDE DEF two
    <2> QED BY <1>1, <1>2, SizeAppend
  <1>5. Size(<<Own(3, 2)>>) = 2
    BY <1>1, SizeOne
  <1>6. Size(lines) = 5
    <2> HIDE DEF two, lines
    <2> QED BY <1>1, <1>2, <1>3, <1>4, <1>5
  <1>7. /\ lines \in Seq(Line) /\ Len(lines) = 3 /\ lines[1] = Own(3, 2)
        /\ lines[2] = Own(1, 0) /\ lines[3] = Own(4, 1)
    BY <1>1 DEF ContentHead, Blank
  <1> HIDE DEF lines
  <1>8. HasText(lines)
    BY <1>1, <1>7 DEF HasText, Written
  <1> DEFINE message == Message(lines, FALSE)
  <1>9. message \in Msg /\ message.lines = lines /\ message.size = 5
    BY <1>6, <1>7, MessageType
  <1>10. TitleMessage = <<message>>
    BY DEF TitleMessage, lines
  <1> HIDE DEF message
  <1>11. Plain(message)
    <2>1. 5 <= Cap
      BY SizesAssumption
    <2> QED BY <1>8, <1>9, <2>1 DEF Plain
  <1>12. /\ <<message>> \in Seq(Msg) /\ <<message>> # <<>> /\ Len(<<message>>) = 1
         /\ <<message>>[1] = message
    BY <1>9
  <1>13. Received(message) = <<>>
    <2>1. \A i \in 1..3 : ~Told(lines[i])
      <3>1. ~Told(Own(3, 2)) /\ ~Told(Own(1, 0)) /\ ~Told(Own(4, 1))
        BY DEF Told, Own
      <3> QED BY <1>7, <3>1
    <2>2. DOMAIN lines = 1..3
      BY <1>7
    <2>3. Received(message) = FlattenSeq([i \in 1..3 |-> <<>>])
      <3> DEFINE at == {i \in DOMAIN lines : Told(lines[i]) /\ Size(SubSeq(lines, 1, i)) <= Cap}
      <3>1. Received(message) = Pick(lines, at)
        BY <1>9 DEF Received
      <3>2. at = {}
        BY <2>1, <2>2
      <3> HIDE DEF at
      <3> QED BY <2>2, <3>1, <3>2 DEF Pick
    <2>4. [i \in 1..3 |-> <<>>] \in Seq({<<>>})
      OBVIOUS
    <2> QED BY <2>3, <2>4, FlattenNothing, Zenon
  <1>14. Heard(TitleMessage) = <<>>
    BY <1>9, <1>10, <1>13, HeardOne
  <1> QED BY <1>10, <1>11, <1>12, <1>14

LEMMA FlattenOne ==
  ASSUME NEW S, NEW seq \in Seq(S)
  PROVE  FlattenSeq(<<seq>>) = seq /\ <<seq>> \in Seq(Seq(S))
  <1>1. <<seq>> = Append(<<>>, seq) /\ <<>> \in Seq(Seq(S)) /\ <<seq>> \in Seq(Seq(S))
    OBVIOUS
  <1>2. FlattenSeq(Append(<<>>, seq)) = <<>> \o seq
    BY <1>1, FlattenAppend, FlattenEmpty
  <1> QED BY <1>1, <1>2, Gluing
===============================================================================
