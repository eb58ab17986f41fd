------------------------------ MODULE SeqFacts ------------------------------
(***************************************************************************)
(* Facts about sequences. Of FlattenSeq, on which the folding of           *)
(* conversations rests (the filters and the concatenated logs of           *)
(* merge_duplicates): the provers know nothing of it, a recursive          *)
(* function, so its existence comes first, and each induction is by least  *)
(* counterexample.                                                         *)
(*                                                                         *)
(* Then what it does to a concatenation, and the algebra of concatenating  *)
(* and cutting that the refinements of Delivery are made of.               *)
(***************************************************************************)
EXTENDS Integers, SequencesExt, SequenceTheorems, WellFoundedInduction, TLAPS

\* A set of naturals that has a member has a least one.
LEMMA LeastNat ==
  ASSUME NEW T \in SUBSET Nat, T # {}
  PROVE  \E m \in T : \A k \in T : m <= k
<1>1. PICK m \in T : \A k \in T : ~(<<k, m>> \in OpToRel(<, Nat))
  BY NatLessThanWellFounded, WFMin
<1>2. \A k \in T : m <= k
  <2> TAKE k \in T
  <2>1. k \in Nat /\ m \in Nat
    OBVIOUS
  <2>2. ~(k < m)
    BY <1>1, <2>1 DEF OpToRel
  <2> QED BY <2>1, <2>2
<1> QED BY <1>2

\* Induction over an initial segment of the naturals, for a set of indices.
LEMMA SegmentInduction ==
  ASSUME NEW n \in Nat, NEW G,
         1 \in G,
         \A i \in 2 .. n : i - 1 \in G => i \in G
  PROVE  1 .. n \subseteq G
<1> DEFINE Bad == {i \in 1 .. n : i \notin G}
<1> SUFFICES ASSUME Bad # {} PROVE FALSE
  OBVIOUS
<1>1. Bad \subseteq Nat
  OBVIOUS
<1>2. PICK m \in Bad : \A k \in Bad : m <= k
  BY <1>1, LeastNat
<1>3. m \in 2 .. n /\ m \notin G
  BY <1>2
<1>4. m - 1 \in 1 .. n /\ ~(m <= m - 1)
  BY <1>3
<1>5. m - 1 \in G
  BY <1>2, <1>4
<1> QED BY <1>3, <1>5

\* What FlattenSeq adds up, one element of ss at a time.
Partial(ss, n, g) ==
  g = [i \in 1 .. n |-> IF i = 1 THEN ss[i] ELSE g[i - 1] \o ss[i]]

\* The recursive function FlattenSeq defines exists.
LEMMA PartialExists ==
  ASSUME NEW ss, NEW n \in Nat
  PROVE  \E g : Partial(ss, n, g)
<1> DEFINE Bad == {k \in Nat : ~ \E g : Partial(ss, k, g)}
<1> SUFFICES ASSUME Bad # {} PROVE FALSE
  OBVIOUS
<1>1. PICK m \in Bad : \A k \in Bad : m <= k
  <2>1. Bad \subseteq Nat
    OBVIOUS
  <2> QED BY <2>1, LeastNat
<1>2. m \in Nat /\ m # 0
  <2>1. Partial(ss, 0, <<>>)
    BY DEF Partial
  <2> QED BY <1>1, <2>1
<1>3. m - 1 \in Nat /\ m - 1 \notin Bad
  BY <1>1, <1>2
<1>4. PICK g : Partial(ss, m - 1, g)
  BY <1>3
<1> DEFINE h == [i \in 1 .. m |->
                   IF i = m THEN IF m = 1 THEN ss[m] ELSE g[m - 1] \o ss[m]
                            ELSE g[i]]
<1>5. \A i \in 1 .. m : h[i] = IF i = 1 THEN ss[i] ELSE h[i - 1] \o ss[i]
  <2> TAKE i \in 1 .. m
  <2>1. CASE i = m
    <3>1. m # 1 => m - 1 \in 1 .. m /\ m - 1 # m /\ h[m - 1] = g[m - 1]
      BY <1>2
    <3> QED BY <2>1, <3>1
  <2>2. CASE i # m
    <3>1. i \in 1 .. (m - 1) /\ h[i] = g[i]
      BY <1>2, <2>2
    <3>2. g[i] = IF i = 1 THEN ss[i] ELSE g[i - 1] \o ss[i]
      BY <1>4, <3>1 DEF Partial
    <3>3. i # 1 => i - 1 \in 1 .. m /\ i - 1 # m /\ h[i - 1] = g[i - 1]
      BY <1>2, <3>1
    <3> QED BY <3>1, <3>2, <3>3
  <2> QED BY <2>1, <2>2
<1>6. Partial(ss, m, h)
  <2> HIDE DEF h
  <2>1. h = [i \in 1 .. m |-> h[i]]
    BY DEF h
  <2> QED BY <1>5, <2>1 DEF Partial
<1> QED BY <1>1, <1>6

\* FlattenSeq by its partial sums.
LEMMA FlattenPartial ==
  ASSUME NEW T, NEW ss \in Seq(Seq(T)), Len(ss) # 0
  PROVE  \E g : /\ \A i \in 1 .. Len(ss) :
                     g[i] = IF i = 1 THEN ss[i] ELSE g[i - 1] \o ss[i]
                /\ FlattenSeq(ss) = g[Len(ss)]
<1> DEFINE n == Len(ss)
           f == CHOOSE g : Partial(ss, n, g)
<1>1. n \in Nat
  OBVIOUS
<1>2. Partial(ss, n, f)
  BY <1>1, PartialExists
<1>3. FlattenSeq(ss) = f[n]
  BY DEF FlattenSeq, Partial
<1>4. \A i \in 1 .. n : f[i] = IF i = 1 THEN ss[i] ELSE f[i - 1] \o ss[i]
  <2> HIDE DEF f
  <2> QED BY <1>2 DEF Partial
<1> HIDE DEF f
<1> QED BY <1>3, <1>4

\* A property that the empty sequence need not have, that every element of ss
\* has, and that appending the next element keeps, is one of FlattenSeq(ss).
LEMMA FlattenInvariant ==
  ASSUME NEW T, NEW ss \in Seq(Seq(T)), Len(ss) # 0,
         NEW Good \in [1 .. Len(ss) -> SUBSET Seq(T)],
         ss[1] \in Good[1],
         \A i \in 2 .. Len(ss) : \A t \in Good[i - 1] : t \o ss[i] \in Good[i]
  PROVE  FlattenSeq(ss) \in Good[Len(ss)]
<1> DEFINE n == Len(ss)
<1>1. n \in Nat \ {0}
  OBVIOUS
<1>2. PICK g : /\ \A i \in 1 .. n : g[i] = IF i = 1 THEN ss[i] ELSE g[i - 1] \o ss[i]
               /\ FlattenSeq(ss) = g[n]
  BY FlattenPartial
<1> DEFINE G == {i \in 1 .. n : g[i] \in Good[i]}
<1>3. 1 \in G
  BY <1>1, <1>2
<1>4. ASSUME NEW i \in 2 .. n, i - 1 \in G
      PROVE  i \in G
  <2>1. i \in 1 .. n /\ i # 1
    OBVIOUS
  <2>2. g[i] = g[i - 1] \o ss[i]
    BY <1>2, <2>1
  <2>3. g[i - 1] \in Good[i - 1]
    BY <1>4
  <2>4. g[i - 1] \o ss[i] \in Good[i]
    BY <2>3
  <2> QED BY <2>1, <2>2, <2>4
<1>5. 1 .. n \subseteq G
  <2> HIDE DEF G
  <2> QED BY <1>1, <1>3, <1>4, SegmentInduction
<1> QED BY <1>1, <1>2, <1>5

\* Concatenating sequences over T gives a sequence over T.
LEMMA FlattenType ==
  ASSUME NEW T, NEW ss \in Seq(Seq(T))
  PROVE  FlattenSeq(ss) \in Seq(T)
<1>1. CASE Len(ss) = 0
  <2>1. FlattenSeq(ss) = ss /\ ss = <<>>
    BY <1>1 DEF FlattenSeq
  <2> QED BY <2>1
<1>2. CASE Len(ss) # 0
  <2> DEFINE Good == [i \in 1 .. Len(ss) |-> Seq(T)]
  <2>1. Good \in [1 .. Len(ss) -> SUBSET Seq(T)] /\ ss[1] \in Good[1]
    BY <1>2
  <2>2. ASSUME NEW i \in 2 .. Len(ss), NEW t \in Good[i - 1]
        PROVE  t \o ss[i] \in Good[i]
    <3>1. i \in 1 .. Len(ss) /\ i - 1 \in 1 .. Len(ss)
      BY <1>2
    <3>2. ss[i] \in Seq(T) /\ t \in Seq(T)
      BY <3>1
    <3> QED BY <3>1, <3>2
  <2>3. FlattenSeq(ss) \in Good[Len(ss)]
    <3> HIDE DEF Good
    <3> QED BY <1>2, <2>1, <2>2, FlattenInvariant
  <2> QED BY <1>2, <2>3
<1> QED BY <1>1, <1>2

\* The elements of a concatenation.
LEMMA RangeConcat ==
  ASSUME NEW T, NEW a \in Seq(T), NEW b \in Seq(T)
  PROVE  Range(a \o b) = Range(a) \cup Range(b)
<1>1. Range(a \o b) \subseteq Range(a) \cup Range(b)
  BY DEF Range
<1>2. ASSUME NEW x \in Range(a) \cup Range(b)
      PROVE  x \in Range(a \o b)
  <2>1. CASE x \in Range(a)
    BY <2>1 DEF Range
  <2>2. CASE x \in Range(b)
    <3>1. PICK j \in DOMAIN b : x = b[j]
      BY <2>2 DEF Range
    <3>2. /\ Len(a) + j \in DOMAIN (a \o b)
          /\ (a \o b)[Len(a) + j] = x
      BY <3>1
    <3> QED BY <3>2 DEF Range
  <2> QED BY <2>1, <2>2
<1> QED BY <1>1, <1>2

\* Concatenating repetition-free sequences that share no element.
LEMMA InjectiveConcat ==
  ASSUME NEW T, NEW a \in Seq(T), NEW b \in Seq(T),
         IsInjective(a), IsInjective(b), Range(a) \cap Range(b) = {}
  PROVE  IsInjective(a \o b)
<1> SUFFICES ASSUME NEW i \in DOMAIN (a \o b), NEW j \in DOMAIN (a \o b),
                    (a \o b)[i] = (a \o b)[j]
             PROVE  i = j
  BY DEF IsInjective
<1>1. i \in 1 .. Len(a) + Len(b) /\ j \in 1 .. Len(a) + Len(b)
  OBVIOUS
<1>2. \A k \in 1 .. Len(a) : (a \o b)[k] = a[k] /\ a[k] \in Range(a)
  BY DEF Range
<1>3. \A k \in 1 .. Len(a) + Len(b) : ~(k <= Len(a)) =>
        /\ k - Len(a) \in DOMAIN b
        /\ (a \o b)[k] = b[k - Len(a)]
        /\ b[k - Len(a)] \in Range(b)
  BY DEF Range
<1>4. CASE i <= Len(a) /\ j <= Len(a)
  BY <1>1, <1>2, <1>4 DEF IsInjective
<1>5. CASE ~(i <= Len(a)) /\ ~(j <= Len(a))
  BY <1>1, <1>3, <1>5 DEF IsInjective
<1>6. CASE (i <= Len(a)) # (j <= Len(a))
  BY <1>1, <1>2, <1>3, <1>6
<1> QED BY <1>4, <1>5, <1>6

\* FlattenSeq of nothing and of one sequence.
LEMMA FlattenShort ==
  ASSUME NEW T, NEW x \in Seq(T)
  PROVE  FlattenSeq(<<>>) = <<>> /\ FlattenSeq(<<x>>) = x
<1> DEFINE ss == <<x>>
<1>1. ss \in Seq(Seq(T)) /\ Len(ss) = 1 /\ ss[1] = x
  OBVIOUS
<1>2. FlattenSeq(ss) = x
  <2> HIDE DEF ss
  <2>1. PICK g : /\ \A i \in 1 .. Len(ss) :
                      g[i] = IF i = 1 THEN ss[i] ELSE g[i - 1] \o ss[i]
                 /\ FlattenSeq(ss) = g[Len(ss)]
    BY <1>1, FlattenPartial
  <2>2. 1 \in 1 .. Len(ss)
    BY <1>1
  <2> QED BY <1>1, <2>1, <2>2
<1>3. FlattenSeq(<<>>) = <<>>
  BY DEF FlattenSeq
<1> QED BY <1>2, <1>3

\* FlattenSeq takes concatenation to concatenation.
LEMMA FlattenConcat ==
  ASSUME NEW T, NEW a \in Seq(Seq(T)), NEW b \in Seq(Seq(T))
  PROVE  FlattenSeq(a \o b) = FlattenSeq(a) \o FlattenSeq(b)
<1> DEFINE n == Len(a)
           m == Len(b)
           c == a \o b
<1>1. /\ n \in Nat /\ m \in Nat /\ c \in Seq(Seq(T)) /\ Len(c) = n + m
      /\ FlattenSeq(a) \in Seq(T) /\ FlattenSeq(b) \in Seq(T)
  BY FlattenType
<1>2. CASE n = 0
  <2>1. a = <<>> /\ c = b
    BY <1>2
  <2>2. FlattenSeq(a) = <<>> /\ FlattenSeq(c) = FlattenSeq(b)
    BY <2>1 DEF FlattenSeq
  <2> HIDE DEF c
  <2> QED BY <1>1, <2>2 DEF c
<1>3. CASE m = 0
  <2>1. b = <<>> /\ c = a
    BY <1>3
  <2>2. FlattenSeq(b) = <<>> /\ FlattenSeq(c) = FlattenSeq(a)
    BY <2>1 DEF FlattenSeq
  <2> HIDE DEF c
  <2> QED BY <1>1, <2>2 DEF c
<1>4. CASE n # 0 /\ m # 0
  <2>1. PICK f : /\ \A i \in 1 .. n : f[i] = IF i = 1 THEN a[i] ELSE f[i - 1] \o a[i]
                 /\ FlattenSeq(a) = f[n]
    BY <1>4, FlattenPartial
  <2>2. PICK g : /\ \A i \in 1 .. m : g[i] = IF i = 1 THEN b[i] ELSE g[i - 1] \o b[i]
                 /\ FlattenSeq(b) = g[m]
    BY <1>4, FlattenPartial
  <2>3. PICK h : /\ \A i \in 1 .. n + m : h[i] = IF i = 1 THEN c[i] ELSE h[i - 1] \o c[i]
                 /\ FlattenSeq(c) = h[n + m]
    <3> HIDE DEF n, m, c
    <3>1. Len(c) # 0
      BY <1>1, <1>4
    <3> QED BY <1>1, <3>1, FlattenPartial
  <2>4. /\ \A i \in 1 .. n : c[i] = a[i]
        /\ \A i \in 1 .. m : c[n + i] = b[i] /\ b[i] \in Seq(T)
    OBVIOUS
  <2> HIDE DEF n, m, c
  <2> DEFINE G == {i \in 1 .. n : h[i] = f[i]}
  <2>5. 1 .. n \subseteq G
    <3>1. 1 \in G
      BY <1>1, <1>4, <2>1, <2>3, <2>4
    <3>2. ASSUME NEW i \in 2 .. n, i - 1 \in G PROVE i \in G
      <4>1. i \in 1 .. n /\ i # 1 /\ i \in 1 .. n + m
        BY <1>1
      <4>2. f[i] = f[i - 1] \o a[i] /\ h[i] = h[i - 1] \o c[i]
        BY <2>1, <2>3, <4>1
      <4> QED BY <2>4, <3>2, <4>1, <4>2
    <3> HIDE DEF G
    <3> QED BY <1>1, <3>1, <3>2, SegmentInduction
  <2>6. h[n] = FlattenSeq(a)
    <3>1. n \in 1 .. n
      BY <1>1, <1>4
    <3>2. n \in G
      BY <2>5, <3>1
    <3> QED BY <2>1, <3>2
  <2> DEFINE K == {i \in 1 .. m : g[i] \in Seq(T) /\ h[n + i] = FlattenSeq(a) \o g[i]}
  <2>7. 1 .. m \subseteq K
    <3>1. 1 \in K
      <4>1. /\ 1 \in 1 .. m /\ n + 1 \in 1 .. n + m /\ n + 1 # 1
            /\ (n + 1) - 1 = n
        BY <1>1, <1>4
      <4>2. h[n + 1] = h[(n + 1) - 1] \o c[n + 1] /\ g[1] = b[1]
        BY <2>2, <2>3, <4>1
      <4>3. b[1] \in Seq(T) /\ c[n + 1] = b[1]
        BY <2>4, <4>1
      <4> QED BY <2>6, <4>1, <4>2, <4>3
    <3>2. ASSUME NEW i \in 2 .. m, i - 1 \in K PROVE i \in K
      <4>1. i \in 1 .. m /\ i # 1 /\ n + i \in 1 .. n + m /\ n + i # 1
            /\ (n + i) - 1 = n + (i - 1)
        BY <1>1
      <4>2. g[i] = g[i - 1] \o b[i] /\ h[n + i] = h[n + (i - 1)] \o c[n + i]
        BY <2>2, <2>3, <4>1
      <4>3. g[i - 1] \in Seq(T) /\ b[i] \in Seq(T) /\ c[n + i] = b[i]
            /\ h[n + (i - 1)] = FlattenSeq(a) \o g[i - 1]
        BY <2>4, <3>2, <4>1
      <4> DEFINE x == FlattenSeq(a)
                 y == g[i - 1]
                 z == b[i]
      <4>4. x \in Seq(T) /\ y \in Seq(T) /\ z \in Seq(T)
        BY <1>1, <4>3
      <4>5. (x \o y) \o z = x \o (y \o z)
        <5> HIDE DEF x, y, z
        <5> QED BY <4>4, ConcatAssociative
      <4>6. g[i] \in Seq(T)
        <5>1. g[i] = y \o z
          BY <4>2
        <5> HIDE DEF y, z
        <5> QED BY <4>4, <5>1
      <4>7. h[n + i] = x \o g[i]
        <5>1. h[n + i] = (x \o y) \o z
          BY <4>2, <4>3
        <5>2. g[i] = y \o z
          BY <4>2
        <5> HIDE DEF x, y, z
        <5> QED BY <4>5, <5>1, <5>2
      <4> QED BY <4>1, <4>6, <4>7
    <3> HIDE DEF K
    <3> QED BY <1>1, <3>1, <3>2, SegmentInduction
  <2>8. m \in K
    BY <1>1, <1>4, <2>7
  <2> QED BY <2>2, <2>3, <2>8 DEF c
<1> QED BY <1>2, <1>3, <1>4

\* The same, for a sequence known by its elements.
LEMMA FlattenJoin ==
  ASSUME NEW T, NEW a \in Seq(Seq(T)), NEW b \in Seq(Seq(T)), NEW c \in Seq(Seq(T)),
         Len(c) = Len(a) + Len(b),
         \A i \in 1 .. Len(a) : c[i] = a[i],
         \A i \in 1 .. Len(b) : c[Len(a) + i] = b[i]
  PROVE  FlattenSeq(c) = FlattenSeq(a) \o FlattenSeq(b)
<1>1. a \o b \in Seq(Seq(T)) /\ Len(a \o b) = Len(c)
  OBVIOUS
<1>2. \A i \in 1 .. Len(c) : c[i] = (a \o b)[i]
  <2> TAKE i \in 1 .. Len(c)
  <2>1. CASE i <= Len(a)
    BY <2>1
  <2>2. CASE ~(i <= Len(a))
    <3>1. i - Len(a) \in 1 .. Len(b) /\ Len(a) + (i - Len(a)) = i
      BY <2>2
    <3>2. c[i] = b[i - Len(a)]
      BY <3>1
    <3> QED BY <2>2, <3>2
  <2> QED BY <2>1, <2>2
<1>3. c = a \o b
  BY <1>1, <1>2, SeqEqual
<1> QED BY <1>3, FlattenConcat

\* The sequences of ss repeat nothing and share nothing.
Disjoint(ss) ==
  \A i \in DOMAIN ss :
    /\ IsInjective(ss[i])
    /\ \A j \in DOMAIN ss : i # j => Range(ss[i]) \cap Range(ss[j]) = {}

\* FlattenSeq keeps every element, and repeats none if nothing is shared.
LEMMA FlattenElements ==
  ASSUME NEW T, NEW ss \in Seq(Seq(T))
  PROVE  /\ \A x : x \in Range(FlattenSeq(ss)) <=> \E i \in DOMAIN ss : x \in Range(ss[i])
         /\ Disjoint(ss) => IsInjective(FlattenSeq(ss))
<1> DEFINE n == Len(ss)
           Upto(i) == UNION {Range(ss[j]) : j \in 1 .. i}
           Good == [i \in 1 .. n |->
                      {t \in Seq(T) : /\ Range(t) = Upto(i)
                                      /\ Disjoint(ss) => IsInjective(t)}]
<1>1. n \in Nat /\ DOMAIN ss = 1 .. n /\ \A i \in 1 .. n : ss[i] \in Seq(T)
  OBVIOUS
<1>2. CASE n = 0
  <2>1. ss = <<>> /\ FlattenSeq(<<>>) = <<>>
    <3>1. ss = <<>>
      BY <1>1, <1>2
    <3> QED BY <3>1 DEF FlattenSeq
  <2>2. Range(<<>>) = {} /\ IsInjective(<<>>)
    BY DEF Range, IsInjective
  <2> QED BY <2>1, <2>2
<1>3. CASE n # 0
  <2>1. Good \in [1 .. Len(ss) -> SUBSET Seq(T)]
    OBVIOUS
  <2>2. ss[1] \in Good[1]
    <3>1. 1 \in 1 .. n /\ 1 .. 1 = {1}
      BY <1>1, <1>3
    <3>2. Upto(1) = Range(ss[1])
      BY <3>1
    <3>3. Disjoint(ss) => IsInjective(ss[1])
      BY <1>1, <3>1 DEF Disjoint
    <3> HIDE DEF Upto
    <3> QED BY <1>1, <3>1, <3>2, <3>3
  <2>3. ASSUME NEW i \in 2 .. Len(ss), NEW t \in Good[i - 1]
        PROVE  t \o ss[i] \in Good[i]
    <3>1. i \in 1 .. n /\ i - 1 \in 1 .. n /\ ss[i] \in Seq(T)
      BY <1>1
    <3>2. t \in Seq(T) /\ Range(t) = Upto(i - 1) /\ (Disjoint(ss) => IsInjective(t))
      BY <3>1
    <3>3. 1 .. i = 1 .. (i - 1) \cup {i}
      BY <3>1
    <3>4. Upto(i) = Upto(i - 1) \cup Range(ss[i])
      BY <3>3
    <3>5. ASSUME Disjoint(ss) PROVE IsInjective(t \o ss[i])
      <4>1. Upto(i - 1) \cap Range(ss[i]) = {}
        <5>1. \A j \in 1 .. (i - 1) : j \in DOMAIN ss /\ j # i
          BY <1>1, <3>1
        <5>2. \A j \in 1 .. (i - 1) : Range(ss[j]) \cap Range(ss[i]) = {}
          BY <1>1, <3>1, <3>5, <5>1 DEF Disjoint
        <5> QED BY <5>2
      <4>2. IsInjective(ss[i])
        BY <1>1, <3>1, <3>5 DEF Disjoint
      <4> HIDE DEF Upto
      <4> QED BY <3>1, <3>2, <3>5, <4>1, <4>2, InjectiveConcat
    <3>6. Range(t \o ss[i]) = Upto(i) /\ t \o ss[i] \in Seq(T)
      <4> HIDE DEF Upto
      <4> QED BY <3>1, <3>2, <3>4, RangeConcat
    <3> HIDE DEF Upto
    <3> QED BY <3>1, <3>5, <3>6
  <2>4. FlattenSeq(ss) \in Good[n]
    <3> HIDE DEF Good, n
    <3> QED BY <1>3, <2>1, <2>3, <2>2, FlattenInvariant DEF n
  <2>5. n \in 1 .. n
    BY <1>1, <1>3
  <2>6. Range(FlattenSeq(ss)) = Upto(n) /\ (Disjoint(ss) => IsInjective(FlattenSeq(ss)))
    BY <2>4, <2>5
  <2> QED BY <1>1, <2>6
<1> QED BY <1>2, <1>3

\* Concatenations with nothing.
LEMMA ConcatEmpty ==
  ASSUME NEW T, NEW x \in Seq(T), NEW y \in Seq(T)
  PROVE  x \o <<>> = x /\ <<>> \o x = x /\ x \o y \in Seq(T)
OBVIOUS

\* Concatenation is associative.
LEMMA Regroup ==
  ASSUME NEW T, NEW x \in Seq(T), NEW y \in Seq(T), NEW z \in Seq(T)
  PROVE  x \o (y \o z) = (x \o y) \o z
BY ConcatAssociative

\* The first element of a concatenation and the rest of it.
LEMMA ConcatTail ==
  ASSUME NEW T, NEW s \in Seq(T), NEW t \in Seq(T), s # <<>>
  PROVE  s \o t # <<>> /\ Head(s \o t) = Head(s) /\ Tail(s \o t) = Tail(s) \o t
<1>1. /\ Len(s) \in Nat \ {0} /\ Len(s \o t) = Len(s) + Len(t) /\ Len(t) \in Nat
      /\ s \o t \in Seq(T)
  OBVIOUS
<1>2. s \o t # <<>> /\ Head(s \o t) = Head(s)
  BY <1>1
<1>3. Tail(s \o t) = Tail(s) \o t
  <2> DEFINE l == Tail(s \o t)
             r == Tail(s) \o t
  <2>1. /\ l \in Seq(T) /\ Len(l) = Len(s) + Len(t) - 1
        /\ r \in Seq(T) /\ Len(r) = Len(s) + Len(t) - 1
    BY <1>1, <1>2
  <2>2. \A i \in 1 .. Len(l) : l[i] = r[i]
    <3> TAKE i \in 1 .. Len(l)
    <3>1. l[i] = (s \o t)[i + 1]
      BY <1>1, <1>2, <2>1
    <3>2. CASE i <= Len(s) - 1
      BY <1>1, <2>1, <3>1, <3>2
    <3>3. CASE ~(i <= Len(s) - 1)
      BY <1>1, <2>1, <3>1, <3>3
    <3> QED BY <3>2, <3>3
  <2> HIDE DEF l, r
  <2>3. l = r
    BY <2>1, <2>2, SeqEqual
  <2> QED BY <2>3 DEF l, r
<1> QED BY <1>2, <1>3

\* r is q without a run of its elements.
WithoutRun(q, r) ==
  \E k \in 0 .. Len(q), m \in 1 .. Len(q) + 1 :
    k < m /\ r = SubSeq(q, 1, k) \o SubSeq(q, m, Len(q))

\* Taking y out of the middle of a sequence.
LEMMA CutRun ==
  ASSUME NEW T, NEW x \in Seq(T), NEW y \in Seq(T), NEW z \in Seq(T)
  PROVE  WithoutRun(x \o y \o z, x \o z)
<1> DEFINE s == x \o y \o z
           k == Len(x)
           m == Len(x) + Len(y) + 1
<1>1. s \in Seq(T) /\ Len(s) = Len(x) + Len(y) + Len(z)
  OBVIOUS
<1>2. k \in 0 .. Len(s) /\ m \in 1 .. Len(s) + 1 /\ k < m
  BY <1>1
<1>3. SubSeq(s, 1, k) = x
  <2>1. SubSeq(s, 1, k) \in Seq(T) /\ Len(SubSeq(s, 1, k)) = Len(x)
    BY <1>1
  <2>2. \A i \in 1 .. Len(x) : SubSeq(s, 1, k)[i] = x[i]
    BY <1>1
  <2> HIDE DEF s, k
  <2> QED BY <2>1, <2>2, SeqEqual
<1>4. SubSeq(s, m, Len(s)) = z
  <2>1. SubSeq(s, m, Len(s)) \in Seq(T) /\ Len(SubSeq(s, m, Len(s))) = Len(z)
    BY <1>1
  <2>2. \A i \in 1 .. Len(z) : SubSeq(s, m, Len(s))[i] = z[i]
    <3> TAKE i \in 1 .. Len(z)
    <3>1. SubSeq(s, m, Len(s))[i] = s[m + i - 1]
      BY <1>1
    <3>2. s[m + i - 1] = z[i]
      OBVIOUS
    <3> QED BY <3>1, <3>2
  <2> HIDE DEF s, m
  <2> QED BY <2>1, <2>2, SeqEqual
<1> HIDE DEF s, k, m
<1>5. WithoutRun(s, x \o z)
  BY <1>2, <1>3, <1>4 DEF WithoutRun
<1> QED BY <1>5 DEF s
=============================================================================
