------------------------------ MODULE AppFacts ------------------------------
(***************************************************************************)
(* What the helpers of App return: filters of the roster, and the logs     *)
(* that are folded into a conversation, with what became of their lines.   *)
(***************************************************************************)
EXTENDS App, SeqFacts

\* Vec::retain keeps exactly the chosen elements and repeats none.
LEMMA KeepFacts ==
  ASSUME NEW T, NEW s \in Seq(T), NEW S
  PROVE  /\ Keep(s, S) \in Seq(T)
         /\ Range(Keep(s, S)) = Range(s) \cap S
         /\ IsInjective(s) => IsInjective(Keep(s, S))
<1> DEFINE ss == [i \in DOMAIN s |-> IF s[i] \in S THEN <<s[i]>> ELSE <<>>]
           n == Len(s)
           Upto(i) == {s[j] : j \in 1 .. i} \cap S
           Good == [i \in 1 .. n |->
                      {t \in Seq(T) : /\ Range(t) = Upto(i)
                                      /\ IsInjective(s) => IsInjective(t)}]
<1>1. n \in Nat /\ DOMAIN s = 1 .. n /\ \A i \in 1 .. n : s[i] \in T
  OBVIOUS
<1>2. ss \in Seq(Seq(T)) /\ Len(ss) = n
  <2>1. ss \in [1 .. n -> Seq(T)]
    BY <1>1
  <2> QED BY <1>1, <2>1
<1>3. \A i \in 1 .. n :
        /\ ss[i] \in Seq(T)
        /\ Range(ss[i]) = {s[i]} \cap S
        /\ IsInjective(ss[i])
  <2> TAKE i \in 1 .. n
  <2>1. CASE s[i] \in S
    <3>1. ss[i] = <<s[i]>>
      BY <1>1, <2>1
    <3> QED BY <1>1, <2>1, <3>1 DEF Range, IsInjective
  <2>2. CASE s[i] \notin S
    <3>1. ss[i] = <<>>
      BY <1>1, <2>2
    <3> QED BY <2>2, <3>1 DEF Range, IsInjective
  <2> QED BY <2>1, <2>2
<1>4. CASE n = 0
  <2>1. s = <<>> /\ ss = <<>>
    BY <1>1, <1>2, <1>4
  <2>2. Keep(s, S) = <<>>
    BY <2>1, <1>2, <1>4 DEF Keep, FlattenSeq
  <2>3. Range(<<>>) = {} /\ IsInjective(<<>>) /\ <<>> \in Seq(T)
    BY DEF Range, IsInjective
  <2>4. Range(s) = {}
    BY <2>1, <2>3
  <2> HIDE DEF ss, n
  <2> QED BY <2>2, <2>3, <2>4
<1>5. CASE n # 0
  <2>1. Good \in [1 .. Len(ss) -> SUBSET Seq(T)]
    BY <1>2
  <2>2. ss[1] \in Good[1]
    <3>1. 1 \in 1 .. n /\ 1 .. 1 = {1}
      BY <1>1, <1>5
    <3>2. Upto(1) = {s[1]} \cap S
      BY <3>1
    <3>3. ss[1] \in Seq(T) /\ Range(ss[1]) = {s[1]} \cap S /\ IsInjective(ss[1])
      BY <1>3, <3>1
    <3> HIDE DEF ss, Upto
    <3> QED BY <3>1, <3>2, <3>3
  <2>3. ASSUME NEW i \in 2 .. Len(ss), NEW t \in Good[i - 1]
        PROVE  t \o ss[i] \in Good[i]
    <3>1. i \in 1 .. n /\ i - 1 \in 1 .. n
      BY <1>1, <1>2
    <3>2. t \in Seq(T) /\ Range(t) = Upto(i - 1) /\ (IsInjective(s) => IsInjective(t))
      BY <3>1
    <3>3. ss[i] \in Seq(T) /\ Range(ss[i]) = {s[i]} \cap S /\ IsInjective(ss[i])
      BY <1>3, <3>1
    <3>4. 1 .. i = 1 .. (i - 1) \cup {i}
      BY <3>1
    <3>5. Upto(i) = Upto(i - 1) \cup ({s[i]} \cap S)
      BY <3>4
    <3>6. Range(t \o ss[i]) = Upto(i)
      <4> HIDE DEF ss, Upto
      <4> QED BY <3>2, <3>3, <3>5, RangeConcat
    <3>7. ASSUME IsInjective(s) PROVE IsInjective(t \o ss[i])
      <4>1. s[i] \notin Upto(i - 1)
        BY <1>1, <3>1, <3>7 DEF IsInjective
      <4>2. Range(t) \cap Range(ss[i]) = {}
        BY <3>2, <3>3, <4>1
      <4> HIDE DEF ss, Upto
      <4> QED BY <3>2, <3>3, <3>7, <4>2, InjectiveConcat
    <3>8. t \o ss[i] \in Seq(T)
      <4> HIDE DEF ss
      <4> QED BY <3>2, <3>3
    <3> HIDE DEF ss, Upto
    <3> QED BY <3>1, <3>6, <3>7, <3>8
  <2>4. FlattenSeq(ss) \in Good[n]
    <3> HIDE DEF ss, Good, n
    <3> QED BY <1>2, <1>5, <2>1, <2>2, <2>3, FlattenInvariant
  <2>5. Keep(s, S) = FlattenSeq(ss)
    BY DEF Keep
  <2>6. Upto(n) = Range(s) \cap S
    BY <1>1 DEF Range
  <2> HIDE DEF ss, Upto
  <2> QED BY <1>1, <1>5, <2>4, <2>5, <2>6
<1> QED BY <1>4, <1>5

\* The folded logs hold what is in each of them.
LEMMA HistoryType ==
  ASSUME NEW T, NEW U, NEW ps, NEW ord \in Seq(U), NEW stale,
         \A p \in stale : ps[p].log \in Seq(T)
  PROVE  History(ps, ord, stale) \in Seq(T)
<1> DEFINE dups == Keep(ord, stale)
           ss == [i \in DOMAIN dups |-> ps[dups[i]].log]
<1>1. dups \in Seq(U) /\ Range(dups) \subseteq stale
  BY KeepFacts
<1>2. ss \in Seq(Seq(T))
  <2> HIDE DEF dups
  <2>1. DOMAIN dups = 1 .. Len(dups) /\ Len(dups) \in Nat
    BY <1>1
  <2>2. \A i \in DOMAIN dups : ss[i] \in Seq(T)
    BY <1>1 DEF Range
  <2>3. ss \in [1 .. Len(dups) -> Seq(T)]
    BY <2>1, <2>2
  <2> QED BY <2>1, <2>3
<1>3. FlattenSeq(ss) \in Seq(T)
  <2> HIDE DEF ss
  <2> QED BY <1>2, FlattenType
<1> QED BY <1>3 DEF History

-----------------------------------------------------------------------------
(* The lines of a table of conversations.                                  *)

\* Every line in a conversation of ps.
LinesIn(ps) == UNION {Range(ps[p].log) : p \in DOMAIN ps}

\* No line is in ps twice.
Apart(ps) ==
  \A p \in DOMAIN ps :
    /\ IsInjective(ps[p].log)
    /\ \A q \in DOMAIN ps : p # q => Range(ps[p].log) \cap Range(ps[q].log) = {}

\* The folded logs hold what each of them held, and each line once.
LEMMA HistoryElements ==
  ASSUME NEW T, NEW U, NEW ps, NEW ord \in Seq(U), NEW stale,
         stale \subseteq Range(ord), stale \subseteq DOMAIN ps,
         \A p \in stale : ps[p].log \in Seq(T)
  PROVE  /\ \A x : x \in Range(History(ps, ord, stale))
                     <=> \E p \in stale : x \in Range(ps[p].log)
         /\ Apart(ps) /\ IsInjective(ord) => IsInjective(History(ps, ord, stale))
<1> DEFINE dups == Keep(ord, stale)
           ss == [i \in DOMAIN dups |-> ps[dups[i]].log]
<1>1. /\ dups \in Seq(U) /\ Range(dups) = Range(ord) \cap stale
      /\ IsInjective(ord) => IsInjective(dups)
  BY KeepFacts
<1>2. Range(dups) = stale /\ DOMAIN dups = 1 .. Len(dups) /\ Len(dups) \in Nat
  <2> HIDE DEF dups
  <2> QED BY <1>1
<1>3. ss \in Seq(Seq(T)) /\ DOMAIN ss = DOMAIN dups
  <2> HIDE DEF dups
  <2>1. \A i \in DOMAIN dups : ss[i] \in Seq(T)
    BY <1>2 DEF Range
  <2>2. ss \in [1 .. Len(dups) -> Seq(T)]
    BY <1>2, <2>1
  <2> QED BY <1>2, <2>2
<1> HIDE DEF dups
<1>4. \A i \in DOMAIN ss : dups[i] \in stale /\ ss[i] = ps[dups[i]].log
  BY <1>2, <1>3 DEF Range
<1>5. \A p \in stale : \E i \in DOMAIN ss : dups[i] = p
  BY <1>2, <1>3 DEF Range
<1>6. History(ps, ord, stale) = FlattenSeq(ss)
  BY DEF History, dups
<1> HIDE DEF ss
<1>7. /\ \A x : x \in Range(FlattenSeq(ss)) <=> \E i \in DOMAIN ss : x \in Range(ss[i])
      /\ Disjoint(ss) => IsInjective(FlattenSeq(ss))
  BY <1>3, FlattenElements
<1>8. Apart(ps) /\ IsInjective(ord) => Disjoint(ss)
  <2> SUFFICES ASSUME Apart(ps), IsInjective(dups), NEW i \in DOMAIN ss
               PROVE  /\ IsInjective(ss[i])
                      /\ \A j \in DOMAIN ss : i # j => Range(ss[i]) \cap Range(ss[j]) = {}
    BY <1>1 DEF Disjoint
  <2>1. IsInjective(ss[i])
    BY <1>4 DEF Apart
  <2>2. ASSUME NEW j \in DOMAIN ss, i # j PROVE Range(ss[i]) \cap Range(ss[j]) = {}
    <3>1. dups[i] # dups[j]
      BY <1>3, <2>2 DEF IsInjective
    <3> QED BY <1>4, <3>1 DEF Apart
  <2> QED BY <2>1, <2>2
<1> QED BY <1>4, <1>5, <1>6, <1>7, <1>8
=============================================================================
