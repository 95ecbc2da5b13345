---------------------------- MODULE FlattenFacts ----------------------------
(***************************************************************************)
(* What FlattenSeq of the community modules does, for every sequence of    *)
(* sequences: the files of a book and the parts of a package are put       *)
(* together with it.  It is defined by recursion over the length.          *)
(***************************************************************************)
EXTENDS Integers, SequencesExt, SequenceTheorems, WellFoundedInduction, TLAPS

(* Induction for a set of numbers. *)
LEMMA InductionInSet ==
  ASSUME NEW T, 0 \in T, \A n \in Nat : n \in T => n + 1 \in T
  PROVE  \A n \in Nat : n \in T
<1> DEFINE Less == {p \in Nat \X Nat : p[1] < p[2]}
           Bad == {n \in Nat : n \notin T}
<1>1. IsWellFoundedOn(Less, Nat)
  BY NatLessThanWellFounded DEF OpToRel
<1>2. SUFFICES ASSUME Bad # {}
               PROVE  FALSE
  OBVIOUS
<1>3. PICK m \in Bad : \A n \in Bad : ~(<<n, m>> \in Less)
  <2> HIDE DEF Less
  <2> QED BY <1>1, <1>2, WFMin
<1>4. m # 0 /\ m \in Nat /\ m - 1 \in Nat
  OBVIOUS
<1>5. m - 1 \in Bad
  BY <1>4
<1>6. <<m - 1, m>> \in Less
  BY <1>4
<1> QED BY <1>3, <1>5, <1>6
-----------------------------------------------------------------------------
(* F is the concatenation of what comes first in ss, by its length. *)
Flattens(F, ss, n) ==
    F = [i \in 1..n |-> IF i = 1 THEN ss[i] ELSE F[i - 1] \o ss[i]]

LEMMA FlattensExists ==
  ASSUME NEW S, NEW ss \in Seq(Seq(S)), NEW m \in 1..Len(ss)
  PROVE  \E F \in [1..m -> Seq(S)] : Flattens(F, ss, m)
<1> DEFINE T == {n \in Nat : n \in 1..Len(ss) => \E F \in [1..n -> Seq(S)] : Flattens(F, ss, n)}
<1>1. 0 \in T
  OBVIOUS
<1>2. ASSUME NEW n \in Nat, n \in T
      PROVE  n + 1 \in T
  <2>1. SUFFICES ASSUME n + 1 \in 1..Len(ss)
                 PROVE  \E F \in [1..(n + 1) -> Seq(S)] : Flattens(F, ss, n + 1)
    OBVIOUS
  <2>2. ss[n + 1] \in Seq(S)
    BY <2>1, ElementOfSeq
  <2>3. CASE n = 0
    <3>1. [i \in 1..1 |-> ss[1]] \in [1..1 -> Seq(S)]
      BY <2>2, <2>3
    <3>2. Flattens([i \in 1..1 |-> ss[1]], ss, 1)
      BY DEF Flattens
    <3> QED BY <2>3, <3>1, <3>2
  <2>4. CASE n # 0
    <3>1. PICK F \in [1..n -> Seq(S)] : Flattens(F, ss, n)
      BY <1>2, <2>1, <2>4
    <3> DEFINE G == [i \in 1..(n + 1) |-> IF i = n + 1 THEN F[n] \o ss[n + 1] ELSE F[i]]
    <3>2. F[n] \o ss[n + 1] \in Seq(S)
      BY <2>2, <2>4, ConcatProperties
    <3>3. G \in [1..(n + 1) -> Seq(S)]
      BY <3>2
    <3>6. \A i \in 1..(n + 1) : G[i] = IF i = n + 1 THEN F[n] \o ss[n + 1] ELSE F[i]
      OBVIOUS
    <3> HIDE DEF G
    <3>4. \A i \in 1..(n + 1) : G[i] = IF i = 1 THEN ss[i] ELSE G[i - 1] \o ss[i]
      <4> TAKE i \in 1..(n + 1)
      <4>1. CASE i = n + 1
        <5>1. i - 1 = n /\ n \in 1..(n + 1) /\ n # n + 1
          BY <2>4, <4>1
        <5> QED BY <2>4, <3>6, <4>1, <5>1
      <4>2. CASE i # n + 1
        <5>1. i \in 1..n /\ (i # 1 => i - 1 \in 1..n)
          BY <4>2
        <5>2. F[i] = IF i = 1 THEN ss[i] ELSE F[i - 1] \o ss[i]
          BY <3>1, <5>1 DEF Flattens
        <5>3. G[i] = F[i] /\ (i # 1 => G[i - 1] = F[i - 1])
          <6>1. i # n + 1 /\ (i # 1 => i - 1 \in 1..(n + 1) /\ i - 1 # n + 1)
            BY <5>1
          <6> QED BY <3>6, <6>1
        <5> QED BY <5>2, <5>3
      <4> QED BY <4>1, <4>2
    <3>5. Flattens(G, ss, n + 1)
      BY <3>3, <3>4 DEF Flattens
    <3> QED BY <3>3, <3>5
  <2> QED BY <2>3, <2>4
<1>3. \A n \in Nat : n \in T
  <2> HIDE DEF T
  <2> QED BY <1>1, <1>2, InductionInSet
<1> QED BY <1>3

LEMMA FlattensUnique ==
  ASSUME NEW ss, NEW m \in Nat, NEW n \in Nat, m <= n, NEW F, NEW G,
         Flattens(F, ss, m), Flattens(G, ss, n)
  PROVE  \A i \in 1..m : F[i] = G[i]
<1> DEFINE T == {i \in Nat : i \in 1..m => F[i] = G[i]}
<1>1. 0 \in T
  OBVIOUS
<1>2. ASSUME NEW i \in Nat, i \in T
      PROVE  i + 1 \in T
  <2>1. SUFFICES ASSUME i + 1 \in 1..m
                 PROVE  F[i + 1] = G[i + 1]
    OBVIOUS
  <2>2. F[i + 1] = IF i + 1 = 1 THEN ss[i + 1] ELSE F[i] \o ss[i + 1]
    <3>1. \A j \in 1..m : F[j] = IF j = 1 THEN ss[j] ELSE F[j - 1] \o ss[j]
      BY DEF Flattens
    <3>2. i + 1 \in 1..m /\ (i + 1) - 1 = i
      BY <2>1
    <3> QED BY <3>1, <3>2
  <2>3. G[i + 1] = IF i + 1 = 1 THEN ss[i + 1] ELSE G[i] \o ss[i + 1]
    <3>1. \A j \in 1..n : G[j] = IF j = 1 THEN ss[j] ELSE G[j - 1] \o ss[j]
      BY DEF Flattens
    <3>2. i + 1 \in 1..n /\ (i + 1) - 1 = i
      BY <2>1
    <3> QED BY <3>1, <3>2
  <2>4. i # 0 => F[i] = G[i]
    BY <1>2, <2>1
  <2> QED BY <2>2, <2>3, <2>4
<1>3. \A i \in Nat : i \in T
  <2> HIDE DEF T
  <2> QED BY <1>1, <1>2, InductionInSet
<1> QED BY <1>3

LEMMA FlattenIsLast ==
  ASSUME NEW S, NEW ss \in Seq(Seq(S)), ss # <<>>,
         NEW F \in [1..Len(ss) -> Seq(S)], Flattens(F, ss, Len(ss))
  PROVE  FlattenSeq(ss) = F[Len(ss)]
<1> DEFINE C == CHOOSE G : G = [i \in 1..Len(ss) |-> IF i = 1 THEN ss[i] ELSE G[i - 1] \o ss[i]]
<1>1. Len(ss) \in Nat /\ Len(ss) # 0
  BY EmptySeq
<1>2. FlattenSeq(ss) = C[Len(ss)]
  BY <1>1 DEF FlattenSeq
<1>3. Flattens(C, ss, Len(ss))
  BY DEF Flattens
<1>4. C[Len(ss)] = F[Len(ss)]
  <2> HIDE DEF C
  <2> QED BY <1>1, <1>3, FlattensUnique
<1> QED BY <1>2, <1>4
-----------------------------------------------------------------------------
LEMMA ConcatHas ==
  ASSUME NEW S, NEW s \in Seq(S), NEW t \in Seq(S)
  PROVE  ToSet(s \o t) = ToSet(s) \union ToSet(t)
<1>1. /\ s \o t \in Seq(S) /\ Len(s \o t) = Len(s) + Len(t)
      /\ \A i \in 1..(Len(s) + Len(t)) : (s \o t)[i] = IF i <= Len(s) THEN s[i] ELSE t[i - Len(s)]
  BY ConcatProperties
<1>2. ASSUME NEW x \in ToSet(s \o t)
      PROVE  x \in ToSet(s) \union ToSet(t)
  <2>1. PICK i \in 1..(Len(s) + Len(t)) : x = (s \o t)[i]
    BY <1>1 DEF ToSet
  <2>2. CASE i <= Len(s)
    BY <1>1, <2>1, <2>2 DEF ToSet
  <2>3. CASE i > Len(s)
    <3>1. i - Len(s) \in DOMAIN t
      BY <2>3
    <3>2. x = t[i - Len(s)]
      BY <1>1, <2>1, <2>3
    <3> QED BY <3>1, <3>2 DEF ToSet
  <2> QED BY <2>2, <2>3
<1>3. ASSUME NEW x \in ToSet(s)
      PROVE  x \in ToSet(s \o t)
  <2>1. PICK i \in 1..Len(s) : x = s[i]
    BY DEF ToSet
  <2>2. i \in 1..(Len(s) + Len(t)) /\ (s \o t)[i] = x
    BY <1>1, <2>1
  <2> QED BY <1>1, <2>2 DEF ToSet
<1>4. ASSUME NEW x \in ToSet(t)
      PROVE  x \in ToSet(s \o t)
  <2>1. PICK i \in 1..Len(t) : x = t[i]
    BY DEF ToSet
  <2>2. /\ i + Len(s) \in 1..(Len(s) + Len(t)) /\ ~(i + Len(s) <= Len(s))
        /\ (i + Len(s)) - Len(s) = i
    OBVIOUS
  <2>3. (s \o t)[i + Len(s)] = x
    BY <1>1, <2>1, <2>2
  <2> QED BY <1>1, <2>2, <2>3 DEF ToSet
<1> QED BY <1>2, <1>3, <1>4

-----------------------------------------------------------------------------
LEMMA FlattenEmpty == FlattenSeq(<<>>) = <<>>
BY DEF FlattenSeq

(* One more sequence goes behind what was put together. *)
LEMMA FlattenAppend ==
  ASSUME NEW S, NEW ss \in Seq(Seq(S)), NEW s \in Seq(S)
  PROVE  FlattenSeq(Append(ss, s)) = FlattenSeq(ss) \o s
<1> DEFINE tt == Append(ss, s)
<1>1. /\ tt \in Seq(Seq(S)) /\ tt # <<>> /\ Len(tt) = Len(ss) + 1
      /\ tt[Len(ss) + 1] = s
      /\ \A i \in 1..Len(ss) : tt[i] = ss[i]
  BY AppendProperties
<1>2. Len(ss) \in Nat
  OBVIOUS
<1> HIDE DEF tt
<1>3. PICK F \in [1..Len(tt) -> Seq(S)] : Flattens(F, tt, Len(tt))
  <2>1. Len(tt) \in 1..Len(tt)
    BY <1>1, <1>2
  <2> QED BY <1>1, <2>1, FlattensExists
<1>4. FlattenSeq(tt) = F[Len(tt)]
  BY <1>1, <1>3, FlattenIsLast
<1>5. \A i \in 1..(Len(ss) + 1) : F[i] = IF i = 1 THEN tt[i] ELSE F[i - 1] \o tt[i]
  BY <1>1, <1>3 DEF Flattens
<1>6. CASE ss = <<>>
  <2>1. Len(ss) = 0 /\ FlattenSeq(ss) = <<>>
    BY <1>6, FlattenEmpty
  <2>2. F[1] = s
    BY <1>1, <1>5, <2>1
  <2>3. <<>> \o s = s
    BY ConcatEmptySeq
  <2> QED BY <1>1, <1>4, <2>1, <2>2, <2>3 DEF tt
<1>7. CASE ss # <<>>
  <2>1. Len(ss) # 0 /\ Len(ss) \in 1..Len(ss)
    BY <1>2, <1>7, EmptySeq
  <2>2. PICK G \in [1..Len(ss) -> Seq(S)] : Flattens(G, ss, Len(ss))
    BY <2>1, FlattensExists
  <2>3. FlattenSeq(ss) = G[Len(ss)]
    BY <1>7, <2>2, FlattenIsLast
  <2> DEFINE H == [i \in 1..Len(ss) |-> F[i]]
  <2>4. \A i \in 1..Len(ss) : F[i] = IF i = 1 THEN ss[i] ELSE F[i - 1] \o ss[i]
    <3> TAKE i \in 1..Len(ss)
    <3>1. i \in 1..(Len(ss) + 1) /\ tt[i] = ss[i]
      BY <1>1, <1>2
    <3> QED BY <1>5, <3>1
  <2>5. \A i \in 1..Len(ss) : H[i] = F[i] /\ (i # 1 => H[i - 1] = F[i - 1])
    BY <1>2
  <2>6. Flattens(H, ss, Len(ss))
    <3>1. H = [i \in 1..Len(ss) |-> H[i]]
      OBVIOUS
    <3>2. \A i \in 1..Len(ss) : H[i] = IF i = 1 THEN ss[i] ELSE H[i - 1] \o ss[i]
      BY <2>4, <2>5
    <3> HIDE DEF H
    <3> QED BY <3>1, <3>2 DEF Flattens
  <2>7. H[Len(ss)] = G[Len(ss)]
    <3> HIDE DEF H
    <3> QED BY <1>2, <2>1, <2>2, <2>6, FlattensUnique
  <2>8. F[Len(ss)] = FlattenSeq(ss)
    BY <2>1, <2>3, <2>5, <2>7
  <2>9. F[Len(ss) + 1] = F[Len(ss)] \o s
    <3>1. Len(ss) + 1 \in 1..(Len(ss) + 1) /\ Len(ss) + 1 # 1 /\ (Len(ss) + 1) - 1 = Len(ss)
      BY <1>2, <2>1
    <3> QED BY <1>1, <1>5, <3>1
  <2> QED BY <1>1, <1>4, <2>8, <2>9 DEF tt
<1> QED BY <1>6, <1>7

(* Every sequence is built by Append: induction over sequences, for sets.  *)
LEMMA SequenceInSet ==
  ASSUME NEW S, NEW T, <<>> \in T,
         \A s \in Seq(S), x \in S : s \in T => Append(s, x) \in T
  PROVE  \A s \in Seq(S) : s \in T
<1> DEFINE N == {n \in Nat : \A s \in Seq(S) : Len(s) = n => s \in T}
<1>1. 0 \in N
  BY EmptySeq
<1>2. ASSUME NEW n \in Nat, n \in N
      PROVE  n + 1 \in N
  <2>1. SUFFICES ASSUME NEW s \in Seq(S), Len(s) = n + 1
                 PROVE  s \in T
    OBVIOUS
  <2>2. s # <<>>
    BY <2>1
  <2>3. PICK t \in Seq(S), x \in S : s = Append(t, x)
    BY <2>2, SequenceEmptyOrAppend
  <2>4. Len(t) = n
    BY <2>1, <2>3
  <2> QED BY <1>2, <2>3, <2>4
<1>3. \A n \in Nat : n \in N
  <2> HIDE DEF N
  <2> QED BY <1>1, <1>2, InductionInSet
<1> QED BY <1>3

LEMMA FlattenType ==
  ASSUME NEW S, NEW ss \in Seq(Seq(S))
  PROVE  FlattenSeq(ss) \in Seq(S)
<1> DEFINE T == {tt \in Seq(Seq(S)) : FlattenSeq(tt) \in Seq(S)}
<1>1. <<>> \in T
  BY FlattenEmpty, EmptySeq
<1>2. ASSUME NEW tt \in Seq(Seq(S)), NEW s \in Seq(S), tt \in T
      PROVE  Append(tt, s) \in T
  <2>1. FlattenSeq(Append(tt, s)) = FlattenSeq(tt) \o s
    BY FlattenAppend
  <2>2. FlattenSeq(tt) \in Seq(S)
    BY <1>2
  <2>3. FlattenSeq(tt) \o s \in Seq(S)
    BY <2>2, ConcatProperties
  <2> QED BY <2>1, <2>3, AppendProperties
<1>3. \A tt \in Seq(Seq(S)) : tt \in T
  <2> HIDE DEF T
  <2> QED BY <1>1, <1>2, SequenceInSet
<1> QED BY <1>3

LEMMA FlattenConcat ==
  ASSUME NEW S, NEW ss \in Seq(Seq(S)), NEW tt \in Seq(Seq(S))
  PROVE  FlattenSeq(ss \o tt) = FlattenSeq(ss) \o FlattenSeq(tt)
<1> DEFINE T == {uu \in Seq(Seq(S)) : FlattenSeq(ss \o uu) = FlattenSeq(ss) \o FlattenSeq(uu)}
<1>1. <<>> \in T
  <2>1. ss \o <<>> = ss
    BY ConcatEmptySeq
  <2>2. FlattenSeq(ss) \in Seq(S)
    BY FlattenType
  <2>3. FlattenSeq(ss) \o <<>> = FlattenSeq(ss)
    BY <2>2, ConcatEmptySeq
  <2> QED BY <2>1, <2>3, FlattenEmpty, EmptySeq
<1>2. ASSUME NEW uu \in Seq(Seq(S)), NEW s \in Seq(S), uu \in T
      PROVE  Append(uu, s) \in T
  <2>1. ss \o Append(uu, s) = Append(ss \o uu, s)
    <3>1. Append(uu, s) = uu \o <<s>> /\ <<s>> \in Seq(Seq(S))
      BY AppendIsConcat
    <3>2. ss \o uu \in Seq(Seq(S))
      BY ConcatProperties
    <3>3. Append(ss \o uu, s) = (ss \o uu) \o <<s>>
      BY <3>2, AppendIsConcat
    <3> QED BY <3>1, <3>3, ConcatAssociative
  <2>2. ss \o uu \in Seq(Seq(S))
    BY ConcatProperties
  <2>3. FlattenSeq(Append(ss \o uu, s)) = FlattenSeq(ss \o uu) \o s
    BY <2>2, FlattenAppend
  <2>4. FlattenSeq(Append(uu, s)) = FlattenSeq(uu) \o s
    BY FlattenAppend
  <2>5. FlattenSeq(ss) \in Seq(S) /\ FlattenSeq(uu) \in Seq(S)
    BY FlattenType
  <2>6. (FlattenSeq(ss) \o FlattenSeq(uu)) \o s = FlattenSeq(ss) \o (FlattenSeq(uu) \o s)
    BY <2>5, ConcatAssociative
  <2>7. FlattenSeq(ss \o uu) = FlattenSeq(ss) \o FlattenSeq(uu)
    BY <1>2
  <2>8. Append(uu, s) \in Seq(Seq(S))
    BY AppendProperties
  <2> QED BY <2>1, <2>3, <2>4, <2>6, <2>7, <2>8
<1>3. \A uu \in Seq(Seq(S)) : uu \in T
  <2> HIDE DEF T
  <2> QED BY <1>1, <1>2, SequenceInSet
<1> QED BY <1>3

(* What is in the whole is what is in the parts. *)
LEMMA FlattenHas ==
  ASSUME NEW S, NEW ss \in Seq(Seq(S))
  PROVE  ToSet(FlattenSeq(ss)) = UNION {ToSet(ss[i]) : i \in DOMAIN ss}
<1> DEFINE T == {tt \in Seq(Seq(S)) : ToSet(FlattenSeq(tt)) = UNION {ToSet(tt[i]) : i \in DOMAIN tt}}
<1>1. <<>> \in T
  <2>1. <<>> \in Seq(Seq(S)) /\ DOMAIN <<>> = {}
    BY EmptySeq
  <2> QED BY <2>1, FlattenEmpty DEF ToSet
<1>2. ASSUME NEW tt \in Seq(Seq(S)), NEW s \in Seq(S), tt \in T
      PROVE  Append(tt, s) \in T
  <2>1. FlattenSeq(Append(tt, s)) = FlattenSeq(tt) \o s
    BY FlattenAppend
  <2>2. FlattenSeq(tt) \in Seq(S)
    BY FlattenType
  <2>3. ToSet(FlattenSeq(tt) \o s) = ToSet(FlattenSeq(tt)) \union ToSet(s)
    BY <2>2, ConcatHas
  <2>4. UNION {ToSet(Append(tt, s)[i]) : i \in DOMAIN Append(tt, s)}
          = (UNION {ToSet(tt[i]) : i \in DOMAIN tt}) \union ToSet(s)
    <3>1. DOMAIN Append(tt, s) = DOMAIN tt \union {Len(tt) + 1}
      OBVIOUS
    <3>2. \A i \in DOMAIN tt : Append(tt, s)[i] = tt[i]
      OBVIOUS
    <3>3. Append(tt, s)[Len(tt) + 1] = s
      OBVIOUS
    <3> HIDE DEF T
    <3> QED BY <3>1, <3>2, <3>3, Zenon
  <2>5. Append(tt, s) \in Seq(Seq(S))
    BY AppendProperties
  <2> QED BY <1>2, <2>1, <2>3, <2>4, <2>5
<1>3. \A tt \in Seq(Seq(S)) : tt \in T
  <2> HIDE DEF T
  <2> QED BY <1>1, <1>2, SequenceInSet
<1> QED BY <1>3

LEMMA PairIsConcat ==
  ASSUME NEW S, NEW x \in S, NEW y \in S
  PROVE  /\ <<x>> \o <<y>> = <<x, y>>
         /\ ToSet(<<x, y>>) = {x, y}
<1>1. <<x>> \in Seq(S) /\ <<y>> \in Seq(S) /\ <<x, y>> \in Seq(S)
  OBVIOUS
<1>2. /\ <<x>> \o <<y>> \in Seq(S) /\ Len(<<x>> \o <<y>>) = 2
      /\ (<<x>> \o <<y>>)[1] = x /\ (<<x>> \o <<y>>)[2] = y
  BY <1>1, ConcatProperties
<1>3. <<x>> \o <<y>> = <<x, y>>
  <2>1. \A i \in 1..2 : (<<x>> \o <<y>>)[i] = <<x, y>>[i]
    BY <1>2
  <2>2. Len(<<x, y>>) = 2
    OBVIOUS
  <2> QED BY <1>1, <1>2, <2>1, <2>2, SeqEqual
<1>4. ToSet(<<x, y>>) = {x, y}
  BY DEF ToSet
<1> QED BY <1>3, <1>4

LEMMA Associates ==
  ASSUME NEW S, NEW s \in Seq(S), NEW t \in Seq(S), NEW u \in Seq(S)
  PROVE  (s \o t) \o u = s \o (t \o u)
BY ConcatAssociative

(* What is equal stays equal when more is put before it. *)
Rebrackets(s, t, u, v, w) == t \o u = v \o w => (s \o t) \o u = (s \o v) \o w

LEMMA SameInMiddle ==
  ASSUME NEW S, NEW s \in Seq(S), NEW t \in Seq(S), NEW u \in Seq(S),
         NEW v \in Seq(S), NEW w \in Seq(S)
  PROVE  Rebrackets(s, t, u, v, w)
<1>1. (s \o t) \o u = s \o (t \o u)
  BY SMTT(60), Associates
<1>2. (s \o v) \o w = s \o (v \o w)
  BY SMTT(60), Associates
<1> DEFINE x == t \o u
           y == v \o w
<1>3. (s \o t) \o u = s \o x /\ (s \o v) \o w = s \o y
  BY <1>1, <1>2
<1>4. x = y => s \o x = s \o y
  OBVIOUS
<1> HIDE DEF x, y
<1>5. x = y => (s \o t) \o u = (s \o v) \o w
  BY <1>3, <1>4
<1> QED BY <1>5 DEF x, y, Rebrackets

LEMMA FunctionIsSeq ==
  ASSUME NEW T, NEW n \in Nat, NEW s \in [1..n -> T]
  PROVE  s \in Seq(T) /\ Len(s) = n
<1>1. s \in Seq(T)
  BY SeqDef
<1> QED BY <1>1, LenProperties

LEMMA SingleIsSeq ==
  ASSUME NEW T, NEW x \in T
  PROVE  <<x>> \in Seq(T) /\ Len(<<x>>) = 1 /\ <<x>>[1] = x /\ ToSet(<<x>>) = {x}
<1>1. <<x>> \in Seq(T) /\ Len(<<x>>) = 1 /\ <<x>>[1] = x
  OBVIOUS
<1>2. DOMAIN <<x>> = {1}
  OBVIOUS
<1> QED BY <1>1, <1>2 DEF ToSet

(* What is in a sequence that grew at its end or at its beginning. *)
LEMMA AppendHas ==
  ASSUME NEW S, NEW s \in Seq(S), NEW x \in S
  PROVE  /\ Append(s, x) \in Seq(S) /\ ToSet(Append(s, x)) = ToSet(s) \union {x}
         /\ Len(Append(s, x)) = Len(s) + 1 /\ Append(s, x)[Len(s) + 1] = x
         /\ \A i \in 1..Len(s) : Append(s, x)[i] = s[i]
<1> DEFINE t == Append(s, x)
<1>1. /\ t \in Seq(S) /\ Len(t) = Len(s) + 1 /\ t[Len(s) + 1] = x
      /\ \A i \in 1..Len(s) : t[i] = s[i]
  BY AppendProperties
<1> HIDE DEF t
<1>2. /\ Len(s) \in Nat /\ DOMAIN s = 1..Len(s) /\ DOMAIN t = 1..(Len(s) + 1)
  BY <1>1, LenProperties
<1>3. 1..(Len(s) + 1) = (1..Len(s)) \union {Len(s) + 1}
  BY <1>2
<1>4. ToSet(t) = ToSet(s) \union {x}
  <2>1. \A y : y \in ToSet(t) <=> \E i \in 1..(Len(s) + 1) : y = t[i]
    BY <1>2 DEF ToSet
  <2>2. \A y : y \in ToSet(s) <=> \E i \in 1..Len(s) : y = s[i]
    BY <1>2 DEF ToSet
  <2>3. \A y : y \in ToSet(t) <=> y \in ToSet(s) \/ y = x
    BY <1>1, <1>3, <2>1, <2>2
  <2> QED BY <2>3
<1> QED BY <1>1, <1>4 DEF t

LEMMA PrependHas ==
  ASSUME NEW S, NEW s \in Seq(S), NEW x \in S
  PROVE  /\ <<x>> \o s \in Seq(S) /\ ToSet(<<x>> \o s) = {x} \union ToSet(s)
         /\ Len(<<x>> \o s) = Len(s) + 1 /\ (<<x>> \o s)[1] = x
         /\ \A i \in 1..Len(s) : (<<x>> \o s)[i + 1] = s[i]
<1> DEFINE one == <<x>>
<1>1. one \in Seq(S) /\ Len(one) = 1 /\ one[1] = x /\ ToSet(one) = {x}
  BY SingleIsSeq
<1> HIDE DEF one
<1>2. /\ one \o s \in Seq(S) /\ Len(one \o s) = Len(one) + Len(s)
      /\ \A i \in 1..(Len(one) + Len(s)) :
           (one \o s)[i] = IF i <= Len(one) THEN one[i] ELSE s[i - Len(one)]
  BY <1>1, ConcatProperties
<1>3. ToSet(one \o s) = ToSet(one) \union ToSet(s)
  BY <1>1, ConcatHas
<1>4. Len(s) \in Nat
  BY LenProperties
<1>5. (one \o s)[1] = x /\ \A i \in 1..Len(s) : (one \o s)[i + 1] = s[i]
  <2>1. (one \o s)[1] = x
    BY <1>1, <1>2, <1>4
  <2>2. ASSUME NEW i \in 1..Len(s)
        PROVE  (one \o s)[i + 1] = s[i]
    <3>1. i + 1 \in 1..(Len(one) + Len(s)) /\ ~(i + 1 <= Len(one)) /\ i + 1 - Len(one) = i
      BY <1>1, <1>4
    <3> QED BY <1>2, <3>1
  <2> QED BY <2>1, <2>2
<1> QED BY <1>1, <1>2, <1>3, <1>4, <1>5 DEF one

LEMMA LeastIsLeast ==
  ASSUME NEW I \in SUBSET Nat, I # {}
  PROVE  Min(I) \in I /\ \A i \in I : Min(I) <= i
<1> DEFINE Less == {p \in Nat \X Nat : p[1] < p[2]}
<1>1. IsWellFoundedOn(Less, Nat)
  BY NatLessThanWellFounded DEF OpToRel
<1>2. PICK x \in I : \A y \in I : ~(<<y, x>> \in Less)
  <2> HIDE DEF Less
  <2> QED BY <1>1, WFMin
<1>3. \A y \in I : x <= y
  <2> TAKE y \in I
  <2>1. x \in Nat /\ y \in Nat /\ ~(y < x)
    BY <1>2
  <2> QED BY <2>1
<1> QED BY <1>3 DEF Min

-----------------------------------------------------------------------------
(* The elements of s at some places, in their order. *)
Picked(s, at) == FlattenSeq([i \in DOMAIN s |-> IF i \in at THEN <<s[i]>> ELSE <<>>])

(* f has the places of o in s. *)
Picks(s, at, o, f) ==
    /\ f \in [1..Len(o) -> 1..Len(s)]
    /\ \A k \in 1..Len(o) : f[k] \in at /\ o[k] = s[f[k]]
    /\ \A j, k \in 1..Len(o) : j < k => f[j] < f[k]
    /\ \A i \in 1..Len(s) : i \in at => \E k \in 1..Len(o) : f[k] = i

LEMMA PickedAppend ==
  ASSUME NEW S, NEW s \in Seq(S), NEW x \in S, NEW at
  PROVE  /\ Picked(s, at) \in Seq(S)
         /\ Picked(Append(s, x), at) = IF Len(s) + 1 \in at THEN Append(Picked(s, at), x)
                                     ELSE Picked(s, at)
<1> DEFINE t == Append(s, x)
           pp == [i \in DOMAIN s |-> IF i \in at THEN <<s[i]>> ELSE <<>>]
           qq == [i \in DOMAIN t |-> IF i \in at THEN <<t[i]>> ELSE <<>>]
           q == IF Len(s) + 1 \in at THEN <<x>> ELSE <<>>
<1>1. /\ t \in Seq(S) /\ Len(t) = Len(s) + 1 /\ t[Len(s) + 1] = x
      /\ \A i \in 1..Len(s) : t[i] = s[i]
  BY AppendProperties
<1>2. Len(s) \in Nat /\ DOMAIN s = 1..Len(s)
  OBVIOUS
<1>3. q \in Seq(S)
  OBVIOUS
<1>4. pp \in [1..Len(s) -> Seq(S)]
  <2>1. \A i \in 1..Len(s) : s[i] \in S
    BY ElementOfSeq
  <2> QED BY <1>2, <2>1
<1>5. pp \in Seq(Seq(S)) /\ Len(pp) = Len(s)
  <2> HIDE DEF pp
  <2>1. pp \in Seq(Seq(S))
    BY <1>2, <1>4, SeqDef
  <2> QED BY <1>2, <1>4, <2>1, LenProperties
<1>6. qq = Append(pp, q)
  <2>1. DOMAIN qq = 1..(Len(s) + 1)
    <3> HIDE DEF t
    <3> QED BY <1>1, LenProperties
  <2>2. /\ Append(pp, q) \in Seq(Seq(S)) /\ Len(Append(pp, q)) = Len(s) + 1
        /\ Append(pp, q)[Len(s) + 1] = q
        /\ \A i \in 1..Len(s) : Append(pp, q)[i] = pp[i]
    <3> HIDE DEF pp, q
    <3> QED BY <1>3, <1>5, AppendProperties
  <2>3. \A i \in 1..Len(s) : qq[i] = pp[i]
    <3> HIDE DEF t
    <3> QED BY <1>1, <1>2, <2>1
  <2>4. qq[Len(s) + 1] = q
    <3> HIDE DEF t
    <3> QED BY <1>1, <1>2, <2>1
  <2>5. Append(pp, q) = [i \in 1..(Len(s) + 1) |-> Append(pp, q)[i]]
    <3> DEFINE app == Append(pp, q)
    <3>1. app \in Seq(Seq(S)) /\ Len(app) = Len(s) + 1
      BY <2>2
    <3> HIDE DEF app
    <3>2. app \in [1..(Len(s) + 1) -> Seq(S)]
      BY <3>1, LenProperties
    <3>3. app = [i \in 1..(Len(s) + 1) |-> app[i]]
      BY <3>2
    <3> QED BY <3>3 DEF app
  <2>6. qq = [i \in 1..(Len(s) + 1) |-> qq[i]]
    BY <2>1
  <2> HIDE DEF pp, q, qq
  <2>7. \A i \in 1..(Len(s) + 1) : qq[i] = Append(pp, q)[i]
    BY <1>2, <2>2, <2>3, <2>4
  <2> QED BY <2>5, <2>6, <2>7
<1>7. Picked(s, at) = FlattenSeq(pp) /\ Picked(t, at) = FlattenSeq(qq)
  BY DEF Picked
<1>8. FlattenSeq(pp) \in Seq(S) /\ FlattenSeq(qq) = FlattenSeq(pp) \o q
  <2> HIDE DEF pp, q, qq
  <2> QED BY <1>3, <1>5, <1>6, FlattenAppend, FlattenType
<1>9. FlattenSeq(pp) \o q = IF Len(s) + 1 \in at THEN Append(FlattenSeq(pp), x) ELSE FlattenSeq(pp)
  <2> HIDE DEF pp
  <2>1. Append(FlattenSeq(pp), x) = FlattenSeq(pp) \o <<x>>
    BY <1>8, AppendIsConcat
  <2>2. FlattenSeq(pp) \o <<>> = FlattenSeq(pp)
    BY <1>8, ConcatEmptySeq
  <2> QED BY <2>1, <2>2
<1> QED BY <1>7, <1>8, <1>9

LEMMA PicksAppend ==
  ASSUME NEW S, NEW s \in Seq(S), NEW x \in S, NEW at, NEW o \in Seq(S), NEW f,
         Picks(s, at, o, f)
  PROVE  \E g : Picks(Append(s, x), at, IF Len(s) + 1 \in at THEN Append(o, x) ELSE o, g)
<1> DEFINE t == Append(s, x)
           m == Len(o)
<1>1. /\ Len(t) = Len(s) + 1 /\ t[Len(s) + 1] = x
      /\ \A i \in 1..Len(s) : t[i] = s[i]
  BY AppendProperties
<1>2. Len(s) \in Nat /\ m \in Nat
  OBVIOUS
<1>3. /\ f \in [1..m -> 1..Len(s)]
      /\ \A k \in 1..m : f[k] \in at /\ o[k] = s[f[k]] /\ f[k] \in 1..Len(s)
      /\ \A j, k \in 1..m : j < k => f[j] < f[k]
      /\ \A i \in 1..Len(s) : i \in at => \E k \in 1..m : f[k] = i
  BY DEF Picks
<1>4. CASE Len(s) + 1 \in at
  <2> DEFINE p == Append(o, x)
             g == [k \in 1..(m + 1) |-> IF k = m + 1 THEN Len(s) + 1 ELSE f[k]]
  <2>1. Len(p) = m + 1 /\ p[m + 1] = x /\ \A k \in 1..m : p[k] = o[k]
    BY AppendProperties
  <2>2. /\ g[m + 1] = Len(s) + 1 /\ \A k \in 1..m : g[k] = f[k]
        /\ \A k \in 1..(m + 1) : g[k] \in 1..Len(t)
        /\ g \in [1..(m + 1) -> 1..Len(t)]
    <3> HIDE DEF t
    <3>1. g[m + 1] = Len(s) + 1 /\ \A k \in 1..m : g[k] = f[k]
      BY <1>2
    <3>2. \A k \in 1..(m + 1) : g[k] \in 1..Len(t)
      BY <1>1, <1>2, <1>3
    <3> QED BY <3>1, <3>2
  <2> HIDE DEF p, g, t, m
  <2>3. \A k \in 1..(m + 1) : g[k] \in at /\ p[k] = t[g[k]]
    <3> TAKE k \in 1..(m + 1)
    <3>1. CASE k = m + 1
      BY <1>1, <1>4, <2>1, <2>2, <3>1
    <3>2. CASE k \in 1..m
      <4>1. f[k] \in 1..Len(s) /\ f[k] \in at /\ o[k] = s[f[k]]
        BY <1>3, <3>2
      <4>2. g[k] = f[k] /\ p[k] = o[k] /\ t[f[k]] = s[f[k]]
        BY <1>1, <2>1, <2>2, <3>2, <4>1
      <4> QED BY <4>1, <4>2
    <3> QED BY <1>2, <3>1, <3>2
  <2>4. \A j, k \in 1..(m + 1) : j < k => g[j] < g[k]
    <3> TAKE j, k \in 1..(m + 1)
    <3>1. CASE k \in 1..m /\ j < k
      <4>1. j \in 1..m
        BY <1>2, <3>1
      <4>2. g[j] = f[j] /\ g[k] = f[k]
        BY <2>2, <3>1, <4>1
      <4>3. f[j] < f[k]
        BY <1>3, <3>1, <4>1
      <4> QED BY <4>2, <4>3
    <3>2. CASE k = m + 1 /\ j < k
      <4>1. j \in 1..m
        BY <1>2, <3>2
      <4>2. g[j] = f[j] /\ f[j] \in 1..Len(s)
        BY <1>3, <2>2, <4>1
      <4> QED BY <1>2, <2>2, <3>2, <4>2
    <3> QED BY <1>2, <3>1, <3>2
  <2>5. \A i \in 1..Len(t) : i \in at => \E k \in 1..(m + 1) : g[k] = i
    <3> TAKE i \in 1..Len(t)
    <3>1. CASE i \in 1..Len(s)
      BY <1>2, <1>3, <2>2, <3>1
    <3>2. CASE i = Len(s) + 1
      BY <1>2, <2>2, <3>2
    <3> QED BY <1>1, <1>2, <3>1, <3>2
  <2>6. Picks(t, at, p, g)
    BY <2>1, <2>2, <2>3, <2>4, <2>5 DEF Picks
  <2> QED BY <1>4, <2>6 DEF p, t
<1>5. CASE Len(s) + 1 \notin at
  <2> HIDE DEF t
  <2>1. Picks(t, at, o, f)
    <3>1. f \in [1..m -> 1..Len(t)]
      BY <1>1, <1>2, <1>3
    <3>2. \A k \in 1..m : f[k] \in at /\ o[k] = t[f[k]]
      BY <1>1, <1>3
    <3>3. \A i \in 1..Len(t) : i \in at => \E k \in 1..m : f[k] = i
      BY <1>1, <1>2, <1>3, <1>5
    <3> QED BY <1>3, <3>1, <3>2, <3>3 DEF Picks
  <2> QED BY <1>5, <2>1 DEF t
<1> QED BY <1>4, <1>5

LEMMA PickedPlaces ==
  ASSUME NEW S, NEW s \in Seq(S), NEW at
  PROVE  Picked(s, at) \in Seq(S) /\ \E f : Picks(s, at, Picked(s, at), f)
<1> DEFINE T == {t \in Seq(S) : Picked(t, at) \in Seq(S) /\ \E f : Picks(t, at, Picked(t, at), f)}
<1>1. <<>> \in T
  <2>1. Picked(<<>>, at) = <<>>
    BY FlattenEmpty DEF Picked
  <2>2. Picks(<<>>, at, <<>>, <<>>)
    BY DEF Picks
  <2> QED BY <2>1, <2>2, EmptySeq
<1>2. ASSUME NEW t \in Seq(S), NEW x \in S, t \in T
      PROVE  Append(t, x) \in T
  <2> DEFINE o == Picked(t, at)
  <2>1. PICK f : Picks(t, at, o, f)
    BY <1>2
  <2>2. o \in Seq(S)
    BY <1>2
  <2>3. Picked(Append(t, x), at) = IF Len(t) + 1 \in at THEN Append(o, x) ELSE o
    BY PickedAppend
  <2>4. (IF Len(t) + 1 \in at THEN Append(o, x) ELSE o) \in Seq(S)
    BY <2>2, AppendProperties
  <2> HIDE DEF o
  <2>5. \E g : Picks(Append(t, x), at, IF Len(t) + 1 \in at THEN Append(o, x) ELSE o, g)
    BY <2>1, <2>2, PicksAppend
  <2>6. Append(t, x) \in Seq(S)
    BY AppendProperties
  <2> QED BY <2>3, <2>4, <2>5, <2>6
<1>3. \A t \in Seq(S) : t \in T
  <2> HIDE DEF T
  <2> QED BY <1>1, <1>2, SequenceInSet
<1> QED BY <1>3

(* What follows from it: what is there, alone if it was alone, and first   *)
(* if it was first.                                                        *)
LEMMA PickedHas ==
  ASSUME NEW S, NEW s \in Seq(S), NEW at
  PROVE  /\ Picked(s, at) \in Seq(S)
         /\ \A x : x \in ToSet(Picked(s, at)) <=> \E i \in 1..Len(s) : i \in at /\ x = s[i]
         /\ \A j, k \in 1..Len(Picked(s, at)) : j # k =>
              \E a, b \in 1..Len(s) : /\ a # b /\ a \in at /\ b \in at
                                      /\ Picked(s, at)[j] = s[a] /\ Picked(s, at)[k] = s[b]
         /\ s # <<>> /\ 1 \in at => Picked(s, at) # <<>> /\ Picked(s, at)[1] = s[1]
<1> DEFINE o == Picked(s, at)
<1>1. o \in Seq(S) /\ \E f : Picks(s, at, o, f)
  BY PickedPlaces
<1>2. PICK f : Picks(s, at, o, f)
  BY <1>1
<1> HIDE DEF o
<1>3. Len(s) \in Nat /\ Len(o) \in Nat /\ DOMAIN o = 1..Len(o)
  BY <1>1, LenProperties
<1>4. /\ \A k \in 1..Len(o) : f[k] \in at /\ o[k] = s[f[k]] /\ f[k] \in 1..Len(s)
      /\ \A j, k \in 1..Len(o) : j < k => f[j] < f[k]
      /\ \A i \in 1..Len(s) : i \in at => \E k \in 1..Len(o) : f[k] = i
  BY <1>2 DEF Picks
<1>5. \A x : x \in ToSet(o) <=> \E i \in 1..Len(s) : i \in at /\ x = s[i]
  <2> TAKE x
  <2>1. x \in ToSet(o) <=> \E k \in 1..Len(o) : x = o[k]
    BY <1>3 DEF ToSet
  <2> QED BY <1>4, <2>1
<1>6. \A j, k \in 1..Len(o) : j # k =>
        \E a, b \in 1..Len(s) : /\ a # b /\ a \in at /\ b \in at /\ o[j] = s[a] /\ o[k] = s[b]
  <2> TAKE j, k \in 1..Len(o)
  <2>1. f[j] \in 1..Len(s) /\ f[k] \in 1..Len(s) /\ f[j] \in at /\ f[k] \in at
        /\ o[j] = s[f[j]] /\ o[k] = s[f[k]]
    BY <1>4
  <2>2. j # k => f[j] # f[k]
    <3>1. j < k => f[j] < f[k]
      BY <1>4
    <3>2. k < j => f[k] < f[j]
      BY <1>4
    <3> QED BY <1>3, <2>1, <3>1, <3>2
  <2> QED BY <2>1, <2>2
<1>7. s # <<>> /\ 1 \in at => o # <<>> /\ o[1] = s[1]
  <2> SUFFICES ASSUME s # <<>>, 1 \in at
               PROVE  o # <<>> /\ o[1] = s[1]
    OBVIOUS
  <2>1. 1 \in 1..Len(s)
    BY <1>3, EmptySeq
  <2>2. PICK k \in 1..Len(o) : f[k] = 1
    BY <1>4, <2>1
  <2>3. 1 \in 1..Len(o) /\ f[1] \in 1..Len(s)
    BY <1>3, <1>4, <2>2
  <2>4. k = 1
    <3>1. 1 < k => f[1] < f[k]
      BY <1>4, <2>3
    <3> QED BY <1>3, <2>2, <2>3, <3>1
  <2>5. o # <<>>
    BY <1>1, <1>3, <2>3, EmptySeq
  <2> QED BY <1>4, <2>2, <2>3, <2>4, <2>5
<1> QED BY <1>1, <1>5, <1>6, <1>7 DEF o
=============================================================================
