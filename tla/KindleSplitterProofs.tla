------------------------ MODULE KindleSplitterProofs ------------------------
(***************************************************************************)
(* Proofs about the Palm database (PdbFile) and the Kindle splitter.       *)
(*                                                                         *)
(* The first part says what the operations on bytes and records return.    *)
(* The second shows that each operation on the file does to the sections   *)
(* what its name says, whatever their sizes.  The third is the splitter.   *)
(***************************************************************************)
EXTENDS KindleSplitter, FlattenFacts, FiniteSetTheorems

-----------------------------------------------------------------------------
(* Bytes, of a sequence of anything that has a length. *)
Sized(S) == \A x \in S : x.len \in Nat

Sums(F, s, n) == F = [i \in 0..n |-> IF i = 0 THEN 0 ELSE F[i - 1] + s[i].len]

LEMMA SumsExist ==
  ASSUME NEW S, Sized(S), NEW s \in Seq(S)
  PROVE  \E F \in [0..Len(s) -> Nat] : Sums(F, s, Len(s))
<1> DEFINE T == {n \in Nat : n <= Len(s) => \E F \in [0..n -> Nat] : Sums(F, s, n)}
<1>0. Len(s) \in Nat
  BY LenProperties
<1>1. 0 \in T
  <2>1. [i \in 0..0 |-> 0] \in [0..0 -> Nat] /\ Sums([i \in 0..0 |-> 0], s, 0)
    BY DEF Sums
  <2> QED BY <2>1
<1>2. ASSUME NEW n \in Nat, n \in T
      PROVE  n + 1 \in T
  <2>1. SUFFICES ASSUME n + 1 <= Len(s)
                 PROVE  \E F \in [0..(n + 1) -> Nat] : Sums(F, s, n + 1)
    OBVIOUS
  <2>2. PICK F \in [0..n -> Nat] : Sums(F, s, n)
    BY <1>0, <1>2, <2>1
  <2>3. s[n + 1] \in S
    BY <1>0, <2>1, ElementOfSeq
  <2> DEFINE m == F[n] + s[n + 1].len
             G == [i \in 0..(n + 1) |-> IF i = n + 1 THEN m ELSE F[i]]
  <2>4. m \in Nat
    BY <2>3 DEF Sized
  <2> HIDE DEF m
  <2>5. G \in [0..(n + 1) -> Nat]
    BY <2>4
  <2>6. \A i \in 0..(n + 1) : G[i] = IF i = n + 1 THEN m ELSE F[i]
    OBVIOUS
  <2> HIDE DEF G
  <2>7. \A i \in 0..n : F[i] = IF i = 0 THEN 0 ELSE F[i - 1] + s[i].len
    BY <2>2 DEF Sums
  <2>8. \A i \in 0..(n + 1) : G[i] = IF i = 0 THEN 0 ELSE G[i - 1] + s[i].len
    <3> TAKE i \in 0..(n + 1)
    <3>1. CASE i = n + 1
      <4>1. i - 1 = n /\ n \in 0..(n + 1) /\ n # n + 1 /\ i # 0
        BY <3>1
      <4> QED BY <2>6, <3>1, <4>1 DEF m
    <3>2. CASE i # n + 1
      <4>1. i \in 0..n /\ (i # 0 => i - 1 \in 0..(n + 1) /\ i - 1 # n + 1)
        BY <3>2
      <4> QED BY <2>6, <2>7, <3>2, <4>1
    <3> QED BY <3>1, <3>2
  <2> QED BY <2>5, <2>8 DEF Sums
<1>3. \A n \in Nat : n \in T
  <2> HIDE DEF T
  <2> QED BY <1>1, <1>2, InductionInSet
<1> QED BY <1>0, <1>3

SameUpTo(s, t, m) == \A i \in 1..m : s[i] = t[i]

LEMMA SumsAgree ==
  ASSUME NEW s, NEW t, NEW m \in Nat, NEW n \in Nat, m <= n, SameUpTo(s, t, m),
         NEW F, NEW G, Sums(F, s, m), Sums(G, t, n)
  PROVE  F[m] = G[m]
<1> DEFINE T == {i \in Nat : i <= m => F[i] = G[i]}
<1>1. \A i \in 0..m : F[i] = IF i = 0 THEN 0 ELSE F[i - 1] + s[i].len
  BY DEF Sums
<1>2. \A i \in 0..n : G[i] = IF i = 0 THEN 0 ELSE G[i - 1] + t[i].len
  BY DEF Sums
<1>3. 0 \in T
  BY <1>1, <1>2
<1>4. ASSUME NEW i \in Nat, i \in T
      PROVE  i + 1 \in T
  <2>1. SUFFICES ASSUME i + 1 <= m
                 PROVE  F[i + 1] = G[i + 1]
    OBVIOUS
  <2>2. i + 1 \in 0..m /\ i + 1 \in 0..n /\ (i + 1) - 1 = i /\ i + 1 # 0 /\ i + 1 \in 1..m
    BY <2>1
  <2>3. F[i] = G[i]
    BY <1>4, <2>1
  <2> QED BY <1>1, <1>2, <2>2, <2>3 DEF SameUpTo
<1>5. \A i \in Nat : i \in T
  <2> HIDE DEF T
  <2> QED BY <1>3, <1>4, InductionInSet
<1> QED BY <1>5

LEMMA CountIsSum ==
  ASSUME NEW S, Sized(S), NEW s \in Seq(S), NEW F, Sums(F, s, Len(s))
  PROVE  ByteCount(s) = F[Len(s)]
<1> DEFINE C == CHOOSE G : G = [n \in 0..Len(s) |-> IF n = 0 THEN 0 ELSE G[n - 1] + s[n].len]
<1>1. ByteCount(s) = C[Len(s)]
  BY DEF ByteCount
<1>2. Sums(C, s, Len(s))
  BY DEF Sums
<1>3. Len(s) \in Nat
  BY LenProperties
<1>4. SameUpTo(s, s, Len(s))
  BY DEF SameUpTo
<1> HIDE DEF C
<1> QED BY <1>1, <1>2, <1>3, <1>4, SumsAgree

LEMMA CountAppend ==
  ASSUME NEW S, Sized(S), NEW s \in Seq(S), NEW x \in S
  PROVE  /\ ByteCount(s) \in Nat
         /\ ByteCount(Append(s, x)) = ByteCount(s) + x.len
<1> DEFINE t == Append(s, x)
<1>1. /\ t \in Seq(S) /\ Len(t) = Len(s) + 1 /\ t[Len(s) + 1] = x
      /\ \A i \in 1..Len(s) : s[i] = t[i]
  BY AppendProperties
<1>2. Len(s) \in Nat /\ Len(t) \in Nat
  BY <1>1, LenProperties
<1> HIDE DEF t
<1>3. PICK F \in [0..Len(s) -> Nat] : Sums(F, s, Len(s))
  BY SumsExist
<1>4. PICK G \in [0..Len(t) -> Nat] : Sums(G, t, Len(t))
  BY <1>1, SumsExist
<1>5. F[Len(s)] = G[Len(s)]
  <2>1. Len(s) <= Len(t)
    BY <1>1, <1>2
  <2>2. SameUpTo(s, t, Len(s))
    BY <1>1 DEF SameUpTo
  <2> QED BY <1>2, <1>3, <1>4, <2>1, <2>2, SumsAgree
<1>6. G[Len(s) + 1] = G[Len(s)] + x.len
  <2>1. \A i \in 0..Len(t) : G[i] = IF i = 0 THEN 0 ELSE G[i - 1] + t[i].len
    BY <1>4 DEF Sums
  <2>2. Len(s) + 1 \in 0..Len(t) /\ Len(s) + 1 # 0 /\ (Len(s) + 1) - 1 = Len(s)
    BY <1>1, <1>2
  <2> QED BY <1>1, <2>1, <2>2
<1>7. ByteCount(s) = F[Len(s)] /\ ByteCount(t) = G[Len(t)]
  BY <1>1, <1>3, <1>4, CountIsSum
<1>8. F[Len(s)] \in Nat
  BY <1>2, <1>3
<1> QED BY <1>1, <1>5, <1>6, <1>7, <1>8 DEF t

LEMMA CountEmpty == ByteCount(<<>>) = 0
<1>1. Sized({}) /\ <<>> \in Seq({}) /\ Len(<<>>) = 0
  BY DEF Sized
<1>2. PICK F \in [0..0 -> Nat] : Sums(F, <<>>, 0)
  BY <1>1, SumsExist
<1>3. F[0] = 0
  BY <1>2 DEF Sums
<1> QED BY <1>1, <1>2, <1>3, CountIsSum

LEMMA CountType ==
  ASSUME NEW S, Sized(S), NEW s \in Seq(S)
  PROVE  ByteCount(s) \in Nat
<1>1. CASE s = <<>>
  BY <1>1, CountEmpty
<1>2. CASE s # <<>>
  <2>1. PICK t \in Seq(S), x \in S : s = Append(t, x)
    BY <1>2, SequenceEmptyOrAppend
  <2>2. ByteCount(t) \in Nat /\ ByteCount(s) = ByteCount(t) + x.len
    BY <2>1, CountAppend
  <2> QED BY <2>2 DEF Sized
<1> QED BY <1>1, <1>2

LEMMA CountConcat ==
  ASSUME NEW S, Sized(S), NEW s \in Seq(S), NEW t \in Seq(S)
  PROVE  ByteCount(s \o t) = ByteCount(s) + ByteCount(t)
<1> DEFINE T == {u \in Seq(S) : ByteCount(s \o u) = ByteCount(s) + ByteCount(u)}
<1>0. ByteCount(s) \in Nat
  BY CountType
<1>1. <<>> \in T
  <2>1. s \o <<>> = s
    BY ConcatEmptySeq
  <2> QED BY <1>0, <2>1, CountEmpty, EmptySeq
<1>2. ASSUME NEW u \in Seq(S), NEW x \in S, u \in T
      PROVE  Append(u, x) \in T
  <2>1. s \o Append(u, x) = Append(s \o u, x)
    <3>1. Append(u, x) = u \o <<x>> /\ <<x>> \in Seq(S)
      BY AppendIsConcat
    <3>2. s \o u \in Seq(S)
      BY ConcatProperties
    <3>3. Append(s \o u, x) = (s \o u) \o <<x>>
      BY <3>2, AppendIsConcat
    <3> QED BY <3>1, <3>3, ConcatAssociative
  <2>2. s \o u \in Seq(S) /\ Append(u, x) \in Seq(S)
    BY ConcatProperties, AppendProperties
  <2>3. ByteCount(Append(s \o u, x)) = ByteCount(s \o u) + x.len
    BY <2>2, CountAppend
  <2>4. ByteCount(Append(u, x)) = ByteCount(u) + x.len /\ ByteCount(u) \in Nat
    BY CountAppend
  <2>5. ByteCount(s \o u) = ByteCount(s) + ByteCount(u)
    BY <1>2
  <2>6. x.len \in Nat
    BY DEF Sized
  <2>7. ByteCount(s \o Append(u, x)) = ByteCount(s) + ByteCount(Append(u, x))
    BY <1>0, <2>1, <2>3, <2>4, <2>5, <2>6
  <2> QED BY <2>2, <2>7
<1>3. \A u \in Seq(S) : u \in T
  <2> HIDE DEF T
  <2> QED BY <1>1, <1>2, SequenceInSet
<1> QED BY <1>3

LEMMA CountOne ==
  ASSUME NEW x, x.len \in Nat
  PROVE  ByteCount(<<x>>) = x.len
<1>1. Sized({x}) /\ <<>> \in Seq({x}) /\ Append(<<>>, x) = <<x>>
  BY DEF Sized
<1>2. ByteCount(Append(<<>>, x)) = ByteCount(<<>>) + x.len
  BY <1>1, CountAppend
<1> QED BY <1>1, <1>2, CountEmpty

-----------------------------------------------------------------------------
(* What a function makes of the elements, one after the other. *)
Mapped(f, s) == [i \in DOMAIN s |-> f[s[i]]]

Flat(f, s) == FlattenSeq(Mapped(f, s))

LEMMA FlatParts ==
  ASSUME NEW S, NEW T, NEW f \in [S -> Seq(T)], NEW s \in Seq(S)
  PROVE  /\ Mapped(f, s) \in Seq(Seq(T))
         /\ Len(Mapped(f, s)) = Len(s)
         /\ \A i \in 1..Len(s) : Mapped(f, s)[i] = f[s[i]]
<1> DEFINE m == [i \in DOMAIN s |-> f[s[i]]]
<1>1. Len(s) \in Nat /\ DOMAIN s = 1..Len(s)
  BY LenProperties
<1>2. \A i \in 1..Len(s) : f[s[i]] \in Seq(T)
  BY ElementOfSeq
<1>3. m \in [1..Len(s) -> Seq(T)]
  BY <1>1, <1>2
<1> HIDE DEF m
<1>4. m \in Seq(Seq(T)) /\ Len(m) = Len(s)
  BY <1>1, <1>3, FunctionIsSeq
<1>5. \A i \in 1..Len(s) : m[i] = f[s[i]]
  BY <1>1 DEF m
<1> QED BY <1>4, <1>5 DEF m, Mapped

LEMMA FlatType ==
  ASSUME NEW S, NEW T, NEW f \in [S -> Seq(T)], NEW s \in Seq(S)
  PROVE  Flat(f, s) \in Seq(T)
BY FlatParts, FlattenType DEF Flat

LEMMA FlatNone ==
  ASSUME NEW f
  PROVE  Flat(f, <<>>) = <<>>
<1>1. Mapped(f, <<>>) = <<>>
  BY DEF Mapped
<1> QED BY <1>1, FlattenEmpty DEF Flat

LEMMA FlatConcat ==
  ASSUME NEW S, NEW T, NEW f \in [S -> Seq(T)], NEW s \in Seq(S), NEW t \in Seq(S)
  PROVE  Flat(f, s \o t) = Flat(f, s) \o Flat(f, t)
<1>7. ASSUME NEW v \in Seq(S)
      PROVE  /\ Mapped(f, v) \in Seq(Seq(T)) /\ Len(Mapped(f, v)) = Len(v)
             /\ \A i \in 1..Len(v) : Mapped(f, v)[i] = f[v[i]]
  <2>1. Mapped(f, v) \in Seq(Seq(T))
    BY FlatParts
  <2>2. DOMAIN Mapped(f, v) = 1..Len(v) /\ \A i \in 1..Len(v) : Mapped(f, v)[i] = f[v[i]]
    <3>1. DOMAIN v = 1..Len(v)
      BY LenProperties
    <3> QED BY <3>1 DEF Mapped
  <2>3. Len(Mapped(f, v)) = Len(v)
    <3>1. Len(v) \in Nat /\ Len(Mapped(f, v)) \in Nat /\ DOMAIN Mapped(f, v) = 1..Len(Mapped(f, v))
      BY <2>1, LenProperties
    <3> QED BY <2>2, <3>1
  <2> QED BY <2>1, <2>2, <2>3
<1> DEFINE u == s \o t
           ms == Mapped(f, s)
           mt == Mapped(f, t)
           mu == Mapped(f, u)
<1>1. /\ u \in Seq(S) /\ Len(u) = Len(s) + Len(t)
      /\ \A i \in 1..(Len(s) + Len(t)) : u[i] = IF i <= Len(s) THEN s[i] ELSE t[i - Len(s)]
  BY ConcatProperties
<1> HIDE DEF u
<1>2. /\ ms \in Seq(Seq(T)) /\ Len(ms) = Len(s)
      /\ mt \in Seq(Seq(T)) /\ Len(mt) = Len(t)
  BY <1>7
<1>9. mu \in Seq(Seq(T)) /\ Len(mu) = Len(u)
  BY <1>1, <1>7
<1>3. Len(s) \in Nat /\ Len(t) \in Nat /\ DOMAIN s = 1..Len(s) /\ DOMAIN t = 1..Len(t)
      /\ DOMAIN u = 1..Len(u)
  BY <1>1, LenProperties
<1>4. /\ \A i \in 1..Len(s) : ms[i] = f[s[i]]
      /\ \A i \in 1..Len(t) : mt[i] = f[t[i]]
      /\ \A i \in 1..Len(u) : mu[i] = f[u[i]]
  BY <1>1, <1>7
<1> HIDE DEF ms, mt, mu
<1>5. /\ ms \o mt \in Seq(Seq(T)) /\ Len(ms \o mt) = Len(ms) + Len(mt)
      /\ \A i \in 1..(Len(ms) + Len(mt)) :
           (ms \o mt)[i] = IF i <= Len(ms) THEN ms[i] ELSE mt[i - Len(ms)]
  BY <1>2, ConcatProperties
<1>6. mu = ms \o mt
  <2>1. ASSUME NEW i \in 1..(Len(s) + Len(t))
        PROVE  mu[i] = (ms \o mt)[i]
    <3>1. mu[i] = f[u[i]]
      BY <1>1, <1>4
    <3>2. CASE i <= Len(s)
      <4>1. i \in 1..Len(s)
        BY <1>3, <3>2
      <4>2. (ms \o mt)[i] = ms[i]
        BY <1>2, <1>5, <3>2
      <4> QED BY <1>1, <1>4, <3>1, <3>2, <4>1, <4>2
    <3>3. CASE ~(i <= Len(s))
      <4>1. i - Len(s) \in 1..Len(t)
        BY <1>3, <3>3
      <4>2. (ms \o mt)[i] = mt[i - Len(s)]
        BY <1>2, <1>5, <3>3
      <4> QED BY <1>1, <1>4, <3>1, <3>3, <4>1, <4>2
    <3> QED BY <3>2, <3>3
  <2> QED BY <1>1, <1>2, <1>5, <1>9, <2>1, SeqEqual
<1>10. FlattenSeq(mu) = FlattenSeq(ms) \o FlattenSeq(mt)
  BY <1>2, <1>6, FlattenConcat
<1> QED BY <1>10 DEF Flat, ms, mt, mu, u

LEMMA FlatOne ==
  ASSUME NEW S, NEW T, NEW f \in [S -> Seq(T)], NEW x \in S
  PROVE  Flat(f, <<x>>) = f[x]
<1> DEFINE y == f[x]
<1>1. y \in Seq(T)
  OBVIOUS
<1>2. Mapped(f, <<x>>) = <<y>>
  <2>1. DOMAIN <<x>> = {1} /\ <<x>>[1] = x
    OBVIOUS
  <2> QED BY <2>1 DEF Mapped
<1> HIDE DEF y
<1>3. <<>> \in Seq(Seq(T)) /\ Append(<<>>, y) = <<y>>
  BY <1>1
<1>4. FlattenSeq(Append(<<>>, y)) = FlattenSeq(<<>>) \o y
  BY <1>1, <1>3, FlattenAppend
<1>5. <<>> \o y = y
  BY <1>1, ConcatEmptySeq
<1>6. FlattenSeq(<<y>>) = y
  BY <1>3, <1>4, <1>5, FlattenEmpty
<1> QED BY <1>2, <1>6 DEF Flat, y

LEMMA FlatAppend ==
  ASSUME NEW S, NEW T, NEW f \in [S -> Seq(T)], NEW s \in Seq(S), NEW x \in S
  PROVE  Flat(f, Append(s, x)) = Flat(f, s) \o f[x]
<1> DEFINE y == <<x>>
<1>1. Append(s, x) = s \o y /\ y \in Seq(S)
  BY AppendIsConcat
<1>2. Flat(f, y) = f[x]
  BY FlatOne
<1> HIDE DEF y
<1>3. y \in Seq(S)
  BY <1>1
<1>4. Flat(f, s \o y) = Flat(f, s) \o Flat(f, y)
  BY <1>3, FlatConcat
<1> QED BY <1>1, <1>2, <1>4

LEMMA FlatOfNothing ==
  ASSUME NEW S, NEW T, NEW f \in [S -> Seq(T)], NEW s \in Seq(S),
         \A i \in 1..Len(s) : f[s[i]] = <<>>
  PROVE  Flat(f, s) = <<>>
<1> DEFINE U == {x \in S : f[x] = <<>>}
           g == [x \in U |-> f[x]]
           R == {t \in Seq(U) : Flat(g, t) = <<>>}
<1>1. g \in [U -> Seq(T)]
  OBVIOUS
<1>2. \A x \in U : g[x] = <<>>
  OBVIOUS
<1>3. s \in Seq(U)
  <2>1. \A i \in 1..Len(s) : s[i] \in U
    BY ElementOfSeq
  <2>2. s = [i \in 1..Len(s) |-> s[i]] /\ Len(s) \in Nat
    BY LenProperties
  <2> HIDE DEF U
  <2>3. s \in [1..Len(s) -> U]
    BY <2>1, <2>2
  <2> QED BY <2>2, <2>3, FunctionIsSeq
<1>4. Flat(g, s) = Flat(f, s)
  <2>1. \A i \in DOMAIN s : g[s[i]] = f[s[i]]
    <3>1. \A i \in DOMAIN s : s[i] \in U
      BY <1>3, LenProperties, ElementOfSeq
    <3> HIDE DEF U
    <3> QED BY <3>1
  <2> HIDE DEF g
  <2>2. Mapped(g, s) = Mapped(f, s)
    BY <2>1 DEF Mapped
  <2> QED BY <2>2 DEF Flat
<1> HIDE DEF U, g
<1>5. <<>> \in R
  BY FlatNone, EmptySeq
<1>6. ASSUME NEW t \in Seq(U), NEW x \in U, t \in R
      PROVE  Append(t, x) \in R
  <2>1. Flat(g, Append(t, x)) = Flat(g, t) \o g[x]
    BY <1>1, FlatAppend
  <2>2. Flat(g, t) = <<>> /\ g[x] = <<>> /\ <<>> \o <<>> = <<>>
    BY <1>2, <1>6
  <2>3. Append(t, x) \in Seq(U)
    BY AppendProperties
  <2> QED BY <2>1, <2>2, <2>3
<1>7. \A t \in Seq(U) : t \in R
  <2> HIDE DEF R
  <2> QED BY <1>5, <1>6, SequenceInSet
<1> QED BY <1>3, <1>4, <1>7

LEMMA FlatOfSelf ==
  ASSUME NEW S, NEW s \in Seq(S)
  PROVE  Flat([x \in S |-> <<x>>], s) = s
<1> DEFINE f == [x \in S |-> <<x>>]
           R == {t \in Seq(S) : Flat(f, t) = t}
<1>1. f \in [S -> Seq(S)]
  OBVIOUS
<1>2. \A x \in S : f[x] = <<x>>
  OBVIOUS
<1> HIDE DEF f
<1>3. <<>> \in R
  BY FlatNone, EmptySeq
<1>4. ASSUME NEW t \in Seq(S), NEW x \in S, t \in R
      PROVE  Append(t, x) \in R
  <2>1. Flat(f, Append(t, x)) = Flat(f, t) \o f[x]
    BY <1>1, FlatAppend
  <2>2. Append(t, x) = t \o <<x>> /\ Append(t, x) \in Seq(S)
    BY AppendIsConcat, AppendProperties
  <2> QED BY <1>2, <1>4, <2>1, <2>2
<1>5. \A t \in Seq(S) : t \in R
  <2> HIDE DEF R
  <2> QED BY <1>3, <1>4, SequenceInSet
<1> QED BY <1>5 DEF f

-----------------------------------------------------------------------------
(* The records with a number. *)
Chooser(S, num) == [x \in S |-> IF x.num = num THEN <<x>> ELSE <<>>]

LEMMA ChooserType ==
  ASSUME NEW S, NEW num
  PROVE  /\ Chooser(S, num) \in [S -> Seq(S)]
         /\ \A x \in S : Chooser(S, num)[x] = IF x.num = num THEN <<x>> ELSE <<>>
<1>1. \A x \in S : (IF x.num = num THEN <<x>> ELSE <<>>) \in Seq(S)
  OBVIOUS
<1> QED BY <1>1 DEF Chooser

LEMMA HavingIsFlat ==
  ASSUME NEW S, NEW recs \in Seq(S), NEW num
  PROVE  Having(recs, num) = Flat(Chooser(S, num), recs)
<1>1. \A i \in DOMAIN recs : recs[i] \in S
  BY LenProperties, ElementOfSeq
<1>2. [i \in DOMAIN recs |-> IF recs[i].num = num THEN <<recs[i]>> ELSE <<>>]
        = Mapped(Chooser(S, num), recs)
  BY <1>1, ChooserType DEF Mapped
<1> QED BY <1>2 DEF Having, Flat

LEMMA HavingType ==
  ASSUME NEW S, NEW recs \in Seq(S), NEW num
  PROVE  Having(recs, num) \in Seq(S)
<1> DEFINE f == Chooser(S, num)
<1>1. f \in [S -> Seq(S)]
  BY ChooserType
<1>2. Having(recs, num) = Flat(f, recs)
  BY HavingIsFlat
<1> HIDE DEF f
<1> QED BY <1>1, <1>2, FlatType

HavingOfTwo(s, t, num) == Having(s \o t, num) = Having(s, num) \o Having(t, num)

LEMMA HavingConcat ==
  ASSUME NEW S, NEW s \in Seq(S), NEW t \in Seq(S), NEW num
  PROVE  HavingOfTwo(s, t, num)
<1> DEFINE f == Chooser(S, num)
<1>1. f \in [S -> Seq(S)]
  BY ChooserType
<1>2. s \o t \in Seq(S)
  BY ConcatProperties
<1>3. /\ Having(s, num) = Flat(f, s) /\ Having(t, num) = Flat(f, t)
      /\ Having(s \o t, num) = Flat(f, s \o t)
  BY <1>2, HavingIsFlat
<1> HIDE DEF f
<1>4. Flat(f, s \o t) = Flat(f, s) \o Flat(f, t)
  BY <1>1, FlatConcat
<1> QED BY <1>3, <1>4 DEF HavingOfTwo

LEMMA HavingOne ==
  ASSUME NEW x, NEW num
  PROVE  Having(<<x>>, num) = IF x.num = num THEN <<x>> ELSE <<>>
<1> DEFINE S == {x}
           f == Chooser(S, num)
<1>1. f \in [S -> Seq(S)] /\ f[x] = IF x.num = num THEN <<x>> ELSE <<>>
  BY ChooserType
<1>2. x \in S /\ <<x>> \in Seq(S)
  OBVIOUS
<1>3. Having(<<x>>, num) = Flat(f, <<x>>)
  BY <1>2, HavingIsFlat
<1> HIDE DEF f, S
<1>4. Flat(f, <<x>>) = f[x]
  BY <1>1, <1>2, FlatOne
<1> QED BY <1>1, <1>3, <1>4

LEMMA HavingNone ==
  ASSUME NEW S, NEW recs \in Seq(S), NEW num, \A i \in 1..Len(recs) : recs[i].num # num
  PROVE  Having(recs, num) = <<>>
<1> DEFINE f == Chooser(S, num)
<1>1. f \in [S -> Seq(S)]
  BY ChooserType
<1>2. \A i \in 1..Len(recs) : f[recs[i]] = <<>>
  <2> SUFFICES ASSUME NEW i \in 1..Len(recs)
               PROVE  f[recs[i]] = <<>>
    OBVIOUS
  <2>1. recs[i] \in S
    BY ElementOfSeq
  <2>2. recs[i].num # num
    OBVIOUS
  <2> HIDE DEF f
  <2>3. f[recs[i]] = IF recs[i].num = num THEN <<recs[i]>> ELSE <<>>
    BY <2>1, ChooserType DEF f
  <2> QED BY <2>2, <2>3
<1>3. Having(recs, num) = Flat(f, recs)
  BY HavingIsFlat
<1> HIDE DEF f
<1> QED BY <1>1, <1>2, <1>3, FlatOfNothing

LEMMA HavingEmpty ==
  ASSUME NEW num
  PROVE  Having(<<>>, num) = <<>>
<1>1. Having(<<>>, num) = Flat(Chooser({}, num), <<>>)
  BY HavingIsFlat, EmptySeq
<1> QED BY <1>1, FlatNone

LEMMA HavingAll ==
  ASSUME NEW S, NEW recs \in Seq(S), NEW num, \A i \in 1..Len(recs) : recs[i].num = num
  PROVE  Having(recs, num) = recs
<1> DEFINE R == {t \in Seq(S) : (\A i \in 1..Len(t) : t[i].num = num) => Having(t, num) = t}
<1>1. <<>> \in R
  BY HavingEmpty, EmptySeq
<1>2. ASSUME NEW t \in Seq(S), NEW x \in S, t \in R
      PROVE  Append(t, x) \in R
  <2>1. /\ Append(t, x) \in Seq(S) /\ Len(Append(t, x)) = Len(t) + 1
        /\ \A i \in 1..Len(t) : Append(t, x)[i] = t[i]
        /\ Append(t, x)[Len(t) + 1] = x
    BY AppendProperties
  <2>2. SUFFICES ASSUME \A i \in 1..Len(Append(t, x)) : Append(t, x)[i].num = num
                 PROVE  Having(Append(t, x), num) = Append(t, x)
    BY <2>1
  <2>3. Len(t) \in Nat
    BY LenProperties
  <2>4. Having(t, num) = t
    <3>1. \A i \in 1..Len(t) : t[i].num = num
      BY <2>1, <2>2, <2>3
    <3> QED BY <1>2, <3>1
  <2>5. Having(<<x>>, num) = <<x>>
    <3>1. x.num = num
      BY <2>1, <2>2, <2>3
    <3> QED BY <3>1, HavingOne
  <2>6. Append(t, x) = t \o <<x>> /\ <<x>> \in Seq(S)
    BY AppendIsConcat
  <2>7. Having(t \o <<x>>, num) = Having(t, num) \o Having(<<x>>, num)
    <3> DEFINE y == <<x>>
    <3>1. y \in Seq(S)
      BY <2>6
    <3> HIDE DEF y
    <3>2. Having(t \o y, num) = Having(t, num) \o Having(y, num)
      BY <3>1, HavingConcat DEF HavingOfTwo
    <3> QED BY <3>2 DEF y
  <2> QED BY <2>4, <2>5, <2>6, <2>7
<1>3. \A t \in Seq(S) : t \in R
  <2> HIDE DEF R
  <2> QED BY <1>1, <1>2, SequenceInSet
<1> QED BY <1>3

-----------------------------------------------------------------------------
(* The bytes in front of an element. *)
LEMMA LargerOfTwo ==
  ASSUME NEW a \in Int, NEW b \in Int
  PROVE  Max({a, b}) = IF a >= b THEN a ELSE b
<1> DEFINE m == IF a >= b THEN a ELSE b
<1>1. m \in {a, b} /\ \A y \in {a, b} : m >= y
  OBVIOUS
<1>2. \A x \in {a, b} : (\A y \in {a, b} : x >= y) => x = m
  OBVIOUS
<1> HIDE DEF m
<1>3. Max({a, b}) \in {a, b} /\ \A y \in {a, b} : Max({a, b}) >= y
  BY <1>1 DEF Max
<1> QED BY <1>2, <1>3 DEF m

LEMMA SmallerOfTwo ==
  ASSUME NEW a \in Int, NEW b \in Int
  PROVE  Min({a, b}) = IF a <= b THEN a ELSE b
<1> DEFINE m == IF a <= b THEN a ELSE b
<1>1. m \in {a, b} /\ \A y \in {a, b} : m <= y
  OBVIOUS
<1>2. \A x \in {a, b} : (\A y \in {a, b} : x <= y) => x = m
  OBVIOUS
<1> HIDE DEF m
<1>3. Min({a, b}) \in {a, b} /\ \A y \in {a, b} : Min({a, b}) <= y
  BY <1>1 DEF Min
<1> QED BY <1>2, <1>3 DEF m

At(s, k) == ByteCount(SubSeq(s, 1, k))

LEMMA PrefixType ==
  ASSUME NEW S, NEW s \in Seq(S), NEW k \in 0..Len(s)
  PROVE  /\ SubSeq(s, 1, k) \in Seq(S) /\ Len(SubSeq(s, 1, k)) = k
         /\ \A i \in 1..k : SubSeq(s, 1, k)[i] = s[i]
<1>1. Len(s) \in Nat
  BY LenProperties
<1>2. \A i \in 1..k : s[i] \in S
  BY <1>1, ElementOfSeq
<1>3. /\ SubSeq(s, 1, k) \in Seq(S) /\ Len(SubSeq(s, 1, k)) = IF 1 <= k THEN k - 1 + 1 ELSE 0
      /\ \A i \in 1..(k - 1 + 1) : SubSeq(s, 1, k)[i] = s[1 + i - 1]
  BY <1>1, <1>2, SubSeqProperties
<1> QED BY <1>1, <1>3

LEMMA AtEnds ==
  ASSUME NEW S, Sized(S), NEW s \in Seq(S)
  PROVE  At(s, 0) = 0 /\ At(s, Len(s)) = ByteCount(s)
<1>1. SubSeq(s, 1, 0) = <<>>
  BY SubSeqEmpty
<1>2. SubSeq(s, 1, Len(s)) = s
  BY SubSeqFull
<1> QED BY <1>1, <1>2, CountEmpty DEF At

LEMMA AtStep ==
  ASSUME NEW S, Sized(S), NEW s \in Seq(S), NEW k \in 1..Len(s)
  PROVE  /\ At(s, k - 1) \in Nat /\ s[k].len \in Nat
         /\ At(s, k) = At(s, k - 1) + s[k].len
<1>1. Len(s) \in Nat
  BY LenProperties
<1>2. SubSeq(s, 1, k - 1) \in Seq(S) /\ s[k] \in S
  BY <1>1, PrefixType, ElementOfSeq
<1>3. SubSeq(s, 1, k) = SubSeq(s, 1, k - 1) \o <<s[k]>>
  BY <1>1, SubSeqRecursiveSecond
<1>4. SubSeq(s, 1, k) = Append(SubSeq(s, 1, k - 1), s[k])
  BY <1>2, <1>3, AppendIsConcat
<1>5. /\ ByteCount(SubSeq(s, 1, k - 1)) \in Nat
      /\ ByteCount(Append(SubSeq(s, 1, k - 1), s[k])) = ByteCount(SubSeq(s, 1, k - 1)) + s[k].len
  BY <1>2, CountAppend
<1> QED BY <1>2, <1>4, <1>5 DEF At, Sized

LEMMA AtConcat ==
  ASSUME NEW S, Sized(S), NEW s \in Seq(S), NEW t \in Seq(S), NEW k \in 0..(Len(s) + Len(t))
  PROVE  At(s \o t, k) = IF k <= Len(s) THEN At(s, k) ELSE ByteCount(s) + At(t, k - Len(s))
<1>0. Len(s) \in Nat /\ Len(t) \in Nat
  BY LenProperties
<1> DEFINE u == s \o t
<1>1. /\ u \in Seq(S) /\ Len(u) = Len(s) + Len(t)
      /\ \A i \in 1..(Len(s) + Len(t)) : u[i] = IF i <= Len(s) THEN s[i] ELSE t[i - Len(s)]
  BY ConcatProperties
<1> HIDE DEF u
<1>2. /\ SubSeq(u, 1, k) \in Seq(S) /\ Len(SubSeq(u, 1, k)) = k
      /\ \A i \in 1..k : SubSeq(u, 1, k)[i] = u[i]
  BY <1>1, PrefixType
<1>3. CASE k <= Len(s)
  <2>1. /\ SubSeq(s, 1, k) \in Seq(S) /\ Len(SubSeq(s, 1, k)) = k
        /\ \A i \in 1..k : SubSeq(s, 1, k)[i] = s[i]
    BY <1>0, <1>3, PrefixType
  <2>2. \A i \in 1..k : SubSeq(u, 1, k)[i] = SubSeq(s, 1, k)[i]
    BY <1>0, <1>1, <1>2, <1>3, <2>1
  <2>3. SubSeq(u, 1, k) = SubSeq(s, 1, k)
    BY <1>2, <2>1, <2>2, SeqEqual
  <2> QED BY <1>3, <2>3 DEF At, u
<1>4. CASE k > Len(s)
  <2> DEFINE r == SubSeq(t, 1, k - Len(s))
  <2>1. /\ r \in Seq(S) /\ Len(r) = k - Len(s)
        /\ \A i \in 1..(k - Len(s)) : r[i] = t[i]
    BY <1>0, <1>4, PrefixType
  <2> HIDE DEF r
  <2>2. /\ s \o r \in Seq(S) /\ Len(s \o r) = Len(s) + Len(r)
        /\ \A i \in 1..(Len(s) + Len(r)) : (s \o r)[i] = IF i <= Len(s) THEN s[i] ELSE r[i - Len(s)]
    BY <2>1, ConcatProperties
  <2>3. ASSUME NEW i \in 1..k
        PROVE  SubSeq(u, 1, k)[i] = (s \o r)[i]
    <3>1. SubSeq(u, 1, k)[i] = IF i <= Len(s) THEN s[i] ELSE t[i - Len(s)]
      BY <1>0, <1>1, <1>2
    <3>2. (s \o r)[i] = IF i <= Len(s) THEN s[i] ELSE r[i - Len(s)]
      BY <1>0, <1>4, <2>1, <2>2
    <3>3. ~(i <= Len(s)) => r[i - Len(s)] = t[i - Len(s)]
      BY <1>0, <1>4, <2>1
    <3> QED BY <3>1, <3>2, <3>3
  <2>4. SubSeq(u, 1, k) = s \o r
    <3>1. Len(s \o r) = k
      BY <1>0, <2>1, <2>2
    <3> QED BY <1>2, <2>2, <2>3, <3>1, SeqEqual
  <2>5. ByteCount(s \o r) = ByteCount(s) + ByteCount(r)
    BY <2>1, CountConcat
  <2>6. At(s \o t, k) = ByteCount(s) + At(t, k - Len(s))
    BY <2>4, <2>5 DEF At, r, u
  <2>7. ~(k <= Len(s))
    BY <1>0, <1>4
  <2> QED BY <2>6, <2>7
<1> QED BY <1>0, <1>3, <1>4

LEMMA AtType ==
  ASSUME NEW S, Sized(S), NEW s \in Seq(S), NEW k \in 0..Len(s)
  PROVE  At(s, k) \in Nat
<1>1. SubSeq(s, 1, k) \in Seq(S)
  BY PrefixType
<1> QED BY <1>1, CountType DEF At

LEMMA AtRises ==
  ASSUME NEW S, Sized(S), NEW s \in Seq(S), NEW i \in 0..Len(s), NEW j \in i..Len(s)
  PROVE  At(s, i) <= At(s, j)
<1>0. Len(s) \in Nat
  BY LenProperties
<1> DEFINE T == {d \in Nat : i + d <= Len(s) => At(s, i) <= At(s, i + d)}
<1>1. 0 \in T
  <2>1. At(s, i) \in Nat
    BY AtType
  <2> QED BY <2>1
<1>2. ASSUME NEW d \in Nat, d \in T
      PROVE  d + 1 \in T
  <2>1. SUFFICES ASSUME i + d + 1 <= Len(s)
                 PROVE  At(s, i) <= At(s, i + d + 1)
    BY <1>0
  <2>2. At(s, i) <= At(s, i + d) /\ At(s, i) \in Nat
    BY <1>0, <1>2, <2>1, AtType
  <2>3. i + d + 1 \in 1..Len(s) /\ (i + d + 1) - 1 = i + d
    BY <1>0, <2>1
  <2>4. At(s, i + d) \in Nat /\ s[i + d + 1].len \in Nat /\ At(s, i + d + 1) = At(s, i + d) + s[i + d + 1].len
    BY <2>3, AtStep
  <2> QED BY <2>2, <2>4
<1>3. \A d \in Nat : d \in T
  <2> HIDE DEF T
  <2> QED BY <1>1, <1>2, InductionInSet
<1>4. j - i \in Nat /\ i + (j - i) = j /\ j <= Len(s)
  BY <1>0
<1>5. j - i \in T
  <2> HIDE DEF T
  <2> QED BY <1>3, <1>4
<1> QED BY <1>4, <1>5

-----------------------------------------------------------------------------
(* Runs that are all of a content, and what is cut out of them where one   *)
(* begins and another ends.                                                *)
Whole(S) == {[of |-> c, from |-> 0, len |-> c.len] : c \in {x \in S : x.len # 0}}

LEMMA WholeSized ==
  ASSUME NEW S, Sized(S)
  PROVE  /\ Sized(Whole(S))
         /\ \A w \in Whole(S) : w.len \in Nat \ {0} /\ w = [of |-> w.of, from |-> 0, len |-> w.len]
BY DEF Whole, Sized

LEMMA WholeRun ==
  ASSUME NEW w, w = [of |-> w.of, from |-> 0, len |-> w.len],
         NEW f, f = 0, NEW n, n = w.len
  PROVE  [w EXCEPT !.from = f, !.len = n] = w
<1> DEFINE e == [w EXCEPT !.from = f, !.len = n]
           K == {"of", "from", "len"}
<1>1. w.from = 0 /\ DOMAIN w = K
  OBVIOUS
<1>2. w = [k \in K |-> w[k]]
  BY <1>1
<1>3. e = [k \in K |-> e[k]]
  BY <1>1
<1>4. e.of = w.of /\ e.from = w.from /\ e.len = w.len
  BY <1>1
<1> HIDE DEF e
<1>5. \A k \in K : e[k] = w[k]
  BY <1>4
<1>6. e = w
  BY <1>2, <1>3, <1>5
<1> QED BY <1>6 DEF e

Joined(S, r, a, b, c) ==
    /\ r \in Seq(S)
    /\ Len(r) = Len(a) + Len(b) + Len(c)
    /\ \A k \in 1..Len(a) : r[k] = a[k]
    /\ \A k \in 1..Len(b) : r[Len(a) + k] = b[k]
    /\ \A k \in 1..Len(c) : r[Len(a) + Len(b) + k] = c[k]

LEMMA ConcatThree ==
  ASSUME NEW S, NEW a \in Seq(S), NEW b \in Seq(S), NEW c \in Seq(S)
  PROVE  Joined(S, (a \o b) \o c, a, b, c)
<1>0. Len(a) \in Nat /\ Len(b) \in Nat /\ Len(c) \in Nat
  BY LenProperties
<1> DEFINE ab == a \o b
           r == ab \o c
<1>1. /\ ab \in Seq(S) /\ Len(ab) = Len(a) + Len(b)
      /\ \A i \in 1..(Len(a) + Len(b)) : ab[i] = IF i <= Len(a) THEN a[i] ELSE b[i - Len(a)]
  BY ConcatProperties
<1> HIDE DEF ab
<1>7. ab \in Seq(S)
  BY <1>1
<1>2. /\ r \in Seq(S) /\ Len(r) = Len(ab) + Len(c)
      /\ \A i \in 1..(Len(ab) + Len(c)) : r[i] = IF i <= Len(ab) THEN ab[i] ELSE c[i - Len(ab)]
  BY <1>7, ConcatProperties
<1> HIDE DEF r
<1>3. Len(r) = Len(a) + Len(b) + Len(c)
  BY <1>0, <1>1, <1>2
<1>4. ASSUME NEW k \in 1..Len(a)
      PROVE  r[k] = a[k]
  <2>1. k \in 1..(Len(ab) + Len(c)) /\ k <= Len(ab) /\ k \in 1..(Len(a) + Len(b)) /\ k <= Len(a)
    BY <1>0, <1>1
  <2> QED BY <1>1, <1>2, <2>1
<1>5. ASSUME NEW k \in 1..Len(b)
      PROVE  r[Len(a) + k] = b[k]
  <2>1. /\ Len(a) + k \in 1..(Len(ab) + Len(c)) /\ Len(a) + k <= Len(ab)
        /\ Len(a) + k \in 1..(Len(a) + Len(b)) /\ ~(Len(a) + k <= Len(a)) /\ (Len(a) + k) - Len(a) = k
    BY <1>0, <1>1
  <2> QED BY <1>1, <1>2, <2>1
<1>6. ASSUME NEW k \in 1..Len(c)
      PROVE  r[Len(a) + Len(b) + k] = c[k]
  <2>1. /\ Len(a) + Len(b) + k \in 1..(Len(ab) + Len(c)) /\ ~(Len(a) + Len(b) + k <= Len(ab))
        /\ (Len(a) + Len(b) + k) - Len(ab) = k
    BY <1>0, <1>1
  <2> QED BY <1>2, <2>1
<1>8. Joined(S, r, a, b, c)
  BY <1>2, <1>3, <1>4, <1>5, <1>6 DEF Joined
<1> QED BY <1>8 DEF r, ab

LEMMA EqualToConcatThree ==
  ASSUME NEW S, NEW a \in Seq(S), NEW b \in Seq(S), NEW c \in Seq(S), NEW r,
         Joined(S, r, a, b, c)
  PROVE  r = (a \o b) \o c
<1>0. Len(a) \in Nat /\ Len(b) \in Nat /\ Len(c) \in Nat
  BY LenProperties
<1> DEFINE q == (a \o b) \o c
<1>4. Joined(S, q, a, b, c)
  BY ConcatThree
<1> HIDE DEF q
<1>1. /\ q \in Seq(S)
      /\ Len(q) = Len(a) + Len(b) + Len(c)
      /\ \A k \in 1..Len(a) : q[k] = a[k]
      /\ \A k \in 1..Len(b) : q[Len(a) + k] = b[k]
      /\ \A k \in 1..Len(c) : q[Len(a) + Len(b) + k] = c[k]
  BY <1>4 DEF Joined
<1>5. /\ r \in Seq(S)
      /\ Len(r) = Len(a) + Len(b) + Len(c)
      /\ \A k \in 1..Len(a) : r[k] = a[k]
      /\ \A k \in 1..Len(b) : r[Len(a) + k] = b[k]
      /\ \A k \in 1..Len(c) : r[Len(a) + Len(b) + k] = c[k]
  BY DEF Joined
<1>2. ASSUME NEW i \in 1..Len(r)
      PROVE  r[i] = q[i]
  <2>1. CASE i \in 1..Len(a)
    BY <1>1, <1>5, <2>1
  <2>2. CASE i - Len(a) \in 1..Len(b)
    <3>1. i = Len(a) + (i - Len(a))
      BY <1>0
    <3> QED BY <1>1, <1>5, <2>2, <3>1
  <2>3. CASE i - (Len(a) + Len(b)) \in 1..Len(c)
    <3>1. i = Len(a) + Len(b) + (i - (Len(a) + Len(b)))
      BY <1>0
    <3> QED BY <1>1, <1>5, <2>3, <3>1
  <2> QED BY <1>0, <1>5, <2>1, <2>2, <2>3
<1>3. r = q
  BY <1>1, <1>2, <1>5, SeqEqual
<1> QED BY <1>3 DEF q

PieceOf(r, lo, hi, k) ==
    IF Max({lo, At(r, k - 1)}) < Min({hi, At(r, k - 1) + r[k].len})
      THEN <<[r[k] EXCEPT !.from = @ + Max({lo, At(r, k - 1)}) - At(r, k - 1),
                          !.len = Min({hi, At(r, k - 1) + r[k].len}) - Max({lo, At(r, k - 1)})]>>
      ELSE <<>>

LEMMA SliceIsPieces ==
  ASSUME NEW r, NEW lo, NEW hi
  PROVE  Slice(r, lo, hi) = FlattenSeq([k \in DOMAIN r |-> PieceOf(r, lo, hi, k)])
BY DEF Slice, PieceOf, At

LEMMA PieceBefore ==
  ASSUME NEW S, Sized(S), NEW r \in Seq(S), NEW lo \in Int, NEW hi \in Int,
         NEW k \in 1..Len(r), At(r, k) <= lo \/ At(r, k - 1) >= hi
  PROVE  PieceOf(r, lo, hi, k) = <<>>
<1>1. /\ At(r, k - 1) \in Nat /\ r[k].len \in Nat
      /\ At(r, k) = At(r, k - 1) + r[k].len
  BY AtStep
<1>2. /\ Max({lo, At(r, k - 1)}) = IF lo >= At(r, k - 1) THEN lo ELSE At(r, k - 1)
      /\ Min({hi, At(r, k - 1) + r[k].len})
           = IF hi <= At(r, k - 1) + r[k].len THEN hi ELSE At(r, k - 1) + r[k].len
  BY <1>1, LargerOfTwo, SmallerOfTwo
<1>3. ~(Max({lo, At(r, k - 1)}) < Min({hi, At(r, k - 1) + r[k].len}))
  BY <1>1, <1>2
<1> QED BY <1>3 DEF PieceOf

LEMMA PieceInside ==
  ASSUME NEW S, Sized(S), NEW r \in Seq(Whole(S)), NEW lo \in Int, NEW hi \in Int,
         NEW k \in 1..Len(r), At(r, k - 1) >= lo, At(r, k) <= hi
  PROVE  PieceOf(r, lo, hi, k) = <<r[k]>>
<1>0. r[k] \in Whole(S)
  BY ElementOfSeq
<1>1. /\ At(r, k - 1) \in Nat /\ r[k].len \in Nat
      /\ At(r, k) = At(r, k - 1) + r[k].len
  BY AtStep, WholeSized
<1>2. r[k].len \in Nat \ {0} /\ r[k] = [of |-> r[k].of, from |-> 0, len |-> r[k].len]
  BY <1>0, WholeSized
<1>3. Max({lo, At(r, k - 1)}) = At(r, k - 1)
  <2>1. Max({lo, At(r, k - 1)}) = IF lo >= At(r, k - 1) THEN lo ELSE At(r, k - 1)
    BY <1>1, LargerOfTwo
  <2> QED BY <1>1, <2>1
<1>4. Min({hi, At(r, k - 1) + r[k].len}) = At(r, k - 1) + r[k].len
  <2>1. At(r, k - 1) + r[k].len \in Int
    BY <1>1
  <2>2. Min({hi, At(r, k - 1) + r[k].len})
           = IF hi <= At(r, k - 1) + r[k].len THEN hi ELSE At(r, k - 1) + r[k].len
    BY <2>1, SmallerOfTwo
  <2> QED BY <1>1, <2>2
<1>5. At(r, k - 1) < At(r, k - 1) + r[k].len
  BY <1>1, <1>2
<1>6. PieceOf(r, lo, hi, k)
        = <<[r[k] EXCEPT !.from = @ + At(r, k - 1) - At(r, k - 1),
                         !.len = (At(r, k - 1) + r[k].len) - At(r, k - 1)]>>
  BY <1>3, <1>4, <1>5 DEF PieceOf
<1>7. [r[k] EXCEPT !.from = @ + At(r, k - 1) - At(r, k - 1),
                   !.len = (At(r, k - 1) + r[k].len) - At(r, k - 1)] = r[k]
  <2>1. r[k].from + At(r, k - 1) - At(r, k - 1) = 0
    <3>1. r[k].from = 0
      BY <1>2
    <3> QED BY <1>1, <3>1
  <2>2. (At(r, k - 1) + r[k].len) - At(r, k - 1) = r[k].len
    BY <1>1
  <2>3. r[k] = [of |-> r[k].of, from |-> 0, len |-> r[k].len]
    BY <1>2
  <2> QED BY <2>1, <2>2, <2>3, WholeRun
<1> QED BY <1>6, <1>7

LEMMA SliceMiddle ==
  ASSUME NEW S, Sized(S), NEW a \in Seq(Whole(S)), NEW b \in Seq(Whole(S)), NEW c \in Seq(Whole(S))
  PROVE  Slice((a \o b) \o c, ByteCount(a), ByteCount(a) + ByteCount(b)) = b
<1> DEFINE W == Whole(S)
           ab == a \o b
           r == ab \o c
           lo == ByteCount(a)
           hi == ByteCount(a) + ByteCount(b)
<1>0. Sized(W)
  BY WholeSized
<1>1. Len(a) \in Nat /\ Len(b) \in Nat /\ Len(c) \in Nat
  BY LenProperties
<1>2. /\ ab \in Seq(W) /\ Len(ab) = Len(a) + Len(b)
      /\ \A i \in 1..(Len(a) + Len(b)) : ab[i] = IF i <= Len(a) THEN a[i] ELSE b[i - Len(a)]
  BY ConcatProperties
<1>3. lo \in Nat /\ ByteCount(b) \in Nat /\ ByteCount(ab) = hi
  BY <1>0, CountType, CountConcat
<1> HIDE DEF W, ab
<1>22. a \in Seq(W) /\ b \in Seq(W) /\ c \in Seq(W)
  BY DEF W
<1>4. /\ r \in Seq(W) /\ Len(r) = Len(a) + Len(b) + Len(c)
      /\ \A k \in 1..Len(b) : r[Len(a) + k] = b[k]
  <2>1. Joined(W, r, a, b, c)
    BY <1>22, ConcatThree DEF ab
  <2> HIDE DEF r
  <2> QED BY <2>1 DEF Joined
<1>5. \A k \in 0..(Len(ab) + Len(c)) :
         At(r, k) = IF k <= Len(ab) THEN At(ab, k) ELSE ByteCount(ab) + At(c, k - Len(ab))
  BY <1>0, <1>2, AtConcat DEF W
<1>6. \A k \in 0..(Len(a) + Len(b)) :
         At(ab, k) = IF k <= Len(a) THEN At(a, k) ELSE ByteCount(a) + At(b, k - Len(a))
  BY <1>0, AtConcat DEF W, ab
<1>7. At(r, Len(a)) = lo /\ At(r, Len(a) + Len(b)) = hi
  <2>1. At(a, Len(a)) = ByteCount(a) /\ At(ab, Len(ab)) = ByteCount(ab)
    BY <1>0, <1>2, AtEnds DEF W
  <2>2. Len(a) \in 0..(Len(a) + Len(b)) /\ Len(a) \in 0..(Len(ab) + Len(c)) /\ Len(a) <= Len(ab)
        /\ Len(ab) \in 0..(Len(ab) + Len(c))
    BY <1>1, <1>2
  <2> QED BY <1>1, <1>2, <1>3, <1>5, <1>6, <2>1, <2>2
<1> HIDE DEF r, lo, hi
<1>8. Len(r) = Len(a) + Len(b) + Len(c) /\ Len(r) \in Nat
  BY <1>1, <1>2, <1>4
<1>9. lo \in Int /\ hi \in Int
  BY <1>3 DEF hi, lo
<1> DEFINE P == [k \in DOMAIN r |-> PieceOf(r, lo, hi, k)]
           Pa == [k \in 1..Len(a) |-> <<>>]
           Pb == [k \in 1..Len(b) |-> <<b[k]>>]
           Pc == [k \in 1..Len(c) |-> <<>>]
<1>10. Slice(r, lo, hi) = FlattenSeq(P)
  BY SliceIsPieces
<1>11. ASSUME NEW k \in 1..Len(a)
       PROVE  PieceOf(r, lo, hi, k) = <<>>
  <2>1. k \in 0..Len(r) /\ Len(a) \in k..Len(r) /\ k \in 1..Len(r)
    BY <1>1, <1>8
  <2>2. At(r, k) <= At(r, Len(a))
    BY <1>0, <1>4, <2>1, AtRises
  <2> QED BY <1>0, <1>4, <1>7, <1>9, <2>1, <2>2, PieceBefore
<1>12. ASSUME NEW k \in 1..Len(b)
       PROVE  PieceOf(r, lo, hi, Len(a) + k) = <<b[k]>>
  <2> DEFINE n == Len(a) + k
  <2>1. /\ n \in 1..Len(r) /\ n \in 0..Len(r) /\ Len(a) + Len(b) \in n..Len(r)
        /\ n - 1 \in Len(a)..Len(r) /\ Len(a) \in 0..Len(r)
    BY <1>1, <1>8
  <2>2. r[n] = b[k]
    BY <1>4
  <2> HIDE DEF n
  <2>3. At(r, n) <= At(r, Len(a) + Len(b)) /\ At(r, Len(a)) <= At(r, n - 1)
    BY <1>0, <1>4, <2>1, AtRises
  <2>4. At(r, n - 1) \in Nat
    BY <1>0, <1>4, <2>1, AtStep
  <2>5. At(r, n - 1) >= lo /\ At(r, n) <= hi
    BY <1>7, <1>9, <2>3, <2>4
  <2>6. PieceOf(r, lo, hi, n) = <<r[n]>>
    BY <1>4, <1>9, <2>1, <2>5, PieceInside DEF W
  <2> QED BY <2>2, <2>6 DEF n
<1>13. ASSUME NEW k \in 1..Len(c)
       PROVE  PieceOf(r, lo, hi, Len(a) + Len(b) + k) = <<>>
  <2> DEFINE n == Len(a) + Len(b) + k
  <2>1. /\ n \in 1..Len(r) /\ n - 1 \in (Len(a) + Len(b))..Len(r) /\ Len(a) + Len(b) \in 0..Len(r)
    BY <1>1, <1>8
  <2> HIDE DEF n
  <2>2. At(r, Len(a) + Len(b)) <= At(r, n - 1)
    BY <1>0, <1>4, <2>1, AtRises
  <2>3. At(r, n - 1) \in Nat
    BY <1>0, <1>4, <2>1, AtStep
  <2>4. At(r, n - 1) >= hi
    BY <1>7, <1>9, <2>2, <2>3
  <2>5. PieceOf(r, lo, hi, n) = <<>>
    BY <1>0, <1>4, <1>9, <2>1, <2>4, PieceBefore
  <2> QED BY <2>5 DEF n
<1>14. DOMAIN r = 1..Len(r)
  BY <1>4, LenProperties
<1>15. \A k \in 1..Len(b) : b[k] \in W
  BY ElementOfSeq DEF W
<1>16. Pa \in Seq(Seq(W)) /\ Len(Pa) = Len(a) /\ Pc \in Seq(Seq(W)) /\ Len(Pc) = Len(c)
  BY <1>1
<1>17. Pb \in Seq(Seq(W)) /\ Len(Pb) = Len(b)
  BY <1>1, <1>15
<1>18. P = (Pa \o Pb) \o Pc
  <2>1. /\ \A k \in 1..Len(a) : Pa[k] = <<>>
        /\ \A k \in 1..Len(b) : Pb[k] = <<b[k]>>
        /\ \A k \in 1..Len(c) : Pc[k] = <<>>
    OBVIOUS
  <2>2. ASSUME NEW k \in 1..Len(r)
        PROVE  PieceOf(r, lo, hi, k) \in Seq(W)
    <3> DEFINE e == <<>>
    <3>4. e \in Seq(W)
      OBVIOUS
    <3>5. \A i \in 1..Len(b) : <<b[i]>> \in Seq(W)
      BY <1>15
    <3>6. /\ \A i \in 1..Len(a) : PieceOf(r, lo, hi, i) = e
          /\ \A i \in 1..Len(c) : PieceOf(r, lo, hi, Len(a) + Len(b) + i) = e
      BY <1>11, <1>13
    <3> HIDE DEF e
    <3>1. CASE k \in 1..Len(a)
      BY <3>1, <3>4, <3>6
    <3>2. CASE k - Len(a) \in 1..Len(b)
      <4>1. PieceOf(r, lo, hi, Len(a) + (k - Len(a))) = <<b[k - Len(a)]>>
        BY <1>12, <3>2
      <4>2. Len(a) + (k - Len(a)) = k
        BY <1>1
      <4>3. <<b[k - Len(a)]>> \in Seq(W)
        BY <3>2, <3>5
      <4> QED BY <4>1, <4>2, <4>3
    <3>3. CASE k - (Len(a) + Len(b)) \in 1..Len(c)
      <4>1. PieceOf(r, lo, hi, Len(a) + Len(b) + (k - (Len(a) + Len(b)))) = e
        BY <3>3, <3>6
      <4>2. Len(a) + Len(b) + (k - (Len(a) + Len(b))) = k
        BY <1>1
      <4> QED BY <3>4, <4>1, <4>2
    <3> QED BY <1>1, <1>8, <3>1, <3>2, <3>3
  <2>3. P \in Seq(Seq(W)) /\ Len(P) = Len(a) + Len(b) + Len(c)
    BY <1>8, <1>14, <2>2
  <2>4. \A k \in 1..Len(r) : P[k] = PieceOf(r, lo, hi, k)
    BY <1>14
  <2>5. \A k \in 1..Len(a) : P[k] = Pa[k]
    <3> HIDE DEF P, Pa
    <3> QED BY <1>1, <1>8, <1>11, <2>1, <2>4
  <2>6. \A k \in 1..Len(b) : P[Len(a) + k] = Pb[k]
    <3> SUFFICES ASSUME NEW k \in 1..Len(b)
                 PROVE  P[Len(a) + k] = Pb[k]
      OBVIOUS
    <3> HIDE DEF P, Pb
    <3>1. P[Len(a) + k] = PieceOf(r, lo, hi, Len(a) + k)
      BY <1>1, <1>8, <2>4
    <3>2. PieceOf(r, lo, hi, Len(a) + k) = <<b[k]>>
      BY <1>12
    <3> QED BY <2>1, <3>1, <3>2
  <2>7. \A k \in 1..Len(c) : P[Len(a) + Len(b) + k] = Pc[k]
    <3> HIDE DEF P, Pc
    <3> QED BY <1>1, <1>8, <1>13, <2>1, <2>4
  <2> HIDE DEF P, Pa, Pb, Pc
  <2>8. Pa \in Seq(Seq(W))
    BY <1>16
  <2>9. Pb \in Seq(Seq(W))
    BY <1>17
  <2>10. Pc \in Seq(Seq(W))
    BY <1>16
  <2>11. Joined(Seq(W), P, Pa, Pb, Pc)
    BY <1>16, <1>17, <2>3, <2>5, <2>6, <2>7 DEF Joined
  <2> QED BY <2>8, <2>9, <2>10, <2>11, EqualToConcatThree
<1>19. FlattenSeq(Pa) = <<>> /\ FlattenSeq(Pc) = <<>> /\ FlattenSeq(Pb) = b
  <2> DEFINE n == [x \in W |-> <<>>]
             o == [x \in W |-> <<x>>]
  <2>1. n \in [W -> Seq(W)] /\ (\A x \in W : n[x] = <<>>)
    OBVIOUS
  <2>2. DOMAIN a = 1..Len(a) /\ DOMAIN b = 1..Len(b) /\ DOMAIN c = 1..Len(c)
    BY LenProperties
  <2>3. (\A k \in 1..Len(a) : a[k] \in W) /\ (\A k \in 1..Len(c) : c[k] \in W)
    BY ElementOfSeq DEF W
  <2>4. Mapped(n, a) = Pa /\ Mapped(n, c) = Pc
    BY <2>2, <2>3 DEF Mapped
  <2>5. Mapped(o, b) = Pb
    BY <1>15, <2>2 DEF Mapped
  <2>6. Flat(o, b) = b
    BY FlatOfSelf DEF W
  <2> HIDE DEF n
  <2>7. \A s \in {a, c} : Flat(n, s) = <<>>
    <3> SUFFICES ASSUME NEW s \in {a, c}
                 PROVE  Flat(n, s) = <<>>
      OBVIOUS
    <3>1. s \in Seq(W) /\ \A i \in 1..Len(s) : n[s[i]] = <<>>
      BY <2>1, <2>3 DEF W
    <3> QED BY <2>1, <3>1, FlatOfNothing
  <2> QED BY <2>4, <2>5, <2>6, <2>7 DEF Flat
<1>20. FlattenSeq((Pa \o Pb) \o Pc) = (<<>> \o b) \o <<>>
  <2> HIDE DEF Pa, Pb, Pc
  <2>1. Pa \o Pb \in Seq(Seq(W))
    BY <1>16, <1>17, ConcatProperties
  <2>2. FlattenSeq((Pa \o Pb) \o Pc) = FlattenSeq(Pa \o Pb) \o FlattenSeq(Pc)
    BY <1>16, <2>1, FlattenConcat
  <2>3. FlattenSeq(Pa \o Pb) = FlattenSeq(Pa) \o FlattenSeq(Pb)
    BY <1>16, <1>17, FlattenConcat
  <2> QED BY <1>19, <2>2, <2>3
<1>21. (<<>> \o b) \o <<>> = b
  BY ConcatEmptySeq
<1> QED BY <1>10, <1>18, <1>20, <1>21 DEF r, ab, lo, hi

-----------------------------------------------------------------------------
(* The bytes of a sequence of sections. *)
Body(s) == FlattenSeq([k \in DOMAIN s |-> Run(s[k])])

Runs(S) == [c \in S |-> Run(c)]

LEMMA RunType ==
  ASSUME NEW S, Sized(S)
  PROVE  /\ Runs(S) \in [S -> Seq(Whole(S))]
         /\ \A c \in S : Runs(S)[c] = Run(c) /\ Run(c) \in Seq(Whole(S)) /\ ByteCount(Run(c)) = c.len
<1>1. ASSUME NEW c \in S
      PROVE  Run(c) \in Seq(Whole(S)) /\ ByteCount(Run(c)) = c.len
  <2>1. CASE c.len = 0
    BY <2>1, CountEmpty DEF Run
  <2>2. CASE c.len # 0
    <3> DEFINE w == [of |-> c, from |-> 0, len |-> c.len]
    <3>1. w \in Whole(S) /\ w.len = c.len
      BY <2>2 DEF Whole
    <3>2. Run(c) = <<w>>
      BY <2>2 DEF Run
    <3>3. w.len \in Nat
      BY <3>1 DEF Sized
    <3> HIDE DEF w
    <3>4. ByteCount(<<w>>) = w.len
      BY <3>3, CountOne
    <3> QED BY <3>1, <3>2, <3>4
  <2> QED BY <2>1, <2>2
<1>2. \A c \in S : Run(c) \in Seq(Whole(S))
  BY <1>1
<1>3. Runs(S) \in [S -> Seq(Whole(S))]
  BY <1>2 DEF Runs
<1>4. \A c \in S : Runs(S)[c] = Run(c)
  BY DEF Runs
<1> QED BY <1>1, <1>3, <1>4

LEMMA BodyIsFlat ==
  ASSUME NEW S, NEW s \in Seq(S)
  PROVE  Body(s) = Flat(Runs(S), s)
<1>1. \A i \in DOMAIN s : s[i] \in S
  BY LenProperties, ElementOfSeq
<1>2. [k \in DOMAIN s |-> Run(s[k])] = Mapped(Runs(S), s)
  BY <1>1 DEF Mapped, Runs
<1> QED BY <1>2 DEF Body, Flat

LEMMA BodyType ==
  ASSUME NEW S, Sized(S), NEW s \in Seq(S)
  PROVE  Body(s) \in Seq(Whole(S))
<1>1. Runs(S) \in [S -> Seq(Whole(S))]
  BY RunType
<1>2. Flat(Runs(S), s) \in Seq(Whole(S))
  BY <1>1, FlatType
<1> QED BY <1>2, BodyIsFlat

LEMMA BodyConcat ==
  ASSUME NEW S, Sized(S), NEW s \in Seq(S), NEW t \in Seq(S)
  PROVE  Body(s \o t) = Body(s) \o Body(t)
<1> DEFINE f == Runs(S)
<1>1. f \in [S -> Seq(Whole(S))]
  BY RunType
<1>2. s \o t \in Seq(S)
  BY ConcatProperties
<1>3. Body(s) = Flat(f, s) /\ Body(t) = Flat(f, t) /\ Body(s \o t) = Flat(f, s \o t)
  BY <1>2, BodyIsFlat
<1> HIDE DEF f
<1>4. Flat(f, s \o t) = Flat(f, s) \o Flat(f, t)
  BY <1>1, FlatConcat
<1> QED BY <1>3, <1>4

LEMMA BodyOne ==
  ASSUME NEW x, x.len \in Nat
  PROVE  Body(<<x>>) = Run(x)
<1> DEFINE S == {x}
           f == Runs(S)
<1>1. Sized(S) /\ x \in S /\ <<x>> \in Seq(S)
  BY DEF Sized
<1>2. f \in [S -> Seq(Whole(S))] /\ f[x] = Run(x)
  BY <1>1, RunType
<1>3. Body(<<x>>) = Flat(f, <<x>>)
  BY <1>1, BodyIsFlat
<1> HIDE DEF f, S
<1>4. Flat(f, <<x>>) = f[x]
  BY <1>1, <1>2, FlatOne
<1> QED BY <1>2, <1>3, <1>4

LEMMA BodyEmpty == Body(<<>>) = <<>>
<1>1. Body(<<>>) = Flat(Runs({}), <<>>)
  BY BodyIsFlat, EmptySeq
<1> QED BY <1>1, FlatNone

LEMMA BodyCount ==
  ASSUME NEW S, Sized(S), NEW s \in Seq(S)
  PROVE  ByteCount(Body(s)) = ByteCount(s)
<1> DEFINE R == {t \in Seq(S) : ByteCount(Body(t)) = ByteCount(t)}
<1>1. <<>> \in R
  BY CountEmpty, BodyEmpty, EmptySeq
<1>2. ASSUME NEW t \in Seq(S), NEW x \in S, t \in R
      PROVE  Append(t, x) \in R
  <2> DEFINE y == <<x>>
  <2>1. y \in Seq(S) /\ Append(t, x) = t \o y /\ Append(t, x) \in Seq(S)
    BY AppendIsConcat, AppendProperties
  <2>2. Body(y) = Run(x) /\ ByteCount(Run(x)) = x.len /\ ByteCount(y) = x.len
    <3>1. x.len \in Nat
      BY DEF Sized
    <3> QED BY <3>1, BodyOne, RunType, CountOne
  <2> HIDE DEF y
  <2>3. Body(t \o y) = Body(t) \o Body(y) /\ Body(t) \in Seq(Whole(S)) /\ Body(y) \in Seq(Whole(S))
    BY <2>1, BodyConcat, BodyType
  <2>4. ByteCount(Body(t) \o Body(y)) = ByteCount(Body(t)) + ByteCount(Body(y))
    BY <2>3, WholeSized, CountConcat
  <2>5. ByteCount(t \o y) = ByteCount(t) + ByteCount(y)
    BY <2>1, CountConcat
  <2>6. ByteCount(Body(t)) = ByteCount(t)
    BY <1>2
  <2>7. ByteCount(Body(t \o y)) = ByteCount(t \o y)
    BY <2>2, <2>3, <2>4, <2>5, <2>6
  <2> QED BY <2>1, <2>7
<1>3. \A t \in Seq(S) : t \in R
  <2> HIDE DEF R
  <2> QED BY <1>1, <1>2, SequenceInSet
<1> QED BY <1>3

LEMMA PartType ==
  ASSUME NEW S, NEW s \in Seq(S), NEW i \in 0..Len(s), NEW j \in i..Len(s)
  PROVE  /\ SubSeq(s, i + 1, j) \in Seq(S) /\ Len(SubSeq(s, i + 1, j)) = j - i
         /\ \A k \in 1..(j - i) : SubSeq(s, i + 1, j)[k] = s[i + k]
<1>1. Len(s) \in Nat
  BY LenProperties
<1>2. \A k \in (i + 1)..j : s[k] \in S
  BY <1>1, ElementOfSeq
<1>3. /\ SubSeq(s, i + 1, j) \in Seq(S)
      /\ Len(SubSeq(s, i + 1, j)) = IF i + 1 <= j THEN j - (i + 1) + 1 ELSE 0
      /\ \A k \in 1..(j - (i + 1) + 1) : SubSeq(s, i + 1, j)[k] = s[(i + 1) + k - 1]
  BY <1>1, <1>2, SubSeqProperties
<1>4. j - (i + 1) + 1 = j - i /\ \A k \in 1..(j - i) : (i + 1) + k - 1 = i + k
  BY <1>1
<1> QED BY <1>1, <1>3, <1>4

LEMMA InThreeParts ==
  ASSUME NEW S, NEW s \in Seq(S), NEW i \in 0..Len(s), NEW j \in i..Len(s)
  PROVE  s = (SubSeq(s, 1, i) \o SubSeq(s, i + 1, j)) \o SubSeq(s, j + 1, Len(s))
<1> DEFINE n == Len(s)
<1>0. n \in Nat
  BY LenProperties
<1>1. 1 \in 1..(n + 1) /\ i \in (1 - 1)..n /\ j \in i..n /\ n \in j..n /\ j \in (1 - 1)..n
  BY <1>0
<1>2. SubSeq(s, 1, i) \o SubSeq(s, i + 1, j) = SubSeq(s, 1, j)
  BY <1>1, ConcatAdjacentSubSeq
<1>3. SubSeq(s, 1, j) \o SubSeq(s, j + 1, n) = SubSeq(s, 1, n)
  BY <1>1, ConcatAdjacentSubSeq
<1>4. SubSeq(s, 1, n) = s
  BY SubSeqFull
<1> QED BY <1>2, <1>3, <1>4

LEMMA AtPart ==
  ASSUME NEW S, Sized(S), NEW s \in Seq(S), NEW i \in 0..Len(s), NEW j \in i..Len(s),
         NEW k \in 0..(j - i)
  PROVE  At(SubSeq(s, i + 1, j), k) = At(s, i + k) - At(s, i)
<1>0. Len(s) \in Nat
  BY LenProperties
<1> DEFINE p == SubSeq(s, i + 1, j)
           T == {m \in Nat : m <= j - i => At(p, m) = At(s, i + m) - At(s, i)}
<1>1. /\ p \in Seq(S) /\ Len(p) = j - i
      /\ \A m \in 1..(j - i) : p[m] = s[i + m]
  BY PartType
<1> HIDE DEF p
<1>2. 0 \in T
  <2>1. At(p, 0) = 0 /\ At(s, i) \in Nat /\ i + 0 = i
    BY <1>1, AtEnds, AtType
  <2> QED BY <2>1
<1>3. ASSUME NEW m \in Nat, m \in T
      PROVE  m + 1 \in T
  <2>1. SUFFICES ASSUME m + 1 <= j - i
                 PROVE  At(p, m + 1) = At(s, i + (m + 1)) - At(s, i)
    OBVIOUS
  <2>2. /\ m + 1 \in 1..Len(p) /\ i + (m + 1) \in 1..Len(s) /\ m + 1 \in 1..(j - i)
        /\ (m + 1) - 1 = m /\ (i + (m + 1)) - 1 = i + m
    BY <1>0, <1>1, <2>1
  <2>3. At(p, m) \in Nat /\ p[m + 1].len \in Nat /\ At(p, m + 1) = At(p, m) + p[m + 1].len
    BY <1>1, <2>2, AtStep
  <2>4. /\ At(s, i + m) \in Nat /\ s[i + (m + 1)].len \in Nat
        /\ At(s, i + (m + 1)) = At(s, i + m) + s[i + (m + 1)].len
    BY <2>2, AtStep
  <2>5. At(p, m) = At(s, i + m) - At(s, i) /\ At(s, i) \in Nat
    BY <1>0, <1>3, <2>1, AtType
  <2>6. p[m + 1] = s[i + (m + 1)]
    BY <1>1, <2>2
  <2> QED BY <2>3, <2>4, <2>5, <2>6
<1>4. \A m \in Nat : m \in T
  <2> HIDE DEF T
  <2> QED BY <1>2, <1>3, InductionInSet
<1> QED BY <1>0, <1>4 DEF p

LEMMA CountPart ==
  ASSUME NEW S, Sized(S), NEW s \in Seq(S), NEW i \in 0..Len(s), NEW j \in i..Len(s)
  PROVE  ByteCount(SubSeq(s, i + 1, j)) = At(s, j) - At(s, i)
<1>1. SubSeq(s, i + 1, j) \in Seq(S) /\ Len(SubSeq(s, i + 1, j)) = j - i
  BY PartType
<1>2. At(SubSeq(s, i + 1, j), j - i) = ByteCount(SubSeq(s, i + 1, j))
  BY <1>1, AtEnds
<1>3. j - i \in 0..(j - i) /\ i + (j - i) = j
  BY LenProperties
<1>4. At(SubSeq(s, i + 1, j), j - i) = At(s, i + (j - i)) - At(s, i)
  BY <1>3, AtPart
<1> QED BY <1>2, <1>3, <1>4

LEMMA PartOfBody ==
  ASSUME NEW S, Sized(S), NEW s \in Seq(S), NEW i \in 0..Len(s), NEW j \in i..Len(s)
  PROVE  Slice(Body(s), At(s, i), At(s, j)) = Body(SubSeq(s, i + 1, j))
<1>0. Len(s) \in Nat
  BY LenProperties
<1> DEFINE u == SubSeq(s, 1, i)
           v == SubSeq(s, i + 1, j)
           w == SubSeq(s, j + 1, Len(s))
<1>1. u \in Seq(S) /\ v \in Seq(S) /\ w \in Seq(S)
  <2>1. j \in 0..Len(s) /\ Len(s) \in j..Len(s)
    BY <1>0
  <2> QED BY <2>1, PrefixType, PartType
<1>2. s = (u \o v) \o w
  BY InThreeParts
<1>3. At(s, i) = ByteCount(u) /\ ByteCount(v) = At(s, j) - At(s, i)
  BY CountPart DEF At
<1>4. At(s, i) \in Nat /\ At(s, j) \in Nat
  BY <1>0, AtType
<1> HIDE DEF u, v, w
<1>5. u \o v \in Seq(S)
  BY <1>1, ConcatProperties
<1>6. Body(s) = (Body(u) \o Body(v)) \o Body(w)
  <2>1. Body(u \o v) = Body(u) \o Body(v)
    BY <1>1, BodyConcat
  <2>2. Body((u \o v) \o w) = Body(u \o v) \o Body(w)
    BY <1>1, <1>5, BodyConcat
  <2> QED BY <1>2, <2>1, <2>2
<1>7. Body(u) \in Seq(Whole(S)) /\ Body(v) \in Seq(Whole(S)) /\ Body(w) \in Seq(Whole(S))
  BY <1>1, BodyType
<1>8. ByteCount(Body(u)) = ByteCount(u) /\ ByteCount(Body(v)) = ByteCount(v)
  BY <1>1, BodyCount
<1>9. Slice((Body(u) \o Body(v)) \o Body(w), ByteCount(Body(u)), ByteCount(Body(u)) + ByteCount(Body(v)))
        = Body(v)
  BY <1>7, SliceMiddle
<1>10. ByteCount(u) + ByteCount(v) = At(s, j)
  BY <1>3, <1>4
<1> QED BY <1>3, <1>6, <1>8, <1>9, <1>10 DEF v

-----------------------------------------------------------------------------
(* The database that holds given sections. *)
Entry(s, zero, k) == [ofs |-> zero + At(s, k - 1), id |-> 2 * (k - 1)]

Zero(pdb, n) == FirstRecord + EntrySize * n + pdb.pad

Holds(pdb, s) ==
    /\ pdb.seed = 2 * Len(s) + 1
    /\ pdb.pad \in Nat
    /\ pdb.table = [k \in 1..Len(s) |-> Entry(s, Zero(pdb, Len(s)), k)]
    /\ pdb.body = Body(s)

LEMMA Layout ==
  ASSUME NEW S, Sized(S), NEW s \in Seq(S), NEW pdb, Holds(pdb, s)
  PROVE  /\ Len(pdb.table) = Len(s) /\ Len(s) \in Nat
         /\ BodyStart(pdb) \in Nat /\ BodyStart(pdb) = FirstRecord + EntrySize * Len(s) + pdb.pad
         /\ FileSize(pdb) = BodyStart(pdb) + ByteCount(s)
         /\ \A k \in 1..Len(s) : pdb.table[k] = Entry(s, BodyStart(pdb), k)
         /\ \A i \in 0..(Len(s) - 1) : /\ Start(pdb, i) = BodyStart(pdb) + At(s, i)
                                      /\ End(pdb, i) = BodyStart(pdb) + At(s, i + 1)
<1>0. Len(s) \in Nat
  BY LenProperties
<1>1. Len(pdb.table) = Len(s) /\ \A k \in 1..Len(s) : pdb.table[k] = Entry(s, Zero(pdb, Len(s)), k)
  <2>1. pdb.table = [k \in 1..Len(s) |-> Entry(s, Zero(pdb, Len(s)), k)]
    BY DEF Holds
  <2> QED BY <1>0, <2>1
<1>2. BodyStart(pdb) = Zero(pdb, Len(s))
  BY <1>1 DEF BodyStart, Zero
<1>3. BodyStart(pdb) \in Nat /\ BodyStart(pdb) = FirstRecord + EntrySize * Len(s) + pdb.pad
  BY <1>0, <1>2 DEF Zero, Holds, FirstRecord, EntrySize
<1>4. FileSize(pdb) = BodyStart(pdb) + ByteCount(s)
  <2>1. ByteCount(pdb.body) = ByteCount(s)
    BY BodyCount DEF Holds
  <2> QED BY <2>1 DEF FileSize
<1>5. \A i \in 0..(Len(s) - 1) : Start(pdb, i) = BodyStart(pdb) + At(s, i)
  <2> SUFFICES ASSUME NEW i \in 0..(Len(s) - 1)
               PROVE  Start(pdb, i) = BodyStart(pdb) + At(s, i)
    OBVIOUS
  <2>1. i + 1 \in 1..Len(s) /\ (i + 1) - 1 = i
    BY <1>0
  <2>3. pdb.table[i + 1] = Entry(s, Zero(pdb, Len(s)), i + 1)
    BY <1>1, <2>1
  <2>2. pdb.table[i + 1].ofs = Zero(pdb, Len(s)) + At(s, (i + 1) - 1)
    BY <2>3 DEF Entry
  <2> QED BY <1>2, <2>1, <2>2 DEF Start
<1>6. \A i \in 0..(Len(s) - 1) : End(pdb, i) = BodyStart(pdb) + At(s, i + 1)
  <2> SUFFICES ASSUME NEW i \in 0..(Len(s) - 1)
               PROVE  End(pdb, i) = BodyStart(pdb) + At(s, i + 1)
    OBVIOUS
  <2>1. CASE i = Len(s) - 1
    <3>1. At(s, i + 1) = ByteCount(s)
      <4>1. i + 1 = Len(s)
        BY <1>0, <2>1
      <4> QED BY <4>1, AtEnds
    <3> QED BY <1>1, <1>4, <2>1, <3>1 DEF End
  <2>2. CASE i # Len(s) - 1
    <3>1. i + 1 \in 0..(Len(s) - 1)
      BY <1>0, <2>2
    <3> QED BY <1>1, <1>5, <2>2, <3>1 DEF End
  <2> QED BY <2>1, <2>2
<1> QED BY <1>0, <1>1, <1>2, <1>3, <1>4, <1>5, <1>6

LEMMA BetweenSections ==
  ASSUME NEW S, Sized(S), NEW s \in Seq(S), NEW pdb, Holds(pdb, s),
         NEW i \in 0..Len(s), NEW j \in i..Len(s)
  PROVE  Between(pdb, BodyStart(pdb) + At(s, i), BodyStart(pdb) + At(s, j)) = Body(SubSeq(s, i + 1, j))
<1>1. BodyStart(pdb) \in Nat /\ Len(s) \in Nat
  BY Layout
<1>2. At(s, i) \in Nat /\ At(s, j) \in Nat
  BY <1>1, AtType
<1>3. (BodyStart(pdb) + At(s, i)) - BodyStart(pdb) = At(s, i)
      /\ (BodyStart(pdb) + At(s, j)) - BodyStart(pdb) = At(s, j)
  BY <1>1, <1>2
<1>4. Slice(Body(s), At(s, i), At(s, j)) = Body(SubSeq(s, i + 1, j))
  BY PartOfBody
<1> QED BY <1>3, <1>4 DEF Between, Holds

LEMMA ReadsTheSection ==
  ASSUME NEW S, Sized(S), NEW s \in Seq(S), NEW pdb, Holds(pdb, s), NEW i \in 0..(Len(s) - 1)
  PROVE  Content(pdb, i) = IF s[i + 1].len = 0 THEN Empty ELSE s[i + 1]
<1>0. Len(s) \in Nat
  BY LenProperties
<1> DEFINE x == s[i + 1]
<1>1. x \in S /\ x.len \in Nat
  BY <1>0, ElementOfSeq DEF Sized
<1>2. Start(pdb, i) = BodyStart(pdb) + At(s, i) /\ End(pdb, i) = BodyStart(pdb) + At(s, i + 1)
  BY Layout
<1>3. i \in 0..Len(s) /\ i + 1 \in i..Len(s)
  BY <1>0
<1>4. ReadSection(pdb, i) = Body(SubSeq(s, i + 1, i + 1))
  BY <1>2, <1>3, BetweenSections DEF ReadSection
<1>5. SubSeq(s, i + 1, i + 1) = <<x>>
  <2> DEFINE q == SubSeq(s, i + 1, i + 1)
  <2>1. /\ q \in Seq(S) /\ Len(q) = (i + 1) - i
        /\ \A k \in 1..((i + 1) - i) : q[k] = s[i + k]
    BY <1>3, PartType
  <2>2. (i + 1) - i = 1
    BY <1>0
  <2> HIDE DEF q
  <2>3. Len(q) = 1 /\ q[1] = x
    BY <1>0, <2>1, <2>2
  <2>4. q = <<x>>
    BY <2>1, <2>3
  <2> QED BY <2>4 DEF q
<1> HIDE DEF x
<1>6. ReadSection(pdb, i) = Run(x)
  BY <1>1, <1>4, <1>5, BodyOne
<1>7. CASE x.len = 0
  BY <1>6, <1>7 DEF Content, Run, x
<1>8. CASE x.len # 0
  <2> DEFINE w == [of |-> x, from |-> 0, len |-> x.len]
  <2>1. Run(x) = <<w>> /\ w.of = x /\ w.from = 0 /\ w.len = x.len
    BY <1>8 DEF Run
  <2>2. <<w>> # <<>> /\ Len(<<w>>) = 1 /\ <<w>>[1] = w
    OBVIOUS
  <2> HIDE DEF w
  <2>3. Content(pdb, i) = x
    BY <1>6, <2>1, <2>2 DEF Content
  <2> QED BY <1>8, <2>3 DEF x
<1> QED BY <1>7, <1>8

Entries == [ofs : Int, id : Int]

LEMMA AssembleHolds ==
  ASSUME NEW S, Sized(S), NEW s \in Seq(S), NEW table \in Seq(Entries), NEW zero \in Int,
         zero >= FirstRecord + EntrySize * Len(s),
         Len(table) = Len(s), \A k \in 1..Len(s) : table[k] = Entry(s, zero, k)
  PROVE  Holds(Assemble(2 * Len(s) + 1, table, zero, Body(s)), s)
<1> DEFINE n == Len(s)
           pdb == Assemble(2 * n + 1, table, zero, Body(s))
           m == FirstRecord + EntrySize * n
<1>0. n \in Nat /\ m \in Nat /\ zero - m \in Nat
  BY LenProperties DEF FirstRecord, EntrySize
<1>1. /\ pdb.seed = 2 * n + 1 /\ pdb.table = table /\ pdb.body = Body(s)
      /\ pdb.pad = Max({0, zero - m})
  BY DEF Assemble
<1> HIDE DEF pdb
<1>2. pdb.pad = zero - m
  <2> DEFINE d == zero - m
  <2>1. d \in Nat
    BY <1>0
  <2> HIDE DEF d
  <2>2. Max({0, d}) = IF 0 >= d THEN 0 ELSE d
    BY <2>1, LargerOfTwo
  <2>3. Max({0, d}) = d
    BY <2>1, <2>2
  <2> QED BY <1>1, <2>3 DEF d
<1>3. Zero(pdb, n) = zero
  BY <1>0, <1>2 DEF Zero
<1>4. table = [k \in 1..n |-> table[k]]
  <2>1. DOMAIN table = 1..Len(table) /\ table \in [1..Len(table) -> Entries]
    BY LenProperties
  <2> QED BY <2>1
<1>5. pdb.table = [k \in 1..n |-> Entry(s, Zero(pdb, n), k)]
  BY <1>1, <1>3, <1>4
<1>6. pdb.pad \in Nat
  BY <1>0, <1>2
<1>7. Holds(pdb, s)
  BY <1>1, <1>5, <1>6 DEF Holds
<1> QED BY <1>7 DEF pdb

(* An entry of the new table is an old one, shifted. *)
LEMMA EntryMoves ==
  ASSUME NEW a, NEW b, NEW d
  PROVE  [[ofs |-> a, id |-> b] EXCEPT !.ofs = @ + d] = [ofs |-> a + d, id |-> b]
OBVIOUS

LEMMA EntryType ==
  ASSUME NEW S, Sized(S), NEW s \in Seq(S), NEW zero \in Int, NEW k \in 1..Len(s)
  PROVE  /\ Entry(s, zero, k) \in Entries
         /\ \A d \in Int : [Entry(s, zero, k) EXCEPT !.ofs = @ + d] \in Entries
<1>1. At(s, k - 1) \in Nat
  BY AtStep
<1>2. zero + At(s, k - 1) \in Int /\ 2 * (k - 1) \in Int
  BY <1>1
<1>3. \A d \in Int : [Entry(s, zero, k) EXCEPT !.ofs = @ + d] = [ofs |-> zero + At(s, k - 1) + d, id |-> 2 * (k - 1)]
  BY EntryMoves DEF Entry
<1> QED BY <1>2, <1>3 DEF Entry, Entries

Changed(s, i, x) == [s EXCEPT ![i + 1] = x]

LEMMA ChangedType ==
  ASSUME NEW S, NEW s \in Seq(S), NEW x \in S, NEW i \in 0..(Len(s) - 1)
  PROVE  /\ Changed(s, i, x) \in Seq(S) /\ Len(Changed(s, i, x)) = Len(s)
         /\ \A j \in 1..Len(s) : Changed(s, i, x)[j] = IF j = i + 1 THEN x ELSE s[j]
<1>1. i + 1 \in 1..Len(s)
  BY LenProperties
<1> QED BY <1>1, ExceptSeq DEF Changed

LEMMA ChangedIsConcat ==
  ASSUME NEW S, NEW s \in Seq(S), NEW x \in S, NEW i \in 0..(Len(s) - 1)
  PROVE  Changed(s, i, x) = (SubSeq(s, 1, i) \o <<x>>) \o SubSeq(s, i + 2, Len(s))
<1>0. Len(s) \in Nat
  BY LenProperties
<1> DEFINE e == Changed(s, i, x)
           a == SubSeq(s, 1, i)
           b == <<x>>
           c == SubSeq(s, (i + 1) + 1, Len(s))
<1>1. /\ e \in Seq(S) /\ Len(e) = Len(s)
      /\ \A j \in 1..Len(s) : e[j] = IF j = i + 1 THEN x ELSE s[j]
  BY ChangedType
<1>2. /\ a \in Seq(S) /\ Len(a) = i
      /\ \A k \in 1..i : a[k] = s[k]
  BY <1>0, PrefixType
<1>3. /\ c \in Seq(S) /\ Len(c) = Len(s) - (i + 1)
      /\ \A k \in 1..(Len(s) - (i + 1)) : c[k] = s[(i + 1) + k]
  <2>1. i + 1 \in 0..Len(s) /\ Len(s) \in (i + 1)..Len(s)
    BY <1>0
  <2> QED BY <2>1, PartType
<1>4. b \in Seq(S) /\ Len(b) = 1 /\ b[1] = x
  OBVIOUS
<1> HIDE DEF a, b, c, e
<1>5. Len(e) = Len(a) + Len(b) + Len(c)
  BY <1>0, <1>1, <1>2, <1>3, <1>4
<1>6. \A k \in 1..Len(a) : e[k] = a[k]
  <2> SUFFICES ASSUME NEW k \in 1..Len(a)
               PROVE  e[k] = a[k]
    OBVIOUS
  <2>1. k \in 1..i /\ k \in 1..Len(s) /\ k # i + 1
    BY <1>0, <1>2
  <2> QED BY <1>1, <1>2, <2>1
<1>7. \A k \in 1..Len(b) : e[Len(a) + k] = b[k]
  <2>1. i + 1 \in 1..Len(s)
    BY <1>0
  <2>2. e[i + 1] = x
    BY <1>1, <2>1
  <2> QED BY <1>2, <1>4, <2>2
<1>8. \A k \in 1..Len(c) : e[Len(a) + Len(b) + k] = c[k]
  BY <1>0, <1>1, <1>2, <1>3, <1>4
<1>9. e = (a \o b) \o c
  <2>1. Joined(S, e, a, b, c)
    BY <1>1, <1>5, <1>6, <1>7, <1>8 DEF Joined
  <2> QED BY <1>2, <1>3, <1>4, <2>1, EqualToConcatThree
<1>10. (i + 1) + 1 = i + 2
  OBVIOUS
<1> QED BY <1>9, <1>10 DEF a, b, c, e

LEMMA AtChanged ==
  ASSUME NEW S, Sized(S), NEW s \in Seq(S), NEW x \in S, NEW i \in 0..(Len(s) - 1), NEW k \in 0..Len(s)
  PROVE  At(Changed(s, i, x), k) = IF k <= i THEN At(s, k) ELSE At(s, k) + (x.len - s[i + 1].len)
<1>0. Len(s) \in Nat
  BY LenProperties
<1> DEFINE e == Changed(s, i, x)
           T == {m \in Nat : m <= Len(s) =>
                   At(e, m) = IF m <= i THEN At(s, m) ELSE At(s, m) + (x.len - s[i + 1].len)}
<1>1. /\ e \in Seq(S) /\ Len(e) = Len(s)
      /\ \A j \in 1..Len(s) : e[j] = IF j = i + 1 THEN x ELSE s[j]
  BY ChangedType
<1> HIDE DEF e
<1>2. 0 \in T
  <2>1. At(e, 0) = 0 /\ At(s, 0) = 0
    BY <1>1, AtEnds
  <2> QED BY <2>1
<1>3. ASSUME NEW m \in Nat, m \in T
      PROVE  m + 1 \in T
  <2>1. SUFFICES ASSUME m + 1 <= Len(s)
                 PROVE  At(e, m + 1) = IF m + 1 <= i THEN At(s, m + 1)
                                       ELSE At(s, m + 1) + (x.len - s[i + 1].len)
    OBVIOUS
  <2>2. m + 1 \in 1..Len(s) /\ m + 1 \in 1..Len(e) /\ (m + 1) - 1 = m
    BY <1>0, <1>1, <2>1
  <2>3. At(e, m) \in Nat /\ e[m + 1].len \in Nat /\ At(e, m + 1) = At(e, m) + e[m + 1].len
    BY <1>1, <2>2, AtStep
  <2>4. At(s, m) \in Nat /\ s[m + 1].len \in Nat /\ At(s, m + 1) = At(s, m) + s[m + 1].len
    BY <2>2, AtStep
  <2>5. At(e, m) = IF m <= i THEN At(s, m) ELSE At(s, m) + (x.len - s[i + 1].len)
    BY <1>3, <2>1
  <2>6. e[m + 1] = IF m + 1 = i + 1 THEN x ELSE s[m + 1]
    BY <1>1, <2>2
  <2>7. x.len \in Nat /\ s[i + 1].len \in Nat
    <3>1. i + 1 \in 1..Len(s)
      BY <1>0
    <3>2. s[i + 1] \in S
      BY <3>1, ElementOfSeq
    <3> QED BY <3>2 DEF Sized
  <2>8. CASE m + 1 <= i
    BY <2>3, <2>4, <2>5, <2>6, <2>8
  <2>9. CASE m = i
    BY <2>3, <2>4, <2>5, <2>6, <2>7, <2>9
  <2>10. CASE m > i
    <3>1. /\ m \in Int /\ i \in Int /\ ~(m <= i) /\ ~(m + 1 <= i) /\ m + 1 # i + 1
      BY <1>0, <2>10
    <3> DEFINE d == x.len - s[i + 1].len
    <3>2. d \in Int
      BY <2>7
    <3>3. At(e, m) = At(s, m) + d /\ e[m + 1] = s[m + 1]
      BY <2>5, <2>6, <3>1
    <3> HIDE DEF d
    <3>4. At(e, m + 1) = At(s, m + 1) + d
      BY <2>3, <2>4, <3>2, <3>3
    <3> QED BY <3>1, <3>4 DEF d
  <2> QED BY <1>0, <2>8, <2>9, <2>10
<1>4. k \in T
  <2> HIDE DEF T
  <2>1. \A m \in Nat : m \in T
    BY <1>2, <1>3, InductionInSet
  <2> QED BY <1>0, <2>1
<1>5. k <= Len(s)
  BY <1>0
<1> QED BY <1>4, <1>5 DEF e

-----------------------------------------------------------------------------
(* What the operations on the file do to its sections. *)
Part(t, n, s, i, zero, by) ==
    /\ t \in Seq(Entries) /\ Len(t) = n
    /\ \A k \in 1..n : t[k] = [ofs |-> zero + At(s, i + k - 1), id |-> 2 * (i + k - 1 + by)]

LEMMA ShiftedPart ==
  ASSUME NEW S, Sized(S), NEW s \in Seq(S), NEW pdb, Holds(pdb, s),
         NEW i \in 0..Len(s), NEW j \in i..Len(s), NEW d \in Int
  PROVE  Part(ShiftEntries(pdb.table, i, j - 1, d), j - i, s, i, BodyStart(pdb) + d, 0)
<1>0. Len(s) \in Nat /\ BodyStart(pdb) \in Nat
  BY Layout
<1> DEFINE e(k) == [pdb.table[i + k] EXCEPT !.ofs = @ + d]
           f(k) == [ofs |-> (BodyStart(pdb) + d) + At(s, i + k - 1), id |-> 2 * (i + k - 1 + 0)]
           q == [k \in 1..(j - i) |-> e(k)]
<1>1. ASSUME NEW k \in 1..(j - i)
      PROVE  e(k) = f(k) /\ f(k) \in Entries
  <2>5. i + k \in 1..Len(s) /\ BodyStart(pdb) \in Int
    BY <1>0
  <2>6. At(s, i + k - 1) \in Nat
    BY <2>5, AtStep
  <2>7. BodyStart(pdb) + At(s, i + k - 1) + d = (BodyStart(pdb) + d) + At(s, i + k - 1)
        /\ (BodyStart(pdb) + d) + At(s, i + k - 1) \in Int
    BY <2>5, <2>6
  <2>8. 2 * (i + k - 1 + 0) \in Int
    BY <1>0
  <2>9. f(k) \in Entries
    BY <2>7, <2>8 DEF Entries
  <2>1. /\ i + k \in 1..Len(s) /\ At(s, i + k - 1) \in Nat
        /\ BodyStart(pdb) + At(s, i + k - 1) + d = (BodyStart(pdb) + d) + At(s, i + k - 1)
        /\ f(k) \in Entries
    BY <2>5, <2>6, <2>7, <2>9
  <2>2. pdb.table[i + k] = Entry(s, BodyStart(pdb), i + k)
    BY <2>1, Layout
  <2>3. e(k) = [ofs |-> BodyStart(pdb) + At(s, i + k - 1) + d, id |-> 2 * (i + k - 1)]
    BY <2>2, EntryMoves DEF Entry
  <2>4. i + k - 1 + 0 = i + k - 1
    BY <1>0
  <2> QED BY <2>1, <2>3, <2>4
<1>3. (j - 1) - i + 1 = j - i /\ j - i \in Nat
  BY <1>0
<1>4. ShiftEntries(pdb.table, i, j - 1, d) = q
  BY <1>3 DEF ShiftEntries
<1>5. \A k \in 1..(j - i) : e(k) = f(k) /\ e(k) \in Entries
  <2> HIDE DEF e, f
  <2> QED BY <1>1
<1> HIDE DEF e
<1>6. q \in Seq(Entries) /\ Len(q) = j - i /\ \A k \in 1..(j - i) : q[k] = e(k)
  BY <1>3, <1>5
<1> HIDE DEF q
<1>7. Part(q, j - i, s, i, BodyStart(pdb) + d, 0)
  BY <1>5, <1>6 DEF Part
<1> QED BY <1>4, <1>7

LEMMA RenumberedPart ==
  ASSUME NEW S, Sized(S), NEW s \in Seq(S), NEW pdb, Holds(pdb, s),
         NEW i \in 0..Len(s), NEW j \in i..Len(s), NEW d \in Int, NEW by \in Int
  PROVE  Part(RenumberEntries(pdb.table, i, j - 1, d, by), j - i, s, i, BodyStart(pdb) + d, by)
<1>0. Len(s) \in Nat /\ BodyStart(pdb) \in Nat
  BY Layout
<1> DEFINE e(k) == [ofs |-> pdb.table[i + k].ofs + d, id |-> 2 * (i + k - 1 + by)]
           f(k) == [ofs |-> (BodyStart(pdb) + d) + At(s, i + k - 1), id |-> 2 * (i + k - 1 + by)]
           q == [k \in 1..(j - i) |-> e(k)]
<1>1. ASSUME NEW k \in 1..(j - i)
      PROVE  e(k) = f(k) /\ f(k) \in Entries
  <2>5. i + k \in 1..Len(s) /\ BodyStart(pdb) \in Int
    BY <1>0
  <2>6. At(s, i + k - 1) \in Nat
    BY <2>5, AtStep
  <2>7. BodyStart(pdb) + At(s, i + k - 1) + d = (BodyStart(pdb) + d) + At(s, i + k - 1)
        /\ (BodyStart(pdb) + d) + At(s, i + k - 1) \in Int
    BY <2>5, <2>6
  <2>8. 2 * (i + k - 1 + by) \in Int
    BY <1>0
  <2>9. f(k) \in Entries
    BY <2>7, <2>8 DEF Entries
  <2>1. /\ i + k \in 1..Len(s) /\ At(s, i + k - 1) \in Nat
        /\ BodyStart(pdb) + At(s, i + k - 1) + d = (BodyStart(pdb) + d) + At(s, i + k - 1)
        /\ f(k) \in Entries
    BY <2>5, <2>6, <2>7, <2>9
  <2>2. pdb.table[i + k] = Entry(s, BodyStart(pdb), i + k)
    BY <2>1, Layout
  <2> QED BY <2>1, <2>2 DEF Entry
<1>3. (j - 1) - i + 1 = j - i /\ j - i \in Nat
  BY <1>0
<1>4. RenumberEntries(pdb.table, i, j - 1, d, by) = q
  BY <1>3 DEF RenumberEntries
<1>5. \A k \in 1..(j - i) : e(k) = f(k) /\ e(k) \in Entries
  <2> HIDE DEF e, f
  <2> QED BY <1>1
<1> HIDE DEF e
<1>6. q \in Seq(Entries) /\ Len(q) = j - i /\ \A k \in 1..(j - i) : q[k] = e(k)
  BY <1>3, <1>5
<1> HIDE DEF q
<1>7. Part(q, j - i, s, i, BodyStart(pdb) + d, by)
  BY <1>5, <1>6 DEF Part
<1> QED BY <1>4, <1>7

LEMMA KeptPart ==
  ASSUME NEW S, Sized(S), NEW s \in Seq(S), NEW pdb, Holds(pdb, s), NEW i \in 0..Len(s)
  PROVE  Part(SubSeq(pdb.table, 1, i), i, s, 0, BodyStart(pdb), 0)
<1>0. Len(s) \in Nat /\ BodyStart(pdb) \in Int
  BY Layout
<1>1. \A k \in 1..Len(s) : pdb.table[k] = Entry(s, BodyStart(pdb), k)
  BY Layout
<1>2. \A k \in 1..i : pdb.table[k] \in Entries
  BY <1>0, <1>1, EntryType
<1> DEFINE q == SubSeq(pdb.table, 1, i)
<1>3. /\ q \in Seq(Entries)
      /\ Len(q) = IF 1 <= i THEN i - 1 + 1 ELSE 0
      /\ \A k \in 1..(i - 1 + 1) : q[k] = pdb.table[1 + k - 1]
  BY <1>0, <1>2, SubSeqProperties
<1> HIDE DEF q
<1>4. i - 1 + 1 = i /\ \A k \in 1..i : 1 + k - 1 = k /\ k \in 1..Len(s) /\ 0 + k - 1 = k - 1 /\ k - 1 + 0 = k - 1
  BY <1>0
<1>5. \A k \in 1..i : q[k] = [ofs |-> BodyStart(pdb) + At(s, 0 + k - 1), id |-> 2 * (0 + k - 1 + 0)]
  BY <1>1, <1>3, <1>4 DEF Entry
<1>6. Len(q) = i
  BY <1>0, <1>3
<1>7. Part(q, i, s, 0, BodyStart(pdb), 0)
  BY <1>3, <1>5, <1>6 DEF Part
<1> QED BY <1>7 DEF q

LEMMA WriteHolds ==
  ASSUME NEW S, Sized(S), NEW s \in Seq(S), NEW pdb, Holds(pdb, s),
         NEW i \in 0..(Len(s) - 1), NEW x \in S
  PROVE  Holds(WriteSection(pdb, i, Run(x)), Changed(s, i, x))
<1> DEFINE n == Len(s)
           z == BodyStart(pdb)
           old == s[i + 1].len
           dif == ByteCount(Run(x)) - (End(pdb, i) - Start(pdb, i))
           e == Changed(s, i, x)
           a == SubSeq(pdb.table, 1, i)
           b == <<[ofs |-> Start(pdb, i), id |-> 2 * i]>>
           c == ShiftEntries(pdb.table, i + 1, n - 1, dif)
           table == (a \o b) \o c
<1>0. /\ n \in Nat /\ z \in Nat /\ z = FirstRecord + EntrySize * n + pdb.pad /\ pdb.pad \in Nat
      /\ Len(pdb.table) = n /\ FileSize(pdb) = z + ByteCount(s)
  BY Layout DEF Holds
<1>1. /\ Start(pdb, i) = z + At(s, i) /\ End(pdb, i) = z + At(s, i + 1)
      /\ 0 \in 0..(n - 1) /\ i + 1 \in 1..n
  BY <1>0, Layout
<1>2. /\ At(s, i) \in Nat /\ old \in Nat /\ At(s, i + 1) = At(s, i) + old /\ (i + 1) - 1 = i
  <2>1. (i + 1) - 1 = i
    BY <1>0
  <2> QED BY <1>1, <2>1, AtStep
<1>3. dif = x.len - old /\ x.len \in Nat
  <2>1. ByteCount(Run(x)) = x.len /\ x.len \in Nat
    BY RunType DEF Sized
  <2> QED BY <1>0, <1>1, <1>2, <2>1
<1>4. Start(pdb, 0) = z
  <2>1. Start(pdb, 0) = z + At(s, 0)
    BY <1>1, Layout
  <2>2. At(s, 0) = 0
    BY AtEnds
  <2> QED BY <1>0, <2>1, <2>2
<1>5. /\ e \in Seq(S) /\ Len(e) = n
      /\ e = (SubSeq(s, 1, i) \o <<x>>) \o SubSeq(s, i + 2, n)
  BY ChangedType, ChangedIsConcat
<1>6. \A k \in 0..n : At(e, k) = IF k <= i THEN At(s, k) ELSE At(s, k) + (x.len - old)
  BY AtChanged
<1>7. dif \in Int
  BY <1>2, <1>3
<1> HIDE DEF z, old, dif, e
<1>8. /\ a \in Seq(Entries) /\ Len(a) = i
      /\ \A k \in 1..i : a[k] = [ofs |-> z + At(s, k - 1), id |-> 2 * (k - 1)]
  <2>1. i \in 0..n
    BY <1>0
  <2>2. Part(a, i, s, 0, z, 0)
    BY <2>1, KeptPart DEF z
  <2>3. \A k \in 1..i : 0 + k - 1 = k - 1 /\ 0 + k - 1 + 0 = k - 1
    BY <2>1
  <2> HIDE DEF a
  <2> QED BY <2>2, <2>3 DEF Part
<1>9. b \in Seq(Entries) /\ Len(b) = 1 /\ b[1] = [ofs |-> z + At(s, i), id |-> 2 * i]
  <2>1. z + At(s, i) \in Int /\ 2 * i \in Int
    BY <1>0, <1>2
  <2>2. [ofs |-> z + At(s, i), id |-> 2 * i] \in Entries
    BY <2>1 DEF Entries
  <2> QED BY <1>1, <2>2
<1>10. /\ c \in Seq(Entries) /\ Len(c) = n - (i + 1)
       /\ \A k \in 1..(n - (i + 1)) : c[k]
             = [ofs |-> (z + dif) + At(s, (i + 1) + k - 1), id |-> 2 * ((i + 1) + k - 1 + 0)]
  <2>1. i + 1 \in 0..n /\ n \in (i + 1)..n
    BY <1>0, <1>1
  <2>2. Part(c, n - (i + 1), s, i + 1, z + dif, 0)
    BY <1>7, <2>1, ShiftedPart DEF z
  <2> HIDE DEF c
  <2> QED BY <2>2 DEF Part
<1> HIDE DEF a, b, c
<1>11. /\ table \in Seq(Entries) /\ Len(table) = Len(a) + Len(b) + Len(c)
       /\ \A k \in 1..Len(a) : table[k] = a[k]
       /\ \A k \in 1..Len(b) : table[Len(a) + k] = b[k]
       /\ \A k \in 1..Len(c) : table[Len(a) + Len(b) + k] = c[k]
  <2>1. Joined(Entries, table, a, b, c)
    BY <1>8, <1>9, <1>10, ConcatThree
  <2> HIDE DEF table
  <2> QED BY <2>1 DEF Joined
<1> HIDE DEF table
<1>12. Len(table) = n
  BY <1>0, <1>8, <1>9, <1>10, <1>11
<1>13. ASSUME NEW k \in 1..n
       PROVE  table[k] = Entry(e, z, k)
  <2>0. k - 1 \in 0..n /\ At(s, k - 1) \in Nat
    BY <1>0, AtType
  <2>1. CASE k <= i
    <3>1. k \in 1..i /\ k - 1 <= i
      BY <1>0, <2>1
    <3>2. table[k] = [ofs |-> z + At(s, k - 1), id |-> 2 * (k - 1)]
      BY <1>8, <1>11, <3>1
    <3> QED BY <1>6, <2>0, <3>1, <3>2 DEF Entry
  <2>2. CASE k = i + 1
    <3>1. table[i + 1] = [ofs |-> z + At(s, i), id |-> 2 * i]
      BY <1>8, <1>9, <1>11
    <3>2. k - 1 = i
      BY <1>2, <2>2
    <3>3. At(e, k - 1) = At(s, i)
      BY <1>0, <1>6, <2>0, <3>2
    <3> QED BY <2>2, <3>1, <3>2, <3>3 DEF Entry
  <2>3. CASE k > i + 1
    <3> DEFINE j == k - (i + 1)
    <3>1. /\ j \in 1..(n - (i + 1)) /\ i + 1 + j = k /\ (i + 1) + j - 1 = k - 1 /\ ~(k - 1 <= i)
      BY <1>0, <2>3
    <3> HIDE DEF j
    <3>2. table[i + 1 + j] = c[j]
      BY <1>8, <1>9, <1>10, <1>11, <3>1
    <3>3. c[j] = [ofs |-> (z + dif) + At(s, k - 1), id |-> 2 * (k - 1)]
      <4>1. (i + 1) + j - 1 + 0 = k - 1
        BY <1>0, <3>1
      <4> QED BY <1>10, <3>1, <4>1
    <3>4. At(e, k - 1) = At(s, k - 1) + dif
      BY <1>3, <1>6, <2>0, <3>1
    <3>5. (z + dif) + At(s, k - 1) = z + (At(s, k - 1) + dif)
      BY <1>0, <1>7, <2>0
    <3> QED BY <3>1, <3>2, <3>3, <3>4, <3>5 DEF Entry
  <2> QED BY <1>0, <2>1, <2>2, <2>3
<1>14. Between(pdb, z, Start(pdb, i)) = Body(SubSeq(s, 1, i))
  <2>1. 0 \in 0..n /\ i \in 0..n /\ 0 + 1 = 1
    BY <1>0
  <2>2. Between(pdb, z + At(s, 0), z + At(s, i)) = Body(SubSeq(s, 0 + 1, i))
    BY <2>1, BetweenSections DEF z
  <2>3. z + At(s, 0) = z
    BY <1>0, AtEnds
  <2> QED BY <1>1, <2>1, <2>2, <2>3
<1>15. Between(pdb, End(pdb, i), FileSize(pdb)) = Body(SubSeq(s, i + 2, n))
  <2>1. i + 1 \in 0..n /\ n \in (i + 1)..n /\ (i + 1) + 1 = i + 2
    BY <1>0, <1>1
  <2>2. Between(pdb, z + At(s, i + 1), z + At(s, n)) = Body(SubSeq(s, (i + 1) + 1, n))
    BY <2>1, BetweenSections DEF z
  <2>3. At(s, n) = ByteCount(s)
    BY AtEnds
  <2> QED BY <1>0, <1>1, <2>1, <2>2, <2>3
<1>16. (Body(SubSeq(s, 1, i)) \o Run(x)) \o Body(SubSeq(s, i + 2, n)) = Body(e)
  <2> DEFINE u == SubSeq(s, 1, i)
             v == <<x>>
             w == SubSeq(s, i + 2, n)
  <2>1. u \in Seq(S)
    BY <1>0, PrefixType
  <2>2. w \in Seq(S)
    <3>1. i + 1 \in 0..n /\ n \in (i + 1)..n /\ (i + 1) + 1 = i + 2
      BY <1>0, <1>1
    <3>2. SubSeq(s, (i + 1) + 1, n) \in Seq(S)
      BY <3>1, PartType
    <3> QED BY <3>1, <3>2
  <2>3. v \in Seq(S) /\ Body(v) = Run(x)
    BY <1>3, BodyOne
  <2>4. e = (u \o v) \o w
    BY <1>5
  <2> HIDE DEF u, v, w
  <2>5. Body(u \o v) = Body(u) \o Body(v)
    BY <2>1, <2>3, BodyConcat
  <2>6. Body((u \o v) \o w) = Body(u \o v) \o Body(w)
    <3>1. u \o v \in Seq(S)
      BY <2>1, <2>3, ConcatProperties
    <3> QED BY <2>2, <3>1, BodyConcat
  <2>7. (Body(u) \o Run(x)) \o Body(w) = Body(e)
    BY <2>3, <2>4, <2>5, <2>6
  <2> QED BY <2>7 DEF u, w
<1>17. WriteSection(pdb, i, Run(x)) = Assemble(2 * n + 1, table, z, Body(e))
  BY <1>0, <1>4, <1>14, <1>15, <1>16 DEF WriteSection, table, a, b, c, dif
<1>18. Holds(Assemble(2 * Len(e) + 1, table, z, Body(e)), e)
  <2>1. z \in Int /\ z >= FirstRecord + EntrySize * Len(e)
    BY <1>0, <1>5 DEF FirstRecord, EntrySize
  <2> QED BY <1>5, <1>11, <1>12, <1>13, <2>1, AssembleHolds
<1> QED BY <1>5, <1>17, <1>18 DEF e

LEMMA NullHolds ==
  ASSUME NEW S, Sized(S), NEW s \in Seq(S), NEW pdb, Holds(pdb, s),
         NEW i \in 0..(Len(s) - 1), Empty \in S
  PROVE  Holds(NullSection(pdb, i), Changed(s, i, Empty))
<1> DEFINE n == Len(s)
           z == BodyStart(pdb)
           d == End(pdb, i) - Start(pdb, i)
           a == SubSeq(pdb.table, 1, i)
           c == ShiftEntries(pdb.table, i + 1, n - 1, 0 - d)
           p == Between(pdb, Start(pdb, 0), Start(pdb, i))
           q == Between(pdb, End(pdb, i), FileSize(pdb))
<1>0. /\ n \in Nat /\ z \in Nat /\ Len(pdb.table) = n /\ pdb.seed = 2 * n + 1
      /\ \A k \in 1..n : pdb.table[k] = Entry(s, z, k)
  BY Layout DEF Holds
<1>1. /\ Start(pdb, i) = z + At(s, i) /\ End(pdb, i) = z + At(s, i + 1)
      /\ Start(pdb, 0) = z + At(s, 0)
      /\ 0 \in 0..(n - 1) /\ i + 1 \in 1..n /\ (i + 1) - 1 = i
  <2>1. 0 \in 0..(n - 1) /\ i + 1 \in 1..n /\ (i + 1) - 1 = i
    BY <1>0
  <2> QED BY <2>1, Layout
<1>2. At(s, i) \in Nat /\ At(s, i + 1) \in Nat /\ At(s, 0) = 0
  <2>1. i \in 0..n /\ i + 1 \in 0..n
    BY <1>0
  <2> QED BY <2>1, AtType, AtEnds
<1>3. Run(Empty) = <<>> /\ ByteCount(<<>>) = 0
  BY CountEmpty DEF Run, Empty
<1>4. d \in Int /\ -d = 0 - d
  BY <1>0, <1>1, <1>2
<1>5. SubSeq(pdb.table, 1, i + 1) = a \o <<[ofs |-> Start(pdb, i), id |-> 2 * i]>>
  <2>1. pdb.table \in Seq(Entries)
    <3>1. pdb.table = [k \in 1..n |-> Entry(s, z, k)]
      <4>1. z = Zero(pdb, n)
        BY <1>0 DEF BodyStart, Zero
      <4> QED BY <4>1 DEF Holds
    <3>2. \A k \in 1..n : Entry(s, z, k) \in Entries
      <4>1. z \in Int
        BY <1>0
      <4> QED BY <4>1, EntryType
    <3> QED BY <1>0, <3>1, <3>2
  <2>2. SubSeq(pdb.table, 1, i + 1) = SubSeq(pdb.table, 1, (i + 1) - 1) \o <<pdb.table[i + 1]>>
    <3>1. 1 \in 1..Len(pdb.table) /\ i + 1 \in 1..Len(pdb.table)
      BY <1>0, <1>1
    <3> QED BY <2>1, <3>1, SubSeqRecursiveSecond
  <2>3. pdb.table[i + 1] = [ofs |-> Start(pdb, i), id |-> 2 * i]
    BY <1>0, <1>1 DEF Entry
  <2> QED BY <1>1, <2>2, <2>3
<1>6. (p \o <<>>) \o q = p \o q
  <2>1. p \in Seq(Whole(S))
    <3>1. 0 \in 0..n /\ i \in 0..n /\ SubSeq(s, 0 + 1, i) \in Seq(S)
      BY <1>0, PartType
    <3>2. p = Body(SubSeq(s, 0 + 1, i))
      BY <1>1, <3>1, BetweenSections
    <3> QED BY <3>1, <3>2, BodyType
  <2> HIDE DEF p
  <2> QED BY <2>1, ConcatEmptySeq
<1>7. NullSection(pdb, i) = WriteSection(pdb, i, Run(Empty))
  <2>1. NullSection(pdb, i) = Assemble(2 * n + 1, (a \o <<[ofs |-> Start(pdb, i), id |-> 2 * i]>>) \o c,
                                       Start(pdb, 0), p \o q)
    BY <1>0, <1>4, <1>5 DEF NullSection
  <2>2. WriteSection(pdb, i, <<>>) = Assemble(2 * n + 1, (a \o <<[ofs |-> Start(pdb, i), id |-> 2 * i]>>) \o c,
                                              Start(pdb, 0), (p \o <<>>) \o q)
    BY <1>0, <1>3 DEF WriteSection
  <2> QED BY <1>3, <1>6, <2>1, <2>2
<1>8. Holds(WriteSection(pdb, i, Run(Empty)), Changed(s, i, Empty))
  BY WriteHolds
<1> QED BY <1>7, <1>8

Without(s, i, j) == SubSeq(s, 1, i) \o SubSeq(s, j + 1, Len(s))

LEMMA DeleteHolds ==
  ASSUME NEW S, Sized(S), NEW s \in Seq(S), NEW pdb, Holds(pdb, s),
         NEW i \in 0..(Len(s) - 1), NEW j \in (i + 1)..Len(s)
  PROVE  Holds(DeleteRange(pdb, i, j - 1), Without(s, i, j))
<1> DEFINE n == Len(s)
           z == BodyStart(pdb)
           ndel == j - i
           dif == End(pdb, j - 1) - Start(pdb, i) + EntrySize * ndel
           e == Without(s, i, j)
           u == SubSeq(s, 1, i)
           w == SubSeq(s, j + 1, n)
           a == ShiftEntries(pdb.table, 0, i - 1, -(EntrySize * ndel))
           c == RenumberEntries(pdb.table, j, n - 1, -dif, -ndel)
           table == a \o c
           zero == Start(pdb, 0) - EntrySize * ndel
<1>0. /\ n \in Nat /\ z \in Nat /\ z = FirstRecord + EntrySize * n + pdb.pad /\ pdb.pad \in Nat
      /\ Len(pdb.table) = n /\ FileSize(pdb) = z + ByteCount(s)
  BY Layout DEF Holds
<1>1. /\ i \in 0..n /\ j \in 0..n /\ j \in i..n /\ n \in j..n /\ 0 \in 0..n /\ i \in 0..n
      /\ 0 \in 0..(n - 1) /\ j - 1 \in 0..(n - 1) /\ (j - 1) + 1 = j /\ (j - 1) - i + 1 = ndel
      /\ ndel \in Nat /\ EntrySize * ndel = 8 * ndel /\ 0 + 1 = 1 /\ i - 0 = i
  BY <1>0 DEF EntrySize
<1>2. /\ Start(pdb, i) = z + At(s, i) /\ End(pdb, j - 1) = z + At(s, j) /\ Start(pdb, 0) = z + At(s, 0)
  BY <1>1, Layout
<1>3. At(s, i) \in Nat /\ At(s, j) \in Nat /\ At(s, 0) = 0 /\ At(s, n) = ByteCount(s)
  BY <1>1, AtType, AtEnds
<1>4. /\ Start(pdb, 0) = z /\ dif = At(s, j) - At(s, i) + 8 * ndel /\ dif \in Int
      /\ zero = z - 8 * ndel
  BY <1>0, <1>1, <1>2, <1>3
<1>5. /\ u \in Seq(S) /\ Len(u) = i /\ w \in Seq(S) /\ Len(w) = n - j
      /\ ByteCount(u) = At(s, i)
  <2>1. u \in Seq(S) /\ Len(u) = i
    BY <1>1, PrefixType
  <2>2. w \in Seq(S) /\ Len(w) = n - j
    BY <1>1, PartType
  <2> QED BY <2>1, <2>2 DEF At
<1>6. e \in Seq(S) /\ Len(e) = n - ndel /\ e = u \o w
  <2>1. e = u \o w
    BY DEF Without
  <2> HIDE DEF u, w, e
  <2>2. u \o w \in Seq(S) /\ Len(u \o w) = Len(u) + Len(w)
    BY <1>5, ConcatProperties
  <2> QED BY <1>0, <1>1, <1>5, <2>1, <2>2
<1>7. \A k \in 0..(n - ndel) : At(e, k) = IF k <= i THEN At(s, k) ELSE At(s, k + ndel) - (At(s, j) - At(s, i))
  <2> SUFFICES ASSUME NEW k \in 0..(n - ndel)
               PROVE  At(e, k) = IF k <= i THEN At(s, k) ELSE At(s, k + ndel) - (At(s, j) - At(s, i))
    OBVIOUS
  <2>5. i + (n - j) = n - ndel
    BY <1>0, <1>1
  <2>1. k \in 0..(Len(u) + Len(w))
    <3> HIDE DEF u, w
    <3> QED BY <1>5, <2>5
  <2>2. At(e, k) = IF k <= Len(u) THEN At(u, k) ELSE ByteCount(u) + At(w, k - Len(u))
    <3> HIDE DEF u, w, e
    <3>1. At(u \o w, k) = IF k <= Len(u) THEN At(u, k) ELSE ByteCount(u) + At(w, k - Len(u))
      BY <1>5, <2>1, AtConcat
    <3> QED BY <1>6, <3>1
  <2>3. CASE k <= i
    <3>1. k \in 0..(i - 0) /\ 0 + k = k
      BY <1>1, <2>3
    <3>2. At(SubSeq(s, 0 + 1, i), k) = At(s, 0 + k) - At(s, 0)
      BY <1>1, <3>1, AtPart
    <3>3. At(s, k) \in Nat
      <4>1. k \in 0..n
        BY <1>0, <1>1, <3>1
      <4> QED BY <4>1, AtType
    <3>4. At(u, k) = At(s, k)
      BY <1>1, <1>3, <3>1, <3>2, <3>3
    <3> QED BY <1>5, <2>2, <2>3, <3>4
  <2>4. CASE ~(k <= i)
    <3>1. k - i \in 0..(n - j) /\ j + (k - i) = k + ndel /\ k + ndel \in 0..n
      BY <1>0, <1>1, <2>4
    <3>2. At(w, k - i) = At(s, j + (k - i)) - At(s, j)
      BY <1>1, <3>1, AtPart
    <3>3. At(s, k + ndel) \in Nat
      BY <3>1, AtType
    <3>4. At(e, k) = At(s, i) + (At(s, k + ndel) - At(s, j))
      BY <1>5, <2>2, <2>4, <3>1, <3>2
    <3> HIDE DEF e, ndel
    <3>5. At(e, k) = At(s, k + ndel) - (At(s, j) - At(s, i))
      BY <1>3, <3>3, <3>4
    <3> QED BY <2>4, <3>5
  <2> QED BY <2>3, <2>4
<1>8. -(EntrySize * ndel) \in Int /\ -dif \in Int /\ -ndel \in Int
      /\ z + -(EntrySize * ndel) = zero /\ z + -dif = zero - (At(s, j) - At(s, i))
  <2> HIDE DEF dif, zero, z, ndel
  <2>1. ndel \in Int /\ z \in Int /\ dif \in Int /\ At(s, i) \in Int /\ At(s, j) \in Int
        /\ zero = z - 8 * ndel /\ dif = At(s, j) - At(s, i) + 8 * ndel
    BY <1>0, <1>1, <1>3, <1>4
  <2> QED BY <2>1 DEF EntrySize
<1>9. Part(a, i, s, 0, zero, 0)
  <2>1. Part(ShiftEntries(pdb.table, 0, i - 1, -(EntrySize * ndel)), i - 0, s, 0,
             z + -(EntrySize * ndel), 0)
    BY <1>1, <1>8, ShiftedPart
  <2> QED BY <1>1, <1>8, <2>1
<1>10. Part(c, n - j, s, j, zero - (At(s, j) - At(s, i)), -ndel)
  <2>1. Part(RenumberEntries(pdb.table, j, n - 1, -dif, -ndel), n - j, s, j, z + -dif, -ndel)
    BY <1>1, <1>8, RenumberedPart
  <2> QED BY <1>8, <2>1
<1>11. zero \in Int /\ zero >= FirstRecord + EntrySize * (n - ndel)
  BY <1>0, <1>1, <1>4 DEF FirstRecord, EntrySize
<1> HIDE DEF z, dif, e, u, w, a, c, zero
<1>12. /\ a \in Seq(Entries) /\ Len(a) = i
       /\ \A k \in 1..i : a[k] = [ofs |-> zero + At(s, 0 + k - 1), id |-> 2 * (0 + k - 1 + 0)]
  BY <1>9 DEF Part
<1>13. /\ c \in Seq(Entries) /\ Len(c) = n - j
       /\ \A k \in 1..(n - j) : c[k] = [ofs |-> (zero - (At(s, j) - At(s, i))) + At(s, j + k - 1),
                                        id |-> 2 * (j + k - 1 + -ndel)]
  BY <1>10 DEF Part
<1>14. /\ table \in Seq(Entries) /\ Len(table) = Len(a) + Len(c)
       /\ \A k \in 1..(Len(a) + Len(c)) : table[k] = IF k <= Len(a) THEN a[k] ELSE c[k - Len(a)]
  BY <1>12, <1>13, ConcatProperties
<1> HIDE DEF table
<1>15. Len(table) = n - ndel
  BY <1>0, <1>1, <1>12, <1>13, <1>14
<1>16. ASSUME NEW k \in 1..(n - ndel)
       PROVE  table[k] = Entry(e, zero, k)
  <2>3. i + (n - j) = n - ndel /\ k - 1 \in 0..(n - ndel)
    BY <1>0, <1>1
  <2>0. k - 1 \in 0..(n - ndel) /\ k \in 1..(Len(a) + Len(c))
    BY <1>12, <1>13, <2>3
  <2>1. CASE k <= i
    <3>1. k \in 1..i /\ k - 1 <= i /\ 0 + k - 1 = k - 1 /\ 0 + k - 1 + 0 = k - 1
      BY <1>0, <2>1
    <3>2. table[k] = a[k]
      BY <1>12, <1>14, <2>0, <2>1
    <3>3. a[k] = [ofs |-> zero + At(s, k - 1), id |-> 2 * (k - 1)]
      BY <1>12, <3>1
    <3>4. At(e, k - 1) = At(s, k - 1)
      BY <1>7, <2>0, <3>1
    <3> QED BY <3>2, <3>3, <3>4 DEF Entry
  <2>2. CASE ~(k <= i)
    <3> DEFINE m == k - i
    <3>1. m \in 1..(n - j) /\ j + m - 1 = (k - 1) + ndel /\ j + m - 1 + -ndel = k - 1
          /\ (k - 1) + ndel \in 0..n
      BY <1>0, <1>1, <2>2
    <3>2. table[k] = c[m]
      BY <1>12, <1>14, <2>0, <2>2
    <3> HIDE DEF m
    <3>3. c[m] = [ofs |-> (zero - (At(s, j) - At(s, i))) + At(s, (k - 1) + ndel), id |-> 2 * (k - 1)]
      BY <1>13, <3>1
    <3>4. At(s, (k - 1) + ndel) \in Nat
      BY <3>1, AtType
    <3>5. At(e, k - 1) = At(s, (k - 1) + ndel) - (At(s, j) - At(s, i))
      <4>1. CASE ~(k - 1 <= i)
        BY <1>7, <2>0, <4>1
      <4>2. CASE k - 1 <= i
        <5>1. k - 1 = i /\ (k - 1) + ndel = j
          BY <1>0, <1>1, <2>2, <4>2
        <5>2. At(e, k - 1) = At(s, k - 1)
          BY <1>7, <2>0, <4>2
        <5>3. At(s, i) = At(s, j) - (At(s, j) - At(s, i))
          BY <1>3
        <5> QED BY <5>1, <5>2, <5>3
      <4> QED BY <4>1, <4>2
    <3>6. (zero - (At(s, j) - At(s, i))) + At(s, (k - 1) + ndel) = zero + At(e, k - 1)
      BY <1>3, <1>11, <3>4, <3>5
    <3> QED BY <3>2, <3>3, <3>6 DEF Entry
  <2> QED BY <2>1, <2>2
<1>17. Between(pdb, Start(pdb, 0), Start(pdb, i)) \o Between(pdb, End(pdb, j - 1), FileSize(pdb)) = Body(e)
  <2>1. Between(pdb, z + At(s, 0), z + At(s, i)) = Body(u)
    BY <1>1, BetweenSections DEF z, u
  <2>2. Between(pdb, z + At(s, j), z + At(s, n)) = Body(w)
    BY <1>1, BetweenSections DEF z, w
  <2>3. Body(u \o w) = Body(u) \o Body(w)
    BY <1>5, BodyConcat
  <2> QED BY <1>0, <1>2, <1>3, <1>6, <2>1, <2>2, <2>3
<1>18. DeleteRange(pdb, i, j - 1) = Assemble(2 * (n - ndel) + 1, table, zero, Body(e))
  <2>1. (j - 1) - i + 1 = ndel /\ (j - 1) + 1 = j
    BY <1>1
  <2> QED BY <1>0, <1>17, <2>1 DEF DeleteRange, table, a, c, zero, dif
<1>19. Holds(Assemble(2 * Len(e) + 1, table, zero, Body(e)), e)
  BY <1>6, <1>11, <1>14, <1>15, <1>16, AssembleHolds
<1> QED BY <1>6, <1>18, <1>19 DEF e

With(s, i, j, d, t) == (SubSeq(d, 1, t) \o SubSeq(s, i + 1, j)) \o SubSeq(d, t + 1, Len(d))

Spliced(e, s, i, j, d, t) ==
    /\ \A k \in 1..t : e[k] = d[k]
    /\ \A k \in 1..(j - i) : e[t + k] = s[i + k]
    /\ \A k \in 1..(Len(d) - t) : e[t + (j - i) + k] = d[t + k]

LEMMA WithType ==
  ASSUME NEW S, NEW s \in Seq(S), NEW d \in Seq(S),
         NEW i \in 0..Len(s), NEW j \in i..Len(s), NEW t \in 0..Len(d)
  PROVE  /\ With(s, i, j, d, t) \in Seq(S) /\ Len(With(s, i, j, d, t)) = Len(d) + (j - i)
         /\ Joined(S, With(s, i, j, d, t), SubSeq(d, 1, t), SubSeq(s, i + 1, j), SubSeq(d, t + 1, Len(d)))
         /\ Spliced(With(s, i, j, d, t), s, i, j, d, t)
<1> DEFINE u == SubSeq(d, 1, t)
           v == SubSeq(s, i + 1, j)
           w == SubSeq(d, t + 1, Len(d))
           e == With(s, i, j, d, t)
<1>0. Len(s) \in Nat /\ Len(d) \in Nat
  BY LenProperties
<1>1. u \in Seq(S) /\ Len(u) = t /\ \A k \in 1..t : u[k] = d[k]
  BY PrefixType
<1>2. v \in Seq(S) /\ Len(v) = j - i /\ \A k \in 1..(j - i) : v[k] = s[i + k]
  BY PartType
<1>3. w \in Seq(S) /\ Len(w) = Len(d) - t /\ \A k \in 1..(Len(d) - t) : w[k] = d[t + k]
  <2>1. Len(d) \in t..Len(d)
    BY <1>0
  <2> QED BY <2>1, PartType
<1>4. e = (u \o v) \o w
  BY DEF With
<1> HIDE DEF u, v, w, e
<1>5. Joined(S, e, u, v, w)
  BY <1>1, <1>2, <1>3, <1>4, ConcatThree
<1>6. /\ e \in Seq(S) /\ Len(e) = Len(u) + Len(v) + Len(w)
      /\ \A k \in 1..Len(u) : e[k] = u[k]
      /\ \A k \in 1..Len(v) : e[Len(u) + k] = v[k]
      /\ \A k \in 1..Len(w) : e[Len(u) + Len(v) + k] = w[k]
  BY <1>5 DEF Joined
<1>7. Len(e) = Len(d) + (j - i)
  BY <1>0, <1>1, <1>2, <1>3, <1>6
<1>8. \A k \in 1..t : e[k] = d[k]
  BY <1>1, <1>6
<1>9. \A k \in 1..(j - i) : e[t + k] = s[i + k]
  BY <1>1, <1>2, <1>6
<1>10. \A k \in 1..(Len(d) - t) : e[t + (j - i) + k] = d[t + k]
  BY <1>1, <1>2, <1>3, <1>6
<1>11. Spliced(e, s, i, j, d, t)
  BY <1>8, <1>9, <1>10 DEF Spliced
<1> QED BY <1>5, <1>6, <1>7, <1>11 DEF e, u, v, w

LEMMA InsertHolds ==
  ASSUME NEW S, Sized(S), NEW s \in Seq(S), NEW d \in Seq(S), NEW src, NEW dst,
         Holds(src, s), Holds(dst, d),
         NEW i \in 0..(Len(s) - 1), NEW j \in (i + 1)..Len(s), NEW t \in 0..(Len(d) - 1)
  PROVE  Holds(InsertRange(src, i, j - 1, dst, t), With(s, i, j, d, t))
<1> DEFINE n == Len(d)
           z == BodyStart(dst)
           y == BodyStart(src)
           m == j - i
           move == Start(dst, t) - Start(src, i) + EntrySize * m
           dif == End(src, j - 1) - Start(src, i)
           e == With(s, i, j, d, t)
           u == SubSeq(d, 1, t)
           v == SubSeq(s, i + 1, j)
           w == SubSeq(d, t + 1, n)
           a == ShiftEntries(dst.table, 0, t - 1, EntrySize * m)
           b == RenumberEntries(src.table, i, j - 1, move, t - i)
           c == RenumberEntries(dst.table, t, n - 1, dif + EntrySize * m, m)
           table == (a \o b) \o c
           zero == Start(dst, 0) + EntrySize * m
<1>0. /\ n \in Nat /\ z \in Nat /\ z = FirstRecord + EntrySize * n + dst.pad /\ dst.pad \in Nat
      /\ Len(dst.table) = n /\ FileSize(dst) = z + ByteCount(d)
      /\ Len(s) \in Nat /\ y \in Nat
  BY Layout DEF Holds
<1>1. /\ i \in 0..Len(s) /\ j \in 0..Len(s) /\ j \in i..Len(s) /\ t \in 0..n /\ n \in t..n
      /\ 0 \in 0..n /\ 0 \in 0..(n - 1) /\ j - 1 \in 0..(Len(s) - 1) /\ (j - 1) + 1 = j
      /\ (j - 1) - i + 1 = m /\ m \in Nat /\ EntrySize * m = 8 * m /\ 0 + 1 = 1 /\ t - 0 = t
  BY <1>0 DEF EntrySize
<1>2. /\ Start(src, i) = y + At(s, i) /\ End(src, j - 1) = y + At(s, j)
      /\ Start(dst, 0) = z + At(d, 0) /\ Start(dst, t) = z + At(d, t)
  BY <1>1, Layout
<1>3. /\ At(s, i) \in Nat /\ At(s, j) \in Nat /\ At(d, t) \in Nat
      /\ At(d, 0) = 0 /\ At(d, n) = ByteCount(d)
  BY <1>1, AtType, AtEnds
<1>4. /\ Start(dst, 0) = z /\ dif = At(s, j) - At(s, i)
      /\ move = (z + At(d, t)) - (y + At(s, i)) + 8 * m /\ zero = z + 8 * m
  <2>1. Start(dst, 0) = z
    BY <1>0, <1>2, <1>3
  <2>2. dif = At(s, j) - At(s, i)
    <3> DEFINE p == At(s, i)
               q == At(s, j)
    <3>1. dif = (y + q) - (y + p) /\ y \in Nat /\ p \in Nat /\ q \in Nat
      BY <1>0, <1>2, <1>3
    <3> HIDE DEF p, q, y, dif
    <3>2. dif = q - p
      BY <3>1
    <3> QED BY <3>2 DEF p, q
  <2>3. move = (z + At(d, t)) - (y + At(s, i)) + 8 * m
    BY <1>1, <1>2
  <2>4. zero = z + 8 * m
    BY <1>1, <2>1
  <2> QED BY <2>1, <2>2, <2>3, <2>4
<1>5. /\ u \in Seq(S) /\ Len(u) = t /\ v \in Seq(S) /\ Len(v) = m /\ w \in Seq(S) /\ Len(w) = n - t
      /\ ByteCount(u) = At(d, t) /\ ByteCount(v) = At(s, j) - At(s, i)
  <2>1. u \in Seq(S) /\ Len(u) = t
    BY <1>1, PrefixType
  <2>2. v \in Seq(S) /\ Len(v) = m
    BY <1>1, PartType
  <2>3. w \in Seq(S) /\ Len(w) = n - t
    BY <1>1, PartType
  <2>4. ByteCount(v) = At(s, j) - At(s, i)
    BY <1>1, CountPart
  <2> QED BY <2>1, <2>2, <2>3, <2>4 DEF At
<1>6. e \in Seq(S) /\ Len(e) = n + m
  BY <1>1, WithType
<1>7. e = (u \o v) \o w
  BY DEF With
<1>8. \A k \in 0..(n + m) : At(e, k) = IF k <= t + m THEN IF k <= t THEN At(u, k) ELSE At(d, t) + At(v, k - t)
                                       ELSE At(d, t) + (At(s, j) - At(s, i)) + At(w, k - (t + m))
  <2> HIDE DEF u, v, w, e, m
  <2> DEFINE uv == u \o v
  <2>1. uv \in Seq(S) /\ Len(uv) = t + m /\ ByteCount(uv) = At(d, t) + (At(s, j) - At(s, i))
    BY <1>5, ConcatProperties, CountConcat
  <2>2. \A k \in 0..(t + m) : At(uv, k) = IF k <= t THEN At(u, k) ELSE At(d, t) + At(v, k - t)
    BY <1>5, AtConcat
  <2> HIDE DEF uv
  <2>3. \A k \in 0..(Len(uv) + Len(w)) :
           At(uv \o w, k) = IF k <= Len(uv) THEN At(uv, k) ELSE ByteCount(uv) + At(w, k - Len(uv))
    BY <1>5, <2>1, AtConcat
  <2>4. Len(uv) + Len(w) = n + m /\ e = uv \o w
    BY <1>0, <1>1, <1>5, <1>7, <2>1 DEF uv
  <2> SUFFICES ASSUME NEW k \in 0..(n + m)
               PROVE  At(e, k) = IF k <= t + m THEN IF k <= t THEN At(u, k) ELSE At(d, t) + At(v, k - t)
                                 ELSE At(d, t) + (At(s, j) - At(s, i)) + At(w, k - (t + m))
    OBVIOUS
  <2>5. At(e, k) = IF k <= Len(uv) THEN At(uv, k) ELSE ByteCount(uv) + At(w, k - Len(uv))
    BY <2>3, <2>4
  <2>6. k <= t + m => k \in 0..(t + m)
    BY <1>0, <1>1
  <2> QED BY <2>1, <2>2, <2>5, <2>6
<1>9. \A k \in 0..t : At(u, k) = At(d, k) /\ At(d, k) \in Nat
  <2> SUFFICES ASSUME NEW k \in 0..t
               PROVE  At(u, k) = At(d, k) /\ At(d, k) \in Nat
    OBVIOUS
  <2>1. k \in 0..(t - 0) /\ 0 + k = k /\ k \in 0..n
    BY <1>0, <1>1
  <2>2. At(SubSeq(d, 0 + 1, t), k) = At(d, 0 + k) - At(d, 0)
    BY <1>1, <2>1, AtPart
  <2>3. At(d, k) \in Nat
    BY <2>1, AtType
  <2> QED BY <1>1, <1>3, <2>1, <2>2, <2>3
<1>10. \A k \in 0..m : At(v, k) = At(s, i + k) - At(s, i) /\ At(s, i + k) \in Nat
  <2> SUFFICES ASSUME NEW k \in 0..m
               PROVE  At(v, k) = At(s, i + k) - At(s, i) /\ At(s, i + k) \in Nat
    OBVIOUS
  <2>1. i + k \in 0..Len(s)
    BY <1>0, <1>1
  <2> QED BY <1>1, <2>1, AtPart, AtType
<1>11. \A k \in 0..(n - t) : At(w, k) = At(d, t + k) - At(d, t) /\ At(d, t + k) \in Nat
  <2> SUFFICES ASSUME NEW k \in 0..(n - t)
               PROVE  At(w, k) = At(d, t + k) - At(d, t) /\ At(d, t + k) \in Nat
    OBVIOUS
  <2>1. t + k \in 0..n
    BY <1>0, <1>1
  <2> QED BY <1>1, <2>1, AtPart, AtType
<1>12. /\ EntrySize * m \in Int /\ move \in Int /\ dif + EntrySize * m \in Int /\ t - i \in Int
       /\ z + EntrySize * m = zero /\ y + move = zero + (At(d, t) - At(s, i))
       /\ z + (dif + EntrySize * m) = zero + (At(s, j) - At(s, i))
  <2> HIDE DEF dif, move, zero, z, y, m
  <2>1. m \in Int /\ z \in Int /\ y \in Int /\ At(s, i) \in Int /\ At(s, j) \in Int /\ At(d, t) \in Int
        /\ zero = z + 8 * m /\ dif = At(s, j) - At(s, i)
        /\ move = (z + At(d, t)) - (y + At(s, i)) + 8 * m /\ t \in Int /\ i \in Int
    BY <1>0, <1>1, <1>3, <1>4
  <2>2. EntrySize * m = 8 * m
    BY DEF EntrySize
  <2>6. t - i \in Int /\ 8 * m \in Int /\ dif + 8 * m \in Int /\ z + 8 * m = zero
    BY <2>1
  <2>7. move \in Int /\ move = (z + At(d, t)) - (y + At(s, i)) + 8 * m
    <3> DEFINE p == z + At(d, t)
               q == y + At(s, i)
               r == 8 * m
    <3>1. p \in Int /\ q \in Int /\ r \in Int
      <4>1. \A f \in Int, g \in Int : f + g \in Int /\ 8 * f \in Int
        OBVIOUS
      <4> QED BY <2>1, <4>1
    <3>2. move = p - q + r
      BY <2>1
    <3> HIDE DEF p, q, r
    <3>3. p - q + r \in Int
      BY <3>1
    <3> QED BY <2>1, <3>2, <3>3
  <2>3. /\ move \in Int /\ t - i \in Int /\ 8 * m \in Int /\ dif + 8 * m \in Int
        /\ z + 8 * m = zero
    BY <2>6, <2>7
  <2>4. y + move = zero + (At(d, t) - At(s, i))
    <3>1. move = (z - y) + (At(d, t) - At(s, i)) + 8 * m
      BY <2>1
    <3> DEFINE p == At(d, t) - At(s, i)
               r == 8 * m
    <3>2. p \in Int /\ r \in Int /\ z \in Int /\ y \in Int /\ zero = z + r /\ move = (z - y) + p + r
      BY <2>1, <3>1
    <3> HIDE DEF p, r
    <3>3. y + move = zero + p
      BY <3>2
    <3> QED BY <3>3 DEF p
  <2>5. z + (dif + 8 * m) = zero + (At(s, j) - At(s, i))
    BY <2>1
  <2> QED BY <2>2, <2>3, <2>4, <2>5
<1>13. Part(a, t, d, 0, zero, 0)
  <2>1. Part(ShiftEntries(dst.table, 0, t - 1, EntrySize * m), t - 0, d, 0, z + EntrySize * m, 0)
    BY <1>1, <1>12, ShiftedPart
  <2> QED BY <1>1, <1>12, <2>1
<1>14. Part(b, m, s, i, zero + (At(d, t) - At(s, i)), t - i)
  <2>1. Part(RenumberEntries(src.table, i, j - 1, move, t - i), j - i, s, i, y + move, t - i)
    BY <1>1, <1>12, RenumberedPart
  <2> QED BY <1>12, <2>1
<1>15. Part(c, n - t, d, t, zero + (At(s, j) - At(s, i)), m)
  <2>1. Part(RenumberEntries(dst.table, t, n - 1, dif + EntrySize * m, m), n - t, d, t,
             z + (dif + EntrySize * m), m)
    <3> DEFINE by == dif + EntrySize * m
    <3>1. by \in Int /\ m \in Int
      BY <1>1, <1>12
    <3> HIDE DEF by, m
    <3>2. Part(RenumberEntries(dst.table, t, n - 1, by, m), n - t, d, t, z + by, m)
      BY <1>1, <3>1, RenumberedPart
    <3> QED BY <3>2 DEF by
  <2> QED BY <1>12, <2>1
<1>16. zero \in Int /\ zero >= FirstRecord + EntrySize * (n + m)
  <2>1. z \in Nat /\ z = 78 + 8 * n + dst.pad /\ dst.pad \in Nat /\ n \in Nat
    BY <1>0 DEF FirstRecord, EntrySize
  <2>2. zero = z + 8 * m /\ m \in Nat
    BY <1>1, <1>4
  <2> HIDE DEF zero, z, n, m
  <2>3. zero \in Int /\ zero >= 78 + 8 * (n + m)
    BY <2>1, <2>2
  <2> QED BY <2>3 DEF FirstRecord, EntrySize
<1>17. m = j - i
  OBVIOUS
<1> HIDE DEF z, y, dif, move, e, u, v, w, a, b, c, zero, m
<1>18. /\ a \in Seq(Entries) /\ Len(a) = t
       /\ \A k \in 1..t : a[k] = [ofs |-> zero + At(d, 0 + k - 1), id |-> 2 * (0 + k - 1 + 0)]
  BY <1>13 DEF Part
<1>19. /\ b \in Seq(Entries) /\ Len(b) = m
       /\ \A k \in 1..m : b[k] = [ofs |-> (zero + (At(d, t) - At(s, i))) + At(s, i + k - 1),
                                  id |-> 2 * (i + k - 1 + (t - i))]
  BY <1>14 DEF Part
<1>20. /\ c \in Seq(Entries) /\ Len(c) = n - t
       /\ \A k \in 1..(n - t) : c[k] = [ofs |-> (zero + (At(s, j) - At(s, i))) + At(d, t + k - 1),
                                        id |-> 2 * (t + k - 1 + m)]
  BY <1>15 DEF Part
<1>21. /\ table \in Seq(Entries) /\ Len(table) = Len(a) + Len(b) + Len(c)
       /\ \A k \in 1..Len(a) : table[k] = a[k]
       /\ \A k \in 1..Len(b) : table[Len(a) + k] = b[k]
       /\ \A k \in 1..Len(c) : table[Len(a) + Len(b) + k] = c[k]
  <2>1. Joined(Entries, table, a, b, c)
    BY <1>18, <1>19, <1>20, ConcatThree
  <2> HIDE DEF table
  <2> QED BY <2>1 DEF Joined
<1> HIDE DEF table
<1>22. Len(table) = n + m
  BY <1>0, <1>1, <1>18, <1>19, <1>20, <1>21
<1>23. ASSUME NEW k \in 1..(n + m)
       PROVE  table[k] = Entry(e, zero, k)
  <2>0. k - 1 \in 0..(n + m)
    BY <1>0, <1>1
  <2>1. CASE k <= t
    <3>1. k \in 1..t /\ k - 1 \in 0..t /\ k - 1 <= t /\ k - 1 <= t + m
          /\ 0 + k - 1 = k - 1 /\ 0 + k - 1 + 0 = k - 1
      BY <1>0, <1>1, <2>1
    <3>2. table[k] = [ofs |-> zero + At(d, k - 1), id |-> 2 * (k - 1)]
      BY <1>18, <1>21, <3>1
    <3>3. At(e, k - 1) = At(d, k - 1)
      BY <1>8, <1>9, <2>0, <3>1
    <3> QED BY <3>2, <3>3 DEF Entry
  <2>2. CASE t < k /\ k <= t + m
    <3> DEFINE q == k - t
    <3>1. q \in 1..m /\ t + q = k /\ q - 1 \in 0..m /\ i + q - 1 = i + (q - 1)
          /\ i + q - 1 + (t - i) = k - 1 /\ k - 1 <= t + m /\ (k - 1) - t = q - 1
      BY <1>0, <1>1, <2>2
    <3> HIDE DEF q
    <3>2. table[t + q] = b[q]
      BY <1>18, <1>19, <1>21, <3>1
    <3>3. b[q] = [ofs |-> (zero + (At(d, t) - At(s, i))) + At(s, i + (q - 1)), id |-> 2 * (k - 1)]
      BY <1>19, <3>1
    <3>4. At(v, q - 1) = At(s, i + (q - 1)) - At(s, i) /\ At(s, i + (q - 1)) \in Nat
      BY <1>10, <3>1
    <3>5. At(e, k - 1) = At(d, t) + (At(s, i + (q - 1)) - At(s, i))
      <4>1. CASE k - 1 <= t
        <5>1. k - 1 = t /\ q - 1 = 0 /\ i + (q - 1) = i /\ t \in 0..t
          BY <1>1, <2>2, <3>1, <4>1
        <5>2. At(e, k - 1) = At(d, t)
          BY <1>8, <1>9, <2>0, <3>1, <5>1
        <5> QED BY <1>3, <5>1, <5>2
      <4>2. CASE ~(k - 1 <= t)
        <5>1. At(e, k - 1) = At(d, t) + At(v, (k - 1) - t)
          BY <1>8, <2>0, <3>1, <4>2
        <5> QED BY <3>1, <3>4, <5>1
      <4> QED BY <4>1, <4>2
    <3>6. (zero + (At(d, t) - At(s, i))) + At(s, i + (q - 1)) = zero + At(e, k - 1)
      BY <1>3, <1>16, <3>4, <3>5
    <3> QED BY <3>1, <3>2, <3>3, <3>6 DEF Entry
  <2>3. CASE t + m < k
    <3> DEFINE q == k - (t + m)
    <3>1. q \in 1..(n - t) /\ t + m + q = k /\ q - 1 \in 0..(n - t) /\ t + q - 1 = t + (q - 1)
          /\ t + q - 1 + m = k - 1 /\ (k - 1) - (t + m) = q - 1
      BY <1>0, <1>1, <2>3
    <3> HIDE DEF q
    <3>2. table[t + m + q] = c[q]
      BY <1>18, <1>19, <1>20, <1>21, <3>1
    <3>3. c[q] = [ofs |-> (zero + (At(s, j) - At(s, i))) + At(d, t + (q - 1)), id |-> 2 * (k - 1)]
      BY <1>20, <3>1
    <3>4. At(w, q - 1) = At(d, t + (q - 1)) - At(d, t) /\ At(d, t + (q - 1)) \in Nat
      BY <1>11, <3>1
    <3>5. At(e, k - 1) = At(d, t) + (At(s, j) - At(s, i)) + (At(d, t + (q - 1)) - At(d, t))
      <4>1. CASE k - 1 <= t + m
        <5>1. k - 1 = t + m /\ q - 1 = 0 /\ t + (q - 1) = t
          BY <1>0, <1>1, <2>3, <3>1, <4>1
        <5>2. m \in 0..m /\ i + m = j
          BY <1>0, <1>1, <1>17
        <5>3. CASE m = 0
          BY <1>0, <1>17, <5>3
        <5>4. CASE m # 0
          <6>1. ~(k - 1 <= t) /\ (k - 1) - t = m
            BY <1>0, <1>1, <5>1, <5>4
          <6>2. At(e, k - 1) = At(d, t) + At(v, m)
            BY <1>8, <2>0, <4>1, <6>1
          <6>3. At(v, m) = At(s, j) - At(s, i)
            BY <1>10, <5>2
          <6> QED BY <1>3, <5>1, <6>2, <6>3
        <5> QED BY <5>3, <5>4
      <4>2. CASE ~(k - 1 <= t + m)
        <5>1. At(e, k - 1) = At(d, t) + (At(s, j) - At(s, i)) + At(w, (k - 1) - (t + m))
          BY <1>8, <2>0, <4>2
        <5> QED BY <3>1, <3>4, <5>1
      <4> QED BY <4>1, <4>2
    <3>6. (zero + (At(s, j) - At(s, i))) + At(d, t + (q - 1)) = zero + At(e, k - 1)
      <4> DEFINE x1 == At(s, i)
                 x2 == At(s, j)
                 x3 == At(d, t)
                 x4 == At(d, t + (q - 1))
                 x5 == At(e, k - 1)
      <4>1. /\ x1 \in Nat /\ x2 \in Nat /\ x3 \in Nat /\ x4 \in Nat /\ zero \in Int
            /\ x5 = x3 + (x2 - x1) + (x4 - x3)
        BY <1>3, <1>16, <3>4, <3>5
      <4> HIDE DEF x1, x2, x3, x4, x5
      <4>2. (zero + (x2 - x1)) + x4 = zero + x5
        BY <4>1
      <4> QED BY <4>2 DEF x1, x2, x4, x5
    <3> QED BY <3>1, <3>2, <3>3, <3>6 DEF Entry
  <2> QED BY <1>0, <1>1, <2>1, <2>2, <2>3
<1>24. (Between(dst, Start(dst, 0), Start(dst, t)) \o Between(src, Start(src, i), End(src, j - 1)))
          \o Between(dst, Start(dst, t), FileSize(dst)) = Body(e)
  <2>1. Between(dst, z + At(d, 0), z + At(d, t)) = Body(u)
    BY <1>1, BetweenSections DEF z, u
  <2>2. Between(src, y + At(s, i), y + At(s, j)) = Body(v)
    BY <1>1, BetweenSections DEF y, v
  <2>3. Between(dst, z + At(d, t), z + At(d, n)) = Body(w)
    BY <1>1, BetweenSections DEF z, w
  <2>4. Body(u \o v) = Body(u) \o Body(v)
    BY <1>5, BodyConcat
  <2>5. u \o v \in Seq(S)
    BY <1>5, ConcatProperties
  <2>6. Body((u \o v) \o w) = Body(u \o v) \o Body(w)
    BY <1>5, <2>5, BodyConcat
  <2> QED BY <1>0, <1>2, <1>3, <1>7, <2>1, <2>2, <2>3, <2>4, <2>6
<1>25. InsertRange(src, i, j - 1, dst, t) = Assemble(2 * (n + m) + 1, table, zero, Body(e))
  <2>1. (j - 1) - i + 1 = m
    BY <1>1
  <2> QED BY <1>0, <1>24, <2>1 DEF InsertRange, table, a, b, c, zero, dif, move
<1>26. Holds(Assemble(2 * Len(e) + 1, table, zero, Body(e)), e)
  BY <1>6, <1>16, <1>21, <1>22, <1>23, AssembleHolds
<1> QED BY <1>6, <1>25, <1>26 DEF e

-----------------------------------------------------------------------------
(* The EXTH block. *)
Recs == [num : Nat, val : Int, len : Nat]

Counted == {"exth", "enum", "elen", "title", "len"}

Sound(h) ==
    /\ Counted \subseteq DOMAIN h /\ h = [f \in DOMAIN h |-> h[f]]
    /\ h.exth \in Seq(Recs)
    /\ h.enum = Len(h.exth)
    /\ h.elen = ExthSize(h.exth)
    /\ h.title = Base + h.elen
    /\ h.len = h.title + 20

SameBut(g, h) == DOMAIN g = DOMAIN h /\ \A f \in DOMAIN h \ Counted : g[f] = h[f]

LEMMA SmallestOf ==
  ASSUME NEW I, I \subseteq Nat, I # {}
  PROVE  Min(I) \in I /\ \A y \in I : Min(I) <= y
<1> DEFINE T == {n \in Nat : \A k \in 0..n : k \in I => \E x \in I : \A y \in I : x <= y}
<1>1. 0 \in T
  <2> SUFFICES ASSUME 0 \in I
               PROVE  \E x \in I : \A y \in I : x <= y
    OBVIOUS
  <2> QED OBVIOUS
<1>2. ASSUME NEW n \in Nat, n \in T
      PROVE  n + 1 \in T
  <2>1. SUFFICES ASSUME n + 1 \in I, \A k \in 0..n : k \notin I
                 PROVE  \E x \in I : \A y \in I : x <= y
    <3>1. ASSUME NEW k \in 0..(n + 1), k \in I
          PROVE  \E x \in I : \A y \in I : x <= y
      <4>1. CASE \E m \in 0..n : m \in I
        BY <1>2, <4>1
      <4>2. CASE ~\E m \in 0..n : m \in I
        <5>1. k = n + 1
          BY <3>1, <4>2
        <5> QED BY <2>1, <3>1, <4>2, <5>1
      <4> QED BY <4>1, <4>2
    <3> QED BY <3>1
  <2> QED BY <2>1
<1>3. \A n \in Nat : n \in T
  <2> HIDE DEF T
  <2> QED BY <1>1, <1>2, InductionInSet
<1>4. \E x \in I : \A y \in I : x <= y
  <2>1. PICK n \in Nat : n \in I
    OBVIOUS
  <2>2. n \in T
    <3> HIDE DEF T
    <3> QED BY <1>3
  <2> QED BY <2>1, <2>2
<1> QED BY <1>4 DEF Min

LEMMA RecType ==
  ASSUME NEW num \in Nat, NEW val \in Int, NEW len \in Nat
  PROVE  Rec(num, val, len) \in Recs
BY DEF Rec, Recs, RecHead

LEMMA RecsSized == Sized(Recs)
BY DEF Sized, Recs

LEMMA ReadsAll ==
  ASSUME NEW h, Sound(h), NEW num
  PROVE  ReadExth(h, num) = Having(h.exth, num) /\ Walked(h) = h.exth
<1>1. h.exth \in Seq(Recs) /\ h.enum = Len(h.exth) /\ Len(h.exth) \in Nat
  BY LenProperties DEF Sound
<1>2. Min({h.enum, Len(h.exth)}) = Len(h.exth)
  <2>1. Min({Len(h.exth), Len(h.exth)})
          = IF Len(h.exth) <= Len(h.exth) THEN Len(h.exth) ELSE Len(h.exth)
    BY <1>1, SmallerOfTwo
  <2> QED BY <1>1, <2>1
<1>3. Walked(h) = h.exth
  BY <1>1, <1>2, SubSeqFull DEF Walked
<1> QED BY <1>3 DEF ReadExth

LEMMA GrowIs ==
  ASSUME NEW h, Sound(h), NEW d \in Int
  PROVE  /\ DOMAIN Grow(h, d) = DOMAIN h
         /\ Grow(h, d) = [f \in DOMAIN h |-> Grow(h, d)[f]]
         /\ Grow(h, d).elen = h.elen + d /\ Grow(h, d).title = h.title + d /\ Grow(h, d).len = h.len + d
         /\ \A f \in DOMAIN h \ {"elen", "title", "len"} : Grow(h, d)[f] = h[f]
BY DEF Grow, Sound, Counted

LEMMA SoundSizes ==
  ASSUME NEW h, Sound(h)
  PROVE  /\ ByteCount(h.exth) \in Nat /\ h.elen = 12 + ByteCount(h.exth)
         /\ h.title = 260 + ByteCount(h.exth) /\ h.len = 280 + ByteCount(h.exth)
         /\ h.elen \in Nat /\ h.title \in Nat /\ h.len \in Nat /\ h.len # 0
<1>1. ByteCount(h.exth) \in Nat
  BY RecsSized, CountType DEF Sound
<1>2. h.elen = 12 + ByteCount(h.exth)
  BY DEF Sound, ExthSize, ExthHead
<1>3. h.title = 260 + ByteCount(h.exth)
  BY <1>1, <1>2 DEF Sound, Base
<1>4. h.len = 280 + ByteCount(h.exth)
  BY <1>1, <1>3 DEF Sound
<1> QED BY <1>1, <1>2, <1>3, <1>4

LEMMA StillSound ==
  ASSUME NEW h, Sound(h), NEW g, NEW exth \in Seq(Recs), NEW d \in Int,
         DOMAIN g = DOMAIN h, g = [f \in DOMAIN h |-> g[f]],
         g.exth = exth, g.enum = Len(exth), ByteCount(exth) = ByteCount(h.exth) + d,
         g.elen = h.elen + d, g.title = h.title + d, g.len = h.len + d
  PROVE  Sound(g)
<1>1. /\ ByteCount(h.exth) \in Nat /\ h.elen = 12 + ByteCount(h.exth)
      /\ h.title = 260 + ByteCount(h.exth) /\ h.len = 280 + ByteCount(h.exth)
  BY SoundSizes
<1>2. g.elen = ExthHead + ByteCount(exth)
  BY <1>1 DEF ExthHead
<1>3. g.title = Base + g.elen /\ g.len = g.title + 20
  BY <1>1 DEF Base
<1>4. Counted \subseteq DOMAIN g
  BY DEF Sound
<1> QED BY <1>2, <1>3, <1>4 DEF Sound, ExthSize

LEMMA AddSound ==
  ASSUME NEW h, Sound(h), NEW num \in Nat, NEW val \in Int, NEW len \in Nat
  PROVE  /\ Sound(AddExth(h, num, val, len)) /\ SameBut(AddExth(h, num, val, len), h)
         /\ AddExth(h, num, val, len).exth = <<Rec(num, val, len)>> \o h.exth
         /\ ReadExth(AddExth(h, num, val, len), num) = <<Rec(num, val, len)>> \o ReadExth(h, num)
         /\ \A n : n # num => ReadExth(AddExth(h, num, val, len), n) = ReadExth(h, n)
<1> DEFINE r == Rec(num, val, len)
           d == RecHead + len
           x == Grow(h, d)
           g == AddExth(h, num, val, len)
           exth == <<r>> \o h.exth
<1>1. r \in Recs /\ r.num = num /\ r.len = d /\ d \in Int
  BY RecType DEF Rec, RecHead
<1>2. h.exth \in Seq(Recs) /\ <<r>> \in Seq(Recs) /\ Len(<<r>>) = 1 /\ Len(h.exth) \in Nat
      /\ h.enum = Len(h.exth)
  BY <1>1, LenProperties DEF Sound
<1>3. ByteCount(<<r>>) = d
  BY <1>1, CountOne DEF Recs
<1>4. /\ DOMAIN x = DOMAIN h /\ x = [f \in DOMAIN h |-> x[f]]
      /\ x.elen = h.elen + d /\ x.title = h.title + d /\ x.len = h.len + d
      /\ \A f \in DOMAIN h \ {"elen", "title", "len"} : x[f] = h[f]
  BY <1>1, GrowIs
<1>5. g = [x EXCEPT !.exth = <<r>> \o @, !.enum = @ + 1]
  BY DEF AddExth
<1> HIDE DEF r, x, g
<1>6. exth \in Seq(Recs) /\ Len(exth) = Len(h.exth) + 1
  BY <1>2, ConcatProperties
<1>7. ByteCount(exth) = ByteCount(h.exth) + d
  <2>1. ByteCount(exth) = d + ByteCount(h.exth)
    BY <1>2, <1>3, RecsSized, CountConcat
  <2>2. ByteCount(h.exth) \in Nat
    BY SoundSizes
  <2> QED BY <1>1, <2>1, <2>2
<1>8. Counted \subseteq DOMAIN h
  BY DEF Sound
<1>9. /\ DOMAIN g = DOMAIN h /\ g = [f \in DOMAIN h |-> g[f]]
      /\ g.exth = exth /\ g.enum = Len(exth)
      /\ g.elen = h.elen + d /\ g.title = h.title + d /\ g.len = h.len + d
  BY <1>2, <1>4, <1>5, <1>6, <1>8 DEF Counted
<1>10. \A f \in DOMAIN h \ Counted : g[f] = h[f]
  BY <1>4, <1>5 DEF Counted
<1>11. Sound(g)
  BY <1>1, <1>6, <1>7, <1>9, StillSound
<1>12. \A n : ReadExth(g, n) = Having(<<r>>, n) \o Having(h.exth, n) /\ ReadExth(h, n) = Having(h.exth, n)
  <2> SUFFICES ASSUME NEW n
               PROVE  ReadExth(g, n) = Having(<<r>>, n) \o Having(h.exth, n) /\ ReadExth(h, n) = Having(h.exth, n)
    OBVIOUS
  <2>1. ReadExth(g, n) = Having(exth, n) /\ ReadExth(h, n) = Having(h.exth, n)
    BY <1>9, <1>11, ReadsAll
  <2> DEFINE y == <<r>>
             t == h.exth
  <2>2. y \in Seq(Recs) /\ t \in Seq(Recs)
    BY <1>2
  <2> HIDE DEF y, t
  <2>3. Having(y \o t, n) = Having(y, n) \o Having(t, n)
    BY <2>2, HavingConcat DEF HavingOfTwo
  <2> QED BY <2>1, <2>3 DEF y, t
<1>13. ReadExth(g, num) = <<r>> \o ReadExth(h, num)
  BY <1>1, <1>12, HavingOne
<1>14. ASSUME NEW n, n # num
       PROVE  ReadExth(g, n) = ReadExth(h, n)
  <2>1. Having(<<r>>, n) = <<>>
    BY <1>1, <1>14, HavingOne
  <2>2. Having(h.exth, n) \in Seq(Recs)
    BY <1>2, HavingType
  <2>3. <<>> \o Having(h.exth, n) = Having(h.exth, n)
    BY <2>2, ConcatEmptySeq
  <2> QED BY <1>12, <2>1, <2>3
<1> QED BY <1>9, <1>10, <1>11, <1>13, <1>14 DEF r, g, SameBut

-----------------------------------------------------------------------------
(* What the header records say of themselves. *)
LEMMA FirstIs ==
  ASSUME NEW h, Sound(h), NEW num
  PROVE  \/ /\ FirstExth(h, num) = 0
            /\ \A k \in 1..Len(h.exth) : h.exth[k].num # num
         \/ /\ FirstExth(h, num) \in 1..Len(h.exth)
            /\ h.exth[FirstExth(h, num)].num = num
            /\ \A k \in 1..(FirstExth(h, num) - 1) : h.exth[k].num # num
<1> DEFINE x == h.exth
           I == {i \in 1..Len(x) : x[i].num = num}
           i == FirstExth(h, num)
<1>0. x \in Seq(Recs) /\ Len(x) \in Nat /\ Walked(h) = x
  BY LenProperties, ReadsAll DEF Sound
<1>1. i = IF I # {} THEN Min(I) ELSE 0
  BY <1>0 DEF FirstExth, SelectInSeq
<1>2. CASE I = {}
  BY <1>1, <1>2
<1>3. CASE I # {}
  <2>1. I \subseteq Nat
    BY <1>0
  <2>2. Min(I) \in I /\ \A y \in I : Min(I) <= y
    <3> HIDE DEF I
    <3> QED BY <1>3, <2>1, SmallestOf
  <2>3. i \in I /\ \A y \in I : i <= y
    BY <1>1, <1>3, <2>2
  <2> HIDE DEF i
  <2>4. \A k \in 1..(i - 1) : x[k].num # num
    <3> SUFFICES ASSUME NEW k \in 1..(i - 1), x[k].num = num
                 PROVE  FALSE
      OBVIOUS
    <3>1. i \in 1..Len(x)
      BY <2>3
    <3>2. k \in 1..Len(x) /\ ~(i <= k)
      BY <1>0, <3>1
    <3>3. k \in I
      BY <3>2
    <3> QED BY <2>3, <3>2, <3>3
  <2> QED BY <2>3, <2>4 DEF i
<1> QED BY <1>2, <1>3

(* A sequence cut at one of its elements. *)
LEMMA CutAt ==
  ASSUME NEW S, NEW s \in Seq(S), NEW i \in 1..Len(s)
  PROVE  /\ SubSeq(s, 1, i - 1) \in Seq(S) /\ SubSeq(s, i + 1, Len(s)) \in Seq(S)
         /\ s[i] \in S /\ Len(SubSeq(s, 1, i - 1)) = i - 1
         /\ \A k \in 1..(i - 1) : SubSeq(s, 1, i - 1)[k] = s[k]
         /\ s = (SubSeq(s, 1, i - 1) \o <<s[i]>>) \o SubSeq(s, i + 1, Len(s))
<1> DEFINE j == i - 1
           u == SubSeq(s, 1, j)
           w == SubSeq(s, i + 1, Len(s))
           x == s[i]
           c == Changed(s, j, x)
<1>0. Len(s) \in Nat /\ s[i] \in S /\ j \in 0..(Len(s) - 1) /\ j \in 0..Len(s) /\ i \in 0..Len(s)
      /\ Len(s) \in i..Len(s) /\ j + 1 = i /\ j + 2 = i + 1
  BY LenProperties, ElementOfSeq
<1>1. u \in Seq(S) /\ Len(u) = j /\ \A k \in 1..j : u[k] = s[k]
  BY <1>0, PrefixType
<1>2. w \in Seq(S)
  BY <1>0, PartType
<1>3. c = (SubSeq(s, 1, j) \o <<x>>) \o SubSeq(s, j + 2, Len(s))
  <2> HIDE DEF j, x
  <2>1. x \in S
    BY <1>0 DEF x
  <2> QED BY <1>0, <2>1, ChangedIsConcat
<1>4. c = s
  <2>1. /\ c \in Seq(S) /\ Len(c) = Len(s)
        /\ \A k \in 1..Len(s) : c[k] = IF k = j + 1 THEN x ELSE s[k]
    <3> HIDE DEF j, x, c
    <3>1. x \in S
      BY <1>0 DEF x
    <3> QED BY <1>0, <3>1, ChangedType DEF c
  <2>2. \A k \in 1..Len(s) : c[k] = s[k]
    BY <1>0, <2>1
  <2> HIDE DEF c
  <2> QED BY <2>1, <2>2, SeqEqual
<1>5. j + 2 = i + 1
  BY <1>0
<1> QED BY <1>0, <1>1, <1>2, <1>3, <1>4, <1>5

Kept(x, n) == IF x.num = n THEN <<x>> ELSE <<>>

HavingOfThree(u, v, w, n) ==
    Having((u \o v) \o w, n) = (Having(u, n) \o Having(v, n)) \o Having(w, n)

LEMMA HavingThree ==
  ASSUME NEW S, NEW u \in Seq(S), NEW v \in Seq(S), NEW w \in Seq(S), NEW n
  PROVE  HavingOfThree(u, v, w, n)
<1> DEFINE t == u \o v
<1>1. t \in Seq(S)
  BY ConcatProperties
<1>2. Having(t, n) = Having(u, n) \o Having(v, n)
  BY HavingConcat DEF HavingOfTwo
<1> HIDE DEF t
<1>3. HavingOfTwo(t, w, n)
  BY <1>1, HavingConcat
<1>4. Having(t \o w, n) = Having(t, n) \o Having(w, n)
  BY <1>3 DEF HavingOfTwo
<1> QED BY <1>2, <1>4 DEF t, HavingOfThree

LEMMA CountThree ==
  ASSUME NEW S, Sized(S), NEW u \in Seq(S), NEW x \in S, NEW w \in Seq(S)
  PROVE  /\ ByteCount((u \o <<x>>) \o w) = ByteCount(u) + x.len + ByteCount(w)
         /\ ByteCount(u \o w) = ByteCount(u) + ByteCount(w)
         /\ ByteCount(u) \in Nat /\ ByteCount(w) \in Nat /\ x.len \in Nat
<1> DEFINE y == <<x>>
<1>1. x.len \in Nat
  BY DEF Sized
<1>2. y \in Seq(S) /\ ByteCount(y) = x.len
  BY <1>1, CountOne
<1> HIDE DEF y
<1>3. u \o y \in Seq(S)
  BY <1>2, ConcatProperties
<1>4. ByteCount((u \o y) \o w) = ByteCount(u \o y) + ByteCount(w)
  BY <1>3, CountConcat
<1>5. ByteCount(u \o y) = ByteCount(u) + ByteCount(y)
  BY <1>2, CountConcat
<1>6. ByteCount(u \o w) = ByteCount(u) + ByteCount(w)
  BY CountConcat
<1>7. ByteCount(u) \in Nat /\ ByteCount(w) \in Nat
  BY CountType
<1> QED BY <1>1, <1>2, <1>4, <1>5, <1>6, <1>7 DEF y

(* What the operations on the block leave of the records that they are not *)
(* about.                                                                  *)
Others(g, h, num) == \A n : n # num => ReadExth(g, n) = ReadExth(h, n)

Rest(recs) == IF recs = <<>> THEN <<>> ELSE Tail(recs)

LEMMA DelSound ==
  ASSUME NEW h, Sound(h), NEW num
  PROVE  /\ Sound(DelExth(h, num)) /\ SameBut(DelExth(h, num), h)
         /\ Others(DelExth(h, num), h, num)
         /\ ReadExth(DelExth(h, num), num) = Rest(ReadExth(h, num))
<1> DEFINE i == FirstExth(h, num)
           s == h.exth
           g == DelExth(h, num)
<1>0. s \in Seq(Recs) /\ Len(s) \in Nat /\ h.enum = Len(s)
  BY LenProperties DEF Sound
<1>1. CASE i = 0
  <2>1. \A k \in 1..Len(s) : s[k].num # num
    BY <1>0, <1>1, FirstIs
  <2>2. g = h
    BY <1>1 DEF DelExth
  <2>3. ReadExth(h, num) = <<>>
    <3>1. Having(s, num) = <<>>
      BY <1>0, <2>1, HavingNone
    <3> QED BY <3>1, ReadsAll
  <2> HIDE DEF g
  <2>4. ReadExth(g, num) = Rest(ReadExth(h, num))
    BY <2>2, <2>3 DEF Rest
  <2>5. Sound(g) /\ SameBut(g, h) /\ Others(g, h, num)
    BY <2>2 DEF Others, SameBut
  <2> QED BY <2>4, <2>5 DEF g
<1>2. CASE i # 0
  <2>1. i \in 1..Len(s) /\ s[i].num = num /\ \A k \in 1..(i - 1) : s[k].num # num
    BY <1>2, FirstIs
  <2> DEFINE u == SubSeq(s, 1, i - 1)
             w == SubSeq(s, i + 1, Len(s))
             x == s[i]
             d == 0 - x.len
             y == Grow(h, d)
             exth == u \o w
  <2>2. /\ u \in Seq(Recs) /\ w \in Seq(Recs) /\ x \in Recs /\ Len(u) = i - 1
        /\ \A k \in 1..(i - 1) : u[k] = s[k]
        /\ s = (u \o <<x>>) \o w
    <3> HIDE DEF i, s
    <3> QED BY <1>0, <2>1, CutAt
  <2>3. g = [y EXCEPT !.exth = RemoveAt(@, i), !.enum = @ - 1] /\ x.len \in Nat
    <3>1. x.len \in Nat
      BY <2>2 DEF Recs
    <3>2. -x.len = d
      BY <3>1
    <3>3. g = [Grow(h, -x.len) EXCEPT !.exth = RemoveAt(@, i), !.enum = @ - 1]
      BY <1>2 DEF DelExth
    <3> QED BY ONLY <3>1, <3>2, <3>3 DEF y
  <2> HIDE DEF i
  <2>4. d \in Int
    BY <2>3
  <2> HIDE DEF d, g
  <2>5. /\ DOMAIN y = DOMAIN h /\ y = [f \in DOMAIN h |-> y[f]]
        /\ y.elen = h.elen + d /\ y.title = h.title + d /\ y.len = h.len + d
        /\ \A f \in DOMAIN h \ {"elen", "title", "len"} : y[f] = h[f]
    BY <2>4, GrowIs
  <2> HIDE DEF y, u, w
  <2>6. Counted \subseteq DOMAIN h
    BY DEF Sound
  <2>7. exth \in Seq(Recs) /\ Len(exth) = Len(s) - 1
    <3> DEFINE z == <<x>>
    <3>1. z \in Seq(Recs) /\ Len(z) = 1
      BY <2>2
    <3>2. s = (u \o z) \o w
      BY <2>2
    <3> HIDE DEF z, s
    <3>3. u \o z \in Seq(Recs) /\ Len(u \o z) = Len(u) + 1
      <4>1. u \in Seq(Recs)
        BY <2>2
      <4>2. u \o z \in Seq(Recs) /\ Len(u \o z) = Len(u) + Len(z)
        BY <3>1, <4>1, ConcatProperties
      <4> QED BY <3>1, <4>2
    <3>4. Len(s) = (Len(u) + 1) + Len(w)
      BY <2>2, <3>2, <3>3, ConcatProperties
    <3>5. exth \in Seq(Recs) /\ Len(exth) = Len(u) + Len(w) /\ Len(u) \in Nat /\ Len(w) \in Nat
      BY <2>2, ConcatProperties, LenProperties
    <3> QED BY <3>4, <3>5
  <2>8. RemoveAt(s, i) = exth
    BY DEF RemoveAt, u, w
  <2>9. y.exth = s /\ y.enum = Len(s)
    BY <1>0, <2>5, <2>6 DEF Counted
  <2>10. /\ DOMAIN g = DOMAIN h /\ g = [f \in DOMAIN h |-> g[f]]
         /\ g.exth = exth /\ g.enum = Len(exth)
         /\ g.elen = h.elen + d /\ g.title = h.title + d /\ g.len = h.len + d
    <3> HIDE DEF s, exth
    <3> QED BY <1>0, <2>3, <2>5, <2>6, <2>7, <2>8, <2>9 DEF Counted
  <2>11. \A f \in DOMAIN h \ Counted : g[f] = h[f]
    BY <2>3, <2>5 DEF Counted
  <2>12. ByteCount(exth) = ByteCount(s) + d
    <3>1. /\ ByteCount((u \o <<x>>) \o w) = ByteCount(u) + x.len + ByteCount(w)
          /\ ByteCount(u \o w) = ByteCount(u) + ByteCount(w)
          /\ ByteCount(u) \in Nat /\ ByteCount(w) \in Nat /\ x.len \in Nat
      <4> HIDE DEF x
      <4> QED BY <2>2, RecsSized, CountThree
    <3>2. ByteCount(s) = ByteCount(u) + x.len + ByteCount(w)
      BY <2>2, <3>1
    <3>3. ByteCount(exth) = ByteCount(u) + ByteCount(w)
      BY <3>1
    <3>4. d = 0 - x.len
      BY DEF d
    <3> HIDE DEF x, exth, s
    <3> QED BY <3>1, <3>2, <3>3, <3>4
  <2>13. Sound(g)
    <3> HIDE DEF exth
    <3> QED BY <2>4, <2>7, <2>10, <2>12, StillSound
  <2>14. ASSUME NEW n
         PROVE  /\ ReadExth(g, n) = Having(u, n) \o Having(w, n)
                /\ ReadExth(h, n) = (Having(u, n) \o Kept(x, n)) \o Having(w, n)
                /\ Having(u, n) \in Seq(Recs) /\ Having(w, n) \in Seq(Recs)
    <3>1. ReadExth(g, n) = Having(exth, n) /\ ReadExth(h, n) = Having(s, n)
      BY <2>10, <2>13, ReadsAll
    <3>2. Having(u \o w, n) = Having(u, n) \o Having(w, n)
      BY <2>2, HavingConcat DEF HavingOfTwo
    <3>3. Having((u \o <<x>>) \o w, n)
            = (Having(u, n) \o Kept(x, n)) \o Having(w, n)
      <4>1. u \in Seq(Recs) /\ x \in Recs /\ w \in Seq(Recs)
        BY <2>2
      <4> DEFINE z == <<x>>
      <4>2. z \in Seq(Recs)
        BY <4>1
      <4>3. Having(z, n) = Kept(x, n)
        <5> HIDE DEF x
        <5> QED BY HavingOne DEF Kept
      <4> HIDE DEF x, z
      <4>4. HavingOfThree(u, z, w, n)
        BY <4>1, <4>2, HavingThree
      <4> QED BY <4>3, <4>4 DEF z, HavingOfThree
    <3>4. Having(u, n) \in Seq(Recs) /\ Having(w, n) \in Seq(Recs)
      BY <2>2, HavingType
    <3> HIDE DEF x
    <3> QED BY <2>2, <3>1, <3>2, <3>3, <3>4
  <2>15. ASSUME NEW n, n # num
         PROVE  ReadExth(g, n) = ReadExth(h, n)
    <3>1. Kept(x, n) = <<>>
      BY <2>1, <2>15 DEF Kept
    <3>2. Having(u, n) \o <<>> = Having(u, n)
      BY <2>14, ConcatEmptySeq
    <3> QED BY <2>14, <3>1, <3>2
  <2>16. ReadExth(g, num) = Rest(ReadExth(h, num))
    <3>1. Having(u, num) = <<>>
      <4>1. \A k \in 1..Len(u) : u[k].num # num
        BY <2>1, <2>2
      <4> QED BY <2>2, <4>1, HavingNone
    <3> DEFINE t == Having(w, num)
    <3>2. t \in Seq(Recs)
      BY <2>14
    <3>3. ReadExth(g, num) = <<>> \o t /\ ReadExth(h, num) = (<<>> \o <<x>>) \o t
      BY <2>1, <2>14, <3>1 DEF Kept
    <3> HIDE DEF t, x
    <3>4. <<>> \o t = t /\ <<>> \o <<x>> = <<x>>
      <4> DEFINE z == <<x>>
      <4>1. z \in Seq(Recs)
        BY <2>2
      <4> HIDE DEF z
      <4>2. <<>> \o t = t /\ <<>> \o z = z
        BY <3>2, <4>1, ConcatEmptySeq
      <4> QED BY <4>2 DEF z
    <3>5. Tail(<<x>> \o t) = t /\ <<x>> \o t # <<>>
      <4> DEFINE z == <<x>>
                 p == z \o t
      <4>1. z \in Seq(Recs) /\ Len(z) = 1
        BY <2>2
      <4> HIDE DEF z
      <4>2. p \in Seq(Recs) /\ Len(p) = 1 + Len(t) /\ Len(t) \in Nat
            /\ \A k \in 1..(1 + Len(t)) : p[k] = IF k <= 1 THEN z[k] ELSE t[k - 1]
        <5>1. Len(t) \in Nat
          BY <3>2, LenProperties
        <5>2. /\ p \in Seq(Recs) /\ Len(p) = Len(z) + Len(t)
              /\ \A k \in 1..(Len(z) + Len(t)) : p[k] = IF k <= Len(z) THEN z[k] ELSE t[k - Len(z)]
          <6>1. z \in Seq(Recs)
            BY <4>1
          <6> QED BY <3>2, <6>1, ConcatProperties
        <5> QED BY <4>1, <5>1, <5>2
      <4> HIDE DEF p
      <4>3. p # <<>>
        BY <4>2
      <4>4. Tail(p) \in Seq(Recs) /\ Len(Tail(p)) = Len(t) /\ \A k \in 1..Len(t) : Tail(p)[k] = p[k + 1]
        BY <4>2, <4>3, HeadTailProperties
      <4>5. \A k \in 1..Len(t) : Tail(p)[k] = t[k]
        <5> SUFFICES ASSUME NEW k \in 1..Len(t)
                     PROVE  Tail(p)[k] = t[k]
          OBVIOUS
        <5>1. k + 1 \in 1..(1 + Len(t)) /\ ~(k + 1 <= 1) /\ (k + 1) - 1 = k
          BY <4>2
        <5> QED BY <4>2, <4>4, <5>1
      <4>6. Tail(p) = t
        BY <3>2, <4>4, <4>5, SeqEqual
      <4> QED BY <4>3, <4>6 DEF p, z
    <3> QED BY <3>3, <3>4, <3>5 DEF Rest
  <2> QED BY <2>10, <2>11, <2>13, <2>15, <2>16 DEF g, SameBut, Others
<1> QED BY <1>1, <1>2

LEMMA HavingSwapped ==
  ASSUME NEW S, NEW u \in Seq(S), NEW y \in Seq(S), NEW z \in Seq(S), NEW w \in Seq(S), NEW n,
         Having(y, n) = Having(z, n)
  PROVE  Having((u \o y) \o w, n) = Having((u \o z) \o w, n)
<1>1. HavingOfThree(u, y, w, n)
  BY HavingThree
<1>2. HavingOfThree(u, z, w, n)
  BY HavingThree
<1> QED BY <1>1, <1>2 DEF HavingOfThree

LEMMA HavingChanged ==
  ASSUME NEW u \in Seq(Recs), NEW x \in Recs, NEW r \in Recs, NEW w \in Seq(Recs), NEW n,
         x.num # n, r.num # n
  PROVE  Having((u \o <<x>>) \o w, n) = Having((u \o <<r>>) \o w, n)
<1> DEFINE y == <<x>>
           z == <<r>>
<1>1. y \in Seq(Recs) /\ z \in Seq(Recs)
  OBVIOUS
<1>2. Having(y, n) = <<>> /\ Having(z, n) = <<>>
  BY HavingOne
<1> HIDE DEF y, z
<1>3. Having((u \o y) \o w, n) = Having((u \o z) \o w, n)
  BY <1>1, <1>2, HavingSwapped
<1> QED BY <1>3 DEF y, z

LEMMA WriteSound ==
  ASSUME NEW h, Sound(h), NEW num \in Nat, NEW val \in Int, NEW len \in Nat
  PROVE  /\ Sound(WriteExth(h, num, val, len)) /\ SameBut(WriteExth(h, num, val, len), h)
         /\ Others(WriteExth(h, num, val, len), h, num)
<1> DEFINE i == FirstExth(h, num)
           s == h.exth
           g == WriteExth(h, num, val, len)
<1>0. s \in Seq(Recs) /\ Len(s) \in Nat /\ h.enum = Len(s)
  BY LenProperties DEF Sound
<1>1. CASE i = 0
  <2>1. g = h
    BY <1>1 DEF WriteExth
  <2> HIDE DEF g
  <2>2. Sound(g) /\ SameBut(g, h) /\ Others(g, h, num)
    BY <2>1 DEF Others, SameBut
  <2> QED BY <2>2 DEF g
<1>2. CASE i # 0
  <2>1. i \in 1..Len(s) /\ s[i].num = num
    BY <1>2, FirstIs
  <2> DEFINE u == SubSeq(s, 1, i - 1)
             w == SubSeq(s, i + 1, Len(s))
             x == s[i]
             r == Rec(num, val, len)
             d == (RecHead + len) - x.len
             y == Grow(h, d)
             exth == [s EXCEPT ![i] = r]
  <2>2. /\ u \in Seq(Recs) /\ w \in Seq(Recs) /\ x \in Recs
        /\ s = (u \o <<x>>) \o w
    <3> HIDE DEF i
    <3> QED BY <1>0, <2>1, CutAt
  <2>3. g = [y EXCEPT !.exth[i] = r] /\ x.len \in Nat /\ d \in Int
    <3>1. x.len \in Nat
      BY <2>2 DEF Recs
    <3> QED BY <1>2, <3>1 DEF WriteExth, RecHead
  <2>4. r \in Recs /\ r.num = num /\ r.len = RecHead + len /\ RecHead + len \in Nat
    BY RecType DEF Rec, RecHead
  <2>5. d = (RecHead + len) - x.len
    OBVIOUS
  <2> HIDE DEF i, d, g, r
  <2>6. /\ DOMAIN y = DOMAIN h /\ y = [f \in DOMAIN h |-> y[f]]
        /\ y.elen = h.elen + d /\ y.title = h.title + d /\ y.len = h.len + d
        /\ \A f \in DOMAIN h \ {"elen", "title", "len"} : y[f] = h[f]
    BY <2>3, GrowIs
  <2> HIDE DEF y
  <2>7. Counted \subseteq DOMAIN h
    BY DEF Sound
  <2>8. exth \in Seq(Recs) /\ Len(exth) = Len(s)
    BY <1>0, <2>1, <2>4, ExceptSeq
  <2>9. exth = (u \o <<r>>) \o w
    <3> DEFINE j == i - 1
    <3>1. j + 1 = i /\ j + 2 = i + 1 /\ j \in 0..(Len(s) - 1)
      BY <1>0, <2>1
    <3>2. u = SubSeq(s, 1, j) /\ w = SubSeq(s, j + 2, Len(s)) /\ exth = Changed(s, j, r)
      BY <3>1 DEF Changed
    <3> HIDE DEF j, u, w, exth, s
    <3>3. Changed(s, j, r) = (SubSeq(s, 1, j) \o <<r>>) \o SubSeq(s, j + 2, Len(s))
      BY <1>0, <2>4, <3>1, ChangedIsConcat
    <3> QED BY <3>2, <3>3
  <2> HIDE DEF u, w
  <2>10. y.exth = s /\ y.enum = Len(s)
    BY <1>0, <2>6, <2>7 DEF Counted
  <2>11. /\ DOMAIN g = DOMAIN h /\ g = [f \in DOMAIN h |-> g[f]]
         /\ g.exth = exth /\ g.enum = Len(exth)
         /\ g.elen = h.elen + d /\ g.title = h.title + d /\ g.len = h.len + d
    <3> HIDE DEF s
    <3> QED BY <1>0, <2>3, <2>6, <2>7, <2>8, <2>10 DEF Counted
  <2>12. \A f \in DOMAIN h \ Counted : g[f] = h[f]
    BY <2>3, <2>6 DEF Counted
  <2>13. ByteCount(exth) = ByteCount(s) + d
    <3>1. \A e \in Recs : /\ ByteCount((u \o <<e>>) \o w) = ByteCount(u) + e.len + ByteCount(w)
                         /\ ByteCount(u) \in Nat /\ ByteCount(w) \in Nat /\ e.len \in Nat
      BY <2>2, RecsSized, CountThree
    <3>2. ByteCount(s) = ByteCount(u) + x.len + ByteCount(w)
      <4>1. x \in Recs
        BY <2>2
      <4> HIDE DEF x
      <4> QED BY <2>2, <3>1, <4>1
    <3>3. ByteCount(exth) = ByteCount(u) + r.len + ByteCount(w)
      <4> HIDE DEF exth
      <4> QED BY <2>4, <2>9, <3>1
    <3> HIDE DEF x, exth, s
    <3> QED BY <2>2, <2>4, <2>5, <3>1, <3>2, <3>3
  <2>14. Sound(g)
    <3>1. ByteCount(exth) = ByteCount(h.exth) + d
      BY <2>13
    <3>2. exth \in Seq(Recs)
      BY <2>8
    <3>3. d \in Int
      BY <2>3
    <3> HIDE DEF exth, s, u, w, x, r
    <3> QED BY <2>11, <3>1, <3>2, <3>3, StillSound
  <2>15. ASSUME NEW n, n # num
         PROVE  ReadExth(g, n) = ReadExth(h, n)
    <3>1. ReadExth(g, n) = Having(exth, n) /\ ReadExth(h, n) = Having(s, n)
      BY <2>11, <2>14, ReadsAll
    <3>2. u \in Seq(Recs) /\ w \in Seq(Recs) /\ x \in Recs /\ x.num # n
      BY <2>1, <2>2, <2>15
    <3> HIDE DEF x
    <3>3. Having((u \o <<x>>) \o w, n) = Having((u \o <<r>>) \o w, n)
      BY <2>4, <2>15, <3>2, HavingChanged
    <3> HIDE DEF exth
    <3> QED BY <2>2, <2>9, <3>1, <3>3
  <2> QED BY <2>11, <2>12, <2>14, <2>15 DEF g, SameBut, Others
<1> QED BY <1>1, <1>2

(* Other fields of a header may change. *)
LEMMA SideSound ==
  ASSUME NEW h, Sound(h), NEW g, DOMAIN g = DOMAIN h, g = [f \in DOMAIN h |-> g[f]],
         \A f \in Counted : g[f] = h[f]
  PROVE  Sound(g) /\ \A n : ReadExth(g, n) = ReadExth(h, n)
<1>1. /\ g.exth = h.exth /\ g.enum = h.enum /\ g.elen = h.elen
      /\ g.title = h.title /\ g.len = h.len
  BY DEF Counted
<1>2. Sound(g)
  BY <1>1 DEF Sound
<1> QED BY <1>1, <1>2 DEF ReadExth, Walked

-----------------------------------------------------------------------------
(* A file and the sections in it. *)
Filed(pdb, s) == \E S : s \in Seq(S) /\ Sized(S) /\ Holds(pdb, s)

LEMMA FiledReads ==
  ASSUME NEW pdb, NEW s, Filed(pdb, s)
  PROVE  /\ Len(s) \in Nat /\ Len(pdb.table) = Len(s) /\ Sections(pdb) = 0..(Len(s) - 1)
         /\ \A i \in 0..(Len(s) - 1) :
              Content(pdb, i) = IF s[i + 1].len = 0 THEN Empty ELSE s[i + 1]
<1>1. PICK S : s \in Seq(S) /\ Sized(S) /\ Holds(pdb, s)
  BY DEF Filed
<1>2. Len(s) \in Nat /\ Len(pdb.table) = Len(s)
  BY <1>1, Layout
<1>3. \A i \in 0..(Len(s) - 1) :
        Content(pdb, i) = IF s[i + 1].len = 0 THEN Empty ELSE s[i + 1]
  BY <1>1, ReadsTheSection
<1> QED BY <1>2, <1>3 DEF Sections

LEMMA FiledIsDatabase ==
  ASSUME NEW pdb, NEW s, Filed(pdb, s), Len(s) # 0
  PROVE  /\ pdb.seed = 2 * Len(pdb.table) + 1
         /\ Start(pdb, 0) = BodyStart(pdb)
         /\ \A i \in Sections(pdb) : /\ Start(pdb, i) <= End(pdb, i)
                                    /\ pdb.table[i + 1].id = 2 * i
<1>1. PICK S : s \in Seq(S) /\ Sized(S) /\ Holds(pdb, s)
  BY DEF Filed
<1>2. /\ Len(s) \in Nat /\ Len(pdb.table) = Len(s) /\ BodyStart(pdb) \in Nat
      /\ \A k \in 1..Len(s) : pdb.table[k] = Entry(s, BodyStart(pdb), k)
      /\ \A i \in 0..(Len(s) - 1) : /\ Start(pdb, i) = BodyStart(pdb) + At(s, i)
                                   /\ End(pdb, i) = BodyStart(pdb) + At(s, i + 1)
  BY <1>1, Layout
<1>3. Start(pdb, 0) = BodyStart(pdb)
  <2>1. At(s, 0) = 0
    BY <1>1, AtEnds
  <2>2. 0 \in 0..(Len(s) - 1)
    BY <1>2
  <2> QED BY <1>2, <2>1, <2>2
<1>4. ASSUME NEW i \in Sections(pdb)
      PROVE  Start(pdb, i) <= End(pdb, i) /\ pdb.table[i + 1].id = 2 * i
  <2>1. i \in 0..(Len(s) - 1) /\ i + 1 \in 1..Len(s) /\ (i + 1) - 1 = i
    BY <1>2 DEF Sections
  <2>2. pdb.table[i + 1].id = 2 * i
    <3> DEFINE k == i + 1
    <3>1. pdb.table[k] = [ofs |-> BodyStart(pdb) + At(s, k - 1), id |-> 2 * (k - 1)]
      BY <1>2, <2>1 DEF Entry
    <3>2. pdb.table[k].id = 2 * (k - 1)
      <4> HIDE DEF k
      <4> QED BY <3>1
    <3> QED BY <2>1, <3>2
  <2>3. i \in 0..Len(s) /\ i + 1 \in 0..Len(s) /\ At(s, i) <= At(s, i + 1)
        /\ At(s, i) \in Nat /\ At(s, i + 1) \in Nat
    <3>1. i \in 0..Len(s) /\ i + 1 \in 0..Len(s)
      BY <1>2, <2>1
    <3>2. At(s, i) \in Nat /\ At(s, i + 1) \in Nat
      BY <1>1, <3>1, AtType
    <3>3. At(s, i + 1) = At(s, (i + 1) - 1) + s[i + 1].len /\ s[i + 1].len \in Nat
      BY <1>1, <2>1, AtStep
    <3> QED BY <2>1, <3>1, <3>2, <3>3
  <2> QED BY <1>2, <2>1, <2>2, <2>3
<1>5. pdb.seed = 2 * Len(pdb.table) + 1
  BY <1>1, <1>2 DEF Holds
<1> QED BY <1>3, <1>4, <1>5

Put(t, s, i, x) ==
    Len(t) = Len(s) /\ \A j \in 1..Len(s) : t[j] = IF j = i + 1 THEN x ELSE s[j]

LEMMA FiledWrite ==
  ASSUME NEW pdb, NEW s, Filed(pdb, s), NEW i \in 0..(Len(s) - 1), NEW x, x.len \in Nat
  PROVE  /\ Filed(WriteSection(pdb, i, Run(x)), Changed(s, i, x))
         /\ Put(Changed(s, i, x), s, i, x)
<1>1. PICK S : s \in Seq(S) /\ Sized(S) /\ Holds(pdb, s)
  BY DEF Filed
<1> DEFINE T == S \union {x}
<1>2. s \in Seq(T) /\ Sized(T) /\ x \in T
  <2>1. \A k \in 1..Len(s) : s[k] \in T
    BY <1>1, ElementOfSeq
  <2> QED BY <1>1, <2>1 DEF Sized
<1> HIDE DEF T
<1>3. Holds(WriteSection(pdb, i, Run(x)), Changed(s, i, x))
  BY <1>1, <1>2, WriteHolds
<1>4. /\ Changed(s, i, x) \in Seq(T) /\ Len(Changed(s, i, x)) = Len(s)
      /\ \A j \in 1..Len(s) : Changed(s, i, x)[j] = IF j = i + 1 THEN x ELSE s[j]
  BY <1>2, ChangedType
<1>5. Put(Changed(s, i, x), s, i, x)
  BY <1>4 DEF Put
<1> QED BY <1>2, <1>3, <1>4, <1>5 DEF Filed

LEMMA FiledNull ==
  ASSUME NEW pdb, NEW s, Filed(pdb, s), NEW i \in 0..(Len(s) - 1)
  PROVE  /\ Filed(NullSection(pdb, i), Changed(s, i, Empty))
         /\ Put(Changed(s, i, Empty), s, i, Empty)
<1>1. PICK S : s \in Seq(S) /\ Sized(S) /\ Holds(pdb, s)
  BY DEF Filed
<1> DEFINE T == S \union {Empty}
<1>2. s \in Seq(T) /\ Sized(T) /\ Empty \in T
  <2>1. \A k \in 1..Len(s) : s[k] \in T
    BY <1>1, ElementOfSeq
  <2>2. Empty.len \in Nat
    BY DEF Empty
  <2> QED BY <1>1, <2>1, <2>2 DEF Sized
<1> HIDE DEF T
<1>3. Holds(NullSection(pdb, i), Changed(s, i, Empty))
  BY <1>1, <1>2, NullHolds
<1>4. /\ Changed(s, i, Empty) \in Seq(T) /\ Len(Changed(s, i, Empty)) = Len(s)
      /\ \A j \in 1..Len(s) : Changed(s, i, Empty)[j] = IF j = i + 1 THEN Empty ELSE s[j]
  BY <1>2, ChangedType
<1>5. Put(Changed(s, i, Empty), s, i, Empty)
  BY <1>4 DEF Put
<1> QED BY <1>2, <1>3, <1>4, <1>5 DEF Filed

(* Sections first..last of a file go into what is left of it from section  *)
(* k on, before the section that was k + t.                                *)
Moved(s, k, first, last, t) == With(s, first, last + 1, Without(s, 0, k), t)

CutTogether(m, s, k, first, last, t) ==
    /\ Len(m) = (Len(s) - k) + (last - first + 1)
    /\ \A j \in 1..t : m[j] = s[k + j]
    /\ \A j \in 1..(last - first + 1) : m[t + j] = s[first + j]
    /\ \A j \in 1..(Len(s) - k - t) : m[t + (last - first + 1) + j] = s[k + t + j]

LEMMA FiledCut ==
  ASSUME NEW pdb, NEW s, Filed(pdb, s), NEW k \in 1..(Len(s) - 1),
         NEW first \in 0..(Len(s) - 1), NEW last \in first..(Len(s) - 1),
         NEW t \in 0..(Len(s) - k - 1)
  PROVE  /\ Filed(InsertRange(pdb, first, last, DeleteRange(pdb, 0, k - 1), t), Moved(s, k, first, last, t))
         /\ CutTogether(Moved(s, k, first, last, t), s, k, first, last, t)
<1>1. PICK S : s \in Seq(S) /\ Sized(S) /\ Holds(pdb, s)
  BY DEF Filed
<1> DEFINE n == Len(s)
           d == Without(s, 0, k)
           j == last + 1
           e == With(s, first, j, d, t)
<1>2. n \in Nat /\ j \in (first + 1)..n /\ j - 1 = last /\ j - first = last - first + 1
      /\ first \in 0..n /\ j \in first..n /\ k \in (0 + 1)..n /\ k \in 0..n /\ n \in k..n /\ 0 \in 0..(n - 1)
  BY <1>1, LenProperties
<1>3. d = SubSeq(s, k + 1, n) /\ d \in Seq(S) /\ Len(d) = n - k /\ \A i \in 1..(n - k) : d[i] = s[k + i]
  <2> DEFINE w == SubSeq(s, k + 1, n)
  <2>1. w \in Seq(S) /\ Len(w) = n - k /\ \A i \in 1..(n - k) : w[i] = s[k + i]
    <3> HIDE DEF w, n
    <3> QED BY <1>1, <1>2, PartType DEF w, n
  <2>2. SubSeq(s, 1, 0) = <<>>
    BY <1>1, SubSeqEmpty
  <2>3. d = <<>> \o w
    BY <2>2 DEF Without
  <2> HIDE DEF w, d
  <2>4. d = w
    BY <2>1, <2>3, ConcatEmptySeq
  <2> QED BY <2>1, <2>4 DEF w
<1>4. Holds(DeleteRange(pdb, 0, k - 1), d)
  BY <1>1, <1>2, DeleteHolds
<1> HIDE DEF d, j, e
<1>5. t \in 0..(Len(d) - 1) /\ t \in 0..Len(d)
  BY <1>2, <1>3
<1>6. Holds(InsertRange(pdb, first, j - 1, DeleteRange(pdb, 0, k - 1), t), e)
  BY <1>1, <1>2, <1>3, <1>4, <1>5, InsertHolds DEF e
<1>7. /\ e \in Seq(S) /\ Len(e) = Len(d) + (j - first)
      /\ \A i \in 1..t : e[i] = d[i]
      /\ \A i \in 1..(j - first) : e[t + i] = s[first + i]
      /\ \A i \in 1..(Len(d) - t) : e[t + (j - first) + i] = d[t + i]
  <2>1. s \in Seq(S) /\ d \in Seq(S) /\ first \in 0..Len(s) /\ j \in first..Len(s) /\ t \in 0..Len(d)
    BY <1>1, <1>2, <1>3, <1>5
  <2>2. With(s, first, j, d, t) \in Seq(S) /\ Len(With(s, first, j, d, t)) = Len(d) + (j - first)
    BY <2>1, WithType
  <2>3. Spliced(With(s, first, j, d, t), s, first, j, d, t)
    BY <2>1, WithType
  <2> QED BY <2>2, <2>3 DEF e, Spliced
<1>8. e = Moved(s, k, first, last, t)
  BY DEF e, d, j, Moved
<1>9. \A i \in 1..t : e[i] = s[k + i]
  <2> SUFFICES ASSUME NEW i \in 1..t
               PROVE  e[i] = s[k + i]
    OBVIOUS
  <2>1. i \in 1..(n - k)
    BY <1>2, <1>3, <1>5
  <2> QED BY <1>3, <1>7, <2>1
<1>10. \A i \in 1..(n - k - t) : e[t + (j - first) + i] = s[k + t + i]
  <2> SUFFICES ASSUME NEW i \in 1..(n - k - t)
               PROVE  e[t + (j - first) + i] = s[k + t + i]
    OBVIOUS
  <2>1. i \in 1..(Len(d) - t) /\ t + i \in 1..(n - k) /\ k + (t + i) = k + t + i
    BY <1>2, <1>3, <1>5
  <2>2. e[t + (j - first) + i] = d[t + i] /\ d[t + i] = s[k + (t + i)]
    BY <1>3, <1>7, <2>1
  <2> QED BY <2>1, <2>2
<1>11. Filed(InsertRange(pdb, first, last, DeleteRange(pdb, 0, k - 1), t), e)
  BY <1>1, <1>2, <1>6, <1>7 DEF Filed
<1>12. CutTogether(e, s, k, first, last, t)
  BY <1>2, <1>3, <1>7, <1>9, <1>10 DEF CutTogether
<1> QED BY <1>8, <1>11, <1>12

-----------------------------------------------------------------------------
(* The sections of the source. *)
SRCS == Other("SRCS")

Plain == {Text(p, i) : p \in {7, 8}, i \in Nat} \union {Image(i) : i \in Nat}
           \union {Other(w) : w \in {"PAGE", "FCIS7", "BOUNDARY", "FDST", "FCIS", "EOF"}}

Kinds(l, m, c) == Plain \union {SRCS, Head7(l, m, c), Head8(l, m, c)}

Unsourced(s) == \A k \in 1..Len(s) : s[k] # SRCS

SourcesAt(s, a, b) == \A k \in 1..Len(s) : s[k] = SRCS <=> k \in (a + 1)..b

Appended(S, t, s, x) ==
    /\ t \in Seq(S) /\ Len(t) = Len(s) + Len(x) /\ Len(s) \in Nat /\ Len(x) \in Nat
    /\ \A k \in 1..Len(s) : t[k] = s[k]
    /\ \A k \in 1..Len(x) : t[Len(s) + k] = x[k]

LEMMA AppendedType ==
  ASSUME NEW S, NEW s \in Seq(S), NEW x \in Seq(S)
  PROVE  Appended(S, s \o x, s, x)
<1> DEFINE t == s \o x
<1>1. Len(s) \in Nat /\ Len(x) \in Nat
  BY LenProperties
<1>2. /\ t \in Seq(S) /\ Len(t) = Len(s) + Len(x)
      /\ \A k \in 1..(Len(s) + Len(x)) : t[k] = IF k <= Len(s) THEN s[k] ELSE x[k - Len(s)]
  BY ConcatProperties
<1> HIDE DEF t
<1>3. \A k \in 1..Len(s) : t[k] = s[k]
  BY <1>1, <1>2
<1>4. ASSUME NEW k \in 1..Len(x)
      PROVE  t[Len(s) + k] = x[k]
  <2> DEFINE q == Len(s) + k
  <2>1. q \in 1..(Len(s) + Len(x)) /\ ~(q <= Len(s)) /\ q - Len(s) = k
    BY <1>1
  <2> HIDE DEF q
  <2>2. t[q] = x[k]
    BY <1>2, <2>1
  <2> QED BY <2>2 DEF q
<1> QED BY <1>1, <1>2, <1>3, <1>4 DEF t, Appended

(* A place in the appended part or before it. *)
LEMMA PlaceIn ==
  ASSUME NEW S, NEW t, NEW s, NEW x, Appended(S, t, s, x), NEW k \in 1..Len(t)
  PROVE  \/ k \in 1..Len(s) /\ t[k] = s[k]
         \/ k - Len(s) \in 1..Len(x) /\ t[k] = x[k - Len(s)]
<1>1. CASE k <= Len(s)
  BY <1>1 DEF Appended
<1>2. CASE ~(k <= Len(s))
  <2> DEFINE j == k - Len(s)
  <2>1. j \in 1..Len(x) /\ Len(s) + j = k
    BY <1>2 DEF Appended
  <2> HIDE DEF j
  <2>2. t[k] = x[j]
    BY <2>1 DEF Appended
  <2> QED BY <2>1, <2>2 DEF j
<1> QED BY <1>1, <1>2

LEMMA UnsourcedAppended ==
  ASSUME NEW S, NEW t, NEW s, NEW x, Appended(S, t, s, x), Unsourced(s), Unsourced(x)
  PROVE  Unsourced(t)
<1> SUFFICES ASSUME NEW k \in 1..Len(t)
             PROVE  t[k] # SRCS
  BY DEF Unsourced
<1>1. \/ k \in 1..Len(s) /\ t[k] = s[k]
      \/ k - Len(s) \in 1..Len(x) /\ t[k] = x[k - Len(s)]
  BY PlaceIn
<1> QED BY <1>1 DEF Unsourced

LEMMA SourcesFound ==
  ASSUME NEW S, NEW t, NEW s, NEW x, Appended(S, t, s, x), Unsourced(s),
         \A k \in 1..Len(x) : x[k] = SRCS
  PROVE  SourcesAt(t, Len(s), Len(t))
<1> SUFFICES ASSUME NEW k \in 1..Len(t)
             PROVE  t[k] = SRCS <=> k \in (Len(s) + 1)..Len(t)
  BY DEF SourcesAt
<1>0. Len(s) \in Nat /\ Len(t) \in Nat
  BY DEF Appended
<1>1. CASE k \in 1..Len(s) /\ t[k] = s[k]
  BY <1>0, <1>1 DEF Unsourced
<1>2. CASE k - Len(s) \in 1..Len(x) /\ t[k] = x[k - Len(s)]
  <2>1. k \in (Len(s) + 1)..Len(t)
    BY <1>0, <1>2
  <2> QED BY <1>2, <2>1
<1> QED BY <1>1, <1>2, PlaceIn

LEMMA SourcesStay ==
  ASSUME NEW S, NEW t, NEW s, NEW x, Appended(S, t, s, x), Unsourced(x),
         NEW a, NEW b \in Nat, b <= Len(s), SourcesAt(s, a, b)
  PROVE  SourcesAt(t, a, b)
<1> SUFFICES ASSUME NEW k \in 1..Len(t)
             PROVE  t[k] = SRCS <=> k \in (a + 1)..b
  BY DEF SourcesAt
<1>1. CASE k \in 1..Len(s) /\ t[k] = s[k]
  BY <1>1 DEF SourcesAt
<1>2. CASE k - Len(s) \in 1..Len(x) /\ t[k] = x[k - Len(s)]
  <2>1. k \notin (a + 1)..b
    <3>1. Len(s) \in Nat
      BY DEF Appended
    <3>2. ~(k <= b)
      BY <1>2, <3>1
    <3> QED BY <3>2
  <2> QED BY <1>2, <2>1 DEF Unsourced
<1> QED BY <1>1, <1>2, PlaceIn

LEMMA PlainIsUnsourced ==
  ASSUME NEW l \in Layouts, NEW m \in Metas, NEW c \in Covers
  PROVE  /\ \A x \in Plain : x # SRCS /\ x.len \in Nat \ {0}
         /\ Head7(l, m, c) # SRCS /\ Head8(l, m, c) # SRCS
         /\ SRCS.len \in Nat \ {0}
<1>1. SRCS.other = "SRCS" /\ DOMAIN SRCS = {"other", "len"} /\ SRCS.len = 36
  BY DEF SRCS, Other
<1>2. ASSUME NEW x \in Plain
      PROVE  x # SRCS /\ x.len \in Nat \ {0}
  <2>1. CASE \E p \in {7, 8}, i \in Nat : x = Text(p, i)
    <3>1. DOMAIN x = {"text", "len"} /\ x.len = 40
      BY <2>1 DEF Text
    <3>2. "text" \in DOMAIN x /\ "text" \notin DOMAIN SRCS
      BY <1>1, <3>1
    <3> QED BY <3>1, <3>2
  <2>2. CASE \E i \in Nat : x = Image(i)
    <3>1. DOMAIN x = {"image", "len"} /\ x.len \in Nat \ {0}
      BY <2>2 DEF Image
    <3>2. "image" \in DOMAIN x /\ "image" \notin DOMAIN SRCS
      BY <1>1, <3>1
    <3> QED BY <3>1, <3>2
  <2>3. CASE \E w \in {"PAGE", "FCIS7", "BOUNDARY", "FDST", "FCIS", "EOF"} : x = Other(w)
    <3>1. x.other # "SRCS" /\ x.len = 36
      BY <2>3 DEF Other
    <3> QED BY <1>1, <3>1
  <2> QED BY <1>2, <2>1, <2>2, <2>3 DEF Plain
<1>3. Head7(l, m, c) # SRCS
  <2>1. "part" \in DOMAIN Head7(l, m, c)
    BY DEF Head7
  <2> QED BY <1>1, <2>1
<1>4. Head8(l, m, c) # SRCS
  <2>1. "part" \in DOMAIN Head8(l, m, c)
    BY DEF Head8
  <2> QED BY <1>1, <2>1
<1> QED BY <1>1, <1>2, <1>3, <1>4

LEMMA UnsourcedTuples ==
  ASSUME NEW S, NEW x \in S, NEW y \in S, NEW z \in S, x # SRCS, y # SRCS, z # SRCS
  PROVE  /\ <<>> \in Seq(S) /\ Len(<<>>) = 0 /\ Unsourced(<<>>)
         /\ <<x>> \in Seq(S) /\ Len(<<x>>) = 1 /\ Unsourced(<<x>>)
         /\ <<x, y>> \in Seq(S) /\ Len(<<x, y>>) = 2 /\ Unsourced(<<x, y>>)
         /\ <<x, y, z>> \in Seq(S) /\ Len(<<x, y, z>>) = 3 /\ Unsourced(<<x, y, z>>)
<1>1. <<>> \in Seq(S) /\ Len(<<>>) = 0 /\ Unsourced(<<>>)
  BY DEF Unsourced
<1>2. <<x>> \in Seq(S) /\ Len(<<x>>) = 1 /\ Unsourced(<<x>>)
  BY DEF Unsourced
<1>3. <<x, y>> \in Seq(S) /\ Len(<<x, y>>) = 2 /\ Unsourced(<<x, y>>)
  <2>1. \A k \in 1..2 : <<x, y>>[k] # SRCS
    OBVIOUS
  <2>2. Len(<<x, y>>) = 2
    OBVIOUS
  <2> QED BY <2>1, <2>2 DEF Unsourced
<1>4. <<x, y, z>> \in Seq(S) /\ Len(<<x, y, z>>) = 3 /\ Unsourced(<<x, y, z>>)
  <2>1. \A k \in 1..3 : <<x, y, z>>[k] # SRCS
    OBVIOUS
  <2>2. Len(<<x, y, z>>) = 3
    OBVIOUS
  <2> QED BY <2>1, <2>2 DEF Unsourced
<1> QED BY <1>1, <1>2, <1>3, <1>4

JointLengths(a, b, d, e, f, g, q2, q3, q4, q5, q6, q7, q8, q9, q10, K) ==
    /\ K \in Nat /\ q2 = 1 + a /\ q3 = q2 + b /\ q4 = q3 + d /\ q2 \in Nat
    /\ q5 + 3 = K + 1 /\ q6 = K + 1 /\ q10 >= K + f + 4
    /\ q4 \in Nat /\ q4 <= q5 /\ q4 <= q6 /\ q4 <= q7 /\ q4 <= q8 /\ q4 <= q9
    /\ 1 <= q2 /\ 1 <= q3

LEMMA LengthsAre ==
  ASSUME NEW a \in Nat, NEW b \in Nat, NEW d \in Nat, NEW e \in Nat, NEW f \in Nat, NEW g \in Nat,
         NEW q2, NEW q3, NEW q4, NEW q5, NEW q6, NEW q7, NEW q8, NEW q9, NEW q10, NEW K,
         q2 = 1 + a, q3 = q2 + b, q4 = q3 + d, q5 = q4 + e, q6 = q5 + 3, q7 = q6 + f, q8 = q7 + 2,
         q9 = q8 + g, q10 = q9 + 1, K = 3 + a + b + d + e
  PROVE  JointLengths(a, b, d, e, f, g, q2, q3, q4, q5, q6, q7, q8, q9, q10, K)
BY DEF JointLengths

HeadNumber(l) == 3 + l.pre7 + l.images + l.sources + (IF l.page = "seven" THEN 1 ELSE 0)

LEMMA JointShape ==
  ASSUME NEW l \in Layouts, NEW m \in Metas, NEW c \in Covers
  PROVE  LET J == JointSections(l, m, c)
             K == HeadNumber(l)
             first == 1 + l.pre7
         IN  /\ J \in Seq(Kinds(l, m, c)) /\ Len(J) \in Nat /\ Len(J) >= K + l.pre8 + 4
             /\ J[1] = Head7(l, m, c) /\ J[K + 1] = Head8(l, m, c)
             /\ \A k \in 1..l.images : J[first + k] = Image(k - 1)
             /\ SourcesAt(J, first + l.images, first + l.images + l.sources)
<1> DEFINE S == Kinds(l, m, c)
           h7 == Head7(l, m, c)
           h8 == Head8(l, m, c)
           J == JointSections(l, m, c)
           K == HeadNumber(l)
           first == 1 + l.pre7
           one == IF l.page = "seven" THEN 1 ELSE 0
           x1 == <<h7>>
           x2 == [i \in 1..l.pre7 |-> Text(7, i)]
           x3 == [i \in 1..l.images |-> Image(i - 1)]
           x4 == Times(l.sources, SRCS)
           x5 == If(l.page = "seven", Other("PAGE"))
           x6 == <<Other("FCIS7"), Other("BOUNDARY"), h8>>
           x7 == [i \in 1..l.pre8 |-> Text(8, i)]
           x8 == <<Other("FDST"), Other("FCIS")>>
           x9 == If(l.page = "eight", Other("PAGE"))
           x10 == <<Other("EOF")>>
           p2 == x1 \o x2
           p3 == p2 \o x3
           p4 == p3 \o x4
           p5 == p4 \o x5
           p6 == p5 \o x6
           p7 == p6 \o x7
           p8 == p7 \o x8
           p9 == p8 \o x9
           p10 == p9 \o x10
<1>0. /\ l.pre7 \in Nat /\ l.images \in Nat /\ l.sources \in Nat /\ l.pre8 \in Nat /\ one \in Nat
      /\ l.pre7 # 0 /\ l.images # 0
  BY LayoutsAssumption
<1>1. Plain \subseteq S /\ h7 \in S /\ h8 \in S /\ SRCS \in S
  BY DEF Kinds
<1>2. \A w \in {"PAGE", "FCIS7", "BOUNDARY", "FDST", "FCIS", "EOF"} : Other(w) \in Plain
  BY DEF Plain
<1>3. \A i \in Nat : Text(7, i) \in Plain /\ Text(8, i) \in Plain /\ Image(i) \in Plain
  BY DEF Plain
<1>4. J = p10
  BY DEF JointSections, SRCS
<1>6. /\ \A x \in Plain : x # SRCS
      /\ h7 # SRCS /\ h8 # SRCS
  BY PlainIsUnsourced
<1>11. x1 \in Seq(S) /\ Len(x1) = 1 /\ Unsourced(x1) /\ x1[1] = h7
  <2> HIDE DEF S, h7
  <2> QED BY <1>1, <1>6 DEF Unsourced
<1>12. x2 \in Seq(S) /\ Len(x2) = l.pre7 /\ Unsourced(x2)
  <2>1. \A i \in 1..l.pre7 : Text(7, i) \in Plain
    BY <1>3
  <2> HIDE DEF S
  <2> QED BY <1>0, <1>1, <1>6, <2>1 DEF Unsourced
<1>13. x3 \in Seq(S) /\ Len(x3) = l.images /\ Unsourced(x3) /\ \A i \in 1..l.images : x3[i] = Image(i - 1)
  <2>1. \A i \in 1..l.images : Image(i - 1) \in Plain
    <3> SUFFICES ASSUME NEW i \in 1..l.images
                 PROVE  Image(i - 1) \in Plain
      OBVIOUS
    <3>1. i - 1 \in Nat
      BY <1>0
    <3> QED BY <1>3, <3>1
  <2> HIDE DEF S
  <2> QED BY <1>0, <1>1, <1>6, <2>1 DEF Unsourced
<1>14. x4 \in Seq(S) /\ Len(x4) = l.sources /\ \A k \in 1..Len(x4) : x4[k] = SRCS
  <2> HIDE DEF S
  <2> QED BY <1>0, <1>1 DEF Times
<1>15. x5 \in Seq(S) /\ Len(x5) = one /\ Unsourced(x5)
  <2> DEFINE o == Other("PAGE")
  <2>1. o \in S /\ o # SRCS
    BY <1>1, <1>2, <1>6
  <2> HIDE DEF S, o
  <2>2. CASE l.page = "seven"
    <3>1. x5 = <<o>> /\ one = 1
      BY <2>2 DEF If, o
    <3> HIDE DEF x5, one
    <3> QED BY <2>1, <3>1, UnsourcedTuples
  <2>3. CASE l.page # "seven"
    <3>1. x5 = <<>> /\ one = 0
      BY <2>3 DEF If
    <3> HIDE DEF x5, one
    <3> QED BY <2>1, <3>1, UnsourcedTuples
  <2> QED BY <2>2, <2>3
<1>16. x6 \in Seq(S) /\ Len(x6) = 3 /\ Unsourced(x6) /\ x6[3] = h8
  <2> DEFINE o == Other("FCIS7")
             q == Other("BOUNDARY")
  <2>1. o \in S /\ o # SRCS /\ q \in S /\ q # SRCS
    BY <1>1, <1>2, <1>6
  <2>2. x6 = <<o, q, h8>> /\ x6[3] = h8
    OBVIOUS
  <2> HIDE DEF S, o, q, h8, x6
  <2> QED BY <1>1, <1>6, <2>1, <2>2, UnsourcedTuples
<1>17. x7 \in Seq(S) /\ Len(x7) = l.pre8 /\ Unsourced(x7)
  <2>1. \A i \in 1..l.pre8 : Text(8, i) \in Plain
    BY <1>3
  <2> HIDE DEF S
  <2> QED BY <1>0, <1>1, <1>6, <2>1 DEF Unsourced
<1>18. x8 \in Seq(S) /\ Len(x8) = 2 /\ Unsourced(x8)
  <2> DEFINE o == Other("FDST")
             q == Other("FCIS")
  <2>1. o \in S /\ o # SRCS /\ q \in S /\ q # SRCS
    BY <1>1, <1>2, <1>6
  <2>2. x8 = <<o, q>>
    OBVIOUS
  <2> HIDE DEF S, o, q, x8
  <2> QED BY <2>1, <2>2, UnsourcedTuples
<1>19. x9 \in Seq(S) /\ Len(x9) \in Nat /\ Unsourced(x9)
  <2> DEFINE o == Other("PAGE")
  <2>1. o \in S /\ o # SRCS
    BY <1>1, <1>2, <1>6
  <2> HIDE DEF S, o
  <2>2. CASE l.page = "eight"
    <3>1. x9 = <<o>>
      BY <2>2 DEF If, o
    <3> HIDE DEF x9
    <3> QED BY <2>1, <3>1, UnsourcedTuples
  <2>3. CASE l.page # "eight"
    <3>1. x9 = <<>>
      BY <2>3 DEF If
    <3> HIDE DEF x9
    <3> QED BY <2>1, <3>1, UnsourcedTuples
  <2> QED BY <2>2, <2>3
<1>20. x10 \in Seq(S) /\ Len(x10) = 1 /\ Unsourced(x10)
  <2> DEFINE o == Other("EOF")
  <2>1. o \in S /\ o # SRCS
    BY <1>1, <1>2, <1>6
  <2>2. x10 = <<o>>
    OBVIOUS
  <2> HIDE DEF S, o, x10
  <2> QED BY <2>1, <2>2, UnsourcedTuples
<1> HIDE DEF S, h7, h8, J, K, first, one, x1, x2, x3, x4, x5, x6, x7, x8, x9, x10
<1>22. Appended(S, p2, x1, x2) /\ p2 \in Seq(S)
  BY <1>11, <1>12, AppendedType, ConcatProperties
<1> HIDE DEF p2
<1>23. Appended(S, p3, p2, x3) /\ p3 \in Seq(S)
  BY <1>13, <1>22, AppendedType, ConcatProperties
<1> HIDE DEF p3
<1>24. Appended(S, p4, p3, x4) /\ p4 \in Seq(S)
  BY <1>14, <1>23, AppendedType, ConcatProperties
<1> HIDE DEF p4
<1>25. Appended(S, p5, p4, x5) /\ p5 \in Seq(S)
  BY <1>15, <1>24, AppendedType, ConcatProperties
<1> HIDE DEF p5
<1>26. Appended(S, p6, p5, x6) /\ p6 \in Seq(S)
  BY <1>16, <1>25, AppendedType, ConcatProperties
<1> HIDE DEF p6
<1>27. Appended(S, p7, p6, x7) /\ p7 \in Seq(S)
  BY <1>17, <1>26, AppendedType, ConcatProperties
<1> HIDE DEF p7
<1>28. Appended(S, p8, p7, x8) /\ p8 \in Seq(S)
  BY <1>18, <1>27, AppendedType, ConcatProperties
<1> HIDE DEF p8
<1>29. Appended(S, p9, p8, x9) /\ p9 \in Seq(S)
  BY <1>19, <1>28, AppendedType, ConcatProperties
<1> HIDE DEF p9
<1>30. Appended(S, p10, p9, x10) /\ p10 \in Seq(S)
  BY <1>20, <1>29, AppendedType, ConcatProperties
<1> HIDE DEF p10
<1>31. /\ Len(p2) = Len(x1) + Len(x2) /\ Len(p3) = Len(p2) + Len(x3)
       /\ Len(p4) = Len(p3) + Len(x4) /\ Len(p5) = Len(p4) + Len(x5)
       /\ Len(p6) = Len(p5) + Len(x6) /\ Len(p7) = Len(p6) + Len(x7)
       /\ Len(p8) = Len(p7) + Len(x8) /\ Len(p9) = Len(p8) + Len(x9)
       /\ Len(p10) = Len(p9) + Len(x10)
  <2>1. Len(p2) = Len(x1) + Len(x2) /\ Len(p3) = Len(p2) + Len(x3)
    BY <1>22, <1>23 DEF Appended
  <2>2. Len(p4) = Len(p3) + Len(x4) /\ Len(p5) = Len(p4) + Len(x5)
    BY <1>24, <1>25 DEF Appended
  <2>3. Len(p6) = Len(p5) + Len(x6) /\ Len(p7) = Len(p6) + Len(x7)
    BY <1>26, <1>27 DEF Appended
  <2>4. Len(p8) = Len(p7) + Len(x8) /\ Len(p9) = Len(p8) + Len(x9)
    BY <1>28, <1>29 DEF Appended
  <2>5. Len(p10) = Len(p9) + Len(x10)
    BY <1>30 DEF Appended
  <2> QED BY <2>1, <2>2, <2>3, <2>4, <2>5
<1>32. JointLengths(l.pre7, l.images, l.sources, one, l.pre8, Len(x9),
                    Len(p2), Len(p3), Len(p4), Len(p5), Len(p6), Len(p7), Len(p8), Len(p9), Len(p10), K)
  <2>1. /\ Len(x1) = 1 /\ Len(x2) = l.pre7 /\ Len(x3) = l.images /\ Len(x4) = l.sources
        /\ Len(x5) = one /\ Len(x6) = 3 /\ Len(x7) = l.pre8 /\ Len(x8) = 2 /\ Len(x9) \in Nat
        /\ Len(x10) = 1
    BY <1>11, <1>12, <1>13, <1>14, <1>15, <1>16, <1>17, <1>18, <1>19, <1>20
  <2>2. K = 3 + l.pre7 + l.images + l.sources + one
    BY DEF K, HeadNumber, one
  <2> QED BY <1>0, <1>31, <2>1, <2>2, LengthsAre
<1>33. \A k \in 1..Len(p6) : J[k] = p6[k]
  <2> SUFFICES ASSUME NEW k \in 1..Len(p6)
               PROVE  J[k] = p6[k]
    OBVIOUS
  <2>1. k \in 1..Len(p7) /\ p7[k] = p6[k]
    BY <1>27 DEF Appended
  <2>2. k \in 1..Len(p8) /\ p8[k] = p7[k]
    BY <1>28, <2>1 DEF Appended
  <2>3. k \in 1..Len(p9) /\ p9[k] = p8[k]
    BY <1>29, <2>2 DEF Appended
  <2>4. p10[k] = p9[k]
    BY <1>30, <2>3 DEF Appended
  <2> QED BY <1>4, <2>1, <2>2, <2>3, <2>4
<1>34. J[K + 1] = h8
  <2>1. p6[Len(p5) + 3] = x6[3] /\ Len(p5) + 3 = K + 1
    <3>1. 3 \in 1..Len(x6)
      BY <1>16
    <3>2. p6[Len(p5) + 3] = x6[3]
      BY <1>26, <3>1 DEF Appended
    <3> QED BY <1>32, <3>2 DEF JointLengths
  <2>2. K + 1 \in 1..Len(p6)
    <3>1. K \in Nat /\ Len(p6) = K + 1
      BY <1>32 DEF JointLengths
    <3> QED BY <3>1
  <2> QED BY <1>16, <1>33, <2>1, <2>2
<1>35. \A k \in 1..Len(p3) : J[k] = p3[k]
  <2> SUFFICES ASSUME NEW k \in 1..Len(p3)
               PROVE  J[k] = p3[k]
    OBVIOUS
  <2>1. k \in 1..Len(p4) /\ p4[k] = p3[k]
    BY <1>24 DEF Appended
  <2>2. k \in 1..Len(p5) /\ p5[k] = p4[k]
    BY <1>25, <2>1 DEF Appended
  <2>3. k \in 1..Len(p6) /\ p6[k] = p5[k]
    BY <1>26, <2>2 DEF Appended
  <2> QED BY <1>33, <2>1, <2>2, <2>3
<1>36. J[1] = h7
  <2>1. 1 \in 1..Len(x1) /\ 1 \in 1..Len(p2) /\ 1 \in 1..Len(p3)
    BY <1>11, <1>32 DEF JointLengths
  <2>2. p2[1] = x1[1]
    BY <1>22, <2>1 DEF Appended
  <2>3. p3[1] = p2[1]
    BY <1>23, <2>1 DEF Appended
  <2> QED BY <1>11, <1>35, <2>1, <2>2, <2>3
<1>37. \A k \in 1..l.images : J[first + k] = Image(k - 1)
  <2> SUFFICES ASSUME NEW k \in 1..l.images
               PROVE  J[first + k] = Image(k - 1)
    OBVIOUS
  <2>1. p3[Len(p2) + k] = x3[k]
    BY <1>13, <1>23 DEF Appended
  <2>2. first + k \in 1..Len(p3)
    <3>1. first = Len(p2) /\ Len(p2) \in Nat /\ Len(p3) = Len(p2) + l.images
      BY <1>32 DEF JointLengths, first
    <3> QED BY <1>0, <3>1
  <2>3. first = Len(p2)
    BY <1>32 DEF JointLengths, first
  <2> QED BY <1>13, <1>35, <2>1, <2>2, <2>3
<1>38. SourcesAt(J, first + l.images, first + l.images + l.sources)
  <2> DEFINE a == first + l.images
             b == first + l.images + l.sources
  <2>1. Unsourced(p2)
    BY <1>11, <1>12, <1>22, UnsourcedAppended
  <2>2. Unsourced(p3)
    BY <1>13, <1>23, <2>1, UnsourcedAppended
  <2>3. SourcesAt(p4, Len(p3), Len(p4))
    BY <1>14, <1>24, <2>2, SourcesFound
  <2>4. /\ a = Len(p3) /\ b = Len(p4) /\ b \in Nat
        /\ b <= Len(p5) /\ b <= Len(p6) /\ b <= Len(p7) /\ b <= Len(p8) /\ b <= Len(p9)
    BY <1>32 DEF JointLengths, first
  <2> HIDE DEF a, b
  <2>5. SourcesAt(p4, a, b)
    BY <2>3, <2>4
  <2>6. SourcesAt(p5, a, b)
    BY <1>15, <1>25, <2>4, <2>5, SourcesStay
  <2>7. SourcesAt(p6, a, b)
    BY <1>16, <1>26, <2>4, <2>6, SourcesStay
  <2>8. SourcesAt(p7, a, b)
    BY <1>17, <1>27, <2>4, <2>7, SourcesStay
  <2>9. SourcesAt(p8, a, b)
    BY <1>18, <1>28, <2>4, <2>8, SourcesStay
  <2>10. SourcesAt(p9, a, b)
    BY <1>19, <1>29, <2>4, <2>9, SourcesStay
  <2>11. SourcesAt(p10, a, b)
    BY <1>20, <1>30, <2>4, <2>10, SourcesStay
  <2> QED BY <1>4, <2>11 DEF a, b
<1>39. J \in Seq(S) /\ Len(J) \in Nat /\ Len(J) >= K + l.pre8 + 4
  <2>1. Len(p10) >= K + l.pre8 + 4
    BY <1>32 DEF JointLengths
  <2>2. p10 \in Seq(S) /\ Len(p10) \in Nat
    BY <1>30, LenProperties
  <2> QED BY <1>4, <2>1, <2>2
<1> QED BY <1>34, <1>36, <1>37, <1>38, <1>39 DEF S, h7, h8, J, K, first

LEMMA MadeHolds ==
  ASSUME NEW s, NEW pad \in Nat
  PROVE  Holds(MakeFile(s, pad), s)
<1> DEFINE n == Len(s)
           zero == FirstRecord + EntrySize * n + pad
           pdb == MakeFile(s, pad)
<1>1. /\ pdb.seed = 2 * n + 1 /\ pdb.pad = pad /\ pdb.body = Body(s)
      /\ pdb.table = [k \in 1..n |-> [ofs |-> zero + ByteCount(SubSeq(s, 1, k - 1)), id |-> 2 * (k - 1)]]
  BY DEF MakeFile, Body
<1>2. Zero(pdb, n) = zero
  BY <1>1 DEF Zero
<1>3. pdb.table = [k \in 1..n |-> Entry(s, zero, k)]
  BY <1>1 DEF Entry, At
<1> HIDE DEF n, zero, pdb
<1>4. pdb.table = [k \in 1..n |-> Entry(s, Zero(pdb, n), k)]
  BY <1>2, <1>3
<1> QED BY <1>1, <1>4 DEF Holds, n, pdb

(* Records that are there under a condition. *)
LEMMA IfType ==
  ASSUME NEW S, NEW x \in S, NEW b \in BOOLEAN
  PROVE  /\ If(b, x) \in Seq(S)
         /\ \A n : Having(If(b, x), n) = IF b /\ x.num = n THEN <<x>> ELSE <<>>
<1>1. CASE b
  <2>1. If(b, x) = <<x>>
    BY <1>1 DEF If
  <2>2. \A n : Having(<<x>>, n) = IF x.num = n THEN <<x>> ELSE <<>>
    BY HavingOne
  <2>3. \A n : Having(If(b, x), n) = IF b /\ x.num = n THEN <<x>> ELSE <<>>
    BY <1>1, <2>1, <2>2
  <2>4. <<x>> \in Seq(S)
    OBVIOUS
  <2> QED BY <2>1, <2>3, <2>4
<1>2. CASE ~b
  <2>1. If(b, x) = <<>>
    BY <1>2 DEF If
  <2>2. \A n : Having(<<>>, n) = <<>>
    BY HavingEmpty
  <2> QED BY <1>2, <2>1, <2>2
<1> QED BY <1>1, <1>2

(* What a head of EXTH records makes of the number of a record. *)
Shows(recs, num, b, x) == Having(recs, num) = IF b THEN <<x>> ELSE <<>>

Extra(r, s, n) == Having(r, n) = Having(s, n)

LEMMA HavingLeft ==
  ASSUME NEW s \in Seq(Recs), NEW t \in Seq(Recs), NEW n, Having(t, n) = <<>>
  PROVE  Extra(s \o t, s, n)
<1>1. HavingOfTwo(s, t, n)
  BY HavingConcat
<1>2. Having(s, n) \in Seq(Recs)
  BY HavingType
<1>3. Having(s, n) \o <<>> = Having(s, n)
  BY <1>2, ConcatEmptySeq
<1> QED BY <1>1, <1>3 DEF Extra, HavingOfTwo

LEMMA HavingRight ==
  ASSUME NEW s \in Seq(Recs), NEW t \in Seq(Recs), NEW n, Having(s, n) = <<>>
  PROVE  Extra(s \o t, t, n)
<1>1. HavingOfTwo(s, t, n)
  BY HavingConcat
<1>2. Having(t, n) \in Seq(Recs)
  BY HavingType
<1>3. <<>> \o Having(t, n) = Having(t, n)
  BY <1>2, ConcatEmptySeq
<1> QED BY <1>1, <1>3 DEF Extra, HavingOfTwo

LEMMA CoverRecsRead ==
  ASSUME NEW c \in Covers
  PROVE  /\ CoverRecs(c) \in Seq(Recs)
         /\ Shows(CoverRecs(c), CoverOffset, c[1] # Nothing, Rec(CoverOffset, c[1], 4))
         /\ Shows(CoverRecs(c), ThumbOffset, c[2] # Nothing, Rec(ThumbOffset, c[2], 4))
         /\ \A n : n # CoverOffset /\ n # ThumbOffset => Having(CoverRecs(c), n) = <<>>
<1> DEFINE x == Rec(CoverOffset, c[1], 4)
           y == Rec(ThumbOffset, c[2], 4)
           p == c[1] # Nothing
           q == c[2] # Nothing
           s == If(p, x)
           t == If(q, y)
<1>1. c[1] \in Int /\ c[2] \in Int
  BY CoversAssumption DEF Nothing
<1>2. x \in Recs /\ y \in Recs /\ x.num = CoverOffset /\ y.num = ThumbOffset /\ CoverOffset # ThumbOffset
  BY <1>1, RecType DEF Rec, CoverOffset, ThumbOffset
<1>3. CoverRecs(c) = s \o t
  BY DEF CoverRecs
<1>4. p \in BOOLEAN /\ q \in BOOLEAN
  OBVIOUS
<1> HIDE DEF x, y, p, q
<1>5. /\ s \in Seq(Recs) /\ t \in Seq(Recs)
      /\ \A n : Having(s, n) = IF p /\ x.num = n THEN <<x>> ELSE <<>>
      /\ \A n : Having(t, n) = IF q /\ y.num = n THEN <<y>> ELSE <<>>
  BY <1>2, <1>4, IfType
<1> HIDE DEF s, t
<1>6. s \o t \in Seq(Recs)
  BY <1>5, ConcatProperties
<1>7. Having(s \o t, CoverOffset) = Having(s, CoverOffset)
  <2>1. Having(t, CoverOffset) = <<>>
    BY <1>2, <1>5
  <2> QED BY <1>5, <2>1, HavingLeft DEF Extra
<1>8. \A n : n # CoverOffset => Having(s \o t, n) = Having(t, n)
  <2> SUFFICES ASSUME NEW n, n # CoverOffset
               PROVE  Having(s \o t, n) = Having(t, n)
    OBVIOUS
  <2>1. Having(s, n) = <<>>
    BY <1>2, <1>5
  <2> QED BY <1>5, <2>1, HavingRight DEF Extra
<1>9. Having(s \o t, CoverOffset) = IF p THEN <<x>> ELSE <<>>
  BY <1>2, <1>5, <1>7
<1>10. Having(s \o t, ThumbOffset) = IF q THEN <<y>> ELSE <<>>
  BY <1>2, <1>5, <1>8
<1>11. \A n : n # CoverOffset /\ n # ThumbOffset => Having(s \o t, n) = <<>>
  BY <1>2, <1>5, <1>8
<1> QED BY <1>3, <1>6, <1>9, <1>10, <1>11 DEF Shows, x, y, p, q

LEMMA SharedRecsRead ==
  ASSUME NEW m \in Metas, NEW c \in Covers
  PROVE  /\ SharedRecs(m, c) \in Seq(Recs)
         /\ Shows(SharedRecs(m, c), CoverOffset, c[1] # Nothing, Rec(CoverOffset, c[1], 4))
         /\ Shows(SharedRecs(m, c), ThumbOffset, c[2] # Nothing, Rec(ThumbOffset, c[2], 4))
         /\ Shows(SharedRecs(m, c), CDEContentKey, m.cdekey, Rec(CDEContentKey, OwnKey, 10))
         /\ \A n : n \notin {CoverOffset, ThumbOffset, CDEContentKey} => Having(SharedRecs(m, c), n) = <<>>
<1> DEFINE x == Rec(CDEContentKey, OwnKey, 10)
           s == CoverRecs(c)
           t == If(m.cdekey, x)
           r == s \o t
<1>1. x \in Recs /\ x.num = CDEContentKey
  BY RecType DEF Rec, CDEContentKey, OwnKey
<1>2. m.cdekey \in BOOLEAN
  BY MetasAssumption
<1>3. SharedRecs(m, c) = r
  BY DEF SharedRecs
<1>4. /\ s \in Seq(Recs)
      /\ Shows(s, CoverOffset, c[1] # Nothing, Rec(CoverOffset, c[1], 4))
      /\ Shows(s, ThumbOffset, c[2] # Nothing, Rec(ThumbOffset, c[2], 4))
      /\ \A n : n # CoverOffset /\ n # ThumbOffset => Having(s, n) = <<>>
  BY CoverRecsRead
<1> HIDE DEF x, s
<1>5. t \in Seq(Recs) /\ \A n : Having(t, n) = IF m.cdekey /\ x.num = n THEN <<x>> ELSE <<>>
  BY <1>1, <1>2, IfType
<1> HIDE DEF t
<1>6. r \in Seq(Recs)
  BY <1>4, <1>5, ConcatProperties
<1>7. \A n : n # CDEContentKey => Having(r, n) = Having(s, n)
  <2> SUFFICES ASSUME NEW n, n # CDEContentKey
               PROVE  Having(r, n) = Having(s, n)
    OBVIOUS
  <2>1. Having(t, n) = <<>>
    BY <1>1, <1>5
  <2> QED BY <1>4, <1>5, <2>1, HavingLeft DEF Extra
<1>8. Having(r, CDEContentKey) = Having(t, CDEContentKey)
  <2>1. Having(s, CDEContentKey) = <<>>
    BY <1>4 DEF CDEContentKey, CoverOffset, ThumbOffset
  <2> QED BY <1>4, <1>5, <2>1, HavingRight DEF Extra
<1> HIDE DEF r
<1>9. CDEContentKey # CoverOffset /\ CDEContentKey # ThumbOffset
  BY DEF CDEContentKey, CoverOffset, ThumbOffset
<1>10. Shows(r, CoverOffset, c[1] # Nothing, Rec(CoverOffset, c[1], 4))
  BY <1>4, <1>7, <1>9 DEF Shows
<1>11. Shows(r, ThumbOffset, c[2] # Nothing, Rec(ThumbOffset, c[2], 4))
  BY <1>4, <1>7, <1>9 DEF Shows
<1>12. Shows(r, CDEContentKey, m.cdekey, x)
  BY <1>1, <1>5, <1>8 DEF Shows
<1>13. \A n : n \notin {CoverOffset, ThumbOffset, CDEContentKey} => Having(r, n) = <<>>
  BY <1>4, <1>7
<1> QED BY <1>3, <1>6, <1>10, <1>11, <1>12, <1>13 DEF x

LEMMA Recs7Read ==
  ASSUME NEW l \in Layouts, NEW m \in Metas, NEW c \in Covers
  PROVE  /\ Recs7(l, m, c) \in Seq(Recs) /\ HeadNumber(l) \in Nat
         /\ Shows(Recs7(l, m, c), KF8Offset, l.kind = "joint", Rec(KF8Offset, HeadNumber(l), 4))
         /\ Having(Recs7(l, m, c), CDEType) = <<>>
<1> DEFINE x == Rec(ASIN, OwnASIN, 10)
           y == Rec(KF8Offset, HeadNumber(l), 4)
           k == l.kind = "joint"
           r == If(m.asin, x)
           s == SharedRecs(m, c)
           t == If(k, y)
           u == r \o s
<1>0. HeadNumber(l) \in Nat
  BY LayoutsAssumption DEF HeadNumber
<1>1. /\ x \in Recs /\ x.num = ASIN /\ y \in Recs /\ y.num = KF8Offset /\ KF8Offset # ASIN
      /\ CDEType # ASIN /\ CDEType # KF8Offset
  BY <1>0, RecType DEF Rec, ASIN, OwnASIN, KF8Offset, CDEType
<1>2. m.asin \in BOOLEAN /\ k \in BOOLEAN
  BY MetasAssumption
<1>3. Recs7(l, m, c) = u \o t
  BY DEF Recs7, HeadNumber
<1>4. s \in Seq(Recs) /\ Having(s, KF8Offset) = <<>> /\ Having(s, CDEType) = <<>>
  <2>1. {KF8Offset, CDEType} \cap {CoverOffset, ThumbOffset, CDEContentKey} = {}
    BY DEF KF8Offset, CDEType, CoverOffset, ThumbOffset, CDEContentKey
  <2> QED BY <2>1, SharedRecsRead
<1> HIDE DEF x, y, k, s
<1>5. r \in Seq(Recs) /\ Having(r, KF8Offset) = <<>> /\ Having(r, CDEType) = <<>>
  BY <1>1, <1>2, IfType
<1>6. t \in Seq(Recs) /\ Having(t, KF8Offset) = (IF k THEN <<y>> ELSE <<>>) /\ Having(t, CDEType) = <<>>
  BY <1>1, <1>2, IfType
<1> HIDE DEF r, t
<1>7. u \in Seq(Recs) /\ Having(u, KF8Offset) = <<>> /\ Having(u, CDEType) = <<>>
  <2>1. u \in Seq(Recs)
    BY <1>4, <1>5, ConcatProperties
  <2>2. Extra(r \o s, r, KF8Offset) /\ Extra(r \o s, r, CDEType)
    BY <1>4, <1>5, HavingLeft
  <2> QED BY <1>5, <2>1, <2>2 DEF Extra
<1> HIDE DEF u
<1>8. u \o t \in Seq(Recs)
  BY <1>6, <1>7, ConcatProperties
<1>9. Extra(u \o t, t, KF8Offset) /\ Extra(u \o t, t, CDEType)
  BY <1>6, <1>7, HavingRight
<1>10. Shows(u \o t, KF8Offset, k, y) /\ Having(u \o t, CDEType) = <<>>
  BY <1>6, <1>9 DEF Extra, Shows
<1> QED BY <1>0, <1>3, <1>8, <1>10 DEF k, y

LEMMA Recs8Read ==
  ASSUME NEW m \in Metas, NEW c \in Covers
  PROVE  /\ Recs8(m, c) \in Seq(Recs)
         /\ Shows(Recs8(m, c), CoverOffset, c[1] # Nothing, Rec(CoverOffset, c[1], 4))
         /\ Shows(Recs8(m, c), ThumbOffset, c[2] # Nothing, Rec(ThumbOffset, c[2], 4))
         /\ Shows(Recs8(m, c), CDEContentKey, m.cdekey, Rec(CDEContentKey, OwnKey, 10))
         /\ Having(Recs8(m, c), KF8Offset) = <<>> /\ Having(Recs8(m, c), CDEType) = <<>>
         /\ Len(Having(Recs8(m, c), ThumbnailURI)) <= 1
<1> DEFINE x == Rec(ThumbnailURI, Nothing, 20)
           y == Rec(ResourceCount, 0, 4)
           s == SharedRecs(m, c)
           q == [k \in 1..m.starts |-> Rec(StartReading, k, 4)]
           u == If(m.uri, x)
           v == If(m.count, y)
           s1 == s \o q
           s2 == s1 \o u
           s3 == s2 \o v
<1>1. x \in Recs /\ x.num = ThumbnailURI /\ y \in Recs /\ y.num = ResourceCount
  BY RecType DEF Rec, ThumbnailURI, ResourceCount, Nothing
<1>2. m.starts \in Nat /\ m.uri \in BOOLEAN /\ m.count \in BOOLEAN
  BY MetasAssumption
<1>3. Recs8(m, c) = s3
  BY DEF Recs8
<1>4. /\ s \in Seq(Recs)
      /\ Shows(s, CoverOffset, c[1] # Nothing, Rec(CoverOffset, c[1], 4))
      /\ Shows(s, ThumbOffset, c[2] # Nothing, Rec(ThumbOffset, c[2], 4))
      /\ Shows(s, CDEContentKey, m.cdekey, Rec(CDEContentKey, OwnKey, 10))
      /\ \A n : n \notin {CoverOffset, ThumbOffset, CDEContentKey} => Having(s, n) = <<>>
  BY SharedRecsRead
<1> HIDE DEF x, y, s
<1>5. q \in Seq(Recs) /\ \A n : n # StartReading => Having(q, n) = <<>>
  <2>1. \A k \in 1..m.starts : Rec(StartReading, k, 4) \in Recs /\ Rec(StartReading, k, 4).num = StartReading
    <3> SUFFICES ASSUME NEW k \in 1..m.starts
                 PROVE  Rec(StartReading, k, 4) \in Recs /\ Rec(StartReading, k, 4).num = StartReading
      OBVIOUS
    <3>1. k \in Int /\ StartReading \in Nat
      BY <1>2 DEF StartReading
    <3> QED BY <3>1, RecType DEF Rec
  <2>2. q \in Seq(Recs) /\ Len(q) = m.starts /\ \A k \in 1..Len(q) : q[k].num = StartReading
    BY <1>2, <2>1
  <2> HIDE DEF q
  <2> QED BY <2>2, HavingNone
<1>6. u \in Seq(Recs) /\ \A n : Having(u, n) = IF m.uri /\ x.num = n THEN <<x>> ELSE <<>>
  BY <1>1, <1>2, IfType
<1>7. v \in Seq(Recs) /\ \A n : Having(v, n) = IF m.count /\ y.num = n THEN <<y>> ELSE <<>>
  BY <1>1, <1>2, IfType
<1> HIDE DEF q, u, v
<1>8. s1 \in Seq(Recs)
  BY <1>4, <1>5, ConcatProperties
<1>9. s2 \in Seq(Recs)
  <2> HIDE DEF s1
  <2> QED BY <1>6, <1>8, ConcatProperties
<1>10. s3 \in Seq(Recs)
  <2> HIDE DEF s2
  <2> QED BY <1>7, <1>9, ConcatProperties
<1>11. \A n : n # StartReading => Having(s1, n) = Having(s, n)
  <2> SUFFICES ASSUME NEW n, n # StartReading
               PROVE  Having(s1, n) = Having(s, n)
    OBVIOUS
  <2>1. Extra(s \o q, s, n)
    BY <1>4, <1>5, HavingLeft
  <2> QED BY <2>1 DEF Extra
<1> HIDE DEF s1
<1>12. \A n : n # ThumbnailURI => Having(s2, n) = Having(s1, n)
  <2> SUFFICES ASSUME NEW n, n # ThumbnailURI
               PROVE  Having(s2, n) = Having(s1, n)
    OBVIOUS
  <2>1. Having(u, n) = <<>>
    BY <1>1, <1>6
  <2>2. Extra(s1 \o u, s1, n)
    BY <1>6, <1>8, <2>1, HavingLeft
  <2> QED BY <2>2 DEF Extra
<1>13. Having(s2, ThumbnailURI) = Having(u, ThumbnailURI)
  <2>1. Having(s1, ThumbnailURI) = <<>>
    <3>1. ThumbnailURI # StartReading /\ ThumbnailURI \notin {CoverOffset, ThumbOffset, CDEContentKey}
      BY DEF ThumbnailURI, StartReading, CoverOffset, ThumbOffset, CDEContentKey
    <3> QED BY <1>4, <1>11, <3>1
  <2>2. Extra(s1 \o u, u, ThumbnailURI)
    BY <1>6, <1>8, <2>1, HavingRight
  <2> QED BY <2>2 DEF Extra
<1> HIDE DEF s2
<1>14. \A n : n # ResourceCount => Having(s3, n) = Having(s2, n)
  <2> SUFFICES ASSUME NEW n, n # ResourceCount
               PROVE  Having(s3, n) = Having(s2, n)
    OBVIOUS
  <2>1. Having(v, n) = <<>>
    BY <1>1, <1>7
  <2>2. Extra(s2 \o v, s2, n)
    BY <1>7, <1>9, <2>1, HavingLeft
  <2> QED BY <2>2 DEF Extra
<1> HIDE DEF s3
<1>15. \A n : n \notin {StartReading, ThumbnailURI, ResourceCount} => Having(s3, n) = Having(s, n)
  BY <1>11, <1>12, <1>14
<1>16. {CoverOffset, ThumbOffset, CDEContentKey, KF8Offset, CDEType}
         \cap {StartReading, ThumbnailURI, ResourceCount} = {}
  BY DEF CoverOffset, ThumbOffset, CDEContentKey, KF8Offset, CDEType,
         StartReading, ThumbnailURI, ResourceCount
<1>17. Shows(s3, CoverOffset, c[1] # Nothing, Rec(CoverOffset, c[1], 4))
  BY <1>4, <1>15, <1>16 DEF Shows
<1>18. Shows(s3, ThumbOffset, c[2] # Nothing, Rec(ThumbOffset, c[2], 4))
  BY <1>4, <1>15, <1>16 DEF Shows
<1>19. Shows(s3, CDEContentKey, m.cdekey, Rec(CDEContentKey, OwnKey, 10))
  BY <1>4, <1>15, <1>16 DEF Shows
<1>20. Having(s3, KF8Offset) = <<>> /\ Having(s3, CDEType) = <<>>
  <2>1. {KF8Offset, CDEType} \cap {CoverOffset, ThumbOffset, CDEContentKey} = {}
    BY DEF CoverOffset, ThumbOffset, CDEContentKey, KF8Offset, CDEType
  <2> QED BY <1>4, <1>15, <1>16, <2>1
<1>21. Len(Having(s3, ThumbnailURI)) <= 1
  <2>1. ThumbnailURI # ResourceCount
    BY DEF ThumbnailURI, ResourceCount
  <2>2. Having(s3, ThumbnailURI) = Having(u, ThumbnailURI)
    BY <1>13, <1>14, <2>1
  <2>3. Having(u, ThumbnailURI) = <<x>> \/ Having(u, ThumbnailURI) = <<>>
    BY <1>6
  <2>4. Len(<<x>>) = 1 /\ Len(<<>>) = 0
    OBVIOUS
  <2> DEFINE z == Having(u, ThumbnailURI)
  <2>5. CASE z = <<x>>
    <3>1. Len(z) = 1
      BY <2>4, <2>5
    <3> QED BY <2>2, <3>1
  <2>6. CASE z = <<>>
    <3>1. Len(z) = 0
      BY <2>4, <2>6
    <3> QED BY <2>2, <3>1
  <2> QED BY <2>3, <2>5, <2>6
<1> QED BY <1>3, <1>10, <1>17, <1>18, <1>19, <1>20, <1>21

LEMMA HeadsSound ==
  ASSUME NEW l \in Layouts, NEW m \in Metas, NEW c \in Covers
  PROVE  /\ Sound(Head7(l, m, c)) /\ Sound(Head8(l, m, c))
         /\ \A n : ReadExth(Head7(l, m, c), n) = Having(Recs7(l, m, c), n)
         /\ \A n : ReadExth(Head8(l, m, c), n) = Having(Recs8(m, c), n)
<1> DEFINE g == Head7(l, m, c)
           h == Head8(l, m, c)
           r == Recs7(l, m, c)
           s == Recs8(m, c)
<1>1. r \in Seq(Recs) /\ s \in Seq(Recs)
  BY Recs7Read, Recs8Read
<1>2. /\ g.exth = r /\ g.enum = Len(r) /\ g.elen = ExthSize(r)
      /\ g.title = Base + ExthSize(r) /\ g.len = Base + ExthSize(r) + 20
      /\ Counted \subseteq DOMAIN g /\ g = [f \in DOMAIN g |-> g[f]]
  BY DEF Head7, Counted
<1>3. /\ h.exth = s /\ h.enum = Len(s) /\ h.elen = ExthSize(s)
      /\ h.title = Base + ExthSize(s) /\ h.len = Base + ExthSize(s) + 20
      /\ Counted \subseteq DOMAIN h /\ h = [f \in DOMAIN h |-> h[f]]
  BY DEF Head8, Counted
<1> HIDE DEF g, h, r, s
<1>4. Sound(g) /\ Sound(h)
  BY <1>1, <1>2, <1>3 DEF Sound
<1>5. \A n : ReadExth(g, n) = Having(r, n)
  BY <1>2, <1>4, ReadsAll
<1>6. \A n : ReadExth(h, n) = Having(s, n)
  BY <1>3, <1>4, ReadsAll
<1> QED BY <1>4, <1>5, <1>6 DEF g, h, r, s

LEMMA FirstShown ==
  ASSUME NEW recs, NEW num, NEW b \in BOOLEAN, NEW x, Shows(recs, num, b, x)
  PROVE  /\ First(Having(recs, num)) = IF b THEN x.val ELSE Nothing
         /\ Having(recs, num) = <<>> <=> ~b
<1>1. CASE b
  <2>1. Having(recs, num) = <<x>> /\ <<x>> # <<>>
    BY <1>1 DEF Shows
  <2>2. <<x>>[1] = x
    OBVIOUS
  <2> QED BY <1>1, <2>1, <2>2 DEF First
<1>2. CASE ~b
  BY <1>2 DEF First, Shows
<1> QED BY <1>1, <1>2

(* What the steps need to know of a joint file: its two headers, and that  *)
(* they name sections of the file.                                         *)
Source == [k \in 1..Len(data.table) |-> Content(data, k - 1)]

HeadNo == Kf8(OldHead)

Images == OldHead.lastRes - OldHead.firstRes + 1

HeadsOK ==
    /\ Sound(OldHead) /\ Sound(NewHead)
    /\ {"part", "version", "firstRes", "lastRes", "srcs", "nsrcs"} \subseteq DOMAIN OldHead
    /\ {"part", "version", "firstRes", "flags", "ptr"} \subseteq DOMAIN NewHead

NumbersOK ==
    /\ HeadNo \in Nat /\ OldHead.firstRes \in Nat /\ OldHead.lastRes \in Nat /\ NewHead.firstRes \in Nat
    /\ 1 <= OldHead.firstRes /\ OldHead.firstRes <= OldHead.lastRes /\ OldHead.lastRes < HeadNo
    /\ 1 <= NewHead.firstRes /\ HeadNo + NewHead.firstRes < Len(Source)

SourcesOK ==
    /\ OldHead.nsrcs \in Nat /\ OldHead.srcs \in Int
    /\ OldHead.nsrcs # 0 => 1 <= OldHead.srcs /\ OldHead.srcs + OldHead.nsrcs <= HeadNo
    /\ SourcesAt(Source, OldHead.srcs, OldHead.srcs + OldHead.nsrcs)

ImagesOK == \A i \in OldHead.firstRes..OldHead.lastRes : "image" \in DOMAIN Content(data, i)

ImageNumber(recs) ==
    \/ recs = <<>> /\ First(recs) = Nothing
    \/ recs # <<>> /\ First(recs) \in 0..(Images - 1) /\ First(recs) # Nothing

RecordsOK ==
    /\ ImageNumber(ReadExth(NewHead, CoverOffset)) /\ ImageNumber(ReadExth(NewHead, ThumbOffset))
    /\ Len(ReadExth(NewHead, ThumbnailURI)) <= 1
    /\ ReadExth(NewHead, KF8Offset) = <<>>
    /\ ReadExth(NewHead, CDEContentKey) # <<>> => First(ReadExth(NewHead, CDEContentKey)) # Nothing
    /\ ReadExth(NewHead, CDEType) = <<>> /\ ReadExth(OldHead, CDEType) = <<>>

PointersOK ==
    \A p \in Pointers : \/ NewHead.ptr[p] = Nothing
                        \/ /\ NewHead.ptr[p] \in Nat /\ NewHead.firstRes <= NewHead.ptr[p]
                           /\ HeadNo + NewHead.ptr[p] < Len(Source)

SourceOK ==
    /\ Filed(data, Source)
    /\ \A k \in 1..Len(Source) : Source[k].len \in Nat \ {0}
    /\ HeadsOK /\ NumbersOK /\ SourcesOK /\ ImagesOK /\ RecordsOK /\ PointersOK

LEMMA SourceIsOK ==
  ASSUME NEW l \in Layouts, NEW m \in Metas, NEW c \in Covers, c[1] < l.images, c[2] < l.images,
         data = MakeFile(JointSections(l, m, c), l.pad),
         ReadExth(OldHead, KF8Offset) # <<>>
  PROVE  SourceOK
<1> DEFINE J == JointSections(l, m, c)
           K == HeadNumber(l)
           S == Kinds(l, m, c)
           g == Head7(l, m, c)
           h == Head8(l, m, c)
           first == 1 + l.pre7
<1>0. /\ l.pre7 \in Nat /\ l.images \in Nat /\ l.sources \in Nat /\ l.pre8 \in Nat /\ l.pad \in Nat
      /\ l.images # 0 /\ l.kind \in {"joint", "single", "old"}
  BY LayoutsAssumption
<1>1. /\ J \in Seq(S) /\ Len(J) \in Nat /\ Len(J) >= K + l.pre8 + 4
      /\ J[1] = g /\ J[K + 1] = h
      /\ \A k \in 1..l.images : J[first + k] = Image(k - 1)
      /\ SourcesAt(J, first + l.images, first + l.images + l.sources)
  BY JointShape
<1>2. /\ Sound(g) /\ Sound(h)
      /\ \A n : ReadExth(g, n) = Having(Recs7(l, m, c), n)
      /\ \A n : ReadExth(h, n) = Having(Recs8(m, c), n)
  BY HeadsSound
<1>3. /\ K \in Nat /\ Shows(Recs7(l, m, c), KF8Offset, l.kind = "joint", Rec(KF8Offset, K, 4))
      /\ Having(Recs7(l, m, c), CDEType) = <<>>
  BY Recs7Read
<1>4. K >= first + l.images + l.sources + 2
  BY <1>0 DEF HeadNumber
<1>5. g.len \in Nat \ {0} /\ h.len \in Nat \ {0}
  BY <1>2, SoundSizes
<1>6. \A x \in S : x.len \in Nat \ {0}
  <2>1. \A x \in Plain : x.len \in Nat \ {0}
    BY PlainIsUnsourced
  <2>2. SRCS.len \in Nat \ {0}
    BY PlainIsUnsourced
  <2> HIDE DEF g, h
  <2> QED BY <1>5, <2>1, <2>2 DEF Kinds, g, h
<1>7. /\ g.part = 7 /\ g.firstRes = first /\ g.lastRes = l.pre7 + l.images /\ g.nsrcs = l.sources
      /\ g.srcs = (IF l.sources = 0 THEN Nothing ELSE first + l.images)
      /\ {"part", "version", "firstRes", "lastRes", "srcs", "nsrcs"} \subseteq DOMAIN g
  BY DEF Head7
<1>8. /\ h.part = 8 /\ h.firstRes = 1 + l.pre8
      /\ h.ptr = [fdst |-> 1 + l.pre8, fcis |-> 2 + l.pre8, flis |-> 2 + l.pre8,
                  datp |-> Nothing, hufftbl |-> Nothing]
      /\ {"part", "version", "firstRes", "flags", "ptr"} \subseteq DOMAIN h
  BY DEF Head8
<1> HIDE DEF J, K, S, g, h, first
<1>9. Filed(data, J)
  <2>1. Sized(S)
    BY <1>6 DEF Sized
  <2>2. Holds(data, J)
    BY <1>0, MadeHolds DEF J
  <2> QED BY <1>1, <2>1, <2>2 DEF Filed
<1>10. Source = J /\ \A k \in 1..Len(J) : J[k].len \in Nat \ {0}
  <2>1. \A k \in 1..Len(J) : J[k].len \in Nat \ {0}
    BY <1>1, <1>6, ElementOfSeq
  <2>2. Len(data.table) = Len(J) /\ \A i \in 0..(Len(J) - 1) :
          Content(data, i) = IF J[i + 1].len = 0 THEN Empty ELSE J[i + 1]
    BY <1>9, FiledReads
  <2>3. \A k \in 1..Len(J) : Content(data, k - 1) = J[k]
    <3> SUFFICES ASSUME NEW k \in 1..Len(J)
                 PROVE  Content(data, k - 1) = J[k]
      OBVIOUS
    <3>1. k - 1 \in 0..(Len(J) - 1) /\ (k - 1) + 1 = k
      BY <1>1
    <3>2. J[k].len # 0
      BY <2>1
    <3> QED BY <2>2, <3>1, <3>2
  <2>4. Source = [k \in 1..Len(J) |-> J[k]]
    BY <2>2, <2>3 DEF Source
  <2>5. J = [k \in 1..Len(J) |-> J[k]]
    BY <1>1
  <2> QED BY <2>1, <2>4, <2>5
<1>11. \A i \in 0..(Len(J) - 1) : Content(data, i) = J[i + 1]
  <2> SUFFICES ASSUME NEW i \in 0..(Len(J) - 1)
               PROVE  Content(data, i) = J[i + 1]
    OBVIOUS
  <2>1. i + 1 \in 1..Len(J)
    BY <1>1
  <2>2. Content(data, i) = IF J[i + 1].len = 0 THEN Empty ELSE J[i + 1]
    BY <1>9, FiledReads
  <2>3. J[i + 1].len # 0
    BY <1>10, <2>1
  <2> QED BY <2>2, <2>3
<1>12. OldHead = g
  <2>1. 0 \in 0..(Len(J) - 1)
    BY <1>0, <1>1, <1>3
  <2>2. Content(data, 0) = J[0 + 1]
    BY <1>11, <2>1
  <2> QED BY <1>1, <2>2 DEF OldHead
<1>13. HeadNo = K
  <2> DEFINE x == Rec(KF8Offset, K, 4)
  <2>1. x.val = K
    BY DEF Rec
  <2> HIDE DEF x
  <2>2. ReadExth(g, KF8Offset) = IF l.kind = "joint" THEN <<x>> ELSE <<>>
    BY <1>2, <1>3 DEF Shows, x
  <2>3. ReadExth(OldHead, KF8Offset) = <<x>>
    BY <1>12, <2>2
  <2> QED BY <2>1, <2>3 DEF HeadNo, Kf8
<1>14. NewHead = h
  <2>1. K \in 0..(Len(J) - 1)
    BY <1>0, <1>1, <1>3
  <2>2. Content(data, K) = J[K + 1]
    BY <1>11, <2>1
  <2> QED BY <1>1, <1>13, <2>2 DEF NewHead, HeadNo
<1>15. first \in Nat /\ first = 1 + l.pre7
  BY <1>0 DEF first
<1>16. HeadsOK
  <2>1. Sound(OldHead) /\ {"part", "version", "firstRes", "lastRes", "srcs", "nsrcs"} \subseteq DOMAIN OldHead
    BY <1>2, <1>7, <1>12
  <2>2. Sound(NewHead) /\ {"part", "version", "firstRes", "flags", "ptr"} \subseteq DOMAIN NewHead
    BY <1>2, <1>8, <1>14
  <2> QED BY <2>1, <2>2 DEF HeadsOK
<1>17. NumbersOK
  <2>1. K \in Nat /\ first \in Nat /\ l.pre7 + l.images \in Nat /\ 1 + l.pre8 \in Nat
    <3> DEFINE a == l.pre7
               b == l.images
               d == l.pre8
    <3>1. a \in Nat /\ b \in Nat /\ d \in Nat
      BY <1>0
    <3> HIDE DEF a, b, d
    <3>2. a + b \in Nat /\ 1 + d \in Nat
      BY <3>1
    <3> QED BY <1>3, <1>15, <3>2 DEF a, b, d
  <2>2. 1 <= first /\ first <= l.pre7 + l.images /\ l.pre7 + l.images < K
    <3> DEFINE a == l.pre7
               b == l.images
               d == l.sources
    <3>1. a \in Nat /\ b \in Nat /\ b # 0 /\ d \in Nat /\ K \in Nat /\ first = 1 + a /\ K >= first + b + d + 2
      BY <1>0, <1>3, <1>4, <1>15
    <3> HIDE DEF K, first, a, b, d
    <3>2. 1 <= first /\ first <= a + b /\ a + b < K
      BY <3>1
    <3> QED BY <3>2 DEF a, b
  <2>3. 1 <= 1 + l.pre8 /\ K + (1 + l.pre8) < Len(J)
    BY <1>0, <1>1, <1>3
  <2> QED BY <1>7, <1>8, <1>10, <1>12, <1>13, <1>14, <2>1, <2>2, <2>3 DEF NumbersOK
<1>18. SourcesOK
  <2>1. CASE l.sources = 0
    <3>1. OldHead.nsrcs = 0 /\ OldHead.srcs = Nothing
      BY <1>7, <1>12, <2>1
    <3>2. SourcesAt(J, Nothing, Nothing + 0)
      <4>1. \A k \in 1..Len(J) : ~(k \in (first + l.images + 1)..(first + l.images + 0))
                                 /\ ~(k \in (Nothing + 1)..(Nothing + 0))
        BY <1>0, <1>1, <1>15 DEF Nothing
      <4> QED BY <1>1, <2>1, <4>1 DEF SourcesAt
    <3> QED BY <1>10, <3>1, <3>2 DEF SourcesOK, Nothing
  <2>2. CASE l.sources # 0
    <3> DEFINE a == first + l.images
    <3>1. OldHead.nsrcs = l.sources /\ OldHead.srcs = a
      BY <1>7, <1>12, <2>2
    <3>2. a \in Nat /\ 1 <= a /\ a + l.sources <= K
      BY <1>0, <1>3, <1>4, <1>15
    <3> HIDE DEF a
    <3>3. SourcesAt(J, a, a + l.sources)
      BY <1>1 DEF a
    <3> QED BY <1>0, <1>10, <1>13, <3>1, <3>2, <3>3 DEF SourcesOK
  <2> QED BY <2>1, <2>2
<1>19. ImagesOK
  <2> SUFFICES ASSUME NEW i \in first..(l.pre7 + l.images)
               PROVE  "image" \in DOMAIN Content(data, i)
    BY <1>7, <1>12 DEF ImagesOK
  <2> DEFINE k == i - first + 1
  <2>1. /\ i \in 0..(Len(J) - 1) /\ k \in 1..l.images /\ first + k = i + 1
    <3> HIDE DEF K, first, J
    <3> DEFINE a == l.pre7
               b == l.images
               d == l.sources
    <3>4. a \in Nat /\ b \in Nat /\ b # 0 /\ d \in Nat /\ K \in Nat /\ first = 1 + a /\ K >= first + b + d + 2
      BY <1>0, <1>3, <1>4, <1>15
    <3>5. i \in first..(a + b)
      BY DEF a, b
    <3> HIDE DEF a, b, d
    <3>6. i \in Nat /\ i - first + 1 \in 1..b /\ i < K /\ first + (i - first + 1) = i + 1
      BY <3>4, <3>5
    <3>1. i \in Nat /\ i - first + 1 \in 1..l.images /\ i < K /\ first + (i - first + 1) = i + 1
      BY <3>6 DEF b
    <3>2. K < Len(J)
      BY <1>0, <1>1, <1>3
    <3>3. i \in 0..(Len(J) - 1)
      BY <1>1, <1>3, <3>1, <3>2
    <3> QED BY <3>1, <3>3
  <2> HIDE DEF k
  <2>2. Content(data, i) = Image(k - 1)
    <3>1. Content(data, i) = J[i + 1]
      BY <1>11, <2>1
    <3>2. J[first + k] = Image(k - 1)
      BY <1>1, <2>1
    <3> QED BY <2>1, <3>1, <3>2
  <2> QED BY <2>2 DEF Image
<1>20. Images = l.images
  BY <1>0, <1>7, <1>12, <1>15 DEF Images
<1>21. RecordsOK
  <2> DEFINE r == Recs8(m, c)
  <2>1. /\ Shows(r, CoverOffset, c[1] # Nothing, Rec(CoverOffset, c[1], 4))
        /\ Shows(r, ThumbOffset, c[2] # Nothing, Rec(ThumbOffset, c[2], 4))
        /\ Shows(r, CDEContentKey, m.cdekey, Rec(CDEContentKey, OwnKey, 10))
        /\ Having(r, KF8Offset) = <<>> /\ Having(r, CDEType) = <<>>
        /\ Len(Having(r, ThumbnailURI)) <= 1
    BY Recs8Read
  <2>2. (\A n : ReadExth(NewHead, n) = Having(r, n)) /\ ReadExth(OldHead, CDEType) = <<>>
    BY <1>2, <1>3, <1>12, <1>14
  <2> HIDE DEF r
  <2>3. c[1] \in Nat \union {Nothing} /\ c[2] \in Nat \union {Nothing} /\ m.cdekey \in BOOLEAN
    BY CoversAssumption, MetasAssumption
  <2>4. ASSUME NEW num, NEW v \in Nat \union {Nothing}, v < l.images,
               Shows(r, num, v # Nothing, Rec(num, v, 4))
        PROVE  ImageNumber(Having(r, num))
    <3>1. Rec(num, v, 4).val = v
      BY DEF Rec
    <3>2. /\ First(Having(r, num)) = IF v # Nothing THEN v ELSE Nothing
          /\ Having(r, num) = <<>> <=> ~(v # Nothing)
      <4> DEFINE b == v # Nothing
                 x == Rec(num, v, 4)
      <4>1. b \in BOOLEAN
        OBVIOUS
      <4> HIDE DEF b, x
      <4>2. Shows(r, num, b, x)
        BY <2>4 DEF b, x
      <4>3. /\ First(Having(r, num)) = IF b THEN x.val ELSE Nothing
            /\ Having(r, num) = <<>> <=> ~b
        BY <4>1, <4>2, FirstShown
      <4> QED BY <3>1, <4>3 DEF b, x
    <3>3. v # Nothing => v \in 0..(Images - 1)
      BY <1>0, <1>20, <2>4
    <3> QED BY <3>2, <3>3 DEF ImageNumber
  <2>5. ImageNumber(Having(r, CoverOffset))
    <3> DEFINE v == c[1]
    <3>1. v \in Nat \union {Nothing} /\ v < l.images /\ Shows(r, CoverOffset, v # Nothing, Rec(CoverOffset, v, 4))
      BY <2>1, <2>3
    <3> HIDE DEF v
    <3> QED BY <2>4, <3>1
  <2>6. ImageNumber(Having(r, ThumbOffset))
    <3> DEFINE v == c[2]
    <3>1. v \in Nat \union {Nothing} /\ v < l.images /\ Shows(r, ThumbOffset, v # Nothing, Rec(ThumbOffset, v, 4))
      BY <2>1, <2>3
    <3> HIDE DEF v
    <3> QED BY <2>4, <3>1
  <2>7. Having(r, CDEContentKey) # <<>> => First(Having(r, CDEContentKey)) # Nothing
    <3> DEFINE x == Rec(CDEContentKey, OwnKey, 10)
    <3>1. x.val # Nothing
      BY DEF Rec, OwnKey, Nothing
    <3> HIDE DEF x
    <3>2. Shows(r, CDEContentKey, m.cdekey, x)
      BY <2>1 DEF x
    <3>3. /\ First(Having(r, CDEContentKey)) = IF m.cdekey THEN x.val ELSE Nothing
          /\ Having(r, CDEContentKey) = <<>> <=> ~m.cdekey
      BY <2>3, <3>2, FirstShown
    <3> QED BY <3>1, <3>3
  <2> QED BY <2>1, <2>2, <2>5, <2>6, <2>7 DEF RecordsOK
<1>22. PointersOK
  <2> SUFFICES ASSUME NEW p \in Pointers, h.ptr[p] # Nothing
               PROVE  h.ptr[p] \in Nat /\ h.firstRes <= h.ptr[p] /\ K + h.ptr[p] < Len(J)
    BY <1>10, <1>13, <1>14 DEF PointersOK
  <2>1. h.ptr[p] = 1 + l.pre8 \/ h.ptr[p] = 2 + l.pre8
    BY <1>8 DEF Pointers
  <2> DEFINE x == h.ptr[p]
  <2>2. x = 1 + l.pre8 \/ x = 2 + l.pre8
    BY <2>1
  <2> HIDE DEF x
  <2>3. x \in Nat /\ 1 + l.pre8 <= x /\ K + x < Len(J)
    BY <1>0, <1>1, <1>3, <2>2
  <2> QED BY <1>8, <2>3 DEF x
<1> QED BY <1>9, <1>10, <1>16, <1>17, <1>18, <1>19, <1>21, <1>22 DEF SourceOK

-----------------------------------------------------------------------------
(* The inductive invariant. *)
AfterStarts == {"header", "cover", "keys", "write", "done", "saved", "read"}
Patched == {"cover", "keys", "write", "done", "saved", "read"}
Named == {"keys", "write", "done", "saved", "read"}
Keyed == {"write", "done", "saved", "read"}
Written == {"done", "saved", "read"}
Working == {"sources", "cut", "starts"} \union AfterStarts

SoundHeads == (rec0 = <<>> \/ Sound(rec0)) /\ (head = <<>> \/ Sound(head))

StageOK ==
    /\ mode \in Modes
    /\ pc \in Working \union {"open", "ignored", "failed"}
    /\ pc = "sources" => mode.combo
    /\ pc \in {"cut", "header"} => ~mode.combo
    /\ pc \notin Working => result = <<>>
    /\ pc = "open" => rec0 = <<>> /\ head = <<>>
    /\ ReadExth(OldHead, KF8Offset) # <<>> => SourceOK
    /\ pc \in Working => ReadExth(OldHead, KF8Offset) # <<>>

OldOK ==
    pc \in Working =>
      /\ Sound(rec0) /\ DOMAIN rec0 = DOMAIN OldHead /\ rec0.part = OldHead.part
      /\ rec0.firstRes = OldHead.firstRes /\ rec0.lastRes = OldHead.lastRes
      /\ ReadExth(rec0, KF8Offset) = ReadExth(OldHead, KF8Offset)
      /\ ~mode.nonPersonal => ReadExth(rec0, CDEType) = <<>>
      /\ pc = "sources" \/ ~mode.combo => rec0 = OldHead
      /\ asin \in Int

StartsKept(h) ==
    ReadExth(NewHead, StartReading) # <<>> =>
      /\ ReadExth(h, StartReading) # <<>>
      /\ Last(ReadExth(h, StartReading)) = Last(ReadExth(NewHead, StartReading))

HeadOK(h) ==
    /\ Sound(h) /\ DOMAIN h = DOMAIN NewHead
    /\ h.part = NewHead.part /\ h.firstRes = NewHead.firstRes
    /\ ReadExth(h, KF8Offset) = <<>>
    /\ ReadExth(h, CoverOffset) = ReadExth(NewHead, CoverOffset)
    /\ StartsKept(h)

MovedPointers ==
    [p \in Pointers |-> IF NewHead.ptr[p] >= 0 THEN NewHead.ptr[p] + Images ELSE NewHead.ptr[p]]

ThumbIsNamed(h) ==
    /\ ImageNumber(ReadExth(h, ThumbOffset))
    /\ ReadExth(h, CoverOffset) # <<>> =>
      /\ ReadExth(h, ThumbOffset) # <<>>
      /\ \E x : ReadExth(h, ThumbnailURI) = <<x>> /\ x.val = First(ReadExth(h, ThumbOffset))

KeysKept(h) ==
    /\ cdekey # Nothing /\ cdetype = TypeAsked
    /\ ReadExth(h, CDEContentKey) # <<>> => First(ReadExth(h, CDEContentKey)) = cdekey
    /\ ReadExth(h, CDEContentKey) = <<>> => PersonalJoint /\ ReadExth(NewHead, CDEContentKey) = <<>>
    /\ PersonalJoint => ReadExth(h, CDEType) = <<>>
    /\ ~PersonalJoint => ReadExth(h, CDEType) # <<>> /\ First(ReadExth(h, CDEType)) = TypeAsked

NewOK ==
    pc \in Working =>
      /\ HeadOK(head)
      /\ head.ptr = IF ~mode.combo /\ pc \in Patched THEN MovedPointers ELSE NewHead.ptr
      /\ pc \in AfterStarts => Len(ReadExth(head, StartReading)) <= 1
      /\ pc \notin Named => /\ ReadExth(head, ThumbOffset) = ReadExth(NewHead, ThumbOffset)
                            /\ ReadExth(head, ThumbnailURI) = ReadExth(NewHead, ThumbnailURI)
      /\ pc \in Named => ThumbIsNamed(head)
      /\ pc \notin Keyed => /\ ReadExth(head, CDEContentKey) = ReadExth(NewHead, CDEContentKey)
                            /\ ReadExth(head, CDEType) = ReadExth(NewHead, CDEType)
      /\ pc \in Keyed => KeysKept(head)

(* Where a section of the result is in the source. *)
Place(i) ==
    IF mode.combo THEN i
    ELSE IF i < NewHead.firstRes THEN HeadNo + i
    ELSE IF i < NewHead.firstRes + Images THEN OldHead.firstRes + i - NewHead.firstRes
    ELSE HeadNo + i - Images

ImagesAt == IF mode.combo THEN OldHead.firstRes ELSE NewHead.firstRes

HeadPlaces == IF mode.combo THEN {0, HeadNo} ELSE {0}

Made(s) ==
    /\ Filed(result, s)
    /\ Len(s) = IF mode.combo THEN Len(Source) ELSE Len(Source) - HeadNo + Images
    /\ mode.combo => s[1] = rec0
    /\ s[IF mode.combo THEN HeadNo + 1 ELSE 1] = IF pc \in Written THEN head ELSE NewHead
    /\ \A i \in 0..(Len(s) - 1) :
         \/ i \in HeadPlaces
         \/ s[i + 1] = Planned(Source[Place(i) + 1])
         \/ /\ pc \in Named /\ ReadExth(head, ThumbOffset) # <<>>
            /\ i = ImagesAt + First(ReadExth(head, ThumbOffset))
            /\ "thumb" \in DOMAIN s[i + 1] /\ s[i + 1].len = 30

(* The first e sections with sources are empty. *)
Pending(n, b, e) == [k \in 1..(n - e) |-> b + e + k - 1]

Emptied(s, e) ==
    /\ e \in 0..OldHead.nsrcs /\ todo = Pending(OldHead.nsrcs, OldHead.srcs, e)
    /\ Filed(result, s) /\ Len(s) = Len(Source)
    /\ \A k \in 1..Len(Source) :
         s[k] = IF k \in (OldHead.srcs + 1)..(OldHead.srcs + e) THEN Empty ELSE Source[k]

ResultOK ==
    /\ pc = "sources" => \E s, e : Emptied(s, e)
    /\ pc = "cut" => result = data
    /\ pc \in {"starts"} \union AfterStarts => \E s : Made(s)

PagesOK ==
    /\ pc \in Written /\ pages # <<>> => /\ pages.key = (IF cdekey = Nothing THEN asin ELSE cdekey)
                                        /\ pages.type = cdetype
    /\ pc = "read" /\ pages # <<>> =>
         /\ pages.type = TypeAsked
         /\ seen.type = IF PersonalJoint THEN Nothing ELSE TypeAsked
         /\ \/ seen.key = pages.key
            \/ PersonalJoint /\ ReadExth(NewHead, CDEContentKey) = <<>>

SplitInv == StageOK /\ OldOK /\ NewOK /\ ResultOK /\ PagesOK /\ SoundHeads

-----------------------------------------------------------------------------
(* Headers. *)
LEMMA ReadType ==
  ASSUME NEW h, Sound(h), NEW n
  PROVE  ReadExth(h, n) \in Seq(Recs) /\ First(ReadExth(h, n)) \in Int
<1> DEFINE q == ReadExth(h, n)
<1>1. q = Having(h.exth, n) /\ h.exth \in Seq(Recs)
  BY ReadsAll DEF Sound
<1>2. q \in Seq(Recs)
  BY <1>1, HavingType
<1> HIDE DEF q
<1>3. First(q) \in Int
  <2>1. CASE q = <<>>
    BY <2>1 DEF First, Nothing
  <2>2. CASE q # <<>>
    <3>1. Len(q) # 0 /\ Len(q) \in Nat
      BY <1>2, <2>2, EmptySeq, LenProperties
    <3>2. q[1] \in Recs
      BY <1>2, <3>1, ElementOfSeq
    <3>3. q[1].val \in Int
      BY <3>2 DEF Recs
    <3> QED BY <2>2, <3>3 DEF First
  <2> QED BY <2>1, <2>2
<1> QED BY <1>2, <1>3 DEF q

(* A record in front of others. *)
LEMMA InFront ==
  ASSUME NEW r \in Recs, NEW s \in Seq(Recs)
  PROVE  /\ <<r>> \o s # <<>> /\ First(<<r>> \o s) = r.val
         /\ s = <<>> => <<r>> \o s = <<r>>
<1> DEFINE y == <<r>>
           t == y \o s
<1>1. y \in Seq(Recs) /\ Len(y) = 1 /\ y[1] = r
  OBVIOUS
<1>2. Len(s) \in Nat
  BY LenProperties
<1> HIDE DEF y
<1>3. t \in Seq(Recs) /\ Len(t) = Len(y) + Len(s)
      /\ \A i \in 1..(Len(y) + Len(s)) : t[i] = IF i <= Len(y) THEN y[i] ELSE s[i - Len(y)]
  BY <1>1, ConcatProperties
<1>4. s = <<>> => t = y
  BY <1>1, ConcatEmptySeq
<1> HIDE DEF t
<1>5. t # <<>>
  <2>1. Len(t) # 0
    BY <1>1, <1>2, <1>3
  <2> QED BY <1>3, <2>1, EmptySeq
<1>6. t[1] = r
  BY <1>1, <1>2, <1>3
<1>7. First(t) = r.val
  BY <1>5, <1>6 DEF First
<1> QED BY <1>4, <1>5, <1>7 DEF t, y

Fixed == {KF8Offset, CoverOffset, StartReading}

LEMMA HeadStays ==
  ASSUME NEW h, HeadOK(h), NEW g, Sound(g), SameBut(g, h), HeadsOK,
         \A n \in Fixed : ReadExth(g, n) = ReadExth(h, n)
  PROVE  HeadOK(g) /\ g.ptr = h.ptr
<1>1. {"part", "firstRes", "ptr"} \subseteq DOMAIN h \ Counted
  BY DEF HeadOK, HeadsOK, Counted
<1>2. /\ DOMAIN g = DOMAIN h /\ g.part = h.part /\ g.firstRes = h.firstRes /\ g.ptr = h.ptr
  BY <1>1 DEF SameBut
<1>3. /\ ReadExth(g, KF8Offset) = ReadExth(h, KF8Offset)
      /\ ReadExth(g, CoverOffset) = ReadExth(h, CoverOffset)
      /\ ReadExth(g, StartReading) = ReadExth(h, StartReading)
  BY DEF Fixed
<1> QED BY <1>2, <1>3 DEF HeadOK, StartsKept

Added(h, g, num, val) ==
    /\ HeadOK(g) /\ g.ptr = h.ptr /\ Others(g, h, num)
    /\ ReadExth(g, num) # <<>> /\ First(ReadExth(g, num)) = val
    /\ ReadExth(h, num) = <<>> => \E x : ReadExth(g, num) = <<x>> /\ x.val = val

LEMMA HeadAdd ==
  ASSUME NEW h, HeadOK(h), HeadsOK, NEW num \in Nat \ Fixed, NEW val \in Int, NEW len \in Nat
  PROVE  Added(h, AddExth(h, num, val, len), num, val)
<1> DEFINE g == AddExth(h, num, val, len)
           r == Rec(num, val, len)
           q == ReadExth(h, num)
<1>1. Sound(h)
  BY DEF HeadOK
<1>2. /\ Sound(g) /\ SameBut(g, h) /\ ReadExth(g, num) = <<r>> \o q
      /\ \A n : n # num => ReadExth(g, n) = ReadExth(h, n)
  BY <1>1, AddSound
<1>3. r \in Recs /\ r.val = val /\ q \in Seq(Recs)
  BY <1>1, RecType, ReadType DEF Rec
<1> HIDE DEF g, r, q
<1>4. HeadOK(g) /\ g.ptr = h.ptr
  BY <1>2, HeadStays
<1>5. <<r>> \o q # <<>> /\ First(<<r>> \o q) = val /\ (q = <<>> => <<r>> \o q = <<r>>)
  BY <1>3, InFront
<1> QED BY <1>2, <1>3, <1>4, <1>5 DEF Added, Others, g, q

LEMMA HeadDel ==
  ASSUME NEW h, HeadOK(h), HeadsOK, NEW num \in Nat \ Fixed
  PROVE  LET g == DelExth(h, num)
         IN  /\ HeadOK(g) /\ g.ptr = h.ptr /\ Others(g, h, num)
             /\ ReadExth(g, num) = Rest(ReadExth(h, num))
<1> DEFINE g == DelExth(h, num)
<1>1. Sound(h)
  BY DEF HeadOK
<1>2. /\ Sound(g) /\ SameBut(g, h) /\ ReadExth(g, num) = Rest(ReadExth(h, num))
      /\ Others(g, h, num)
  BY <1>1, DelSound
<1> HIDE DEF g
<1>3. HeadOK(g) /\ g.ptr = h.ptr
  BY <1>2, HeadStays DEF Others
<1> QED BY <1>2, <1>3 DEF g

(* The rest of a sequence: it ends where the sequence ends, and of one or  *)
(* none nothing is left.                                                   *)
LEMMA RestEnds ==
  ASSUME NEW S, NEW s \in Seq(S)
  PROVE  /\ Len(s) > 1 => Rest(s) # <<>> /\ Last(Rest(s)) = Last(s)
         /\ Len(s) <= 1 => Rest(s) = <<>>
<1>0. Len(s) \in Nat
  BY LenProperties
<1>1. CASE s = <<>>
  <2>1. Len(s) = 0
    BY <1>1
  <2> QED BY <1>1, <2>1 DEF Rest
<1>2. CASE s # <<>>
  <2> DEFINE t == Tail(s)
  <2>1. t \in Seq(S) /\ Len(t) = Len(s) - 1 /\ \A i \in 1..Len(t) : t[i] = s[i + 1]
    BY <1>2, HeadTailProperties
  <2>2. Rest(s) = t
    BY <1>2 DEF Rest
  <2> HIDE DEF t
  <2>3. ASSUME Len(s) > 1
        PROVE  t # <<>> /\ Last(t) = Last(s)
    <3>1. Len(t) # 0 /\ Len(t) \in 1..Len(t) /\ Len(t) + 1 = Len(s)
      BY <1>0, <2>1, <2>3
    <3>2. t # <<>>
      BY <2>1, <3>1, EmptySeq
    <3> QED BY <2>1, <3>1, <3>2 DEF Last
  <2>4. ASSUME Len(s) <= 1
        PROVE  t = <<>>
    <3>1. Len(t) = 0
      BY <1>0, <1>2, <2>1, <2>4, EmptySeq, LenProperties
    <3> QED BY <2>1, <3>1, EmptySeq
  <2> QED BY <2>2, <2>3, <2>4
<1> QED BY <1>1, <1>2

-----------------------------------------------------------------------------
(* The steps.  The file that was read and the arguments stay what they     *)
(* are.                                                                    *)
Input == data' = data /\ mode' = mode

LEMMA InputStays ==
  ASSUME Input
  PROVE  /\ OldHead' = OldHead /\ NewHead' = NewHead /\ HeadNo' = HeadNo /\ Images' = Images
         /\ Source' = Source /\ SourceOK' = SourceOK /\ MovedPointers' = MovedPointers
         /\ ImagesAt' = ImagesAt /\ HeadPlaces' = HeadPlaces
         /\ \A i : Place(i)' = Place(i)
         /\ \A c : Planned(c)' = Planned(c)
<1>1. OldHead' = OldHead
  BY DEF OldHead, Input
<1>2. HeadNo' = HeadNo /\ Images' = Images
  BY <1>1 DEF HeadNo, Images
<1>3. NewHead' = NewHead
  BY <1>1 DEF NewHead, Input
<1>4. Source' = Source
  BY DEF Source, Input
<1>5. SourceOK' = SourceOK
  BY <1>1, <1>2, <1>3, <1>4
     DEF SourceOK, HeadsOK, NumbersOK, SourcesOK, ImagesOK, ImageNumber, RecordsOK, PointersOK, Input
<1>6. MovedPointers' = MovedPointers
  BY <1>2, <1>3 DEF MovedPointers
<1>7. ImagesAt' = ImagesAt /\ HeadPlaces' = HeadPlaces
  BY <1>1, <1>2, <1>3 DEF ImagesAt, HeadPlaces, Input
<1>8. \A i : Place(i)' = Place(i)
  BY <1>1, <1>2, <1>3 DEF Place, Input
<1>9. \A c : Planned(c)' = Planned(c)
  BY DEF Planned, Input
<1> QED BY <1>1, <1>2, <1>3, <1>4, <1>5, <1>6, <1>7, <1>8, <1>9

LEMMA StageStep ==
  ASSUME StageOK, Input, pc \in Working, pc' \in Working,
         pc' = "sources" => mode.combo, pc' \in {"cut", "header"} => ~mode.combo
  PROVE  StageOK'
<1>1. OldHead' = OldHead /\ SourceOK' = SourceOK /\ mode' = mode
  BY InputStays DEF Input
<1>2. pc' # "open"
  BY DEF Working, AfterStarts
<1> QED BY <1>1, <1>2 DEF StageOK

LEMMA OldStep ==
  ASSUME OldOK, Input, pc \in Working, pc' \in Working, rec0' = rec0, asin' = asin,
         pc' = "sources" => pc = "sources"
  PROVE  OldOK'
<1>1. OldHead' = OldHead /\ mode' = mode
  BY InputStays DEF Input
<1> QED BY <1>1 DEF OldOK

LEMMA HeadPrimed ==
  ASSUME Input, NEW g, head' = g
  PROVE  /\ HeadOK(g) => HeadOK(head)'
         /\ ThumbIsNamed(g) => ThumbIsNamed(head)'
<1>1. NewHead' = NewHead /\ Images' = Images
  BY InputStays
<1> QED BY <1>1 DEF HeadOK, StartsKept, ThumbIsNamed, ImageNumber

LEMMA NewStep ==
  ASSUME NewOK, Input, pc \in Working, pc' \in Working, head' = head, cdekey' = cdekey, cdetype' = cdetype,
         mode.combo \/ (pc' \in Patched <=> pc \in Patched), pc' \in Named <=> pc \in Named,
         pc' \in Keyed <=> pc \in Keyed,
         pc' \in AfterStarts => pc \in AfterStarts \/ Len(ReadExth(head, StartReading)) <= 1
  PROVE  NewOK'
<1>1. NewHead' = NewHead /\ MovedPointers' = MovedPointers /\ mode' = mode
  BY InputStays DEF Input
<1>2. HeadOK(head)'
  BY HeadPrimed DEF NewOK
<1>3. pc' \in Named => ThumbIsNamed(head)'
  BY HeadPrimed DEF NewOK
<1>4. pc' \in Keyed => KeysKept(head)'
  BY <1>1 DEF NewOK, KeysKept, PersonalJoint, TypeAsked
<1> QED BY <1>1, <1>2, <1>3, <1>4 DEF NewOK

(* The file in the making, when it is not written. *)
LEMMA MadeStays ==
  ASSUME NEW s, Made(s), Input, result' = result, rec0' = rec0,
         \/ pc \notin Written /\ pc' \notin Written
         \/ pc \in Written /\ pc' \in Written /\ head' = head,
         \/ pc \notin Named
         \/ pc' \in Named /\ ReadExth(head, ThumbOffset)' = ReadExth(head, ThumbOffset)
  PROVE  Made(s)'
<1>1. /\ HeadNo' = HeadNo /\ Images' = Images /\ NewHead' = NewHead /\ mode' = mode
      /\ Source' = Source /\ ImagesAt' = ImagesAt /\ HeadPlaces' = HeadPlaces
      /\ \A i : Place(i)' = Place(i)
      /\ \A c : Planned(c)' = Planned(c)
  BY InputStays DEF Input
<1>2. \A i \in 0..(Len(s) - 1) :
         \/ i \in HeadPlaces'
         \/ s[i + 1] = Planned(Source[Place(i) + 1])'
         \/ /\ pc' \in Named /\ ReadExth(head, ThumbOffset)' # <<>>
            /\ i = ImagesAt' + First(ReadExth(head, ThumbOffset)')
            /\ "thumb" \in DOMAIN s[i + 1] /\ s[i + 1].len = 30
  <2> SUFFICES ASSUME NEW i \in 0..(Len(s) - 1)
               PROVE  \/ i \in HeadPlaces'
                      \/ s[i + 1] = Planned(Source[Place(i) + 1])'
                      \/ /\ pc' \in Named /\ ReadExth(head, ThumbOffset)' # <<>>
                         /\ i = ImagesAt' + First(ReadExth(head, ThumbOffset)')
                         /\ "thumb" \in DOMAIN s[i + 1] /\ s[i + 1].len = 30
    OBVIOUS
  <2>1. Planned(Source[Place(i) + 1])' = Planned(Source[Place(i) + 1])
    BY <1>1 DEF Planned
  <2> QED BY <1>1, <2>1 DEF Made
<1>3. Filed(result, s)' /\ (mode.combo => s[1] = rec0)'
  BY <1>1 DEF Made
<1>4. (Len(s) = IF mode.combo THEN Len(Source) ELSE Len(Source) - HeadNo + Images)'
  BY <1>1 DEF Made
<1>5. (s[IF mode.combo THEN HeadNo + 1 ELSE 1] = IF pc \in Written THEN head ELSE NewHead)'
  BY <1>1 DEF Made
<1> QED BY <1>2, <1>3, <1>4, <1>5 DEF Made

-----------------------------------------------------------------------------
(* The source. *)
LEMMA SourceReads ==
  ASSUME SourceOK
  PROVE  /\ OldHead = Source[1] /\ NewHead = Source[HeadNo + 1]
         /\ Len(Source) \in Nat /\ HeadNo + 1 < Len(Source) /\ 3 <= HeadNo + 1 /\ Len(data.table) = Len(Source)
         /\ \A i \in 0..(Len(Source) - 1) : Content(data, i) = Source[i + 1]
         /\ Images \in Nat \ {0}
<1>1. Filed(data, Source) /\ \A k \in 1..Len(Source) : Source[k].len \in Nat \ {0}
  BY DEF SourceOK
<1>2. /\ Len(Source) \in Nat /\ Len(data.table) = Len(Source)
      /\ \A i \in 0..(Len(Source) - 1) :
           Content(data, i) = IF Source[i + 1].len = 0 THEN Empty ELSE Source[i + 1]
  BY <1>1, FiledReads
<1>3. /\ HeadNo \in Nat /\ OldHead.firstRes \in Nat /\ OldHead.lastRes \in Nat /\ NewHead.firstRes \in Nat
      /\ 1 <= OldHead.firstRes /\ OldHead.firstRes <= OldHead.lastRes /\ OldHead.lastRes < HeadNo
      /\ 1 <= NewHead.firstRes /\ HeadNo + NewHead.firstRes < Len(Source)
  BY DEF SourceOK, NumbersOK
<1>4. HeadNo + 1 < Len(Source) /\ 3 <= HeadNo + 1 /\ Images \in Nat \ {0}
  BY <1>2, <1>3 DEF Images
<1>5. ASSUME NEW i \in 0..(Len(Source) - 1)
      PROVE  Content(data, i) = Source[i + 1]
  <2>1. i + 1 \in 1..Len(Source)
    BY <1>2
  <2>2. Source[i + 1].len # 0
    BY <1>1, <2>1
  <2> QED BY <1>2, <2>2
<1>6. 0 \in 0..(Len(Source) - 1) /\ HeadNo \in 0..(Len(Source) - 1)
  BY <1>2, <1>3, <1>4
<1>7. OldHead = Source[1]
  <2>1. Content(data, 0) = Source[0 + 1]
    BY <1>5, <1>6
  <2> QED BY <2>1 DEF OldHead
<1>8. NewHead = Source[HeadNo + 1]
  <2>1. Content(data, HeadNo) = Source[HeadNo + 1]
    BY <1>5, <1>6
  <2> QED BY <2>1 DEF NewHead, HeadNo
<1> QED BY <1>2, <1>4, <1>5, <1>7, <1>8

LEMMA SourceHeads ==
  ASSUME SourceOK
  PROVE  /\ HeadOK(NewHead)
         /\ Sound(OldHead) /\ OldHead.part = OldHead.part
         /\ ImageNumber(ReadExth(NewHead, CoverOffset)) /\ ImageNumber(ReadExth(NewHead, ThumbOffset))
         /\ Len(ReadExth(NewHead, ThumbnailURI)) <= 1
BY DEF SourceOK, HeadsOK, RecordsOK, HeadOK, StartsKept

-----------------------------------------------------------------------------
LEMMA InitInv == Init => SplitInv
<1> SUFFICES ASSUME Init PROVE SplitInv
  OBVIOUS
<1>1. PICK l \in Layouts, m \in Metas, c \in Covers :
         /\ c[1] < l.images /\ c[2] < l.images
         /\ data = MakeFile(JointSections(l, m, c), l.pad)
  BY DEF Init
<1>2. ReadExth(OldHead, KF8Offset) # <<>> => SourceOK
  BY <1>1, SourceIsOK
<1>3. mode \in Modes /\ pc = "open" /\ result = <<>> /\ rec0 = <<>> /\ head = <<>>
  BY DEF Init
<1>4. pc \notin Working /\ pc \notin Written
  BY <1>3 DEF Working, AfterStarts, Written
<1>5. StageOK
  BY <1>2, <1>3, <1>4 DEF StageOK
<1>6. OldOK /\ NewOK
  BY <1>4 DEF OldOK, NewOK
<1>7. ResultOK /\ PagesOK
  BY <1>3, <1>4 DEF ResultOK, PagesOK, AfterStarts
<1>8. SoundHeads
  BY <1>3 DEF SoundHeads
<1> QED BY <1>5, <1>6, <1>7, <1>8 DEF SplitInv

(* A step that leads to no result. *)
LEMMA IdleStep ==
  ASSUME SplitInv, Input, pc \notin Working \/ result = <<>>, pc' \in {"ignored", "failed"},
         result' = result, rec0' = rec0, head' = head
  PROVE  SplitInv'
<1>1. pc' \notin Working /\ pc' \notin Written /\ pc' \notin {"open", "sources", "cut", "starts", "read", "header"}
      /\ pc' \notin AfterStarts
  BY DEF Working, AfterStarts, Written
<1>2. OldHead' = OldHead /\ SourceOK' = SourceOK /\ mode' = mode
  BY InputStays DEF Input
<1>3. result = <<>>
  BY DEF SplitInv, StageOK
<1>4. StageOK'
  BY <1>1, <1>2, <1>3 DEF SplitInv, StageOK
<1>5. OldOK' /\ NewOK' /\ ResultOK' /\ PagesOK'
  BY <1>1 DEF OldOK, NewOK, ResultOK, PagesOK
<1>6. SoundHeads'
  BY DEF SplitInv, SoundHeads
<1> QED BY <1>4, <1>5, <1>6 DEF SplitInv

LEMMA IgnoreInv ==
  ASSUME SplitInv, Ignore
  PROVE  SplitInv'
<1>1. pc = "open" /\ pc' = "ignored" /\ Input /\ result' = result /\ rec0' = rec0 /\ head' = head
  BY DEF Ignore, Input, input
<1>2. pc \notin Working
  BY <1>1 DEF Working, AfterStarts
<1> QED BY <1>1, <1>2, IdleStep

LEMMA OpenInv ==
  ASSUME SplitInv, Open
  PROVE  SplitInv'
<1>1. /\ pc = "open" /\ Input /\ rec0' = OldHead /\ ReadExth(OldHead, KF8Offset) # <<>>
      /\ head' = NewHead /\ result' = data
      /\ IF mode.combo THEN pc' = "sources" ELSE pc' = "cut"
      /\ mode.combo => todo' = [k \in 1..OldHead.nsrcs |-> OldHead.srcs + k - 1]
      /\ asin' = IF ReadExth(OldHead, ASIN) = <<>> THEN Given ELSE First(ReadExth(OldHead, ASIN))
  BY DEF Open, Input, input, OldHead, NewHead
<1>2. SourceOK
  BY <1>1 DEF SplitInv, StageOK
<1>3. HeadOK(NewHead) /\ Sound(OldHead)
  BY <1>2, SourceHeads
<1>4. /\ OldHead' = OldHead /\ NewHead' = NewHead /\ Source' = Source /\ SourceOK' = SourceOK /\ mode' = mode
      /\ HeadNo' = HeadNo
  BY <1>1, InputStays DEF Input
<1>5. pc' \in {"sources", "cut"} /\ pc' \in Working /\ pc' \notin AfterStarts /\ pc' \notin Patched
      /\ pc' \notin Named /\ pc' \notin Keyed /\ pc' \notin Written /\ pc' # "open" /\ pc' # "read"
  BY <1>1 DEF Working, AfterStarts, Patched, Named, Keyed, Written
<1>6. StageOK'
  BY <1>1, <1>2, <1>4, <1>5 DEF SplitInv, StageOK
<1>7. asin' \in Int
  <2>1. First(ReadExth(OldHead, ASIN)) \in Int
    BY <1>3, ReadType
  <2> QED BY <1>1, <2>1 DEF Given
<1>8. OldOK'
  BY <1>1, <1>2, <1>3, <1>4, <1>7 DEF OldOK, SourceOK, RecordsOK
<1>9. NewOK'
  <2>1. HeadOK(head)'
    BY <1>1, <1>3, HeadPrimed
  <2> QED BY <1>1, <1>4, <1>5, <2>1 DEF NewOK
<1>10. ResultOK'
  <2>1. CASE pc' = "sources"
    <3>1. OldHead.nsrcs \in Nat /\ OldHead.srcs \in Int /\ Filed(data, Source)
      BY <1>2 DEF SourceOK, SourcesOK
    <3>2. mode.combo
      BY <1>1, <2>1
    <3>3. [k \in 1..OldHead.nsrcs |-> OldHead.srcs + k - 1] = Pending(OldHead.nsrcs, OldHead.srcs, 0)
      BY <3>1 DEF Pending
    <3>4. \A k \in 1..Len(Source) :
            Source[k] = IF k \in (OldHead.srcs + 1)..(OldHead.srcs + 0) THEN Empty ELSE Source[k]
      BY <3>1
    <3>5. Emptied(Source, 0)'
      BY <1>1, <1>4, <3>1, <3>2, <3>3, <3>4 DEF Emptied
    <3>6. \E s, e : Emptied(s, e)'
      BY <3>5
    <3> QED BY <2>1, <3>6, <1>5 DEF ResultOK
  <2>2. CASE pc' = "cut"
    BY <1>1, <1>5, <2>2 DEF ResultOK, Input
  <2> QED BY <1>5, <2>1, <2>2
<1>11. PagesOK'
  BY <1>5 DEF PagesOK
<1>12. SoundHeads'
  BY <1>1, <1>3 DEF SoundHeads, HeadOK
<1> QED BY <1>6, <1>8, <1>9, <1>10, <1>11, <1>12 DEF SplitInv

-----------------------------------------------------------------------------
(* produceCombo: the sections of the sources and the old header. *)
Shrinks(t, n, b, e) == e + 1 \in 0..n /\ t[1] = b + e /\ Tail(t) = Pending(n, b, e + 1)

LEMMA TodoShape ==
  ASSUME NEW n \in Nat, NEW e \in 0..n, NEW b \in Int, NEW t, t = Pending(n, b, e)
  PROVE  /\ t = <<>> => e = n
         /\ t # <<>> => Shrinks(t, n, b, e)
<1>1. t \in Seq(Int) /\ Len(t) = n - e
  BY DEF Pending
<1>2. t = <<>> <=> n - e = 0
  BY <1>1, EmptySeq
<1>3. ASSUME t # <<>>
      PROVE  Shrinks(t, n, b, e)
  <2> DEFINE q == Tail(t)
             w == Pending(n, b, e + 1)
  <2>1. n - e >= 1
    BY <1>2, <1>3
  <2>2. q \in Seq(Int) /\ Len(q) = Len(t) - 1 /\ \A i \in 1..Len(q) : q[i] = t[i + 1]
    BY <1>1, <1>3, HeadTailProperties
  <2>3. w \in Seq(Int) /\ Len(w) = n - (e + 1) /\ \A i \in 1..Len(w) : w[i] = b + (e + 1) + i - 1
    BY <2>1 DEF Pending
  <2>5. \A i \in 1..Len(t) : t[i] = b + e + i - 1
    BY <1>1 DEF Pending
  <2>4. t[1] = b + e
    BY <1>1, <2>1, <2>5
  <2> HIDE DEF q, w
  <2>6. ASSUME NEW i \in 1..Len(q)
        PROVE  q[i] = w[i]
    <3>4. i \in Nat /\ i >= 1 /\ i <= Len(q) /\ Len(q) = Len(t) - 1 /\ Len(t) = n - e /\ Len(w) = n - (e + 1)
      BY <1>1, <2>2, <2>3
    <3>5. i + 1 <= Len(t) /\ i <= Len(w)
      BY <1>1, <3>4
    <3>6. Len(t) \in Nat /\ Len(w) \in Nat
      BY <1>1, <2>3
    <3>1. i + 1 \in 1..Len(t) /\ i \in 1..Len(w) /\ i \in Int
      BY <3>4, <3>5, <3>6
    <3>2. q[i] = b + e + (i + 1) - 1
      BY <2>2, <2>5, <3>1
    <3>3. w[i] = b + (e + 1) + i - 1
      BY <2>3, <3>1
    <3> QED BY <3>1, <3>2, <3>3
  <2>7. Len(q) = Len(w)
    BY <1>1, <2>2, <2>3
  <2>8. q = w
    BY <2>2, <2>3, <2>6, <2>7, SeqEqual
  <2> QED BY <2>1, <2>4, <2>8 DEF q, w, Shrinks
<1>4. t = <<>> => e = n
  BY <1>2
<1> QED BY <1>3, <1>4

(* The bounds of the sections with sources. *)
LEMMA SourcesBetween ==
  ASSUME SourceOK
  PROVE  /\ OldHead.nsrcs \in Nat /\ OldHead.srcs \in Int
         /\ \A k \in (OldHead.srcs + 1)..(OldHead.srcs + OldHead.nsrcs) : k \in 2..HeadNo
<1>1. /\ OldHead.nsrcs \in Nat /\ OldHead.srcs \in Int
      /\ OldHead.nsrcs # 0 => 1 <= OldHead.srcs /\ OldHead.srcs + OldHead.nsrcs <= HeadNo
  BY DEF SourceOK, SourcesOK
<1>2. HeadNo \in Nat
  BY DEF SourceOK, NumbersOK
<1>3. ASSUME NEW k \in (OldHead.srcs + 1)..(OldHead.srcs + OldHead.nsrcs)
      PROVE  k \in 2..HeadNo
  <2>1. OldHead.nsrcs # 0
    BY <1>1
  <2> QED BY <1>1, <1>2, <2>1
<1> QED BY <1>1, <1>3

LEMMA EmptySourceInv ==
  ASSUME SplitInv, EmptySource
  PROVE  SplitInv'
<1>1. /\ pc = "sources" /\ pc' = "sources" /\ Input /\ rec0' = rec0 /\ head' = head /\ asin' = asin
      /\ cdekey' = cdekey /\ cdetype' = cdetype /\ pages' = pages
      /\ todo # <<>> /\ todo' = Tail(todo) /\ result' = NullSection(result, todo[1])
  BY DEF EmptySource, Input, input, fields
<1>2. pc \in Working /\ pc' \notin Written /\ pc' # "read"
  BY <1>1 DEF Working, Written
<1>3. StageOK'
  BY <1>1, <1>2, StageStep DEF SplitInv, StageOK
<1>4. OldOK' /\ NewOK'
  BY <1>1, <1>2, OldStep, NewStep DEF SplitInv
<1>5. PagesOK'
  BY <1>2 DEF PagesOK
<1>6. SoundHeads'
  BY <1>1 DEF SplitInv, SoundHeads
<1>7. ResultOK'
  <2>1. SourceOK /\ mode.combo
    BY <1>1, <1>2 DEF SplitInv, StageOK
  <2>2. PICK s, e : Emptied(s, e)
    BY <1>1 DEF SplitInv, ResultOK
  <2>3. /\ OldHead.nsrcs \in Nat /\ OldHead.srcs \in Int
        /\ \A k \in (OldHead.srcs + 1)..(OldHead.srcs + OldHead.nsrcs) : k \in 2..HeadNo
    BY <2>1, SourcesBetween
  <2>4. e \in 0..OldHead.nsrcs /\ todo = Pending(OldHead.nsrcs, OldHead.srcs, e)
    BY <2>2 DEF Emptied
  <2>5. /\ e + 1 \in 0..OldHead.nsrcs /\ todo[1] = OldHead.srcs + e
        /\ Tail(todo) = Pending(OldHead.nsrcs, OldHead.srcs, e + 1)
    <3>1. Shrinks(todo, OldHead.nsrcs, OldHead.srcs, e)
      BY <1>1, <2>3, <2>4, TodoShape
    <3> QED BY <3>1 DEF Shrinks
  <2> DEFINE i == OldHead.srcs + e
  <2>6. Filed(result, s) /\ Len(s) = Len(Source)
        /\ \A k \in 1..Len(Source) :
             s[k] = IF k \in (OldHead.srcs + 1)..(OldHead.srcs + e) THEN Empty ELSE Source[k]
    BY <2>2 DEF Emptied
  <2>7. i \in 0..(Len(s) - 1)
    <3>1. i + 1 \in (OldHead.srcs + 1)..(OldHead.srcs + OldHead.nsrcs) /\ i \in Int
      BY <2>3, <2>4, <2>5
    <3>2. i + 1 \in 2..HeadNo
      BY <2>3, <3>1
    <3>3. HeadNo + 1 < Len(Source) /\ Len(Source) \in Nat
      BY <2>1, SourceReads
    <3>4. HeadNo \in Nat
      BY <2>1 DEF SourceOK, NumbersOK
    <3> QED BY <2>6, <3>1, <3>2, <3>3, <3>4
  <2>8. PICK t : /\ Filed(NullSection(result, i), t) /\ Len(t) = Len(s)
                 /\ \A j \in 1..Len(s) : t[j] = IF j = i + 1 THEN Empty ELSE s[j]
    <3> DEFINE t == Changed(s, i, Empty)
    <3> HIDE DEF i
    <3>1. Filed(NullSection(result, i), t) /\ Put(t, s, i, Empty)
      BY <2>6, <2>7, FiledNull
    <3> HIDE DEF t
    <3> QED BY <3>1 DEF Put
  <2>9. NullSection(result, i) = result'
    BY <1>1, <2>5
  <2>10. ASSUME NEW k \in 1..Len(Source)
         PROVE  t[k] = IF k \in (OldHead.srcs + 1)..(OldHead.srcs + (e + 1)) THEN Empty ELSE Source[k]
    <3>1. t[k] = IF k = i + 1 THEN Empty ELSE s[k]
      BY <2>6, <2>8
    <3>2. s[k] = IF k \in (OldHead.srcs + 1)..(OldHead.srcs + e) THEN Empty ELSE Source[k]
      BY <2>6
    <3> DEFINE b == OldHead.srcs
    <3>4. b \in Int /\ e \in Nat /\ k \in Int /\ i = b + e
      BY <2>3, <2>4
    <3> HIDE DEF b, i
    <3>5. k \in (b + 1)..(b + (e + 1)) <=> k = i + 1 \/ k \in (b + 1)..(b + e)
      BY <3>4
    <3>3. k \in (OldHead.srcs + 1)..(OldHead.srcs + (e + 1))
            <=> k = i + 1 \/ k \in (OldHead.srcs + 1)..(OldHead.srcs + e)
      BY <3>5 DEF b
    <3> QED BY <3>1, <3>2, <3>3
  <2>11. OldHead' = OldHead /\ Source' = Source
    BY <1>1, InputStays
  <2>12. Emptied(t, e + 1)'
    BY <1>1, <2>5, <2>6, <2>8, <2>9, <2>10, <2>11 DEF Emptied
  <2>13. \E w, f : Emptied(w, f)'
    BY <2>12
  <2> QED BY <1>1, <2>13 DEF ResultOK, AfterStarts
<1> QED BY <1>3, <1>4, <1>5, <1>6, <1>7 DEF SplitInv

LEMMA RecordAdded ==
  ASSUME NEW h, Sound(h), NEW num \in Nat, num # KF8Offset, NEW val \in Int, NEW len \in Nat,
         NEW b \in BOOLEAN
  PROVE  LET g == IF b THEN AddExth(h, num, val, len) ELSE h
         IN  /\ Sound(g) /\ SameBut(g, h) /\ ReadExth(g, KF8Offset) = ReadExth(h, KF8Offset)
<1>1. /\ Sound(AddExth(h, num, val, len)) /\ SameBut(AddExth(h, num, val, len), h)
      /\ \A n : n # num => ReadExth(AddExth(h, num, val, len), n) = ReadExth(h, n)
  BY AddSound
<1>2. SameBut(h, h)
  BY DEF SameBut
<1> QED BY <1>1, <1>2

LEMMA TwoFieldsSet ==
  ASSUME NEW h, h = [f \in DOMAIN h |-> h[f]], NEW x, NEW y
  PROVE  LET g == [h EXCEPT !.srcs = x, !.nsrcs = y]
         IN  /\ DOMAIN g = DOMAIN h /\ g = [f \in DOMAIN h |-> g[f]]
             /\ \A f \in DOMAIN h : f # "srcs" /\ f # "nsrcs" => g[f] = h[f]
OBVIOUS

(* The header that PatchOldHeader writes. *)
OldPatched(h, a) ==
    LET r == IF h.srcs >= 0 /\ h.nsrcs > 0 THEN [h EXCEPT !.srcs = Nothing, !.nsrcs = 0] ELSE h
        t == IF mode.nonPersonal THEN AddExth(r, CDEType, EBOK, 4) ELSE r
    IN  IF mode.nonPersonal /\ ReadExth(h, ASIN) = <<>> THEN AddExth(t, ASIN, a, 10) ELSE t

LEMMA OldPatchedSound ==
  ASSUME SourceOK, mode \in Modes, NEW a \in Int
  PROVE  LET g == OldPatched(OldHead, a)
         IN  /\ Sound(g) /\ DOMAIN g = DOMAIN OldHead /\ g.part = OldHead.part
             /\ g.firstRes = OldHead.firstRes /\ g.lastRes = OldHead.lastRes
             /\ ReadExth(g, KF8Offset) = ReadExth(OldHead, KF8Offset)
             /\ ~mode.nonPersonal => ReadExth(g, CDEType) = <<>>
<1> DEFINE r == IF OldHead.srcs >= 0 /\ OldHead.nsrcs > 0
                  THEN [OldHead EXCEPT !.srcs = Nothing, !.nsrcs = 0] ELSE OldHead
           t == IF mode.nonPersonal THEN AddExth(r, CDEType, EBOK, 4) ELSE r
           b == mode.nonPersonal /\ ReadExth(OldHead, ASIN) = <<>>
           g == IF b THEN AddExth(t, ASIN, a, 10) ELSE t
<1>1. /\ Sound(OldHead) /\ {"part", "version", "firstRes", "lastRes", "srcs", "nsrcs"} \subseteq DOMAIN OldHead
  BY DEF SourceOK, HeadsOK
<1>2. OldHead = [f \in DOMAIN OldHead |-> OldHead[f]]
  BY <1>1 DEF Sound
<1>3. /\ DOMAIN r = DOMAIN OldHead /\ r = [f \in DOMAIN OldHead |-> r[f]]
      /\ \A f \in Counted : r[f] = OldHead[f]
      /\ r.part = OldHead.part /\ r.firstRes = OldHead.firstRes /\ r.lastRes = OldHead.lastRes
  <2>1. Counted \subseteq DOMAIN OldHead
    BY <1>1 DEF Sound
  <2>2. /\ DOMAIN r = DOMAIN OldHead /\ r = [f \in DOMAIN OldHead |-> r[f]]
        /\ \A f \in DOMAIN OldHead : f # "srcs" /\ f # "nsrcs" => r[f] = OldHead[f]
    <3>1. CASE OldHead.srcs >= 0 /\ OldHead.nsrcs > 0
      BY <1>2, <3>1, TwoFieldsSet
    <3>2. CASE ~(OldHead.srcs >= 0 /\ OldHead.nsrcs > 0)
      BY <1>2, <3>2
    <3> QED BY <3>1, <3>2
  <2> QED BY <1>1, <2>1, <2>2 DEF Counted
<1> HIDE DEF r
<1>4. /\ Sound(r) /\ ReadExth(r, KF8Offset) = ReadExth(OldHead, KF8Offset)
      /\ ReadExth(r, CDEType) = <<>>
  <2>1. Sound(r) /\ \A n : ReadExth(r, n) = ReadExth(OldHead, n)
    BY <1>1, <1>3, SideSound
  <2>2. ReadExth(OldHead, CDEType) = <<>>
    BY DEF SourceOK, RecordsOK
  <2> QED BY <2>1, <2>2
<1>5. mode.nonPersonal \in BOOLEAN /\ b \in BOOLEAN
  BY ModesAssumption
<1>11. ~mode.nonPersonal => g = r
  OBVIOUS
<1>6. /\ Sound(t) /\ SameBut(t, r) /\ ReadExth(t, KF8Offset) = ReadExth(r, KF8Offset)
  BY <1>4, <1>5, RecordAdded DEF CDEType, KF8Offset, EBOK
<1> HIDE DEF t, b
<1>7. /\ Sound(g) /\ SameBut(g, t) /\ ReadExth(g, KF8Offset) = ReadExth(t, KF8Offset)
  BY <1>5, <1>6, RecordAdded DEF ASIN, KF8Offset
<1> HIDE DEF g
<1>8. {"part", "firstRes", "lastRes"} \subseteq DOMAIN OldHead \ Counted
  BY <1>1 DEF Counted
<1>9. DOMAIN g = DOMAIN OldHead /\ g.part = OldHead.part
      /\ g.firstRes = OldHead.firstRes /\ g.lastRes = OldHead.lastRes
  BY <1>3, <1>6, <1>7, <1>8 DEF SameBut
<1>10. OldPatched(OldHead, a) = g
  BY DEF OldPatched, g, t, b, r
<1> QED BY <1>4, <1>6, <1>7, <1>9, <1>10, <1>11

LEMMA PatchOldHeaderInv ==
  ASSUME SplitInv, PatchOldHeader
  PROVE  SplitInv'
<1>1. /\ pc = "sources" /\ pc' = "starts" /\ Input /\ head' = head /\ asin' = asin
      /\ cdekey' = cdekey /\ cdetype' = cdetype /\ todo = <<>>
      /\ rec0' = OldPatched(rec0, asin) /\ result' = WriteSection(result, 0, Run(rec0'))
  BY DEF PatchOldHeader, OldPatched, Input, input, fields
<1>2. /\ pc \in Working /\ pc' \in Working /\ pc' \notin AfterStarts /\ pc' \notin Patched /\ pc' \notin Named
      /\ pc' \notin Keyed /\ pc' \notin Written /\ pc \notin Patched /\ pc \notin Named
      /\ pc \notin Keyed /\ pc \notin Written
  BY <1>1 DEF Working, AfterStarts, Patched, Named, Keyed, Written
<1>3. StageOK'
  BY <1>1, <1>2, StageStep DEF SplitInv, StageOK
<1>4. SourceOK /\ mode.combo /\ mode \in Modes
  BY <1>1, <1>2 DEF SplitInv, StageOK
<1>5. rec0 = OldHead /\ asin \in Int
  BY <1>1, <1>2 DEF SplitInv, OldOK
<1>6. /\ Sound(rec0') /\ DOMAIN rec0' = DOMAIN OldHead /\ rec0'.part = OldHead.part
      /\ rec0'.firstRes = OldHead.firstRes /\ rec0'.lastRes = OldHead.lastRes
      /\ ReadExth(rec0', KF8Offset) = ReadExth(OldHead, KF8Offset)
      /\ ~mode.nonPersonal => ReadExth(rec0', CDEType) = <<>>
  BY <1>1, <1>4, <1>5, OldPatchedSound
<1>7. /\ OldHead' = OldHead /\ NewHead' = NewHead /\ HeadNo' = HeadNo /\ Images' = Images /\ mode' = mode
      /\ Source' = Source /\ ImagesAt' = ImagesAt /\ HeadPlaces' = HeadPlaces
      /\ \A i : Place(i)' = Place(i)
      /\ \A c : Planned(c)' = Planned(c)
  BY <1>1, InputStays DEF Input
<1>8. OldOK'
  BY <1>1, <1>4, <1>5, <1>6, <1>7 DEF OldOK
<1>9. NewOK'
  BY <1>1, <1>2, NewStep DEF SplitInv
<1>10. PagesOK'
  BY <1>1, <1>2 DEF PagesOK
<1>11. SoundHeads'
  BY <1>1, <1>6 DEF SplitInv, SoundHeads
<1>12. ResultOK'
  <2>1. PICK s, e : Emptied(s, e)
    BY <1>1 DEF SplitInv, ResultOK
  <2>2. /\ OldHead.nsrcs \in Nat /\ OldHead.srcs \in Int
        /\ \A k \in (OldHead.srcs + 1)..(OldHead.srcs + OldHead.nsrcs) : k \in 2..HeadNo
    BY <1>4, SourcesBetween
  <2>3. e \in 0..OldHead.nsrcs /\ todo = Pending(OldHead.nsrcs, OldHead.srcs, e)
    BY <2>1 DEF Emptied
  <2>4. e = OldHead.nsrcs
    BY <1>1, <2>2, <2>3, TodoShape
  <2>5. Filed(result, s) /\ Len(s) = Len(Source)
        /\ \A k \in 1..Len(Source) :
             s[k] = IF k \in (OldHead.srcs + 1)..(OldHead.srcs + OldHead.nsrcs) THEN Empty ELSE Source[k]
    BY <2>1, <2>4 DEF Emptied
  <2>6. /\ NewHead = Source[HeadNo + 1] /\ Len(Source) \in Nat /\ HeadNo + 1 < Len(Source) /\ 3 <= HeadNo + 1
        /\ HeadNo \in Nat
    BY <1>4, SourceReads DEF SourceOK, NumbersOK
  <2>7. rec0'.len \in Nat
    BY <1>6, SoundSizes
  <2>8. 0 \in 0..(Len(s) - 1)
    BY <2>5, <2>6
  <2>9. PICK t : /\ Filed(result', t) /\ Len(t) = Len(s)
                 /\ \A j \in 1..Len(s) : t[j] = IF j = 0 + 1 THEN rec0' ELSE s[j]
    <3> DEFINE x == rec0'
               t == Changed(s, 0, x)
    <3> HIDE DEF x
    <3>1. x.len \in Nat
      BY <2>7 DEF x
    <3>2. Filed(WriteSection(result, 0, Run(x)), t) /\ Put(t, s, 0, x)
      BY <2>5, <2>8, <3>1, FiledWrite
    <3> HIDE DEF t
    <3>3. result' = WriteSection(result, 0, Run(x))
      BY <1>1 DEF x
    <3> QED BY <3>2, <3>3 DEF x, Put
  <2>10. t[1] = rec0' /\ t[HeadNo + 1] = NewHead
    <3>1. 1 \in 1..Len(s) /\ HeadNo + 1 \in 1..Len(s) /\ HeadNo + 1 # 1
      BY <2>5, <2>6
    <3>2. t[1] = rec0' /\ t[HeadNo + 1] = s[HeadNo + 1]
      BY <2>9, <3>1
    <3>3. HeadNo + 1 \notin (OldHead.srcs + 1)..(OldHead.srcs + OldHead.nsrcs)
      BY <2>2, <2>6
    <3>4. s[HeadNo + 1] = Source[HeadNo + 1]
      BY <2>5, <3>1, <3>3
    <3> QED BY <2>6, <3>2, <3>4
  <2>11. ASSUME NEW i \in 0..(Len(t) - 1)
         PROVE  i \in HeadPlaces \/ t[i + 1] = Planned(Source[Place(i) + 1])
    <3>1. CASE i = 0
      BY <1>4, <3>1 DEF HeadPlaces
    <3>2. CASE i # 0
      <4>1. i + 1 \in 1..Len(Source) /\ i + 1 # 0 + 1
        BY <2>5, <2>6, <2>9, <3>2
      <4>2. t[i + 1] = s[i + 1]
        BY <2>5, <2>9, <4>1
      <4>3. s[i + 1] = IF i + 1 \in (OldHead.srcs + 1)..(OldHead.srcs + OldHead.nsrcs)
                         THEN Empty ELSE Source[i + 1]
        BY <2>5, <4>1
      <4>4. Source[i + 1] = SRCS <=> i + 1 \in (OldHead.srcs + 1)..(OldHead.srcs + OldHead.nsrcs)
        BY <1>4, <4>1 DEF SourceOK, SourcesOK, SourcesAt
      <4>5. s[i + 1] = Planned(Source[i + 1])
        BY <1>4, <4>3, <4>4 DEF Planned, SRCS
      <4>6. Place(i) = i
        BY <1>4 DEF Place
      <4> QED BY <4>2, <4>5, <4>6
    <3> QED BY <3>1, <3>2
  <2>12. ASSUME NEW i \in 0..(Len(t) - 1)
         PROVE  i \in HeadPlaces' \/ t[i + 1] = Planned(Source[Place(i) + 1])'
    <3>1. Planned(Source[Place(i) + 1])' = Planned(Source[Place(i) + 1])
      BY <1>7 DEF Planned
    <3> QED BY <1>7, <2>11, <3>1
  <2>13. Made(t)'
    BY <1>2, <1>4, <1>7, <2>5, <2>9, <2>10, <2>12 DEF Made
  <2>14. \E w : Made(w)'
    BY <2>13
  <2> QED BY <1>1, <2>14 DEF ResultOK
<1> QED BY <1>3, <1>8, <1>9, <1>10, <1>11, <1>12 DEF SplitInv

-----------------------------------------------------------------------------
(* produceKF8: the new part cut out, the images put in. *)
LEMMA CutPlaces ==
  ASSUME SourceOK, ~mode.combo
  PROVE  \E m : /\ Filed(InsertRange(data, OldHead.firstRes, OldHead.lastRes,
                                     DeleteRange(data, 0, HeadNo - 1), NewHead.firstRes), m)
                /\ Len(m) = Len(Source) - HeadNo + Images /\ Len(m) \in Nat \ {0}
                /\ \A i \in 0..(Len(m) - 1) : m[i + 1] = Source[Place(i) + 1]
<1> DEFINE n == Len(Source)
           k == HeadNo
           a == OldHead.firstRes
           z == OldHead.lastRes
           t == NewHead.firstRes
           m == Moved(Source, k, a, z, t)
           r == InsertRange(data, a, z, DeleteRange(data, 0, k - 1), t)
<1>1. /\ k \in Nat /\ a \in Nat /\ z \in Nat /\ t \in Nat
      /\ 1 <= a /\ a <= z /\ z < k /\ 1 <= t /\ k + t < n
  BY DEF SourceOK, NumbersOK
<1>2. n \in Nat /\ Images = z - a + 1 /\ Filed(data, Source)
  BY SourceReads DEF Images, SourceOK
<1>3. ASSUME NEW i
      PROVE  Place(i) = IF i < t THEN k + i ELSE IF i < t + Images THEN a + i - t ELSE k + i - Images
  BY DEF Place
<1> HIDE DEF n, k, a, z, t, m, r
<1>4. k \in 1..(n - 1) /\ a \in 0..(n - 1) /\ z \in a..(n - 1) /\ t \in 0..(n - k - 1)
  BY <1>1, <1>2
<1>5. /\ Filed(r, m)
      /\ Len(m) = (n - k) + (z - a + 1)
      /\ \A j \in 1..t : m[j] = Source[k + j]
      /\ \A j \in 1..(z - a + 1) : m[t + j] = Source[a + j]
      /\ \A j \in 1..(n - k - t) : m[t + (z - a + 1) + j] = Source[k + t + j]
  <2>1. /\ Filed(data, Source) /\ k \in 1..(Len(Source) - 1) /\ a \in 0..(Len(Source) - 1)
        /\ z \in a..(Len(Source) - 1) /\ t \in 0..(Len(Source) - k - 1)
    BY <1>2, <1>4 DEF n
  <2>2. Filed(r, m) /\ CutTogether(m, Source, k, a, z, t)
    BY <2>1, FiledCut DEF m, r
  <2> QED BY <2>2 DEF n, CutTogether
<1>6. Len(m) = n - k + Images /\ Len(m) \in Nat \ {0}
  BY <1>1, <1>2, <1>5
<1>7. ASSUME NEW i \in 0..(Len(m) - 1)
      PROVE  m[i + 1] = Source[Place(i) + 1]
  <2>1. CASE i < t
    <3>1. i + 1 \in 1..t /\ k + (i + 1) = k + i + 1
      BY <1>1, <2>1
    <3>2. m[i + 1] = Source[k + (i + 1)]
      BY <1>5, <3>1
    <3>3. Place(i) = k + i
      BY <1>3, <2>1
    <3> QED BY <3>1, <3>2, <3>3
  <2>2. CASE ~(i < t) /\ i < t + Images
    <3> DEFINE j == i - t + 1
    <3>1. j \in 1..(z - a + 1) /\ t + j = i + 1 /\ a + j = a + i - t + 1
      BY <1>1, <1>2, <2>2
    <3> HIDE DEF j
    <3>2. m[t + j] = Source[a + j]
      BY <1>5, <3>1
    <3>3. Place(i) = a + i - t
      BY <1>3, <2>2
    <3> QED BY <3>1, <3>2, <3>3
  <2>3. CASE ~(i < t) /\ ~(i < t + Images)
    <3> DEFINE j == i - t - Images + 1
    <3>1. j \in 1..(n - k - t) /\ t + (z - a + 1) + j = i + 1 /\ k + t + j = k + i - Images + 1
      BY <1>1, <1>2, <1>5, <2>3
    <3> HIDE DEF j
    <3>2. m[t + (z - a + 1) + j] = Source[k + t + j]
      BY <1>5, <3>1
    <3>3. Place(i) = k + i - Images
      BY <1>3, <2>3
    <3> QED BY <3>1, <3>2, <3>3
  <2> QED BY <2>1, <2>2, <2>3
<1> QED BY <1>5, <1>6, <1>7 DEF n, k, a, z, t, r

LEMMA CutInv ==
  ASSUME SplitInv, Cut
  PROVE  SplitInv'
<1>1. /\ pc = "cut" /\ pc' = "starts" /\ Input /\ rec0' = rec0 /\ asin' = asin
      /\ result' = InsertRange(data, rec0.firstRes, rec0.lastRes,
                               DeleteRange(data, 0, Kf8(rec0) - 1), head.firstRes)
      /\ head' = Content(result', 0)
  BY DEF Cut, Input, input, fields
<1>2. /\ pc \in Working /\ pc' \in Working /\ pc' \notin AfterStarts /\ pc' \notin Patched /\ pc' \notin Named
      /\ pc' \notin Keyed /\ pc' \notin Written
  BY <1>1 DEF Working, AfterStarts, Patched, Named, Keyed, Written
<1>3. StageOK'
  BY <1>1, <1>2, StageStep DEF SplitInv, StageOK
<1>4. SourceOK /\ ~mode.combo
  BY <1>1, <1>2 DEF SplitInv, StageOK
<1>5. rec0 = OldHead
  BY <1>1, <1>2, <1>4 DEF SplitInv, OldOK
<1>6. head.firstRes = NewHead.firstRes
  BY <1>2 DEF SplitInv, NewOK, HeadOK
<1>7. PICK m : /\ Filed(result', m)
               /\ Len(m) = Len(Source) - HeadNo + Images /\ Len(m) \in Nat \ {0}
               /\ \A i \in 0..(Len(m) - 1) : m[i + 1] = Source[Place(i) + 1]
  BY <1>1, <1>4, <1>5, <1>6, CutPlaces DEF HeadNo
<1>8. /\ OldHead' = OldHead /\ NewHead' = NewHead /\ HeadNo' = HeadNo /\ Images' = Images /\ mode' = mode
      /\ Source' = Source /\ ImagesAt' = ImagesAt /\ HeadPlaces' = HeadPlaces
      /\ \A i : Place(i)' = Place(i)
      /\ \A c : Planned(c)' = Planned(c)
  BY <1>1, InputStays DEF Input
<1>9. m[1] = NewHead
  <2>1. NewHead = Source[HeadNo + 1] /\ HeadNo \in Nat /\ 1 <= NewHead.firstRes /\ NewHead.firstRes \in Nat
    BY <1>4, SourceReads DEF SourceOK, NumbersOK
  <2>2. Place(0) = HeadNo
    BY <1>4, <2>1 DEF Place
  <2>3. m[0 + 1] = Source[Place(0) + 1]
    BY <1>7
  <2> QED BY <2>1, <2>2, <2>3
<1>10. head' = NewHead
  <2>1. NewHead.len # 0
    BY <1>4, SoundSizes DEF SourceOK, HeadsOK
  <2>2. Content(result', 0) = IF m[0 + 1].len = 0 THEN Empty ELSE m[0 + 1]
    <3> DEFINE R == result'
    <3>1. Filed(R, m) /\ 0 \in 0..(Len(m) - 1)
      BY <1>7
    <3> HIDE DEF R
    <3>2. Content(R, 0) = IF m[0 + 1].len = 0 THEN Empty ELSE m[0 + 1]
      BY <3>1, FiledReads
    <3> QED BY <3>2 DEF R
  <2> QED BY <1>1, <1>9, <2>1, <2>2
<1>11. OldOK'
  BY <1>1, <1>2, OldStep DEF SplitInv
<1>12. HeadOK(NewHead)
  BY <1>4, SourceHeads
<1>13. NewOK'
  <2>1. HeadOK(head)'
    BY <1>1, <1>10, <1>12, HeadPrimed
  <2> QED BY <1>1, <1>2, <1>8, <1>10, <2>1 DEF NewOK
<1>14. ResultOK'
  <2>1. ASSUME NEW i \in 0..(Len(m) - 1)
        PROVE  m[i + 1] = Planned(Source[Place(i) + 1])'
    <3>1. Planned(Source[Place(i) + 1])' = Planned(Source[Place(i) + 1])
      BY <1>8 DEF Planned
    <3>2. Planned(Source[Place(i) + 1]) = Source[Place(i) + 1]
      BY <1>4 DEF Planned
    <3> QED BY <1>7, <3>1, <3>2
  <2>2. Made(m)'
    BY <1>2, <1>4, <1>7, <1>8, <1>9, <2>1 DEF Made
  <2>3. \E w : Made(w)'
    BY <2>2
  <2> QED BY <1>1, <2>3 DEF ResultOK
<1>15. PagesOK'
  BY <1>1, <1>2 DEF PagesOK
<1>16. SoundHeads'
  BY <1>1, <1>10, <1>12 DEF SplitInv, SoundHeads, HeadOK
<1> QED BY <1>3, <1>11, <1>13, <1>14, <1>15, <1>16 DEF SplitInv

LEMMA PointersSet ==
  ASSUME NEW h, h = [f \in DOMAIN h |-> h[f]], NEW x, NEW y
  PROVE  LET g == [h EXCEPT !.flags = x, !.ptr = y]
         IN  /\ DOMAIN g = DOMAIN h /\ g = [f \in DOMAIN h |-> g[f]]
             /\ \A f \in DOMAIN h : f # "flags" /\ f # "ptr" => g[f] = h[f]
             /\ "ptr" \in DOMAIN h => g.ptr = y
OBVIOUS

(* The header that PatchHeader writes. *)
NewPatched(h, n) ==
    [WriteExth(h, ResourceCount, n, 4) EXCEPT
       !.flags = SharedImages(@),
       !.ptr = [p \in Pointers |-> IF @[p] >= 0 THEN @[p] + n ELSE @[p]]]

LEMMA NewPatchedSound ==
  ASSUME SourceOK, NEW h, HeadOK(h), h.ptr = NewHead.ptr
  PROVE  LET g == NewPatched(h, Images)
         IN  HeadOK(g) /\ g.ptr = MovedPointers /\ Others(g, h, ResourceCount)
<1> DEFINE w == WriteExth(h, ResourceCount, Images, 4)
           x == SharedImages(w.flags)
           y == [p \in Pointers |-> IF w.ptr[p] >= 0 THEN w.ptr[p] + Images ELSE w.ptr[p]]
           g == [w EXCEPT !.flags = x, !.ptr = y]
<1>1. Images \in Int
  BY SourceReads
<1>2. Sound(h) /\ DOMAIN h = DOMAIN NewHead
  BY DEF HeadOK
<1>3. Sound(w) /\ SameBut(w, h) /\ Others(w, h, ResourceCount)
  BY <1>1, <1>2, WriteSound DEF ResourceCount
<1>4. {"part", "version", "firstRes", "flags", "ptr"} \subseteq DOMAIN h
  BY <1>2 DEF SourceOK, HeadsOK
<1>5. g = NewPatched(h, Images)
  BY DEF NewPatched
<1> HIDE DEF w
<1>6. w = [f \in DOMAIN w |-> w[f]] /\ Counted \subseteq DOMAIN w
  BY <1>3 DEF Sound
<1>7. DOMAIN w = DOMAIN h /\ w.part = h.part /\ w.firstRes = h.firstRes /\ w.ptr = h.ptr
  <2>1. {"part", "firstRes", "ptr"} \subseteq DOMAIN h \ Counted
    BY <1>4 DEF Counted
  <2> QED BY <1>3, <2>1 DEF SameBut
<1>8. y = MovedPointers
  BY <1>7 DEF MovedPointers
<1> HIDE DEF x, y
<1>9. /\ DOMAIN g = DOMAIN w /\ g = [f \in DOMAIN w |-> g[f]]
      /\ \A f \in DOMAIN w : f # "flags" /\ f # "ptr" => g[f] = w[f]
      /\ "ptr" \in DOMAIN w => g.ptr = y
  BY <1>6, PointersSet
<1> HIDE DEF g
<1>10. \A f \in Counted : g[f] = w[f]
  BY <1>6, <1>9 DEF Counted
<1>11. Sound(g) /\ \A n : ReadExth(g, n) = ReadExth(w, n)
  BY <1>3, <1>9, <1>10, SideSound
<1>12. DOMAIN g = DOMAIN h /\ g.part = h.part /\ g.firstRes = h.firstRes /\ g.ptr = y
  BY <1>4, <1>7, <1>9
<1>13. Others(g, h, ResourceCount)
  BY <1>3, <1>11 DEF Others
<1>14. /\ ReadExth(g, KF8Offset) = ReadExth(h, KF8Offset)
       /\ ReadExth(g, CoverOffset) = ReadExth(h, CoverOffset)
       /\ ReadExth(g, StartReading) = ReadExth(h, StartReading)
  BY <1>13 DEF Others, ResourceCount, KF8Offset, CoverOffset, StartReading
<1>15. HeadOK(g)
  BY <1>11, <1>12, <1>14 DEF HeadOK, StartsKept
<1> QED BY <1>5, <1>8, <1>12, <1>13, <1>15

LEMMA PatchHeaderInv ==
  ASSUME SplitInv, PatchHeader
  PROVE  SplitInv'
<1>1. /\ pc = "header" /\ pc' = "cover" /\ Input /\ rec0' = rec0 /\ asin' = asin /\ result' = result
      /\ cdekey' = cdekey /\ cdetype' = cdetype /\ head' = NewPatched(head, Inserted)
  BY DEF PatchHeader, NewPatched, Input, input, fields
<1>2. /\ pc \in Working /\ pc' \in Working /\ pc \notin Patched /\ pc \notin Named /\ pc \notin Keyed
      /\ pc' \notin Named /\ pc' \notin Keyed /\ pc' \in Patched /\ pc \in AfterStarts /\ pc' \in AfterStarts
      /\ pc \notin Written /\ pc' \notin Written
  BY <1>1 DEF Working, AfterStarts, Patched, Named, Keyed, Written
<1>3. StageOK'
  BY <1>1, <1>2, StageStep DEF SplitInv, StageOK
<1>4. SourceOK /\ ~mode.combo
  BY <1>1, <1>2 DEF SplitInv, StageOK
<1>5. rec0 = OldHead
  BY <1>1, <1>2, <1>4 DEF SplitInv, OldOK
<1>6. Inserted = Images
  BY <1>5 DEF Inserted, Images
<1>7. HeadOK(head) /\ head.ptr = NewHead.ptr
  BY <1>1, <1>2 DEF SplitInv, NewOK
<1>8. HeadOK(head') /\ head'.ptr = MovedPointers /\ Others(head', head, ResourceCount)
  BY <1>1, <1>4, <1>6, <1>7, NewPatchedSound
<1>9. OldOK'
  BY <1>1, <1>2, OldStep DEF SplitInv
<1>10. NewHead' = NewHead /\ MovedPointers' = MovedPointers /\ mode' = mode
  BY <1>1, InputStays DEF Input
<1>11. NewOK'
  <2>1. HeadOK(head)'
    BY <1>1, <1>8, HeadPrimed
  <2>2. /\ ReadExth(head', StartReading) = ReadExth(head, StartReading)
        /\ ReadExth(head', ThumbOffset) = ReadExth(head, ThumbOffset)
        /\ ReadExth(head', ThumbnailURI) = ReadExth(head, ThumbnailURI)
        /\ ReadExth(head', CDEContentKey) = ReadExth(head, CDEContentKey)
        /\ ReadExth(head', CDEType) = ReadExth(head, CDEType)
    BY <1>8 DEF Others, ResourceCount, StartReading, ThumbOffset, ThumbnailURI, CDEContentKey, CDEType
  <2>3. /\ Len(ReadExth(head, StartReading)) <= 1
        /\ ReadExth(head, ThumbOffset) = ReadExth(NewHead, ThumbOffset)
        /\ ReadExth(head, ThumbnailURI) = ReadExth(NewHead, ThumbnailURI)
        /\ ReadExth(head, CDEContentKey) = ReadExth(NewHead, CDEContentKey)
        /\ ReadExth(head, CDEType) = ReadExth(NewHead, CDEType)
    BY <1>2 DEF SplitInv, NewOK
  <2> QED BY <1>2, <1>4, <1>8, <1>10, <2>1, <2>2, <2>3 DEF NewOK
<1>12. ResultOK'
  <2>1. PICK s : Made(s)
    BY <1>1, <1>2 DEF SplitInv, ResultOK
  <2>2. Made(s)'
    BY <1>1, <1>2, <2>1, MadeStays
  <2>3. \E w : Made(w)'
    BY <2>2
  <2> QED BY <1>1, <2>3 DEF ResultOK
<1>13. PagesOK'
  BY <1>1, <1>2 DEF PagesOK
<1>14. SoundHeads'
  BY <1>1, <1>8 DEF SplitInv, SoundHeads, HeadOK
<1> QED BY <1>3, <1>9, <1>11, <1>12, <1>13, <1>14 DEF SplitInv

-----------------------------------------------------------------------------
(* Where reading starts. *)
LEMMA DropStartInv ==
  ASSUME SplitInv, DropStart
  PROVE  SplitInv'
<1>1. /\ pc = "starts" /\ pc' = "starts" /\ Input /\ rec0' = rec0 /\ asin' = asin /\ result' = result
      /\ cdekey' = cdekey /\ cdetype' = cdetype /\ head' = DelExth(head, StartReading)
      /\ Len(ReadExth(head, StartReading)) > 1
  BY DEF DropStart, Input, input, fields
<1>2. /\ pc \in Working /\ pc \notin Patched /\ pc \notin Named /\ pc \notin Keyed
      /\ pc \notin AfterStarts /\ pc \notin Written
  BY <1>1 DEF Working, AfterStarts, Patched, Named, Keyed, Written
<1>3. StageOK'
  BY <1>1, <1>2, StageStep DEF SplitInv, StageOK
<1>4. SourceOK
  BY <1>1, <1>2 DEF SplitInv, StageOK
<1>5. HeadOK(head) /\ Sound(head)
  BY <1>1, <1>2 DEF SplitInv, NewOK, HeadOK
<1>6. /\ Sound(head') /\ SameBut(head', head) /\ Others(head', head, StartReading)
      /\ ReadExth(head', StartReading) = Rest(ReadExth(head, StartReading))
  BY <1>1, <1>5, DelSound
<1>7. HeadOK(head') /\ head'.ptr = head.ptr
  <2>1. {"part", "firstRes", "ptr"} \subseteq DOMAIN head \ Counted
    BY <1>4, <1>5 DEF SourceOK, HeadsOK, HeadOK, Counted
  <2>2. /\ DOMAIN head' = DOMAIN head /\ head'.part = head.part /\ head'.firstRes = head.firstRes
        /\ head'.ptr = head.ptr
    BY <1>6, <2>1 DEF SameBut
  <2>3. /\ ReadExth(head', KF8Offset) = ReadExth(head, KF8Offset)
        /\ ReadExth(head', CoverOffset) = ReadExth(head, CoverOffset)
    BY <1>6 DEF Others, KF8Offset, CoverOffset, StartReading
  <2>4. /\ Rest(ReadExth(head, StartReading)) # <<>>
        /\ Last(Rest(ReadExth(head, StartReading))) = Last(ReadExth(head, StartReading))
    <3>1. ReadExth(head, StartReading) \in Seq(Recs)
      BY <1>5, ReadType
    <3> QED BY <1>1, <3>1, RestEnds
  <2>5. StartsKept(head')
    BY <1>5, <1>6, <2>4 DEF HeadOK, StartsKept
  <2> QED BY <1>5, <1>6, <2>2, <2>3, <2>5 DEF HeadOK
<1>8. OldOK'
  BY <1>1, <1>2, OldStep DEF SplitInv
<1>9. NewHead' = NewHead /\ MovedPointers' = MovedPointers /\ mode' = mode
  BY <1>1, InputStays DEF Input
<1>10. NewOK'
  <2>1. HeadOK(head)'
    BY <1>1, <1>7, HeadPrimed
  <2>2. /\ ReadExth(head', ThumbOffset) = ReadExth(head, ThumbOffset)
        /\ ReadExth(head', ThumbnailURI) = ReadExth(head, ThumbnailURI)
        /\ ReadExth(head', CDEContentKey) = ReadExth(head, CDEContentKey)
        /\ ReadExth(head', CDEType) = ReadExth(head, CDEType)
    BY <1>6 DEF Others, StartReading, ThumbOffset, ThumbnailURI, CDEContentKey, CDEType
  <2>3. /\ head.ptr = NewHead.ptr
        /\ ReadExth(head, ThumbOffset) = ReadExth(NewHead, ThumbOffset)
        /\ ReadExth(head, ThumbnailURI) = ReadExth(NewHead, ThumbnailURI)
        /\ ReadExth(head, CDEContentKey) = ReadExth(NewHead, CDEContentKey)
        /\ ReadExth(head, CDEType) = ReadExth(NewHead, CDEType)
    BY <1>2 DEF SplitInv, NewOK
  <2> QED BY <1>1, <1>2, <1>7, <1>9, <2>1, <2>2, <2>3 DEF NewOK
<1>11. ResultOK'
  <2>1. PICK s : Made(s)
    BY <1>1, <1>2 DEF SplitInv, ResultOK
  <2>2. Made(s)'
    BY <1>1, <1>2, <2>1, MadeStays
  <2>3. \E w : Made(w)'
    BY <2>2
  <2> QED BY <1>1, <2>3 DEF ResultOK
<1>12. PagesOK'
  BY <1>1, <1>2 DEF PagesOK
<1>13. SoundHeads'
  BY <1>1, <1>6 DEF SplitInv, SoundHeads
<1> QED BY <1>3, <1>8, <1>10, <1>11, <1>12, <1>13 DEF SplitInv

LEMMA StartsDoneInv ==
  ASSUME SplitInv, StartsDone
  PROVE  SplitInv'
<1>1. /\ pc = "starts" /\ Input /\ rec0' = rec0 /\ asin' = asin /\ result' = result
      /\ cdekey' = cdekey /\ cdetype' = cdetype /\ head' = head
      /\ Len(ReadExth(head, StartReading)) <= 1
      /\ pc' = IF mode.combo THEN "cover" ELSE "header"
  BY DEF StartsDone, Input, input, fields
<1>2. /\ pc \in Working /\ pc \notin Patched /\ pc \notin Named /\ pc \notin Keyed
      /\ pc \notin Written /\ pc' \in Working /\ pc' \notin Named /\ pc' \notin Keyed /\ pc' \in AfterStarts
      /\ pc' \notin Written /\ pc' \notin {"sources", "cut", "read"} /\ (mode.combo \/ pc' \notin Patched)
      /\ (pc' = "header" => ~mode.combo)
  BY <1>1 DEF Working, AfterStarts, Patched, Named, Keyed, Written
<1>3. StageOK'
  BY <1>1, <1>2, StageStep DEF SplitInv
<1>4. OldOK'
  BY <1>1, <1>2, OldStep DEF SplitInv
<1>5. NewOK'
  BY <1>1, <1>2, NewStep DEF SplitInv
<1>6. ResultOK'
  <2>1. PICK s : Made(s)
    BY <1>1, <1>2 DEF SplitInv, ResultOK
  <2>2. Made(s)'
    BY <1>1, <1>2, <2>1, MadeStays
  <2>3. \E w : Made(w)'
    BY <2>2
  <2> QED BY <1>2, <2>3 DEF ResultOK
<1>7. PagesOK'
  BY <1>2 DEF PagesOK
<1>8. SoundHeads'
  BY <1>1 DEF SplitInv, SoundHeads
<1> QED BY <1>3, <1>4, <1>5, <1>6, <1>7, <1>8 DEF SplitInv

-----------------------------------------------------------------------------
(* The thumbnail. *)
LEMMA NoCoverInv ==
  ASSUME SplitInv, NoCover
  PROVE  SplitInv'
<1>1. /\ pc = "cover" /\ pc' = "keys" /\ Input /\ rec0' = rec0 /\ asin' = asin /\ result' = result
      /\ head' = head /\ Cover0 = Nothing
  BY DEF NoCover, Input, input, fields
<1>2. /\ pc \in Working /\ pc' \in Working /\ pc \in Patched /\ pc' \in Patched /\ pc \notin Named
      /\ pc' \in Named /\ pc \notin Keyed /\ pc' \notin Keyed /\ pc \in AfterStarts /\ pc' \in AfterStarts
      /\ pc \notin Written /\ pc' \notin Written
  BY <1>1 DEF Working, AfterStarts, Patched, Named, Keyed, Written
<1>3. StageOK'
  BY <1>1, <1>2, StageStep DEF SplitInv
<1>4. SourceOK
  BY <1>1, <1>2 DEF SplitInv, StageOK
<1>5. HeadOK(head)
  BY <1>2 DEF SplitInv, NewOK
<1>6. ThumbIsNamed(head)
  <2>1. ImageNumber(ReadExth(NewHead, CoverOffset))
    BY <1>4, SourceHeads
  <2>2. ReadExth(head, CoverOffset) = ReadExth(NewHead, CoverOffset)
    BY <1>5 DEF HeadOK
  <2>3. ReadExth(head, CoverOffset) = <<>>
    BY <1>1, <2>1, <2>2 DEF ImageNumber, Cover0
  <2>4. ReadExth(head, ThumbOffset) = ReadExth(NewHead, ThumbOffset)
    BY <1>2 DEF SplitInv, NewOK
  <2>5. ImageNumber(ReadExth(head, ThumbOffset))
    BY <1>4, <2>4, SourceHeads
  <2> QED BY <2>3, <2>5 DEF ThumbIsNamed
<1>7. OldOK'
  BY <1>1, <1>2, OldStep DEF SplitInv
<1>8. NewHead' = NewHead /\ MovedPointers' = MovedPointers /\ mode' = mode
  BY <1>1, InputStays DEF Input
<1>9. NewOK'
  <2>1. HeadOK(head)' /\ ThumbIsNamed(head)'
    BY <1>1, <1>5, <1>6, HeadPrimed
  <2>2. /\ head.ptr = IF ~mode.combo THEN MovedPointers ELSE NewHead.ptr
        /\ Len(ReadExth(head, StartReading)) <= 1
        /\ ReadExth(head, CDEContentKey) = ReadExth(NewHead, CDEContentKey)
        /\ ReadExth(head, CDEType) = ReadExth(NewHead, CDEType)
    BY <1>2 DEF SplitInv, NewOK
  <2> QED BY <1>1, <1>2, <1>8, <2>1, <2>2 DEF NewOK
<1>10. ResultOK'
  <2>1. PICK s : Made(s)
    BY <1>1, <1>2 DEF SplitInv, ResultOK
  <2>2. Made(s)'
    BY <1>1, <1>2, <2>1, MadeStays
  <2>3. \E w : Made(w)'
    BY <2>2
  <2> QED BY <1>1, <2>3 DEF ResultOK
<1>11. PagesOK'
  BY <1>1, <1>2 DEF PagesOK
<1>12. SoundHeads'
  BY <1>1 DEF SplitInv, SoundHeads
<1> QED BY <1>3, <1>7, <1>9, <1>10, <1>11, <1>12 DEF SplitInv

(* The images lie together, apart from the headers. *)
ResultLength == IF mode.combo THEN Len(Source) ELSE Len(Source) - HeadNo + Images

LEMMA ImagePlace ==
  ASSUME SourceOK, NEW x \in 0..(Images - 1)
  PROVE  /\ ImagesAt + x \in 1..(ResultLength - 1) /\ ImagesAt + x \notin HeadPlaces
         /\ Place(ImagesAt + x) = OldHead.firstRes + x /\ OldHead.firstRes + x \in OldHead.firstRes..OldHead.lastRes
<1> DEFINE k == HeadNo
           a == OldHead.firstRes
           z == OldHead.lastRes
           t == NewHead.firstRes
           n == Len(Source)
<1>1. /\ k \in Nat /\ a \in Nat /\ z \in Nat /\ t \in Nat
      /\ 1 <= a /\ a <= z /\ z < k /\ 1 <= t /\ k + t < n
  BY DEF SourceOK, NumbersOK
<1>2. n \in Nat /\ Images = z - a + 1
  BY SourceReads DEF Images
<1>3. CASE mode.combo
  <2>1. ImagesAt = a /\ ResultLength = n /\ HeadPlaces = {0, k} /\ Place(ImagesAt + x) = ImagesAt + x
    BY <1>3 DEF ImagesAt, ResultLength, HeadPlaces, Place
  <2> HIDE DEF k, a, z, t, n
  <2>2. a + x \in 1..(n - 1) /\ a + x \notin {0, k} /\ a + x \in a..z
    BY <1>1, <1>2
  <2> QED BY <2>1, <2>2 DEF a, z
<1>4. CASE ~mode.combo
  <2>1. ImagesAt = t /\ ResultLength = n - k + Images /\ HeadPlaces = {0}
        /\ Place(t + x) = IF t + x < t THEN k + (t + x)
                          ELSE IF t + x < t + Images THEN a + (t + x) - t ELSE k + (t + x) - Images
    BY <1>4 DEF ImagesAt, ResultLength, HeadPlaces, Place
  <2> HIDE DEF k, a, z, t, n
  <2>2. /\ ~(t + x < t) /\ t + x < t + Images /\ a + (t + x) - t = a + x
        /\ t + x \in 1..(n - k + Images - 1) /\ t + x # 0 /\ a + x \in a..z
    BY <1>1, <1>2
  <2>3. Place(t + x) = a + x
    BY <2>1, <2>2
  <2>4. /\ ImagesAt + x \in 1..(ResultLength - 1) /\ ImagesAt + x \notin HeadPlaces
        /\ Place(ImagesAt + x) = a + x /\ a + x \in a..z
    <3>0. ImagesAt = t /\ ResultLength = n - k + Images
      BY <2>1
    <3> DEFINE p == t + x
               r == n - k + Images
    <3>1. p \in 1..(r - 1) /\ p \notin HeadPlaces /\ Place(p) = a + x
      BY <1>1, <1>2, <2>1, <2>2, <2>3
    <3>2. ImagesAt + x = p
      BY <3>0
    <3>3. ResultLength = r
      BY <3>0
    <3> HIDE DEF p, r
    <3> QED BY <2>2, <3>1, <3>2, <3>3
  <2> QED BY <2>4 DEF a, z
<1> QED BY <1>3, <1>4

(* The header after MakeThumbnail. *)
NamedThumbnail(g, h, i) ==
    /\ HeadOK(g) /\ g.ptr = h.ptr
    /\ \A n : n \notin {ThumbOffset, ThumbnailURI} => ReadExth(g, n) = ReadExth(h, n)
    /\ ReadExth(g, ThumbOffset) # <<>> /\ First(ReadExth(g, ThumbOffset)) = i /\ i \in 0..(Images - 1)
    /\ \E x : ReadExth(g, ThumbnailURI) = <<x>> /\ x.val = i

LEMMA ThumbnailIsNamed ==
  ASSUME NEW h, HeadOK(h), HeadsOK, NEW c \in 0..(Images - 1), Images \in Nat,
         ImageNumber(ReadExth(h, ThumbOffset)), Len(ReadExth(h, ThumbnailURI)) <= 1
  PROVE  LET t == First(ReadExth(h, ThumbOffset))
             f == IF t # Nothing THEN h ELSE AddExth(h, ThumbOffset, c, 4)
             i == IF t # Nothing THEN t ELSE c
         IN  NamedThumbnail(AddExth(DelExth(f, ThumbnailURI), ThumbnailURI, i, 20), h, i)
<1> DEFINE t == First(ReadExth(h, ThumbOffset))
           a == AddExth(h, ThumbOffset, c, 4)
           f == IF t # Nothing THEN h ELSE a
           i == IF t # Nothing THEN t ELSE c
           d == DelExth(f, ThumbnailURI)
           g == AddExth(d, ThumbnailURI, i, 20)
<1>1. ThumbOffset \in Nat \ Fixed /\ ThumbnailURI \in Nat \ Fixed /\ ThumbOffset # ThumbnailURI /\ c \in Int
  BY DEF ThumbOffset, ThumbnailURI, Fixed, KF8Offset, CoverOffset, StartReading
<1>2. Added(h, a, ThumbOffset, c)
  BY <1>1, HeadAdd
<1> HIDE DEF a
<1>3. /\ HeadOK(f) /\ f.ptr = h.ptr /\ Others(f, h, ThumbOffset)
      /\ ReadExth(f, ThumbOffset) # <<>> /\ First(ReadExth(f, ThumbOffset)) = i /\ i \in 0..(Images - 1)
  <2>1. CASE t # Nothing
    BY <2>1 DEF ImageNumber, Others
  <2>2. CASE t = Nothing
    BY <1>2, <2>2 DEF Added
  <2> QED BY <2>1, <2>2
<1> HIDE DEF f, i
<1>4. ReadExth(f, ThumbnailURI) = ReadExth(h, ThumbnailURI)
  BY <1>1, <1>3 DEF Others
<1>5. /\ HeadOK(d) /\ d.ptr = f.ptr /\ Others(d, f, ThumbnailURI)
      /\ ReadExth(d, ThumbnailURI) = Rest(ReadExth(f, ThumbnailURI))
  BY <1>1, <1>3, HeadDel
<1> HIDE DEF d
<1>6. ReadExth(d, ThumbnailURI) = <<>>
  <2>1. ReadExth(h, ThumbnailURI) \in Seq(Recs)
    BY ReadType DEF HeadOK
  <2>2. Rest(ReadExth(h, ThumbnailURI)) = <<>>
    BY <2>1, RestEnds
  <2> QED BY <1>4, <1>5, <2>2
<1>7. Added(d, g, ThumbnailURI, i)
  BY <1>1, <1>3, <1>5, HeadAdd
<1> HIDE DEF g
<1>8. HeadOK(g) /\ g.ptr = h.ptr
  BY <1>3, <1>5, <1>7 DEF Added
<1>9. \E x : ReadExth(g, ThumbnailURI) = <<x>> /\ x.val = i
  BY <1>6, <1>7 DEF Added
<1>10. ASSUME NEW n, n # ThumbnailURI
       PROVE  ReadExth(g, n) = ReadExth(f, n)
  BY <1>5, <1>7, <1>10 DEF Added, Others
<1>11. \A n : n \notin {ThumbOffset, ThumbnailURI} => ReadExth(g, n) = ReadExth(h, n)
  BY <1>3, <1>10 DEF Others
<1>12. ReadExth(g, ThumbOffset) = ReadExth(f, ThumbOffset)
  BY <1>1, <1>10
<1>13. NamedThumbnail(g, h, i)
  BY <1>3, <1>8, <1>9, <1>11, <1>12 DEF NamedThumbnail
<1> QED BY <1>13 DEF g, d, f, a, i

(* The file in the making, when an image of it is written. *)
LEMMA MadeThumbnail ==
  ASSUME SourceOK, NEW s, Made(s), Input, NEW x, "thumb" \in DOMAIN x, x.len = 30,
         NEW i \in 0..(Images - 1), result' = WriteSection(result, ImagesAt + i, Run(x)), rec0' = rec0,
         pc \notin Named, pc' \in Named \ Written,
         ReadExth(head, ThumbOffset)' # <<>>, First(ReadExth(head, ThumbOffset)') = i
  PROVE  \E t : Made(t)'
<1> DEFINE p == ImagesAt + i
<1>1. p \in 1..(ResultLength - 1) /\ p \notin HeadPlaces
  BY ImagePlace
<1>2. /\ HeadNo' = HeadNo /\ Images' = Images /\ NewHead' = NewHead /\ mode' = mode
      /\ Source' = Source /\ ImagesAt' = ImagesAt /\ HeadPlaces' = HeadPlaces
      /\ \A j : Place(j)' = Place(j)
      /\ \A c : Planned(c)' = Planned(c)
  BY InputStays DEF Input
<1>3. Filed(result, s) /\ Len(s) = ResultLength /\ pc \notin Written
  BY DEF Made, ResultLength, Named, Written
<1>4. Len(s) \in Nat
  BY <1>3, FiledReads
<1>5. PICK t : /\ Filed(result', t) /\ Len(t) = Len(s)
               /\ \A j \in 1..Len(s) : t[j] = IF j = p + 1 THEN x ELSE s[j]
  <2> DEFINE t == Changed(s, p, x)
  <2> HIDE DEF p
  <2>1. p \in 0..(Len(s) - 1) /\ x.len \in Nat
    BY <1>1, <1>3, <1>4
  <2>2. Filed(WriteSection(result, p, Run(x)), t) /\ Put(t, s, p, x)
    BY <1>3, <2>1, FiledWrite
  <2> HIDE DEF t
  <2> QED BY <2>2 DEF p, Put
<1>6. \A j \in HeadPlaces : j \in 0..(Len(s) - 1) => t[j + 1] = s[j + 1]
  <2> SUFFICES ASSUME NEW j \in HeadPlaces, j \in 0..(Len(s) - 1)
               PROVE  t[j + 1] = s[j + 1]
    OBVIOUS
  <2> HIDE DEF p
  <2>1. j + 1 \in 1..Len(s) /\ j + 1 # p + 1
    BY <1>1, <1>3, <1>4
  <2> QED BY <1>5, <2>1
<1>7. 0 \in 0..(Len(s) - 1) /\ (mode.combo => HeadNo \in 0..(Len(s) - 1))
  <2>1. HeadNo \in Nat /\ HeadNo + 1 < Len(Source) /\ Len(Source) \in Nat
    BY SourceReads DEF SourceOK, NumbersOK
  <2> HIDE DEF p
  <2> QED BY <1>1, <1>3, <1>4, <2>1 DEF ResultLength
<1>8. mode.combo => t[0 + 1] = rec0 /\ t[HeadNo + 1] = NewHead
  <2> SUFFICES ASSUME mode.combo
               PROVE  t[0 + 1] = rec0 /\ t[HeadNo + 1] = NewHead
    OBVIOUS
  <2>1. 0 \in HeadPlaces /\ HeadNo \in HeadPlaces
    BY DEF HeadPlaces
  <2>2. s[0 + 1] = rec0 /\ s[HeadNo + 1] = NewHead
    BY <1>3 DEF Made
  <2> QED BY <1>6, <1>7, <2>1, <2>2
<1>9. ~mode.combo => t[0 + 1] = NewHead
  <2> SUFFICES ASSUME ~mode.combo
               PROVE  t[0 + 1] = NewHead
    OBVIOUS
  <2>1. 0 \in HeadPlaces
    BY DEF HeadPlaces
  <2>2. s[0 + 1] = NewHead
    BY <1>3 DEF Made
  <2> QED BY <1>6, <1>7, <2>1, <2>2
<1>10. ASSUME NEW j \in 0..(Len(t) - 1)
       PROVE  \/ j \in HeadPlaces'
              \/ t[j + 1] = Planned(Source[Place(j) + 1])'
              \/ /\ pc' \in Named /\ ReadExth(head, ThumbOffset)' # <<>>
                 /\ j = ImagesAt' + First(ReadExth(head, ThumbOffset)')
                 /\ "thumb" \in DOMAIN t[j + 1] /\ t[j + 1].len = 30
  <2>1. t[j + 1] = IF j + 1 = p + 1 THEN x ELSE s[j + 1]
    <3> HIDE DEF p
    <3>1. j + 1 \in 1..Len(s)
      BY <1>4, <1>5
    <3> QED BY <1>5, <3>1
  <2>2. CASE j = p
    BY <1>2, <2>1, <2>2
  <2>3. CASE j # p
    <3>1. t[j + 1] = s[j + 1]
      <4> HIDE DEF p
      <4>1. j + 1 # p + 1
        BY <1>1, <1>3, <1>4, <1>5, <2>3
      <4> QED BY <2>1, <4>1
    <3>2. j \in HeadPlaces \/ s[j + 1] = Planned(Source[Place(j) + 1])
      <4>1. j \in 0..(Len(s) - 1)
        BY <1>5
      <4> QED BY <4>1 DEF Made
    <3>3. Planned(Source[Place(j) + 1])' = Planned(Source[Place(j) + 1])
      BY <1>2 DEF Planned
    <3> QED BY <1>2, <3>1, <3>2, <3>3
  <2> QED BY <2>2, <2>3
<1>11. pc' \notin Written
  OBVIOUS
<1>12. Made(t)'
  <2>1. Filed(result, t)'
    BY <1>5
  <2>2. (Len(t) = IF mode.combo THEN Len(Source) ELSE Len(Source) - HeadNo + Images)'
    BY <1>2, <1>3, <1>5 DEF ResultLength
  <2>3. (mode.combo => t[1] = rec0)'
    BY <1>2, <1>8
  <2>4. (t[IF mode.combo THEN HeadNo + 1 ELSE 1] = IF pc \in Written THEN head ELSE NewHead)'
    BY <1>2, <1>8, <1>9, <1>11
  <2> QED BY <1>10, <2>1, <2>2, <2>3, <2>4 DEF Made
<1> QED BY <1>12

LEMMA MakeThumbnailInv ==
  ASSUME SplitInv, NEW encodes \in BOOLEAN, MakeThumbnail(encodes)
  PROVE  SplitInv'
<1> DEFINE thumb == [thumb |-> CoverImage, len |-> 30]
           f == IF Thumb0 # Nothing THEN head ELSE AddExth(head, ThumbOffset, Cover0, 4)
           i == IF Thumb0 # Nothing THEN Thumb0 ELSE Cover0
<1>1. /\ pc = "cover" /\ pc' = "keys" /\ Input /\ rec0' = rec0 /\ asin' = asin /\ Cover0 # Nothing
      /\ result' = IF Thumb0 # Nothing /\ Decodes(CoverImage) /\ encodes
                     THEN WriteSection(result, FirstImage + Thumb0, Run(thumb)) ELSE result
      /\ head' = AddExth(DelExth(f, ThumbnailURI), ThumbnailURI, i, 20)
  BY DEF MakeThumbnail, Input, input, fields
<1>2. /\ pc \in Working /\ pc' \in Working /\ pc \in Patched /\ pc' \in Patched /\ pc \notin Named
      /\ pc' \in Named /\ pc \notin Keyed /\ pc' \notin Keyed /\ pc \in AfterStarts /\ pc' \in AfterStarts
      /\ pc \notin Written /\ pc' \notin Written
  BY <1>1 DEF Working, AfterStarts, Patched, Named, Keyed, Written
<1>3. StageOK'
  BY <1>1, <1>2, StageStep DEF SplitInv
<1>4. SourceOK
  BY <1>1, <1>2 DEF SplitInv, StageOK
<1>5. /\ HeadOK(head)
      /\ head.ptr = IF ~mode.combo THEN MovedPointers ELSE NewHead.ptr
      /\ Len(ReadExth(head, StartReading)) <= 1
      /\ ReadExth(head, ThumbOffset) = ReadExth(NewHead, ThumbOffset)
      /\ ReadExth(head, ThumbnailURI) = ReadExth(NewHead, ThumbnailURI)
      /\ ReadExth(head, CDEContentKey) = ReadExth(NewHead, CDEContentKey)
      /\ ReadExth(head, CDEType) = ReadExth(NewHead, CDEType)
  BY <1>2 DEF SplitInv, NewOK
<1>6. ImageNumber(ReadExth(head, ThumbOffset)) /\ Len(ReadExth(head, ThumbnailURI)) <= 1
  BY <1>4, <1>5, SourceHeads
<1>7. Cover0 \in 0..(Images - 1)
  <2>1. ReadExth(head, CoverOffset) = ReadExth(NewHead, CoverOffset)
    BY <1>5 DEF HeadOK
  <2>2. ImageNumber(ReadExth(head, CoverOffset))
    BY <1>4, <2>1, SourceHeads
  <2> QED BY <1>1, <2>2 DEF ImageNumber, Cover0
<1>8. HeadsOK /\ Images \in Nat
  BY <1>4, SourceReads DEF SourceOK
<1>9. NamedThumbnail(head', head, i)
  <2> DEFINE c == Cover0
  <2> HIDE DEF c
  <2>1. LET t == First(ReadExth(head, ThumbOffset))
             g == IF t # Nothing THEN head ELSE AddExth(head, ThumbOffset, c, 4)
             k == IF t # Nothing THEN t ELSE c
         IN  NamedThumbnail(AddExth(DelExth(g, ThumbnailURI), ThumbnailURI, k, 20), head, k)
    BY <1>5, <1>6, <1>7, <1>8, ThumbnailIsNamed DEF c
  <2> QED BY <1>1, <2>1 DEF c, Thumb0
<1> HIDE DEF f, i, thumb
<1>10. /\ HeadOK(head') /\ head'.ptr = head.ptr
       /\ ReadExth(head', StartReading) = ReadExth(head, StartReading)
       /\ ReadExth(head', CDEContentKey) = ReadExth(head, CDEContentKey)
       /\ ReadExth(head', CDEType) = ReadExth(head, CDEType)
       /\ ReadExth(head', ThumbOffset) # <<>> /\ First(ReadExth(head', ThumbOffset)) = i /\ i \in 0..(Images - 1)
  BY <1>9 DEF NamedThumbnail, StartReading, CDEContentKey, CDEType, ThumbOffset, ThumbnailURI
<1>11. ThumbIsNamed(head')
  <2>1. i # Nothing
    BY <1>8, <1>10 DEF Nothing
  <2> QED BY <1>9, <1>10, <2>1 DEF NamedThumbnail, ThumbIsNamed, ImageNumber
<1>12. OldOK'
  BY <1>1, <1>2, OldStep DEF SplitInv
<1>13. NewHead' = NewHead /\ MovedPointers' = MovedPointers /\ mode' = mode
  BY <1>1, InputStays DEF Input
<1>14. NewOK'
  <2>1. HeadOK(head)' /\ ThumbIsNamed(head)'
    BY <1>1, <1>10, <1>11, HeadPrimed
  <2> QED BY <1>2, <1>5, <1>10, <1>13, <2>1 DEF NewOK
<1>15. ResultOK'
  <2>1. PICK s : Made(s)
    BY <1>1, <1>2 DEF SplitInv, ResultOK
  <2>2. CASE Thumb0 # Nothing /\ Decodes(CoverImage) /\ encodes
    <3>1. i = Thumb0
      BY <2>2 DEF i
    <3>2. FirstImage = ImagesAt
      BY <1>2, <1>5 DEF FirstImage, ImagesAt, SplitInv, OldOK, HeadOK
    <3>3. result' = WriteSection(result, ImagesAt + i, Run(thumb))
      BY <1>1, <2>2, <3>1, <3>2
    <3>4. "thumb" \in DOMAIN thumb /\ thumb.len = 30
      BY DEF thumb
    <3>5. \E t : Made(t)'
      BY <1>1, <1>2, <1>4, <1>10, <2>1, <3>3, <3>4, MadeThumbnail
    <3> QED BY <1>1, <3>5 DEF ResultOK
  <2>3. CASE ~(Thumb0 # Nothing /\ Decodes(CoverImage) /\ encodes)
    <3>1. result' = result
      BY <1>1, <2>3
    <3>2. Made(s)'
      BY <1>1, <1>2, <2>1, <3>1, MadeStays
    <3>3. \E w : Made(w)'
      BY <3>2
    <3> QED BY <1>1, <3>3 DEF ResultOK
  <2> QED BY <2>2, <2>3
<1>16. PagesOK'
  BY <1>1, <1>2 DEF PagesOK
<1>17. SoundHeads'
  BY <1>1, <1>10 DEF SplitInv, SoundHeads, HeadOK
<1> QED BY <1>3, <1>12, <1>14, <1>15, <1>16, <1>17 DEF SplitInv

-----------------------------------------------------------------------------
(* The keys. *)
KeyRecords == {CDEType, CDEContentKey, ASIN}

Keeps(g, h) ==
    /\ HeadOK(g) /\ g.ptr = h.ptr
    /\ \A n : n \notin KeyRecords => ReadExth(g, n) = ReadExth(h, n)

LEMMA KeysStep ==
  ASSUME SplitInv, pc = "keys", pc' = "write", Input, result' = result, rec0' = rec0, asin' = asin,
         Keeps(head', head), KeysKept(head)'
  PROVE  SplitInv'
<1>1. /\ pc \in Working /\ pc' \in Working /\ pc \in Patched /\ pc' \in Patched /\ pc \in Named
      /\ pc' \in Named /\ pc \notin Keyed /\ pc' \in Keyed /\ pc \in AfterStarts /\ pc' \in AfterStarts
      /\ pc \notin Written /\ pc' \notin Written
  BY DEF Working, AfterStarts, Patched, Named, Keyed, Written
<1>2. StageOK'
  BY <1>1, StageStep DEF SplitInv
<1>3. /\ HeadOK(head') /\ head'.ptr = head.ptr
      /\ ReadExth(head', StartReading) = ReadExth(head, StartReading)
      /\ ReadExth(head', CoverOffset) = ReadExth(head, CoverOffset)
      /\ ReadExth(head', ThumbOffset) = ReadExth(head, ThumbOffset)
      /\ ReadExth(head', ThumbnailURI) = ReadExth(head, ThumbnailURI)
  BY DEF Keeps, KeyRecords, StartReading, CoverOffset, ThumbOffset, ThumbnailURI, CDEType, CDEContentKey, ASIN
<1>4. /\ ThumbIsNamed(head)
      /\ head.ptr = IF ~mode.combo THEN MovedPointers ELSE NewHead.ptr
      /\ Len(ReadExth(head, StartReading)) <= 1
  BY <1>1 DEF SplitInv, NewOK
<1>5. ThumbIsNamed(head')
  BY <1>3, <1>4 DEF ThumbIsNamed
<1>6. OldOK'
  BY <1>1, OldStep DEF SplitInv
<1>7. NewHead' = NewHead /\ MovedPointers' = MovedPointers /\ mode' = mode
  BY InputStays DEF Input
<1>8. NewOK'
  <2>1. HeadOK(head)' /\ ThumbIsNamed(head)'
    BY <1>3, <1>5, HeadPrimed
  <2> QED BY <1>1, <1>3, <1>4, <1>7, <2>1 DEF NewOK
<1>9. ResultOK'
  <2>1. PICK s : Made(s)
    BY <1>1 DEF SplitInv, ResultOK
  <2>2. ReadExth(head, ThumbOffset)' = ReadExth(head, ThumbOffset)
    BY <1>3
  <2>3. Made(s)'
    BY <1>1, <2>1, <2>2, MadeStays
  <2>4. \E w : Made(w)'
    BY <2>3
  <2> QED BY <2>4 DEF ResultOK
<1>10. PagesOK'
  BY <1>1 DEF PagesOK
<1>11. SoundHeads'
  BY <1>3 DEF SplitInv, SoundHeads, HeadOK
<1> QED BY <1>2, <1>6, <1>8, <1>9, <1>10, <1>11 DEF SplitInv

LEMMA KeyAdded ==
  ASSUME NEW h, HeadsOK, NEW g, HeadOK(g), Keeps(g, h), NEW num \in KeyRecords, NEW val \in Int, NEW len \in Nat
  PROVE  /\ Keeps(AddExth(g, num, val, len), h) /\ Others(AddExth(g, num, val, len), g, num)
         /\ ReadExth(AddExth(g, num, val, len), num) # <<>>
         /\ First(ReadExth(AddExth(g, num, val, len), num)) = val
<1> DEFINE a == AddExth(g, num, val, len)
<1>1. num \in Nat \ Fixed
  BY DEF KeyRecords, CDEType, CDEContentKey, ASIN, Fixed, KF8Offset, CoverOffset, StartReading
<1>2. Added(g, a, num, val)
  BY <1>1, HeadAdd
<1> HIDE DEF a
<1>3. \A n : n \notin KeyRecords => ReadExth(a, n) = ReadExth(h, n)
  BY <1>2 DEF Added, Others, Keeps
<1>4. Keeps(a, h)
  BY <1>2, <1>3 DEF Added, Keeps
<1> QED BY <1>2, <1>4 DEF Added, a

LEMMA KeysComboInv ==
  ASSUME SplitInv, KeysCombo
  PROVE  SplitInv'
<1> DEFINE none == ReadExth(head, CDEContentKey) = <<>>
           t == AddExth(head, CDEType, EBOK, 4)
           w == AddExth(t, CDEContentKey, cdekey', 10)
<1>1. /\ pc = "keys" /\ pc' = "write" /\ Input /\ rec0' = rec0 /\ asin' = asin /\ result' = result
      /\ cdekey' = IF none THEN Given ELSE First(ReadExth(head, CDEContentKey))
      /\ cdetype' = TypeAsked /\ mode.combo
  BY DEF KeysCombo, Input, input
<1>2. head' = CASE ~mode.nonPersonal -> head
                [] mode.nonPersonal /\ none -> w
                [] OTHER -> t
  BY DEF KeysCombo
<1>3. pc \in Working /\ pc \notin Keyed
  BY <1>1 DEF Working, AfterStarts, Keyed
<1>4. SourceOK /\ HeadsOK
  BY <1>3 DEF SplitInv, StageOK, SourceOK
<1>5. /\ HeadOK(head) /\ Sound(head) /\ ReadExth(head, CDEContentKey) = ReadExth(NewHead, CDEContentKey)
      /\ ReadExth(head, CDEType) = <<>>
  BY <1>3, <1>4 DEF SplitInv, NewOK, HeadOK, SourceOK, RecordsOK
<1>6. cdekey' \in Int /\ cdekey' # Nothing
  <2>1. First(ReadExth(head, CDEContentKey)) \in Int
    BY <1>5, ReadType
  <2>2. ~none => First(ReadExth(head, CDEContentKey)) # Nothing
    BY <1>4, <1>5 DEF SourceOK, RecordsOK
  <2> QED BY <1>1, <2>1, <2>2 DEF Given, Nothing
<1>7. Keeps(head, head)
  BY <1>5 DEF Keeps
<1>8. /\ Keeps(t, head) /\ Others(t, head, CDEType)
      /\ ReadExth(t, CDEType) # <<>> /\ First(ReadExth(t, CDEType)) = EBOK
  BY <1>4, <1>5, <1>7, KeyAdded DEF KeyRecords, EBOK
<1> HIDE DEF t
<1>9. /\ Keeps(w, head) /\ Others(w, t, CDEContentKey)
      /\ ReadExth(w, CDEContentKey) # <<>> /\ First(ReadExth(w, CDEContentKey)) = cdekey'
  BY <1>4, <1>6, <1>8, KeyAdded DEF KeyRecords, Keeps
<1> HIDE DEF w
<1>10. ReadExth(t, CDEContentKey) = ReadExth(head, CDEContentKey) /\ ReadExth(w, CDEType) = ReadExth(t, CDEType)
  BY <1>8, <1>9 DEF Others, CDEType, CDEContentKey
<1>11. /\ mode' = mode /\ NewHead' = NewHead /\ PersonalJoint' = PersonalJoint
       /\ cdetype' = TypeAsked /\ TypeAsked' = TypeAsked
       /\ PersonalJoint <=> ~mode.nonPersonal
  BY <1>1, InputStays DEF Input, PersonalJoint, TypeAsked
<1>12. CASE ~mode.nonPersonal
  <2>1. head' = head
    BY <1>2, <1>12
  <2>2. KeysKept(head)'
    BY <1>1, <1>5, <1>6, <1>11, <1>12, <2>1 DEF KeysKept
  <2> QED BY <1>1, <1>7, <2>1, <2>2, KeysStep
<1>13. CASE mode.nonPersonal /\ none
  <2>1. head' = w
    BY <1>2, <1>13
  <2>2. TypeAsked = EBOK
    BY <1>13 DEF TypeAsked
  <2>3. KeysKept(head)'
    BY <1>6, <1>8, <1>9, <1>10, <1>11, <1>13, <2>1, <2>2 DEF KeysKept
  <2> QED BY <1>1, <1>9, <2>1, <2>3, KeysStep
<1>14. CASE mode.nonPersonal /\ ~none
  <2>1. head' = t
    BY <1>2, <1>14
  <2>2. TypeAsked = EBOK
    BY <1>14 DEF TypeAsked
  <2>3. KeysKept(head)'
    BY <1>1, <1>6, <1>8, <1>10, <1>11, <1>14, <2>1, <2>2 DEF KeysKept
  <2> QED BY <1>1, <1>8, <2>1, <2>3, KeysStep
<1> QED BY <1>12, <1>13, <1>14

LEMMA KeysKF8Inv ==
  ASSUME SplitInv, KeysKF8
  PROVE  SplitInv'
<1> DEFINE t == AddExth(head, CDEType, TypeAsked, 4)
           none == ReadExth(t, CDEContentKey) = <<>>
           a == AddExth(t, CDEContentKey, Given, 10)
           k == IF none THEN a ELSE t
           w == AddExth(k, ASIN, cdekey', 10)
<1>1. /\ pc = "keys" /\ pc' = "write" /\ Input /\ rec0' = rec0 /\ asin' = asin /\ result' = result
      /\ cdetype' = First(ReadExth(t, CDEType)) /\ cdekey' = First(ReadExth(k, CDEContentKey)) /\ ~mode.combo
      /\ head' = IF mode.forceASIN /\ ReadExth(k, ASIN) = <<>> THEN w ELSE k
  BY DEF KeysKF8, Input, input
<1>2. pc \in Working /\ pc \notin Keyed
  BY <1>1 DEF Working, AfterStarts, Keyed
<1>3. SourceOK /\ HeadsOK
  BY <1>2 DEF SplitInv, StageOK, SourceOK
<1>4. HeadOK(head) /\ ReadExth(head, CDEContentKey) = ReadExth(NewHead, CDEContentKey)
  BY <1>2 DEF SplitInv, NewOK
<1>5. Keeps(head, head)
  BY <1>4 DEF Keeps
<1>6. /\ Keeps(t, head) /\ Others(t, head, CDEType) /\ HeadOK(t)
      /\ ReadExth(t, CDEType) # <<>> /\ First(ReadExth(t, CDEType)) = TypeAsked
  <2>1. TypeAsked \in Int
    BY DEF TypeAsked, EBOK, PDOC
  <2> QED BY <1>3, <1>4, <1>5, <2>1, KeyAdded DEF KeyRecords, Keeps
<1>7. ReadExth(t, CDEContentKey) = ReadExth(head, CDEContentKey)
  BY <1>6 DEF Others, CDEType, CDEContentKey
<1> HIDE DEF t
<1>8. /\ Keeps(a, head) /\ Others(a, t, CDEContentKey)
      /\ ReadExth(a, CDEContentKey) # <<>> /\ First(ReadExth(a, CDEContentKey)) = Given
  <2>1. Given \in Int
    BY DEF Given
  <2> QED BY <1>3, <1>6, <2>1, KeyAdded DEF KeyRecords
<1> HIDE DEF a
<1>9. ReadExth(a, CDEType) = ReadExth(t, CDEType)
  BY <1>8 DEF Others, CDEType, CDEContentKey
<1>10. /\ Keeps(k, head) /\ HeadOK(k) /\ ReadExth(k, CDEType) = ReadExth(t, CDEType)
       /\ ReadExth(k, CDEContentKey) # <<>> /\ First(ReadExth(k, CDEContentKey)) # Nothing
       /\ First(ReadExth(k, CDEContentKey)) \in Int
  <2>1. CASE none
    BY <1>8, <1>9, <2>1 DEF Given, Nothing, Keeps
  <2>2. CASE ~none
    <3>1. First(ReadExth(t, CDEContentKey)) # Nothing
      BY <1>3, <1>4, <1>7, <2>2 DEF SourceOK, RecordsOK
    <3>2. First(ReadExth(t, CDEContentKey)) \in Int
      BY <1>6, ReadType DEF HeadOK
    <3> QED BY <1>6, <2>2, <3>1, <3>2
  <2> QED BY <2>1, <2>2
<1> HIDE DEF k, none
<1>11. /\ Keeps(w, head) /\ Others(w, k, ASIN)
  BY <1>1, <1>3, <1>10, KeyAdded DEF KeyRecords
<1>12. ReadExth(w, CDEType) = ReadExth(k, CDEType) /\ ReadExth(w, CDEContentKey) = ReadExth(k, CDEContentKey)
  BY <1>11 DEF Others, CDEType, CDEContentKey, ASIN
<1> HIDE DEF w
<1>13. /\ Keeps(head', head) /\ ReadExth(head', CDEType) = ReadExth(t, CDEType)
       /\ ReadExth(head', CDEContentKey) = ReadExth(k, CDEContentKey)
  BY <1>1, <1>10, <1>11, <1>12
<1>14. ~PersonalJoint' /\ TypeAsked' = TypeAsked
  BY <1>1 DEF Input, PersonalJoint, TypeAsked
<1>15. KeysKept(head)'
  BY <1>1, <1>6, <1>10, <1>13, <1>14 DEF KeysKept
<1> QED BY <1>1, <1>13, <1>15, KeysStep

-----------------------------------------------------------------------------
(* What the finished file has. *)
LEMMA PlaceType ==
  ASSUME SourceOK, NEW i \in 0..(ResultLength - 1)
  PROVE  Place(i) \in 0..(Len(Source) - 1)
<1> DEFINE k == HeadNo
           a == OldHead.firstRes
           z == OldHead.lastRes
           t == NewHead.firstRes
           n == Len(Source)
<1>1. /\ k \in Nat /\ a \in Nat /\ z \in Nat /\ t \in Nat
      /\ 1 <= a /\ a <= z /\ z < k /\ 1 <= t /\ k + t < n
  BY DEF SourceOK, NumbersOK
<1>2. n \in Nat /\ Images = z - a + 1
  BY SourceReads DEF Images
<1>3. CASE mode.combo
  BY <1>1, <1>2, <1>3 DEF ResultLength, Place
<1>4. CASE ~mode.combo
  <2>1. /\ ResultLength = n - k + Images
        /\ Place(i) = IF i < t THEN k + i ELSE IF i < t + Images THEN a + i - t ELSE k + i - Images
    BY <1>4 DEF ResultLength, Place
  <2> HIDE DEF k, a, z, t, n
  <2>2. i \in 0..(n - k + Images - 1)
    BY <1>1, <1>2, <2>1
  <2> QED BY <1>1, <1>2, <2>1, <2>2 DEF n
<1> QED BY <1>3, <1>4

LEMMA LengthType ==
  ASSUME SourceOK
  PROVE  /\ ResultLength \in Nat \ {0} /\ HeadPlaces \subseteq 0..(ResultLength - 1) /\ HeadNo # 0
<1>1. /\ HeadNo \in Nat /\ HeadNo + 1 < Len(Source) /\ Len(Source) \in Nat /\ Images \in Nat \ {0}
      /\ 3 <= HeadNo + 1
  BY SourceReads DEF SourceOK, NumbersOK
<1> QED BY <1>1 DEF ResultLength, HeadPlaces

LEMMA FileReads ==
  ASSUME SourceOK, NEW s, Made(s), mode.combo => Sound(rec0), Sound(head), Sound(NewHead)
  PROVE  LET h == IF pc \in Written THEN head ELSE NewHead
         IN  /\ Len(result.table) = ResultLength /\ Sections(result) = 0..(ResultLength - 1)
             /\ mode.combo => Content(result, 0) = rec0 /\ Content(result, HeadNo) = h
             /\ ~mode.combo => Content(result, 0) = h
             /\ \A i \in 0..(ResultLength - 1) :
                  \/ i \in HeadPlaces
                  \/ Content(result, i) = Planned(Content(data, Place(i)))
                  \/ /\ pc \in Named /\ ReadExth(head, ThumbOffset) # <<>>
                     /\ i = ImagesAt + First(ReadExth(head, ThumbOffset))
                     /\ "thumb" \in DOMAIN Content(result, i)
<1> DEFINE h == IF pc \in Written THEN head ELSE NewHead
<1>1. Filed(result, s) /\ Len(s) = ResultLength
  BY DEF Made, ResultLength
<1>2. /\ Len(result.table) = Len(s) /\ Sections(result) = 0..(Len(s) - 1)
      /\ \A i \in 0..(Len(s) - 1) :
           Content(result, i) = IF s[i + 1].len = 0 THEN Empty ELSE s[i + 1]
  BY <1>1, FiledReads
<1>3. Sound(h) /\ h.len # 0
  BY SoundSizes
<1>4. ResultLength \in Nat \ {0} /\ HeadPlaces \subseteq 0..(ResultLength - 1)
  BY LengthType
<1>5. s[IF mode.combo THEN HeadNo + 1 ELSE 1] = h /\ (mode.combo => s[1] = rec0)
  BY DEF Made
<1> HIDE DEF h
<1>6. mode.combo => Content(result, 0) = rec0 /\ Content(result, HeadNo) = h
  <2> SUFFICES ASSUME mode.combo
               PROVE  Content(result, 0) = rec0 /\ Content(result, HeadNo) = h
    OBVIOUS
  <2>1. 0 \in 0..(Len(s) - 1) /\ HeadNo \in 0..(Len(s) - 1)
    BY <1>1, <1>4 DEF HeadPlaces
  <2>2. s[0 + 1] = rec0 /\ rec0.len # 0 /\ s[HeadNo + 1] = h
    BY <1>5, SoundSizes
  <2> QED BY <1>2, <1>3, <2>1, <2>2
<1>7. ~mode.combo => Content(result, 0) = h
  <2> SUFFICES ASSUME ~mode.combo
               PROVE  Content(result, 0) = h
    OBVIOUS
  <2>1. 0 \in 0..(Len(s) - 1)
    BY <1>1, <1>4
  <2>2. s[0 + 1] = h
    BY <1>5
  <2> QED BY <1>2, <1>3, <2>1, <2>2
<1>8. ASSUME NEW i \in 0..(ResultLength - 1), i \notin HeadPlaces
      PROVE  \/ Content(result, i) = Planned(Content(data, Place(i)))
             \/ /\ pc \in Named /\ ReadExth(head, ThumbOffset) # <<>>
                /\ i = ImagesAt + First(ReadExth(head, ThumbOffset))
                /\ "thumb" \in DOMAIN Content(result, i)
  <2>1. i \in 0..(Len(s) - 1) /\ Content(result, i) = IF s[i + 1].len = 0 THEN Empty ELSE s[i + 1]
    BY <1>1, <1>2
  <2>2. CASE s[i + 1] = Planned(Source[Place(i) + 1])
    <3> DEFINE c == Source[Place(i) + 1]
    <3>1. Place(i) \in 0..(Len(Source) - 1)
      BY PlaceType
    <3>2. Place(i) + 1 \in 1..Len(Source) /\ Content(data, Place(i)) = c
      BY <3>1, SourceReads
    <3>3. c.len # 0
      BY <3>2 DEF SourceOK
    <3> HIDE DEF c
    <3>4. s[i + 1] = Empty \/ s[i + 1] = c
      BY <2>2 DEF Planned, c
    <3>5. Content(result, i) = s[i + 1]
      BY <2>1, <3>3, <3>4
    <3> QED BY <2>2, <3>2, <3>5 DEF c
  <2>3. CASE /\ pc \in Named /\ ReadExth(head, ThumbOffset) # <<>>
             /\ i = ImagesAt + First(ReadExth(head, ThumbOffset))
             /\ "thumb" \in DOMAIN s[i + 1] /\ s[i + 1].len = 30
    <3>1. Content(result, i) = s[i + 1]
      BY <2>1, <2>3
    <3> QED BY <2>3, <3>1
  <2> QED BY <1>8, <2>1, <2>2, <2>3 DEF Made
<1> QED BY <1>1, <1>2, <1>6, <1>7, <1>8 DEF h

LEMMA HeadsKnown ==
  ASSUME SplitInv, pc \in Working
  PROVE  /\ SourceOK /\ Sound(rec0) /\ Sound(head) /\ Sound(NewHead)
         /\ Kf8(rec0) = HeadNo /\ ReadExth(rec0, KF8Offset) # <<>> /\ ReadExth(head, KF8Offset) = <<>>
<1>1. SourceOK /\ ReadExth(OldHead, KF8Offset) # <<>>
  BY DEF SplitInv, StageOK
<1>2. Sound(rec0) /\ ReadExth(rec0, KF8Offset) = ReadExth(OldHead, KF8Offset)
  BY DEF SplitInv, OldOK
<1>3. Sound(head) /\ ReadExth(head, KF8Offset) = <<>>
  BY DEF SplitInv, NewOK, HeadOK
<1>4. Sound(NewHead)
  BY <1>1 DEF SourceOK, HeadsOK
<1> QED BY <1>1, <1>2, <1>3, <1>4 DEF Kf8, HeadNo

(* The file in the making, when the new header is written. *)
LEMMA MadeHead ==
  ASSUME SourceOK, NEW s, Made(s), Input, Sound(head), rec0' = rec0, head' = head,
         result' = WriteSection(result, IF mode.combo THEN HeadNo ELSE 0, Run(head)),
         pc \in Named, pc' \in Named, pc \notin Written, pc' \in Written
  PROVE  \E t : Made(t)'
<1> DEFINE p == IF mode.combo THEN HeadNo ELSE 0
<1>1. p \in HeadPlaces /\ (mode.combo => p # 0) /\ HeadPlaces \subseteq 0..(ResultLength - 1) /\ p \in Nat
  BY LengthType DEF HeadPlaces, SourceOK, NumbersOK
<1>2. /\ HeadNo' = HeadNo /\ Images' = Images /\ NewHead' = NewHead /\ mode' = mode
      /\ Source' = Source /\ ImagesAt' = ImagesAt /\ HeadPlaces' = HeadPlaces
      /\ \A j : Place(j)' = Place(j)
      /\ \A c : Planned(c)' = Planned(c)
  BY InputStays DEF Input
<1>3. Filed(result, s) /\ Len(s) = ResultLength
  BY DEF Made, ResultLength
<1>4. Len(s) \in Nat
  BY <1>3, FiledReads
<1>5. PICK t : /\ Filed(result', t) /\ Len(t) = Len(s)
               /\ \A j \in 1..Len(s) : t[j] = IF j = p + 1 THEN head ELSE s[j]
  <2> DEFINE t == Changed(s, p, head)
  <2>0. result' = WriteSection(result, p, Run(head))
    OBVIOUS
  <2> HIDE DEF p
  <2>1. p \in 0..(Len(s) - 1) /\ head.len \in Nat
    BY <1>1, <1>3, <1>4, SoundSizes
  <2>2. Filed(WriteSection(result, p, Run(head)), t) /\ Put(t, s, p, head)
    BY <1>3, <2>1, FiledWrite
  <2> HIDE DEF t
  <2> QED BY <2>0, <2>2 DEF Put
<1>6. t[p + 1] = head
  <2> HIDE DEF p
  <2>1. p + 1 \in 1..Len(s)
    BY <1>1, <1>3, <1>4
  <2> QED BY <1>5, <2>1
<1>7. mode.combo => t[1] = rec0
  <2> SUFFICES ASSUME mode.combo
               PROVE  t[1] = rec0
    OBVIOUS
  <2>1. s[1] = rec0
    BY DEF Made
  <2>2. p \in Nat /\ p # 0
    BY <1>1
  <2> HIDE DEF p
  <2>3. 1 \in 1..Len(s) /\ 1 # p + 1
    BY <1>3, <1>4, <2>2, LengthType
  <2> QED BY <1>5, <2>1, <2>3
<1>8. ASSUME NEW j \in 0..(Len(t) - 1)
      PROVE  \/ j \in HeadPlaces'
             \/ t[j + 1] = Planned(Source[Place(j) + 1])'
             \/ /\ pc' \in Named /\ ReadExth(head, ThumbOffset)' # <<>>
                /\ j = ImagesAt' + First(ReadExth(head, ThumbOffset)')
                /\ "thumb" \in DOMAIN t[j + 1] /\ t[j + 1].len = 30
  <2>1. CASE j \in HeadPlaces
    BY <1>2, <2>1
  <2>2. CASE j \notin HeadPlaces
    <3>1. j # p
      BY <1>1, <2>2
    <3>2. t[j + 1] = s[j + 1]
      <4> HIDE DEF p
      <4>1. j + 1 \in 1..Len(s) /\ j + 1 # p + 1
        BY <1>1, <1>4, <1>5, <3>1
      <4> QED BY <1>5, <4>1
    <3>3. j \in 0..(Len(s) - 1)
      BY <1>5
    <3>4. Planned(Source[Place(j) + 1])' = Planned(Source[Place(j) + 1])
      BY <1>2 DEF Planned
    <3>5. ReadExth(head, ThumbOffset)' = ReadExth(head, ThumbOffset)
      OBVIOUS
    <3> QED BY <1>2, <2>2, <3>2, <3>3, <3>4, <3>5 DEF Made
  <2> QED BY <2>1, <2>2
<1>9. Made(t)'
  <2>1. Filed(result, t)'
    BY <1>5
  <2>2. (Len(t) = IF mode.combo THEN Len(Source) ELSE Len(Source) - HeadNo + Images)'
    BY <1>2, <1>3, <1>5 DEF ResultLength
  <2>3. (mode.combo => t[1] = rec0)'
    BY <1>2, <1>7
  <2>4. (t[IF mode.combo THEN HeadNo + 1 ELSE 1] = IF pc \in Written THEN head ELSE NewHead)'
    <3>1. t[IF mode.combo THEN HeadNo + 1 ELSE 1] = head
      <4>1. CASE mode.combo
        BY <1>6, <4>1
      <4>2. CASE ~mode.combo
        BY <1>6, <4>2
      <4> QED BY <4>1, <4>2
    <3> QED BY <1>2, <3>1
  <2> QED BY <1>8, <2>1, <2>2, <2>3, <2>4 DEF Made
<1> QED BY <1>9

LEMMA WriteInv ==
  ASSUME SplitInv, NEW parses \in BOOLEAN, Write(parses)
  PROVE  SplitInv'
<1>1. /\ pc = "write" /\ pc' = "done" /\ Input /\ rec0' = rec0 /\ asin' = asin /\ head' = head
      /\ cdekey' = cdekey /\ cdetype' = cdetype /\ pages' = PageData(parses)
      /\ result' = WriteSection(result, IF mode.combo THEN Kf8(rec0) ELSE 0, Run(head))
  BY DEF Write, Input, input, fields
<1>2. /\ pc \in Working /\ pc' \in Working /\ pc \in Patched /\ pc' \in Patched /\ pc \in Named
      /\ pc' \in Named /\ pc \in Keyed /\ pc' \in Keyed /\ pc \in AfterStarts /\ pc' \in AfterStarts
      /\ pc \notin Written /\ pc' \in Written
  BY <1>1 DEF Working, AfterStarts, Patched, Named, Keyed, Written
<1>3. StageOK'
  BY <1>1, <1>2, StageStep DEF SplitInv
<1>4. OldOK'
  BY <1>1, <1>2, OldStep DEF SplitInv
<1>5. NewOK'
  BY <1>1, <1>2, NewStep DEF SplitInv
<1>6. SourceOK /\ Sound(head) /\ Kf8(rec0) = HeadNo
  BY <1>2, HeadsKnown
<1>7. ResultOK'
  <2>1. PICK s : Made(s)
    BY <1>2 DEF SplitInv, ResultOK
  <2>2. \E t : Made(t)'
    BY <1>1, <1>2, <1>6, <2>1, MadeHead
  <2> QED BY <1>1, <2>2 DEF ResultOK
<1>8. PagesOK'
  <2>1. pages' # <<>> => /\ pages'.key = (IF cdekey = Nothing THEN asin ELSE cdekey)
                         /\ pages'.type = cdetype
    BY <1>1 DEF PageData
  <2> QED BY <1>1, <2>1 DEF PagesOK
<1>9. SoundHeads'
  BY <1>1 DEF SplitInv, SoundHeads
<1> QED BY <1>3, <1>4, <1>5, <1>7, <1>8, <1>9 DEF SplitInv

-----------------------------------------------------------------------------
(* What is saved, and what the reader finds in it. *)
LEMMA SaveInv ==
  ASSUME SplitInv, NEW wanted \in BOOLEAN, Save(wanted)
  PROVE  SplitInv'
<1>1. /\ pc \in {"done", "ignored"} /\ Input /\ rec0' = rec0 /\ asin' = asin /\ head' = head
      /\ cdekey' = cdekey /\ cdetype' = cdetype /\ pages' = pages /\ result' = result
      /\ pc' = IF result = <<>> THEN "failed" ELSE "saved"
  BY DEF Save, Input, input, fields
<1>2. CASE result = <<>>
  BY <1>1, <1>2, IdleStep
<1>3. CASE result # <<>>
  <2>1. pc \in Working
    BY <1>3 DEF SplitInv, StageOK
  <2>2. pc = "done" /\ pc' = "saved"
    BY <1>1, <1>3, <2>1 DEF Working, AfterStarts
  <2>3. /\ pc' \in Working /\ pc \in Patched /\ pc' \in Patched /\ pc \in Named
        /\ pc' \in Named /\ pc \in Keyed /\ pc' \in Keyed /\ pc \in AfterStarts /\ pc' \in AfterStarts
        /\ pc \in Written /\ pc' \in Written
    BY <2>2 DEF Working, AfterStarts, Patched, Named, Keyed, Written
  <2>4. StageOK'
    BY <1>1, <2>1, <2>2, <2>3, StageStep DEF SplitInv
  <2>5. OldOK'
    BY <1>1, <2>1, <2>2, <2>3, OldStep DEF SplitInv
  <2>6. NewOK'
    BY <1>1, <2>1, <2>2, <2>3, NewStep DEF SplitInv
  <2>7. ResultOK'
    <3>1. PICK s : Made(s)
      BY <2>3 DEF SplitInv, ResultOK
    <3>2. Made(s)'
      BY <1>1, <2>3, <3>1, MadeStays
    <3>3. \E w : Made(w)'
      BY <3>2
    <3> QED BY <2>2, <3>3 DEF ResultOK
  <2>8. PagesOK'
    BY <1>1, <2>2, <2>3 DEF SplitInv, PagesOK
  <2>9. SoundHeads'
    BY <1>1 DEF SplitInv, SoundHeads
  <2> QED BY <2>4, <2>5, <2>6, <2>7, <2>8, <2>9 DEF SplitInv
<1> QED BY <1>2, <1>3

LEMMA ExtractInv ==
  ASSUME SplitInv, NEW large \in BOOLEAN, Extract(large)
  PROVE  SplitInv'
<1> DEFINE h == Content(result, 0)
           h8 == IF ReadExth(h, KF8Offset) # <<>> THEN Content(result, Kf8(h)) ELSE h
<1>1. /\ pc = "saved" /\ pc' = "read" /\ Input /\ rec0' = rec0 /\ asin' = asin /\ head' = head
      /\ cdekey' = cdekey /\ cdetype' = cdetype /\ pages' = pages /\ result' = result
  BY DEF Extract, Input, input, fields
<1>2. /\ seen'.type = Prefer(h8, h, CDEType)
      /\ seen'.key = IF Prefer(h8, h, CDEContentKey) # Nothing THEN Prefer(h8, h, CDEContentKey)
                     ELSE Prefer(h8, h, ASIN)
  BY DEF Extract
<1> HIDE DEF h8
<1>3. /\ pc \in Working /\ pc' \in Working /\ pc \in Patched /\ pc' \in Patched /\ pc \in Named
      /\ pc' \in Named /\ pc \in Keyed /\ pc' \in Keyed /\ pc \in AfterStarts /\ pc' \in AfterStarts
      /\ pc \in Written /\ pc' \in Written
  BY <1>1 DEF Working, AfterStarts, Patched, Named, Keyed, Written
<1>4. StageOK'
  BY <1>1, <1>3, StageStep DEF SplitInv
<1>5. OldOK'
  BY <1>1, <1>3, OldStep DEF SplitInv
<1>6. NewOK'
  BY <1>1, <1>3, NewStep DEF SplitInv
<1>7. PICK s : Made(s)
  BY <1>3 DEF SplitInv, ResultOK
<1>8. ResultOK'
  <2>1. Made(s)'
    BY <1>1, <1>3, <1>7, MadeStays
  <2>2. \E w : Made(w)'
    BY <2>1
  <2> QED BY <1>1, <2>2 DEF ResultOK
<1>9. h8 = head /\ (mode.combo => h = rec0)
  <2>1. /\ SourceOK /\ Sound(rec0) /\ Sound(head) /\ Sound(NewHead)
        /\ Kf8(rec0) = HeadNo /\ ReadExth(rec0, KF8Offset) # <<>> /\ ReadExth(head, KF8Offset) = <<>>
    BY <1>3, HeadsKnown
  <2>2. /\ mode.combo => Content(result, 0) = rec0 /\ Content(result, HeadNo) = head
        /\ ~mode.combo => Content(result, 0) = head
    BY <1>3, <1>7, <2>1, FileReads
  <2> QED BY <2>1, <2>2 DEF h8
<1>10. PagesOK'
  <2>1. KeysKept(head)
    BY <1>3 DEF SplitInv, NewOK
  <2>2. PersonalJoint => ReadExth(h, CDEType) = <<>>
    <3> SUFFICES ASSUME PersonalJoint
                 PROVE  ReadExth(h, CDEType) = <<>>
      OBVIOUS
    <3>1. ReadExth(rec0, CDEType) = <<>>
      BY <1>3 DEF SplitInv, OldOK, PersonalJoint
    <3> QED BY <1>9, <3>1 DEF PersonalJoint
  <2>3. seen'.type = IF PersonalJoint THEN Nothing ELSE TypeAsked
    BY <1>2, <1>9, <2>1, <2>2 DEF Prefer, KeysKept, First
  <2>4. \/ seen'.key = cdekey
        \/ PersonalJoint /\ ReadExth(NewHead, CDEContentKey) = <<>>
    BY <1>2, <1>9, <2>1 DEF Prefer, KeysKept
  <2>5. pages # <<>> => pages.key = cdekey /\ pages.type = TypeAsked
    BY <1>3, <2>1 DEF SplitInv, PagesOK, KeysKept
  <2>6. PersonalJoint' = PersonalJoint /\ TypeAsked' = TypeAsked /\ NewHead' = NewHead
    BY <1>1, InputStays DEF Input, PersonalJoint, TypeAsked
  <2>7. pages # <<>> => /\ pages.key = (IF cdekey = Nothing THEN asin ELSE cdekey)
                        /\ pages.type = cdetype
    BY <1>3 DEF SplitInv, PagesOK
  <2> HIDE DEF h
  <2> QED BY <1>1, <2>3, <2>4, <2>5, <2>6, <2>7 DEF PagesOK
<1>11. SoundHeads'
  BY <1>1 DEF SplitInv, SoundHeads
<1> QED BY <1>4, <1>5, <1>6, <1>8, <1>10, <1>11 DEF SplitInv

-----------------------------------------------------------------------------
LEMMA StutterInv ==
  ASSUME SplitInv, UNCHANGED vars
  PROVE  SplitInv'
<1>1. /\ mode' = mode /\ data' = data /\ pc' = pc /\ result' = result /\ rec0' = rec0 /\ head' = head
      /\ todo' = todo /\ asin' = asin /\ cdekey' = cdekey /\ cdetype' = cdetype /\ pages' = pages
      /\ seen' = seen /\ Input
  BY DEF vars, Input
<1>2. OldHead' = OldHead /\ NewHead' = NewHead /\ SourceOK' = SourceOK /\ MovedPointers' = MovedPointers
      /\ Source' = Source
  BY <1>1, InputStays
<1>3. StageOK'
  BY <1>1, <1>2 DEF SplitInv, StageOK
<1>4. OldOK'
  BY <1>1, <1>2 DEF SplitInv, OldOK
<1>5. NewOK'
  <2>1. CASE pc \in Working
    BY <1>1, <2>1, NewStep DEF SplitInv
  <2>2. CASE pc \notin Working
    BY <1>1, <2>2 DEF NewOK
  <2> QED BY <2>1, <2>2
<1>6. ResultOK'
  <2>1. pc = "sources" => \E s, e : Emptied(s, e)'
    <3> SUFFICES ASSUME pc = "sources" PROVE \E s, e : Emptied(s, e)'
      OBVIOUS
    <3>1. PICK s, e : Emptied(s, e)
      BY DEF SplitInv, ResultOK
    <3>2. Emptied(s, e)'
      BY <1>1, <1>2, <3>1 DEF Emptied
    <3> QED BY <3>2
  <2>2. pc \in {"starts"} \union AfterStarts => \E s : Made(s)'
    <3> SUFFICES ASSUME pc \in {"starts"} \union AfterStarts PROVE \E s : Made(s)'
      OBVIOUS
    <3>1. PICK s : Made(s)
      BY DEF SplitInv, ResultOK
    <3>2. Made(s)'
      BY <1>1, <3>1, MadeStays
    <3> QED BY <3>2
  <2>3. pc = "cut" => result' = data'
    BY <1>1 DEF SplitInv, ResultOK
  <2> QED BY <1>1, <2>1, <2>2, <2>3 DEF ResultOK
<1>7. PagesOK'
  BY <1>1, <1>2 DEF SplitInv, PagesOK, PersonalJoint, TypeAsked
<1>8. SoundHeads'
  BY <1>1 DEF SplitInv, SoundHeads
<1> QED BY <1>3, <1>4, <1>5, <1>6, <1>7, <1>8 DEF SplitInv

LEMMA StepInv == SplitInv /\ [Next]_vars => SplitInv'
<1> SUFFICES ASSUME SplitInv, [Next]_vars
             PROVE  SplitInv'
  OBVIOUS
<1>1. CASE Ignore
  BY <1>1, IgnoreInv
<1>2. CASE Open
  BY <1>2, OpenInv
<1>3. CASE EmptySource
  BY <1>3, EmptySourceInv
<1>4. CASE PatchOldHeader
  BY <1>4, PatchOldHeaderInv
<1>5. CASE Cut
  BY <1>5, CutInv
<1>6. CASE PatchHeader
  BY <1>6, PatchHeaderInv
<1>7. CASE DropStart
  BY <1>7, DropStartInv
<1>8. CASE StartsDone
  BY <1>8, StartsDoneInv
<1>9. CASE NoCover
  BY <1>9, NoCoverInv
<1>10. CASE \E encodes \in BOOLEAN : MakeThumbnail(encodes)
  BY <1>10, MakeThumbnailInv
<1>11. CASE KeysCombo
  BY <1>11, KeysComboInv
<1>12. CASE KeysKF8
  BY <1>12, KeysKF8Inv
<1>13. CASE \E parses \in BOOLEAN : Write(parses)
  BY <1>13, WriteInv
<1>14. CASE \E wanted \in BOOLEAN : Save(wanted)
  BY <1>14, SaveInv
<1>15. CASE \E large \in BOOLEAN : Extract(large)
  BY <1>15, ExtractInv
<1>16. CASE UNCHANGED vars
  BY <1>16, StutterInv
<1> QED BY <1>1, <1>2, <1>3, <1>4, <1>5, <1>6, <1>7, <1>8, <1>9, <1>10, <1>11, <1>12, <1>13, <1>14,
           <1>15, <1>16 DEF Next

(* The splitter and the reader keep the invariant: the headers, the file   *)
(* in the making and the fields of the Splitter are, at every step of      *)
(* produceCombo and produceKF8, what the steps done so far make of the     *)
(* file that was read.                                                     *)
THEOREM SplitterInvariant == Spec => []SplitInv
<1>1. Init => SplitInv
  BY InitInv
<1>2. SplitInv /\ [Next]_vars => SplitInv'
  BY StepInv
<1> QED BY <1>1, <1>2, PTL DEF Spec

-----------------------------------------------------------------------------
LEMMA InvType == SplitInv => TypeOK
<1> SUFFICES ASSUME SplitInv PROVE TypeOK
  OBVIOUS
<1>1. pc \in Working \union {"open", "ignored", "failed"} /\ (pc \notin Working => result = <<>>)
  BY DEF SplitInv, StageOK
<1>2. pc \in {"open", "ignored", "sources", "cut", "starts", "header", "cover", "keys",
              "write", "done", "saved", "failed", "read"}
  BY <1>1 DEF Working, AfterStarts
<1>3. ASSUME pc \in Working
      PROVE  \E s : Filed(result, s) /\ Len(s) # 0
  <2>1. SourceOK
    BY <1>3, HeadsKnown
  <2>2. Len(Source) # 0 /\ Filed(data, Source) /\ ResultLength # 0
    <3>1. Len(Source) \in Nat /\ HeadNo + 1 < Len(Source) /\ 3 <= HeadNo + 1 /\ HeadNo \in Nat
      BY <2>1, SourceReads DEF SourceOK, NumbersOK
    <3>2. ResultLength # 0
      BY <2>1, LengthType
    <3> QED BY <2>1, <3>1, <3>2 DEF SourceOK
  <2>3. CASE pc = "sources"
    BY <2>2, <2>3 DEF SplitInv, ResultOK, Emptied
  <2>4. CASE pc = "cut"
    BY <2>2, <2>4 DEF SplitInv, ResultOK
  <2>5. CASE pc \in {"starts"} \union AfterStarts
    BY <2>2, <2>5 DEF SplitInv, ResultOK, Made, ResultLength
  <2> QED BY <1>3, <2>3, <2>4, <2>5 DEF Working
<1>4. ASSUME result # <<>>
      PROVE  /\ result.seed = 2 * Len(result.table) + 1
             /\ Start(result, 0) = BodyStart(result)
             /\ \A i \in Sections(result) : /\ Start(result, i) <= End(result, i)
                                           /\ result.table[i + 1].id = 2 * i
  <2>1. PICK s : Filed(result, s) /\ Len(s) # 0
    BY <1>1, <1>3, <1>4
  <2> QED BY <2>1, FiledIsDatabase
<1> QED BY <1>2, <1>4 DEF TypeOK

(* After any number of sections were emptied, written, cut out and put in  *)
(* the result is a database: the table's addresses ascend from its end,    *)
(* its sections are numbered and the seed of new ids is right, for every   *)
(* file that kindlegen makes.                                              *)
THEOREM SplitterType == Spec => []TypeOK
BY SplitterInvariant, InvType, PTL

LEMMA InvExth == SplitInv => ExthIsSound
BY DEF SplitInv, SoundHeads, Sound, ExthIsSound

(* The counters of the EXTH blocks are right and the title stays behind    *)
(* them, whatever records addExth, writeExth and delExth handled.          *)
THEOREM ExthStaysSound == Spec => []ExthIsSound
BY SplitterInvariant, InvExth, PTL

LEMMA InvKeys == SplitInv => KeysAgree
BY DEF SplitInv, PagesOK, KeysAgree

(* The page map has the type that was asked for. The reader finds it in    *)
(* the saved file, but not in a joint file that stays a personal document: *)
(* in that one it finds no type. The key that the reader takes for the     *)
(* thumbnail is that of the page map, unless such a joint file came        *)
(* without a key.                                                          *)
THEOREM SplitterKeysAgree == Spec => []KeysAgree
BY SplitterInvariant, InvKeys, PTL

(* What a finished file has, in the terms of the properties. *)
LEMMA FinishedFile ==
  ASSUME SplitInv, Saved
  PROVE  /\ SourceOK /\ Inserted = Images /\ FirstImage = ImagesAt
         /\ Len(result.table) = ResultLength /\ Sections(result) = 0..(ResultLength - 1)
         /\ mode.combo => Content(result, 0) = rec0 /\ Content(result, HeadNo) = head
         /\ ~mode.combo => Content(result, 0) = head
         /\ rec0.part = OldHead.part /\ head.part = NewHead.part
         /\ ~mode.combo => head.ptr = MovedPointers
         /\ ThumbIsNamed(head) /\ StartsKept(head) /\ Len(ReadExth(head, StartReading)) <= 1 /\ Sound(head)
         /\ \A i \in 0..(ResultLength - 1) :
              \/ i \in HeadPlaces
              \/ Content(result, i) = Planned(Content(data, Place(i)))
              \/ /\ ReadExth(head, ThumbOffset) # <<>>
                 /\ i = ImagesAt + First(ReadExth(head, ThumbOffset))
                 /\ "thumb" \in DOMAIN Content(result, i)
<1>1. /\ pc \in Working /\ pc \in Patched /\ pc \in Named /\ pc \in AfterStarts /\ pc \in Written
  BY DEF Saved, Working, AfterStarts, Patched, Named, Written
<1>2. /\ SourceOK /\ Sound(rec0) /\ Sound(head) /\ Sound(NewHead)
  BY <1>1, HeadsKnown
<1>3. PICK s : Made(s)
  BY <1>1 DEF SplitInv, ResultOK
<1>4. /\ rec0.part = OldHead.part /\ rec0.firstRes = OldHead.firstRes /\ rec0.lastRes = OldHead.lastRes
  BY <1>1 DEF SplitInv, OldOK
<1>5. /\ HeadOK(head) /\ (~mode.combo => head.ptr = MovedPointers)
      /\ Len(ReadExth(head, StartReading)) <= 1 /\ ThumbIsNamed(head)
  BY <1>1 DEF SplitInv, NewOK
<1>6. head.part = NewHead.part /\ head.firstRes = NewHead.firstRes /\ StartsKept(head)
  BY <1>5 DEF HeadOK
<1>7. Inserted = Images /\ FirstImage = ImagesAt
  BY <1>4, <1>6 DEF Inserted, Images, FirstImage, ImagesAt
<1>8. /\ Len(result.table) = ResultLength /\ Sections(result) = 0..(ResultLength - 1)
      /\ mode.combo => Content(result, 0) = rec0 /\ Content(result, HeadNo) = head
      /\ ~mode.combo => Content(result, 0) = head
  BY <1>1, <1>2, <1>3, FileReads
<1>9. \A i \in 0..(ResultLength - 1) :
        \/ i \in HeadPlaces
        \/ Content(result, i) = Planned(Content(data, Place(i)))
        \/ /\ ReadExth(head, ThumbOffset) # <<>>
           /\ i = ImagesAt + First(ReadExth(head, ThumbOffset))
           /\ "thumb" \in DOMAIN Content(result, i)
  BY <1>1, <1>2, <1>3, FileReads
<1> QED BY <1>2, <1>4, <1>5, <1>6, <1>7, <1>8, <1>9

LEMMA OriginIsPlace ==
  ASSUME SourceOK, Inserted = Images, NEW i \in 0..(ResultLength - 1)
  PROVE  Origin(i) = Place(i)
<1> DEFINE k == HeadNo
           a == OldHead.firstRes
           t == NewHead.firstRes
<1>1. k \in Nat /\ a \in Nat /\ t \in Nat /\ Images \in Nat \ {0} /\ ResultLength \in Nat \ {0}
  BY SourceReads, LengthType DEF SourceOK, NumbersOK
<1>2. CASE mode.combo
  BY <1>2 DEF Origin, Place
<1>3. CASE ~mode.combo
  <2>1. Origin(i) = CASE i < t -> k + i
                      [] i \in t..(t + Images - 1) -> a + i - t
                      [] OTHER -> k + i - Images
    BY <1>3 DEF Origin, HeadNo
  <2>2. Place(i) = IF i < t THEN k + i ELSE IF i < t + Images THEN a + i - t ELSE k + i - Images
    BY <1>3 DEF Place
  <2> HIDE DEF k, a, t
  <2>3. i \in Nat
    BY <1>1
  <2>4. i \in t..(t + Images - 1) <=> ~(i < t) /\ i < t + Images
    BY <1>1, <2>3
  <2> QED BY <1>1, <2>1, <2>2, <2>3, <2>4
<1> QED BY <1>2, <1>3

LEMMA InvSaved == SplitInv => SavedAsPlanned
<1> SUFFICES ASSUME SplitInv, Saved
             PROVE  /\ Len(result.table) = IF mode.combo THEN Len(data.table)
                                           ELSE Len(data.table) - Kf8(OldHead) + Inserted
                    /\ \A i \in Sections(result) :
                         LET new == Content(result, i)
                             old == Content(data, Origin(i))
                         IN  IF i \in HeadSections THEN new.part = old.part
                             ELSE \/ new = Planned(old)
                                  \/ i = FirstImage + Thumb0 /\ "thumb" \in DOMAIN new
  BY DEF SavedAsPlanned
<1>1. /\ SourceOK /\ Inserted = Images /\ FirstImage = ImagesAt
      /\ Len(result.table) = ResultLength /\ Sections(result) = 0..(ResultLength - 1)
      /\ mode.combo => Content(result, 0) = rec0 /\ Content(result, HeadNo) = head
      /\ ~mode.combo => Content(result, 0) = head
      /\ rec0.part = OldHead.part /\ head.part = NewHead.part
  BY FinishedFile
<1>2. Len(data.table) = Len(Source)
  BY <1>1, SourceReads
<1>3. Len(result.table) = IF mode.combo THEN Len(data.table) ELSE Len(data.table) - Kf8(OldHead) + Inserted
  BY <1>1, <1>2 DEF ResultLength, HeadNo
<1>4. ASSUME NEW i \in Sections(result)
      PROVE  IF i \in HeadSections THEN Content(result, i).part = Content(data, Origin(i)).part
             ELSE \/ Content(result, i) = Planned(Content(data, Origin(i)))
                  \/ i = FirstImage + Thumb0 /\ "thumb" \in DOMAIN Content(result, i)
  <2>1. i \in 0..(ResultLength - 1) /\ Origin(i) = Place(i)
    BY <1>1, OriginIsPlace
  <2>2. HeadSections = HeadPlaces
    BY DEF HeadSections, HeadPlaces, HeadNo
  <2>3. CASE i \in HeadPlaces
    <3>1. CASE mode.combo /\ i = 0
      <4>1. Place(i) = 0
        BY <3>1 DEF Place
      <4> QED BY <1>1, <2>1, <2>2, <2>3, <3>1, <4>1 DEF OldHead
    <3>2. CASE mode.combo /\ i = HeadNo
      <4>1. Place(i) = HeadNo
        BY <3>2 DEF Place
      <4> QED BY <1>1, <2>1, <2>2, <2>3, <3>2, <4>1 DEF NewHead, HeadNo
    <3>3. CASE ~mode.combo /\ i = 0
      <4>1. HeadNo \in Nat /\ 0 < NewHead.firstRes
        BY <1>1 DEF SourceOK, NumbersOK
      <4>2. Place(i) = HeadNo
        BY <3>3, <4>1 DEF Place
      <4> QED BY <1>1, <2>1, <2>2, <2>3, <3>3, <4>2 DEF NewHead, HeadNo
    <3> QED BY <2>3, <3>1, <3>2, <3>3 DEF HeadPlaces
  <2>4. CASE i \notin HeadPlaces
    <3>1. \/ Content(result, i) = Planned(Content(data, Place(i)))
          \/ /\ ReadExth(head, ThumbOffset) # <<>>
             /\ i = ImagesAt + First(ReadExth(head, ThumbOffset))
             /\ "thumb" \in DOMAIN Content(result, i)
      BY <2>1, <2>4, FinishedFile
    <3> QED BY <1>1, <2>1, <2>2, <2>4, <3>1 DEF Thumb0
  <2> QED BY <2>3, <2>4
<1> QED BY <1>3, <1>4

(* The saved file has the sections of the file that was read, whole and in *)
(* their order, without those cut out or emptied, with the images in their *)
(* new place: for every file of kindlegen and everything asked for.        *)
THEOREM SplitterSavesAsPlanned == Spec => []SavedAsPlanned
BY SplitterInvariant, InvSaved, PTL

LEMMA InvPointers == SplitInv => PointersFollow
<1> SUFFICES ASSUME SplitInv, Saved, ~mode.combo, NEW p \in Pointers, NewHead.ptr[p] # Nothing
             PROVE  Content(result, Content(result, 0).ptr[p]) = Content(data, Kf8(OldHead) + NewHead.ptr[p])
  BY DEF PointersFollow
<1> DEFINE o == NewHead.ptr[p]
           k == HeadNo
           t == NewHead.firstRes
           n == Len(Source)
           q == o + Images
<1>1. /\ SourceOK /\ Content(result, 0) = head /\ head.ptr = MovedPointers /\ ThumbIsNamed(head)
  BY FinishedFile
<1>2. /\ k \in Nat /\ t \in Nat /\ 1 <= t /\ n \in Nat /\ Images \in Nat \ {0}
      /\ ResultLength = n - k + Images
  BY <1>1, SourceReads DEF SourceOK, NumbersOK, ResultLength
<1>3. o \in Nat /\ t <= o /\ k + o < n
  BY <1>1 DEF SourceOK, PointersOK
<1>4. head.ptr[p] = IF o >= 0 THEN o + Images ELSE o
  BY <1>1 DEF MovedPointers
<1>5. HeadPlaces = {0} /\ ImagesAt = t
      /\ Place(q) = IF q < t THEN k + q ELSE IF q < t + Images THEN OldHead.firstRes + q - t ELSE k + q - Images
  BY DEF HeadPlaces, ImagesAt, Place
<1>6. \A c : Planned(c) = c
  BY DEF Planned
<1>7. First(ReadExth(head, ThumbOffset)) \in 0..(Images - 1) \/ ReadExth(head, ThumbOffset) = <<>>
  BY <1>1 DEF ThumbIsNamed, ImageNumber
<1>0. Kf8(OldHead) = k
  BY DEF HeadNo
<1> HIDE DEF o, k, t, n, q
<1>8. head.ptr[p] = q
  BY <1>3, <1>4 DEF q
<1>9. q \in 0..(ResultLength - 1) /\ q \notin HeadPlaces /\ Place(q) = k + o
  BY <1>2, <1>3, <1>5 DEF q
<1>10. ASSUME NEW x \in 0..(Images - 1)
       PROVE  q # ImagesAt + x
  BY <1>2, <1>3, <1>5 DEF q
<1>11. Content(result, q) = Planned(Content(data, Place(q)))
  <2>1. \/ Content(result, q) = Planned(Content(data, Place(q)))
        \/ /\ ReadExth(head, ThumbOffset) # <<>>
           /\ q = ImagesAt + First(ReadExth(head, ThumbOffset))
           /\ "thumb" \in DOMAIN Content(result, q)
    BY <1>9, FinishedFile
  <2> QED BY <1>7, <1>10, <2>1
<1>12. Content(result, q) = Content(data, k + o)
  BY <1>6, <1>9, <1>11
<1>13. Content(result, Content(result, 0).ptr[p]) = Content(data, Kf8(OldHead) + o)
  BY <1>0, <1>1, <1>8, <1>12
<1> QED BY <1>13 DEF o

(* A section that the KF8 header named in the joint file is the one that   *)
(* the header of the saved file names, for all numbers of sections.        *)
THEOREM SplitterPointersFollow == Spec => []PointersFollow
BY SplitterInvariant, InvPointers, PTL

LEMMA SingleRecord ==
  ASSUME NEW S, NEW s \in Seq(S), s # <<>>, Len(s) <= 1
  PROVE  s = <<Last(s)>>
<1>0. Len(s) \in Nat
  BY LenProperties
<1>1. Len(s) = 1
  <2>1. Len(s) # 0
    BY EmptySeq
  <2> QED BY <1>0, <2>1
<1>2. Last(s) = s[1]
  BY <1>1 DEF Last
<1>3. s = <<s[1]>>
  BY <1>1
<1> QED BY <1>2, <1>3

LEMMA InvThumbnail == SplitInv => NamesOneThumbnail
<1> SUFFICES ASSUME SplitInv, Saved
             PROVE  LET h == Content(result, IF mode.combo THEN Kf8(OldHead) ELSE 0)
                        starts == ReadExth(NewHead, StartReading)
                        uris == ReadExth(h, ThumbnailURI)
                    IN  /\ starts # <<>> => ReadExth(h, StartReading) = <<Last(starts)>>
                        /\ ReadExth(h, CoverOffset) # <<>> =>
                             /\ Len(uris) = 1
                             /\ uris[1].val = First(ReadExth(h, ThumbOffset))
                             /\ Decodes(Content(result, FirstImage + uris[1].val))
  BY DEF NamesOneThumbnail
<1> DEFINE h == Content(result, IF mode.combo THEN Kf8(OldHead) ELSE 0)
           starts == ReadExth(NewHead, StartReading)
           uris == ReadExth(h, ThumbnailURI)
<1>1. /\ SourceOK /\ FirstImage = ImagesAt
      /\ mode.combo => Content(result, HeadNo) = head
      /\ ~mode.combo => Content(result, 0) = head
      /\ ThumbIsNamed(head) /\ StartsKept(head) /\ Len(ReadExth(head, StartReading)) <= 1 /\ Sound(head)
  BY FinishedFile
<1>2. h = head
  BY <1>1 DEF HeadNo
<1>3. starts # <<>> => ReadExth(head, StartReading) = <<Last(starts)>>
  <2> SUFFICES ASSUME starts # <<>>
               PROVE  ReadExth(head, StartReading) = <<Last(starts)>>
    OBVIOUS
  <2>1. /\ ReadExth(head, StartReading) # <<>>
        /\ Last(ReadExth(head, StartReading)) = Last(starts)
    BY <1>1 DEF StartsKept
  <2>2. ReadExth(head, StartReading) \in Seq(Recs)
    BY <1>1, ReadType
  <2>3. ReadExth(head, StartReading) = <<Last(ReadExth(head, StartReading))>>
    BY <1>1, <2>1, <2>2, SingleRecord
  <2> QED BY <2>1, <2>3
<1>4. ASSUME ReadExth(head, CoverOffset) # <<>>
      PROVE  /\ Len(ReadExth(head, ThumbnailURI)) = 1
             /\ ReadExth(head, ThumbnailURI)[1].val = First(ReadExth(head, ThumbOffset))
             /\ Decodes(Content(result, FirstImage + ReadExth(head, ThumbnailURI)[1].val))
  <2>1. PICK x : ReadExth(head, ThumbnailURI) = <<x>> /\ x.val = First(ReadExth(head, ThumbOffset))
    BY <1>1, <1>4 DEF ThumbIsNamed
  <2> DEFINE v == First(ReadExth(head, ThumbOffset))
             i == ImagesAt + v
  <2>2. v \in 0..(Images - 1)
    BY <1>1, <1>4 DEF ThumbIsNamed, ImageNumber
  <2>3. /\ i \in 1..(ResultLength - 1) /\ i \notin HeadPlaces
        /\ Place(i) = OldHead.firstRes + v /\ Place(i) \in OldHead.firstRes..OldHead.lastRes
    <3> HIDE DEF v
    <3> QED BY <1>1, <2>2, ImagePlace
  <2>4. i \in 0..(ResultLength - 1)
    <3> HIDE DEF i
    <3>1. ResultLength \in Nat
      BY <1>1, LengthType
    <3> QED BY <2>3, <3>1
  <2>5. "image" \in DOMAIN Content(data, Place(i))
    BY <1>1, <2>3 DEF SourceOK, ImagesOK
  <2>6. Planned(Content(data, Place(i))) = Content(data, Place(i))
    <3>1. "image" \notin DOMAIN Other("SRCS")
      BY DEF Other
    <3>2. Content(data, Place(i)) # Other("SRCS")
      BY <2>5, <3>1
    <3> QED BY <3>2 DEF Planned
  <2>7. \/ Content(result, i) = Planned(Content(data, Place(i)))
        \/ "thumb" \in DOMAIN Content(result, i)
    BY <2>3, <2>4, FinishedFile
  <2>8. Decodes(Content(result, i))
    BY <2>5, <2>6, <2>7 DEF Decodes
  <2>9. ReadExth(head, ThumbnailURI)[1] = x /\ Len(ReadExth(head, ThumbnailURI)) = 1
    BY <2>1
  <2> QED BY <1>1, <2>1, <2>8, <2>9
<1> HIDE DEF h
<1> QED BY <1>2, <1>3, <1>4 DEF h

(* The saved file says once where reading starts, where it started last in *)
(* the source, and names one thumbnail, which is an image of the file:     *)
(* for every number of such records that the source had.                   *)
THEOREM SplitterNamesOneThumbnail == Spec => []NamesOneThumbnail
BY SplitterInvariant, InvThumbnail, PTL

=============================================================================
