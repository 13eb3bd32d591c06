--------------------------- MODULE SequenceLemmas ---------------------------
(***************************************************************************)
(* Facts about numbers and sequences that the proofs share: least elements, *)
(* induction over a set of numbers, and what FlattenSeq, the shape of the  *)
(* code's appending loops, returns.                                        *)
(***************************************************************************)
EXTENDS SequencesExt, NaturalsInduction, WellFoundedInduction, TLAPS

\* A set of numbers has a least element.
LEMMA LeastElement ==
  ASSUME NEW S \in SUBSET Nat, S # {}
  PROVE  \E m \in S : \A x \in S : m <= x
<1> DEFINE R == {ss \in Nat \X Nat : ss[1] < ss[2]}
<1>1. IsWellFoundedOn(R, Nat)
  BY NatLessThanWellFounded DEF OpToRel
<1>2. PICK m \in S : \A x \in S : <<x, m>> \notin R
  BY <1>1, WFMin
<1>3. ASSUME NEW x \in S PROVE m <= x
  <2>1. <<x, m>> \in Nat \X Nat /\ ~(x < m)
    BY <1>2
  <2> QED BY <2>1
<1> QED BY <1>3

\* Induction over a set of numbers.
LEMMA Induction ==
  ASSUME NEW S \in SUBSET Nat, 0 \in S, \A n \in S : n + 1 \in S
  PROVE  Nat \subseteq S
<1> SUFFICES ASSUME Nat \ S # {} PROVE FALSE
  OBVIOUS
<1>1. PICK m \in Nat \ S : \A x \in Nat \ S : m <= x
  BY LeastElement
<1>2. m # 0 /\ m - 1 \in Nat
  BY <1>1
<1>3. m - 1 \in S
  BY <1>1, <1>2
<1>4. m - 1 + 1 = m
  BY <1>1
<1> QED BY <1>1, <1>3, <1>4

\* FlattenSeq's recursion has a solution.
Flattens(g, seqs, n) == \A i \in 1 .. n : g[i] = IF i = 1 THEN seqs[1] ELSE g[i - 1] \o seqs[i]

LEMMA FlattenExists ==
  ASSUME NEW seqs, Len(seqs) \in Nat, Len(seqs) > 0
  PROVE  \E g : g = [i \in 1 .. Len(seqs) |-> g[i]] /\ Flattens(g, seqs, Len(seqs))
                /\ FlattenSeq(seqs) = g[Len(seqs)]
<1> DEFINE N == Len(seqs)
           E == {n \in Nat : n = 0 \/ \E g : Flattens(g, seqs, n)}
<1>1. 0 \in E
  OBVIOUS
<1>2. ASSUME NEW n \in E PROVE n + 1 \in E
  <2>1. CASE n = 0
    <3> DEFINE h == [i \in 1 .. 1 |-> seqs[1]]
    <3>1. Flattens(h, seqs, 1)
      BY DEF Flattens
    <3> QED BY <2>1, <3>1
  <2>2. CASE n # 0
    <3>1. PICK g : Flattens(g, seqs, n)
      BY <2>2
    <3> DEFINE h == [i \in 1 .. n + 1 |-> IF i = n + 1 THEN g[n] \o seqs[n + 1] ELSE g[i]]
    <3>2. ASSUME NEW i \in 1 .. n + 1 PROVE h[i] = IF i = 1 THEN seqs[1] ELSE h[i - 1] \o seqs[i]
      <4>1. CASE i = n + 1
        <5>1. i # 1 /\ i - 1 = n /\ n \in 1 .. n + 1 /\ n # n + 1
          BY <2>2, <4>1
        <5> QED BY <4>1, <5>1
      <4>2. CASE i \in 1 .. n
        <5>1. h[i] = g[i]
          BY <4>2
        <5>2. i # 1 => h[i - 1] = g[i - 1]
          BY <4>2
        <5> QED BY <3>1, <4>2, <5>1, <5>2 DEF Flattens
      <4> QED BY <4>1, <4>2
    <3>3. Flattens(h, seqs, n + 1)
      BY <3>2 DEF Flattens
    <3> QED BY <3>3
  <2> QED BY <2>1, <2>2
<1>3. N \in E
  <2> HIDE DEF E
  <2>1. E \subseteq Nat
    BY DEF E
  <2> QED BY <1>1, <1>2, <2>1, Induction
<1>4. PICK g0 : Flattens(g0, seqs, N)
  BY <1>3
<1> DEFINE D(g) == [i \in 1 .. N |-> IF i = 1 THEN seqs[i] ELSE g[i - 1] \o seqs[i]]
           g1 == [i \in 1 .. N |-> g0[i]]
           f == CHOOSE g : g = D(g)
<1>5. g1 = D(g1)
  <2>1. ASSUME NEW i \in 1 .. N PROVE g1[i] = IF i = 1 THEN seqs[i] ELSE g1[i - 1] \o seqs[i]
    BY <1>4 DEF Flattens
  <2> QED BY <2>1
<1>6. f = D(f)
  <2> HIDE DEF g1
  <2> QED BY <1>5
<1>7. FlattenSeq(seqs) = f[N]
  BY DEF FlattenSeq
<1> HIDE DEF f
<1>8. Flattens(f, seqs, N) /\ f = [i \in 1 .. N |-> f[i]]
  BY <1>6 DEF Flattens
<1> QED BY <1>7, <1>8

\* A function on 1 .. k is a sequence.
LEMMA FunctionIsSeq ==
  ASSUME NEW T, NEW k \in Nat, NEW s, s = [j \in 1 .. k |-> s[j]], \A j \in 1 .. k : s[j] \in T
  PROVE  s \in Seq(T) /\ Len(s) = k
<1>1. s \in [1 .. k -> T]
  OBVIOUS
<1> QED BY <1>1

\* Where the elements of a concatenation come from.
LEMMA ConcatAt ==
  ASSUME NEW S, NEW s \in Seq(S), NEW t \in Seq(S)
  PROVE  /\ s \o t \in Seq(S) /\ Len(s \o t) = Len(s) + Len(t)
         /\ \A k \in 1 .. Len(s) + Len(t) :
              \/ k \in 1 .. Len(s) /\ (s \o t)[k] = s[k]
              \/ k - Len(s) \in 1 .. Len(t) /\ (s \o t)[k] = t[k - Len(s)]
         /\ \A k \in 1 .. Len(s) : (s \o t)[k] = s[k]
         /\ \A k \in 1 .. Len(t) : (s \o t)[Len(s) + k] = t[k]
  OBVIOUS

\* Elements of the sequences before position <<a, i>> come before it.
Earlier(a, i, b, j) == a < b \/ (a = b /\ i < j)

\* f has the elements of the first n sequences, in their order.
FlatOf(f, seqs, n) ==
  /\ \A a \in 1 .. n : \A i \in 1 .. Len(seqs[a]) : \E k \in 1 .. Len(f) : f[k] = seqs[a][i]
  /\ \A k \in 1 .. Len(f) : \E a \in 1 .. n : \E i \in 1 .. Len(seqs[a]) : f[k] = seqs[a][i]
  /\ \A k \in 1 .. Len(f), l \in 1 .. Len(f) : k < l =>
       \E a \in 1 .. n, b \in 1 .. n : \E i \in 1 .. Len(seqs[a]), j \in 1 .. Len(seqs[b]) :
         f[k] = seqs[a][i] /\ f[l] = seqs[b][j] /\ Earlier(a, i, b, j)

\* One more sequence.
LEMMA FlatStep ==
  ASSUME NEW S, NEW seqs \in Seq(Seq(S)), NEW n \in Nat, n + 1 \in 1 .. Len(seqs),
         NEW f \in Seq(S), FlatOf(f, seqs, n)
  PROVE  f \o seqs[n + 1] \in Seq(S) /\ FlatOf(f \o seqs[n + 1], seqs, n + 1)
<1> DEFINE t == seqs[n + 1]
           g == f \o t
<1>1. t \in Seq(S) /\ Len(t) \in Nat /\ Len(f) \in Nat
  OBVIOUS
<1>2. /\ g \in Seq(S) /\ Len(g) = Len(f) + Len(t)
      /\ \A k \in 1 .. Len(g) : \/ k \in 1 .. Len(f) /\ g[k] = f[k]
                                \/ k - Len(f) \in 1 .. Len(t) /\ g[k] = t[k - Len(f)]
      /\ \A k \in 1 .. Len(f) : g[k] = f[k]
      /\ \A k \in 1 .. Len(t) : g[Len(f) + k] = t[k]
  BY <1>1, ConcatAt
<1> HIDE DEF g
<1>3. ASSUME NEW a \in 1 .. n + 1, NEW i \in 1 .. Len(seqs[a])
      PROVE  \E k \in 1 .. Len(g) : g[k] = seqs[a][i]
  <2>1. CASE a = n + 1
    <3>1. i \in 1 .. Len(t) /\ Len(f) + i \in 1 .. Len(g)
      BY <1>1, <1>2, <2>1
    <3> QED BY <1>2, <2>1, <3>1
  <2>2. CASE a \in 1 .. n
    <3>1. PICK k \in 1 .. Len(f) : f[k] = seqs[a][i]
      BY <2>2 DEF FlatOf
    <3>2. k \in 1 .. Len(g) /\ g[k] = f[k]
      BY <1>1, <1>2
    <3> QED BY <3>1, <3>2
  <2> QED BY <2>1, <2>2
<1>4. ASSUME NEW k \in 1 .. Len(g)
      PROVE  \E a \in 1 .. n + 1 : \E i \in 1 .. Len(seqs[a]) : g[k] = seqs[a][i]
  <2>1. CASE k \in 1 .. Len(f) /\ g[k] = f[k]
    <3>1. PICK a \in 1 .. n : \E i \in 1 .. Len(seqs[a]) : f[k] = seqs[a][i]
      BY <2>1 DEF FlatOf
    <3> QED BY <2>1, <3>1
  <2>2. CASE k - Len(f) \in 1 .. Len(t) /\ g[k] = t[k - Len(f)]
    <3>1. n + 1 \in 1 .. n + 1
      OBVIOUS
    <3> QED BY <2>2, <3>1
  <2> QED BY <1>2, <2>1, <2>2
<1>5. ASSUME NEW k \in 1 .. Len(g), NEW l \in 1 .. Len(g), k < l
      PROVE  \E a \in 1 .. n + 1, b \in 1 .. n + 1 : \E i \in 1 .. Len(seqs[a]), j \in 1 .. Len(seqs[b]) :
               g[k] = seqs[a][i] /\ g[l] = seqs[b][j] /\ Earlier(a, i, b, j)
  <2>1. CASE l \in 1 .. Len(f) /\ g[l] = f[l]
    <3>0. k \in 1 .. Len(f)
      BY <1>1, <1>5, <2>1
    <3>1. k \in 1 .. Len(f) /\ g[k] = f[k]
      BY <1>2, <3>0
    <3>2. PICK a \in 1 .. n, b \in 1 .. n : \E i \in 1 .. Len(seqs[a]), j \in 1 .. Len(seqs[b]) :
            f[k] = seqs[a][i] /\ f[l] = seqs[b][j] /\ Earlier(a, i, b, j)
      BY <1>5, <2>1, <3>1 DEF FlatOf
    <3>3. a \in 1 .. n + 1 /\ b \in 1 .. n + 1
      OBVIOUS
    <3> QED BY <2>1, <3>1, <3>2, <3>3
  <2>2. CASE l - Len(f) \in 1 .. Len(t) /\ g[l] = t[l - Len(f)]
    <3>1. n + 1 \in 1 .. n + 1
      OBVIOUS
    <3>2. CASE k \in 1 .. Len(f) /\ g[k] = f[k]
      <4>1. PICK a \in 1 .. n : \E i \in 1 .. Len(seqs[a]) : f[k] = seqs[a][i]
        BY <3>2 DEF FlatOf
      <4>2. PICK i \in 1 .. Len(seqs[a]) : f[k] = seqs[a][i]
        BY <4>1
      <4>3. a \in 1 .. n + 1 /\ Earlier(a, i, n + 1, l - Len(f))
        BY DEF Earlier
      <4> QED BY <2>2, <3>1, <3>2, <4>2, <4>3
    <3>3. CASE k - Len(f) \in 1 .. Len(t) /\ g[k] = t[k - Len(f)]
      <4>1. k - Len(f) < l - Len(f)
        BY <1>1, <1>2, <1>5
      <4>2. Earlier(n + 1, k - Len(f), n + 1, l - Len(f))
        BY <4>1 DEF Earlier
      <4> QED BY <2>2, <3>1, <3>3, <4>2
    <3> QED BY <1>2, <3>2, <3>3
  <2> QED BY <1>2, <2>1, <2>2
<1>6. FlatOf(g, seqs, n + 1)
  BY <1>3, <1>4, <1>5 DEF FlatOf
<1> QED BY <1>2, <1>6 DEF g

\* FlattenSeq gives all elements of all sequences, in order.
LEMMA Flattened ==
  ASSUME NEW S, NEW seqs \in Seq(Seq(S))
  PROVE  FlattenSeq(seqs) \in Seq(S) /\ FlatOf(FlattenSeq(seqs), seqs, Len(seqs))
<1>1. CASE Len(seqs) = 0
  <2>1. FlattenSeq(seqs) = seqs /\ seqs = <<>>
    BY <1>1 DEF FlattenSeq
  <2> QED BY <2>1 DEF FlatOf
<1>2. CASE Len(seqs) > 0
  <2> DEFINE N == Len(seqs)
  <2>1. PICK g : Flattens(g, seqs, N) /\ FlattenSeq(seqs) = g[N]
    BY <1>2, FlattenExists
  <2> DEFINE E == {n \in Nat : n \in 1 .. N => g[n] \in Seq(S) /\ FlatOf(g[n], seqs, n)}
  <2>2. 0 \in E
    OBVIOUS
  <2>3. ASSUME NEW n \in E PROVE n + 1 \in E
    <3> SUFFICES ASSUME n + 1 \in 1 .. N
                 PROVE  g[n + 1] \in Seq(S) /\ FlatOf(g[n + 1], seqs, n + 1)
      OBVIOUS
    <3>1. CASE n = 0
      <4>1. g[1] = seqs[1]
        BY <1>2, <2>1 DEF Flattens
      <4>2. FlatOf(<<>>, seqs, 0) /\ <<>> \in Seq(S)
        BY DEF FlatOf
      <4>3. <<>> \o seqs[1] = seqs[1]
        BY <1>2
      <4>4. <<>> \o seqs[0 + 1] \in Seq(S) /\ FlatOf(<<>> \o seqs[0 + 1], seqs, 0 + 1)
        BY <3>1, <4>2, FlatStep
      <4> QED BY <3>1, <4>1, <4>3, <4>4
    <3>2. CASE n # 0
      <4>1. n \in 1 .. N /\ n \in Nat
        BY <3>2
      <4>2. g[n + 1] = g[n] \o seqs[n + 1]
        <5>1. n + 1 \in 1 .. N /\ n + 1 # 1 /\ n + 1 - 1 = n
          BY <4>1
        <5>2. \A i \in 1 .. N : i # 1 => g[i] = g[i - 1] \o seqs[i]
          BY <2>1 DEF Flattens
        <5>3. ASSUME NEW i \in 1 .. N, i = n + 1 PROVE g[i] = g[n] \o seqs[i]
          <6>1. i # 1 /\ i - 1 = n
            BY <5>1, <5>3
          <6> QED BY <5>2, <6>1
        <5> QED BY <5>1, <5>3
      <4>3. g[n] \in Seq(S) /\ FlatOf(g[n], seqs, n)
        BY <4>1
      <4> HIDE DEF N
      <4>4. g[n] \o seqs[n + 1] \in Seq(S) /\ FlatOf(g[n] \o seqs[n + 1], seqs, n + 1)
        BY <4>1, <4>3, FlatStep DEF N
      <4> QED BY <4>2, <4>4
    <3> QED BY <3>1, <3>2
  <2>4. N \in E
    <3> HIDE DEF E
    <3>1. E \subseteq Nat
      BY DEF E
    <3>2. Nat \subseteq E
      BY <2>2, <2>3, <3>1, Induction
    <3> QED BY <3>2
  <2>5. N \in 1 .. N
    BY <1>2
  <2> QED BY <2>1, <2>4, <2>5
<1> QED BY <1>1, <1>2
=============================================================================
