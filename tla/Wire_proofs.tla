---------------------------- MODULE Wire_proofs -----------------------------
(***************************************************************************)
(* Proofs about the parsers: TcpHdr::parse's option loop (TcpOptions) and  *)
(* the search of a DNS reply (Dns), for inputs of any length cut anywhere, *)
(* and about the internet checksum (Checksum), for data of any length.     *)
(* The parsers walk over bytes that are the concatenation of pieces; where *)
(* the pieces lie, and what the checksum's loops add up, is proved by      *)
(* induction, in a form for sets.                                          *)
(***************************************************************************)
EXTENDS TcpOptions, Dns, Checksum, TLAPS, WellFoundedInduction, SequenceTheorems

(***************************************************************************)
(* Induction over the natural numbers, for a set instead of a predicate.   *)
(***************************************************************************)
LEMMA SetInduction ==
    ASSUME NEW S, 0 \in S, \A n \in Nat : n \in S => n + 1 \in S
    PROVE  Nat \subseteq S
<1> DEFINE T == Nat \ S
           R == OpToRel(<, Nat)
<1>1. SUFFICES ASSUME T # {} PROVE FALSE
  BY <1>1
<1>2. IsWellFoundedOn(R, Nat)
  BY Zenon, NatLessThanWellFounded
<1>3. T \subseteq Nat
  OBVIOUS
<1>4. \A x, y \in Nat : y < x => <<y, x>> \in R
  BY DEF OpToRel
<1> HIDE DEF R
<1>5. \E x \in T : \A y \in T : ~(<<y, x>> \in R)
  BY <1>1, <1>2, <1>3, WFMin
<1>6. PICK x \in T : \A y \in T : ~(<<y, x>> \in R)
  BY <1>5
<1>7. x # 0 /\ x \in Nat
  OBVIOUS
<1>8. x - 1 \in Nat /\ x - 1 < x /\ (x - 1) + 1 = x
  BY <1>7
<1>9. x - 1 \in S
  BY <1>4, <1>6, <1>7, <1>8
<1> QED BY <1>7, <1>8, <1>9

(***************************************************************************)
(* Concatenation of pieces.  f[i] is the concatenation of the first i.     *)
(***************************************************************************)
IsFlatten(ss, n, f) ==
    /\ DOMAIN f = 1..n
    /\ \A i \in 1..n : f[i] = IF i = 1 THEN ss[i] ELSE f[i - 1] \o ss[i]

LEMMA FlattenExists ==
    ASSUME NEW S, NEW ss \in Seq(Seq(S)), NEW n \in 0..Len(ss)
    PROVE  \E f \in [1..n -> Seq(S)] : IsFlatten(ss, n, f)
<1> DEFINE P == {m \in Nat : m <= Len(ss) => \E f \in [1..m -> Seq(S)] : IsFlatten(ss, m, f)}
<1>1. 0 \in P
  <2> DEFINE e == [i \in 1..0 |-> <<>>]
  <2>1. IsFlatten(ss, 0, e) /\ e \in [1..0 -> Seq(S)]
    BY DEF IsFlatten
  <2> HIDE DEF e
  <2> QED BY <2>1
<1>2. ASSUME NEW m \in Nat, m \in P PROVE m + 1 \in P
  <2>1. SUFFICES ASSUME m + 1 <= Len(ss)
                 PROVE  \E g \in [1..(m + 1) -> Seq(S)] : IsFlatten(ss, m + 1, g)
    OBVIOUS
  <2>2. PICK f \in [1..m -> Seq(S)] : IsFlatten(ss, m, f)
    BY <1>2, <2>1
  <2> DEFINE last == IF m = 0 THEN ss[1] ELSE f[m] \o ss[m + 1]
             g == [i \in 1..(m + 1) |-> IF i = m + 1 THEN last ELSE f[i]]
  <2>3. last \in Seq(S)
    <3>1. ss[m + 1] \in Seq(S)
      BY <2>1
    <3>2. CASE m = 0
      BY <3>1, <3>2
    <3>3. CASE m # 0
      <4>1. f[m] \in Seq(S)
        BY <3>3
      <4> QED BY <3>1, <3>3, <4>1, ConcatProperties
    <3> QED BY <3>2, <3>3
  <2>4. g \in [1..(m + 1) -> Seq(S)]
    BY <2>3
  <2>5. IsFlatten(ss, m + 1, g)
    <3>1. ASSUME NEW i \in 1..(m + 1)
          PROVE  g[i] = IF i = 1 THEN ss[i] ELSE g[i - 1] \o ss[i]
      <4>1. CASE i = m + 1
        <5>1. g[i] = last
          BY <4>1
        <5>2. i # 1 => m \in 1..m /\ i - 1 = m /\ g[m] = f[m]
          BY <4>1
        <5>3. i = 1 <=> m = 0
          BY <4>1
        <5> HIDE DEF g
        <5> QED BY <4>1, <5>1, <5>2, <5>3
      <4>2. CASE i # m + 1
        <5>1. i \in 1..m /\ g[i] = f[i] /\ (i # 1 => g[i - 1] = f[i - 1])
          BY <4>2
        <5>2. f[i] = IF i = 1 THEN ss[i] ELSE f[i - 1] \o ss[i]
          BY <2>2, <5>1 DEF IsFlatten
        <5> HIDE DEF g
        <5> QED BY <5>1, <5>2
      <4> QED BY <4>1, <4>2
    <3>2. DOMAIN g = 1..(m + 1)
      OBVIOUS
    <3> HIDE DEF g
    <3> QED BY <3>1, <3>2 DEF IsFlatten
  <2> QED BY <2>4, <2>5
<1>3. Nat \subseteq P
  BY <1>1, <1>2, SetInduction
<1> QED BY <1>3

LEMMA FlattenUnique ==
    ASSUME NEW ss, NEW tt, NEW n \in Nat, NEW m \in Nat, n <= m,
           \A i \in 1..n : tt[i] = ss[i],
           NEW f, NEW g, IsFlatten(tt, n, f), IsFlatten(ss, m, g)
    PROVE  \A i \in 1..n : f[i] = g[i]
<1> DEFINE P == {k \in Nat : k \in 1..n => f[k] = g[k]}
<1>1. 0 \in P
  OBVIOUS
<1>2. ASSUME NEW k \in Nat, k \in P PROVE k + 1 \in P
  <2>1. SUFFICES ASSUME k + 1 \in 1..n PROVE f[k + 1] = g[k + 1]
    OBVIOUS
  <2>2. /\ f[k + 1] = IF k + 1 = 1 THEN tt[k + 1] ELSE f[(k + 1) - 1] \o tt[k + 1]
        /\ g[k + 1] = IF k + 1 = 1 THEN ss[k + 1] ELSE g[(k + 1) - 1] \o ss[k + 1]
    <3> DEFINE j == k + 1
    <3>1. j \in 1..n /\ j \in 1..m
      BY <2>1
    <3> HIDE DEF j
    <3>2. /\ f[j] = IF j = 1 THEN tt[j] ELSE f[j - 1] \o tt[j]
          /\ g[j] = IF j = 1 THEN ss[j] ELSE g[j - 1] \o ss[j]
      BY <3>1 DEF IsFlatten
    <3> QED BY <3>2 DEF j
  <2>3. (k + 1) - 1 = k /\ tt[k + 1] = ss[k + 1] /\ (k + 1 # 1 => k \in 1..n)
    BY <2>1
  <2>4. k + 1 # 1 => f[k] = g[k]
    BY <1>2, <2>3
  <2> QED BY <2>2, <2>3, <2>4
<1> HIDE DEF P
<1>3. Nat \subseteq P
  BY <1>1, <1>2, SetInduction
<1> QED BY <1>3 DEF P

\* FlattenSeq is the last of them.
LEMMA FlattenIs ==
    ASSUME NEW S, NEW ss \in Seq(Seq(S)), Len(ss) # 0,
           NEW f \in [1..Len(ss) -> Seq(S)], IsFlatten(ss, Len(ss), f)
    PROVE  FlattenSeq(ss) = f[Len(ss)]
<1> DEFINE n == Len(ss)
           D(g) == g = [i \in 1..n |-> IF i = 1 THEN ss[i] ELSE g[i - 1] \o ss[i]]
           h == CHOOSE g : D(g)
<1>1. n \in Nat
  OBVIOUS
<1>2. D(f)
  BY DEF IsFlatten
<1>3. D(h)
  BY ZenonT(60), <1>2
<1>4. FlattenSeq(ss) = h[n]
  BY DEF FlattenSeq
<1>5. IsFlatten(ss, n, h)
  <2> HIDE DEF h
  <2> QED BY <1>3 DEF IsFlatten
<1> HIDE DEF h, D
<1>6. \A i \in 1..n : h[i] = f[i]
  BY <1>1, <1>5, FlattenUnique
<1> QED BY <1>1, <1>4, <1>6

\* e[i] is where piece i ends: the length of the concatenation of the pieces
\* up to it.  Byte j of a piece is found j behind the end of the previous one.
IsLayout(S, ss, e) ==
    /\ e \in [0..Len(ss) -> Nat] /\ e[0] = 0
    /\ \A i \in 1..Len(ss) : e[i] = e[i - 1] + Len(ss[i])
    /\ \A i, j \in 0..Len(ss) : i <= j => e[i] <= e[j]
    /\ FlattenSeq(ss) \in Seq(S) /\ Len(FlattenSeq(ss)) = e[Len(ss)]
    /\ \A i \in 0..Len(ss) : Len(FlattenSeq(SubSeq(ss, 1, i))) = e[i]
    /\ \A i \in 1..Len(ss) : \A j \in 1..Len(ss[i]) :
          FlattenSeq(ss)[e[i - 1] + j] = ss[i][j]

LEMMA FlattenEmpty ==
    ASSUME NEW S, NEW ss \in Seq(S), Len(ss) = 0
    PROVE  FlattenSeq(ss) = <<>>
  BY DEF FlattenSeq

\* A function whose values never fall from one number to the next is monotone.
LEMMA Monotone ==
    ASSUME NEW n \in Nat, NEW e \in [0..n -> Nat], \A i \in 1..n : e[i - 1] <= e[i]
    PROVE  \A i, j \in 0..n : i <= j => e[i] <= e[j]
<1>1. SUFFICES ASSUME NEW i \in 0..n PROVE \A j \in 0..n : i <= j => e[i] <= e[j]
  OBVIOUS
<1> DEFINE P == {d \in Nat : i + d <= n => e[i] <= e[i + d]}
<1>2. 0 \in P
  OBVIOUS
<1>3. ASSUME NEW d \in Nat, d \in P PROVE d + 1 \in P
  <2>1. SUFFICES ASSUME i + (d + 1) <= n PROVE e[i] <= e[i + (d + 1)]
    OBVIOUS
  <2> DEFINE k == i + (d + 1)
  <2>2. k \in 1..n /\ k - 1 = i + d /\ i + d \in 0..n
    BY <2>1
  <2>3. e[i] <= e[i + d]
    BY <1>3, <2>2
  <2>4. e[k - 1] <= e[k]
    BY <2>2
  <2>5. e[i] \in Nat /\ e[i + d] \in Nat /\ e[k] \in Nat
    BY <2>2
  <2> QED BY <2>2, <2>3, <2>4, <2>5
<1> HIDE DEF P
<1>4. Nat \subseteq P
  BY <1>2, <1>3, SetInduction
<1>5. ASSUME NEW j \in 0..n, i <= j PROVE e[i] <= e[j]
  <2>1. j - i \in Nat /\ i + (j - i) = j
    BY <1>5
  <2>2. j - i \in P
    BY <1>4, <2>1
  <2>3. i + (j - i) <= n => e[i] <= e[i + (j - i)]
    BY <2>2 DEF P
  <2> QED BY <2>1, <2>3
<1> QED BY <1>5

LEMMA LayoutExists ==
    ASSUME NEW S, NEW ss \in Seq(Seq(S))
    PROVE  \E e : IsLayout(S, ss, e)
<1> DEFINE n == Len(ss)
<1>1. n \in Nat /\ \A i \in 1..n : ss[i] \in Seq(S) /\ Len(ss[i]) \in Nat
  BY ElementOfSeq, LenProperties
<1> HIDE DEF n
<1>2. PICK f \in [1..n -> Seq(S)] : IsFlatten(ss, n, f)
  BY <1>1, FlattenExists DEF n
<1> DEFINE e == [i \in 0..n |-> IF i = 0 THEN 0 ELSE Len(f[i])]
<1>3. \A i \in 1..n : f[i] \in Seq(S) /\ Len(f[i]) \in Nat
  BY <1>2, LenProperties
<1>4. e \in [0..n -> Nat] /\ e[0] = 0 /\ \A i \in 1..n : e[i] = Len(f[i])
  BY <1>1, <1>3
<1> HIDE DEF e
<1>5. ASSUME NEW i \in 1..n PROVE e[i] = e[i - 1] + Len(ss[i])
  <2>1. CASE i = 1
    <3>1. f[i] = ss[i]
      BY <1>2, <2>1 DEF IsFlatten
    <3> QED BY <1>1, <1>4, <2>1, <3>1
  <2>2. CASE i # 1
    <3>1. i - 1 \in 1..n /\ f[i] = f[i - 1] \o ss[i]
      <4>1. i - 1 \in 1..n
        BY <1>1, <2>2
      <4> QED BY <1>2, <2>2, <4>1 DEF IsFlatten
    <3>2. Len(f[i]) = Len(f[i - 1]) + Len(ss[i])
      BY <1>1, <1>3, <3>1, ConcatProperties
    <3> QED BY <1>4, <3>1, <3>2
  <2> QED BY <2>1, <2>2
<1>6. \A i, j \in 0..n : i <= j => e[i] <= e[j]
  <2>1. \A i \in 1..n : e[i - 1] <= e[i]
    <3>1. ASSUME NEW i \in 1..n PROVE e[i - 1] <= e[i]
      <4>1. i - 1 \in 0..n
        BY <1>1
      <4>2. e[i - 1] \in Nat /\ Len(ss[i]) \in Nat
        BY <1>1, <1>4, <4>1
      <4>3. e[i] = e[i - 1] + Len(ss[i])
        BY <1>5
      <4> QED BY <4>2, <4>3
    <3> QED BY <3>1
  <2> QED BY <1>1, <1>4, <2>1, Monotone
<1>7. FlattenSeq(ss) = IF n = 0 THEN <<>> ELSE f[n]
  <2>1. CASE n = 0
    BY <2>1, FlattenEmpty DEF n
  <2>2. CASE n # 0
    BY <1>2, <2>2, FlattenIs DEF n
  <2> QED BY <2>1, <2>2
<1>8. FlattenSeq(ss) \in Seq(S) /\ Len(FlattenSeq(ss)) = e[n]
  <2>1. CASE n = 0
    BY <1>4, <1>7, <2>1, EmptySeq
  <2>2. CASE n # 0
    <3>1. n \in 1..n
      BY <1>1, <2>2
    <3> QED BY <1>3, <1>4, <1>7, <2>2, <3>1
  <2> QED BY <2>1, <2>2
<1>9. ASSUME NEW i \in 0..n PROVE Len(FlattenSeq(SubSeq(ss, 1, i))) = e[i]
  <2> DEFINE p == SubSeq(ss, 1, i)
  <2>1. p \in Seq(Seq(S)) /\ Len(p) = i /\ \A k \in 1..i : p[k] = ss[k]
    <3>1. i \in Nat /\ \A k \in 1..i : ss[k] \in Seq(S)
      BY <1>1
    <3>2. /\ p \in Seq(Seq(S)) /\ Len(p) = (IF 1 <= i THEN i - 1 + 1 ELSE 0)
          /\ \A k \in 1..(i - 1 + 1) : p[k] = ss[1 + k - 1]
      BY <3>1, SubSeqProperties
    <3>3. i - 1 + 1 = i /\ \A k \in 1..i : 1 + k - 1 = k
      BY <3>1
    <3> HIDE DEF p
    <3> QED BY <3>1, <3>2, <3>3
  <2> HIDE DEF p
  <2>2. CASE i = 0
    <3>1. FlattenSeq(p) = <<>>
      BY <2>1, <2>2, FlattenEmpty
    <3> QED BY <1>4, <2>2, <3>1 DEF p
  <2>3. CASE i # 0
    <3> DEFINE g == [k \in 1..i |-> f[k]]
    <3>1. i \in Nat /\ i <= n /\ i \in 1..i /\ i \in 1..n /\ \A k \in 1..i : k \in 1..n
      BY <1>1, <2>3
    <3>2. g \in [1..i -> Seq(S)] /\ g[i] = f[i]
      BY <1>3, <3>1
    <3>3. IsFlatten(p, i, g)
      <4>1. ASSUME NEW k \in 1..i
            PROVE  g[k] = IF k = 1 THEN p[k] ELSE g[k - 1] \o p[k]
        <5>1. f[k] = IF k = 1 THEN ss[k] ELSE f[k - 1] \o ss[k]
          BY <1>2, <3>1 DEF IsFlatten
        <5>2. k # 1 => k - 1 \in 1..i
          BY <3>1
        <5>3. g[k] = f[k] /\ (k # 1 => g[k - 1] = f[k - 1]) /\ p[k] = ss[k]
          BY <2>1, <5>2
        <5> HIDE DEF g
        <5> QED BY <5>1, <5>3
      <4> QED BY <4>1 DEF IsFlatten
    <3> HIDE DEF g
    <3>4. FlattenSeq(p) = g[i]
      BY <2>1, <2>3, <3>2, <3>3, FlattenIs
    <3> QED BY <1>4, <3>1, <3>2, <3>4 DEF p
  <2> QED BY <2>2, <2>3
<1>10. ASSUME NEW i \in 1..n, NEW j \in 1..Len(ss[i])
       PROVE  FlattenSeq(ss)[e[i - 1] + j] = ss[i][j]
  <2> DEFINE at0 == e[i - 1] + j
             P == {d \in Nat : i + d <= n => f[i + d][at0] = ss[i][j]}
  <2>1. i - 1 \in 0..n /\ e[i - 1] \in Nat /\ at0 \in Nat /\ at0 >= 1
    BY <1>1, <1>4
  <2>2. at0 <= e[i] /\ e[i] \in Nat
    BY SMTT(60), <1>1, <1>4, <1>5, <2>1
  <2>3. 0 \in P
    <3>1. CASE i = 1
      <4>1. f[i] = ss[i] /\ e[i - 1] = 0
        <5>1. f[i] = ss[i]
          BY <1>2, <3>1 DEF IsFlatten
        <5>2. i - 1 = 0
          BY <3>1
        <5> QED BY <1>4, <5>1, <5>2
      <4>2. i + 0 = i /\ at0 = j
        BY <4>1
      <4> QED BY <4>1, <4>2
    <3>2. CASE i # 1
      <4>1. i - 1 \in 1..n /\ f[i] = f[i - 1] \o ss[i] /\ e[i - 1] = Len(f[i - 1])
        <5>1. i - 1 \in 1..n
          BY <1>1, <3>2
        <5>2. f[i] = f[i - 1] \o ss[i]
          BY <1>2, <3>2 DEF IsFlatten
        <5> QED BY <1>4, <5>1, <5>2
      <4>2. at0 \in 1..(Len(f[i - 1]) + Len(ss[i]))
        BY <1>1, <2>1, <4>1
      <4>3. f[i][at0] = IF at0 <= Len(f[i - 1]) THEN f[i - 1][at0]
                                                ELSE ss[i][at0 - Len(f[i - 1])]
        BY <1>1, <1>3, <4>1, <4>2, ConcatProperties
      <4>4. ~(at0 <= Len(f[i - 1])) /\ at0 - Len(f[i - 1]) = j
        BY <1>1, <2>1, <4>1
      <4>5. i + 0 = i
        OBVIOUS
      <4> QED BY <4>3, <4>4, <4>5
    <3> QED BY <3>1, <3>2
  <2>4. ASSUME NEW d \in Nat, d \in P PROVE d + 1 \in P
    <3>1. SUFFICES ASSUME i + (d + 1) <= n PROVE f[i + (d + 1)][at0] = ss[i][j]
      OBVIOUS
    <3> DEFINE k == i + (d + 1)
    <3>2. k \in 1..n /\ k # 1 /\ k - 1 = i + d /\ i + d \in 1..n /\ i <= i + d
      BY <1>1, <3>1
    <3>3. f[i + d][at0] = ss[i][j]
      BY <2>4, <3>2
    <3> HIDE DEF P, k
    <3>4. f[k] = f[k - 1] \o ss[k]
      BY <1>2, <3>2 DEF IsFlatten
    <3>5. at0 <= Len(f[i + d])
      <4>1. e[i] <= e[i + d] /\ e[i + d] = Len(f[i + d])
        BY <1>1, <1>4, <1>6, <3>2
      <4>2. Len(f[i + d]) \in Nat
        BY <1>3, <3>2
      <4> HIDE DEF at0
      <4> QED BY <2>1, <2>2, <4>1, <4>2
    <3>6. at0 \in 1..(Len(f[k - 1]) + Len(ss[k]))
      <4>1. Len(f[i + d]) \in Nat /\ Len(ss[k]) \in Nat
        BY <1>1, <1>3, <3>2
      <4> DEFINE a == Len(f[k - 1])
                 b == Len(ss[k])
      <4> HIDE DEF at0, a, b
      <4>2. a \in Nat /\ b \in Nat /\ at0 <= a
        BY <3>2, <3>5, <4>1 DEF a, b
      <4>3. at0 \in 1..(a + b)
        BY <2>1, <4>2
      <4> QED BY <4>3 DEF a, b
    <3>7. f[k][at0] = f[k - 1][at0]
      BY <1>1, <1>3, <3>2, <3>4, <3>5, <3>6, ConcatProperties
    <3> QED BY <3>2, <3>3, <3>7 DEF k
  <2>5. n - i \in P
    <3> HIDE DEF P
    <3>1. Nat \subseteq P
      BY <2>3, <2>4, SetInduction
    <3> QED BY <1>1, <3>1
  <2>6. f[n][at0] = ss[i][j]
    <3>1. i + (n - i) = n
      BY <1>1
    <3> QED BY <1>1, <2>5, <3>1
  <2> QED BY <1>1, <1>7, <2>6
<1>11. IsLayout(S, ss, e)
  BY <1>4, <1>5, <1>6, <1>8, <1>9, <1>10 DEF IsLayout, n
<1> QED BY <1>11


-----------------------------------------------------------------------------
(***************************************************************************)
(* TcpOptions.                                                             *)
(***************************************************************************)
WellFormed(o) ==
    /\ o \in Options
    /\ o.kind \notin {0, 1} => o.len = Len(o.data) + 2 \/ (o.len < 2 /\ o.data = <<>>)

Short(o) == o.kind \in {0, 1}

LEMMA SeqFact ==
    ASSUME NEW S, NEW q \in Seq(S)
    PROVE  Len(q) \in Nat /\ DOMAIN q = 1..Len(q) /\ \A k \in 1..Len(q) : q[k] \in S
  OBVIOUS

LEMMA FunctionIsSeq ==
    ASSUME NEW S, NEW n \in Nat, NEW f \in [1..n -> S]
    PROVE  f \in Seq(S) /\ Len(f) = n
  OBVIOUS

LEMMA CountsFact ==
    ASSUME NEW m \in Replies
    PROVE  m \in DnsMessages /\ m.qdcount \in Nat /\ m.ancount \in Nat
<1>1. m \in DnsMessages
  BY ZenonT(60), RepliesAssumption
<1> QED BY <1>1 DEF DnsMessages

LEMMA RangeFact ==
    ASSUME NEW n \in Nat, NEW k \in 1..n
    PROVE  k \in Nat /\ k \in 0..n /\ k - 1 \in 0..n /\ n \in 0..n /\ k <= n
  OBVIOUS

LEMMA BytesFact ==
    ASSUME NEW o, WellFormed(o)
    PROVE  /\ o.kind \in Nat /\ o.len \in Nat /\ o.data \in Seq(Nat)
           /\ Bytes(o) \in Seq(Nat) /\ Bytes(o)[1] = o.kind
           /\ Len(Bytes(o)) = IF Short(o) THEN 1 ELSE IF o.len < 2 THEN 2 ELSE o.len
           /\ ~Short(o) => /\ Bytes(o)[2] = o.len /\ Len(Bytes(o)) = Len(o.data) + 2
                           /\ \A j \in 1..Len(o.data) : Bytes(o)[j + 2] = o.data[j]
<1>1. o.kind \in Nat /\ o.len \in Nat /\ o.data \in Seq(Nat) /\ Len(o.data) \in Nat
  BY DEF WellFormed, Options
<1>2. CASE Short(o)
  <2>1. Bytes(o) = <<o.kind>>
    BY <1>2 DEF Bytes, Short
  <2> QED BY <1>1, <1>2, <2>1
<1>3. CASE ~Short(o)
  <2> DEFINE a == <<o.kind, o.len>>
  <2>1. Bytes(o) = a \o o.data
    BY <1>3 DEF Bytes, Short
  <2>2. a \in Seq(Nat) /\ Len(a) = 2 /\ a[1] = o.kind /\ a[2] = o.len
    BY <1>1
  <2> HIDE DEF a
  <2>3. /\ a \o o.data \in Seq(Nat) /\ Len(a \o o.data) = 2 + Len(o.data)
        /\ \A i \in 1..(2 + Len(o.data)) :
              (a \o o.data)[i] = IF i <= 2 THEN a[i] ELSE o.data[i - 2]
    <3>1. /\ a \o o.data \in Seq(Nat) /\ Len(a \o o.data) = Len(a) + Len(o.data)
          /\ \A i \in 1..(Len(a) + Len(o.data)) :
                (a \o o.data)[i] = IF i <= Len(a) THEN a[i] ELSE o.data[i - Len(a)]
      BY <1>1, <2>2, ConcatProperties
    <3> QED BY <2>2, <3>1
  <2>4. Len(Bytes(o)) = IF o.len < 2 THEN 2 ELSE o.len
    BY <1>1, <1>3, <2>1, <2>3 DEF WellFormed, Short
  <2>5. ASSUME NEW j \in 1..Len(o.data) PROVE Bytes(o)[j + 2] = o.data[j]
    <3>1. j + 2 \in 1..(2 + Len(o.data)) /\ ~(j + 2 <= 2) /\ (j + 2) - 2 = j
      BY <1>1
    <3> QED BY <2>1, <2>3, <3>1
  <2> QED BY SMTT(60), <1>1, <1>3, <2>1, <2>2, <2>3, <2>4, <2>5
<1> QED BY <1>2, <1>3

Pieces(list) == [k \in DOMAIN list |-> Bytes(list[k])]

\* Where the options of a list lie in its encoding.
LEMMA OptionsLaid ==
    ASSUME NEW list \in OptionLists
    PROVE  /\ Len(list) \in Nat /\ \A i \in 1..Len(list) : WellFormed(list[i])
           /\ Encoding(list) \in Seq(Nat) /\ Len(Encoding(list)) = Before(list, Len(list))
           /\ Before(list, 0) = 0 /\ \A i \in 0..Len(list) : Before(list, i) \in Nat
           /\ \A i \in 1..Len(list) :
                 Before(list, i) = Before(list, i - 1) + Len(Bytes(list[i]))
           /\ \A i, j \in 0..Len(list) : i <= j => Before(list, i) <= Before(list, j)
           /\ \A i \in 1..Len(list) : \A j \in 1..Len(Bytes(list[i])) :
                 Encoding(list)[Before(list, i - 1) + j] = Bytes(list[i])[j]
<1> DEFINE n == Len(list)
           ss == Pieces(list)
<1>1. list \in Seq(Options) /\ n \in Nat /\ DOMAIN list = 1..n
      /\ \A i \in 1..n : WellFormed(list[i])
  <2>1. list \in Seq(Options) /\ n \in Nat /\ DOMAIN list = 1..n
    BY OptionsAssumption
  <2>2. ASSUME NEW i \in 1..n PROVE WellFormed(list[i])
    <3>1. list[i] \in Options
      BY <2>1
    <3>2. list[i].kind \notin {0, 1} =>
            list[i].len = Len(list[i].data) + 2 \/ (list[i].len < 2 /\ list[i].data = <<>>)
      BY OptionsAssumption
    <3> QED BY <3>1, <3>2 DEF WellFormed
  <2> QED BY <2>1, <2>2
<1>2. ss \in Seq(Seq(Nat)) /\ Len(ss) = n /\ \A i \in 1..n : ss[i] = Bytes(list[i])
  <2>1. \A i \in 1..n : Bytes(list[i]) \in Seq(Nat)
    BY <1>1, BytesFact
  <2>2. ss = [k \in 1..n |-> Bytes(list[k])]
    BY <1>1 DEF Pieces
  <2> QED BY <1>1, <2>1, <2>2
<1>3. PICK e : IsLayout(Nat, ss, e)
  BY <1>2, LayoutExists
<1>4. Encoding(list) = FlattenSeq(ss)
  BY DEF Encoding, Pieces
<1>5. ASSUME NEW i \in 0..n PROVE Before(list, i) = e[i]
  <2> DEFINE p == SubSeq(list, 1, i)
             q == SubSeq(ss, 1, i)
  <2>1. i \in Nat /\ i <= n /\ (\A k \in 1..i : k \in 1..n)
        /\ i - 1 + 1 = i /\ \A k \in 1..i : 1 + k - 1 = k
    BY <1>1
  <2>2. /\ p \in Seq(Options) /\ Len(p) = (IF 1 <= i THEN i - 1 + 1 ELSE 0)
        /\ \A k \in 1..(i - 1 + 1) : p[k] = list[1 + k - 1]
    <3>1. \A k \in 1..i : list[k] \in Options
      BY <1>1, <2>1
    <3> QED BY <2>1, <3>1, SubSeqProperties
  <2>3. /\ q \in Seq(Seq(Nat)) /\ Len(q) = (IF 1 <= i THEN i - 1 + 1 ELSE 0)
        /\ \A k \in 1..(i - 1 + 1) : q[k] = ss[1 + k - 1]
    <3> HIDE DEF ss
    <3>1. \A k \in 1..i : ss[k] \in Seq(Nat)
      BY <1>2, <2>1
    <3> QED BY <2>1, <3>1, SubSeqProperties
  <2> HIDE DEF p, q, ss
  <2>4. Len(p) = i /\ Len(q) = i /\ \A k \in 1..i : p[k] = list[k] /\ q[k] = ss[k]
    BY <2>1, <2>2, <2>3
  <2>5. Pieces(p) = q
    <3>1. Pieces(p) = [k \in 1..i |-> Bytes(p[k])]
      BY <2>2, <2>4 DEF Pieces
    <3>2. \A k \in 1..i : Bytes(p[k]) = q[k]
      BY <1>2, <2>1, <2>4
    <3>3. q = [k \in 1..i |-> q[k]]
      BY <2>3, <2>4
    <3> QED BY <3>1, <3>2, <3>3
  <2>6. Encoding(p) = FlattenSeq(q)
    BY <2>5 DEF Encoding, Pieces
  <2>7. Len(FlattenSeq(q)) = e[i]
    BY <1>2, <1>3, <2>1 DEF IsLayout, q
  <2> QED BY <2>6, <2>7 DEF Before, p
<1> HIDE DEF ss
<1>6. /\ e \in [0..n -> Nat] /\ e[0] = 0
      /\ \A i \in 1..n : e[i] = e[i - 1] + Len(ss[i])
      /\ \A i, j \in 0..n : i <= j => e[i] <= e[j]
      /\ FlattenSeq(ss) \in Seq(Nat) /\ Len(FlattenSeq(ss)) = e[n]
      /\ \A i \in 1..n : \A j \in 1..Len(ss[i]) : FlattenSeq(ss)[e[i - 1] + j] = ss[i][j]
  BY <1>2, <1>3 DEF IsLayout
<1>7. \A i \in 0..n : Before(list, i) = e[i] /\ e[i] \in Nat
  BY <1>5, <1>6
<1>8. 0 \in 0..n /\ n \in 0..n /\ \A i \in 1..n : i \in 0..n /\ i - 1 \in 0..n
  BY <1>1
<1>9. \A i \in 1..n : Before(list, i) = Before(list, i - 1) + Len(Bytes(list[i]))
  BY <1>2, <1>6, <1>7, <1>8
<1>10. ASSUME NEW i \in 1..n, NEW j \in 1..Len(Bytes(list[i]))
       PROVE  Encoding(list)[Before(list, i - 1) + j] = Bytes(list[i])[j]
  BY ZenonT(60), <1>2, <1>4, <1>6, <1>7, <1>8
<1>11. \A i, j \in 0..n : i <= j => Before(list, i) <= Before(list, j)
  BY <1>6, <1>7
<1> QED BY <1>1, <1>4, <1>6, <1>7, <1>8, <1>9, <1>10, <1>11


\* Option j is one the loop looks for, and v is the value of the last such
\* option among the first i.
Hit(j, kind, size) == given.list[j].kind = kind /\ Len(Bytes(given.list[j])) = size

IsLast(v, i, kind, size) ==
    \/ v = None /\ \A j \in 1..i : ~Hit(j, kind, size)
    \/ \E j \in 1..i : /\ Hit(j, kind, size) /\ v = given.list[j].data
                       /\ \A k \in (j + 1)..i : ~Hit(k, kind, size)

\* The first i options have been read, and none was the end.
LoopAt(i) ==
    /\ Before(given.list, i) <= given.cut
    /\ opts = SubSeq(Encoding(given.list), Before(given.list, i) + 1, given.cut)
    /\ \A j \in 1..i : given.list[j].kind # 0
    /\ IsLast(mss, i, 2, 4) /\ IsLast(wscale, i, 3, 3)

GivenOK ==
    /\ given.list \in OptionLists
    /\ given.cut \in 0..Len(Encoding(given.list))

CutInside ==
    \E i \in DOMAIN given.list :
        /\ Reached(i) /\ given.list[i].kind # 0
        /\ Before(given.list, i - 1) < given.cut
        /\ given.cut < Before(given.list, i)

OptionsInv ==
    /\ GivenOK /\ parsed \in {"loop", "Some", "None"}
    /\ parsed = "loop" => \E i \in 0..Len(given.list) : LoopAt(i)
    /\ parsed = "Some" => mss = LastOf(2, 4) /\ wscale = LastOf(3, 3) /\ ~CutInside
    /\ parsed = "None" => CutInside

\* The bytes in front of the loop are those of the next option.
LEMMA OptionHere ==
    ASSUME GivenOK, NEW i \in 0..Len(given.list), LoopAt(i)
    PROVE  LET list == given.list
               cut == given.cut
           IN  /\ opts \in Seq(Nat) /\ cut \in Nat /\ Before(list, i) \in Nat
               /\ Len(opts) = cut - Before(list, i)
               /\ opts # <<>> =>
                    /\ i + 1 \in 1..Len(list) /\ (i + 1) - 1 = i
                    /\ Before(list, i + 1) = Before(list, i) + Len(Bytes(list[i + 1]))
                    /\ WellFormed(list[i + 1])
                    /\ opts[1] = list[i + 1].kind
                    /\ \A j \in 1..Len(opts) :
                         j <= Len(Bytes(list[i + 1])) => opts[j] = Bytes(list[i + 1])[j]
<1> DEFINE list == given.list
           cut == given.cut
           n == Len(list)
           b == Before(list, i)
           enc == Encoding(list)
<1> USE DEF GivenOK
<1>1. /\ n \in Nat /\ (\A k \in 1..n : WellFormed(list[k])) /\ enc \in Seq(Nat)
      /\ Len(enc) = Before(list, n) /\ (\A k \in 0..n : Before(list, k) \in Nat)
      /\ (\A k \in 1..n : Before(list, k) = Before(list, k - 1) + Len(Bytes(list[k])))
      /\ \A k \in 1..n : \A j \in 1..Len(Bytes(list[k])) :
            enc[Before(list, k - 1) + j] = Bytes(list[k])[j]
  BY OptionsLaid
<1>2. Len(enc) \in Nat /\ cut \in Nat /\ cut <= Len(enc) /\ b \in Nat /\ b <= cut
      /\ opts = SubSeq(enc, b + 1, cut)
  BY <1>1 DEF LoopAt
<1> HIDE DEF enc, b, n
<1>3. /\ opts \in Seq(Nat) /\ Len(opts) = (IF b + 1 <= cut THEN cut - (b + 1) + 1 ELSE 0)
      /\ \A j \in 1..(cut - (b + 1) + 1) : opts[j] = enc[(b + 1) + j - 1]
  <2>1. \A j \in (b + 1)..cut : enc[j] \in Nat
    <3>1. ASSUME NEW j \in (b + 1)..cut PROVE enc[j] \in Nat
      <4>1. j \in 1..Len(enc)
        BY <1>2
      <4> QED BY <1>1, <4>1, ElementOfSeq
    <3> QED BY <3>1
  <2> QED BY SMTT(60), <1>2, <2>1, SubSeqProperties
<1>4. Len(opts) = cut - b
  BY <1>2, <1>3
<1>5. ASSUME NEW j \in 1..Len(opts) PROVE opts[j] = enc[b + j]
  <2>1. j \in 1..(cut - (b + 1) + 1) /\ (b + 1) + j - 1 = b + j
    BY <1>2, <1>4
  <2> QED BY <1>3, <2>1
<1>6. ASSUME opts # <<>>
      PROVE  /\ i + 1 \in 1..n /\ (i + 1) - 1 = i
             /\ Before(list, i + 1) = b + Len(Bytes(list[i + 1]))
             /\ WellFormed(list[i + 1]) /\ opts[1] = list[i + 1].kind
             /\ \A j \in 1..Len(opts) :
                   j <= Len(Bytes(list[i + 1])) => opts[j] = Bytes(list[i + 1])[j]
  <2>1. Len(opts) >= 1 /\ 1 \in 1..Len(opts)
    BY <1>3, <1>6, EmptySeq
  <2>2. i # n
    BY <1>1, <1>2, <1>4, <2>1 DEF b
  <2>3. i + 1 \in 1..n /\ (i + 1) - 1 = i
    BY <1>1, <2>2 DEF n
  <2> DEFINE o == list[i + 1]
  <2>4. /\ WellFormed(o) /\ Before(list, i + 1) = b + Len(Bytes(o))
        /\ \A j \in 1..Len(Bytes(o)) : enc[b + j] = Bytes(o)[j]
    BY <1>1, <2>3 DEF b
  <2> HIDE DEF o
  <2>5. Bytes(o)[1] = o.kind /\ Len(Bytes(o)) \in Nat /\ Len(Bytes(o)) >= 1
    BY SMTT(60), <2>4, BytesFact
  <2>6. ASSUME NEW j \in 1..Len(opts), j <= Len(Bytes(o)) PROVE opts[j] = Bytes(o)[j]
    <3>1. j \in 1..Len(Bytes(o))
      BY <1>2, <1>4, <2>5, <2>6
    <3> QED BY <1>5, <2>4, <3>1
  <2>7. opts[1] = o.kind
    BY <2>1, <2>5, <2>6
  <2> QED BY <2>3, <2>4, <2>6, <2>7 DEF o
<1> QED BY <1>2, <1>3, <1>4, <1>6 DEF b, n

\* What the loop has found is what the list says, once no option behind the
\* first i counts.
LEMMA LastIs ==
    ASSUME GivenOK, NEW i \in 0..Len(given.list), NEW v, NEW kind, NEW size,
           IsLast(v, i, kind, size), \A j \in 1..i : Whole(j),
           \A j \in DOMAIN given.list : j > i => ~(Whole(j) /\ Hit(j, kind, size))
    PROVE  v = LastOf(kind, size)
<1> DEFINE is == {j \in DOMAIN given.list :
                     Whole(j) /\ given.list[j].kind = kind /\ Len(Bytes(given.list[j])) = size}
<1>1. DOMAIN given.list = 1..Len(given.list) /\ Len(given.list) \in Nat
  BY OptionsAssumption DEF GivenOK
<1>2. \A j : j \in is <=> j \in 1..i /\ Hit(j, kind, size)
  BY <1>1 DEF Hit
<1>3. LastOf(kind, size) = IF is = {} THEN None
                           ELSE given.list[CHOOSE j \in is : \A k \in is : k <= j].data
  BY DEF LastOf
<1> HIDE DEF is
<1>4. CASE v = None /\ \A j \in 1..i : ~Hit(j, kind, size)
  BY <1>2, <1>3, <1>4
<1>5. ASSUME NEW j \in 1..i, Hit(j, kind, size), v = given.list[j].data,
             \A k \in (j + 1)..i : ~Hit(k, kind, size)
      PROVE  v = LastOf(kind, size)
  <2>1. j \in is /\ \A k \in is : k \in 1..i /\ k <= j
    <3>1. ASSUME NEW k \in is PROVE k \in 1..i /\ k <= j
      <4>1. k \in 1..i /\ Hit(k, kind, size)
        BY <1>2
      <4>2. ~(k \in (j + 1)..i)
        BY <1>5, <4>1
      <4> QED BY <4>1, <4>2
    <3> QED BY <1>2, <1>5, <3>1
  <2>2. \A x \in is : (\A k \in is : k <= x) => x = j
    BY <2>1
  <2>3. (CHOOSE x \in is : \A k \in is : k <= x) = j
    BY <2>1, <2>2
  <2> QED BY <1>3, <1>5, <2>1, <2>3
<1> QED BY <1>4, <1>5 DEF IsLast

\* One more option, which is or is not one that counts.
LEMMA LastNext ==
    ASSUME NEW i \in Nat, NEW v, NEW w, NEW kind, NEW size,
           IsLast(v, i, kind, size),
           w = IF Hit(i + 1, kind, size) THEN given.list[i + 1].data ELSE v
    PROVE  IsLast(w, i + 1, kind, size)
<1>1. CASE Hit(i + 1, kind, size)
  <2>1. i + 1 \in 1..(i + 1) /\ ((i + 1) + 1)..(i + 1) = {}
    OBVIOUS
  <2> QED BY <1>1, <2>1 DEF IsLast
<1>2. CASE ~Hit(i + 1, kind, size)
  <2>1. w = v
    BY <1>2
  <2>2. CASE v = None /\ \A j \in 1..i : ~Hit(j, kind, size)
    <3>1. ASSUME NEW j \in 1..(i + 1) PROVE ~Hit(j, kind, size)
      <4>1. j = i + 1 \/ j \in 1..i
        OBVIOUS
      <4> QED BY <1>2, <2>2, <4>1
    <3> QED BY <2>1, <2>2, <3>1 DEF IsLast
  <2>3. ASSUME NEW j \in 1..i, Hit(j, kind, size), v = given.list[j].data,
               \A k \in (j + 1)..i : ~Hit(k, kind, size)
        PROVE  IsLast(w, i + 1, kind, size)
    <3>1. ASSUME NEW k \in (j + 1)..(i + 1) PROVE ~Hit(k, kind, size)
      <4>1. k = i + 1 \/ k \in (j + 1)..i
        OBVIOUS
      <4> QED BY <1>2, <2>3, <4>1
    <3>2. j \in 1..(i + 1)
      OBVIOUS
    <3> QED BY <2>1, <2>3, <3>1, <3>2 DEF IsLast
  <2> QED BY <2>2, <2>3 DEF IsLast
<1> QED BY <1>1, <1>2


\* Behind a prefix of a slice is the slice that starts later.
LEMMA SliceBehind ==
    ASSUME NEW enc \in Seq(Nat), NEW b \in Nat, NEW cut \in Nat, b <= cut, cut <= Len(enc),
           NEW s \in Nat, b + s <= cut
    PROVE  \A o : o = SubSeq(enc, b + 1, cut)
                    => SubSeq(o, s + 1, Len(o)) = SubSeq(enc, (b + s) + 1, cut)
<1> DEFINE o == SubSeq(enc, b + 1, cut)
           x == SubSeq(o, s + 1, Len(o))
           y == SubSeq(enc, (b + s) + 1, cut)
<1>1. Len(enc) \in Nat /\ \A j \in 1..Len(enc) : enc[j] \in Nat
  BY ElementOfSeq
<1>2. o \in Seq(Nat) /\ Len(o) = cut - b /\ \A j \in 1..(cut - b) : o[j] = enc[b + j]
  <2>1. \A j \in (b + 1)..cut : enc[j] \in Nat
    BY <1>1
  <2>2. /\ o \in Seq(Nat) /\ Len(o) = (IF b + 1 <= cut THEN cut - (b + 1) + 1 ELSE 0)
        /\ \A j \in 1..(cut - (b + 1) + 1) : o[j] = enc[(b + 1) + j - 1]
    BY <2>1, SubSeqProperties
  <2>3. cut - (b + 1) + 1 = cut - b /\ \A j \in 1..(cut - b) : (b + 1) + j - 1 = b + j
    OBVIOUS
  <2> HIDE DEF o
  <2>4. Len(o) = cut - b
    <3>1. b + 1 <= cut \/ cut - b = 0
      OBVIOUS
    <3>2. Len(o) = (IF b + 1 <= cut THEN cut - (b + 1) + 1 ELSE 0)
      BY Zenon, <2>2
    <3> QED BY <2>3, <3>1, <3>2
  <2>5. ASSUME NEW j \in 1..(cut - b) PROVE o[j] = enc[b + j]
    <3>1. j \in 1..(cut - (b + 1) + 1) /\ (b + 1) + j - 1 = b + j
      BY Zenon, <2>3
    <3>2. o[j] = enc[(b + 1) + j - 1]
      BY Zenon, <2>2, <3>1
    <3> QED BY Zenon, <3>1, <3>2
  <2> QED BY Zenon, <2>2, <2>4, <2>5
<1>3. y \in Seq(Nat) /\ Len(y) = cut - (b + s)
      /\ \A j \in 1..(cut - (b + s)) : y[j] = enc[(b + s) + j]
  <2>1. \A j \in ((b + s) + 1)..cut : enc[j] \in Nat
    BY <1>1
  <2>2. /\ y \in Seq(Nat)
        /\ Len(y) = (IF (b + s) + 1 <= cut THEN cut - ((b + s) + 1) + 1 ELSE 0)
        /\ \A j \in 1..(cut - ((b + s) + 1) + 1) : y[j] = enc[((b + s) + 1) + j - 1]
    BY <2>1, SubSeqProperties
  <2>3. /\ cut - ((b + s) + 1) + 1 = cut - (b + s)
        /\ \A j \in 1..(cut - (b + s)) : ((b + s) + 1) + j - 1 = (b + s) + j
    OBVIOUS
  <2> HIDE DEF y
  <2> QED BY <2>2, <2>3
<1> HIDE DEF o, y
<1>4. x \in Seq(Nat) /\ Len(x) = cut - (b + s)
      /\ \A j \in 1..(cut - (b + s)) : x[j] = o[s + j]
  <2> DEFINE l == Len(o)
  <2>1. \A j \in (s + 1)..l : o[j] \in Nat
    BY <1>2
  <2> HIDE DEF l
  <2>2. l \in Int
    BY <1>2 DEF l
  <2>3. /\ x \in Seq(Nat) /\ Len(x) = (IF s + 1 <= l THEN l - (s + 1) + 1 ELSE 0)
        /\ \A j \in 1..(l - (s + 1) + 1) : x[j] = o[(s + 1) + j - 1]
    <3> DEFINE f == s + 1
    <3>1. f \in Int
      OBVIOUS
    <3>2. \A j \in f..l : o[j] \in Nat
      BY <2>1
    <3>3. x = SubSeq(o, f, l)
      BY DEF l
    <3> HIDE DEF f, x
    <3>4. /\ x \in Seq(Nat) /\ Len(x) = (IF f <= l THEN l - f + 1 ELSE 0)
          /\ \A j \in 1..(l - f + 1) : x[j] = o[f + j - 1]
      BY <2>2, <3>1, <3>2, <3>3, SubSeqProperties
    <3> QED BY Zenon, <3>4 DEF f
  <2>4. /\ l - (s + 1) + 1 = cut - (b + s) /\ (~(s + 1 <= l) => cut - (b + s) = 0)
        /\ \A j \in 1..(cut - (b + s)) : (s + 1) + j - 1 = s + j
    BY <1>2 DEF l
  <2> HIDE DEF x
  <2> QED BY <2>3, <2>4
<1> HIDE DEF x
<1>5. ASSUME NEW j \in 1..Len(x) PROVE x[j] = y[j]
  <2>1. j \in 1..(cut - (b + s)) /\ s + j \in 1..(cut - b) /\ b + (s + j) = (b + s) + j
    BY <1>4
  <2> QED BY <1>2, <1>3, <1>4, <2>1
<1>6. x = y
  BY <1>3, <1>4, <1>5, SeqEqual
<1> QED BY <1>6 DEF o, x, y

\* The loop goes on behind an option that is all there and is not the end.
LEMMA LoopGoesOn ==
    ASSUME GivenOK, NEW i \in 0..Len(given.list), LoopAt(i), opts # <<>>,
           given.list[i + 1].kind # 0, given' = given, parsed' = "loop",
           NEW s \in Nat, s = Len(Bytes(given.list[i + 1])), s <= Len(opts),
           opts' = SubSeq(opts, s + 1, Len(opts)),
           mss' = IF Hit(i + 1, 2, 4) THEN given.list[i + 1].data ELSE mss,
           wscale' = IF Hit(i + 1, 3, 3) THEN given.list[i + 1].data ELSE wscale
    PROVE  OptionsInv'
<1> DEFINE list == given.list
           cut == given.cut
           enc == Encoding(list)
           b == Before(list, i)
<1>1. /\ cut \in Nat /\ b \in Nat /\ Len(opts) = cut - b /\ i + 1 \in 1..Len(list)
      /\ Before(list, i + 1) = b + s
  BY OptionHere
<1>2. enc \in Seq(Nat) /\ cut <= Len(enc) /\ b <= cut /\ opts = SubSeq(enc, b + 1, cut)
      /\ Len(list) \in Nat
  BY OptionsLaid DEF GivenOK, LoopAt
<1>3. b + s <= cut
  BY <1>1
<1> HIDE DEF enc, b, cut, list
<1>4. opts' = SubSeq(enc, (b + s) + 1, cut)
  <2>1. SubSeq(opts, s + 1, Len(opts)) = SubSeq(enc, (b + s) + 1, cut)
    <3>1. /\ enc \in Seq(Nat) /\ b \in Nat /\ cut \in Nat /\ b <= cut
          /\ cut <= Len(enc) /\ s \in Nat /\ b + s <= cut
      BY <1>1, <1>2, <1>3
    <3>2. opts = SubSeq(enc, b + 1, cut)
      BY <1>2
    <3>3. \A o : o = SubSeq(enc, b + 1, cut)
                  => SubSeq(o, s + 1, Len(o)) = SubSeq(enc, (b + s) + 1, cut)
      BY ZenonT(60), <3>1, SliceBehind
    <3> QED BY <3>2, <3>3
  <2> QED BY <2>1
<1> USE DEF list, cut
<1>5. \A j \in 1..(i + 1) : list[j].kind # 0
  <2>1. ASSUME NEW j \in 1..(i + 1) PROVE list[j].kind # 0
    <3>1. j = i + 1 \/ j \in 1..i
      BY <1>2
    <3> QED BY <3>1 DEF LoopAt
  <2> QED BY <2>1
<1>6. i \in Nat
  BY <1>2
<1>7. IsLast(mss', i + 1, 2, 4) /\ IsLast(wscale', i + 1, 3, 3)
  BY <1>6, LastNext DEF LoopAt
<1>8. LoopAt(i + 1)'
  <2>1. IsLast(mss, i + 1, 2, 4)' /\ IsLast(wscale, i + 1, 3, 3)'
    BY <1>7 DEF IsLast, Hit
  <2> QED BY <1>1, <1>3, <1>4, <1>5, <2>1 DEF LoopAt, enc
<1>9. GivenOK'
  BY DEF GivenOK
<1>10. i + 1 \in 0..Len(given'.list)
  BY <1>1, <1>2
<1> QED BY <1>8, <1>9, <1>10 DEF OptionsInv

LEMMA EndInv == ASSUME OptionsInv, OptionsEnd PROVE OptionsInv'
<1> DEFINE list == given.list
           cut == given.cut
           n == Len(list)
<1>1. GivenOK /\ parsed = "loop" /\ parsed' = "Some"
      /\ UNCHANGED <<given, opts, mss, wscale>>
  BY DEF OptionsInv, OptionsEnd, Return
<1>2. PICK i \in 0..n : LoopAt(i)
  BY <1>1 DEF OptionsInv
<1> DEFINE b == Before(list, i)
<1>3. /\ n \in Nat /\ DOMAIN list = 1..n
      /\ (\A k \in 1..n : WellFormed(list[k])) /\ (\A k \in 0..n : Before(list, k) \in Nat)
      /\ \A k \in 1..n : Before(list, k) = Before(list, k - 1) + Len(Bytes(list[k]))
  BY SMTT(60), <1>1, OptionsLaid, OptionsAssumption DEF GivenOK
<1>4. \A j, k \in 0..n : j <= k => Before(list, j) <= Before(list, k)
  BY <1>1, OptionsLaid DEF GivenOK
<1>5. /\ cut \in Nat /\ b \in Nat /\ Len(opts) = cut - b /\ b <= cut /\ opts \in Seq(Nat)
      /\ opts # <<>> => i + 1 \in 1..n /\ list[i + 1].kind = 0
  <2>1. opts # <<>> => opts[1] = 0
    BY DEF OptionsEnd
  <2>2. b <= cut
    BY <1>2 DEF LoopAt
  <2> QED BY <1>1, <1>2, <2>1, <2>2, OptionHere
<1> HIDE DEF b
\* An option behind the first i starts at the cut or is the end or behind it.
<1>6. ASSUME NEW j \in 1..n, j > i, Reached(j), list[j].kind # 0
      PROVE  cut <= Before(list, j - 1) /\ cut < Before(list, j)
  <2>1. opts = <<>>
    <3>1. ASSUME opts # <<>> PROVE FALSE
      <4>1. i + 1 \in 1..n /\ list[i + 1].kind = 0
        BY <1>5, <3>1
      <4>2. j # i + 1
        BY <1>6, <4>1
      <4>3. i + 1 \in 1..(j - 1)
        BY <1>3, <1>6, <4>1, <4>2
      <4> QED BY <1>6, <4>1, <4>3 DEF Reached
    <3> QED BY <3>1
  <2>2. cut = b
    BY <1>5, <2>1, EmptySeq
  <2>3. j - 1 \in 0..n /\ i <= j - 1 /\ j \in 0..n
    BY <1>3, <1>6
  <2>4. b <= Before(list, j - 1)
    BY <1>4, <2>3 DEF b
  <2>5. Len(Bytes(list[j])) \in Nat /\ Len(Bytes(list[j])) >= 1
    <3> DEFINE o == list[j]
    <3>1. WellFormed(o)
      BY <1>3
    <3> HIDE DEF o
    <3>2. Bytes(o) \in Seq(Nat) /\ o.len \in Nat
          /\ Len(Bytes(o)) = IF Short(o) THEN 1 ELSE IF o.len < 2 THEN 2 ELSE o.len
      BY <3>1, BytesFact
    <3>3. Len(Bytes(o)) \in Nat /\ Len(Bytes(o)) >= 1
      BY <3>2
    <3> QED BY <3>3 DEF o
  <2>6. Before(list, j) = Before(list, j - 1) + Len(Bytes(list[j]))
        /\ Before(list, j - 1) \in Nat
    BY <1>3, <2>3
  <2> QED BY <1>5, <2>2, <2>4, <2>5, <2>6
<1>7. \A j \in 1..i : Whole(j)
  <2>1. ASSUME NEW j \in 1..i PROVE Whole(j)
    <3>1. Reached(j)
      <4>1. ASSUME NEW k \in 1..(j - 1) PROVE list[k].kind # 0
        <5>1. k \in 1..i
          BY <1>3
        <5> QED BY <1>2, <5>1 DEF LoopAt
      <4> QED BY <4>1 DEF Reached
    <3>2. j \in 0..n /\ j <= i
      BY <1>3
    <3>3. Before(list, j) <= b /\ Before(list, j) \in Nat
      BY <1>3, <1>4, <3>2 DEF b
    <3> QED BY <1>5, <3>1, <3>3 DEF Whole
  <2> QED BY <2>1
<1>8. ASSUME NEW kind, NEW size, kind # 0, NEW v, IsLast(v, i, kind, size)
      PROVE  v = LastOf(kind, size)
  <2>1. ASSUME NEW j \in DOMAIN list, j > i, Whole(j), Hit(j, kind, size) PROVE FALSE
    <3>1. j \in 1..n /\ Reached(j) /\ list[j].kind # 0 /\ Before(list, j) <= cut
      BY <1>3, <1>8, <2>1 DEF Whole, Hit
    <3>2. Before(list, j) \in Nat
      BY <1>3, <3>1
    <3>3. cut < Before(list, j)
      BY <1>6, <2>1, <3>1
    <3> QED BY <1>5, <3>1, <3>2, <3>3
  <2> QED BY <1>1, <1>7, <1>8, <2>1, LastIs
<1>9. mss = LastOf(2, 4) /\ wscale = LastOf(3, 3)
  BY <1>2, <1>8 DEF LoopAt
<1>10. ~CutInside
  <2>1. ASSUME NEW j \in DOMAIN list, Reached(j), list[j].kind # 0,
               Before(list, j - 1) < cut, cut < Before(list, j)
        PROVE  FALSE
    <3>1. j \in 1..n /\ j \in 0..n /\ j - 1 \in 0..n
      BY <1>3
    <3>2. CASE j > i
      <4>1. cut <= Before(list, j - 1)
        BY <1>6, <2>1, <3>1, <3>2
      <4>2. Before(list, j - 1) \in Nat
        BY <1>3, <3>1
      <4>3. Before(list, j - 1) < cut
        BY <2>1
      <4> QED BY <1>5, <4>1, <4>2, <4>3
    <3>3. CASE j <= i
      <4>1. Before(list, j) <= b
        BY <1>4, <3>1, <3>3 DEF b
      <4> QED BY SMTT(60), <1>3, <1>5, <2>1, <3>1, <4>1
    <3> QED BY <1>3, <3>1, <3>2, <3>3
  <2> QED BY <2>1 DEF CutInside
<1>11. /\ mss' = mss /\ wscale' = wscale /\ GivenOK' /\ parsed' = "Some"
       /\ LastOf(2, 4)' = LastOf(2, 4) /\ LastOf(3, 3)' = LastOf(3, 3)
       /\ CutInside' = CutInside
  BY <1>1 DEF GivenOK, LastOf, CutInside, Reached, Whole
<1> QED BY <1>9, <1>10, <1>11 DEF OptionsInv


LEMMA OneIsNat == 1 \in Nat
  OBVIOUS

LEMMA NopInv == ASSUME OptionsInv, SkipNop PROVE OptionsInv'
<1>1. /\ GivenOK /\ parsed = "loop" /\ parsed' = "loop" /\ opts # <<>> /\ opts[1] = 1
      /\ opts' = Tail(opts) /\ given' = given /\ mss' = mss /\ wscale' = wscale
  BY DEF OptionsInv, SkipNop
<1>2. PICK i \in 0..Len(given.list) : LoopAt(i)
  BY <1>1 DEF OptionsInv
<1> DEFINE o == given.list[i + 1]
<1>3. opts \in Seq(Nat) /\ WellFormed(o) /\ o.kind = 1
  BY <1>1, <1>2, OptionHere
<1>4. Len(Bytes(o)) = 1
  BY <1>3, BytesFact DEF Short
<1>5. Len(opts) \in Nat /\ 1 <= Len(opts)
  BY <1>1, <1>3, EmptySeq
<1>6. opts' = SubSeq(opts, 1 + 1, Len(opts))
  BY <1>1, <1>3, TailIsSubSeq
<1>7. ~Hit(i + 1, 2, 4) /\ ~Hit(i + 1, 3, 3)
  BY <1>3 DEF Hit
<1>8. 1 = Len(Bytes(given.list[i + 1])) /\ given.list[i + 1].kind # 0
  BY <1>3, <1>4
<1>9. /\ mss' = (IF Hit(i + 1, 2, 4) THEN given.list[i + 1].data ELSE mss)
      /\ wscale' = (IF Hit(i + 1, 3, 3) THEN given.list[i + 1].data ELSE wscale)
  BY <1>1, <1>7
<1> QED BY Zenon, <1>1, <1>2, <1>5, <1>6, <1>8, <1>9, LoopGoesOn, OneIsNat

\* The kind and length byte in front of the loop, and the option's size.
LEMMA StepFact ==
    ASSUME GivenOK, NEW i \in 0..Len(given.list), LoopAt(i), HasOption
    PROVE  LET o == given.list[i + 1]
           IN  /\ WellFormed(o) /\ o.kind = opts[1] /\ ~Short(o)
               /\ Len(Bytes(o)) \in Nat /\ Len(Bytes(o)) >= 2
               /\ Len(opts) >= 2 => Step = Len(Bytes(o))
<1> DEFINE o == given.list[i + 1]
<1>1. /\ opts # <<>> /\ opts[1] \notin {0, 1} /\ opts \in Seq(Nat) /\ Len(opts) \in Nat
      /\ WellFormed(o) /\ opts[1] = o.kind
      /\ \A j \in 1..Len(opts) : j <= Len(Bytes(o)) => opts[j] = Bytes(o)[j]
  BY OptionHere DEF HasOption
<1> HIDE DEF o
<1>2. ~Short(o)
  BY <1>1 DEF Short
<1>3. /\ o.len \in Nat /\ Bytes(o)[2] = o.len
      /\ Len(Bytes(o)) = IF o.len < 2 THEN 2 ELSE o.len
  BY <1>1, <1>2, BytesFact
<1>4. Len(Bytes(o)) \in Nat /\ Len(Bytes(o)) >= 2
  BY <1>3
<1>5. ASSUME Len(opts) >= 2 PROVE Step = Len(Bytes(o))
  <2>1. 2 \in 1..Len(opts) /\ 2 <= Len(Bytes(o))
    BY <1>1, <1>4, <1>5
  <2>2. opts[2] = o.len
    BY <1>1, <1>3, <2>1
  <2> QED BY <1>3, <2>2 DEF Step
<1> QED BY <1>1, <1>2, <1>4, <1>5 DEF o

LEMMA OptionCutInv == ASSUME OptionsInv, OptionCut PROVE OptionsInv'
<1> DEFINE list == given.list
           cut == given.cut
<1>1. /\ GivenOK /\ parsed = "loop" /\ HasOption /\ parsed' = "None"
      /\ UNCHANGED <<given, opts, mss, wscale>> /\ (Len(opts) >= 2 => Len(opts) < Step)
  BY DEF OptionsInv, OptionCut, HasOption, Return
<1>2. PICK i \in 0..Len(list) : LoopAt(i)
  BY <1>1 DEF OptionsInv
<1> DEFINE o == list[i + 1]
           b == Before(list, i)
<1>3. /\ opts # <<>> /\ opts \in Seq(Nat) /\ cut \in Nat /\ b \in Nat
      /\ Len(opts) = cut - b /\ i + 1 \in 1..Len(list) /\ (i + 1) - 1 = i
      /\ Before(list, i + 1) = b + Len(Bytes(o)) /\ o.kind # 0
  BY <1>1, <1>2, OptionHere DEF HasOption
<1>4. Len(Bytes(o)) \in Nat /\ Len(Bytes(o)) >= 2 /\ (Len(opts) >= 2 => Step = Len(Bytes(o)))
  BY <1>1, <1>2, StepFact
<1> HIDE DEF b, o
<1>5. Len(opts) \in Nat /\ Len(opts) >= 1 /\ Len(opts) < Len(Bytes(o))
  <2>1. Len(opts) \in Nat /\ Len(opts) >= 1
    BY <1>3, EmptySeq
  <2>2. CASE Len(opts) >= 2
    <3>1. Len(opts) < Step /\ Step = Len(Bytes(o))
      BY <1>1, <1>4, <2>2
    <3> QED BY <2>1, <3>1
  <2>3. CASE ~(Len(opts) >= 2)
    BY <1>4, <2>1, <2>3
  <2> QED BY <2>2, <2>3
<1>6. b < cut /\ cut < Before(list, i + 1)
  BY SMTT(60), <1>3, <1>4, <1>5
<1>7. Reached(i + 1)
  BY <1>2, <1>3 DEF Reached, LoopAt
<1>8. i + 1 \in DOMAIN list
  BY SMTT(60), <1>1, <1>3, OptionsAssumption DEF GivenOK
<1>9. CutInside
  BY <1>3, <1>6, <1>7, <1>8 DEF CutInside, b, o
<1>10. GivenOK' /\ CutInside' = CutInside
  BY <1>1 DEF GivenOK, CutInside, Reached
<1> QED BY <1>1, <1>9, <1>10 DEF OptionsInv

LEMMA TakeInv == ASSUME OptionsInv, TakeOption PROVE OptionsInv'
<1>1. /\ GivenOK /\ parsed = "loop" /\ HasOption /\ parsed' = "loop" /\ given' = given
      /\ Len(opts) >= 2 /\ Len(opts) >= Step
      /\ mss' = (IF opts[1] = 2 /\ Step = 4 THEN <<opts[3], opts[4]>> ELSE mss)
      /\ wscale' = (IF opts[1] = 3 /\ Step = 3 THEN <<opts[3]>> ELSE wscale)
      /\ opts' = SubSeq(opts, Step + 1, Len(opts))
  BY DEF OptionsInv, TakeOption, HasOption
<1>2. PICK i \in 0..Len(given.list) : LoopAt(i)
  BY <1>1 DEF OptionsInv
<1> DEFINE o == given.list[i + 1]
           s == Len(Bytes(o))
<1>3. /\ WellFormed(o) /\ o.kind = opts[1] /\ ~Short(o) /\ s \in Nat /\ s >= 2 /\ Step = s
  BY <1>1, <1>2, StepFact
<1>4. /\ opts # <<>> /\ opts \in Seq(Nat) /\ Len(opts) \in Nat /\ s <= Len(opts)
      /\ \A j \in 1..Len(opts) : j <= s => opts[j] = Bytes(o)[j]
  <2>1. opts # <<>>
    BY <1>1 DEF HasOption
  <2>2. opts \in Seq(Nat) /\ \A j \in 1..Len(opts) : j <= s => opts[j] = Bytes(o)[j]
    BY <1>1, <1>2, <2>1, OptionHere
  <2>3. Len(opts) >= s /\ Len(opts) \in Nat
    BY <1>1, <1>3, <2>2
  <2> HIDE DEF s, o
  <2> QED BY <1>3, <2>1, <2>2, <2>3
<1> HIDE DEF o
<1>5. o.data \in Seq(Nat) /\ s = Len(o.data) + 2 /\ Len(o.data) \in Nat
      /\ \A j \in 1..Len(o.data) : Bytes(o)[j + 2] = o.data[j]
  <2>1. WellFormed(o) /\ ~Short(o)
    BY Zenon, <1>3
  <2> QED BY ZenonT(60), <2>1, BytesFact, SeqFact
<1> HIDE DEF s
<1>6. ASSUME NEW j \in 1..Len(o.data) PROVE opts[j + 2] = o.data[j]
  <2>1. j + 2 \in 1..Len(opts) /\ j + 2 <= s
    BY <1>4, <1>5
  <2> QED BY <1>4, <1>5, <2>1
<1>7. s = 4 => <<opts[3], opts[4]>> = o.data
  <2>1. SUFFICES ASSUME s = 4 PROVE <<opts[3], opts[4]>> = o.data
    OBVIOUS
  <2>2. Len(o.data) = 2 /\ 1 \in 1..Len(o.data) /\ 2 \in 1..Len(o.data)
    <3> DEFINE l == Len(o.data)
    <3> HIDE DEF l
    <3>1. l \in Nat /\ 4 = l + 2
      BY <1>5, <2>1 DEF l
    <3>2. l = 2
      BY <3>1
    <3> QED BY <3>2 DEF l
  <2>3. opts[3] = o.data[1] /\ opts[4] = o.data[2]
    BY <1>6, <2>2
  <2>4. o.data = <<o.data[1], o.data[2]>>
    BY <1>5, <2>2
  <2> QED BY <2>3, <2>4
<1>8. s = 3 => <<opts[3]>> = o.data
  <2>1. SUFFICES ASSUME s = 3 PROVE <<opts[3]>> = o.data
    OBVIOUS
  <2>2. Len(o.data) = 1 /\ 1 \in 1..Len(o.data)
    <3> DEFINE l == Len(o.data)
    <3> HIDE DEF l
    <3>1. l \in Nat /\ 3 = l + 2
      BY <1>5, <2>1 DEF l
    <3>2. l = 1
      BY <3>1
    <3> QED BY <3>2 DEF l
  <2>3. opts[3] = o.data[1]
    BY <1>6, <2>2
  <2>4. o.data = <<o.data[1]>>
    BY <1>5, <2>2
  <2> QED BY <2>3, <2>4
<1>9. /\ mss' = (IF Hit(i + 1, 2, 4) THEN given.list[i + 1].data ELSE mss)
      /\ wscale' = (IF Hit(i + 1, 3, 3) THEN given.list[i + 1].data ELSE wscale)
  BY <1>1, <1>3, <1>7, <1>8 DEF Hit, o, s
<1>10. given.list[i + 1].kind # 0
  BY <1>3 DEF o, Short
<1>11. opts' = SubSeq(opts, s + 1, Len(opts))
  BY <1>1, <1>3
<1>12. s = Len(Bytes(given.list[i + 1])) /\ s \in Nat /\ s <= Len(opts)
  BY <1>3, <1>4 DEF s, o
<1> QED BY <1>1, <1>2, <1>4, <1>9, <1>10, <1>11, <1>12, LoopGoesOn

LEMMA OptionsInvariant == OptionsSpec => []OptionsInv
<1>1. OptionsInit => OptionsInv
  <2>1. SUFFICES ASSUME OptionsInit PROVE OptionsInv
    OBVIOUS
  <2>2. PICK list \in OptionLists : \E cut \in 0..Len(Encoding(list)) :
            /\ given = [list |-> list, cut |-> cut] /\ opts = SubSeq(Encoding(list), 1, cut)
    BY <2>1 DEF OptionsInit
  <2>3. PICK cut \in 0..Len(Encoding(list)) :
            /\ given = [list |-> list, cut |-> cut] /\ opts = SubSeq(Encoding(list), 1, cut)
    BY <2>2
  <2>4. GivenOK
    BY <2>3 DEF GivenOK
  <2>5. Before(given.list, 0) = 0 /\ Len(Encoding(list)) \in Nat /\ Len(given.list) \in Nat
    BY <2>3, OptionsLaid
  <2>6. mss = None /\ wscale = None /\ parsed = "loop"
    BY <2>1 DEF OptionsInit
  <2>7. IsLast(mss, 0, 2, 4) /\ IsLast(wscale, 0, 3, 3)
    BY <2>6 DEF IsLast
  <2>8. LoopAt(0)
    BY <2>3, <2>5, <2>7 DEF LoopAt
  <2> QED BY <2>4, <2>5, <2>6, <2>8 DEF OptionsInv
<1>2. OptionsInv /\ [OptionsNext]_optionVars => OptionsInv'
  <2>1. SUFFICES ASSUME OptionsInv, [OptionsNext]_optionVars PROVE OptionsInv'
    OBVIOUS
  <2>2. CASE UNCHANGED optionVars
    <3>1. UNCHANGED <<given, opts, mss, wscale, parsed>>
      BY <2>2 DEF optionVars
    <3>2. GivenOK' = GivenOK /\ CutInside' = CutInside /\ LastOf(2, 4)' = LastOf(2, 4)
          /\ LastOf(3, 3)' = LastOf(3, 3)
      BY <3>1 DEF GivenOK, LastOf, CutInside, Reached, Whole
    <3>3. ASSUME NEW i, LoopAt(i) PROVE LoopAt(i)'
      BY <3>1, <3>3 DEF LoopAt, IsLast, Hit
    <3> QED BY <2>1, <3>1, <3>2, <3>3 DEF OptionsInv
  <2> QED BY <2>1, <2>2, EndInv, NopInv, OptionCutInv, TakeInv DEF OptionsNext
<1> QED BY <1>1, <1>2, PTL DEF OptionsSpec

\* OptionsRead, for option lists of any length: TcpHdr::parse reads MSS and
\* window scale as the last such option of the header gives them, wherever
\* the header is cut, and refuses it exactly when it ends inside an option.
THEOREM OptionsSafety == OptionsSpec => []OptionsRead
<1>1. OptionsInv => OptionsRead
  <2>1. SUFFICES ASSUME OptionsInv PROVE OptionsRead
    OBVIOUS
  <2>2. ASSUME parsed = "loop"
        PROVE  \E i \in 0..Len(given.list) :
                  opts = SubSeq(Encoding(given.list), Before(given.list, i) + 1, given.cut)
    BY <2>1, <2>2 DEF OptionsInv, LoopAt
  <2>3. parsed # "loop" => (parsed = "None" <=> CutInside)
    BY SMTT(60), <2>1 DEF OptionsInv
  <2> QED BY <2>1, <2>2, <2>3 DEF OptionsInv, OptionsRead, CutInside
<1> QED BY <1>1, OptionsInvariant, PTL

-----------------------------------------------------------------------------
(***************************************************************************)
(* Dns.                                                                    *)
(***************************************************************************)
LEMMA PairFact ==
    ASSUME NEW A, NEW B, NEW e \in A \X B
    PROVE  \E p \in A, q \in B : e = <<p, q>>
  BY SMTT(60)

LEMMA EndFact ==
    ASSUME NEW e \in NameEnds
    PROVE  /\ e \in Seq(Nat) /\ (Len(e) = 1 \/ Len(e) = 2) /\ e[1] \notin 1..191
           /\ Len(e) = IF e[1] = 0 THEN 1 ELSE 2
<1>1. CASE e = <<0>>
  BY <1>1
<1>2. ASSUME NEW p \in 192..255, NEW q \in 0..255, e = <<p, q>>
      PROVE  /\ e \in Seq(Nat) /\ (Len(e) = 1 \/ Len(e) = 2) /\ e[1] \notin 1..191
             /\ Len(e) = IF e[1] = 0 THEN 1 ELSE 2
  <2>1. p \in Nat /\ q \in Nat /\ p # 0 /\ p \notin 1..191
    OBVIOUS
  <2>2. e \in Seq(Nat) /\ Len(e) = 2 /\ e[1] = p
    BY <1>2, <2>1
  <2> QED BY <2>1, <2>2
<1>3. e = <<0>> \/ \E p \in 192..255, q \in 0..255 : e = <<p, q>>
  <2>1. CASE e \in {<<0>>}
    BY Zenon, <2>1
  <2>2. CASE e \in (192..255) \X (0..255)
    <3> DEFINE A == 192..255
               B == 0..255
    <3> HIDE DEF A, B
    <3>1. e \in A \X B
      BY Zenon, <2>2 DEF A, B
    <3>2. \E p \in A, q \in B : e = <<p, q>>
      BY SMTT(60), <3>1, PairFact
    <3> QED BY Zenon, <3>2 DEF A, B
  <2> QED BY Zenon, <2>1, <2>2 DEF NameEnds
<1> QED BY ZenonT(60), <1>1, <1>2, <1>3

LEMMA ZerosFact ==
    ASSUME NEW n \in Nat
    PROVE  Zeros(n) \in Seq(Nat) /\ Len(Zeros(n)) = n
  BY DEF Zeros

LEMMA U16BytesFact ==
    ASSUME NEW n \in Nat
    PROVE  /\ U16Bytes(n) \in Seq(Nat) /\ Len(U16Bytes(n)) = 2
           /\ U16Bytes(n)[1] * 256 + U16Bytes(n)[2] = n
<1>1. n \div 256 \in Nat /\ n % 256 \in Nat /\ ((n \div 256) * 256) + (n % 256) = n
  OBVIOUS
<1> QED BY <1>1 DEF U16Bytes

LEMMA ConcatFact ==
    ASSUME NEW a \in Seq(Nat), NEW b \in Seq(Nat)
    PROVE  /\ a \o b \in Seq(Nat) /\ Len(a \o b) = Len(a) + Len(b)
           /\ Len(a) \in Nat /\ Len(b) \in Nat
           /\ \A j \in 1..Len(a) : (a \o b)[j] = a[j]
           /\ \A j \in 1..Len(b) : (a \o b)[Len(a) + j] = b[j]
<1>1. /\ a \o b \in Seq(Nat) /\ Len(a \o b) = Len(a) + Len(b)
      /\ \A i \in 1..(Len(a) + Len(b)) :
            (a \o b)[i] = IF i <= Len(a) THEN a[i] ELSE b[i - Len(a)]
  BY ConcatProperties
<1>2. Len(a) \in Nat /\ Len(b) \in Nat
  OBVIOUS
<1>3. ASSUME NEW j \in 1..Len(a) PROVE (a \o b)[j] = a[j]
  <2>1. j \in 1..(Len(a) + Len(b)) /\ j <= Len(a)
    BY <1>2
  <2> QED BY <1>1, <2>1
<1>4. ASSUME NEW j \in 1..Len(b) PROVE (a \o b)[Len(a) + j] = b[j]
  <2> DEFINE i == Len(a) + j
  <2>1. i \in 1..(Len(a) + Len(b)) /\ ~(i <= Len(a)) /\ i - Len(a) = j
    BY SMTT(60), <1>2
  <2> HIDE DEF i
  <2>2. (a \o b)[i] = b[j]
    BY <1>1, <2>1
  <2> QED BY <2>2 DEF i
<1> QED BY <1>1, <1>2, <1>3, <1>4

\* An item's bytes: the length byte tells a label from a name's end, and the
\* fields of an answer are where the parser looks for them.
LEMMA ItemFact ==
    ASSUME NEW x \in Items, x.kind = "label" => Len(x.text) \in 1..191
    PROVE  LET B == ItemBytes(x)
               e == Len(x.end)
           IN  /\ B \in Seq(Nat) /\ Len(B) \in Nat /\ Len(B) >= 1
               /\ x.kind = "label" => B[1] = Len(x.text) /\ Len(B) = 1 + Len(x.text)
               /\ x.kind = "question" => B[1] = x.end[1] /\ Len(B) = e + 4
               /\ x.kind = "answer" =>
                    /\ B[1] = x.end[1] /\ Len(B) = e + 10 + Len(x.text)
                    /\ B[e + 1] * 256 + B[e + 2] = x.rtype
                    /\ B[e + 9] * 256 + B[e + 10] = Len(x.text)
                    /\ \A j \in 1..Len(x.text) : B[e + 10 + j] = x.text[j]
<1> DEFINE B == ItemBytes(x)
           n == x.end
           t == x.text
<1>1. /\ x.kind \in {"label", "question", "answer"} /\ n \in NameEnds /\ x.rtype \in Nat
      /\ t \in Seq(Nat) /\ Len(t) \in Nat
  BY DEF Items
<1> HIDE DEF t, n
<1>2. n \in Seq(Nat) /\ Len(n) \in Nat /\ Len(n) >= 1
  <2>1. n \in Seq(Nat) /\ (Len(n) = 1 \/ Len(n) = 2)
    BY Zenon, <1>1, EndFact
  <2>2. \A q : q = 1 \/ q = 2 => q \in Nat /\ q >= 1
    OBVIOUS
  <2> QED BY Zenon, <2>1, <2>2
<1>3. CASE x.kind = "label"
  <2> DEFINE a == <<Len(t)>>
  <2>1. a \in Seq(Nat) /\ Len(a) = 1 /\ a[1] = Len(t)
    BY <1>1
  <2>2. B = a \o t
    BY ZenonT(60), <1>3 DEF ItemBytes, t
  <2> HIDE DEF a, B
  <2>3. B \in Seq(Nat) /\ Len(B) = Len(a) + Len(t) /\ \A j \in 1..Len(a) : B[j] = a[j]
    BY <1>1, <2>1, <2>2, ConcatFact
  <2>4. B[1] = Len(t) /\ Len(B) = 1 + Len(t)
    BY <2>1, <2>3
  <2>5. Len(B) \in Nat /\ Len(B) >= 1
    BY <1>1, <2>4
  <2> QED BY <1>3, <2>3, <2>4, <2>5 DEF B, t
<1>4. CASE x.kind = "question"
  <2> DEFINE z == Zeros(4)
  <2>1. z \in Seq(Nat) /\ Len(z) = 4
    BY ZerosFact
  <2>2. B = n \o z
    BY <1>4 DEF ItemBytes, n
  <2> HIDE DEF z, B
  <2>3. B \in Seq(Nat) /\ Len(B) = Len(n) + Len(z) /\ \A j \in 1..Len(n) : B[j] = n[j]
    BY <1>2, <2>1, <2>2, ConcatFact
  <2>4. 1 \in 1..Len(n)
    BY <1>2
  <2>5. B[1] = n[1] /\ Len(B) = Len(n) + 4 /\ Len(B) \in Nat /\ Len(B) >= 1
    BY <1>2, <2>1, <2>3, <2>4
  <2> QED BY <1>4, <2>3, <2>5 DEF B, n
<1>5. CASE x.kind = "answer"
  <2> DEFINE r == U16Bytes(x.rtype)
             z == Zeros(6)
             l == U16Bytes(Len(t))
             a == n \o r
             b == a \o z
             c == b \o l
  <2>1. /\ r \in Seq(Nat) /\ Len(r) = 2 /\ r[1] * 256 + r[2] = x.rtype
        /\ l \in Seq(Nat) /\ Len(l) = 2 /\ l[1] * 256 + l[2] = Len(t)
    BY ZenonT(60), <1>1, U16BytesFact
  <2>2. z \in Seq(Nat) /\ Len(z) = 6
    BY ZerosFact
  <2>3. B = c \o t
    BY <1>5 DEF ItemBytes, n, t
  <2> HIDE DEF r, z, l, B
  <2>4. a \in Seq(Nat) /\ Len(a) = Len(n) + Len(r)
        /\ (\A j \in 1..Len(n) : a[j] = n[j]) /\ \A j \in 1..Len(r) : a[Len(n) + j] = r[j]
    BY ZenonT(60), <1>2, <2>1, ConcatFact
  <2> HIDE DEF a
  <2>5. b \in Seq(Nat) /\ Len(b) = Len(a) + Len(z) /\ \A j \in 1..Len(a) : b[j] = a[j]
    BY ZenonT(60), <2>2, <2>4, ConcatFact
  <2> HIDE DEF b
  <2>6. c \in Seq(Nat) /\ Len(c) = Len(b) + Len(l)
        /\ (\A j \in 1..Len(b) : c[j] = b[j]) /\ \A j \in 1..Len(l) : c[Len(b) + j] = l[j]
    BY ZenonT(60), <2>1, <2>5, ConcatFact
  <2> HIDE DEF c
  <2>7. B \in Seq(Nat) /\ Len(B) = Len(c) + Len(t)
        /\ (\A j \in 1..Len(c) : B[j] = c[j]) /\ \A j \in 1..Len(t) : B[Len(c) + j] = t[j]
    BY <1>1, <2>3, <2>6, ConcatFact
  <2> DEFINE e == Len(n)
  <2>8. Len(a) = e + 2 /\ Len(b) = e + 8 /\ Len(c) = e + 10
    <3>1. Len(a) = e + 2
      BY ZenonT(60), <2>1, <2>4
    <3>2. Len(b) = e + 8
      BY <1>2, <2>2, <2>5, <3>1
    <3> QED BY <1>2, <2>1, <2>6, <3>1, <3>2
  <2>9. e \in Nat /\ e >= 1
    BY ZenonT(60), <1>2
  <2> HIDE DEF e
  <2>10. Len(B) = e + 10 + Len(t) /\ \A j \in 1..Len(t) : B[e + 10 + j] = t[j]
    BY ZenonT(60), <1>1, <2>7, <2>8, <2>9
  <2>11. ASSUME NEW j \in 1..(e + 2) PROVE B[j] = a[j]
    <3>1. j \in 1..Len(a) /\ j \in 1..Len(b) /\ j \in 1..Len(c)
      BY <2>8, <2>9
    <3> QED BY <2>5, <2>6, <2>7, <3>1
  <2>12. B[1] = n[1]
    <3>1. 1 \in 1..(e + 2) /\ 1 \in 1..Len(n)
      BY <2>9 DEF e
    <3> QED BY <2>4, <2>11, <3>1
  <2>13. B[e + 1] = r[1] /\ B[e + 2] = r[2]
    <3>1. e + 1 \in 1..(e + 2) /\ e + 2 \in 1..(e + 2) /\ 1 \in 1..Len(r) /\ 2 \in 1..Len(r)
      BY SMTT(60), <2>1, <2>9
    <3>2. a[e + 1] = r[1] /\ a[e + 2] = r[2]
      BY <2>4, <3>1 DEF e
    <3> QED BY ZenonT(60), <2>11, <3>1, <3>2
  <2>14. B[e + 9] = l[1] /\ B[e + 10] = l[2]
    <3>1. e + 9 \in 1..Len(c) /\ e + 10 \in 1..Len(c) /\ 1 \in 1..Len(l) /\ 2 \in 1..Len(l)
          /\ (e + 8) + 1 = e + 9 /\ (e + 8) + 2 = e + 10
      BY SMTT(60), <2>1, <2>8, <2>9
    <3>2. c[e + 9] = l[1] /\ c[e + 10] = l[2]
      BY ZenonT(60), <2>6, <2>8, <3>1
    <3> QED BY <2>7, <3>1, <3>2
  <2>15. Len(B) \in Nat /\ Len(B) >= 1
    BY <1>1, <2>9, <2>10
  <2> QED BY ZenonT(60), <1>5, <2>1, <2>7, <2>10, <2>12, <2>13, <2>14, <2>15 DEF B, n,
             t, e
<1> QED BY <1>1, <1>3, <1>4, <1>5

ItemPieces(items) == [k \in DOMAIN items |-> ItemBytes(items[k])]

LEMMA HeaderFact ==
    ASSUME NEW m \in DnsMessages
    PROVE  /\ HeaderBytes(m) \in Seq(Nat) /\ Len(HeaderBytes(m)) = 12
           /\ HeaderBytes(m)[5] * 256 + HeaderBytes(m)[6] = m.qdcount
           /\ HeaderBytes(m)[7] * 256 + HeaderBytes(m)[8] = m.ancount
<1> DEFINE z == Zeros(4)
           q == U16Bytes(m.qdcount)
           r == U16Bytes(m.ancount)
           a == z \o q
           b == a \o r
           h == b \o z
<1>1. h = HeaderBytes(m)
  BY DEF HeaderBytes
<1>2. z \in Seq(Nat) /\ Len(z) = 4
  BY ZerosFact
<1>3. m.qdcount \in Nat /\ m.ancount \in Nat
  BY DEF DnsMessages
<1>4. /\ q \in Seq(Nat) /\ Len(q) = 2 /\ q[1] * 256 + q[2] = m.qdcount
      /\ r \in Seq(Nat) /\ Len(r) = 2 /\ r[1] * 256 + r[2] = m.ancount
  BY ZenonT(60), <1>3, U16BytesFact
<1> HIDE DEF z, q, r
<1>5. a \in Seq(Nat) /\ Len(a) = Len(z) + Len(q) /\ \A j \in 1..Len(q) : a[Len(z) + j] = q[j]
  BY ZenonT(60), <1>2, <1>4, ConcatFact
<1> HIDE DEF a
<1>6. /\ b \in Seq(Nat) /\ Len(b) = Len(a) + Len(r) /\ (\A j \in 1..Len(a) : b[j] = a[j])
      /\ \A j \in 1..Len(r) : b[Len(a) + j] = r[j]
  BY ZenonT(60), <1>4, <1>5, ConcatFact
<1> HIDE DEF b
<1>7. h \in Seq(Nat) /\ Len(h) = Len(b) + Len(z) /\ \A j \in 1..Len(b) : h[j] = b[j]
  BY ZenonT(60), <1>2, <1>6, ConcatFact
<1> HIDE DEF h
<1>8. Len(a) = 6 /\ Len(b) = 8 /\ Len(h) = 12
  BY <1>2, <1>4, <1>5, <1>6, <1>7
<1>9. 1 \in 1..Len(q) /\ 2 \in 1..Len(q) /\ Len(z) + 1 = 5 /\ Len(z) + 2 = 6
  BY <1>2, <1>4
<1>10. a[5] = q[1] /\ a[6] = q[2]
  BY <1>5, <1>9
<1>11. /\ 1 \in 1..Len(r) /\ 2 \in 1..Len(r) /\ Len(a) + 1 = 7 /\ Len(a) + 2 = 8
       /\ 5 \in 1..Len(a) /\ 6 \in 1..Len(a)
  BY <1>4, <1>8
<1>12. b[5] = q[1] /\ b[6] = q[2] /\ b[7] = r[1] /\ b[8] = r[2]
  BY <1>6, <1>10, <1>11
<1>13. 5 \in 1..Len(b) /\ 6 \in 1..Len(b) /\ 7 \in 1..Len(b) /\ 8 \in 1..Len(b)
  BY <1>8
<1>14. h[5] = q[1] /\ h[6] = q[2] /\ h[7] = r[1] /\ h[8] = r[2]
  BY <1>7, <1>12, <1>13
<1> QED BY ZenonT(60), <1>1, <1>4, <1>7, <1>8, <1>14

\* Where the items of a message lie in its bytes, behind the header.
LEMMA ItemsLaid ==
    ASSUME NEW m \in Replies
    PROVE  LET n == Len(m.items)
           IN  /\ m \in DnsMessages /\ n \in Nat /\ DOMAIN m.items = 1..n
               /\ (\A k \in 1..n : /\ m.items[k] \in Items
                                   /\ m.items[k].kind = "label" => Len(m.items[k].text) \in 1..191)
               /\ DnsBytes(m) \in Seq(Nat) /\ Len(DnsBytes(m)) = ItemEnd(m, n)
               /\ ItemEnd(m, 0) = 12 /\ (\A k \in 0..n : ItemEnd(m, k) \in Nat)
               /\ (\A k \in 1..n : ItemEnd(m, k) = ItemEnd(m, k - 1) + Len(ItemBytes(m.items[k])))
               /\ (\A j, k \in 0..n : j <= k => ItemEnd(m, j) <= ItemEnd(m, k))
               /\ (\A j \in 1..12 : DnsBytes(m)[j] = HeaderBytes(m)[j])
               /\ \A k \in 1..n : \A j \in 1..Len(ItemBytes(m.items[k])) :
                     DnsBytes(m)[ItemEnd(m, k - 1) + j] = ItemBytes(m.items[k])[j]
<1> DEFINE its == m.items
           n == Len(its)
           ss == ItemPieces(its)
           h == HeaderBytes(m)
           fl == FlattenSeq(ss)
<1>1. m \in DnsMessages /\ its \in Seq(Items) /\ n \in Nat /\ DOMAIN its = 1..n
      /\ \A k \in 1..n : /\ its[k] \in Items
                         /\ its[k].kind = "label" => Len(its[k].text) \in 1..191
  <2>1. m \in DnsMessages
    BY ZenonT(60), RepliesAssumption
  <2>2. its \in Seq(Items)
    BY <2>1 DEF DnsMessages
  <2>3. \A k \in 1..n : its[k].kind = "label" => Len(its[k].text) \in 1..191
    BY ZenonT(60), RepliesAssumption
  <2> HIDE DEF its
  <2> QED BY ZenonT(60), <2>1, <2>2, <2>3, SeqFact
<1>2. ss \in Seq(Seq(Nat)) /\ Len(ss) = n /\ \A k \in 1..n : ss[k] = ItemBytes(its[k])
  <2>1. \A k \in 1..n : ItemBytes(its[k]) \in Seq(Nat)
    BY <1>1, ItemFact
  <2>2. ss = [k \in 1..n |-> ItemBytes(its[k])]
    BY <1>1 DEF ItemPieces
  <2>3. n \in Nat
    BY Zenon, <1>1
  <2> HIDE DEF n, ss
  <2>4. ss \in [1..n -> Seq(Nat)] /\ \A k \in 1..n : ss[k] = ItemBytes(its[k])
    BY Zenon, <2>1, <2>2
  <2> QED BY Zenon, <2>3, <2>4, FunctionIsSeq
<1>3. PICK e : IsLayout(Nat, ss, e)
  BY <1>2, LayoutExists
<1>4. DnsBytes(m) = h \o fl
  BY ZenonT(60) DEF DnsBytes, ItemPieces
<1>5. h \in Seq(Nat) /\ Len(h) = 12
  BY ZenonT(60), <1>1, HeaderFact
<1>6. ASSUME NEW i \in 0..n PROVE ItemEnd(m, i) = 12 + e[i]
  <2> DEFINE p == SubSeq(its, 1, i)
             q == SubSeq(ss, 1, i)
             w == [m EXCEPT !.items = p]
  <2>1. i \in Nat /\ i <= n /\ (\A k \in 1..i : k \in 1..n)
        /\ i - 1 + 1 = i /\ \A k \in 1..i : 1 + k - 1 = k
    <3>1. n \in Nat
      BY Zenon, <1>1
    <3> HIDE DEF n
    <3> QED BY SMTT(60), <3>1
  <2> HIDE DEF ss, its
  <2>2. /\ p \in Seq(Items) /\ Len(p) = (IF 1 <= i THEN i - 1 + 1 ELSE 0)
        /\ \A k \in 1..(i - 1 + 1) : p[k] = its[1 + k - 1]
    <3>1. \A k \in 1..i : its[k] \in Items
      BY <1>1, <2>1
    <3> QED BY <2>1, <3>1, SubSeqProperties
  <2>3. /\ q \in Seq(Seq(Nat)) /\ Len(q) = (IF 1 <= i THEN i - 1 + 1 ELSE 0)
        /\ \A k \in 1..(i - 1 + 1) : q[k] = ss[1 + k - 1]
    <3>1. \A k \in 1..i : ss[k] \in Seq(Nat)
      BY <1>2, <2>1
    <3> QED BY <2>1, <3>1, SubSeqProperties
  <2> HIDE DEF p, q
  <2>4. Len(p) = i /\ Len(q) = i /\ \A k \in 1..i : p[k] = its[k] /\ q[k] = ss[k]
    BY <2>1, <2>2, <2>3
  <2>5. ItemPieces(p) = q
    <3>1. ItemPieces(p) = [k \in 1..i |-> ItemBytes(p[k])]
      BY <2>2, <2>4 DEF ItemPieces
    <3>2. \A k \in 1..i : ItemBytes(p[k]) = q[k]
      BY <1>2, <2>1, <2>4
    <3>3. q = [k \in 1..i |-> q[k]]
      BY <2>3, <2>4
    <3> QED BY <3>1, <3>2, <3>3
  <2>6. w \in DnsMessages /\ w.items = p
    BY <1>1, <2>2 DEF DnsMessages
  <2>7. HeaderBytes(w) \in Seq(Nat) /\ Len(HeaderBytes(w)) = 12
    BY <2>6, HeaderFact
  <2>8. DnsBytes(w) = HeaderBytes(w) \o FlattenSeq(q)
    BY <2>5, <2>6 DEF DnsBytes, ItemPieces
  <2> HIDE DEF w
  <2>9. Len(FlattenSeq(q)) = e[i]
    BY <1>2, <1>3, <2>1 DEF IsLayout, q
  <2>10. FlattenSeq(q) \in Seq(Nat)
    BY <2>3, LayoutExists DEF IsLayout
  <2>11. Len(DnsBytes(w)) = 12 + e[i]
    <3> DEFINE a == HeaderBytes(w)
               b == FlattenSeq(q)
    <3> HIDE DEF a, b
    <3>1. a \in Seq(Nat) /\ b \in Seq(Nat) /\ Len(a) = 12 /\ Len(b) = e[i]
      BY <2>7, <2>9, <2>10 DEF a, b
    <3>2. Len(a \o b) = Len(a) + Len(b)
      BY <3>1, ConcatFact
    <3> QED BY <2>8, <3>1, <3>2 DEF a, b
  <2> QED BY <2>11 DEF ItemEnd, w, p, its
<1> HIDE DEF ss
<1>7. /\ e \in [0..n -> Nat] /\ e[0] = 0
      /\ \A i \in 1..n : e[i] = e[i - 1] + Len(ss[i])
      /\ \A i, j \in 0..n : i <= j => e[i] <= e[j]
      /\ fl \in Seq(Nat) /\ Len(fl) = e[n]
      /\ \A i \in 1..n : \A j \in 1..Len(ss[i]) : fl[e[i - 1] + j] = ss[i][j]
  BY <1>2, <1>3 DEF IsLayout
<1>8. \A i \in 0..n : ItemEnd(m, i) = 12 + e[i] /\ e[i] \in Nat
  BY <1>6, <1>7
<1>9. 0 \in 0..n /\ n \in 0..n /\ \A i \in 1..n : i \in 0..n /\ i - 1 \in 0..n
  <2>1. n \in Nat
    BY Zenon, <1>1
  <2> HIDE DEF n
  <2> QED BY <2>1
<1> HIDE DEF h, fl
<1>10. /\ DnsBytes(m) \in Seq(Nat) /\ Len(DnsBytes(m)) = 12 + e[n]
       /\ (\A j \in 1..12 : DnsBytes(m)[j] = h[j])
       /\ \A j \in 1..e[n] : DnsBytes(m)[12 + j] = fl[j]
  <2>1. /\ h \o fl \in Seq(Nat) /\ Len(h \o fl) = Len(h) + Len(fl)
        /\ (\A j \in 1..Len(h) : (h \o fl)[j] = h[j])
        /\ \A j \in 1..Len(fl) : (h \o fl)[Len(h) + j] = fl[j]
    BY ZenonT(60), <1>5, <1>7, ConcatFact
  <2>2. Len(h) = 12 /\ Len(fl) = e[n]
    BY <1>5, <1>7
  <2> QED BY Zenon, <1>4, <2>1, <2>2
<1>11. ASSUME NEW k \in 1..n PROVE ItemEnd(m, k) = ItemEnd(m, k - 1) + Len(ItemBytes(its[k]))
  <2>1. e[k - 1] \in Nat /\ e[k] \in Nat /\ e[k] = e[k - 1] + Len(ItemBytes(its[k]))
    BY <1>2, <1>7, <1>9
  <2>2. Len(ItemBytes(its[k])) \in Nat
    BY <1>1, ItemFact
  <2>3. ItemEnd(m, k) = 12 + e[k] /\ ItemEnd(m, k - 1) = 12 + e[k - 1]
    BY <1>8, <1>9
  <2> QED BY <2>1, <2>2, <2>3
<1>12. ASSUME NEW k \in 1..n, NEW j \in 1..Len(ItemBytes(its[k]))
       PROVE  DnsBytes(m)[ItemEnd(m, k - 1) + j] = ItemBytes(its[k])[j]
  <2> DEFINE B == ItemBytes(its[k])
  <2>1. ss[k] = B /\ fl[e[k - 1] + j] = B[j] /\ e[k] = e[k - 1] + Len(B)
    BY <1>2, <1>7
  <2>2. e[k - 1] \in Nat /\ e[k] \in Nat /\ e[n] \in Nat /\ e[k] <= e[n]
    <3>1. k \in 0..n /\ k - 1 \in 0..n /\ n \in 0..n /\ k <= n
      BY Zenon, <1>1, RangeFact
    <3> HIDE DEF n
    <3> QED BY <1>7, <3>1
  <2>3. Len(B) \in Nat
    BY <1>1, ItemFact
  <2>4. ItemEnd(m, k - 1) = 12 + e[k - 1]
    BY <1>8, <1>9
  <2> HIDE DEF B
  <2>5. j \in 1..Len(B)
    BY DEF B
  <2>6. e[k - 1] + j \in 1..e[n] /\ ItemEnd(m, k - 1) + j = 12 + (e[k - 1] + j)
    <3> DEFINE c == e[k - 1]
               d == e[n]
               l == Len(B)
    <3> HIDE DEF c, d, l, n
    <3>1. c \in Nat /\ d \in Nat /\ l \in Nat /\ c + l <= d /\ j \in 1..l
      BY <2>1, <2>2, <2>3, <2>5 DEF c, d, l
    <3>2. c + j \in 1..d /\ (12 + c) + j = 12 + (c + j)
      BY <3>1
    <3> QED BY <2>4, <3>2 DEF c, d
  <2> QED BY <1>10, <2>1, <2>6 DEF B
<1>13. ASSUME NEW j \in 0..n, NEW k \in 0..n, j <= k PROVE ItemEnd(m, j) <= ItemEnd(m, k)
  BY <1>7, <1>8, <1>13
<1>14. ItemEnd(m, 0) = 12 /\ (\A k \in 0..n : ItemEnd(m, k) \in Nat)
       /\ Len(DnsBytes(m)) = ItemEnd(m, n)
  <2>1. ItemEnd(m, 0) = 12 + e[0]
    BY <1>8, <1>9
  <2>2. ItemEnd(m, 0) = 12
    BY <1>7, <2>1
  <2>3. ASSUME NEW k \in 0..n PROVE ItemEnd(m, k) \in Nat
    BY <1>8
  <2>4. Len(DnsBytes(m)) = ItemEnd(m, n)
    BY <1>8, <1>9, <1>10
  <2> QED BY <2>2, <2>3, <2>4
<1> QED BY ZenonT(60), <1>1, <1>10, <1>11, <1>12, <1>13, <1>14 DEF h

\* The number of the question or answer that follows the first k items.
NextRecord(m, k) ==
    IF k = 0 THEN 1
    ELSE m.items[k].record + (IF m.items[k].kind = "label" THEN 0 ELSE 1)

LEMMA RecordsCount ==
    ASSUME NEW m \in Replies
    PROVE  LET n == Len(m.items)
           IN  /\ \A k \in 0..n : NextRecord(m, k) \in Nat
               /\ \A k \in 1..n :
                     /\ m.items[k].record = NextRecord(m, k - 1)
                     /\ m.items[k].kind = "question" => m.items[k].record <= m.qdcount
                     /\ m.items[k].kind = "answer" => m.items[k].record > m.qdcount
               /\ \A j, k \in 0..n : j <= k => NextRecord(m, j) <= NextRecord(m, k)
<1> DEFINE its == m.items
           n == Len(its)
           f == [k \in 0..n |-> NextRecord(m, k)]
<1>1. n \in Nat /\ \A k \in 1..n : its[k] \in Items
  BY ZenonT(60), ItemsLaid
<1>2. \A k \in 1..n : /\ its[k].kind = "question" => its[k].record <= m.qdcount
                      /\ its[k].kind = "answer" => its[k].record > m.qdcount
                      /\ its[k].record = IF k = 1 THEN 1
                               ELSE its[k - 1].record
                                      + (IF its[k - 1].kind = "label" THEN 0 ELSE 1)
  BY ZenonT(60), RepliesAssumption
<1> HIDE DEF its, n
<1>3. ASSUME NEW k \in 1..n PROVE its[k].record = NextRecord(m, k - 1)
  <2>1. k - 1 = 0 <=> k = 1
    BY <1>1
  <2> QED BY <1>2, <2>1 DEF NextRecord, its
<1>4. ASSUME NEW k \in 0..n PROVE NextRecord(m, k) \in Nat
  <2>1. CASE k = 0
    BY <2>1 DEF NextRecord
  <2>2. CASE k # 0
    <3>1. its[k].record \in Nat
      <4>1. its[k] \in Items
        BY <1>1, <2>2
      <4> QED BY <4>1 DEF Items
    <3>2. its[k].record + 0 \in Nat /\ its[k].record + 1 \in Nat
      BY <3>1
    <3> QED BY <2>2, <3>2 DEF NextRecord, its
  <2> QED BY <2>1, <2>2
<1>5. ASSUME NEW k \in 1..n PROVE f[k - 1] <= f[k]
  <2> DEFINE a == its[k].record
             b == NextRecord(m, k)
  <2>1. k - 1 \in 0..n /\ k \in 0..n /\ k # 0
    BY <1>1
  <2>2. f[k - 1] = a /\ f[k] = b /\ a \in Nat
    BY <1>3, <1>4, <2>1
  <2>3. b = a + 0 \/ b = a + 1
    BY <2>1 DEF NextRecord, its
  <2> HIDE DEF a, b, f
  <2>4. a <= b
    BY <2>2, <2>3
  <2> QED BY <2>2, <2>4
<1>6. f \in [0..n -> Nat] /\ \A k \in 0..n : f[k] = NextRecord(m, k)
  BY <1>4
<1> HIDE DEF f
<1>7. \A j, k \in 0..n : j <= k => f[j] <= f[k]
  BY <1>1, <1>5, <1>6, Monotone
<1>8. \A j, k \in 0..n : j <= k => NextRecord(m, j) <= NextRecord(m, k)
  BY <1>6, <1>7
<1> QED BY <1>2, <1>3, <1>4, <1>8 DEF its, n

\* The bytes at hand are a prefix of the message's.
ReplyOK ==
    /\ reply.msg \in Replies
    /\ \E cut \in 8..Len(DnsBytes(reply.msg)) :
          reply.bytes = SubSeq(DnsBytes(reply.msg), 1, cut)

\* The parser has read the first k items, whole or not, and none of them is
\* the record it looks for.  What is left of its loop says which question or
\* answer comes next.
ParseAt(k) ==
    LET m == reply.msg
    IN  /\ scan \in [i : Nat, left : Nat] /\ scan.i = ItemEnd(m, k)
        /\ at = "questions" => scan.left + NextRecord(m, k) = m.qdcount + 1
        /\ at = "answers" => /\ scan.left + NextRecord(m, k) = m.qdcount + m.ancount + 1
                             /\ NextRecord(m, k) > m.qdcount
        /\ \A j \in 1..k : ~Synthesized(j)

DnsInv ==
    /\ PrefixIsGenuine
    /\ tries \in Nat /\ at \in {"send", "recv", "questions", "answers", "done"}
    /\ at \in {"send", "recv"} => reply = NoReply
    /\ at \in {"questions", "answers"} =>
          ReplyOK /\ \E k \in 0..Len(reply.msg.items) : ParseAt(k)

LEMMA PrefixFact ==
    ASSUME NEW d \in Seq(Nat), NEW cut \in 0..Len(d)
    PROVE  /\ SubSeq(d, 1, cut) \in Seq(Nat) /\ Len(SubSeq(d, 1, cut)) = cut
           /\ \A j \in 1..cut : SubSeq(d, 1, cut)[j] = d[j]
<1>1. cut \in Nat /\ 1 \in Int /\ cut \in Int /\ \A j \in 1..cut : d[j] \in Nat
  OBVIOUS
<1> DEFINE b == SubSeq(d, 1, cut)
<1>2. /\ b \in Seq(Nat) /\ Len(b) = (IF 1 <= cut THEN cut - 1 + 1 ELSE 0)
      /\ \A j \in 1..(cut - 1 + 1) : b[j] = d[1 + j - 1]
  BY <1>1, SubSeqProperties
<1>3. cut - 1 + 1 = cut /\ \A j \in 1..cut : 1 + j - 1 = j
  BY <1>1
<1> HIDE DEF b
<1>4. b \in Seq(Nat) /\ Len(b) = cut /\ \A j \in 1..cut : b[j] = d[j]
  BY <1>1, <1>2, <1>3
<1> QED BY <1>4 DEF b

LEMMA DatagramFact ==
    ASSUME ReplyOK
    PROVE  LET m == reply.msg
           IN  /\ m \in Replies /\ Datagram \in Seq(Nat) /\ Len(Datagram) \in Nat
               /\ Len(Datagram) >= 8 /\ Len(Datagram) <= Len(DnsBytes(m))
               /\ Len(DnsBytes(m)) \in Nat
               /\ \A j \in 1..Len(Datagram) : Datagram[j] = DnsBytes(m)[j]
<1> DEFINE d == DnsBytes(reply.msg)
<1>1. reply.msg \in Replies
  BY ZenonT(60) DEF ReplyOK
<1>2. d \in Seq(Nat)
  BY <1>1, ItemsLaid
<1>3. PICK cut \in 8..Len(d) : reply.bytes = SubSeq(d, 1, cut)
  BY DEF ReplyOK
<1> HIDE DEF d
<1>4. Len(d) \in Nat /\ cut \in 0..Len(d) /\ cut \in Nat /\ cut >= 8 /\ cut <= Len(d)
  BY <1>2
<1>5. Datagram \in Seq(Nat) /\ Len(Datagram) = cut /\ \A j \in 1..cut : Datagram[j] = d[j]
  BY SMTT(60), <1>2, <1>3, <1>4, PrefixFact DEF Datagram
<1> QED BY <1>1, <1>4, <1>5 DEF d

\* The item in front of the parser, and its bytes as far as they arrived.
LEMMA ItemHere ==
    ASSUME ReplyOK, NEW k \in 0..Len(reply.msg.items), ItemEnd(reply.msg, k) < Len(Datagram)
    PROVE  LET m == reply.msg
               x == m.items[k + 1]
               b == ItemEnd(m, k)
           IN  /\ k + 1 \in 1..Len(m.items) /\ (k + 1) - 1 = k /\ b \in Nat
               /\ x \in Items /\ (x.kind = "label" => Len(x.text) \in 1..191)
               /\ ItemEnd(m, k + 1) = b + Len(ItemBytes(x))
               /\ \A j \in 1..Len(ItemBytes(x)) :
                     b + j <= Len(Datagram) => Datagram[b + j] = ItemBytes(x)[j]
               /\ LengthByte = Datagram[scan.i + 1]
<1> DEFINE m == reply.msg
           n == Len(m.items)
           b == ItemEnd(m, k)
           d == DnsBytes(m)
<1>1. /\ m \in Replies /\ Len(Datagram) \in Nat /\ Len(Datagram) <= Len(d)
      /\ Len(d) \in Nat /\ \A j \in 1..Len(Datagram) : Datagram[j] = d[j]
  BY ZenonT(60), DatagramFact
<1>2. /\ n \in Nat /\ Len(d) = ItemEnd(m, n) /\ b \in Nat
  BY <1>1, ItemsLaid
<1>3. k # n
  BY <1>1, <1>2
<1>4. k + 1 \in 1..n /\ (k + 1) - 1 = k
  BY <1>2, <1>3
<1> DEFINE x == m.items[k + 1]
           B == ItemBytes(x)
<1>5. /\ x \in Items /\ (x.kind = "label" => Len(x.text) \in 1..191)
      /\ ItemEnd(m, k + 1) = b + Len(B) /\ \A j \in 1..Len(B) : d[b + j] = B[j]
  <2>1. \A i \in 1..n : /\ m.items[i] \in Items
                        /\ m.items[i].kind = "label" => Len(m.items[i].text) \in 1..191
                        /\ ItemEnd(m, i) = ItemEnd(m, i - 1) + Len(ItemBytes(m.items[i]))
                        /\ \A j \in 1..Len(ItemBytes(m.items[i])) :
                              d[ItemEnd(m, i - 1) + j] = ItemBytes(m.items[i])[j]
    BY ZenonT(60), <1>1, ItemsLaid
  <2> HIDE DEF n, m
  <2> QED BY ZenonT(60), <1>4, <2>1
<1> HIDE DEF x, B, b, d, n, m
<1>6. ASSUME NEW j \in 1..Len(B), b + j <= Len(Datagram) PROVE Datagram[b + j] = B[j]
  <2>1. j \in Nat /\ j >= 1
    OBVIOUS
  <2>2. b + j \in 1..Len(Datagram)
    BY <1>1, <1>2, <1>6, <2>1
  <2> QED BY <1>1, <1>5, <2>2
<1> QED BY ZenonT(60), <1>2, <1>4, <1>5, <1>6 DEF LengthByte, x, B, b, d, n, m

LEMMA SynthStable ==
    ASSUME reply' = reply
    PROVE  \A k : Synthesized(k)' <=> Synthesized(k)
  BY DEF Synthesized, Datagram

\* The search is over and there is no record to be found.
LEMMA DoneWithout ==
    ASSUME tries' \in Nat, tries' <= MaxTries, at' = "done", result' = NoPrefix,
           \A k \in DOMAIN reply'.msg.items : ~Synthesized(k)'
    PROVE  DnsInv'
<1>1. {k \in DOMAIN reply.msg.items : Synthesized(k)}' = {}
  OBVIOUS
<1>2. PrefixIsGenuine'
  BY <1>1 DEF PrefixIsGenuine
<1> QED BY <1>2 DEF DnsInv

\* The search is over with the first record there is.
LEMMA DoneWith ==
    ASSUME tries' \in Nat, tries' <= MaxTries, at' = "done",
           NEW k \in DOMAIN reply'.msg.items, Synthesized(k)',
           \A j \in DOMAIN reply'.msg.items :
              j \in Int /\ (Synthesized(j)' => k <= j),
           result' = SubSeq(reply'.msg.items[k].text, 1, 12)
    PROVE  DnsInv'
<1> DEFINE good == {j \in DOMAIN reply'.msg.items : Synthesized(j)'}
           first == CHOOSE i \in good : \A j \in good : i <= j
<1>1. k \in good /\ \A j \in good : k \in Int /\ j \in Int /\ k <= j
  OBVIOUS
<1> HIDE DEF good
<1>2. \A i \in good : (\A j \in good : i <= j) => i = k
  BY <1>1
<1>3. first = k
  BY <1>1, <1>2
<1>4. good # {}
  BY ZenonT(60), <1>1
<1> HIDE DEF first
<1>5. result' = IF good = {} THEN NoPrefix ELSE SubSeq(reply'.msg.items[first].text, 1, 12)
  BY SMTT(60), <1>3, <1>4
<1>6. PrefixIsGenuine'
  BY ZenonT(60), <1>5 DEF PrefixIsGenuine, good, first
<1> QED BY <1>6 DEF DnsInv

LEMMA NoReplyNothing ==
    ASSUME reply = NoReply, reply' = reply
    PROVE  \A k \in DOMAIN reply'.msg.items : ~Synthesized(k)'
<1>1. DOMAIN reply'.msg.items = {}
  BY DEF NoReply
<1> QED BY <1>1

LEMMA NoSocketInv == ASSUME DnsInv, DnsNoSocket PROVE DnsInv'
<1>1. reply = NoReply /\ reply' = reply /\ tries' = tries /\ at' = "done" /\ result' = NoPrefix
      /\ tries \in Nat /\ tries <= MaxTries
  BY DEF DnsInv, DnsNoSocket, DnsReturn, PrefixIsGenuine
<1> QED BY <1>1, NoReplyNothing, DoneWithout

LEMMA SendInv == ASSUME DnsInv, DnsSend PROVE DnsInv'
<1>1. /\ reply = NoReply /\ reply' = reply /\ tries \in Nat /\ tries < MaxTries
      /\ tries' = tries + 1 /\ result = NoPrefix
      /\ (at' = "recv" /\ result' = result) \/ (at' = "done" /\ result' = NoPrefix)
  BY DEF DnsInv, DnsSend, DnsReturn, PrefixIsGenuine
<1>2. tries' \in Nat /\ tries' <= MaxTries
  BY <1>1 DEF MaxTries
<1>3. CASE at' = "recv" /\ result' = result
  BY <1>1, <1>2, <1>3 DEF DnsInv, PrefixIsGenuine
<1>4. CASE at' = "done" /\ result' = NoPrefix
  BY <1>1, <1>2, <1>4, NoReplyNothing, DoneWithout
<1> QED BY <1>1, <1>3, <1>4

LEMMA RecvFailsInv == ASSUME DnsInv, DnsRecvFails PROVE DnsInv'
<1>1. /\ reply = NoReply /\ reply' = reply /\ tries' \in Nat /\ tries' <= MaxTries
      /\ result' = NoPrefix /\ at' \in {"done", "send"}
  BY DEF DnsInv, DnsRecvFails, PrefixIsGenuine
<1>2. CASE at' = "send"
  BY <1>1, <1>2 DEF DnsInv, PrefixIsGenuine
<1>3. CASE at' = "done"
  BY <1>1, <1>3, NoReplyNothing, DoneWithout
<1> QED BY <1>1, <1>2, <1>3

LEMMA AnswerInv == ASSUME DnsInv, DnsAnswer PROVE DnsInv'
<1>1. PICK m \in Replies : \E cut \in 0..Len(DnsBytes(m)) :
         LET b == SubSeq(DnsBytes(m), 1, cut)
         IN  /\ reply' = [msg |-> m, bytes |-> b]
             /\ \/ cut < 8 /\ DnsReturn(NoPrefix) /\ UNCHANGED scan
                \/ /\ cut >= 8
                   /\ at' = "questions" /\ scan' = [i |-> 12, left |-> U16(b, 4)]
                   /\ UNCHANGED result
  BY DEF DnsAnswer
<1> DEFINE d == DnsBytes(m)
           n == Len(m.items)
<1>2. PICK cut \in 0..Len(d) :
         /\ reply' = [msg |-> m, bytes |-> SubSeq(d, 1, cut)]
         /\ \/ cut < 8 /\ at' = "done" /\ result' = NoPrefix
            \/ /\ cut >= 8 /\ at' = "questions" /\ result' = result
               /\ scan' = [i |-> 12, left |-> U16(SubSeq(d, 1, cut), 4)]
  BY <1>1 DEF DnsReturn
<1>3. at = "recv" /\ tries' = tries /\ tries \in Nat /\ tries <= MaxTries /\ result = NoPrefix
  BY ZenonT(60) DEF DnsAnswer, DnsInv, PrefixIsGenuine
<1>4. /\ m \in DnsMessages /\ n \in Nat /\ DOMAIN m.items = 1..n /\ d \in Seq(Nat)
      /\ ItemEnd(m, 0) = 12 /\ (\A k \in 0..n : ItemEnd(m, k) \in Nat)
      /\ (\A j, k \in 0..n : j <= k => ItemEnd(m, j) <= ItemEnd(m, k))
      /\ (\A j \in 1..12 : d[j] = HeaderBytes(m)[j])
  BY ItemsLaid
<1> DEFINE b == SubSeq(d, 1, cut)
<1>5. b \in Seq(Nat) /\ Len(b) = cut /\ \A j \in 1..cut : b[j] = d[j]
  BY <1>4, PrefixFact
<1>6. Len(d) \in Nat /\ cut \in Nat /\ cut <= Len(d)
  BY <1>4
<1> HIDE DEF b, d, n
<1>7. reply'.msg = m /\ reply'.bytes = b
  BY <1>2 DEF b
<1>8. CASE cut < 8 /\ at' = "done" /\ result' = NoPrefix
  <2>1. ASSUME NEW k \in DOMAIN reply'.msg.items PROVE ~Synthesized(k)'
    <3>1. k \in 0..n /\ 0 \in 0..n /\ 0 <= k
      <4>1. k \in 1..n
        BY Zenon, <1>4, <1>7
      <4>2. n \in Nat
        BY <1>4
      <4> QED BY <4>1, <4>2
    <3>2. 12 <= ItemEnd(m, k) /\ ItemEnd(m, k) \in Nat
      BY <1>4, <3>1
    <3>3. ~(ItemEnd(m, k) <= Len(b))
      BY <1>5, <1>6, <1>8, <3>2
    <3> QED BY <1>7, <3>3 DEF Synthesized, Datagram
  <2> QED BY <1>3, <1>8, <2>1, DoneWithout
<1>9. CASE /\ cut >= 8 /\ at' = "questions" /\ result' = result
           /\ scan' = [i |-> 12, left |-> U16(b, 4)]
  <2>1. U16(b, 4) = m.qdcount
    <3>1. 5 \in 1..cut /\ 6 \in 1..cut /\ 5 \in 1..12 /\ 6 \in 1..12 /\ 4 + 1 = 5 /\ 4 + 2 = 6
      BY <1>6, <1>9
    <3>2. b[5] = HeaderBytes(m)[5] /\ b[6] = HeaderBytes(m)[6]
      <4> DEFINE h == HeaderBytes(m)
      <4> HIDE DEF h
      <4>1. d[5] = h[5] /\ d[6] = h[6]
        <5>1. \A j \in 1..12 : d[j] = h[j]
          BY <1>4 DEF h
        <5> QED BY <3>1, <5>1
      <4>2. b[5] = d[5] /\ b[6] = d[6]
        <5>1. \A j \in 1..cut : b[j] = d[j]
          BY <1>5
        <5> QED BY <3>1, <5>1
      <4> QED BY <4>1, <4>2 DEF h
    <3>3. HeaderBytes(m)[5] * 256 + HeaderBytes(m)[6] = m.qdcount
      BY <1>4, HeaderFact
    <3> QED BY <3>1, <3>2, <3>3 DEF U16
  <2>2. ReplyOK'
    <3>1. cut \in 8..Len(d)
      BY <1>6, <1>9
    <3> QED BY <1>1, <1>7, <3>1 DEF ReplyOK, b, d
  <2>3. ParseAt(0)'
    <3>1. scan'.i = 12 /\ scan'.left = m.qdcount
      BY <1>9, <2>1
    <3>2. m.qdcount \in Nat
      BY <1>4 DEF DnsMessages
    <3>3. NextRecord(m, 0) = 1
      BY DEF NextRecord
    <3>4. scan'.i = ItemEnd(m, 0) /\ scan'.left + NextRecord(m, 0) = m.qdcount + 1
          /\ scan' \in [i : Nat, left : Nat]
      BY ZenonT(60), <1>4, <1>9, <2>1, <3>1, <3>2, <3>3
    <3>5. 1..0 = {} /\ at' # "answers"
      BY <1>9
    <3> QED BY <1>7, <3>4, <3>5 DEF ParseAt
  <2>4. 0 \in 0..Len(reply'.msg.items)
    BY <1>4, <1>7 DEF n
  <2>5. PrefixIsGenuine'
    BY <1>3, <1>9 DEF PrefixIsGenuine
  <2> QED BY <1>3, <1>9, <2>2, <2>3, <2>4, <2>5 DEF DnsInv
<1> QED BY <1>2, <1>8, <1>9 DEF b

\* The parser's loop at an item of which a byte is there: the length byte
\* says what the item is, and the loop which of its end it must be.
LEMMA NameHere ==
    ASSUME ReplyOK, NEW k \in 0..Len(reply.msg.items), ParseAt(k), HasByte
    PROVE  LET m == reply.msg
               x == m.items[k + 1]
           IN  /\ k + 1 \in 1..Len(m.items) /\ x \in Items /\ Len(x.text) \in Nat
               /\ scan.i = ItemEnd(m, k) /\ scan.i \in Nat
               /\ scan.left \in Nat /\ scan.left > 0
               /\ (x.kind = "label" => LengthByte = Len(x.text))
               /\ (LengthByte \in 1..191 <=> x.kind = "label")
               /\ ItemEnd(m, k + 1) = scan.i + Len(ItemBytes(x))
               /\ x.record = NextRecord(m, k) /\ NextRecord(m, k) \in Nat
               /\ (LengthByte \notin 1..191 =>
                     /\ NameEnd = scan.i + Len(x.end)
                     /\ at = "questions" => x.kind = "question"
                     /\ at = "answers" => x.kind = "answer")
<1> DEFINE m == reply.msg
           n == Len(m.items)
           x == m.items[k + 1]
           B == ItemBytes(x)
           l == LengthByte
<1>1. m \in Replies /\ Len(Datagram) \in Nat
  BY DatagramFact
<1>2. scan.i = ItemEnd(m, k) /\ scan.i < Len(Datagram) /\ scan.left \in Nat /\ scan.left > 0
      /\ at \in {"questions", "answers"}
  BY SMTT(60) DEF ParseAt, HasByte, InName
<1>3. /\ k + 1 \in 1..n /\ (k + 1) - 1 = k /\ scan.i \in Nat
      /\ x \in Items /\ (x.kind = "label" => Len(x.text) \in 1..191)
      /\ ItemEnd(m, k + 1) = scan.i + Len(B)
  BY ZenonT(60), <1>2, ItemHere
<1>4. \A j \in 1..Len(B) : scan.i + j <= Len(Datagram) => Datagram[scan.i + j] = B[j]
  BY ZenonT(60), <1>2, ItemHere
<1>5. /\ Len(B) \in Nat /\ Len(B) >= 1
      /\ x.kind = "label" => B[1] = Len(x.text)
      /\ x.kind = "question" => B[1] = x.end[1]
      /\ x.kind = "answer" => B[1] = x.end[1]
  BY ZenonT(60), <1>3, ItemFact
<1>6. x.kind \in {"label", "question", "answer"} /\ x.end \in NameEnds
      /\ Len(x.text) \in Nat
  <2> HIDE DEF x
  <2> QED BY <1>3 DEF Items
<1>7. x.end[1] \notin 1..191 /\ Len(x.end) = IF x.end[1] = 0 THEN 1 ELSE 2
  BY ZenonT(60), <1>6, EndFact
<1>8. x.record = NextRecord(m, k) /\ NextRecord(m, k) \in Nat
      /\ (x.kind = "question" => x.record <= m.qdcount)
      /\ (x.kind = "answer" => x.record > m.qdcount)
  BY ZenonT(60), <1>1, <1>3, RecordsCount
<1>9. m.qdcount \in Nat /\ m.ancount \in Nat
  BY Zenon, <1>1, CountsFact
<1> HIDE DEF B
<1>10. l = B[1]
  <2>1. 1 \in 1..Len(B) /\ scan.i + 1 <= Len(Datagram)
    <3> DEFINE D == Len(Datagram)
               i == scan.i
    <3> HIDE DEF D, i
    <3>1. D \in Nat /\ i \in Nat /\ i < D
      BY ZenonT(60), <1>1, <1>2, <1>3 DEF D, i
    <3>2. i + 1 <= D
      BY <3>1
    <3>3. 1 \in 1..Len(B)
      BY <1>5
    <3> QED BY <3>2, <3>3 DEF D, i
  <2> HIDE DEF m
  <2> QED BY <1>4, <2>1 DEF LengthByte
<1> HIDE DEF l, x
<1>11. l \in 1..191 <=> x.kind = "label"
  <2>1. CASE x.kind = "label"
    BY <1>3, <1>5, <1>10, <2>1
  <2>2. CASE x.kind # "label"
    <3>1. l = x.end[1]
      BY <1>5, <1>6, <1>10, <2>2
    <3> QED BY <1>7, <2>2, <3>1
  <2> QED BY <2>1, <2>2
<1>12. ASSUME l \notin 1..191
       PROVE  /\ NameEnd = scan.i + Len(x.end)
              /\ at = "questions" => x.kind = "question"
              /\ at = "answers" => x.kind = "answer"
  <2>1. x.kind = "question" \/ x.kind = "answer"
    BY <1>6, <1>11, <1>12
  <2>2. l = x.end[1]
    BY <1>5, <1>10, <2>1
  <2>3. NameEnd = scan.i + Len(x.end)
    BY <1>7, <2>2 DEF NameEnd, l
  <2> DEFINE r == NextRecord(m, k)
             q == m.qdcount
             s == scan.left
  <2>4. /\ at = "questions" => s + r = q + 1
        /\ at = "answers" => r > q
    BY DEF ParseAt
  <2>5. at = "answers" => r > q
    BY <2>4
  <2>6. at = "questions" => r <= q
    <3> HIDE DEF r, q, s
    <3>1. r \in Nat /\ q \in Nat /\ s \in Nat /\ s > 0
      BY <1>2, <1>8, <1>9 DEF r, q, s
    <3> QED BY <2>4, <3>1
  <2>7. at = "questions" => x.kind = "question"
    <3> HIDE DEF r, q, s
    <3>1. r \in Nat /\ q \in Nat /\ x.record = r
      BY <1>8, <1>9 DEF r, q
    <3>2. x.kind = "answer" => r > q
      BY <1>8, <3>1 DEF q
    <3> QED BY <2>1, <2>6, <3>1, <3>2
  <2>8. at = "answers" => x.kind = "answer"
    <3> HIDE DEF r, q, s
    <3>1. r \in Nat /\ q \in Nat /\ x.record = r
      BY <1>8, <1>9 DEF r, q
    <3>2. x.kind = "question" => r <= q
      BY <1>8, <3>1 DEF q
    <3> QED BY <2>1, <2>5, <3>1, <3>2
  <2> QED BY <2>3, <2>7, <2>8
<1>13. x.kind = "label" => l = Len(x.text)
  BY <1>5, <1>10
<1> QED BY ZenonT(60), <1>2, <1>3, <1>6, <1>8, <1>11, <1>12, <1>13 DEF x, l, B

\* One item further, in the same loop.
LEMMA ParseGoesOn ==
    ASSUME DnsInv, ReplyOK, NEW k \in 0..Len(reply.msg.items), ParseAt(k),
           at \in {"questions", "answers"}, k + 1 \in 1..Len(reply.msg.items),
           ~Synthesized(k + 1), UNCHANGED <<tries, at, reply, result>>,
           scan' \in [i : Nat, left : Nat], scan'.i = ItemEnd(reply.msg, k + 1),
           scan'.left + NextRecord(reply.msg, k + 1) = scan.left + NextRecord(reply.msg, k)
    PROVE  DnsInv'
<1> DEFINE m == reply.msg
           n == Len(m.items)
<1>1. m \in Replies /\ n \in Nat /\ k \in Nat
  <2>1. m \in Replies
    BY ZenonT(60), DatagramFact
  <2> HIDE DEF m
  <2>2. n \in Nat
    BY ZenonT(60), <2>1, ItemsLaid
  <2>3. k \in 0..n
    BY DEF m
  <2> HIDE DEF n
  <2> QED BY <2>1, <2>2, <2>3
<1>2. NextRecord(m, k) <= NextRecord(m, k + 1) /\ NextRecord(m, k) \in Nat
      /\ NextRecord(m, k + 1) \in Nat
  <2>1. k \in 0..n /\ k + 1 \in 0..n /\ k <= k + 1
    BY <1>1
  <2> QED BY <1>1, <2>1, RecordsCount
<1>3. m.qdcount \in Nat
  BY Zenon, <1>1, CountsFact
<1>4. at = "answers" => NextRecord(m, k + 1) > m.qdcount
  <2> DEFINE a == NextRecord(m, k)
             b == NextRecord(m, k + 1)
             q == m.qdcount
  <2>1. at = "answers" => a > q
    BY DEF ParseAt
  <2> HIDE DEF a, b, q
  <2>2. a \in Nat /\ b \in Nat /\ q \in Nat /\ a <= b
    BY <1>2, <1>3 DEF a, b, q
  <2>3. at = "answers" => b > q
    BY <2>1, <2>2
  <2> QED BY <2>3 DEF b, q
<1>5. ASSUME NEW j \in 1..(k + 1) PROVE ~Synthesized(j)'
  <2>1. j = k + 1 \/ j \in 1..k
    BY <1>1
  <2>2. ~Synthesized(j)
    BY <2>1 DEF ParseAt
  <2> QED BY <2>2, SynthStable
<1>6. ParseAt(k + 1)'
  <2>1. /\ at = "questions" => scan'.left + NextRecord(m, k + 1) = m.qdcount + 1
        /\ at = "answers" => scan'.left + NextRecord(m, k + 1) = m.qdcount + m.ancount + 1
    BY DEF ParseAt
  <2> QED BY <1>4, <1>5, <2>1 DEF ParseAt
<1>7. ReplyOK'
  BY ZenonT(60) DEF ReplyOK
<1>8. k + 1 \in 0..Len(reply'.msg.items)
  BY <1>1
<1>9. PrefixIsGenuine' /\ tries' \in Nat
  BY SMTT(60) DEF DnsInv, PrefixIsGenuine
<1> QED BY SMTT(60), <1>6, <1>7, <1>8, <1>9 DEF DnsInv

LEMMA SkipLabelInv == ASSUME DnsInv, SkipLabel PROVE DnsInv'
<1>1. /\ at \in {"questions", "answers"} /\ HasByte /\ LengthByte \in 1..191 /\ ReplyOK
      /\ scan' = [scan EXCEPT !.i = @ + 1 + LengthByte]
      /\ UNCHANGED <<tries, at, reply, result>>
  BY DEF DnsInv, SkipLabel, HasByte, InName
<1>2. PICK k \in 0..Len(reply.msg.items) : ParseAt(k)
  BY <1>1 DEF DnsInv
<1> DEFINE m == reply.msg
           x == m.items[k + 1]
<1>3. /\ k + 1 \in 1..Len(m.items) /\ x \in Items /\ Len(x.text) \in Nat
      /\ scan.i = ItemEnd(m, k) /\ scan.i \in Nat /\ scan.left \in Nat
      /\ x.kind = "label" /\ LengthByte = Len(x.text)
      /\ ItemEnd(m, k + 1) = scan.i + Len(ItemBytes(x))
      /\ x.record = NextRecord(m, k) /\ NextRecord(m, k) \in Nat
  BY ZenonT(60), <1>1, <1>2, NameHere
<1>4. Len(ItemBytes(x)) = 1 + Len(x.text)
  <2> HIDE DEF x
  <2>1. Len(x.text) \in 1..191
    BY <1>1, <1>3
  <2> QED BY <1>3, <2>1, ItemFact
<1>5. /\ scan'.i = scan.i + 1 + LengthByte /\ scan'.left = scan.left
      /\ scan' = [i |-> scan.i + 1 + LengthByte, left |-> scan.left]
  <2>1. scan \in [i : Nat, left : Nat]
    BY <1>2 DEF ParseAt
  <2> QED BY <1>1, <2>1
<1>6. NextRecord(m, k + 1) = NextRecord(m, k)
  <2>1. k + 1 # 0
    BY <1>3
  <2>2. NextRecord(m, k + 1) = x.record + 0
    BY <1>3, <2>1 DEF NextRecord
  <2> QED BY <1>3, <2>2
<1>7. scan'.i = ItemEnd(m, k + 1) /\ scan' \in [i : Nat, left : Nat]
  <2> HIDE DEF x, m
  <2>1. scan.i + 1 + LengthByte = scan.i + (1 + Len(x.text)) /\ scan.i + 1 + LengthByte \in Nat
    <3> DEFINE a == scan.i
               b == LengthByte
    <3>1. a \in Nat
      BY Zenon, <1>3
    <3>2. b = Len(x.text) /\ Len(x.text) \in Nat
      BY Zenon, <1>3
    <3> HIDE DEF a, b
    <3>3. b \in Nat
      BY Zenon, <3>2
    <3>4. a + 1 + b = a + (1 + b) /\ a + 1 + b \in Nat
      BY <3>1, <3>3
    <3> QED BY Zenon, <3>2, <3>4 DEF a, b
  <2> QED BY <1>3, <1>4, <1>5, <2>1
<1>8. ~Synthesized(k + 1)
  BY <1>3 DEF Synthesized
<1> QED BY ZenonT(60), <1>1, <1>2, <1>3, <1>5, <1>6, <1>7, <1>8, ParseGoesOn

LEMMA SkipQuestionInv == ASSUME DnsInv, SkipQuestion PROVE DnsInv'
<1>1. /\ at = "questions" /\ HasByte /\ LengthByte \notin 1..191 /\ ReplyOK
      /\ scan' = [i |-> NameEnd + 4, left |-> scan.left - 1]
      /\ UNCHANGED <<tries, at, reply, result>>
  BY DEF DnsInv, SkipQuestion
<1>2. PICK k \in 0..Len(reply.msg.items) : ParseAt(k)
  BY <1>1 DEF DnsInv
<1> DEFINE m == reply.msg
           x == m.items[k + 1]
<1>3. /\ k + 1 \in 1..Len(m.items) /\ x \in Items
      /\ scan.i \in Nat /\ scan.left \in Nat /\ scan.left > 0
      /\ x.kind = "question" /\ NameEnd = scan.i + Len(x.end)
      /\ ItemEnd(m, k + 1) = scan.i + Len(ItemBytes(x))
      /\ x.record = NextRecord(m, k) /\ NextRecord(m, k) \in Nat
  BY <1>1, <1>2, NameHere
<1>4. Len(ItemBytes(x)) = Len(x.end) + 4 /\ Len(x.end) \in Nat
  <2> HIDE DEF x
  <2>1. Len(ItemBytes(x)) = Len(x.end) + 4
    BY <1>3, ItemFact
  <2>2. x.end \in NameEnds
    BY <1>3 DEF Items
  <2>3. x.end \in Seq(Nat)
    BY <2>2, EndFact
  <2> QED BY <2>1, <2>3
<1>5. scan'.i = NameEnd + 4 /\ scan'.left = scan.left - 1
  BY <1>1
<1>6. NextRecord(m, k + 1) = NextRecord(m, k) + 1
  <2>1. k + 1 # 0
    BY <1>3
  <2> QED BY <1>3, <2>1 DEF NextRecord
<1>7. scan'.i = ItemEnd(m, k + 1) /\ scan' \in [i : Nat, left : Nat]
  <2> DEFINE e == Len(x.end)
  <2> HIDE DEF x, m, e
  <2>1. e \in Nat /\ NameEnd = scan.i + e /\ ItemEnd(m, k + 1) = scan.i + (e + 4)
    BY <1>3, <1>4 DEF e
  <2>2. NameEnd + 4 = scan.i + (e + 4) /\ NameEnd + 4 \in Nat /\ scan.left - 1 \in Nat
    <3> DEFINE i == scan.i
               l == scan.left
    <3> HIDE DEF i, l
    <3>1. i \in Nat /\ l \in Nat /\ l > 0 /\ NameEnd = i + e
      BY <1>3, <2>1 DEF i, l
    <3>2. (i + e) + 4 = i + (e + 4) /\ (i + e) + 4 \in Nat /\ l - 1 \in Nat
      BY <2>1, <3>1
    <3> QED BY <3>1, <3>2 DEF i, l
  <2> QED BY <1>1, <1>5, <2>1, <2>2
<1>8. scan'.left + NextRecord(m, k + 1) = scan.left + NextRecord(m, k)
  <2> DEFINE l == scan.left
             r == NextRecord(m, k)
  <2> HIDE DEF l, r
  <2>1. l \in Nat /\ r \in Nat
    BY <1>3 DEF l, r
  <2>2. (l - 1) + (r + 1) = l + r
    BY <2>1
  <2> QED BY <1>5, <1>6, <2>2 DEF l, r
<1>9. ~Synthesized(k + 1)
  BY <1>3 DEF Synthesized
<1> QED BY <1>1, <1>2, <1>3, <1>7, <1>8, <1>9, ParseGoesOn

LEMMA AnswersBeginInv == ASSUME DnsInv, AnswersBegin PROVE DnsInv'
<1>1. /\ at = "questions" /\ scan.left = 0 /\ ReplyOK /\ at' = "answers"
      /\ scan' = [scan EXCEPT !.left = U16(Datagram, 6)]
      /\ UNCHANGED <<tries, reply, result>>
  BY DEF DnsInv, AnswersBegin
<1>2. PICK k \in 0..Len(reply.msg.items) : ParseAt(k)
  BY <1>1 DEF DnsInv
<1> DEFINE m == reply.msg
           d == DnsBytes(m)
           h == HeaderBytes(m)
<1>3. /\ m \in Replies /\ Len(Datagram) \in Nat /\ Len(Datagram) >= 8
      /\ \A j \in 1..Len(Datagram) : Datagram[j] = d[j]
  BY ZenonT(60), <1>1, DatagramFact
<1>4. m \in DnsMessages /\ \A j \in 1..12 : d[j] = h[j]
  BY <1>3, ItemsLaid
<1>5. m.qdcount \in Nat /\ m.ancount \in Nat
  BY <1>4 DEF DnsMessages
<1>6. h[7] * 256 + h[8] = m.ancount
  BY <1>4, HeaderFact
<1> HIDE DEF d, h
<1>7. U16(Datagram, 6) = m.ancount
  <2>1. 7 \in 1..Len(Datagram) /\ 8 \in 1..Len(Datagram) /\ 6 + 1 = 7 /\ 6 + 2 = 8
        /\ 7 \in 1..12 /\ 8 \in 1..12
    BY <1>3
  <2>2. Datagram[7] = d[7] /\ Datagram[8] = d[8]
    BY <1>3, <2>1
  <2>3. d[7] = h[7] /\ d[8] = h[8]
    BY <1>4, <2>1
  <2> QED BY <1>6, <2>1, <2>2, <2>3 DEF U16
<1>8. scan \in [i : Nat, left : Nat] /\ scan.i = ItemEnd(m, k)
      /\ scan.left + NextRecord(m, k) = m.qdcount + 1
  BY <1>1, <1>2 DEF ParseAt
<1>9. scan' = [i |-> scan.i, left |-> m.ancount]
  BY <1>1, <1>7, <1>8
<1>10. NextRecord(m, k) \in Nat
  BY <1>3, RecordsCount
<1>11. /\ scan' \in [i : Nat, left : Nat] /\ scan'.i = ItemEnd(m, k)
       /\ scan'.left + NextRecord(m, k) = m.qdcount + m.ancount + 1
       /\ NextRecord(m, k) > m.qdcount
  <2> DEFINE r == NextRecord(m, k)
  <2> HIDE DEF r
  <2>1. r = m.qdcount + 1
    BY <1>1, <1>8, <1>10 DEF r
  <2>2. m.ancount + r = m.qdcount + m.ancount + 1 /\ r > m.qdcount
    <3> DEFINE q == m.qdcount
               a == m.ancount
    <3>1. q \in Nat /\ a \in Nat /\ r = q + 1
      BY Zenon, <1>5, <2>1
    <3> HIDE DEF q, a
    <3>2. a + r = q + a + 1 /\ r > q
      BY <3>1
    <3> QED BY Zenon, <3>2 DEF q, a
  <2> QED BY <1>5, <1>8, <1>9, <2>2 DEF r
<1>12. \A j \in 1..k : ~Synthesized(j)'
  BY <1>1, <1>2, SynthStable DEF ParseAt
<1>13. ParseAt(k)'
  BY <1>1, <1>11, <1>12 DEF ParseAt
<1>14. ReplyOK' /\ k \in 0..Len(reply'.msg.items)
  BY <1>1 DEF ReplyOK
<1>15. PrefixIsGenuine' /\ tries' \in Nat
  BY <1>1 DEF DnsInv, PrefixIsGenuine
<1> QED BY <1>1, <1>13, <1>14, <1>15 DEF DnsInv

\* A search that stops behind the first k items finds nothing if none of the
\* items behind them is all there and counted.
LEMMA NothingBehind ==
    ASSUME ReplyOK, NEW k \in 0..Len(reply.msg.items), ParseAt(k), reply' = reply,
           \A j \in 1..Len(reply.msg.items) :
              j > k => \/ ItemEnd(reply.msg, j) > Len(Datagram)
                       \/ reply.msg.items[j].record > reply.msg.qdcount + reply.msg.ancount
    PROVE  \A j \in DOMAIN reply'.msg.items : ~Synthesized(j)'
<1> DEFINE m == reply.msg
           n == Len(m.items)
<1>1. m \in Replies /\ Len(Datagram) \in Nat
  BY ZenonT(60), DatagramFact
<1>2. /\ m \in DnsMessages /\ n \in Nat /\ DOMAIN m.items = 1..n
      /\ (\A j \in 1..n : m.items[j] \in Items) /\ (\A j \in 0..n : ItemEnd(m, j) \in Nat)
  BY <1>1, ItemsLaid
<1>3. m.qdcount \in Nat /\ m.ancount \in Nat
  BY <1>2 DEF DnsMessages
<1>4. ASSUME NEW j \in 1..n, Synthesized(j) PROVE FALSE
  <2> DEFINE E == ItemEnd(m, j)
             D == Len(Datagram)
             r == m.items[j].record
             c == m.qdcount + m.ancount
  <2>1. r <= c /\ E <= D
    BY <1>4 DEF Synthesized
  <2>2. j \in 0..n
    BY <1>2
  <2>3. E \in Nat
    BY <1>2, <2>2
  <2>4. r \in Nat
    <3>1. m.items[j] \in Items
      BY <1>2
    <3> QED BY <3>1 DEF Items
  <2>5. c \in Nat
    BY <1>3
  <2>6. ~(j \in 1..k)
    BY <1>4 DEF ParseAt
  <2>7. j > k
    BY <1>2, <2>6
  <2>8. E > D \/ r > c
    BY <2>7
  <2> HIDE DEF E, D, r, c
  <2>9. D \in Nat
    BY <1>1 DEF D
  <2> QED BY <2>1, <2>3, <2>4, <2>5, <2>8, <2>9
<1>5. DOMAIN reply'.msg.items = 1..n
  BY <1>2
<1> QED BY Zenon, <1>4, <1>5, SynthStable

LEMMA NameCutInv == ASSUME DnsInv, NameCut PROVE DnsInv'
<1>1. /\ at \in {"questions", "answers"} /\ ReplyOK /\ scan.i >= Len(Datagram)
      /\ at' = "done" /\ result' = NoPrefix /\ reply' = reply /\ tries' = tries
      /\ tries \in Nat /\ tries <= MaxTries
  BY DEF DnsInv, NameCut, InName, DnsReturn, PrefixIsGenuine
<1>2. PICK k \in 0..Len(reply.msg.items) : ParseAt(k)
  BY <1>1 DEF DnsInv
<1> DEFINE m == reply.msg
           n == Len(m.items)
<1>3. m \in Replies /\ Len(Datagram) \in Nat
  BY <1>1, DatagramFact
<1>4. scan.i = ItemEnd(m, k)
  BY <1>2 DEF ParseAt
<1>5. ASSUME NEW j \in 1..n, j > k PROVE ItemEnd(m, j) > Len(Datagram)
  <2>1. n \in Nat
    BY ZenonT(60), <1>3, ItemsLaid
  <2>2. j \in 0..n /\ j - 1 \in 0..n /\ k <= j - 1
    BY <1>5, <2>1
  <2> DEFINE a == ItemEnd(m, k)
             b == ItemEnd(m, j - 1)
             B == ItemBytes(m.items[j])
             D == Len(Datagram)
  <2>3. a \in Nat /\ b \in Nat /\ a <= b
    BY <1>3, <2>2, ItemsLaid
  <2>4. ItemEnd(m, j) = b + Len(B)
    BY ZenonT(60), <1>3, ItemsLaid
  <2>5. Len(B) \in Nat /\ Len(B) >= 1
    <3>1. m.items[j] \in Items /\ (m.items[j].kind = "label" => Len(m.items[j].text) \in 1..191)
      BY ZenonT(60), <1>3, ItemsLaid
    <3> QED BY ZenonT(60), <3>1, ItemFact
  <2>6. a >= D /\ D \in Nat
    BY <1>1, <1>3, <1>4
  <2> HIDE DEF a, b, B, D
  <2>7. b + Len(B) > D
    BY <2>3, <2>5, <2>6
  <2> QED BY ZenonT(60), <2>4, <2>7 DEF D
<1>6. \A j \in DOMAIN reply'.msg.items : ~Synthesized(j)'
  BY <1>1, <1>2, <1>5, NothingBehind
<1> QED BY <1>1, <1>6, DoneWithout

LEMMA AnswersEndInv == ASSUME DnsInv, AnswersEnd PROVE DnsInv'
<1>1. /\ at = "answers" /\ ReplyOK /\ scan.left = 0
      /\ at' = "done" /\ result' = NoPrefix /\ reply' = reply /\ tries' = tries
      /\ tries \in Nat /\ tries <= MaxTries
  BY DEF DnsInv, AnswersEnd, DnsReturn, PrefixIsGenuine
<1>2. PICK k \in 0..Len(reply.msg.items) : ParseAt(k)
  BY <1>1 DEF DnsInv
<1> DEFINE m == reply.msg
           n == Len(m.items)
           c == m.qdcount + m.ancount
<1>3. m \in Replies /\ Len(Datagram) \in Nat
  BY ZenonT(60), <1>1, DatagramFact
<1>4. n \in Nat /\ m \in DnsMessages
  BY <1>3, ItemsLaid
<1>5. m.qdcount \in Nat /\ m.ancount \in Nat
  BY <1>4 DEF DnsMessages
<1>6. NextRecord(m, k) = c + 1
  <2>1. 0 + NextRecord(m, k) = m.qdcount + m.ancount + 1
    BY <1>1, <1>2 DEF ParseAt
  <2>2. NextRecord(m, k) \in Nat
    BY <1>3, RecordsCount
  <2> QED BY <1>5, <2>1, <2>2
<1>7. ASSUME NEW j \in 1..n, j > k PROVE m.items[j].record > c
  <2>1. j - 1 \in 0..n /\ k <= j - 1
    BY <1>4, <1>7
  <2>2. NextRecord(m, k) <= NextRecord(m, j - 1) /\ NextRecord(m, j - 1) \in Nat
    BY <1>3, <2>1, RecordsCount
  <2>3. m.items[j].record = NextRecord(m, j - 1)
    BY <1>3, RecordsCount
  <2> DEFINE r == NextRecord(m, j - 1)
  <2>4. c \in Nat
    BY <1>5
  <2> HIDE DEF r, c
  <2>5. c + 1 <= r /\ r \in Nat
    BY <1>6, <2>2 DEF r
  <2>6. r > c
    BY <2>4, <2>5
  <2> QED BY <2>3, <2>6 DEF r
<1>8. \A j \in DOMAIN reply'.msg.items : ~Synthesized(j)'
  BY <1>1, <1>2, <1>7, NothingBehind
<1> QED BY <1>1, <1>8, DoneWithout

LEMMA FieldOffset ==
    ASSUME NEW e \in Nat, NEW s \in Nat, NEW l \in Nat, NEW D \in Nat, NEW i, i = s + e,
           i + 10 <= D, NEW j \in Nat, 1 <= j, j <= 10
    PROVE  e + j \in 1..(e + 10 + l) /\ s + (e + j) = i + j /\ s + (e + j) <= D
  OBVIOUS

LEMMA RdataFact ==
    ASSUME NEW d \in Seq(Nat), NEW i \in Nat, NEW l \in Nat, i + 10 + l <= Len(d)
    PROVE  LET y == SubSeq(d, i + 11, i + 10 + l)
           IN  y \in Seq(Nat) /\ Len(y) = l /\ \A j \in 1..l : y[j] = d[i + (10 + j)]
<1> DEFINE f == i + 11
           g == i + 10 + l
           y == SubSeq(d, f, g)
<1>1. Len(d) \in Nat
  OBVIOUS
<1>2. /\ f \in Int /\ g \in Int /\ g - f + 1 = l /\ (f <= g <=> l # 0) /\ f >= 1
      /\ g <= Len(d) /\ \A j \in 1..l : f + j - 1 = i + (10 + j)
  BY <1>1
<1> HIDE DEF f, g
<1>3. ASSUME NEW j \in f..g PROVE d[j] \in Nat
  <2>1. j \in 1..Len(d)
    BY <1>1, <1>2
  <2> QED BY <2>1, ElementOfSeq
<1>4. f \in Int /\ g \in Int
  BY <1>2
<1>5. /\ y \in Seq(Nat) /\ Len(y) = (IF f <= g THEN g - f + 1 ELSE 0)
      /\ \A j \in 1..(g - f + 1) : y[j] = d[f + j - 1]
  BY SMTT(60), <1>3, <1>4, SubSeqProperties
<1> HIDE DEF y
<1>6. y \in Seq(Nat) /\ Len(y) = l /\ \A j \in 1..l : y[j] = d[i + (10 + j)]
  BY <1>2, <1>5
<1> QED BY <1>6 DEF y, f, g

\* The fields the parser reads of an answer, as far as they arrived.
LEMMA AnswerHere ==
    ASSUME ReplyOK, NEW k \in 0..Len(reply.msg.items), ParseAt(k), HasByte,
           at = "answers", LengthByte \notin 1..191
    PROVE  LET m == reply.msg
               x == m.items[k + 1]
               i == NameEnd
               l == Len(x.text)
           IN  /\ k + 1 \in 1..Len(m.items) /\ x.kind = "answer" /\ i \in Nat /\ l \in Nat
               /\ x \in Items /\ x.record = NextRecord(m, k) /\ NextRecord(m, k) \in Nat
               /\ scan.left \in Nat /\ scan.left > 0
               /\ ItemEnd(m, k + 1) = i + 10 + l
               /\ (i + 10 <= Len(Datagram) => /\ U16(Datagram, i) = x.rtype
                                              /\ U16(Datagram, i + 8) = l)
               /\ (i + 10 + l <= Len(Datagram) =>
                     SubSeq(Datagram, i + 11, i + 10 + l) = x.text)
<1> DEFINE m == reply.msg
           x == m.items[k + 1]
           B == ItemBytes(x)
           e == Len(x.end)
           i == NameEnd
           l == Len(x.text)
           s == scan.i
           D == Len(Datagram)
<1>1. /\ k + 1 \in 1..Len(m.items) /\ x \in Items /\ l \in Nat
      /\ s = ItemEnd(m, k) /\ s \in Nat /\ scan.left \in Nat /\ scan.left > 0
      /\ ItemEnd(m, k + 1) = s + Len(B)
      /\ x.record = NextRecord(m, k) /\ NextRecord(m, k) \in Nat
      /\ i = s + e /\ x.kind = "answer"
  BY NameHere
<1>2. D \in Nat /\ Datagram \in Seq(Nat)
  BY DatagramFact
<1>3. \A j \in 1..Len(B) : s + j <= D => Datagram[s + j] = B[j]
  <2>1. s < D
    BY DEF HasByte
  <2>2. \A j \in 1..Len(B) : ItemEnd(m, k) + j <= D => Datagram[ItemEnd(m, k) + j] = B[j]
    BY ZenonT(60), <1>1, <2>1, ItemHere
  <2> QED BY ZenonT(60), <1>1, <2>2
<1> HIDE DEF x
<1>4. e \in Nat
  <2>1. x.end \in NameEnds
    BY <1>1 DEF Items
  <2>2. x.end \in Seq(Nat)
    BY <2>1, EndFact
  <2> QED BY Zenon, <2>2, LenProperties
<1>5. /\ Len(B) = e + 10 + l
      /\ B[e + 1] * 256 + B[e + 2] = x.rtype
      /\ B[e + 9] * 256 + B[e + 10] = l
      /\ \A j \in 1..l : B[e + 10 + j] = x.text[j]
  BY ZenonT(60), <1>1, ItemFact
<1>6. x.text \in Seq(Nat)
  BY <1>1 DEF Items
<1> HIDE DEF m, B, e, i, l, s, D
<1>15. e \in Nat /\ s \in Nat /\ l \in Nat /\ D \in Nat /\ i = s + e /\ Len(B) = e + 10 + l
  BY <1>1, <1>2, <1>4, <1>5
<1>7. ItemEnd(m, k + 1) = i + 10 + l /\ i \in Nat
  <2>1. s + (e + 10 + l) = (s + e) + 10 + l /\ s + e \in Nat
    BY <1>15
  <2> QED BY <1>1, <1>15, <2>1
<1>8. ASSUME i + 10 <= D PROVE U16(Datagram, i) = x.rtype /\ U16(Datagram, i + 8) = l
  <2>1. ASSUME NEW j \in Nat, 1 <= j, j <= 10 PROVE Datagram[i + j] = B[e + j]
    <3>1. e + j \in 1..Len(B) /\ s + (e + j) = i + j /\ s + (e + j) <= D
      <4>1. e \in Nat /\ s \in Nat /\ l \in Nat /\ D \in Nat /\ i = s + e /\ i + 10 <= D
        BY <1>8, <1>15
      <4>2. e + j \in 1..(e + 10 + l) /\ s + (e + j) = i + j /\ s + (e + j) <= D
        BY <2>1, <4>1, FieldOffset
      <4> QED BY <1>15, <4>2
    <3> QED BY <1>3, <3>1
  <2>2. /\ Datagram[i + 1] = B[e + 1] /\ Datagram[i + 2] = B[e + 2]
        /\ Datagram[i + 9] = B[e + 9] /\ Datagram[i + 10] = B[e + 10]
    BY <2>1
  <2>3. (i + 8) + 1 = i + 9 /\ (i + 8) + 2 = i + 10
    BY <1>7
  <2> QED BY ZenonT(60), <1>5, <2>2, <2>3 DEF U16
<1>9. ASSUME i + 10 + l <= D PROVE SubSeq(Datagram, i + 11, i + 10 + l) = x.text
  <2> DEFINE y == SubSeq(Datagram, i + 11, i + 10 + l)
  <2>1. Len(Datagram) = D
    BY ZenonT(60) DEF D
  <2>2. i \in Nat /\ l \in Nat /\ i + 10 + l <= Len(Datagram)
    BY <1>7, <1>9, <1>15, <2>1
  <2>3. y \in Seq(Nat) /\ Len(y) = l /\ \A j \in 1..l : y[j] = Datagram[i + (10 + j)]
    BY ZenonT(60), <1>2, <2>2, RdataFact
  <2> HIDE DEF y
  <2>4. Len(y) = l
    BY <2>3
  <2>5. ASSUME NEW j \in 1..l PROVE y[j] = x.text[j]
    <3>1. y[j] = Datagram[i + (10 + j)]
      BY <2>3
    <3>2. e + 10 + j \in 1..Len(B) /\ s + (e + 10 + j) = i + (10 + j) /\ s + (e + 10 + j) <= D
      <4> DEFINE c == Len(B)
      <4> HIDE DEF c
      <4>1. c = e + 10 + l
        BY <1>15 DEF c
      <4>2. /\ e + 10 + j \in 1..c /\ s + (e + 10 + j) = i + (10 + j)
            /\ s + (e + 10 + j) <= D
        BY <1>9, <1>15, <4>1
      <4> QED BY <4>2 DEF c
    <3>3. Datagram[s + (e + 10 + j)] = B[e + 10 + j]
      BY <1>3, <3>2
    <3> QED BY <1>5, <3>1, <3>2, <3>3
  <2>6. Len(y) = Len(x.text) /\ \A j \in 1..Len(y) : y[j] = x.text[j]
    BY <2>4, <2>5 DEF l
  <2>7. y = x.text
    BY <1>6, <2>3, <2>6, SeqEqual
  <2> QED BY <2>7 DEF y
<1> QED BY <1>1, <1>7, <1>8, <1>9 DEF m, x, i, l, D

LEMMA TakeAnswerInv == ASSUME DnsInv, TakeAnswer PROVE DnsInv'
<1> DEFINE m == reply.msg
           n == Len(m.items)
           i == NameEnd
           D == Len(Datagram)
           rdlen == U16(Datagram, i + 8)
           rdata == SubSeq(Datagram, i + 11, i + 10 + rdlen)
           whole == i + 10 <= D /\ i + 10 + rdlen <= D
           found == U16(Datagram, i) = AAAA /\ rdlen = 16 /\ Embeds(rdata)
<1>1. /\ at = "answers" /\ HasByte /\ LengthByte \notin 1..191 /\ ReplyOK
      /\ UNCHANGED <<tries, reply>> /\ tries \in Nat /\ tries <= MaxTries
  BY DEF DnsInv, TakeAnswer, PrefixIsGenuine
<1>2. \/ ~whole /\ at' = "done" /\ result' = NoPrefix
      \/ whole /\ found /\ at' = "done" /\ result' = SubSeq(rdata, 1, 12)
      \/ /\ whole /\ ~found /\ UNCHANGED <<at, result>>
         /\ scan' = [i |-> i + 10 + rdlen, left |-> scan.left - 1]
  BY DEF TakeAnswer, DnsReturn
<1>3. PICK k \in 0..n : ParseAt(k)
  BY <1>1 DEF DnsInv
<1> DEFINE x == m.items[k + 1]
           l == Len(x.text)
<1>4. /\ k + 1 \in 1..n /\ x.kind = "answer" /\ i \in Nat /\ l \in Nat /\ x \in Items
      /\ x.record = NextRecord(m, k) /\ NextRecord(m, k) \in Nat
      /\ scan.left \in Nat /\ scan.left > 0
      /\ ItemEnd(m, k + 1) = i + 10 + l
      /\ (i + 10 <= D => U16(Datagram, i) = x.rtype /\ rdlen = l)
      /\ (i + 10 + l <= D => SubSeq(Datagram, i + 11, i + 10 + l) = x.text)
  BY <1>1, <1>3, AnswerHere
<1>5. m \in Replies /\ D \in Nat
  BY <1>1, DatagramFact
<1>6. n \in Nat /\ m \in DnsMessages /\ DOMAIN m.items = 1..n
  BY <1>5, ItemsLaid
<1>7. m.qdcount \in Nat /\ m.ancount \in Nat
  BY <1>6 DEF DnsMessages
<1> HIDE DEF rdlen, rdata, i, D, n, x, l, m
<1>8. whole <=> ItemEnd(m, k + 1) <= D
  BY <1>4, <1>5
<1>9. whole => rdata = x.text /\ rdlen = l /\ U16(Datagram, i) = x.rtype
  BY <1>4 DEF rdata
<1>10. x.record <= m.qdcount + m.ancount
  <2> DEFINE r == NextRecord(m, k)
             q == m.qdcount
             a == m.ancount
             s == scan.left
  <2>1. s + r = q + a + 1
    BY <1>1, <1>3 DEF ParseAt, m
  <2> HIDE DEF r, q, a, s
  <2>2. r \in Nat /\ q \in Nat /\ a \in Nat /\ s \in Nat /\ s > 0
    BY <1>4, <1>7 DEF r, q, a, s
  <2>3. r <= q + a
    BY <2>1, <2>2
  <2> QED BY <1>4, <2>3 DEF r, q, a
<1>11. Synthesized(k + 1) <=> whole /\ found
  <2>1. Synthesized(k + 1) <=> /\ ItemEnd(m, k + 1) <= D
                               /\ x.rtype = AAAA /\ l = 16 /\ Embeds(x.text)
    BY <1>4, <1>10 DEF Synthesized, m, x, l, D
  <2> QED BY <1>8, <1>9, <2>1
<1> HIDE DEF whole, found
<1>12. CASE ~whole /\ at' = "done" /\ result' = NoPrefix
  <2>1. ASSUME NEW j \in 1..n, j > k PROVE ItemEnd(m, j) > D
    <3>1. j \in 0..n /\ k + 1 \in 0..n /\ k + 1 <= j
      <4>1. n \in Nat /\ k + 1 \in 1..n
        BY Zenon, <1>4, <1>6
      <4> QED BY <2>1, <4>1
    <3>2. ItemEnd(m, k + 1) <= ItemEnd(m, j) /\ ItemEnd(m, j) \in Nat
          /\ ItemEnd(m, k + 1) \in Nat
      BY <1>5, <3>1, ItemsLaid DEF n
    <3>3. ~(ItemEnd(m, k + 1) <= D)
      BY <1>8, <1>12
    <3> QED BY <1>5, <3>2, <3>3
  <2>2. \A j \in DOMAIN reply'.msg.items : ~Synthesized(j)'
    BY <1>1, <1>3, <2>1, NothingBehind DEF m, n, D
  <2> QED BY <1>1, <1>12, <2>2, DoneWithout
<1>13. CASE whole /\ found /\ at' = "done" /\ result' = SubSeq(rdata, 1, 12)
  <2>1. Synthesized(k + 1)'
    BY <1>1, <1>11, <1>13, SynthStable
  <2>2. ASSUME NEW j \in DOMAIN reply'.msg.items
        PROVE  j \in Int /\ (Synthesized(j)' => k + 1 <= j)
    <3>1. j \in 1..n
      BY <1>1, <1>6 DEF m
    <3>2. j \in Int /\ (~(k + 1 <= j) => j \in 1..k)
      BY <1>6, <3>1
    <3>3. j \in 1..k => ~Synthesized(j)
      BY <1>3 DEF ParseAt
    <3> QED BY <1>1, <3>2, <3>3, SynthStable
  <2>3. k + 1 \in DOMAIN reply'.msg.items
    BY <1>1, <1>4, <1>6 DEF m
  <2>4. result' = SubSeq(reply'.msg.items[k + 1].text, 1, 12)
    BY <1>1, <1>9, <1>13 DEF x, m
  <2>5. tries' \in Nat /\ tries' <= MaxTries /\ at' = "done"
    BY ZenonT(60), <1>1, <1>13
  <2> QED BY ZenonT(60), <2>1, <2>2, <2>3, <2>4, <2>5, DoneWith
<1>14. CASE /\ whole /\ ~found /\ UNCHANGED <<at, result>>
            /\ scan' = [i |-> i + 10 + rdlen, left |-> scan.left - 1]
  <2>1. scan' = [i |-> i + 10 + l, left |-> scan.left - 1]
    BY <1>9, <1>14
  <2>2. NextRecord(m, k + 1) = NextRecord(m, k) + 1
    <3>1. k + 1 # 0
      BY <1>4, <1>6
    <3> QED BY <1>4, <3>1 DEF NextRecord, x
  <2>3. i + 10 + l \in Nat /\ scan.left - 1 \in Nat
    BY <1>4
  <2>4. scan' \in [i : Nat, left : Nat] /\ scan'.i = ItemEnd(m, k + 1)
        /\ scan'.left = scan.left - 1
    BY <1>4, <2>1, <2>3
  <2>5. scan'.left + NextRecord(m, k + 1) = scan.left + NextRecord(m, k)
    <3> DEFINE s == scan.left
               r == NextRecord(m, k)
    <3> HIDE DEF s, r
    <3>1. s \in Nat /\ r \in Nat
      BY <1>4 DEF s, r
    <3>2. (s - 1) + (r + 1) = s + r
      BY <3>1
    <3> QED BY <2>2, <2>4, <3>2 DEF s, r
  <2>6. ~Synthesized(k + 1)
    BY <1>11, <1>14
  <2> QED BY <1>1, <1>3, <1>4, <1>14, <2>4, <2>5, <2>6, ParseGoesOn DEF m, n
<1> QED BY <1>2, <1>12, <1>13, <1>14 DEF whole, found

LEMMA DnsInvariant == DnsSpec => []DnsInv
<1>1. DnsInit => DnsInv
  BY DEF DnsInit, DnsInv, PrefixIsGenuine, MaxTries
<1>2. DnsInv /\ [DnsNext]_dnsVars => DnsInv'
  <2>1. SUFFICES ASSUME DnsInv, [DnsNext]_dnsVars PROVE DnsInv'
    OBVIOUS
  <2>2. CASE UNCHANGED dnsVars
    <3>1. UNCHANGED <<tries, at, reply, scan, result>>
      BY <2>2 DEF dnsVars
    <3>2. PrefixIsGenuine' = PrefixIsGenuine /\ ReplyOK' = ReplyOK
      BY <3>1 DEF PrefixIsGenuine, ReplyOK, Synthesized, Datagram
    <3>3. ASSUME NEW k, ParseAt(k) PROVE ParseAt(k)'
      BY <3>1, <3>3 DEF ParseAt, Synthesized, Datagram
    <3> QED BY <2>1, <3>1, <3>2, <3>3 DEF DnsInv
  <2> QED BY <2>1, <2>2, NoSocketInv, SendInv, RecvFailsInv, AnswerInv, NameCutInv,
             SkipLabelInv, SkipQuestionInv, AnswersBeginInv, TakeAnswerInv, AnswersEndInv
          DEF DnsNext
<1> QED BY <1>1, <1>2, PTL DEF DnsSpec

\* PrefixIsGenuine, for any set of messages and any configuration: the search
\* returns the prefix of the first synthesized record that arrived in full,
\* and none exactly when there is no such record.
THEOREM DnsSafety == DnsSpec => []PrefixIsGenuine
<1>1. DnsInv => PrefixIsGenuine
  BY DEF DnsInv
<1> QED BY <1>1, DnsInvariant, PTL

-----------------------------------------------------------------------------
(***************************************************************************)
(* Checksum.  A word's sum is kept modulo Word - 1 by everything the code  *)
(* does to it, and is zero only for all-zero data.                         *)
(***************************************************************************)
LEMMA DivMod ==
    ASSUME NEW a \in Int, NEW b \in Nat, b > 0
    PROVE  a \div b \in Int /\ a % b \in 0..(b - 1) /\ a = b * (a \div b) + (a % b)
  OBVIOUS

LEMMA MulAtLeast ==
    ASSUME NEW b \in Nat, NEW c \in Nat, c >= 1
    PROVE  b * c >= b
  OBVIOUS

LEMMA Distribute ==
    ASSUME NEW a \in Int, NEW b \in Int, NEW c \in Int
    PROVE  a * (b + c) = a * b + a * c /\ a * (b - c) = a * b - a * c /\ a * b \in Int
  OBVIOUS

LEMMA ModUnique ==
    ASSUME NEW b \in Nat, NEW q \in Int, NEW r \in 0..(b - 1),
           NEW p \in Int, NEW s \in 0..(b - 1), b * q + r = b * p + s
    PROVE  q = p /\ r = s
<1>1. b \in Int /\ r \in Int /\ s \in Int
  OBVIOUS
<1>2. CASE q > p
  <2>1. q - p \in Nat /\ q - p >= 1
    BY <1>2
  <2>2. b * (q - p) >= b
    BY <2>1, MulAtLeast
  <2>3. b * (q - p) = b * q - b * p /\ b * q \in Int /\ b * p \in Int
    BY <1>1, Distribute
  <2> QED BY <2>2, <2>3
<1>3. CASE p > q
  <2>1. p - q \in Nat /\ p - q >= 1
    BY <1>3
  <2>2. b * (p - q) >= b
    BY <2>1, MulAtLeast
  <2>3. b * (p - q) = b * p - b * q /\ b * q \in Int /\ b * p \in Int
    BY <1>1, Distribute
  <2> QED BY <2>2, <2>3
<1> QED BY <1>2, <1>3

\* The largest word, zero for the sums.
M == Word - 1

\* What folding the carries comes to.
Norm(n) == IF n = 0 THEN 0 ELSE ((n - 1) % M) + 1

LEMMA WordFact == /\ Base \in Nat /\ Base >= 2 /\ Word = Base * Base /\ Word \in Nat
                  /\ M \in Nat /\ M >= 3 /\ Word = M + 1
<1>1. Base \in Nat /\ Base >= 2
  BY BaseAssumption
<1>2. Base * Base \in Nat /\ Base * Base >= 4
  <2>1. Base - 2 \in Nat
    BY <1>1
  <2>2. Base * Base = (Base - 2) * (Base - 2) + 4 * Base - 4
    BY <1>1
  <2>3. (Base - 2) * (Base - 2) \in Nat
    BY <2>1
  <2> QED BY <1>1, <2>2, <2>3
<1> QED BY <1>1, <1>2 DEF Word, M

LEMMA NormFact ==
    ASSUME NEW n \in Nat
    PROVE  /\ Norm(n) \in 0..M /\ (Norm(n) = 0 <=> n = 0)
           /\ \E q \in Int : n = Norm(n) + M * q
<1>1. M \in Nat /\ M > 0
  BY WordFact
<1>2. CASE n = 0
  <2>1. 0 = 0 + M * 0 /\ Norm(n) = 0
    BY <1>1, <1>2 DEF Norm
  <2> QED BY <1>1, <1>2, <2>1
<1>3. CASE n # 0
  <2> DEFINE r == (n - 1) % M
             q == (n - 1) \div M
  <2>1. n - 1 \in Int
    OBVIOUS
  <2>2. q \in Int /\ r \in 0..(M - 1) /\ n - 1 = M * q + r
    BY <1>1, <2>1, DivMod
  <2>3. Norm(n) = r + 1
    BY <1>3 DEF Norm
  <2> HIDE DEF q, r
  <2>4. M * q \in Int
    BY <1>1, <2>2
  <2>5. n = (r + 1) + M * q
    BY <2>2, <2>4
  <2>6. r + 1 \in 0..M /\ r + 1 # 0
    BY <1>1, <2>2
  <2> QED BY <1>3, <2>2, <2>3, <2>5, <2>6
<1> QED BY <1>2, <1>3

\* Adding the carries back in once changes nothing.
LEMMA NormStep ==
    ASSUME NEW k \in Nat, k >= Word
    PROVE  LET j == (k % Word) + (k \div Word)
           IN  j \in Nat /\ j < k /\ Norm(j) = Norm(k)
<1> DEFINE r == k % Word
           q == k \div Word
           j == r + q
<1>1. Word \in Nat /\ Word > 0 /\ M \in Nat /\ M >= 3 /\ Word = M + 1
  BY WordFact
<1>2. q \in Int /\ r \in 0..(Word - 1) /\ k = Word * q + r
  BY <1>1, DivMod
<1> HIDE DEF q, r
<1>3. Word * q = M * q + q /\ M * q \in Int
  BY <1>1, <1>2
<1>4. q >= 1
  <2>1. SUFFICES ASSUME q <= 0 PROVE FALSE
    BY <1>2
  <2>2. 0 - q \in Nat
    BY <1>2, <2>1
  <2>3. M * (0 - q) \in Nat
    BY <1>1, <2>2
  <2>4. M * (0 - q) = 0 - M * q
    BY <1>1, <1>2
  <2>5. M * q <= 0
    BY <1>3, <2>3, <2>4
  <2> QED BY <1>1, <1>2, <1>3, <2>1, <2>5
<1>5. M * q >= M
  <2>1. q \in Nat
    BY <1>2, <1>4
  <2> QED BY <1>1, <1>4, <2>1, MulAtLeast
<1>6. j \in Nat /\ j >= 1 /\ k = j + M * q /\ j < k
  BY <1>1, <1>2, <1>3, <1>4, <1>5
<1>7. Norm(j) = Norm(k)
  <2> HIDE DEF j
  <2> DEFINE a == (k - 1) % M
             p == (k - 1) \div M
             b == (j - 1) % M
             s == (j - 1) \div M
  <2>1. k - 1 \in Int /\ j - 1 \in Int /\ M > 0
    BY <1>1, <1>6
  <2>2. p \in Int /\ a \in 0..(M - 1) /\ k - 1 = M * p + a
    BY <1>1, <2>1, DivMod
  <2>3. s \in Int /\ b \in 0..(M - 1) /\ j - 1 = M * s + b
    BY <1>1, <2>1, DivMod
  <2>4. Norm(k) = a + 1 /\ Norm(j) = b + 1
    BY <1>6 DEF Norm
  <2> HIDE DEF a, b, p, s
  <2>5. M * (s + q) = M * s + M * q /\ M * s \in Int /\ M * p \in Int /\ s + q \in Int
    BY <1>1, <1>2, <2>2, <2>3
  <2>6. M * p + a = M * (s + q) + b
    BY <1>3, <1>6, <2>2, <2>3, <2>5
  <2>7. a = b
    <3> DEFINE t == s + q
    <3> HIDE DEF t
    <3>1. M \in Nat /\ p \in Int /\ a \in 0..(M - 1) /\ t \in Int /\ b \in 0..(M - 1)
          /\ M * p + a = M * t + b
      BY <1>1, <2>2, <2>3, <2>5, <2>6 DEF t
    <3> QED BY <3>1, ModUnique
  <2> QED BY <2>4, <2>7
<1> QED BY <1>6, <1>7 DEF q, r

LEMMA FoldIs ==
    ASSUME NEW n \in Nat
    PROVE  Fold(n) = Norm(n)
<1> DEFINE D(f) == f = [k \in 0..n |-> IF k < Word THEN k ELSE f[(k % Word) + (k \div Word)]]
           g == [k \in 0..n |-> Norm(k)]
           h == CHOOSE f : D(f)
<1>1. Word \in Nat /\ M \in Nat /\ M >= 3 /\ Word = M + 1
  BY WordFact
<1>2. ASSUME NEW k \in Nat, k < Word PROVE Norm(k) = k
  <2>1. CASE k = 0
    BY <2>1 DEF Norm
  <2>2. CASE k # 0
    <3>1. k - 1 \in 0..(M - 1)
      BY <1>1, <1>2, <2>2
    <3>2. (k - 1) % M = k - 1
      <4>1. k - 1 \in Int /\ M > 0
        BY <1>1
      <4> DEFINE a == (k - 1) % M
                 p == (k - 1) \div M
      <4>2. p \in Int /\ a \in 0..(M - 1) /\ k - 1 = M * p + a
        BY <1>1, <4>1, DivMod
      <4> HIDE DEF a, p
      <4>3. M * p + a = M * 0 + (k - 1)
        BY <1>1, <4>1, <4>2
      <4>4. a = k - 1
        BY <1>1, <3>1, <4>2, <4>3, ModUnique
      <4> QED BY <4>4 DEF a
    <3> QED BY <2>2, <3>2 DEF Norm
  <2> QED BY <2>1, <2>2
<1>3. D(g)
  <2>1. ASSUME NEW k \in 0..n
        PROVE  Norm(k) = IF k < Word THEN k ELSE g[(k % Word) + (k \div Word)]
    <3>1. k \in Nat
      OBVIOUS
    <3>2. CASE k < Word
      BY <1>2, <3>1, <3>2
    <3>3. CASE ~(k < Word)
      <4> DEFINE j == (k % Word) + (k \div Word)
      <4>1. k >= Word
        BY <1>1, <3>1, <3>3
      <4>2. j \in Nat /\ j < k /\ Norm(j) = Norm(k)
        BY <3>1, <4>1, NormStep
      <4> HIDE DEF j
      <4>3. j \in 0..n
        BY <4>2
      <4> QED BY <3>3, <4>2, <4>3 DEF j
    <3> QED BY <3>2, <3>3
  <2> QED BY <2>1
<1>4. D(h)
  BY <1>3
<1>5. Fold(n) = h[n]
  BY DEF Fold
<1> HIDE DEF h, g
<1>6. \A k \in 0..n : h[k] = IF k < Word THEN k ELSE h[(k % Word) + (k \div Word)]
  BY <1>4
<1> HIDE DEF D
<1> DEFINE P == {m \in Nat : \A k \in 0..m : k <= n => h[k] = Norm(k)}
<1>7. ASSUME NEW k \in 0..n, \A j \in Nat : j < k => h[j] = Norm(j) PROVE h[k] = Norm(k)
  <2>1. k \in Nat
    OBVIOUS
  <2>2. CASE k < Word
    BY <1>2, <1>6, <2>1, <2>2
  <2>3. CASE ~(k < Word)
    <3> DEFINE j == (k % Word) + (k \div Word)
    <3>1. k >= Word
      BY <1>1, <2>1, <2>3
    <3>2. j \in Nat /\ j < k /\ Norm(j) = Norm(k)
      BY <2>1, <3>1, NormStep
    <3>3. h[k] = h[j]
      BY <1>6, <2>3
    <3> HIDE DEF j
    <3> QED BY <1>7, <3>2, <3>3
  <2> QED BY <2>2, <2>3
<1>8. 0 \in P
  <2>1. ASSUME NEW k \in 0..0, k <= n PROVE h[k] = Norm(k)
    <3>1. k = 0 /\ k \in 0..n /\ \A j \in Nat : ~(j < k)
      OBVIOUS
    <3> QED BY <1>7, <3>1
  <2> QED BY <2>1
<1>9. ASSUME NEW m \in Nat, m \in P PROVE m + 1 \in P
  <2>1. ASSUME NEW k \in 0..(m + 1), k <= n PROVE h[k] = Norm(k)
    <3>1. k \in 0..n
      BY <2>1
    <3>2. ASSUME NEW j \in Nat, j < k PROVE h[j] = Norm(j)
      <4>1. j \in 0..m /\ j <= n
        BY <2>1, <3>2
      <4> QED BY <1>9, <4>1
    <3> QED BY <1>7, <3>1, <3>2
  <2> QED BY <2>1
<1>10. n \in P
  <2> HIDE DEF P
  <2>1. Nat \subseteq P
    BY <1>8, <1>9, SetInduction
  <2> QED BY <2>1
<1>11. h[n] = Norm(n)
  BY <1>10
<1> QED BY <1>5, <1>11

LEMMA RunningSum ==
    ASSUME NEW n \in Nat, NEW w \in [1..n -> Nat]
    PROVE  \E t \in [0..n -> Nat] : t[0] = 0 /\ \A i \in 1..n : t[i] = t[i - 1] + w[i]
<1> DEFINE Q(m, t) == t[0] = 0 /\ \A i \in 1..m : t[i] = t[i - 1] + w[i]
           P == {m \in Nat : m <= n => \E t \in [0..m -> Nat] : Q(m, t)}
<1>1. 0 \in P
  <2> DEFINE t == [i \in 0..0 |-> 0]
  <2>1. t \in [0..0 -> Nat] /\ Q(0, t)
    OBVIOUS
  <2> HIDE DEF t
  <2> QED BY <2>1
<1> HIDE DEF Q
<1>2. ASSUME NEW m \in Nat, m \in P PROVE m + 1 \in P
  <2>1. SUFFICES ASSUME m + 1 <= n PROVE \E t \in [0..(m + 1) -> Nat] : Q(m + 1, t)
    BY SMTT(60)
  <2>2. PICK t \in [0..m -> Nat] : Q(m, t)
    BY SMTT(60), <1>2, <2>1
  <2> DEFINE l == t[m] + w[m + 1]
             u == [i \in 0..(m + 1) |-> IF i = m + 1 THEN l ELSE t[i]]
  <2>3. l \in Nat
    <3>1. m \in 0..m /\ m + 1 \in 1..n
      BY <2>1
    <3>2. t[m] \in Nat /\ w[m + 1] \in Nat
      BY <3>1
    <3> QED BY <3>2
  <2>4. u \in [0..(m + 1) -> Nat]
    BY <2>3
  <2>5. Q(m + 1, u)
    <3>1. u[0] = 0
      BY <2>2 DEF Q
    <3>2. ASSUME NEW i \in 1..(m + 1) PROVE u[i] = u[i - 1] + w[i]
      <4>1. CASE i = m + 1
        <5>1. u[i] = l /\ u[i - 1] = t[m]
          BY <4>1
        <5> HIDE DEF u
        <5> QED BY <4>1, <5>1
      <4>2. CASE i # m + 1
        <5>1. i \in 1..m /\ u[i] = t[i] /\ u[i - 1] = t[i - 1]
          BY <4>2
        <5> HIDE DEF u
        <5> QED BY <2>2, <5>1 DEF Q
      <4> QED BY <4>1, <4>2
    <3> HIDE DEF u
    <3> QED BY <3>1, <3>2 DEF Q
  <2> HIDE DEF u
  <2> QED BY <2>4, <2>5
<1>3. n \in P
  <2> HIDE DEF P
  <2>1. Nat \subseteq P
    BY <1>1, <1>2, SetInduction
  <2> QED BY <2>1
<1>4. \E t \in [0..n -> Nat] : Q(n, t)
  BY <1>3
<1> QED BY <1>4 DEF Q

\* t[i] is the sum of the first i bytes, each with the weight of its place.
Weight(i) == IF i % 2 = 1 THEN Base ELSE 1

IsByteSum(data, t) ==
    /\ t \in [0..Len(data) -> Nat] /\ t[0] = 0
    /\ \A i \in 1..Len(data) : t[i] = t[i - 1] + data[i] * Weight(i)

LEMMA ByteSumExists ==
    ASSUME NEW data \in Seq(Nat)
    PROVE  \E t : IsByteSum(data, t)
<1> DEFINE n == Len(data)
           w == [i \in 1..n |-> data[i] * Weight(i)]
<1>1. n \in Nat /\ \A i \in 1..n : data[i] \in Nat
  BY ElementOfSeq
<1>2. \A i \in 1..n : data[i] * Weight(i) \in Nat
  <2>1. \A i \in 1..n : Weight(i) \in Nat
    BY WordFact DEF Weight
  <2>2. \A a, b \in Nat : a * b \in Nat
    OBVIOUS
  <2> QED BY <1>1, <2>1, <2>2
<1>3. w \in [1..n -> Nat] /\ \A i \in 1..n : w[i] = data[i] * Weight(i)
  BY <1>2
<1> HIDE DEF w, n
<1>4. PICK t \in [0..n -> Nat] : t[0] = 0 /\ \A i \in 1..n : t[i] = t[i - 1] + w[i]
  BY <1>1, <1>3, RunningSum
<1>5. IsByteSum(data, t)
  BY <1>3, <1>4 DEF IsByteSum, n
<1> QED BY <1>5

\* Sum adds up words, which comes to the same.
LEMMA SumIs ==
    ASSUME NEW data \in Seq(Nat), NEW t, IsByteSum(data, t)
    PROVE  Sum(data) = t[Len(data)]
<1> DEFINE n == Len(data)
           v(i) == IF i % 2 = 1
                   THEN data[i] * Base + (IF i + 1 <= n THEN data[i + 1] ELSE 0) ELSE 0
           D(f) == f = [i \in 0..n |-> IF i = 0 THEN 0 ELSE f[i - 1] + v(i)]
           w == [i \in 1..n |-> v(i)]
           h == CHOOSE f : D(f)
<1>1. n \in Nat /\ \A i \in 1..n : data[i] \in Nat
  BY ElementOfSeq
<1>2. Base \in Nat
  BY WordFact
<1>3. Sum(data) = h[n]
  BY DEF Sum
<1>4. ASSUME NEW i \in 1..n PROVE v(i) \in Nat
  <2>1. data[i] * Base \in Nat
    <3>1. data[i] \in Nat
      BY <1>1
    <3> QED BY <1>2, <3>1
  <2>2. (IF i + 1 <= n THEN data[i + 1] ELSE 0) \in Nat
    <3>1. CASE i + 1 <= n
      <4>1. i + 1 \in 1..n
        BY <1>1, <3>1
      <4> QED BY <1>1, <3>1, <4>1
    <3>2. CASE ~(i + 1 <= n)
      BY <3>2
    <3> QED BY <3>1, <3>2
  <2> DEFINE a == data[i] * Base
             b == IF i + 1 <= n THEN data[i + 1] ELSE 0
  <2> HIDE DEF a, b
  <2>3. a + b \in Nat
    BY <2>1, <2>2 DEF a, b
  <2> QED BY <2>3 DEF a, b
<1> HIDE DEF v
<1>5. w \in [1..n -> Nat] /\ \A i \in 1..n : w[i] = v(i)
  BY <1>4
<1> HIDE DEF w
<1>6. PICK f \in [0..n -> Nat] : f[0] = 0 /\ \A i \in 1..n : f[i] = f[i - 1] + w[i]
  BY <1>1, <1>5, RunningSum
<1>7. D(f)
  <2>1. ASSUME NEW i \in 0..n PROVE f[i] = IF i = 0 THEN 0 ELSE f[i - 1] + v(i)
    <3>1. CASE i = 0
      BY <1>6, <3>1
    <3>2. CASE i # 0
      <4>1. i \in 1..n
        BY <1>1, <3>2
      <4> QED BY <1>5, <1>6, <3>2, <4>1
    <3> QED BY <3>1, <3>2
  <2> QED BY <1>6, <2>1
<1>8. D(h)
  BY <1>7
<1> HIDE DEF h
<1>9. h[0] = 0 /\ \A i \in 1..n : h[i] = h[i - 1] + v(i)
  <2>1. \A i \in 0..n : h[i] = IF i = 0 THEN 0 ELSE h[i - 1] + v(i)
    BY <1>8
  <2>2. 0 \in 0..n /\ \A i \in 1..n : i \in 0..n /\ i # 0
    BY <1>1
  <2> QED BY <2>1, <2>2
<1> HIDE DEF D
<1>10. t \in [0..n -> Nat] /\ t[0] = 0
       /\ \A i \in 1..n : t[i] = t[i - 1] + data[i] * Weight(i)
  BY DEF IsByteSum
<1> DEFINE next(i) == IF i % 2 = 1 /\ i < n THEN i + 1 ELSE i
           P == {i \in Nat : i <= n => h[i] = t[next(i)]}
<1>11. 0 \in P
  BY <1>9, <1>10
<1>12. ASSUME NEW i \in Nat, i \in P PROVE i + 1 \in P
  <2>1. SUFFICES ASSUME i + 1 <= n PROVE h[i + 1] = t[next(i + 1)]
    OBVIOUS
  <2> DEFINE k == i + 1
  <2>2. k \in 1..n /\ k - 1 = i /\ i \in 0..n /\ i < n
    BY <1>1, <2>1
  <2>3. h[k] = h[i] + v(k) /\ h[i] = t[next(i)]
    BY <1>9, <1>12, <2>2
  <2>4. CASE k % 2 = 1
    <3>1. i % 2 = 0
      BY <2>4
    <3>2. next(i) = i
      BY <3>1
    <3>3. t[k] = t[i] + data[k] * Base /\ t[i] \in Nat /\ data[k] * Base \in Nat
      <4>1. t[k] = t[k - 1] + data[k] * Weight(k) /\ Weight(k) = Base
        BY <1>10, <2>2, <2>4 DEF Weight
      <4>2. data[k] \in Nat /\ t[i] \in Nat
        BY <1>1, <1>10, <2>2
      <4>3. data[k] * Base \in Nat
        BY <1>2, <4>2
      <4> HIDE DEF k
      <4> QED BY <2>2, <4>1, <4>2, <4>3
    <3>4. CASE k + 1 <= n
      <4>1. k + 1 \in 1..n /\ (k + 1) - 1 = k /\ (k + 1) % 2 = 0 /\ k < n
        <5> HIDE DEF k
        <5>1. k \in Nat /\ k % 2 = 1 /\ k + 1 <= n
          BY <1>1, <2>2, <2>4, <3>4
        <5> QED BY SMTT(60), <1>1, <5>1
      <4>2. t[k + 1] = t[k] + data[k + 1] * 1 /\ data[k + 1] \in Nat
        <5> DEFINE j == k + 1
        <5>1. j \in 1..n /\ j - 1 = k /\ j % 2 = 0
          BY <4>1
        <5> HIDE DEF j, k
        <5>2. t[j] = t[k] + data[j] * Weight(j) /\ Weight(j) = 1 /\ data[j] \in Nat
          BY <1>1, <1>10, <5>1 DEF Weight
        <5> QED BY <5>2 DEF j
      <4>3. v(k) = data[k] * Base + data[k + 1]
        BY <2>4, <3>4 DEF v
      <4>4. next(k) = k + 1
        BY <2>4, <4>1
      <4> DEFINE a == data[k] * Base
                 b == data[k + 1]
                 c == t[i]
      <4>5. a \in Nat /\ b \in Nat /\ c \in Nat
        BY <3>3, <4>2
      <4>6. h[k] = c + (a + b)
        BY <2>3, <3>2, <4>3
      <4>7. t[k + 1] = (c + a) + b * 1
        BY <3>3, <4>2
      <4> HIDE DEF a, b, c
      <4>8. c + (a + b) = (c + a) + b * 1
        BY <4>5
      <4> QED BY <4>4, <4>6, <4>7, <4>8
    <3>5. CASE ~(k + 1 <= n)
      <4>1. v(k) = data[k] * Base + 0
        BY <2>4, <3>5 DEF v
      <4>2. next(k) = k
        BY <1>1, <2>2, <3>5
      <4>3. data[k] * Base + 0 = data[k] * Base
        BY <3>3
      <4> QED BY <2>3, <3>2, <3>3, <4>1, <4>2, <4>3
    <3> QED BY <3>4, <3>5
  <2>5. CASE k % 2 # 1
    <3>1. i % 2 = 1 /\ next(i) = k
      BY SMTT(60), <2>2, <2>5
    <3>2. v(k) = 0 /\ next(k) = k
      BY <2>5 DEF v
    <3>3. t[k] \in Nat
      BY SMTT(60), <1>10, <2>2
    <3>4. h[k] = t[k] + 0
      BY <2>3, <3>1, <3>2
    <3> QED BY <3>2, <3>3, <3>4
  <2> QED BY <2>4, <2>5
<1>13. n \in P
  <2> HIDE DEF P
  <2>1. Nat \subseteq P
    BY <1>11, <1>12, SetInduction
  <2> QED BY <1>1, <2>1
<1>14. h[n] = t[n]
  <2>1. next(n) = n
    BY SMTT(60), <1>1
  <2> QED BY <1>1, <1>13, <2>1
<1> QED BY <1>3, <1>14

\* The two parts of data that is cut after s bytes.
LEMMA TwoParts ==
    ASSUME NEW data \in Seq(Nat), NEW s \in 0..Len(data)
    PROVE  LET a == SubSeq(data, 1, s)
               b == SubSeq(data, s + 1, Len(data))
           IN  /\ a \in Seq(Nat) /\ Len(a) = s /\ (\A i \in 1..s : a[i] = data[i])
               /\ b \in Seq(Nat) /\ Len(b) = Len(data) - s
               /\ \A i \in 1..(Len(data) - s) : b[i] = data[s + i]
<1> DEFINE n == Len(data)
           f == s + 1
           b == SubSeq(data, f, n)
<1>1. n \in Nat /\ \A i \in 1..n : data[i] \in Nat
  BY ElementOfSeq
<1> HIDE DEF n
<1>2. /\ s \in Nat /\ s <= n /\ f \in Int /\ n \in Int /\ n - f + 1 = n - s
      /\ (f <= n <=> n - s # 0) /\ (\A i \in 1..(n - s) : f + i - 1 = s + i)
      /\ \A i \in f..n : i \in 1..n
  BY <1>1 DEF n
<1> HIDE DEF f
<1>3. /\ b \in Seq(Nat) /\ Len(b) = (IF f <= n THEN n - f + 1 ELSE 0)
      /\ \A i \in 1..(n - f + 1) : b[i] = data[f + i - 1]
  <2>1. f \in Int /\ n \in Int /\ \A i \in f..n : data[i] \in Nat
    BY <1>1, <1>2
  <2> QED BY <2>1, SubSeqProperties
<1> HIDE DEF b
<1>4. b \in Seq(Nat) /\ Len(b) = n - s /\ \A i \in 1..(n - s) : b[i] = data[s + i]
  BY <1>2, <1>3
<1>5. LET a == SubSeq(data, 1, s)
      IN  a \in Seq(Nat) /\ Len(a) = s /\ \A i \in 1..s : a[i] = data[i]
  BY PrefixFact
<1> QED BY <1>4, <1>5 DEF b, f, n

LEMMA SumFirst ==
    ASSUME NEW data \in Seq(Nat), NEW t, IsByteSum(data, t), NEW s \in 0..Len(data)
    PROVE  Sum(SubSeq(data, 1, s)) = t[s]
<1> DEFINE a == SubSeq(data, 1, s)
           u == [i \in 0..s |-> t[i]]
           n == Len(data)
<1>1. a \in Seq(Nat) /\ Len(a) = s /\ \A i \in 1..s : a[i] = data[i]
  BY TwoParts
<1>2. n \in Nat /\ s \in Nat /\ s <= n
  OBVIOUS
<1> HIDE DEF a
<1>3. t \in [0..n -> Nat] /\ t[0] = 0
      /\ \A i \in 1..n : t[i] = t[i - 1] + data[i] * Weight(i)
  BY DEF IsByteSum
<1> HIDE DEF n
<1>4. ASSUME NEW i \in 1..s PROVE u[i] = u[i - 1] + a[i] * Weight(i)
  <2>1. i \in 1..n /\ i \in 0..s /\ i - 1 \in 0..s
    BY <1>2
  <2>2. u[i] = t[i] /\ u[i - 1] = t[i - 1]
    BY <2>1
  <2> HIDE DEF u
  <2> QED BY <1>1, <1>3, <2>1, <2>2
<1>5. u \in [0..s -> Nat] /\ u[0] = 0
  BY <1>2, <1>3
<1>6. IsByteSum(a, u)
  <2> HIDE DEF u
  <2> QED BY <1>1, <1>4, <1>5 DEF IsByteSum
<1>7. Sum(a) = u[s]
  <2> HIDE DEF u
  <2> QED BY <1>1, <1>6, SumIs
<1>8. u[s] = t[s]
  BY <1>2
<1> QED BY <1>7, <1>8 DEF a

\* Behind an even number of bytes the weights are the same again.
LEMMA SumEven ==
    ASSUME NEW data \in Seq(Nat), NEW t, IsByteSum(data, t), NEW s \in 0..Len(data), s % 2 = 0
    PROVE  t[Len(data)] = t[s] + Sum(SubSeq(data, s + 1, Len(data)))
<1> DEFINE n == Len(data)
           b == SubSeq(data, s + 1, n)
           l == n - s
<1>1. b \in Seq(Nat) /\ Len(b) = l /\ \A i \in 1..l : b[i] = data[s + i]
  BY TwoParts
<1>2. n \in Nat /\ s \in Nat /\ s <= n /\ l \in Nat /\ s + l = n
  OBVIOUS
<1>3. PICK u : IsByteSum(b, u)
  BY <1>1, ByteSumExists
<1>4. t \in [0..n -> Nat] /\ \A i \in 1..n : t[i] = t[i - 1] + data[i] * Weight(i)
  BY DEF IsByteSum
<1> HIDE DEF b, l, n
<1>5. u \in [0..l -> Nat] /\ u[0] = 0
      /\ \A i \in 1..l : u[i] = u[i - 1] + b[i] * Weight(i)
  BY <1>1, <1>3 DEF IsByteSum
<1>6. \A i \in 1..l : data[s + i] \in Nat
  <2>1. \A i \in 1..n : data[i] \in Nat
    BY ElementOfSeq DEF n
  <2>2. \A i \in 1..l : s + i \in 1..n
    BY <1>2
  <2> QED BY <2>1, <2>2
<1> DEFINE P == {i \in Nat : i <= l => t[s + i] = t[s] + u[i]}
<1>7. 0 \in P
  <2>1. s + 0 = s /\ s \in 0..n
    BY <1>2
  <2>2. t[s] \in Nat
    BY <1>4, <2>1
  <2>3. t[s] + 0 = t[s]
    BY <2>2
  <2> QED BY <1>5, <2>1, <2>3
<1>8. ASSUME NEW i \in Nat, i \in P PROVE i + 1 \in P
  <2>1. SUFFICES ASSUME i + 1 <= l PROVE t[s + (i + 1)] = t[s] + u[i + 1]
    OBVIOUS
  <2> DEFINE k == i + 1
             j == s + k
  <2>2. k \in 1..l /\ k - 1 = i /\ j \in 1..n /\ j - 1 = s + i /\ i <= l
        /\ i \in 0..l /\ s \in 0..n
    BY <1>2, <2>1
  <2>3. Weight(j) = Weight(k)
    <3>1. j % 2 = k % 2
      BY <1>2
    <3> QED BY <3>1 DEF Weight
  <2>4. t[s + i] = t[s] + u[i]
    BY <1>8, <2>2
  <2> HIDE DEF j, k
  <2>5. t[j] = t[s + i] + data[j] * Weight(k) /\ u[k] = u[i] + data[j] * Weight(k)
    <3>1. b[k] = data[j]
      BY <1>1, <2>2 DEF j
    <3> QED BY <1>4, <1>5, <2>2, <2>3, <3>1
  <2> DEFINE d == data[j] * Weight(k)
  <2>6. t[s] \in Nat /\ u[i] \in Nat /\ d \in Nat
    <3>1. Weight(k) \in Nat
      BY WordFact DEF Weight
    <3>2. data[j] \in Nat
      BY <1>6, <2>2 DEF j
    <3>3. d \in Nat
      BY <3>1, <3>2
    <3> HIDE DEF d
    <3> QED BY <1>4, <1>5, <2>2, <3>3
  <2> HIDE DEF d
  <2>7. (t[s] + u[i]) + d = t[s] + (u[i] + d)
    BY <2>6
  <2>8. t[j] = t[s] + u[k]
    BY <2>4, <2>5, <2>7 DEF d
  <2> QED BY <2>8 DEF j, k
<1>9. l \in P
  <2> HIDE DEF P
  <2>1. Nat \subseteq P
    BY <1>7, <1>8, SetInduction
  <2> QED BY <1>2, <2>1
<1>10. t[n] = t[s] + u[l]
  BY <1>2, <1>9
<1>11. Sum(b) = u[l]
  BY <1>1, <1>3, SumIs
<1> QED BY <1>10, <1>11 DEF b, n

\* Behind an odd number of bytes the weights are swapped: Base times the sum
\* is what it should be, but for multiples of M.
LEMMA SumOdd ==
    ASSUME NEW data \in Seq(Nat), NEW t, IsByteSum(data, t), NEW s \in 0..Len(data), s % 2 = 1
    PROVE  \E q \in Nat :
              /\ Base * Sum(SubSeq(data, s + 1, Len(data))) + t[s] = t[Len(data)] + M * q
              /\ t[s] + q <= t[Len(data)]
<1> DEFINE n == Len(data)
           b == SubSeq(data, s + 1, n)
           l == n - s
<1>1. b \in Seq(Nat) /\ Len(b) = l /\ \A i \in 1..l : b[i] = data[s + i]
  BY TwoParts
<1>2. n \in Nat /\ s \in Nat /\ s <= n /\ l \in Nat /\ s + l = n
  OBVIOUS
<1>3. PICK u : IsByteSum(b, u)
  BY <1>1, ByteSumExists
<1>4. t \in [0..n -> Nat] /\ \A i \in 1..n : t[i] = t[i - 1] + data[i] * Weight(i)
  BY DEF IsByteSum
<1> HIDE DEF b, l, n
<1>5. u \in [0..l -> Nat] /\ u[0] = 0
      /\ \A i \in 1..l : u[i] = u[i - 1] + b[i] * Weight(i)
  BY <1>1, <1>3 DEF IsByteSum
<1>6. \A i \in 1..l : data[s + i] \in Nat
  <2>1. \A i \in 1..n : data[i] \in Nat
    BY ElementOfSeq DEF n
  <2>2. \A i \in 1..l : s + i \in 1..n
    BY <1>2
  <2> QED BY <2>1, <2>2
<1>7. Base \in Nat /\ M \in Nat /\ Base * Base = M + 1
  BY WordFact
<1> DEFINE Q(i, q) == Base * u[i] + t[s] = t[s + i] + M * q /\ t[s] + q <= t[s + i]
           P == {i \in Nat : i <= l => \E q \in Nat : Q(i, q)}
<1>8. 0 \in P
  <2>1. s + 0 = s /\ s \in 0..n
    BY <1>2
  <2>2. t[s] \in Nat
    BY <1>4, <2>1
  <2>3. Base * 0 + t[s] = t[s] + M * 0 /\ t[s] + 0 <= t[s]
    BY <1>7, <2>2
  <2>4. Q(0, 0)
    BY <1>5, <2>1, <2>3
  <2> HIDE DEF Q
  <2> QED BY <2>4
<1> HIDE DEF Q
<1>9. ASSUME NEW i \in Nat, i \in P PROVE i + 1 \in P
  <2>1. SUFFICES ASSUME i + 1 <= l PROVE \E q \in Nat : Q(i + 1, q)
    OBVIOUS
  <2> DEFINE k == i + 1
             j == s + k
             d == data[j]
             x == u[i]
             y == t[s + i]
             z == t[s]
  <2>2. k \in 1..l /\ k - 1 = i /\ j \in 1..n /\ j - 1 = s + i /\ i <= l
        /\ i \in 0..l /\ s \in 0..n /\ s + i \in 0..n
    BY <1>2, <2>1
  <2>3. PICK q \in Nat : Q(i, q)
    BY <1>9, <2>2
  <2>4. x \in Nat /\ y \in Nat /\ z \in Nat /\ d \in Nat
    BY <1>4, <1>5, <1>6, <2>2
  <2>5. Base * x + z = y + M * q /\ z + q <= y
    BY <2>3 DEF Q
  <2>6. u[k] = x + d * Weight(k) /\ t[j] = y + d * Weight(j)
    <3>1. b[k] = d
      BY <1>1, <2>2
    <3> HIDE DEF k, j
    <3> QED BY <1>4, <1>5, <2>2, <3>1
  <2>7. k \in Nat /\ j % 2 = (IF k % 2 = 1 THEN 0 ELSE 1)
    BY <1>2
  <2> HIDE DEF k, j, d, x, y, z
  <2>8. CASE k % 2 = 1
    <3>1. Weight(k) = Base /\ Weight(j) = 1
      BY <2>7, <2>8 DEF Weight
    <3>2. Base * (x + d * Base) = Base * x + d * (Base * Base)
      BY <1>7, <2>4
    <3>3. d * (M + 1) = M * d + d /\ M * (q + d) = M * q + M * d
      BY <1>7, <2>4
    <3>4. Base * x \in Int /\ M * q \in Int /\ M * d \in Int
      BY <1>7, <2>4
    <3>5. Base * (x + d * Base) + z = (y + d * 1) + M * (q + d)
      BY <1>7, <2>4, <2>5, <3>2, <3>3, <3>4
    <3>6. z + (q + d) <= y + d * 1 /\ q + d \in Nat
      BY <2>4, <2>5
    <3>7. Q(k, q + d)
      BY <2>6, <3>1, <3>5, <3>6 DEF Q, j, z
    <3> QED BY <3>6, <3>7 DEF k
  <2>9. CASE k % 2 # 1
    <3>1. Weight(k) = 1 /\ Weight(j) = Base
      BY <2>7, <2>9 DEF Weight
    <3>2. Base * (x + d * 1) = Base * x + d * Base
      BY <1>7, <2>4
    <3>3. Base * x \in Int /\ M * q \in Int /\ d * Base \in Nat
      BY <1>7, <2>4
    <3>4. Base * (x + d * 1) + z = (y + d * Base) + M * q
      <4> DEFINE A == Base * x
                 C == M * q
                 E == d * Base
      <4>1. A \in Int /\ C \in Int /\ E \in Int /\ A + z = y + C
            /\ Base * (x + d * 1) = A + E
        BY <2>5, <3>2, <3>3
      <4> HIDE DEF A, C, E
      <4>2. (A + E) + z = (y + E) + C
        BY <2>4, <4>1
      <4> QED BY <4>1, <4>2 DEF C, E
    <3>5. z + q <= y + d * Base
      BY <2>4, <2>5, <3>3
    <3>6. Q(k, q)
      BY <2>6, <3>1, <3>4, <3>5 DEF Q, j, z
    <3> QED BY <3>6 DEF k
  <2> QED BY <2>8, <2>9
<1>10. l \in P
  <2> HIDE DEF P
  <2>1. Nat \subseteq P
    BY <1>8, <1>9, SetInduction
  <2> QED BY <1>2, <2>1
<1>11. \E q \in Nat : Q(l, q)
  BY <1>2, <1>10
<1>12. Sum(b) = u[l]
  BY <1>1, <1>3, SumIs
<1> QED BY <1>2, <1>11, <1>12 DEF Q, b, n

\* sum2: the sum of a payload in two parts.
LEMMA PartsFact ==
    ASSUME NEW data \in Seq(Nat), NEW s \in 0..Len(data)
    PROVE  LET p == Sum2(SubSeq(data, 1, s), SubSeq(data, s + 1, Len(data)))
           IN  /\ p \in Nat /\ (\E q \in Int : p = Sum(data) + M * q)
               /\ Sum(data) = 0 => p = 0
<1> DEFINE n == Len(data)
           a == SubSeq(data, 1, s)
           b == SubSeq(data, s + 1, n)
           p == Sum2(a, b)
           B == Sum(b)
<1>1. PICK t : IsByteSum(data, t)
  BY ByteSumExists
<1>2. Sum(data) = t[n] /\ Sum(a) = t[s]
  BY <1>1, SumIs, SumFirst
<1>3. t[n] \in Nat /\ t[s] \in Nat
  <2>1. n \in 0..n /\ s \in 0..n
    OBVIOUS
  <2>2. t \in [0..n -> Nat]
    BY <1>1 DEF IsByteSum
  <2> HIDE DEF n
  <2> QED BY <2>1, <2>2
<1>4. B \in Nat
  <2>1. b \in Seq(Nat)
    BY TwoParts
  <2> HIDE DEF b
  <2>2. PICK u : IsByteSum(b, u)
    BY <2>1, ByteSumExists
  <2>3. Sum(b) = u[Len(b)]
    BY <2>1, <2>2, SumIs
  <2>4. u \in [0..Len(b) -> Nat]
    BY <2>2 DEF IsByteSum
  <2>5. Len(b) \in 0..Len(b)
    <3>1. Len(b) \in Nat
      BY <2>1
    <3> QED BY <3>1
  <2> QED BY <2>3, <2>4, <2>5
<1>5. Len(a) = s
  BY TwoParts
<1>6. Base \in Nat /\ Base >= 2 /\ M \in Nat /\ Base * Base = M + 1
  BY WordFact
<1>7. CASE s % 2 = 0
  <2>1. t[n] = t[s] + B
    BY <1>1, <1>7, SumEven
  <2>2. p = t[s] + B
    BY <1>2, <1>5, <1>7 DEF Sum2
  <2> HIDE DEF p, B, a, b
  <2>3. p = Sum(data) /\ p \in Nat
    BY <1>2, <1>3, <2>1, <2>2
  <2>4. p = Sum(data) + M * 0
    BY <1>6, <2>3
  <2> QED BY <2>3, <2>4 DEF p, a, b, n
<1>8. CASE s % 2 = 1
  <2>1. PICK q \in Nat : Base * B + t[s] = t[n] + M * q /\ t[s] + q <= t[n]
    BY <1>1, <1>8, SumOdd
  <2> DEFINE f == Norm(B)
             h == f \div Base
             g == f % Base
  <2>2. p = t[s] + (h + g * Base)
    <3>1. Fold(B) = f
      BY <1>4, FoldIs
    <3>2. p = Sum(a) + ((Fold(B) \div Base) + (Fold(B) % Base) * Base)
      BY <1>5, <1>8 DEF Sum2
    <3> QED BY <1>2, <3>1, <3>2
  <2> HIDE DEF p, B, a, b, n
  <2>3. f \in 0..M /\ (f = 0 <=> B = 0) /\ \E c \in Int : B = f + M * c
    BY <1>4, NormFact
  <2>4. PICK c \in Int : B = f + M * c
    BY <2>3
  <2> HIDE DEF f
  <2>5. h \in Int /\ g \in 0..(Base - 1) /\ f = Base * h + g
    BY <1>6, <2>3, DivMod
  <2>6. h >= 0
    <3>1. SUFFICES ASSUME h <= -1 PROVE FALSE
      BY <2>5
    <3>2. 0 - h \in Nat /\ 0 - h >= 1
      BY <2>5, <3>1
    <3>3. Base * (0 - h) >= Base
      BY <1>6, <3>2, MulAtLeast
    <3> HIDE DEF h, g
    <3>4. Base * (0 - h) = 0 - Base * h /\ Base * h \in Int
      <4>1. h \in Int /\ 0 \in Int /\ Base \in Int
        BY <1>6, <2>5
      <4>2. Base * (0 - h) = Base * 0 - Base * h /\ Base * h \in Int
        BY <4>1, Distribute
      <4>3. Base * 0 = 0
        BY <4>1
      <4> QED BY <4>2, <4>3
    <3> QED BY <1>6, <2>3, <2>5, <3>3, <3>4
  <2> HIDE DEF h, g
  <2>7. g \in Nat /\ g * Base \in Nat /\ h \in Nat
    BY <1>6, <2>5, <2>6
  <2>8. p \in Nat
    BY <1>3, <2>2, <2>7
  <2>9. Base * f = (M + 1) * h + g * Base
    <3>1. Base * (Base * h + g) = (Base * Base) * h + g * Base
      BY <1>6, <2>5, <2>7
    <3> QED BY <1>6, <2>5, <3>1
  <2>10. Base * B = Base * f + M * (Base * c)
    <3>1. Base * (f + M * c) = Base * f + M * (Base * c)
      BY <1>6, <2>3, <2>4
    <3> QED BY <2>4, <3>1
  <2>11. p = t[n] + M * (q - Base * c - h)
    <3> DEFINE e == Base * c
               A == Base * f
    <3>1. e \in Int /\ A \in Int
      BY <1>6, <2>3, <2>4
    <3> HIDE DEF e, A
    <3>2. A = M * h + h + g * Base
      BY <1>6, <2>7, <2>9 DEF A
    <3>3. A + M * e + t[s] = t[n] + M * q
      BY <2>1, <2>10 DEF A, e
    <3>4. M * (q - e - h) = M * q - M * e - M * h
          /\ M * q \in Int /\ M * e \in Int /\ M * h \in Int
      BY <1>6, <2>7, <3>1
    <3>5. t[s] + (h + g * Base) = t[n] + M * (q - e - h)
      <4> DEFINE C == M * q
                 E == M * e
                 H == M * h
                 G == g * Base
                 y == t[s]
                 z == t[n]
      <4>1. C \in Int /\ E \in Int /\ H \in Int /\ G \in Int
        BY <2>7, <3>4
      <4>2. y \in Int /\ z \in Int
        BY <1>3
      <4>3. A = H + h + G /\ A + E + y = z + C /\ M * (q - e - h) = C - E - H
        BY <3>2, <3>3, <3>4
      <4> HIDE DEF C, E, H, G, y, z
      <4>4. y + (h + G) = z + (C - E - H)
        BY <2>7, <3>1, <4>1, <4>2, <4>3
      <4> QED BY <4>3, <4>4 DEF G, y, z
    <3> QED BY <2>2, <3>5 DEF e
  <2>12. q - Base * c - h \in Int
    BY <1>6, <2>4, <2>7
  <2>13. ASSUME t[n] = 0 PROVE p = 0
    <3>1. t[s] = 0 /\ q = 0
      BY <1>3, <2>1, <2>13
    <3>2. Base * B = 0
      <4>1. M * 0 = 0 /\ Base * B \in Nat
        BY <1>4, <1>6
      <4> QED BY <2>1, <2>13, <3>1, <4>1
    <3>3. B = 0
      <4>1. ASSUME B >= 1 PROVE FALSE
        <5>1. Base * B >= Base
          BY <1>4, <1>6, <4>1, MulAtLeast
        <5> QED BY <1>6, <3>2, <5>1
      <4> QED BY <1>4, <4>1
    <3>4. Base * h + g = 0
      BY <2>3, <2>5, <3>3
    <3>5. g = 0 /\ h = 0
      <4>1. Base * h \in Nat
        BY <1>6, <2>7
      <4>2. g = 0 /\ Base * h = 0
        BY <2>7, <3>4, <4>1
      <4>3. ASSUME h >= 1 PROVE FALSE
        <5>1. Base * h >= Base
          BY <1>6, <2>7, <4>3, MulAtLeast
        <5> QED BY <1>6, <4>2, <5>1
      <4> QED BY <2>7, <4>2, <4>3
    <3>6. 0 + (0 + 0 * Base) = 0
      BY <1>6
    <3> QED BY <2>2, <3>1, <3>5, <3>6
  <2> QED BY <1>2, <2>8, <2>11, <2>12, <2>13 DEF p, a, b, n
<1>9. s % 2 = 0 \/ s % 2 = 1
  OBVIOUS
<1> QED BY <1>7, <1>8, <1>9

\* Writing the checksum field, which was zero, adds its value.
LEMMA FieldSum ==
    ASSUME NEW m \in Seq(Nat), Len(m) >= 4, m[3] = 0, m[4] = 0, NEW c \in Nat
    PROVE  LET w == [m EXCEPT ![3] = c \div Base, ![4] = c % Base]
           IN  Sum(w) = Sum(m) + c /\ Sum(m) \in Nat
<1> DEFINE n == Len(m)
           d == c \div Base
           e == c % Base
           w == [m EXCEPT ![3] = d, ![4] = e]
<1>1. n \in Nat /\ n >= 4 /\ \A i \in 1..n : m[i] \in Nat
  BY ElementOfSeq
<1>2. Base \in Nat /\ Base > 0
  BY WordFact
<1>3. d \in Int /\ e \in 0..(Base - 1) /\ c = Base * d + e
  BY <1>2, DivMod
<1> HIDE DEF d, e
<1>4. d \in Nat /\ e \in Nat
  <2>1. SUFFICES ASSUME d <= -1 PROVE FALSE
    BY <1>2, <1>3
  <2>2. 0 - d \in Nat /\ 0 - d >= 1 /\ Base \in Int /\ d \in Int /\ 0 \in Int
    BY <1>2, <1>3, <2>1
  <2>3. Base * (0 - d) >= Base
    BY <1>2, <2>2, MulAtLeast
  <2>4. Base * (0 - d) = Base * 0 - Base * d /\ Base * d \in Int
    BY <2>2, Distribute
  <2>5. Base * 0 = 0
    BY <1>2
  <2> DEFINE A == Base * d
             B == Base * (0 - d)
  <2> HIDE DEF A, B
  <2>6. B >= Base /\ B = 0 - A /\ A \in Int /\ c = A + e
    BY <1>3, <2>3, <2>4, <2>5 DEF A, B
  <2> QED BY <1>2, <1>3, <2>6
<1>5. /\ w \in Seq(Nat) /\ Len(w) = n /\ w[3] = d /\ w[4] = e
      /\ \A i \in 1..n : i # 3 /\ i # 4 => w[i] = m[i]
  <2>1. m \in [1..n -> Nat]
    BY <1>1
  <2>2. w \in [1..n -> Nat] /\ \A i \in 1..n : w[i] = IF i = 4 THEN e ELSE IF i = 3 THEN d ELSE m[i]
    BY <1>4, <2>1
  <2>3. 3 \in 1..n /\ 4 \in 1..n
    BY <1>1
  <2> HIDE DEF w, n
  <2>4. w \in Seq(Nat) /\ Len(w) = n
    <3>1. n \in Nat
      BY Zenon, <1>1
    <3>2. w \in [1..n -> Nat]
      BY Zenon, <2>2
    <3> QED BY <3>1, <3>2, FunctionIsSeq
  <2> QED BY <2>2, <2>3, <2>4
<1>6. PICK t : IsByteSum(m, t)
  BY ByteSumExists
<1> HIDE DEF w
<1>7. t \in [0..n -> Nat] /\ t[0] = 0 /\ \A i \in 1..n : t[i] = t[i - 1] + m[i] * Weight(i)
  BY <1>6 DEF IsByteSum
<1>8. Sum(m) = t[n]
  BY <1>6, SumIs
<1> HIDE DEF n
<1> DEFINE a(i) == IF i < 3 THEN 0 ELSE IF i = 3 THEN d * Base ELSE c
           u == [i \in 0..n |-> t[i] + a(i)]
<1>9. d * Base \in Nat /\ c = d * Base + e * 1
  BY <1>2, <1>3, <1>4
<1>10. \A i \in 0..n : a(i) \in Nat /\ t[i] \in Nat
  BY <1>7, <1>9
<1>11. u \in [0..n -> Nat] /\ u[0] = 0
  <2>1. 0 \in 0..n /\ a(0) = 0
    BY <1>1
  <2> HIDE DEF a
  <2>2. \A i \in 0..n : t[i] + a(i) \in Nat
    BY <1>10
  <2> QED BY <1>7, <2>1, <2>2
<1>12. ASSUME NEW i \in 1..n PROVE u[i] = u[i - 1] + w[i] * Weight(i)
  <2>1. i \in 0..n /\ i - 1 \in 0..n /\ i \in Nat
    BY <1>1
  <2>2. u[i] = t[i] + a(i) /\ u[i - 1] = t[i - 1] + a(i - 1)
    BY <2>1
  <2>3. t[i] = t[i - 1] + m[i] * Weight(i) /\ t[i - 1] \in Nat
    BY <1>7, <2>1
  <2>4. m[i] * Weight(i) \in Nat
    <3>1. Weight(i) \in Nat /\ m[i] \in Nat
      BY <1>1, <1>2 DEF Weight
    <3> QED BY <3>1
  <2>5. m[i] * Weight(i) + a(i) = a(i - 1) + w[i] * Weight(i)
    <3>1. CASE i < 3
      <4>1. w[i] = m[i] /\ a(i) = 0 /\ a(i - 1) = 0
        BY <1>5, <2>1, <3>1
      <4> HIDE DEF a
      <4> QED BY <2>4, <4>1
    <3>2. CASE i = 3
      <4>1. Weight(i) = Base /\ a(i) = d * Base /\ a(i - 1) = 0
        BY <3>2 DEF Weight
      <4>2. 0 * Base + d * Base = 0 + d * Base
        BY <1>2, <1>9
      <4> HIDE DEF a
      <4> QED BY <1>5, <3>2, <4>1, <4>2
    <3>3. CASE i = 4
      <4>1. Weight(i) = 1 /\ a(i) = c /\ a(i - 1) = d * Base
        BY <3>3 DEF Weight
      <4>2. 0 * 1 + c = d * Base + e * 1
        BY <1>9
      <4> HIDE DEF a
      <4> QED BY <1>5, <3>3, <4>1, <4>2
    <3>4. CASE i > 4
      <4>1. w[i] = m[i] /\ a(i) = c /\ a(i - 1) = c
        BY <1>5, <2>1, <3>4
      <4> HIDE DEF a
      <4> QED BY <2>4, <4>1
    <3> QED BY <2>1, <3>1, <3>2, <3>3, <3>4
  <2> DEFINE p == m[i] * Weight(i)
             r == w[i] * Weight(i)
             x == a(i)
             y == a(i - 1)
             z == t[i - 1]
  <2>6. p \in Nat /\ x \in Nat /\ y \in Nat /\ z \in Nat
    BY <1>10, <2>1, <2>3, <2>4
  <2>7. r \in Nat
    <3>1. Weight(i) \in Nat /\ w[i] \in Nat
      BY <1>2, <1>5, ElementOfSeq DEF Weight
    <3> QED BY <3>1
  <2> HIDE DEF p, r, x, y, z
  <2>8. (z + p) + x = (z + y) + r
    <3>1. p + x = y + r
      BY <2>5 DEF p, r, x, y
    <3> QED BY <2>6, <2>7, <3>1
  <2> HIDE DEF u, a
  <2> QED BY <2>2, <2>3, <2>8 DEF p, r, x, y, z
<1>13. IsByteSum(w, u)
  <2> HIDE DEF u
  <2> QED BY <1>5, <1>11, <1>12 DEF IsByteSum
<1>14. Sum(w) = u[n]
  <2> HIDE DEF u
  <2> QED BY <1>5, <1>13, SumIs
<1>15. u[n] = t[n] + c /\ t[n] \in Nat
  <2>1. n \in 0..n /\ a(n) = c
    BY <1>1
  <2> HIDE DEF a
  <2> QED BY <1>10, <2>1
<1> QED BY <1>8, <1>14, <1>15 DEF w, d, e

\* The complement of a sum brings what it was the sum of to a multiple of M.
LEMMA Complement ==
    ASSUME NEW y \in Nat, NEW z \in Nat, NEW q \in Int, y = z + M * q, z = 0 => y = 0
    PROVE  LET c == M - Norm(y)
           IN  c \in 0..M /\ z + c # 0 /\ \E r \in Int : z + c = M * r
<1> DEFINE f == Norm(y)
           c == M - f
<1>1. M \in Nat /\ M >= 3
  BY WordFact
<1>2. f \in 0..M /\ (f = 0 <=> y = 0) /\ \E p \in Int : y = f + M * p
  BY NormFact
<1>3. PICK p \in Int : y = f + M * p
  BY <1>2
<1> HIDE DEF f
<1>4. c \in 0..M
  BY <1>1, <1>2
<1>5. z + c # 0
  BY <1>1, <1>2, <1>4
<1>6. z + c = M * (p - q + 1)
  <2> DEFINE P == M * p
             Q == M * q
  <2>1. M * (p - q + 1) = P - Q + M /\ P \in Int /\ Q \in Int
    BY <1>1, <1>3
  <2>2. y = f + P /\ y = z + Q
    BY <1>3
  <2> HIDE DEF P, Q
  <2>3. z + c = P - Q + M
    BY <1>1, <1>2, <2>1, <2>2
  <2> QED BY <2>1, <2>3
<1>7. p - q + 1 \in Int
  OBVIOUS
<1> QED BY <1>4, <1>5, <1>6, <1>7 DEF f

LEMMA NormMultiple ==
    ASSUME NEW x \in Nat, x # 0, NEW r \in Int, x = M * r
    PROVE  Norm(x) = M
<1>1. M \in Nat /\ M >= 3
  BY WordFact
<1> DEFINE f == Norm(x)
<1>2. f \in 0..M /\ f # 0 /\ \E p \in Int : x = f + M * p
  BY NormFact
<1>3. PICK p \in Int : x = f + M * p
  BY <1>2
<1> HIDE DEF f
<1>4. M * (r - 1) + (M - 1) = M * p + (f - 1)
  <2> DEFINE R == M * r
             P == M * p
  <2>1. M * (r - 1) = R - M /\ R \in Int /\ P \in Int /\ R = f + P
    BY <1>1, <1>3
  <2> HIDE DEF R, P
  <2>2. (R - M) + (M - 1) = P + (f - 1)
    BY <1>1, <1>2, <2>1
  <2> QED BY <2>1, <2>2 DEF P
<1>5. r - 1 \in Int /\ M - 1 \in 0..(M - 1) /\ f - 1 \in 0..(M - 1)
  BY <1>1, <1>2
<1>6. M - 1 = f - 1
  <2> DEFINE a == r - 1
             b == M - 1
             e == f - 1
  <2> HIDE DEF a, b, e
  <2>1. M \in Nat /\ a \in Int /\ b \in 0..(M - 1) /\ p \in Int /\ e \in 0..(M - 1)
        /\ M * a + b = M * p + e
    BY <1>1, <1>3, <1>4, <1>5 DEF a, b, e
  <2>2. b = e
    BY <2>1, ModUnique
  <2> QED BY <2>2 DEF b, e
<1> QED BY <1>1, <1>2, <1>6 DEF f

LEMMA NatSeq ==
    ASSUME NEW S, S \subseteq Nat, NEW m \in Seq(S)
    PROVE  m \in Seq(Nat)
<1>1. Len(m) \in Nat /\ m \in [1..Len(m) -> S]
  OBVIOUS
<1>2. m \in [1..Len(m) -> Nat]
  BY <1>1
<1> QED BY <1>1, <1>2

ChecksumInv == msg \in Messages /\ pseudo \in Pseudos /\ split \in 0..Len(Payload)

LEMMA MsgFact ==
    ASSUME ChecksumInv
    PROVE  /\ msg \in Seq(Nat) /\ Len(msg) >= 4 /\ msg[3] = 0 /\ msg[4] = 0
           /\ pseudo \in Nat /\ Sum(msg) \in Nat
<1>1. msg \in Seq(0..(Base - 1)) /\ Len(msg) >= 4 /\ msg[3] = 0 /\ msg[4] = 0
  BY BaseAssumption DEF ChecksumInv
<1>2. msg \in Seq(Nat)
  <2>1. 0..(Base - 1) \subseteq Nat
    BY WordFact
  <2> QED BY <1>1, <2>1, NatSeq
<1>3. pseudo \in Nat
  BY BaseAssumption DEF ChecksumInv
<1>4. Sum(msg) \in Nat
  BY <1>1, <1>2, FieldSum, 0 \in Nat
<1> QED BY <1>1, <1>2, <1>3, <1>4

LEMMA ChecksumOfIs ==
    ASSUME NEW data, NEW init \in Nat, Sum(data) \in Nat
    PROVE  ChecksumOf(data, init) = M - Norm(init + Sum(data))
<1>1. init + Sum(data) \in Nat
  OBVIOUS
<1>2. Fold(init + Sum(data)) = Norm(init + Sum(data))
  BY <1>1, FoldIs
<1> QED BY <1>2 DEF ChecksumOf, M

LEMMA Checks ==
    ASSUME ChecksumInv, NEW c \in Nat, NEW r \in Int,
           pseudo + Sum(msg) + c = M * r, pseudo + Sum(msg) + c # 0
    PROVE  Verifies(c)
<1> DEFINE w == WithField(c)
           x == pseudo + Sum(msg) + c
<1>1. pseudo \in Nat /\ Sum(msg) \in Nat
  BY MsgFact
<1>2. Sum(w) = Sum(msg) + c
  BY MsgFact, FieldSum DEF WithField
<1>3. Sum(w) \in Nat /\ pseudo + Sum(w) = x /\ x \in Nat
  BY <1>1, <1>2
<1> HIDE DEF w
<1>4. ChecksumOf(w, pseudo) = M - Norm(x)
  BY <1>1, <1>3, ChecksumOfIs
<1>5. Norm(x) = M
  BY <1>3, NormMultiple
<1>6. M - M = 0
  BY WordFact
<1> QED BY <1>4, <1>5, <1>6 DEF Verifies, w

LEMMA TcpVerifies == ASSUME ChecksumInv PROVE Verifies(TcpField)
<1> DEFINE n == Len(msg)
           h == Sum(L4Header)
           l == Sum(Payload)
           p == Parts
           z == pseudo + Sum(msg)
           y == pseudo + p + h
<1>1. msg \in Seq(Nat) /\ n >= 4 /\ pseudo \in Nat /\ Sum(msg) \in Nat /\ n \in Nat
  BY MsgFact
<1>2. 4 \in 0..n /\ 4 % 2 = 0 /\ 4 + 1 = 5
  BY <1>1
<1>3. PICK t : IsByteSum(msg, t)
  BY <1>1, ByteSumExists
<1>4. h = t[4]
  BY <1>1, <1>2, <1>3, SumFirst DEF L4Header
<1>5. Sum(msg) = t[4] + l
  <2>1. t[n] = t[4] + Sum(SubSeq(msg, 4 + 1, n))
    BY <1>1, <1>2, <1>3, SumEven
  <2>2. Sum(msg) = t[n]
    BY <1>1, <1>3, SumIs
  <2> QED BY <1>2, <2>1, <2>2 DEF Payload
<1>6. Payload \in Seq(Nat)
  <2>1. SubSeq(msg, 4 + 1, n) \in Seq(Nat)
    BY <1>1, <1>2, TwoParts
  <2> QED BY <1>2, <2>1 DEF Payload
<1>7. h \in Nat
  <2>1. t \in [0..n -> Nat]
    BY <1>3 DEF IsByteSum
  <2> QED BY <1>2, <1>4, <2>1
<1>8. l \in Nat
  <2> DEFINE d == Payload
  <2> HIDE DEF d
  <2>1. d \in Seq(Nat) /\ l = Sum(d)
    BY <1>6 DEF d
  <2>2. PICK u : IsByteSum(d, u)
    BY <2>1, ByteSumExists
  <2>3. Sum(d) = u[Len(d)]
    BY <2>1, <2>2, SumIs
  <2>4. u \in [0..Len(d) -> Nat]
    BY <2>2 DEF IsByteSum
  <2>5. Len(d) \in Nat
    BY <2>1
  <2>6. Len(d) \in 0..Len(d)
    BY <2>5
  <2> QED BY <2>1, <2>3, <2>4, <2>6
<1>9. p \in Nat /\ (\E q \in Int : p = l + M * q) /\ (l = 0 => p = 0)
  BY <1>6, PartsFact DEF ChecksumInv, Parts
<1>10. PICK q \in Int : p = l + M * q
  BY <1>9
<1>11. TcpField = M - Norm(y)
  <2>1. pseudo + p \in Nat
    BY <1>1, <1>9
  <2> QED BY <1>7, <2>1, ChecksumOfIs DEF TcpField
<1> HIDE DEF h, l, p
<1>12. M \in Nat /\ M * q \in Int
  BY <1>10, WordFact
<1>13. y \in Nat /\ z \in Nat /\ (z = 0 => y = 0)
  <2> DEFINE g == Sum(msg)
  <2>1. g = h + l /\ g \in Nat
    BY <1>1, <1>4, <1>5
  <2> HIDE DEF g
  <2> HIDE DEF y, z
  <2>2. pseudo + p + h \in Nat /\ pseudo + g \in Nat
    <3>1. pseudo \in Nat /\ p \in Nat /\ h \in Nat /\ g \in Nat
      BY Zenon, <1>1, <1>7, <1>9, <2>1
    <3> QED BY <3>1
  <2>3. ASSUME pseudo + g = 0 PROVE pseudo + p + h = 0
    <3>1. pseudo = 0 /\ h = 0 /\ l = 0
      BY <1>1, <1>7, <1>8, <2>1, <2>3
    <3> QED BY <1>9, <3>1
  <2> QED BY Zenon, <2>2, <2>3 DEF g, y, z
<1>14. y = z + M * q
  <2> DEFINE Q == M * q
             g == Sum(msg)
  <2>1. Q \in Int /\ p = l + Q /\ g = h + l /\ g \in Nat
    BY <1>1, <1>4, <1>5, <1>10, <1>12
  <2> HIDE DEF Q, g
  <2>2. pseudo + p + h = (pseudo + g) + Q
    <3>1. pseudo \in Nat /\ p \in Nat /\ h \in Nat /\ l \in Nat
      BY Zenon, <1>1, <1>7, <1>8, <1>9
    <3> QED BY <2>1, <3>1
  <2> QED BY <2>2 DEF Q, g
<1> HIDE DEF y, z
<1> DEFINE c == M - Norm(y)
<1>15. c \in 0..M /\ z + c # 0 /\ \E r \in Int : z + c = M * r
  BY <1>10, <1>13, <1>14, Complement
<1>16. c \in Nat
  BY <1>12, <1>15
<1> HIDE DEF c
<1>17. Verifies(c)
  BY <1>15, <1>16, Checks DEF z
<1> QED BY <1>11, <1>17 DEF c

LEMMA UdpVerifies == ASSUME ChecksumInv PROVE Verifies(UdpField) /\ UdpField # 0
<1> DEFINE z == pseudo + Sum(msg)
           c == M - Norm(z)
<1>1. pseudo \in Nat /\ Sum(msg) \in Nat /\ z \in Nat
  BY MsgFact
<1>2. M \in Nat /\ M >= 3 /\ M = Word - 1
  BY WordFact DEF M
<1>3. ChecksumOf(msg, pseudo) = c
  BY <1>1, ChecksumOfIs
<1> HIDE DEF z
<1>4. c \in 0..M /\ z + c # 0 /\ \E r \in Int : z + c = M * r
  <2>1. z = z + M * 0
    BY <1>1, <1>2
  <2> QED BY <1>1, <2>1, Complement, 0 \in Int
<1>5. PICK r \in Int : z + c = M * r
  BY <1>4
<1> HIDE DEF c
<1>6. CASE c = 0
  <2>1. z + M = M * (r + 1)
    <3>1. M * (r + 1) = M * r + M
      BY <1>2, <1>5
    <3>2. z = M * r
      BY <1>1, <1>5, <1>6
    <3> QED BY <3>1, <3>2
  <2>2. z + M # 0 /\ r + 1 \in Int
    BY <1>1, <1>2
  <2>3. Verifies(M)
    BY <1>2, <2>1, <2>2, Checks DEF z
  <2> QED BY <1>2, <1>3, <1>6, <2>3 DEF UdpField
<1>7. CASE c # 0
  <2>1. c \in Nat
    BY <1>2, <1>4
  <2>2. Verifies(c)
    BY <1>4, <1>5, <2>1, Checks DEF z
  <2> QED BY <1>3, <1>7, <2>2 DEF UdpField
<1> QED BY <1>6, <1>7

LEMMA OffloadVerifies == ASSUME ChecksumInv PROVE Verifies(Completed(OffloadField))
<1> DEFINE f == Norm(pseudo)
           y == Sum(msg) + f
           z == pseudo + Sum(msg)
           c == M - Norm(y)
<1>1. pseudo \in Nat /\ Sum(msg) \in Nat /\ z \in Nat
  BY MsgFact
<1>2. M \in Nat /\ M >= 3 /\ M = Word - 1
  BY WordFact DEF M
<1>3. f \in 0..M /\ (f = 0 <=> pseudo = 0) /\ \E p \in Int : pseudo = f + M * p
  BY <1>1, NormFact
<1>4. PICK p \in Int : pseudo = f + M * p
  BY <1>3
<1>5. OffloadField = f
  <2>1. Sum(<<>>) = 0
    <3> DEFINE u == [i \in 0..0 |-> 0]
    <3>1. <<>> \in Seq(Nat) /\ Len(<<>>) = 0 /\ u \in [0..0 -> Nat] /\ u[0] = 0
      OBVIOUS
    <3> HIDE DEF u
    <3>2. IsByteSum(<<>>, u)
      BY <3>1 DEF IsByteSum
    <3>3. Sum(<<>>) = u[Len(<<>>)]
      BY <3>1, <3>2, SumIs
    <3> QED BY <3>1, <3>3
  <2>2. pseudo + Sum(<<>>) = pseudo
    BY <1>1, <2>1
  <2>3. ChecksumOf(<<>>, pseudo) = M - f
    BY <1>1, <2>1, <2>2, ChecksumOfIs
  <2> HIDE DEF f
  <2>4. M - (M - f) = f
    BY <1>2, <1>3
  <2> QED BY <1>2, <2>3, <2>4 DEF OffloadField
<1> HIDE DEF f
<1>6. f \in Nat /\ y \in Nat
  BY <1>1, <1>2, <1>3
<1>7. Completed(f) = c
  <2>1. Sum(WithField(f)) = y
    BY <1>6, MsgFact, FieldSum DEF WithField
  <2> HIDE DEF y
  <2>2. 0 + y = y /\ 0 \in Nat
    BY <1>6
  <2> QED BY <1>6, <2>1, <2>2, ChecksumOfIs DEF Completed
<1>8. y = z + M * (0 - p)
  <2> DEFINE P == M * p
  <2>1. M * (0 - p) = 0 - P /\ P \in Int /\ pseudo = f + P
    BY <1>2, <1>4
  <2> HIDE DEF P
  <2>2. y = z + (0 - P)
    BY <1>1, <1>6, <2>1
  <2> QED BY <2>1, <2>2
<1>9. (z = 0 => y = 0) /\ 0 - p \in Int
  BY <1>1, <1>3, <1>6
<1> HIDE DEF y, z
<1>10. c \in 0..M /\ z + c # 0 /\ \E r \in Int : z + c = M * r
  BY <1>1, <1>6, <1>8, <1>9, Complement
<1>11. c \in Nat
  BY <1>2, <1>10
<1> HIDE DEF c
<1>12. Verifies(c)
  BY <1>10, <1>11, Checks DEF z
<1> QED BY <1>5, <1>7, <1>12

\* A header that the code wrote checks out on arrival, for every byte size,
\* message, pseudo-header and place of the wrap: the software checksums of
\* TcpHdr::write and UdpHdr::write, the sum2 of an odd first part, and the
\* partial checksum that the tap completes.
THEOREM ChecksumSafety == ChecksumSpec => []ChecksumVerifies
<1>1. ChecksumInit => ChecksumInv
  <2>1. SUFFICES ASSUME ChecksumInit PROVE ChecksumInv
    OBVIOUS
  <2>2. msg \in Messages /\ pseudo \in Pseudos /\ split = 0
    BY <2>1 DEF ChecksumInit
  <2>3. Len(Payload) \in Nat
    <3>1. msg \in Seq(Nat) /\ Len(msg) >= 4
      <4>1. msg \in Seq(0..(Base - 1)) /\ Len(msg) >= 4
        BY <2>2, BaseAssumption
      <4>2. 0..(Base - 1) \subseteq Nat
        BY WordFact
      <4> QED BY <4>1, <4>2, NatSeq
    <3>2. 4 \in 0..Len(msg) /\ 4 + 1 = 5
      BY <3>1
    <3>3. SubSeq(msg, 4 + 1, Len(msg)) \in Seq(Nat)
      BY <3>1, <3>2, TwoParts
    <3> QED BY <3>2, <3>3 DEF Payload
  <2>4. 0 \in 0..Len(Payload)
    BY <2>3
  <2> QED BY <2>2, <2>4 DEF ChecksumInv
<1>2. ChecksumInv /\ [MoveSplit]_checksumVars => ChecksumInv'
  <2>1. SUFFICES ASSUME ChecksumInv, [MoveSplit]_checksumVars PROVE ChecksumInv'
    OBVIOUS
  <2>2. CASE MoveSplit
    <3>1. msg' = msg /\ pseudo' = pseudo /\ split' = split + 1 /\ split < Len(Payload)
      BY <2>2 DEF MoveSplit
    <3>2. Payload' = Payload
      BY <3>1 DEF Payload
    <3>3. split \in 0..Len(Payload)
      BY <2>1 DEF ChecksumInv
    <3>4. split + 1 \in 0..Len(Payload)
      BY <3>1, <3>3
    <3> QED BY <2>1, <3>1, <3>2, <3>4 DEF ChecksumInv
  <2>3. CASE UNCHANGED checksumVars
    BY <2>1, <2>3 DEF checksumVars, ChecksumInv, Payload
  <2> QED BY <2>1, <2>2, <2>3
<1>3. ChecksumInv => ChecksumVerifies
  BY TcpVerifies, UdpVerifies, OffloadVerifies DEF ChecksumVerifies
<1> QED BY <1>1, <1>2, <1>3, PTL DEF ChecksumSpec
=============================================================================
