---------------------------- MODULE SequenceProofs ----------------------------
(***************************************************************************)
(* What the proofs use of numbers and lists: induction on the naturals in  *)
(* the form of a set that contains each successor, the least and greatest  *)
(* number of a set, and what filtering a list keeps.                       *)
(***************************************************************************)
EXTENDS Filters, WellFoundedInduction, TLAPS

LEMMA LeastNat ==
    ASSUME NEW T, T \subseteq Nat, T # {}
    PROVE  \E x \in T : \A y \in T : x <= y
<1>1. PICK x \in T : \A y \in T : ~(<<y, x>> \in OpToRel(<, Nat))
  BY NatLessThanWellFounded, WFMin
<1>2. ASSUME NEW y \in T, y < x PROVE <<y, x>> \in OpToRel(<, Nat)
  BY <1>2 DEF OpToRel
<1>3. x \in Nat /\ \A y \in T : y \in Nat /\ ~(y < x)
  BY <1>1, <1>2
<1> QED BY <1>3

\* A bounded set of numbers has a greatest one: the least of its bounds.
LEMMA Greatest ==
    ASSUME NEW B, B \subseteq Nat, B # {}, NEW n \in Nat, \A b \in B : b <= n
    PROVE  \E m \in B : \A b \in B : b <= m
<1> DEFINE Bounds == {k \in Nat : \A b \in B : b <= k}
<1>1. PICK m \in Bounds : \A k \in Bounds : m <= k
  <2>1. n \in Bounds /\ Bounds \subseteq Nat
    OBVIOUS
  <2> HIDE DEF Bounds
  <2> QED BY <2>1, LeastNat
<1>2. m \in B
  <2>1. SUFFICES ASSUME m \notin B PROVE FALSE
    OBVIOUS
  <2>2. \A b \in B : b < m
    BY <2>1, <1>1
  <2>3. m # 0
    <3>1. PICK b \in B : b \in Nat /\ b < m
      BY <2>2
    <3> QED BY <3>1
  <2>4. m - 1 \in Bounds
    BY <2>2, <2>3
  <2> QED BY <1>1, <2>4
<1> QED BY <1>1, <1>2

\* Induction: a set of numbers with 0 and with the successor of each member
\* that is below a bound contains the bound.
LEMMA CountUp ==
    ASSUME NEW n \in Nat, NEW T, 0 \in T, \A i \in 0 .. n - 1 : i \in T => i + 1 \in T
    PROVE  \A i \in 0 .. n : i \in T
<1> SUFFICES ASSUME \E i \in 0 .. n : i \notin T PROVE FALSE
  OBVIOUS
<1> DEFINE B == {i \in 0 .. n : i \notin T}
<1>0. B \subseteq Nat /\ B # {}
  OBVIOUS
<1> HIDE DEF B
<1>1. PICK x \in B : \A y \in B : x <= y
  BY <1>0, LeastNat
<1> USE DEF B
<1>2. x # 0 /\ x \in 0 .. n /\ x \notin T
  OBVIOUS
<1>3. x - 1 \in 0 .. n - 1 /\ x - 1 \notin B
  BY <1>1, <1>2
<1>4. x - 1 \in T
  BY <1>3
<1>5. (x - 1) + 1 \in T
  BY <1>3, <1>4
<1> QED BY <1>2, <1>5

-----------------------------------------------------------------------------
(* Filtering                                                                 *)

\* The list of what was kept of the first i elements, for every i up to n.
Kept(s, keep, n, F) ==
    F = [i \in 0 .. n |-> IF i = 0 THEN <<>>
                          ELSE IF s[i] \in keep THEN Append(F[i - 1], s[i])
                          ELSE F[i - 1]]

LEMMA KeptStarts == ASSUME NEW s, NEW keep PROVE \E F : Kept(s, keep, 0, F)
<1> DEFINE F == [i \in 0 .. 0 |-> <<>>]
<1>1. Kept(s, keep, 0, F)
  BY DEF Kept
<1> QED BY <1>1

LEMMA KeptGoesOn ==
    ASSUME NEW s, NEW keep, NEW n \in Nat, NEW F, Kept(s, keep, n, F)
    PROVE  \E G : Kept(s, keep, n + 1, G)
<1> DEFINE G == [i \in 0 .. n + 1 |->
                   IF i = n + 1
                   THEN IF s[n + 1] \in keep THEN Append(F[n], s[n + 1]) ELSE F[n]
                   ELSE F[i]]
<1>1. \A i \in 0 .. n : G[i] = F[i]
  OBVIOUS
<1>2. \A i \in 0 .. n : F[i] = IF i = 0 THEN <<>>
                               ELSE IF s[i] \in keep THEN Append(F[i - 1], s[i])
                               ELSE F[i - 1]
  BY DEF Kept
<1>3. \A i \in 0 .. n : i # 0 => i - 1 \in 0 .. n
  OBVIOUS
<1>4. ASSUME NEW i \in 0 .. n
      PROVE G[i] = IF i = 0 THEN <<>>
                   ELSE IF s[i] \in keep THEN Append(G[i - 1], s[i]) ELSE G[i - 1]
  BY <1>1, <1>2, <1>3
<1>5. G[n + 1] = IF s[n + 1] \in keep THEN Append(G[n], s[n + 1]) ELSE G[n]
  BY <1>1
<1>6. G = [i \in 0 .. n + 1 |-> G[i]]
  OBVIOUS
<1> HIDE DEF G
<1>7. ASSUME NEW i \in 0 .. n + 1
      PROVE G[i] = IF i = 0 THEN <<>>
                   ELSE IF s[i] \in keep THEN Append(G[i - 1], s[i]) ELSE G[i - 1]
  <2>1. CASE i \in 0 .. n BY <2>1, <1>4
  <2>2. CASE i = n + 1
    <3>1. i # 0 /\ i - 1 = n BY <2>2
    <3> QED BY <3>1, <2>2, <1>5
  <2> QED BY <2>1, <2>2
<1>8. Kept(s, keep, n + 1, G)
  BY <1>6, <1>7 DEF Kept
<1> QED BY <1>8

\* The recursion of Filter has a solution, and Filter is its last value.
LEMMA FilterRuns ==
    ASSUME NEW S, NEW s \in Seq(S), NEW keep
    PROVE  \E F : Kept(s, keep, Len(s), F) /\ Filter(s, keep) = F[Len(s)]
<1> DEFINE T == {n \in Nat : \E F : Kept(s, keep, n, F)}
<1>1. Len(s) \in Nat
  OBVIOUS
<1>2. 0 \in T
  BY KeptStarts
<1>3. \A i \in 0 .. Len(s) - 1 : i \in T => i + 1 \in T
  <2> SUFFICES ASSUME NEW i \in Nat, i \in T PROVE i + 1 \in T
    BY <1>1
  <2>1. PICK F : Kept(s, keep, i, F)
    OBVIOUS
  <2> QED BY <2>1, KeptGoesOn
<1> HIDE DEF T
<1>4. Len(s) \in T
  <2>1. \A i \in 0 .. Len(s) : i \in T
    BY <1>1, <1>2, <1>3, CountUp
  <2> QED BY <2>1, <1>1
<1>5. \E F : Kept(s, keep, Len(s), F)
  BY <1>4 DEF T
<1> DEFINE C == CHOOSE F : Kept(s, keep, Len(s), F)
<1>6. Kept(s, keep, Len(s), C)
  BY <1>5
<1>7. Filter(s, keep) = C[Len(s)]
  BY DEF Filter, Kept
<1> QED BY <1>6, <1>7

\* Filter keeps the kind of the elements, exactly those that are to be kept,
\* in their order: whatever holds between an element and each later one of the
\* list holds in what is left.
OrderKept(s, q) ==
    \A R : (\A i, j \in DOMAIN s : i < j => <<s[i], s[j]>> \in R)
             => \A i, j \in DOMAIN q : i < j => <<q[i], q[j]>> \in R

LEMMA FilterKeeps ==
    ASSUME NEW S, NEW s \in Seq(S), NEW keep
    PROVE  /\ Filter(s, keep) \in Seq(S)
           /\ Len(Filter(s, keep)) <= Len(s)
           /\ {Filter(s, keep)[i] : i \in DOMAIN Filter(s, keep)}
                 = {s[i] : i \in DOMAIN s} \cap keep
           /\ OrderKept(s, Filter(s, keep))
<1>1. PICK F : Kept(s, keep, Len(s), F) /\ Filter(s, keep) = F[Len(s)]
  BY FilterRuns
<1>2. Len(s) \in Nat /\ DOMAIN s = 1 .. Len(s) /\ \A i \in 1 .. Len(s) : s[i] \in S
  OBVIOUS
<1> DEFINE Part(i) == {s[j] : j \in 1 .. i}
           Img(q) == {q[j] : j \in 1 .. Len(q)}
           Ordered(q) == \A R : (\A i, j \in 1 .. Len(s) : i < j => <<s[i], s[j]>> \in R)
                           => \A i, j \in 1 .. Len(q) : i < j => <<q[i], q[j]>> \in R
           Good(i, q) == /\ q \in Seq(S) /\ Len(q) <= i
                         /\ Img(q) = Part(i) \cap keep /\ Ordered(q)
           T == {i \in 0 .. Len(s) : Good(i, F[i])}
<1>3. F[0] = <<>> /\ \A i \in 0 .. Len(s) - 1 :
         F[i + 1] = IF s[i + 1] \in keep THEN Append(F[i], s[i + 1]) ELSE F[i]
  <2>1. \A i \in 0 .. Len(s) : F[i] = IF i = 0 THEN <<>>
                ELSE IF s[i] \in keep THEN Append(F[i - 1], s[i]) ELSE F[i - 1]
    BY <1>1 DEF Kept
  <2>2. \A i \in 0 .. Len(s) - 1 : i + 1 \in 0 .. Len(s) /\ i + 1 # 0 /\ (i + 1) - 1 = i
    BY <1>2
  <2> QED BY <2>1, <2>2, <1>2
<1>4. 0 \in T
  <2>1. Img(<<>>) = {} /\ Part(0) = {} /\ Ordered(<<>>) /\ <<>> \in Seq(S) /\ Len(<<>>) <= 0
    OBVIOUS
  <2>2. Good(0, <<>>) /\ 0 \in 0 .. Len(s)
    BY <2>1, <1>2
  <2> HIDE DEF Good
  <2> QED BY <2>2, <1>3
<1>5. ASSUME NEW i \in 0 .. Len(s) - 1, i \in T PROVE i + 1 \in T
  <2>1. PICK q : q = F[i]
    OBVIOUS
  <2>2. Good(i, q) /\ i \in Nat /\ i + 1 \in 1 .. Len(s)
    <3> HIDE DEF Good
    <3> QED BY <2>1, <1>5, <1>2
  <2>3. PICK x : x = s[i + 1]
    OBVIOUS
  <2>4. x \in S /\ Part(i + 1) = Part(i) \cup {x}
    <3>1. x \in S BY <2>2, <2>3, <1>2
    <3>2. \A j \in 1 .. i + 1 : j \in 1 .. i \/ j = i + 1 BY <2>2
    <3>3. \A j \in 1 .. i : j \in 1 .. i + 1 BY <2>2
    <3>4. i + 1 \in 1 .. i + 1 BY <2>2
    <3> QED BY <3>1, <3>2, <3>3, <3>4, <2>3
  <2>5. CASE x \notin keep
    <3>1. F[i + 1] = q BY <1>3, <2>1, <2>3, <2>5
    <3>2. Good(i + 1, q)
      <4>1. Img(q) = Part(i + 1) \cap keep BY <2>2, <2>4, <2>5
      <4>2. Len(q) <= i + 1 BY <2>2
      <4> QED BY <4>1, <4>2, <2>2
    <3> HIDE DEF Good
    <3> QED BY <3>1, <3>2, <2>2
  <2>6. CASE x \in keep
    <3>1. F[i + 1] = Append(q, x) BY <1>3, <2>1, <2>3, <2>6
    <3>2. PICK p : p = Append(q, x) OBVIOUS
    <3>3. /\ p \in Seq(S) /\ Len(p) = Len(q) + 1 /\ Len(q) \in Nat /\ p[Len(p)] = x
          /\ \A j \in 1 .. Len(q) : p[j] = q[j]
      BY <3>2, <2>2, <2>4
    <3>4. \A j \in 1 .. Len(p) : j \in 1 .. Len(q) \/ j = Len(p)
      BY <3>3
    <3>5. \A j \in 1 .. Len(q) : j \in 1 .. Len(p)
      BY <3>3
    <3>6. Len(p) \in 1 .. Len(p) BY <3>3
    <3>7. Img(p) = Img(q) \cup {x}
      BY <3>3, <3>4, <3>5, <3>6
    <3>8. Img(p) = Part(i + 1) \cap keep
      BY <3>7, <2>4, <2>6, <2>2
    <3>9. Ordered(p)
      <4> SUFFICES ASSUME NEW R,
                          \A a, b \in 1 .. Len(s) : a < b => <<s[a], s[b]>> \in R,
                          NEW a \in 1 .. Len(p), NEW b \in 1 .. Len(p), a < b
                   PROVE  <<p[a], p[b]>> \in R
        OBVIOUS
      <4>1. a \in 1 .. Len(q) /\ p[a] = q[a] BY <3>3
      <4>2. CASE b \in 1 .. Len(q)
        <5>1. p[b] = q[b] BY <4>2, <3>3
        <5>2. <<q[a], q[b]>> \in R BY <2>2, <4>1, <4>2
        <5> QED BY <5>1, <5>2, <4>1
      <4>3. CASE b = Len(p)
        <5>1. q[a] \in Part(i) BY <4>1, <2>2
        <5>2. PICK j \in 1 .. i : q[a] = s[j] BY <5>1
        <5>3. j \in 1 .. Len(s) /\ j < i + 1 BY <2>2, <1>2
        <5>4. <<s[j], s[i + 1]>> \in R BY <5>3, <2>2
        <5> QED BY <5>4, <5>2, <4>1, <4>3, <3>3, <2>3
      <4> QED BY <4>2, <4>3, <3>4
    <3>10. Len(p) <= i + 1 BY <3>3, <2>2
    <3>11. Good(i + 1, p) BY <3>3, <3>8, <3>9, <3>10
    <3>12. F[i + 1] = p /\ i + 1 \in 0 .. Len(s)
      BY <3>1, <3>2, <2>2
    <3> HIDE DEF Good
    <3> QED BY <3>11, <3>12
  <2> QED BY <2>5, <2>6
<1> HIDE DEF T
<1>6. Len(s) \in T
  <2>1. \A i \in 0 .. Len(s) - 1 : i \in T => i + 1 \in T
    BY <1>5
  <2>2. \A i \in 0 .. Len(s) : i \in T
    BY <2>1, <1>2, <1>4, CountUp
  <2> QED BY <2>2, <1>2
<1> HIDE DEF Good
<1>7. Good(Len(s), Filter(s, keep))
  BY <1>6, <1>1 DEF T
<1> USE DEF Good
<1>8. DOMAIN Filter(s, keep) = 1 .. Len(Filter(s, keep))
  <2>1. Filter(s, keep) \in Seq(S)
    BY <1>7
  <2> QED BY <2>1
<1>9. OrderKept(s, Filter(s, keep))
  BY <1>7, <1>8, <1>2 DEF OrderKept
<1> QED BY <1>7, <1>8, <1>9, <1>2
=============================================================================
