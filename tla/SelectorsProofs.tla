-------------------------- MODULE SelectorsProofs --------------------------
(***************************************************************************)
(* Proofs about Selectors, for lists of any length and any greatest value: *)
(* the expression that a list of addresses or ports becomes matches what   *)
(* the list holds.                                                         *)
(*                                                                         *)
(* The library's induction theorems have a predicate as their parameter,   *)
(* which the provers cannot instantiate.  Here induction is over a set of  *)
(* naturals instead, from the fact that every set of them has a least one. *)
(***************************************************************************)
EXTENDS Selectors, FiniteSetTheorems, SequenceTheorems, WellFoundedInduction, TLAPS

-----------------------------------------------------------------------------
(* Induction and recursion over the naturals *)

\* A set of naturals that is not empty has a least element.
LEMMA LeastNat ==
    ASSUME NEW T, T \subseteq Nat, T # {}
    PROVE  \E x \in T : \A y \in T : x <= y
<1>1. PICK x \in T : \A y \in T : <<y, x>> \notin OpToRel(<, Nat)
  BY NatLessThanWellFounded, WFMin
<1>2. \A y \in T : ~(y < x)
  BY <1>1 DEF OpToRel
<1> QED
  BY <1>2

\* A bounded one has a greatest element.
LEMMA GreatestNat ==
    ASSUME NEW T, T \subseteq Nat, T # {}, NEW n \in Nat, \A x \in T : x <= n
    PROVE  \E x \in T : \A y \in T : y <= x
<1> DEFINE U == {n - x : x \in T}
<1>0. \A x \in T : n - x \in Nat
  OBVIOUS
<1>1. U \subseteq Nat /\ U # {}
  BY <1>0
<1>2. PICK u \in U : \A v \in U : u <= v
  BY <1>1, LeastNat
<1>3. PICK x \in T : u = n - x
  OBVIOUS
<1>4. \A y \in T : n - x <= n - y
  BY <1>2, <1>3
<1>5. x \in Nat /\ T \subseteq Nat
  OBVIOUS
<1> QED
  BY <1>4, <1>5

\* Induction.
LEMMA SetInduction ==
    ASSUME NEW S, 0 \in S, \A n \in Nat : n \in S => n + 1 \in S
    PROVE  Nat \subseteq S
<1> SUFFICES ASSUME NEW n \in Nat, n \notin S PROVE FALSE
  OBVIOUS
<1> DEFINE T == {m \in Nat : m \notin S}
<1>1. T \subseteq Nat /\ T # {}
  OBVIOUS
<1>2. PICK x \in T : \A y \in T : x <= y
  BY <1>1, LeastNat
<1>3. x # 0 /\ x - 1 \in Nat /\ ~(x <= x - 1)
  OBVIOUS
<1>4. x - 1 \in S
  BY <1>2, <1>3
<1> QED
  BY <1>3, <1>4

\* There is a function that follows a step function from a first value.
Follows(f, g, v, n) == f[0] = v /\ \A k \in 1..n : f[k] = g[<<f[k - 1], k>>]

LEMMA Recursion ==
    ASSUME NEW n \in Nat, NEW V, NEW v \in V, NEW g \in [V \X (1..n) -> V]
    PROVE  \E f \in [0..n -> V] : Follows(f, g, v, n)
<1> DEFINE S == {m \in Nat : m <= n => \E f \in [0..m -> V] : Follows(f, g, v, m)}
<1>1. 0 \in S
  <2>1. [i \in 0..0 |-> v] \in [0..0 -> V] /\ Follows([i \in 0..0 |-> v], g, v, 0)
    BY DEF Follows
  <2> QED
    BY <2>1
<1>2. ASSUME NEW m \in Nat, m \in S PROVE m + 1 \in S
  <2> SUFFICES ASSUME m + 1 <= n PROVE \E f \in [0..(m + 1) -> V] : Follows(f, g, v, m + 1)
    OBVIOUS
  <2>1. PICK f \in [0..m -> V] : Follows(f, g, v, m)
    BY <1>2
  <2>2. m + 1 \in 1..n /\ f[m] \in V
    OBVIOUS
  <2>3. g[<<f[m], m + 1>>] \in V
    BY <2>2
  <2> DEFINE h == [i \in 0..(m + 1) |-> IF i = m + 1 THEN g[<<f[m], m + 1>>] ELSE f[i]]
  <2>4. h \in [0..(m + 1) -> V]
    BY <2>3
  <2>5. \A i \in 0..m : h[i] = f[i]
    OBVIOUS
  <2>6. h[m + 1] = g[<<f[m], m + 1>>]
    OBVIOUS
  <2> HIDE DEF h
  <2>7. h[0] = v
    BY <2>1, <2>5 DEF Follows
  <2>8. ASSUME NEW k \in 1..(m + 1) PROVE h[k] = g[<<h[k - 1], k>>]
    <3>1. CASE k = m + 1
      BY <2>5, <2>6, <3>1
    <3>2. CASE k # m + 1
      <4>1. k \in 1..m /\ k - 1 \in 0..m
        BY <3>2
      <4> QED
        BY <2>1, <2>5, <4>1 DEF Follows
    <3> QED
      BY <3>1, <3>2
  <2>9. Follows(h, g, v, m + 1)
    BY <2>7, <2>8 DEF Follows
  <2> QED
    BY <2>4, <2>9
<1>3. n \in S
  BY <1>1, <1>2, SetInduction
<1> QED
  BY <1>3

-----------------------------------------------------------------------------
(* Sorting *)

\* R is a strict order of T in which elements may be equivalent.
WeakOrder(R, T) ==
    /\ \A x, y \in T : <<x, y>> \in R => <<y, x>> \notin R
    /\ \A x, y, z \in T : <<x, y>> \notin R /\ <<y, z>> \notin R => <<x, z>> \notin R

InOrder(s, p, R, n) == \A i, j \in 1..n : i < j => <<s[p[j]], s[p[i]]>> \notin R

\* Every sequence can be put in order: its last element goes before the first one
\* of the others that it is less than.
LEMMA SortExists ==
    ASSUME NEW n \in Nat, NEW T, NEW s \in [1..n -> T], NEW R, WeakOrder(R, T)
    PROVE  \E p \in Bijection(1..n, 1..n) : InOrder(s, p, R, n)
<1> DEFINE S == {m \in Nat : m <= n => \E p \in Bijection(1..m, 1..m) : InOrder(s, p, R, m)}
<1>1. 0 \in S
  <2>1. [i \in 1..0 |-> i] \in Bijection(1..0, 1..0) /\ InOrder(s, [i \in 1..0 |-> i], R, 0)
    BY DEF Bijection, Injection, Surjection, IsInjective, InOrder
  <2> QED
    BY <2>1
<1>2. ASSUME NEW m \in Nat, m \in S PROVE m + 1 \in S
  <2> SUFFICES ASSUME m + 1 <= n PROVE \E q \in Bijection(1..(m + 1), 1..(m + 1)) : InOrder(s, q, R, m + 1)
    OBVIOUS
  <2>1. PICK p \in Bijection(1..m, 1..m) : InOrder(s, p, R, m)
    BY <1>2
  <2> DEFINE K == {k \in 1..(m + 1) : k = m + 1 \/ <<s[m + 1], s[p[k]]>> \in R}
  <2>2. PICK k \in K : \A l \in K : k <= l
    <3>1. K \subseteq Nat /\ m + 1 \in K
      OBVIOUS
    <3> QED
      BY <3>1, LeastNat
  <2>3. k \in 1..(m + 1) /\ (k = m + 1 \/ <<s[m + 1], s[p[k]]>> \in R)
    OBVIOUS
  <2>4. \A i \in 1..m : i < k => <<s[m + 1], s[p[i]]>> \notin R
    BY <2>2
  <2> HIDE DEF K
  <2>5. /\ p \in [1..m -> 1..m]
        /\ \A i, j \in 1..m : p[i] = p[j] => i = j
        /\ \A j \in 1..m : \E i \in 1..m : p[i] = j
    BY DEF Bijection, Injection, Surjection, IsInjective
  <2> DEFINE q == [i \in 1..(m + 1) |-> IF i = k THEN m + 1 ELSE IF i < k THEN p[i] ELSE p[i - 1]]
  <2>6. /\ \A i \in 1..(m + 1) : i < k => i \in 1..m /\ q[i] = p[i]
        /\ \A i \in 1..(m + 1) : i > k => i - 1 \in 1..m /\ q[i] = p[i - 1]
        /\ q[k] = m + 1
        /\ DOMAIN q = 1..(m + 1)
    BY <2>3
  <2>7. q \in [1..(m + 1) -> 1..(m + 1)]
    <3>1. ASSUME NEW i \in 1..(m + 1) PROVE q[i] \in 1..(m + 1)
      <4>1. CASE i = k
        BY <2>6, <4>1
      <4>2. CASE i < k
        BY <2>5, <2>6, <4>2
      <4>3. CASE i > k
        <5>1. p[i - 1] \in 1..m /\ q[i] = p[i - 1]
          BY <2>5, <2>6, <4>3
        <5> QED
          BY <5>1
      <4> QED
        BY <2>3, <4>1, <4>2, <4>3
    <3> QED
      BY <3>1
  <2> HIDE DEF q
  <2>8. ASSUME NEW i \in 1..(m + 1), NEW j \in 1..(m + 1), i < j PROVE q[i] # q[j]
    <3>1. CASE i = k
      BY <2>5, <2>6, <2>8, <3>1
    <3>2. CASE i < k /\ j < k
      BY <2>5, <2>6, <2>8, <3>2
    <3>3. CASE i < k /\ j = k
      BY <2>5, <2>6, <2>8, <3>3
    <3>4. CASE i < k /\ j > k
      <4>1. i # j - 1
        BY <2>3, <3>4
      <4> QED
        BY <2>5, <2>6, <3>4, <4>1
    <3>5. CASE i > k
      <4>1. j > k /\ i - 1 # j - 1
        BY <2>3, <2>8, <3>5
      <4> QED
        BY <2>5, <2>6, <3>5, <4>1
    <3> QED
      BY <2>3, <3>1, <3>2, <3>3, <3>4, <3>5
  <2>9. \A i, j \in 1..(m + 1) : q[i] = q[j] => i = j
    BY <2>8
  <2>10. ASSUME NEW j \in 1..(m + 1) PROVE \E i \in 1..(m + 1) : q[i] = j
    <3>1. CASE j = m + 1
      BY <2>3, <2>6, <3>1
    <3>2. CASE j # m + 1
      <4>1. PICK i \in 1..m : p[i] = j
        BY <2>5, <3>2
      <4>2. CASE i < k
        BY <2>6, <4>1, <4>2
      <4>3. CASE ~(i < k)
        <5>1. i + 1 \in 1..(m + 1) /\ i + 1 > k /\ (i + 1) - 1 = i
          BY <2>3, <4>3
        <5> QED
          BY <2>6, <4>1, <5>1
      <4> QED
        BY <4>2, <4>3
    <3> QED
      BY <3>1, <3>2
  <2>11. q \in Bijection(1..(m + 1), 1..(m + 1))
    BY <2>7, <2>9, <2>10 DEF Bijection, Injection, Surjection, IsInjective
  <2>12. \A i \in 1..m : s[p[i]] \in T
    BY <2>5
  <2>13. s[m + 1] \in T
    OBVIOUS
  <2>14. ASSUME NEW j \in 1..m, j >= k PROVE <<s[p[j]], s[m + 1]>> \notin R
    <3>1. k \in 1..m /\ <<s[m + 1], s[p[k]]>> \in R
      BY <2>3, <2>14
    <3>2. <<s[p[k]], s[m + 1]>> \notin R
      BY <2>12, <2>13, <3>1 DEF WeakOrder
    <3>3. j = k \/ <<s[p[j]], s[p[k]]>> \notin R
      BY <2>1, <2>14, <3>1 DEF InOrder
    <3> QED
      BY <2>12, <2>13, <3>1, <3>2, <3>3 DEF WeakOrder
  <2>15. ASSUME NEW i \in 1..(m + 1), NEW j \in 1..(m + 1), i < j
         PROVE  <<s[q[j]], s[q[i]]>> \notin R
    <3>1. CASE j < k
      <4>1. i < k /\ i \in 1..m /\ j \in 1..m
        BY <2>3, <2>15, <3>1
      <4> QED
        BY <2>1, <2>6, <2>15, <3>1, <4>1 DEF InOrder
    <3>2. CASE j = k
      BY <2>4, <2>6, <2>15, <3>2
    <3>3. CASE j > k /\ i = k
      BY <2>6, <2>14, <2>15, <3>3
    <3>4. CASE j > k /\ i < k
      <4>1. i < j - 1 /\ i \in 1..m /\ j - 1 \in 1..m
        BY <2>3, <3>4
      <4> QED
        BY <2>1, <2>6, <3>4, <4>1 DEF InOrder
    <3>5. CASE j > k /\ i > k
      <4>1. i - 1 < j - 1 /\ i - 1 \in 1..m /\ j - 1 \in 1..m
        BY <2>6, <2>15, <3>5
      <4> QED
        BY <2>1, <2>6, <3>5, <4>1 DEF InOrder
    <3> QED
      BY <2>3, <3>1, <3>2, <3>3, <3>4, <3>5
  <2> QED
    BY <2>11, <2>15 DEF InOrder
<1>3. n \in S
  BY <1>1, <1>2, SetInduction
<1> QED
  BY <1>3

\* What sorting s by the order R returns.
LEMMA SortedBy ==
    ASSUME NEW T, NEW s \in Seq(T), NEW R, WeakOrder(R, T)
    PROVE  \E t \in {[i \in DOMAIN s |-> s[p[i]]] : p \in Bijection(DOMAIN s, DOMAIN s)} :
              \A i, j \in DOMAIN s : i < j => <<t[j], t[i]>> \notin R
<1>1. Len(s) \in Nat /\ DOMAIN s = 1..Len(s) /\ s \in [1..Len(s) -> T]
  OBVIOUS
<1>2. PICK p \in Bijection(1..Len(s), 1..Len(s)) : InOrder(s, p, R, Len(s))
  BY <1>1, SortExists
<1> DEFINE t == [i \in DOMAIN s |-> s[p[i]]]
<1>3. \A i, j \in DOMAIN s : i < j => <<t[j], t[i]>> \notin R
  BY <1>1, <1>2 DEF InOrder
<1> QED
  BY <1>1, <1>2, <1>3

LEMMA ReorderedSame ==
    ASSUME NEW T, NEW s \in Seq(T), NEW p \in Bijection(DOMAIN s, DOMAIN s), NEW t, t = [i \in DOMAIN s |-> s[p[i]]]
    PROVE  t \in Seq(T) /\ DOMAIN t = DOMAIN s /\ ToSet(t) = ToSet(s)
<1>1. /\ p \in [DOMAIN s -> DOMAIN s] /\ \A j \in DOMAIN s : \E i \in DOMAIN s : p[i] = j
  BY DEF Bijection, Surjection
<1>2. Len(s) \in Nat /\ DOMAIN s = 1..Len(s)
  OBVIOUS
<1>3. \A i \in DOMAIN s : s[i] \in T
  OBVIOUS
<1>4. t \in [1..Len(s) -> T]
  BY <1>1, <1>2, <1>3
<1>5. t \in Seq(T)
  BY <1>2, <1>4
<1>6. ToSet(t) = ToSet(s)
  BY <1>1 DEF ToSet
<1> QED
  BY <1>5, <1>6
-----------------------------------------------------------------------------
(* Merging intervals *)

Holds(i, v) == i.low <= v /\ v <= i.high

\* The first k intervals of s, merged: they hold the same values, in order, and
\* between two of them there is a gap.
MergedOk(m, s, k, top) ==
    /\ m \in Seq(Intervals(top))
    /\ m = <<>> <=> k = 0
    /\ k > 0 => m[Len(m)].low <= s[k].low
    /\ \A i, j \in 1..Len(m) : i < j => m[i].high + 1 < m[j].low
    /\ \A v \in 0..top : (\E i \in 1..Len(m) : Holds(m[i], v)) <=> (\E j \in 1..k : Holds(s[j], v))

LEMMA MaxOfTwo ==
    ASSUME NEW x \in Nat, NEW y \in Nat
    PROVE  /\ Max({x, y}) \in {x, y}
           /\ Max({x, y}) >= x /\ Max({x, y}) >= y
<1>1. \E z \in {x, y} : \A u \in {x, y} : z >= u
  OBVIOUS
<1> QED
  BY <1>1 DEF Max

LEMMA FrontFacts ==
    ASSUME NEW T, NEW s \in Seq(T), s # <<>>
    PROVE  /\ Front(s) \in Seq(T) /\ Len(Front(s)) = Len(s) - 1
           /\ \A i \in 1..(Len(s) - 1) : Front(s)[i] = s[i]
<1>1. Len(s) \in Nat /\ Len(s) > 0
  OBVIOUS
<1>2. Front(s) = [i \in 1..(Len(s) - 1) |-> s[i]]
  BY <1>1 DEF Front
<1>3. \A i \in 1..(Len(s) - 1) : s[i] \in T
  BY <1>1
<1>4. Front(s) \in Seq(T) /\ Len(Front(s)) = Len(s) - 1
  BY <1>1, <1>2, <1>3, IsASeq
<1> QED
  BY <1>2, <1>4

LEMMA IntervalFacts ==
    ASSUME NEW top \in Nat, NEW e \in Intervals(top)
    PROVE  /\ e.low \in 0..top /\ e.high \in 0..top /\ e.low <= e.high
           /\ \A h \in 0..top : h >= e.high =>
                 LET w == [e EXCEPT !.high = h] IN w \in Intervals(top) /\ w.low = e.low /\ w.high = h
BY DEF Intervals

LEMMA ExtendMerges ==
    ASSUME NEW top \in Nat, NEW s \in Seq(Intervals(top)), NEW k \in Nat, k + 1 <= Len(s),
           k > 0 => s[k].low <= s[k + 1].low, NEW m, MergedOk(m, s, k, top)
    PROVE  MergedOk(Extend(m, s[k + 1], top), s, k + 1, top)
<1> DEFINE x == s[k + 1]
           e == Extend(m, x, top)
<1>1. /\ x \in Intervals(top) /\ x.low \in 0..top /\ x.high \in 0..top /\ x.low <= x.high
  <2>1. x \in Intervals(top)
    OBVIOUS
  <2> QED
    BY <2>1, IntervalFacts
<1>2. /\ m \in Seq(Intervals(top)) /\ Len(m) \in Nat
      /\ \A i \in 1..Len(m) : m[i] \in Intervals(top) /\ m[i].low \in 0..top /\ m[i].high \in 0..top
                                /\ m[i].low <= m[i].high
  <2>1. m \in Seq(Intervals(top)) /\ Len(m) \in Nat
    BY DEF MergedOk
  <2>2. \A i \in 1..Len(m) : m[i] \in Intervals(top)
    BY <2>1
  <2> QED
    BY <2>1, <2>2, IntervalFacts
<1>3. ASSUME NEW v \in 0..top
      PROVE  (\E j \in 1..(k + 1) : Holds(s[j], v)) <=> (\E j \in 1..k : Holds(s[j], v)) \/ Holds(x, v)
  OBVIOUS
<1> HIDE DEF x
<1>4. CASE m = <<>>
  <2>1. k = 0 /\ e = <<x>>
    BY <1>4 DEF MergedOk, Extend
  <2>2. e \in Seq(Intervals(top)) /\ Len(e) = 1 /\ e[1] = x
    BY <1>1, <2>1
  <2>3. \A v \in 0..top : (\E i \in 1..Len(e) : Holds(e[i], v)) <=> Holds(x, v)
    BY <2>2
  <2> QED
    BY <1>1, <1>3, <2>1, <2>2, <2>3 DEF MergedOk, x
<1>5. CASE m # <<>>
  <2> DEFINE l == Len(m)
             last == m[l]
  <2>a. l \in 1..l /\ k > 0 /\ k \in 1..Len(s)
    BY <1>2, <1>5 DEF MergedOk
  <2>2. last \in Intervals(top) /\ last.low \in 0..top /\ last.high \in 0..top /\ last.low <= last.high
    BY <1>2, <2>a
  <2>b. s[k] \in Intervals(top)
    BY <2>a
  <2>c. s[k].low \in 0..top
    BY <2>b, IntervalFacts
  <2>d. last.low <= s[k].low /\ s[k].low <= x.low
    BY <2>a DEF MergedOk, x
  <2>1. l \in 1..l /\ k > 0 /\ last.low <= x.low
    BY <1>1, <2>a, <2>2, <2>c, <2>d
  <2>3. \A i \in 1..l : i < l => m[i].high + 1 < last.low
    BY <2>1 DEF MergedOk
  <2>4. CASE x.low <= last.high \/ (last.high # top /\ x.low = last.high + 1)
    <3> DEFINE h == Max({last.high, x.high})
               w == [last EXCEPT !.high = h]
    <3>1. h \in {last.high, x.high} /\ h >= last.high /\ h >= x.high
      BY <1>1, <2>2, MaxOfTwo
    <3> HIDE DEF h
    <3>2. w \in Intervals(top) /\ w.low = last.low /\ w.high = h
      <4>1. h \in 0..top
        BY <1>1, <2>2, <3>1
      <4> HIDE DEF last
      <4> QED
        BY <2>2, <3>1, <4>1, IntervalFacts
    <3>3. e = Append(Front(m), w)
      BY <1>5, <2>4 DEF Extend, Last, h
    <3>4. /\ Front(m) \in Seq(Intervals(top)) /\ Len(Front(m)) = l - 1
          /\ \A i \in 1..(l - 1) : Front(m)[i] = m[i]
      BY <1>2, <1>5, FrontFacts
    <3>5. /\ e \in Seq(Intervals(top)) /\ Len(e) = l /\ e[l] = w
          /\ \A i \in 1..l : i < l => e[i] = m[i]
      BY <2>1, <3>2, <3>3, <3>4
    <3> HIDE DEF e, w, last
    <3>6. \A i, j \in 1..l : i < j => e[i].high + 1 < e[j].low
      <4> SUFFICES ASSUME NEW i \in 1..l, NEW j \in 1..l, i < j PROVE e[i].high + 1 < e[j].low
        OBVIOUS
      <4>1. i < l /\ e[i] = m[i]
        BY <2>1, <3>5
      <4>2. CASE j = l
        BY <2>3, <3>2, <3>5, <4>1, <4>2
      <4>3. CASE j # l
        <5>1. e[j] = m[j]
          BY <3>5, <4>3
        <5> QED
          BY <4>1, <5>1 DEF MergedOk
      <4> QED
        BY <4>2, <4>3
    <3>7. \A v \in 0..top : Holds(w, v) <=> Holds(last, v) \/ Holds(x, v)
      <4>1. x.low \in Nat /\ x.high \in Nat /\ last.low \in Nat /\ last.high \in Nat
        BY <1>1, <2>2
      <4>2. last.low <= last.high /\ last.low <= x.low /\ x.low <= x.high /\ x.low <= last.high + 1
        BY <1>1, <2>1, <2>2, <2>4, <4>1
      <4>3. w.low = last.low /\ w.high \in {last.high, x.high} /\ w.high >= last.high /\ w.high >= x.high
        BY <3>1, <3>2
      <4> HIDE DEF l
      <4> QED
        BY <4>1, <4>2, <4>3 DEF Holds
    <3>8. ASSUME NEW v \in 0..top
          PROVE  (\E i \in 1..l : Holds(e[i], v)) <=> (\E i \in 1..l : Holds(m[i], v)) \/ Holds(x, v)
      <4>1. m[l] = last /\ e[l] = w
        BY <3>5 DEF last
      <4>2. \A i \in 1..l : i = l \/ (i < l /\ e[i] = m[i])
        BY <3>5
      <4>3. Holds(w, v) <=> Holds(last, v) \/ Holds(x, v)
        BY <3>7
      <4> QED
        BY <2>1, <4>1, <4>2, <4>3
    <3>9. e[Len(e)].low <= x.low
      BY <2>1, <3>2, <3>5
    <3>10. \A v \in 0..top : (\E i \in 1..Len(e) : Holds(e[i], v)) <=> (\E j \in 1..(k + 1) : Holds(s[j], v))
      BY <1>3, <3>5, <3>8 DEF MergedOk
    <3>11. e # <<>> /\ k + 1 # 0 /\ k + 1 > 0
      BY <2>1, <3>5
    <3> QED
      BY <3>5, <3>6, <3>9, <3>10, <3>11 DEF MergedOk, e, x
  <2>5. CASE ~(x.low <= last.high \/ (last.high # top /\ x.low = last.high + 1))
    <3>1. e = Append(m, x)
      BY <1>5, <2>5 DEF Extend, Last
    <3>2. /\ e \in Seq(Intervals(top)) /\ Len(e) = l + 1 /\ e[l + 1] = x
          /\ \A i \in 1..l : e[i] = m[i]
      BY <1>1, <1>2, <3>1
    <3> HIDE DEF e
    <3>3. last.high + 1 < x.low
      BY <1>1, <2>2, <2>5
    <3>4. \A i \in 1..l : m[i].high + 1 < x.low
      <4>1. \A i \in 1..l : i = l \/ i < l
        OBVIOUS
      <4>2. ASSUME NEW i \in 1..l, i < l PROVE m[i].high + 1 < x.low
        <5>1. m[i].high + 1 < last.low /\ m[i].high \in 0..top
          BY <1>2, <2>3, <4>2
        <5>2. x.low \in Int /\ last.low \in Int /\ last.low <= x.low
          BY <1>1, <2>1, <2>2
        <5> HIDE DEF last, l
        <5> QED
          BY <5>1, <5>2
      <4> QED
        BY <3>3, <4>1, <4>2
    <3>5. ASSUME NEW i \in 1..(l + 1), NEW j \in 1..(l + 1), i < j PROVE e[i].high + 1 < e[j].low
      <4>1. CASE j = l + 1
        BY <3>2, <3>4, <3>5, <4>1
      <4>2. CASE j # l + 1
        <5>1. i \in 1..l /\ j \in 1..l
          BY <3>5, <4>2
        <5> QED
          BY <3>2, <3>5, <5>1 DEF MergedOk
      <4> QED
        BY <4>1, <4>2
    <3>6. ASSUME NEW v \in 0..top
          PROVE  (\E i \in 1..(l + 1) : Holds(e[i], v)) <=> (\E i \in 1..l : Holds(m[i], v)) \/ Holds(x, v)
      <4>1. \A i \in 1..(l + 1) : i \in 1..l \/ i = l + 1
        BY <2>1
      <4>2. l + 1 \in 1..(l + 1) /\ \A i \in 1..l : i \in 1..(l + 1)
        BY <2>1
      <4>3. e[l + 1] = x /\ \A i \in 1..l : e[i] = m[i]
        BY <3>2
      <4> HIDE DEF last, l
      <4> QED
        BY <4>1, <4>2, <4>3
    <3>7. \A v \in 0..top : (\E i \in 1..Len(e) : Holds(e[i], v)) <=> (\E j \in 1..(k + 1) : Holds(s[j], v))
      BY <1>3, <3>2, <3>6 DEF MergedOk
    <3>8. e # <<>> /\ k + 1 # 0 /\ k + 1 > 0 /\ e[Len(e)].low <= x.low
      BY <1>1, <2>1, <3>2
    <3> QED
      BY <3>2, <3>5, <3>7, <3>8 DEF MergedOk, e, x
  <2> QED
    BY <2>4, <2>5
<1> QED
  BY <1>4, <1>5
LEMMA ExtendType ==
    ASSUME NEW top \in Nat, NEW m \in Seq(Intervals(top)), NEW x \in Intervals(top)
    PROVE  Extend(m, x, top) \in Seq(Intervals(top))
<1>1. CASE m = <<>>
  BY <1>1 DEF Extend
<1>2. CASE m # <<>>
  <2> DEFINE last == m[Len(m)]
             h == Max({last.high, x.high})
             w == [last EXCEPT !.high = h]
  <2>1. last \in Intervals(top)
    BY <1>2
  <2>2. last.high \in 0..top /\ x.high \in 0..top
    BY <2>1, IntervalFacts
  <2>3. h \in 0..top /\ h >= last.high
    <3> HIDE DEF last
    <3> QED
      BY <2>2, MaxOfTwo
  <2> HIDE DEF last, h
  <2>4. w \in Intervals(top)
    BY <2>1, <2>3, IntervalFacts
  <2>5. Front(m) \in Seq(Intervals(top))
    BY <1>2, FrontFacts
  <2>6. Append(Front(m), w) \in Seq(Intervals(top)) /\ Append(m, x) \in Seq(Intervals(top))
    BY <2>4, <2>5
  <2>7. Extend(m, x, top) \in {Append(Front(m), w), Append(m, x)}
    BY <1>2 DEF Extend, Last, last, h
  <2> QED
    BY <2>6, <2>7
<1> QED
  BY <1>1, <1>2

\* Before is a weak order.
LEMMA BeforeOrders ==
    ASSUME NEW top \in Nat
    PROVE  /\ \A x, y \in Intervals(top) : Before(x, y) => ~Before(y, x)
           /\ \A x, y, z \in Intervals(top) : ~Before(x, y) /\ ~Before(y, z) => ~Before(x, z)
           /\ \A x, y \in Intervals(top) : ~Before(y, x) => x.low <= y.low
<1>1. \A x \in Intervals(top) : x.low \in Nat /\ x.high \in Nat
  BY IntervalFacts
<1>2. \A x, y \in Intervals(top) : Before(x, y) => ~Before(y, x)
  BY <1>1 DEF Before
<1>3. \A x, y, z \in Intervals(top) : ~Before(x, y) /\ ~Before(y, z) => ~Before(x, z)
  BY <1>1 DEF Before
<1>4. \A x, y \in Intervals(top) : ~Before(y, x) => x.low <= y.low
  BY <1>1 DEF Before
<1> QED
  BY <1>2, <1>3, <1>4

\* Sorting by Before.
LEMMA BeforeSorts ==
    ASSUME NEW top \in Nat, NEW s \in Seq(Intervals(top)), NEW t, t = SortFunc(s, Before)
    PROVE  /\ t \in Seq(Intervals(top)) /\ DOMAIN t = DOMAIN s /\ ToSet(t) = ToSet(s)
           /\ \A i, j \in DOMAIN s : i < j => t[i].low <= t[j].low
<1> DEFINE T == Intervals(top)
           R == {x \in T \X T : Before(x[1], x[2])}
           Orders == {[i \in DOMAIN s |-> s[p[i]]] : p \in Bijection(DOMAIN s, DOMAIN s)}
<1>1. \A x, y \in T : <<x, y>> \in R <=> Before(x, y)
  OBVIOUS
<1>3. WeakOrder(R, T)
  <2>1. \A x, y \in T : Before(x, y) => ~Before(y, x)
    BY BeforeOrders
  <2>2. \A x, y, z \in T : ~Before(x, y) /\ ~Before(y, z) => ~Before(x, z)
    BY BeforeOrders
  <2> HIDE DEF T, R
  <2> QED
    BY <1>1, <2>1, <2>2 DEF WeakOrder
<1>4. PICK u \in Orders : \A i, j \in DOMAIN s : i < j => <<u[j], u[i]>> \notin R
  BY <1>3, SortedBy
<1>5. ASSUME NEW v \in Orders
      PROVE  v \in Seq(T) /\ DOMAIN v = DOMAIN s /\ ToSet(v) = ToSet(s) /\ \A i \in DOMAIN s : v[i] \in T
  <2>1. PICK p \in Bijection(DOMAIN s, DOMAIN s) : v = [i \in DOMAIN s |-> s[p[i]]]
    OBVIOUS
  <2>2. v \in Seq(T) /\ DOMAIN v = DOMAIN s /\ ToSet(v) = ToSet(s)
    BY <2>1, ReorderedSame
  <2> QED
    BY <2>2
<1> HIDE DEF T, R
<1>6. \A i, j \in DOMAIN s : i < j => ~Before(u[j], u[i])
  BY <1>1, <1>4, <1>5
<1>7. t \in Orders /\ \A i, j \in DOMAIN s : i < j => ~Before(t[j], t[i])
  <2>1. t = CHOOSE v \in Orders : \A i, j \in DOMAIN s : i < j => ~Before(v[j], v[i])
    BY DEF SortFunc
  <2> HIDE DEF Orders
  <2> QED
    BY <1>6, <2>1
<1>8. t \in Seq(T) /\ DOMAIN t = DOMAIN s /\ ToSet(t) = ToSet(s) /\ \A i \in DOMAIN s : t[i] \in T
  BY <1>5, <1>7
<1>9. ASSUME NEW i \in DOMAIN s, NEW j \in DOMAIN s, i < j PROVE t[i].low <= t[j].low
  <2>1. ~Before(t[j], t[i])
    BY <1>7, <1>9
  <2>2. t[i] \in Intervals(top) /\ t[j] \in Intervals(top)
    BY <1>8 DEF T
  <2> QED
    BY <2>1, <2>2, BeforeOrders
<1> QED
  BY <1>8, <1>9 DEF T

\* Merge returns intervals with gaps between them that hold what the list holds.
LEMMA MergeMerges ==
    ASSUME NEW top \in Nat, NEW s \in Seq(Intervals(top)), NEW m, m = Merge(s, top)
    PROVE  /\ m \in Seq(Intervals(top))
           /\ \A i, j \in 1..Len(m) : i < j => m[i].high + 1 < m[j].low
           /\ \A v \in 0..top : (\E i \in 1..Len(m) : Holds(m[i], v)) <=> (\E e \in ToSet(s) : Holds(e, v))
<1> DEFINE sorted == SortFunc(s, Before)
           n == Len(sorted)
           V == Seq(Intervals(top))
           g == [x \in V \X (1..n) |-> Extend(x[1], sorted[x[2]], top)]
           Eqn(f) == f = [k \in 0..n |-> IF k = 0 THEN <<>> ELSE Extend(f[k - 1], sorted[k], top)]
<1>1. /\ sorted \in Seq(Intervals(top)) /\ ToSet(sorted) = ToSet(s) /\ n \in Nat
      /\ \A i, j \in 1..n : i < j => sorted[i].low <= sorted[j].low
  <2>1. /\ sorted \in Seq(Intervals(top)) /\ DOMAIN sorted = DOMAIN s /\ ToSet(sorted) = ToSet(s)
        /\ \A i, j \in DOMAIN s : i < j => sorted[i].low <= sorted[j].low
    BY BeforeSorts
  <2>2. DOMAIN s = 1..n /\ n \in Nat
    BY <2>1
  <2> QED
    BY <2>1, <2>2
<1>2. m = (CHOOSE f : Eqn(f))[n]
  BY DEF Merge
<1> HIDE DEF sorted
<1>3. ASSUME NEW x \in V, NEW k \in 1..n PROVE Extend(x, sorted[k], top) \in V
  <2>1. sorted[k] \in Intervals(top)
    BY <1>1
  <2> QED
    BY <2>1, ExtendType
<1>4. <<>> \in V
  OBVIOUS
<1> HIDE DEF V, n
<1>5. g \in [V \X (1..n) -> V]
  BY <1>3
<1>6. PICK f \in [0..n -> V] : Follows(f, g, <<>>, n)
  BY <1>1, <1>4, <1>5, Recursion
<1>7. ASSUME NEW k \in 1..n PROVE k - 1 \in 0..n /\ f[k] = Extend(f[k - 1], sorted[k], top)
  <2>1. n \in Nat /\ k - 1 \in 0..n
    BY <1>1
  <2>2. f[k - 1] \in V /\ f[k] = g[<<f[k - 1], k>>]
    BY <1>6, <2>1 DEF Follows
  <2> QED
    BY <2>1, <2>2
<1>8. Eqn(f)
  <2>1. \A k \in 0..n : k = 0 \/ k \in 1..n
    BY <1>1
  <2>2. f[0] = <<>>
    BY <1>6 DEF Follows
  <2> DEFINE h == [k \in 0..n |-> IF k = 0 THEN <<>> ELSE Extend(f[k - 1], sorted[k], top)]
  <2>3. \A k \in 0..n : f[k] = h[k]
    BY <1>7, <2>1, <2>2
  <2> QED
    BY <1>6, <2>3
<1> DEFINE F == CHOOSE x : Eqn(x)
<1>9. Eqn(F)
  <2> HIDE DEF Eqn
  <2> QED
    BY <1>8
<1> HIDE DEF F
<1>10. /\ F[0] = <<>> /\ \A k \in Nat : k + 1 <= n => F[k + 1] = Extend(F[k], sorted[k + 1], top)
  <2>1. 0 \in 0..n /\ n \in Nat
    BY <1>1
  <2>2. F[0] = <<>>
    BY <1>9, <2>1
  <2>3. ASSUME NEW k \in Nat, k + 1 <= n PROVE F[k + 1] = Extend(F[k], sorted[k + 1], top)
    <3>1. k + 1 \in 0..n /\ k + 1 # 0 /\ (k + 1) - 1 = k
      BY <2>1, <2>3
    <3> HIDE DEF Eqn
    <3>2. F[k + 1] = IF k + 1 = 0 THEN <<>> ELSE Extend(F[(k + 1) - 1], sorted[k + 1], top)
      BY <1>9, <3>1 DEF Eqn
    <3> QED
      BY <3>1, <3>2
  <2> QED
    BY <2>2, <2>3
<1> HIDE DEF Eqn
<1> DEFINE S == {k \in Nat : k <= n => MergedOk(F[k], sorted, k, top)}
<1>11. 0 \in S
  <2>1. MergedOk(<<>>, sorted, 0, top)
    <3>1. <<>> \in Seq(Intervals(top)) /\ Len(<<>>) = 0 /\ 1..0 = {} /\ ~(0 > 0)
      OBVIOUS
    <3> QED
      BY <3>1 DEF MergedOk
  <2> QED
    BY <1>10, <2>1
<1>12. ASSUME NEW k \in Nat, k \in S PROVE k + 1 \in S
  <2> SUFFICES ASSUME k + 1 <= n PROVE MergedOk(F[k + 1], sorted, k + 1, top)
    OBVIOUS
  <2>1. MergedOk(F[k], sorted, k, top)
    BY <1>1, <1>12
  <2>2. k > 0 => sorted[k].low <= sorted[k + 1].low
    BY <1>1
  <2>3. k + 1 <= Len(sorted) /\ sorted \in Seq(Intervals(top))
    BY <1>1 DEF n
  <2>4. MergedOk(Extend(F[k], sorted[k + 1], top), sorted, k + 1, top)
    BY <2>1, <2>2, <2>3, ExtendMerges
  <2> QED
    BY <1>10, <2>4
<1>13. n \in S
  BY <1>1, <1>11, <1>12, SetInduction
<1>14. MergedOk(m, sorted, n, top)
  <2>1. MergedOk(F[n], sorted, n, top)
    BY <1>1, <1>13
  <2>2. m = F[n]
    BY <1>2, Zenon DEF F
  <2> QED
    BY <2>1, <2>2
<1>15. ToSet(s) = {sorted[j] : j \in 1..n}
  <2>1. DOMAIN sorted = 1..n
    BY <1>1 DEF n
  <2>2. ToSet(sorted) = {sorted[j] : j \in DOMAIN sorted}
    BY DEF ToSet
  <2> QED
    BY <1>1, <2>1, <2>2
<1> QED
  BY <1>14, <1>15 DEF MergedOk
-----------------------------------------------------------------------------
(* The elements of an interval set *)

LEMMA SmallMod ==
    ASSUME NEW x \in Nat, NEW y \in Nat, x < y
    PROVE  x % y = x
OBVIOUS

Gapped(m, top) ==
    /\ m \in Seq(Intervals(top))
    /\ \A i, j \in 1..Len(m) : i < j => m[i].high + 1 < m[j].low

Begin(m, i) == [key |-> m[i].low, end |-> FALSE]
End(m, i) == [key |-> m[i].high + 1, end |-> TRUE]

LEMMA ElementsAre ==
    ASSUME NEW top \in Nat, NEW m, Gapped(m, top)
    PROVE  IntervalElements(m, top) =
             {Begin(m, i) : i \in 1..Len(m)} \cup {End(m, i) : i \in {j \in 1..Len(m) : m[j].high # top}}
<1>1. ToSet(m) = {m[i] : i \in 1..Len(m)}
  BY DEF ToSet, Gapped
<1>2. ASSUME NEW i \in 1..Len(m), m[i].high # top PROVE (m[i].high + 1) % (top + 1) = m[i].high + 1
  <2>1. m[i] \in Intervals(top)
    BY DEF Gapped
  <2>2. m[i].high \in 0..top
    BY <2>1, IntervalFacts
  <2>3. m[i].high + 1 \in Nat /\ top + 1 \in Nat /\ m[i].high + 1 < top + 1
    BY <1>2, <2>2
  <2> QED
    BY <2>3, SmallMod
<1> QED
  BY <1>1, <1>2 DEF IntervalElements, Begin, End

LEMMA EndsApart ==
    ASSUME NEW a \in Nat, NEW b \in Nat, NEW c \in Nat, NEW d \in Nat, a <= b, b + 1 < c, c <= d,
           NEW x \in {a, b + 1}, NEW y \in {c, d + 1}
    PROVE  x # y
OBVIOUS

\* No key occurs twice, so that the kernel accepts the set.
LEMMA KeysApart ==
    ASSUME NEW top \in Nat, NEW m, Gapped(m, top),
           NEW e \in IntervalElements(m, top), NEW o \in IntervalElements(m, top), e.key = o.key
    PROVE  e = o
<1> DEFINE I == 1..Len(m)
<1>1. \A i \in I : m[i].low \in Nat /\ m[i].high \in Nat /\ m[i].low <= m[i].high
  <2>1. \A i \in I : m[i] \in Intervals(top)
    BY DEF Gapped
  <2> QED
    BY <2>1, IntervalFacts
<1>2. PICK i \in I : e \in {Begin(m, i), End(m, i)}
  BY ElementsAre
<1>3. PICK j \in I : o \in {Begin(m, j), End(m, j)}
  BY ElementsAre
<1>4. i \in Nat /\ j \in Nat
  OBVIOUS
<1>5. CASE i = j
  <2>1. Begin(m, i).key = m[i].low /\ End(m, i).key = m[i].high + 1
    BY DEF Begin, End
  <2>2. Begin(m, i).key # End(m, i).key
    BY <1>1, <2>1
  <2> QED
    BY <1>2, <1>3, <1>5, <2>2
<1>6. CASE i < j
  <2>1. m[i].high + 1 < m[j].low
    BY <1>6 DEF Gapped
  <2>2. /\ e.key \in {m[i].low, m[i].high + 1} /\ o.key \in {m[j].low, m[j].high + 1}
        /\ m[i].low \in Nat /\ m[i].high \in Nat /\ m[i].low <= m[i].high
        /\ m[j].low \in Nat /\ m[j].high \in Nat /\ m[j].low <= m[j].high
    BY <1>1, <1>2, <1>3 DEF Begin, End
  <2>3. e.key # o.key
    BY <2>1, <2>2, EndsApart
  <2> QED
    BY <2>3
<1>7. CASE j < i
  <2>1. m[j].high + 1 < m[i].low
    BY <1>7 DEF Gapped
  <2>2. /\ e.key \in {m[i].low, m[i].high + 1} /\ o.key \in {m[j].low, m[j].high + 1}
        /\ m[i].low \in Nat /\ m[i].high \in Nat /\ m[i].low <= m[i].high
        /\ m[j].low \in Nat /\ m[j].high \in Nat /\ m[j].low <= m[j].high
    BY <1>1, <1>2, <1>3 DEF Begin, End
  <2>3. e.key # o.key
    BY <2>1, <2>2, EndsApart
  <2> QED
    BY <2>3
<1> QED
  BY <1>4, <1>5, <1>6, <1>7

\* When e is the last element up to v, looking v up finds it.
LEMMA LookupFinds ==
    ASSUME NEW top \in Nat, NEW m, Gapped(m, top), NEW v \in Nat,
           NEW e \in IntervalElements(m, top), e.key <= v,
           \A o \in IntervalElements(m, top) : o.key <= v => o.key <= e.key
    PROVE  InIntervals(IntervalElements(m, top), v) <=> ~e.end
<1> DEFINE X == IntervalElements(m, top)
           upTo == {o \in X : o.key <= v}
           last == CHOOSE o \in upTo : \A p \in upTo : p.key <= o.key
<1>1. e \in upTo /\ \A o \in upTo : o.key <= e.key
  OBVIOUS
<1>2. last \in upTo /\ \A o \in upTo : o.key <= last.key
  BY <1>1
<1>3. \A o \in X : o.key \in Nat
  <2>1. \A i \in 1..Len(m) : m[i] \in Intervals(top)
    BY DEF Gapped
  <2>2. \A i \in 1..Len(m) : m[i].low \in Nat /\ m[i].high \in Nat
    BY <2>1, IntervalFacts
  <2> QED
    BY <2>2, ElementsAre DEF Begin, End
<1> HIDE DEF last, X
<1>4. last.key = e.key
  BY <1>1, <1>2, <1>3
<1>5. last = e
  BY <1>1, <1>2, <1>4, KeysApart DEF X
<1> QED
  BY <1>1, <1>5 DEF InIntervals, last, X

\* An interval set holds what its intervals hold, up to the greatest value.
LEMMA LookupExact ==
    ASSUME NEW top \in Nat, NEW m, Gapped(m, top), NEW v \in 0..top
    PROVE  InIntervals(IntervalElements(m, top), v) <=> \E i \in 1..Len(m) : Holds(m[i], v)
<1> DEFINE I == 1..Len(m)
           X == IntervalElements(m, top)
<1>1. \A i \in I : m[i].low \in 0..top /\ m[i].high \in 0..top /\ m[i].low <= m[i].high
  <2>1. \A i \in I : m[i] \in Intervals(top)
    BY DEF Gapped
  <2> QED
    BY <2>1, IntervalFacts
<1>2. /\ \A e \in X : \E i \in I : e \in {Begin(m, i), End(m, i)}
      /\ \A i \in I : Begin(m, i) \in X
      /\ \A i \in I : m[i].high # top => End(m, i) \in X
  BY ElementsAre
<1>3. \A i, j \in I : i < j => m[i].high + 1 < m[j].low
  BY DEF Gapped
<1>4. I \subseteq Nat /\ \A i \in I : i <= Len(m)
  OBVIOUS
<1> HIDE DEF I, X
<1>5. ASSUME NEW i \in I, Holds(m[i], v) PROVE InIntervals(X, v)
  <2> DEFINE e == Begin(m, i)
  <2>1. e \in X /\ e.key <= v /\ ~e.end
    BY <1>2, <1>5 DEF Begin, Holds
  <2>2. ASSUME NEW o \in X, o.key <= v PROVE o.key <= e.key
    <3>1. PICK j \in I : o \in {Begin(m, j), End(m, j)}
      BY <1>2
    <3>2. CASE j < i
      BY <1>1, <1>3, <3>1, <3>2 DEF Begin, End
    <3>3. CASE i < j
      <4>1. m[i].high + 1 < m[j].low
        BY <1>3, <3>3
      <4> QED
        BY <1>1, <1>5, <2>2, <3>1, <4>1 DEF Begin, End, Holds
    <3>4. CASE i = j
      BY <1>1, <1>5, <2>2, <3>1, <3>4 DEF Begin, End, Holds
    <3> QED
      BY <1>4, <3>2, <3>3, <3>4
  <2> QED
    BY <2>1, <2>2, LookupFinds DEF X
<1>6. ASSUME \A i \in I : ~Holds(m[i], v), InIntervals(X, v) PROVE FALSE
  <2> DEFINE J == {i \in I : m[i].low <= v}
  <2>1. J # {}
    <3>1. PICK o \in X : o.key <= v
      BY <1>6 DEF InIntervals
    <3>2. PICK j \in I : o \in {Begin(m, j), End(m, j)}
      BY <1>2
    <3> QED
      BY <1>1, <3>1, <3>2 DEF Begin, End
  <2>2. PICK i \in J : \A j \in J : j <= i
    <3>1. m \in Seq(Intervals(top))
      BY DEF Gapped
    <3>2. Len(m) \in Nat
      BY <3>1
    <3>3. J \subseteq Nat /\ \A j \in J : j <= Len(m)
      BY <1>4
    <3> HIDE DEF J
    <3> QED
      BY <2>1, <3>2, <3>3, GreatestNat
  <2>3. i \in I /\ m[i].low <= v /\ m[i].high < v /\ m[i].high # top
    BY <1>1, <1>6 DEF Holds
  <2> DEFINE e == End(m, i)
  <2>4. e \in X /\ e.key <= v /\ e.end
    <3>1. e.key = m[i].high + 1 /\ e.end
      BY DEF End
    <3>2. m[i].high \in Nat /\ v \in Nat
      BY <1>1, <2>3
    <3>3. e \in X
      BY <1>2, <2>3
    <3> QED
      BY <2>3, <3>1, <3>2, <3>3
  <2>5. ASSUME NEW o \in X, o.key <= v PROVE o.key <= e.key
    <3>1. PICK j \in I : o \in {Begin(m, j), End(m, j)}
      BY <1>2
    <3>2. j \in J
      BY <1>1, <2>5, <3>1 DEF Begin, End
    <3>3. j = i \/ j < i
      BY <1>4, <2>2, <3>2
    <3>4. CASE j < i
      <4>1. m[j].high + 1 < m[i].low
        BY <1>3, <2>3, <3>4
      <4> QED
        BY <1>1, <2>3, <3>1, <4>1 DEF Begin, End
    <3>5. CASE j = i
      BY <1>1, <2>3, <3>1, <3>5 DEF Begin, End
    <3> QED
      BY <3>3, <3>4, <3>5
  <2> HIDE DEF e
  <2>6. InIntervals(X, v) <=> ~e.end
    BY <2>4, <2>5, LookupFinds DEF X
  <2> QED
    BY <1>6, <2>4, <2>6
<1> QED
  BY <1>5, <1>6 DEF I, X

-----------------------------------------------------------------------------
(* Selectors *)

\* The expression that a list becomes is one that the kernel takes, and it matches
\* what the list selects: of overlapping, adjoining, repeated and nested ranges, in
\* any order, up to the greatest value.
THEOREM ExprsExact ==
    ASSUME NEW top \in Nat, NEW s \in Lists(top)
    PROVE  Exact(s, Exprs(s, Merge(s, top), top), top)
<1> DEFINE m == Merge(s, top)
           x == Exprs(s, m, top)
<1>0. s \in Seq(Intervals(top)) /\ \A e \in ToSet(s) : e.range \/ e.low = e.high
  BY DEF Lists
<1>1. Gapped(m, top) /\ \A v \in 0..top : (\E i \in 1..Len(m) : Holds(m[i], v)) <=> (\E e \in ToSet(s) : Holds(e, v))
  BY <1>0, MergeMerges DEF Gapped
<1>2. Len(s) \in Nat /\ ToSet(s) = {s[i] : i \in 1..Len(s)}
  BY <1>0 DEF ToSet
<1>3. ToSet(s) \subseteq Intervals(top)
  BY <1>0, <1>2
<1> SUFFICES Exact(s, x, top)
  OBVIOUS
<1> HIDE DEF m
<1>4. CASE s = <<>>
  BY <1>4 DEF Exprs, Anything, Exact, Acceptable, Matches, Selects
<1>5. CASE s # <<>> /\ Len(s) = 1
  <2>1. x = [op |-> "cmp", low |-> s[1].low, high |-> s[1].high]
    BY <1>5 DEF Exprs
  <2>2. ToSet(s) = {s[1]}
    BY <1>0, <1>2, <1>5
  <2> HIDE DEF x
  <2>3. Acceptable(x)
    BY <2>1 DEF Acceptable
  <2>4. ASSUME NEW v \in 0..top PROVE Matches(x, v) <=> Selects(s, v)
    <3>1. Matches(x, v) <=> (s[1].low <= v /\ v <= s[1].high)
      BY <2>1 DEF Matches
    <3> QED
      BY <1>5, <2>2, <3>1 DEF Selects
  <2> QED
    BY <2>3, <2>4 DEF Exact
<1>6. CASE s # <<>> /\ Len(s) # 1 /\ \E e \in ToSet(s) : e.range
  <2>1. x = [op |-> "interval", elements |-> IntervalElements(m, top)]
    BY <1>6 DEF Exprs
  <2> HIDE DEF x
  <2>2. Acceptable(x)
    BY <1>1, <2>1, KeysApart DEF Acceptable
  <2>3. ASSUME NEW v \in 0..top PROVE Matches(x, v) <=> Selects(s, v)
    <3>1. Matches(x, v) <=> InIntervals(IntervalElements(m, top), v)
      BY <2>1 DEF Matches
    <3>2. Selects(s, v) <=> \E e \in ToSet(s) : Holds(e, v)
      BY <1>6 DEF Selects, Holds
    <3> QED
      BY <1>1, <3>1, <3>2, LookupExact
  <2> QED
    BY <2>2, <2>3 DEF Exact
<1>7. CASE s # <<>> /\ Len(s) # 1 /\ ~\E e \in ToSet(s) : e.range
  <2>1. x = [op |-> "set", elements |-> {e.low : e \in ToSet(s)}]
    BY <1>7 DEF Exprs
  <2> HIDE DEF x
  <2>2. \A e \in ToSet(s) : e.low = e.high /\ e.low \in Nat
    BY <1>0, <1>3, <1>7, IntervalFacts
  <2>3. ASSUME NEW v \in 0..top PROVE Matches(x, v) <=> Selects(s, v)
    <3>1. Matches(x, v) <=> \E e \in ToSet(s) : v = e.low
      BY <2>1 DEF Matches
    <3> QED
      BY <1>7, <2>2, <3>1 DEF Selects
  <2> QED
    BY <2>1, <2>3 DEF Exact, Acceptable
<1> QED
  BY <1>4, <1>5, <1>6, <1>7
=============================================================================
