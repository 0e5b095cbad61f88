---------------------------- MODULE PolicyProofs ----------------------------
(***************************************************************************)
(* Proofs about Policy, for any containers, networks, labels, ports and    *)
(* packets that the assumptions of Policy describe.                        *)
(***************************************************************************)
EXTENDS Policy, SelectorsProofs

-----------------------------------------------------------------------------
(* Sequences *)

LEMMA SequenceIs ==
    ASSUME NEW s, IsSequence(s)
    PROVE  Len(s) \in Nat /\ DOMAIN s = 1..Len(s) /\ ToSet(s) = {s[i] : i \in 1..Len(s)}
<1>1. s \in Seq(ToSet(s))
  BY DEF IsSequence
<1>2. Len(s) \in Nat /\ DOMAIN s = 1..Len(s)
  BY <1>1
<1> QED
  BY <1>2 DEF ToSet

LEMMA SequenceOf ==
    ASSUME NEW T, NEW s \in Seq(T)
    PROVE  IsSequence(s) /\ ToSet(s) \subseteq T
<1>1. Len(s) \in Nat /\ DOMAIN s = 1..Len(s) /\ s \in [1..Len(s) -> T]
  OBVIOUS
<1>2. ToSet(s) = {s[i] : i \in 1..Len(s)}
  BY <1>1 DEF ToSet
<1>3. s \in [1..Len(s) -> ToSet(s)]
  BY <1>1, <1>2
<1>4. s \in Seq(ToSet(s))
  BY <1>1, <1>3, SeqDef
<1> QED
  BY <1>1, <1>2, <1>4 DEF IsSequence

LEMMA EmptySequence == IsSequence(<<>>) /\ ToSet(<<>>) = {}
<1> DEFINE e == <<>>
<1>1. e \in Seq({}) /\ DOMAIN e = {}
  OBVIOUS
<1>2. ToSet(e) = {}
  BY <1>1 DEF ToSet
<1> HIDE DEF e
<1>3. IsSequence(e)
  BY <1>1, SequenceOf
<1> QED
  BY <1>2, <1>3 DEF e

LEMMA SingleSequence ==
    ASSUME NEW x
    PROVE  IsSequence(<<x>>) /\ ToSet(<<x>>) = {x}
<1>1. <<x>> \in Seq({x}) /\ Len(<<x>>) = 1
  OBVIOUS
<1>2. IsSequence(<<x>>)
  BY <1>1, SequenceOf
<1>3. ToSet(<<x>>) = {<<x>>[i] : i \in 1..1}
  BY <1>1, <1>2, SequenceIs
<1> QED
  BY <1>2, <1>3

LEMMA PairSequence ==
    ASSUME NEW x, NEW y
    PROVE  IsSequence(<<x, y>>) /\ ToSet(<<x, y>>) = {x, y}
<1> DEFINE s == <<x, y>>
<1>1. s \in Seq({x, y}) /\ Len(s) = 2 /\ s[1] = x /\ s[2] = y
  OBVIOUS
<1> HIDE DEF s
<1>2. IsSequence(s)
  BY <1>1, SequenceOf
<1>3. ToSet(s) = {s[i] : i \in 1..2}
  BY <1>1, <1>2, SequenceIs
<1>4. ToSet(s) = {x, y}
  BY <1>1, <1>3
<1> QED
  BY <1>2, <1>4 DEF s

LEMMA ConcatSequences ==
    ASSUME NEW s, NEW t, IsSequence(s), IsSequence(t)
    PROVE  /\ IsSequence(s \o t) /\ ToSet(s \o t) = ToSet(s) \cup ToSet(t)
           /\ Len(s \o t) = Len(s) + Len(t)
           /\ \A i \in 1..Len(s) : (s \o t)[i] = s[i]
           /\ \A i \in 1..Len(t) : (s \o t)[Len(s) + i] = t[i]
<1> DEFINE T == ToSet(s) \cup ToSet(t)
<1>1. s \in Seq(ToSet(s)) /\ t \in Seq(ToSet(t))
  BY DEF IsSequence
<1>2. /\ Len(s) \in Nat /\ DOMAIN s = 1..Len(s) /\ ToSet(s) = {s[i] : i \in 1..Len(s)}
      /\ Len(t) \in Nat /\ DOMAIN t = 1..Len(t) /\ ToSet(t) = {t[i] : i \in 1..Len(t)}
  BY SequenceIs
<1>3. s \in Seq(T) /\ t \in Seq(T)
  <2>1. \A i \in 1..Len(s) : s[i] \in T
    BY <1>2
  <2>2. \A i \in 1..Len(t) : t[i] \in T
    BY <1>2
  <2> QED
    BY <1>1, <1>2, <2>1, <2>2
<1> HIDE DEF T
<1>4. s \o t \in Seq(T) /\ Len(s \o t) = Len(s) + Len(t)
  BY <1>3
<1>5. /\ \A i \in 1..Len(s) : (s \o t)[i] = s[i]
      /\ \A i \in 1..Len(t) : (s \o t)[Len(s) + i] = t[i]
  BY <1>2, <1>3
<1>6. IsSequence(s \o t) /\ ToSet(s \o t) = {(s \o t)[i] : i \in 1..(Len(s) + Len(t))}
  BY <1>4, SequenceOf, SequenceIs
<1>7. ToSet(s \o t) \subseteq ToSet(s) \cup ToSet(t)
  BY <1>4, SequenceOf DEF T
<1>8. ToSet(s) \subseteq ToSet(s \o t)
  BY <1>2, <1>5, <1>6
<1>9. ToSet(t) \subseteq ToSet(s \o t)
  <2>1. \A i \in 1..Len(t) : Len(s) + i \in 1..(Len(s) + Len(t))
    BY <1>2
  <2> QED
    BY <1>2, <1>5, <1>6, <2>1
<1> QED
  BY <1>4, <1>5, <1>6, <1>7, <1>8, <1>9

\* FlattenSeq puts one sequence behind the other.
LEMMA FlattenFolds ==
    ASSUME NEW ss, IsSequence(ss), \A i \in DOMAIN ss : IsSequence(ss[i])
    PROVE  \E F : /\ F[0] = <<>> /\ FlattenSeq(ss) = F[Len(ss)]
                  /\ \A k \in Nat : k + 1 <= Len(ss) => F[k + 1] = F[k] \o ss[k + 1]
<1> DEFINE n == Len(ss)
           T == UNION {ToSet(ss[i]) : i \in 1..n}
           V == Seq(T)
           Eqn(f) == f = [i \in 1..n |-> IF i = 1 THEN ss[i] ELSE f[i - 1] \o ss[i]]
<1>1. n \in Nat /\ DOMAIN ss = 1..n
  BY SequenceIs
<1>2. ASSUME NEW i \in 1..n PROVE ss[i] \in V
  <2>1. IsSequence(ss[i])
    BY <1>1
  <2>2. ss[i] \in Seq(ToSet(ss[i])) /\ ToSet(ss[i]) \subseteq T
    BY <2>1 DEF IsSequence
  <2> HIDE DEF T
  <2> QED
    BY <2>2
<1>3. CASE n = 0
  <2>1. ss = <<>>
    BY <1>3 DEF IsSequence
  <2>2. FlattenSeq(ss) = <<>>
    BY <1>3, <2>1 DEF FlattenSeq
  <2> DEFINE F == [k \in 0..0 |-> <<>>]
  <2>3. F[0] = <<>> /\ \A k \in Nat : ~(k + 1 <= n)
    BY <1>3
  <2> HIDE DEF F
  <2> QED
    BY <1>3, <2>2, <2>3
<1>4. CASE n # 0
  <2>1. FlattenSeq(ss) = (CHOOSE f : Eqn(f))[n]
    BY <1>4 DEF FlattenSeq
  <2> DEFINE g == [x \in V \X (1..n) |-> x[1] \o ss[x[2]]]
  <2>2. g \in [V \X (1..n) -> V]
    <3> HIDE DEF T, n
    <3> QED
      BY <1>2
  <2>3. <<>> \in V
    OBVIOUS
  <2> HIDE DEF V, n
  <2>4. PICK f \in [0..n -> V] : Follows(f, g, <<>>, n)
    BY <1>1, <2>2, <2>3, Recursion
  <2> DEFINE h == [k \in 1..n |-> f[k]]
  <2>5. Eqn(h)
    <3>1. ASSUME NEW k \in 1..n PROVE h[k] = IF k = 1 THEN ss[k] ELSE h[k - 1] \o ss[k]
      <4>1. k - 1 \in 0..n /\ f[k - 1] \in V /\ ss[k] \in V
        BY <1>1, <1>2
      <4>2. h[k] = f[k - 1] \o ss[k]
        BY <2>4, <4>1 DEF Follows
      <4>3. CASE k = 1
        <5>1. f[k - 1] = <<>>
          BY <2>4, <4>3 DEF Follows
        <5>2. <<>> \o ss[k] = ss[k]
          BY <4>1 DEF V
        <5> QED
          BY <4>2, <4>3, <5>1, <5>2
      <4>4. CASE k # 1
        <5>1. k - 1 \in 1..n
          BY <1>1, <4>4
        <5> QED
          BY <4>2, <4>4, <5>1
      <4> QED
        BY <4>3, <4>4
    <3> HIDE DEF h
    <3>2. h = [k \in 1..n |-> h[k]]
      BY DEF h
    <3> QED
      BY <3>1, <3>2
  <2> DEFINE G == CHOOSE x : Eqn(x)
  <2>6. Eqn(G)
    <3> HIDE DEF Eqn
    <3> QED
      BY <2>5
  <2> HIDE DEF G
  <2> DEFINE F == [k \in 0..n |-> IF k = 0 THEN <<>> ELSE G[k]]
  <2>7. F[0] = <<>> /\ n \in 0..n /\ F[n] = G[n]
    BY <1>1, <1>4
  <2>8. ASSUME NEW k \in Nat, k + 1 <= n PROVE F[k + 1] = F[k] \o ss[k + 1]
    <3>1. k + 1 \in 1..n /\ k \in 0..n /\ (k + 1) - 1 = k /\ k + 1 # 0 /\ (k + 1 = 1 <=> k = 0)
      BY <1>1, <2>8
    <3>2. G[k + 1] = IF k + 1 = 1 THEN ss[k + 1] ELSE G[(k + 1) - 1] \o ss[k + 1]
      BY <2>6, <3>1
    <3>3. k + 1 \in 0..n
      BY <1>1, <3>1
    <3>4. F[k + 1] = G[k + 1]
      BY <3>1, <3>3
    <3>5. CASE k = 0
      <4>1. F[k] = <<>>
        BY <2>7, <3>5
      <4>2. <<>> \o ss[k + 1] = ss[k + 1]
        BY <1>2, <3>1 DEF V
      <4> QED
        BY <3>1, <3>2, <3>4, <3>5, <4>1, <4>2
    <3>6. CASE k # 0
      <4>1. F[k] = G[k]
        BY <3>1, <3>6
      <4> QED
        BY <3>1, <3>2, <3>4, <3>6, <4>1
    <3> QED
      BY <3>5, <3>6
  <2> HIDE DEF F
  <2>9. FlattenSeq(ss) = F[n]
    BY <2>1, <2>7 DEF G
  <2> QED
    BY <2>7, <2>8, <2>9 DEF n
<1> QED
  BY <1>3, <1>4

\* So that it holds what they hold.
LEMMA FlattenHolds ==
    ASSUME NEW ss, IsSequence(ss), \A i \in DOMAIN ss : IsSequence(ss[i])
    PROVE  IsSequence(FlattenSeq(ss)) /\ ToSet(FlattenSeq(ss)) = UNION {ToSet(ss[i]) : i \in DOMAIN ss}
<1> DEFINE n == Len(ss)
<1>1. n \in Nat /\ DOMAIN ss = 1..n
  BY SequenceIs
<1>2. PICK F : /\ F[0] = <<>> /\ FlattenSeq(ss) = F[Len(ss)]
               /\ \A k \in Nat : k + 1 <= n => F[k + 1] = F[k] \o ss[k + 1]
  BY FlattenFolds
<1> DEFINE S == {k \in Nat : k <= n => IsSequence(F[k]) /\ ToSet(F[k]) = UNION {ToSet(ss[i]) : i \in 1..k}}
<1> HIDE DEF n
<1>3. 0 \in S
  <2>1. UNION {ToSet(ss[i]) : i \in 1..0} = {}
    OBVIOUS
  <2> QED
    BY <1>2, <2>1, EmptySequence
<1>4. ASSUME NEW k \in Nat, k \in S PROVE k + 1 \in S
  <2> SUFFICES ASSUME k + 1 <= n
               PROVE  IsSequence(F[k + 1]) /\ ToSet(F[k + 1]) = UNION {ToSet(ss[i]) : i \in 1..(k + 1)}
    OBVIOUS
  <2>1. IsSequence(F[k]) /\ ToSet(F[k]) = UNION {ToSet(ss[i]) : i \in 1..k}
    BY <1>1, <1>4
  <2>2. k + 1 \in 1..n /\ IsSequence(ss[k + 1])
    BY <1>1
  <2>3. F[k + 1] = F[k] \o ss[k + 1]
    BY <1>2
  <2>4. IsSequence(F[k + 1]) /\ ToSet(F[k + 1]) = ToSet(F[k]) \cup ToSet(ss[k + 1])
    BY <2>1, <2>2, <2>3, ConcatSequences
  <2>5. 1..(k + 1) = (1..k) \cup {k + 1}
    OBVIOUS
  <2> QED
    BY <2>1, <2>4, <2>5
<1>5. n \in S
  BY <1>1, <1>3, <1>4, SetInduction
<1> QED
  BY <1>1, <1>2, <1>5 DEF n

\* The elements of s that belong to K, in their order.
Kept(s, K) == FlattenSeq([i \in DOMAIN s |-> IF s[i] \in K THEN <<s[i]>> ELSE <<>>])

LEMMA KeptSequence ==
    ASSUME NEW s, NEW K, IsSequence(s)
    PROVE  IsSequence(Kept(s, K)) /\ ToSet(Kept(s, K)) = ToSet(s) \cap K
<1> DEFINE ss == [i \in DOMAIN s |-> IF s[i] \in K THEN <<s[i]>> ELSE <<>>]
<1>1. Len(s) \in Nat /\ DOMAIN s = 1..Len(s) /\ ToSet(s) = {s[i] : i \in 1..Len(s)}
  BY SequenceIs
<1>2. \A i \in DOMAIN s : IsSequence(ss[i]) /\ ToSet(ss[i]) = {s[i]} \cap K
  BY SingleSequence, EmptySequence
<1>3. DOMAIN ss = DOMAIN s
  OBVIOUS
<1>4. IsSequence(ss)
  <2> DEFINE T == {ss[i] : i \in DOMAIN s}
  <2>1. ss \in [1..Len(s) -> T]
    BY <1>1
  <2> HIDE DEF ss, T
  <2>2. ss \in Seq(T)
    BY <1>1, <2>1
  <2> QED
    BY <2>2, SequenceOf
<1> HIDE DEF ss
<1>5. IsSequence(FlattenSeq(ss)) /\ ToSet(FlattenSeq(ss)) = UNION {ToSet(ss[i]) : i \in DOMAIN ss}
  BY <1>2, <1>3, <1>4, FlattenHolds
<1>6. ToSet(FlattenSeq(ss)) = ToSet(s) \cap K
  BY <1>1, <1>2, <1>3, <1>5
<1> QED
  BY <1>5, <1>6 DEF Kept, ss

\* The filters of the model are such.
LEMMA InKeeps ==
    ASSUME NEW s, NEW at, IsSequence(s)
    PROVE  In(s, at) = Kept(s, {r \in ToSet(s) : r.chain = at})
<1> DEFINE K == {r \in ToSet(s) : r.chain = at}
<1>1. \A i \in DOMAIN s : s[i].chain = at <=> s[i] \in K
  BY DEF ToSet
<1> HIDE DEF K
<1>2. In(s, at) = Kept(s, K)
  BY <1>1 DEF In, Concat, Kept
<1> QED
  BY <1>2 DEF K

LEMMA NotTaggedKeeps ==
    ASSUME NEW s, NEW c, IsSequence(s)
    PROVE  NotTagged(s, c) = Kept(s, {r \in ToSet(s) : r.tag # c})
<1> DEFINE K == {r \in ToSet(s) : r.tag # c}
<1>1. \A i \in DOMAIN s : s[i].tag # c <=> s[i] \in K
  BY DEF ToSet
<1> HIDE DEF K
<1>2. NotTagged(s, c) = Kept(s, K)
  BY <1>1 DEF NotTagged, Concat, Kept
<1> QED
  BY <1>2 DEF K

LEMMA InHolds ==
    ASSUME NEW s, NEW at, IsSequence(s)
    PROVE  IsSequence(In(s, at)) /\ ToSet(In(s, at)) = {r \in ToSet(s) : r.chain = at}
<1> DEFINE K == {r \in ToSet(s) : r.chain = at}
<1>1. In(s, at) = Kept(s, K) /\ ToSet(s) \cap K = K
  BY InKeeps
<1> HIDE DEF K
<1>2. IsSequence(In(s, at)) /\ ToSet(In(s, at)) = K
  BY <1>1, KeptSequence
<1> QED
  BY <1>2 DEF K

LEMMA NotTaggedHolds ==
    ASSUME NEW s, NEW c, IsSequence(s)
    PROVE  IsSequence(NotTagged(s, c)) /\ ToSet(NotTagged(s, c)) = {r \in ToSet(s) : r.tag # c}
<1> DEFINE K == {r \in ToSet(s) : r.tag # c}
<1>1. NotTagged(s, c) = Kept(s, K) /\ ToSet(s) \cap K = K
  BY NotTaggedKeeps
<1> HIDE DEF K
<1>2. IsSequence(NotTagged(s, c)) /\ ToSet(NotTagged(s, c)) = K
  BY <1>1, KeptSequence
<1> QED
  BY <1>2 DEF K

\* The elements of a finite set one after the other, and in order.
LEMMA SetToSeqHolds ==
    ASSUME NEW S, IsFiniteSet(S)
    PROVE  SetToSeq(S) \in Seq(S) /\ ToSet(SetToSeq(S)) = S
<1> DEFINE n == Cardinality(S)
           f == SetToSeq(S)
<1>1. n \in Nat /\ ExistsBijection(1..n, S)
  BY FS_CardinalityType
<1>2. \E g \in [1..n -> S] : IsInjective(g)
  BY <1>1 DEF ExistsBijection, Bijection, Injection
<1>3. f \in [1..n -> S] /\ IsInjective(f)
  BY <1>2 DEF SetToSeq
<1>4. f \in Injection(1..n, S)
  BY <1>3 DEF Injection
<1>5. IsFiniteSet(1..n) /\ Cardinality(1..n) = n
  BY <1>1, FS_Interval
<1> HIDE DEF f
<1>6. f \in Surjection(1..n, S)
  BY <1>4, <1>5, FS_Injection
<1>7. S = {f[i] : i \in 1..n}
  BY <1>3, <1>6 DEF Surjection
<1>8. f \in Seq(S) /\ DOMAIN f = 1..n
  BY <1>1, <1>3
<1> QED
  BY <1>7, <1>8 DEF ToSet, f

LEMMA NamesSorted ==
    ASSUME NEW nets, IsFiniteSet(DOMAIN nets), DOMAIN nets \subseteq Nat
    PROVE  IsSequence(SortedNames(nets)) /\ ToSet(SortedNames(nets)) = DOMAIN nets
<1> DEFINE T == DOMAIN nets
           s == SetToSeq(T)
           R == {x \in T \X T : x[1] < x[2]}
           Orders == {[i \in DOMAIN s |-> s[p[i]]] : p \in Bijection(DOMAIN s, DOMAIN s)}
           t == SortedNames(nets)
<1>1. s \in Seq(T) /\ ToSet(s) = T
  BY SetToSeqHolds
<1>2. \A x, y \in T : <<x, y>> \in R <=> x < y
  OBVIOUS
<1> HIDE DEF s
<1>3. WeakOrder(R, T)
  <2>1. \A x, y, z \in T : (x < y => ~(y < x)) /\ (~(x < y) /\ ~(y < z) => ~(x < z))
    OBVIOUS
  <2> HIDE DEF R, T
  <2> QED
    BY <1>2, <2>1 DEF WeakOrder
<1>4. PICK u \in Orders : \A i, j \in DOMAIN s : i < j => <<u[j], u[i]>> \notin R
  BY <1>1, <1>3, SortedBy
<1>5. ASSUME NEW v \in Orders
      PROVE  v \in Seq(T) /\ DOMAIN v = DOMAIN s /\ ToSet(v) = ToSet(s) /\ \A i \in DOMAIN s : v[i] \in T
  <2>1. PICK p \in Bijection(DOMAIN s, DOMAIN s) : v = [i \in DOMAIN s |-> s[p[i]]]
    OBVIOUS
  <2> HIDE DEF Orders, R, T
  <2>2. v \in Seq(T) /\ DOMAIN v = DOMAIN s /\ ToSet(v) = ToSet(s)
    BY <1>1, <2>1, ReorderedSame
  <2> QED
    BY <2>2
<1>6. \A i, j \in DOMAIN s : i < j => ~(u[j] < u[i])
  <2> HIDE DEF R, T, Orders
  <2> QED
    BY <1>2, <1>4, <1>5
<1>7. t = CHOOSE v \in Orders : \A i, j \in DOMAIN s : i < j => ~(v[j] < v[i])
  BY DEF SortedNames, SortFunc, s
<1>8. t \in Orders
  <2> HIDE DEF Orders, t
  <2> QED
    BY <1>6, <1>7
<1> HIDE DEF t, T, Orders
<1>9. t \in Seq(T) /\ ToSet(t) = T
  BY <1>1, <1>5, <1>8
<1>10. IsSequence(t)
  BY <1>9, SequenceOf
<1> QED
  BY <1>9, <1>10 DEF t, T

LEMMA PortsSorted ==
    ASSUME NEW c, PortsOK(world[c].ports), \A p \in world[c].ports : p.proto \in {"tcp", "udp"}
    PROVE  IsSequence(SortedPorts(c)) /\ ToSet(SortedPorts(c)) = world[c].ports
<1> DEFINE T == world[c].ports
           s == SetToSeq(T)
           R == {x \in T \X T : PortBefore(x[1], x[2])}
           Orders == {[i \in DOMAIN s |-> s[p[i]]] : p \in Bijection(DOMAIN s, DOMAIN s)}
           t == SortedPorts(c)
<1>0. IsFiniteSet(T) /\ \A p \in T : p.port \in Nat /\ p.proto \in {"tcp", "udp"}
  BY SelectorsAssumption DEF PortsOK, Ports
<1>1. s \in Seq(T) /\ ToSet(s) = T
  BY <1>0, SetToSeqHolds
<1>2. \A x, y \in T : <<x, y>> \in R <=> PortBefore(x, y)
  OBVIOUS
<1> HIDE DEF s
<1>3. WeakOrder(R, T)
  <2>1. \A x, y \in T : PortBefore(x, y) => ~PortBefore(y, x)
    BY <1>0 DEF PortBefore
  <2>2. \A x, y, z \in T : ~PortBefore(x, y) /\ ~PortBefore(y, z) => ~PortBefore(x, z)
    BY <1>0 DEF PortBefore
  <2> HIDE DEF R, T
  <2> QED
    BY <1>2, <2>1, <2>2 DEF WeakOrder
<1>4. PICK u \in Orders : \A i, j \in DOMAIN s : i < j => <<u[j], u[i]>> \notin R
  BY <1>1, <1>3, SortedBy
<1>5. ASSUME NEW v \in Orders
      PROVE  v \in Seq(T) /\ DOMAIN v = DOMAIN s /\ ToSet(v) = ToSet(s) /\ \A i \in DOMAIN s : v[i] \in T
  <2>1. PICK p \in Bijection(DOMAIN s, DOMAIN s) : v = [i \in DOMAIN s |-> s[p[i]]]
    OBVIOUS
  <2> HIDE DEF Orders, R, T
  <2>2. v \in Seq(T) /\ DOMAIN v = DOMAIN s /\ ToSet(v) = ToSet(s)
    BY <1>1, <2>1, ReorderedSame
  <2> QED
    BY <2>2
<1>6. \A i, j \in DOMAIN s : i < j => ~PortBefore(u[j], u[i])
  <2> HIDE DEF R, T, Orders
  <2> QED
    BY <1>2, <1>4, <1>5
<1>7. t = CHOOSE v \in Orders : \A i, j \in DOMAIN s : i < j => ~PortBefore(v[j], v[i])
  BY DEF SortedPorts, SortFunc, s
<1>8. t \in Orders
  <2> HIDE DEF Orders, t
  <2> QED
    BY <1>6, <1>7
<1> HIDE DEF t, T, Orders
<1>9. t \in Seq(T) /\ ToSet(t) = T
  BY <1>1, <1>5, <1>8
<1>10. IsSequence(t)
  BY <1>9, SequenceOf
<1> QED
  BY <1>9, <1>10 DEF t, T

-----------------------------------------------------------------------------
(* The first rule that matches decides *)

LEMMA DropsFirst ==
    ASSUME NEW s, NEW p, IsSequence(s)
    PROVE  Drops(s, p) <=> \E i \in 1..Len(s) : /\ Match(s[i], p) /\ s[i].drop
                                                /\ \A j \in 1..Len(s) : Match(s[j], p) => i <= j
<1> DEFINE I == {i \in 1..Len(s) : Match(s[i], p)}
           k == IF I # {} THEN Min(I) ELSE 0
<1>1. Len(s) \in Nat
  BY SequenceIs
<1>2. Drops(s, p) <=> k # 0 /\ s[k].drop
  BY DEF Drops, SelectInSeq
<1>3. I \subseteq Nat /\ \A i \in I : i # 0
  BY <1>1
<1>4. CASE I = {}
  BY <1>2, <1>4
<1>5. CASE I # {}
  <2>1. PICK x \in I : \A y \in I : x <= y
    BY <1>3, <1>5, LeastNat
  <2>2. k \in I /\ \A y \in I : k <= y
    <3>1. k = CHOOSE z \in I : \A y \in I : z <= y
      BY <1>5 DEF Min
    <3> HIDE DEF I, k
    <3> QED
      BY <2>1, <3>1
  <2> HIDE DEF k
  <2>3. \A i \in I : (\A y \in I : i <= y) => i = k
    BY <1>3, <2>2
  <2>4. k # 0
    BY <1>3, <2>2
  <2> QED
    BY <1>2, <2>2, <2>3, <2>4
<1> QED
  BY <1>4, <1>5

\* Behind rules that allow what they match stands one that drops everything.
LEMMA AllowsBeforeDrop ==
    ASSUME NEW s, NEW e, NEW p, IsSequence(s), e.drop, Match(e, p), \A r \in ToSet(s) : Match(r, p) => ~r.drop
    PROVE  Drops(Append(s, e), p) <=> ~\E r \in ToSet(s) : Match(r, p)
<1> DEFINE t == Append(s, e)
           n == Len(s)
<1>1. n \in Nat /\ ToSet(s) = {s[i] : i \in 1..n}
  BY SequenceIs
<1>2. IsSequence(t) /\ Len(t) = n + 1 /\ t[n + 1] = e /\ \A i \in 1..n : t[i] = s[i]
  <2> DEFINE T == ToSet(s) \cup {e}
  <2>1. s \in Seq(ToSet(s)) /\ ToSet(s) \subseteq T /\ e \in T
    BY DEF IsSequence
  <2> HIDE DEF T
  <2>2. s \in Seq(T)
    BY <2>1
  <2>3. t \in Seq(T) /\ Len(t) = n + 1 /\ t[n + 1] = e /\ \A i \in 1..n : t[i] = s[i]
    BY <2>1, <2>2
  <2> HIDE DEF t, n
  <2> QED
    BY <2>3, SequenceOf
<1> SUFFICES Drops(t, p) <=> ~\E r \in ToSet(s) : Match(r, p)
  OBVIOUS
<1> HIDE DEF t, n
<1>3. Drops(t, p) <=> \E i \in 1..(n + 1) : /\ Match(t[i], p) /\ t[i].drop
                                            /\ \A j \in 1..(n + 1) : Match(t[j], p) => i <= j
  BY <1>2, DropsFirst
<1>4. CASE \E r \in ToSet(s) : Match(r, p)
  <2>1. PICK k \in 1..n : Match(s[k], p)
    BY <1>1, <1>4
  <2>2. k \in 1..(n + 1) /\ Match(t[k], p) /\ ~(n + 1 <= k)
    BY <1>1, <1>2, <2>1
  <2>3. ASSUME NEW i \in 1..(n + 1), Match(t[i], p), t[i].drop, i <= k PROVE FALSE
    <3>1. i \in 1..n
      BY <1>1, <2>2, <2>3
    <3> QED
      BY <1>1, <1>2, <2>3, <3>1
  <2> QED
    BY <1>3, <1>4, <2>2, <2>3
<1>5. CASE ~\E r \in ToSet(s) : Match(r, p)
  <2>1. \A j \in 1..(n + 1) : Match(t[j], p) => n + 1 <= j
    <3>1. \A j \in 1..(n + 1) : j \in 1..n \/ n + 1 <= j
      BY <1>1
    <3> QED
      BY <1>1, <1>2, <1>5, <3>1
  <2>2. n + 1 \in 1..(n + 1)
    BY <1>1
  <2> QED
    BY <1>2, <1>3, <1>5, <2>1, <2>2
<1> QED
  BY <1>4, <1>5

\* Rules at the head that allow what they match settle it.
LEMMA HeadAllows ==
    ASSUME NEW s, NEW t, NEW p, IsSequence(s), IsSequence(t),
           \A r \in ToSet(s) : Match(r, p) => ~r.drop, \E r \in ToSet(s) : Match(r, p)
    PROVE  ~Drops(s \o t, p)
<1> DEFINE u == s \o t
<1>1. Len(s) \in Nat /\ ToSet(s) = {s[i] : i \in 1..Len(s)} /\ Len(t) \in Nat
  BY SequenceIs
<1>2. IsSequence(u) /\ Len(u) = Len(s) + Len(t) /\ \A i \in 1..Len(s) : u[i] = s[i]
  BY ConcatSequences
<1> HIDE DEF u
<1>3. PICK k \in 1..Len(s) : Match(s[k], p)
  BY <1>1
<1>4. k \in 1..Len(u) /\ Match(u[k], p)
  BY <1>1, <1>2, <1>3
<1>5. ASSUME NEW i \in 1..Len(u), Match(u[i], p), u[i].drop, i <= k PROVE FALSE
  <2>1. i \in 1..Len(s)
    BY <1>1, <1>2, <1>5
  <2> QED
    BY <1>1, <1>2, <1>5, <2>1
<1>6. ~Drops(u, p)
  BY <1>2, <1>4, <1>5, DropsFirst
<1> QED
  BY <1>6 DEF u

\* Where every rule drops, what matches one is dropped.
LEMMA AllDrop ==
    ASSUME NEW s, NEW p, IsSequence(s), \A r \in ToSet(s) : r.drop
    PROVE  Drops(s, p) <=> \E r \in ToSet(s) : Match(r, p)
<1> DEFINE I == {i \in 1..Len(s) : Match(s[i], p)}
<1>1. Len(s) \in Nat /\ ToSet(s) = {s[i] : i \in 1..Len(s)}
  BY SequenceIs
<1>2. ASSUME NEW r \in ToSet(s), Match(r, p) PROVE Drops(s, p)
  <2>1. I # {} /\ I \subseteq Nat
    BY <1>1, <1>2
  <2>2. PICK i \in I : \A j \in I : i <= j
    BY <2>1, LeastNat
  <2> QED
    BY <1>1, <2>2, DropsFirst
<1>3. Drops(s, p) => \E r \in ToSet(s) : Match(r, p)
  BY <1>1, DropsFirst
<1> QED
  BY <1>2, <1>3

\* Every element of A comes behind one of D.
Shielded(s, D, A) == \A i \in 1..Len(s) : s[i] \in A => \E j \in 1..Len(s) : j < i /\ s[j] \in D

LEMMA ShieldedConcat ==
    ASSUME NEW s, NEW t, NEW D, NEW A, IsSequence(s), IsSequence(t),
           Shielded(s, D, A), Shielded(t, D, A) \/ ToSet(s) \cap D # {}
    PROVE  Shielded(s \o t, D, A)
<1> DEFINE u == s \o t
           m == Len(s)
           n == Len(t)
<1>1. m \in Nat /\ n \in Nat /\ ToSet(s) = {s[i] : i \in 1..m}
  BY SequenceIs
<1>2. Len(u) = m + n /\ (\A i \in 1..m : u[i] = s[i]) /\ \A i \in 1..n : u[m + i] = t[i]
  BY ConcatSequences
<1> HIDE DEF u
<1>3. ASSUME NEW i \in 1..(m + n), u[i] \in A PROVE \E j \in 1..(m + n) : j < i /\ u[j] \in D
  <2>1. CASE i <= m
    <3>1. i \in 1..m /\ s[i] \in A
      BY <1>1, <1>2, <1>3, <2>1
    <3>2. PICK j \in 1..m : j < i /\ s[j] \in D
      BY <3>1 DEF Shielded
    <3>3. j \in 1..(m + n) /\ u[j] \in D
      BY <1>1, <1>2, <3>2
    <3> QED
      BY <3>2, <3>3
  <2>2. CASE i > m /\ ToSet(s) \cap D # {}
    <3>1. PICK j \in 1..m : s[j] \in D
      BY <1>1, <2>2
    <3>2. j \in 1..(m + n) /\ j < i /\ u[j] \in D
      BY <1>1, <1>2, <2>2, <3>1
    <3> QED
      BY <3>2
  <2>3. CASE i > m /\ Shielded(t, D, A)
    <3>1. i - m \in 1..n /\ m + (i - m) = i
      BY <1>1, <2>3
    <3>2. t[i - m] \in A
      BY <1>2, <1>3, <3>1
    <3>3. PICK j \in 1..n : j < i - m /\ t[j] \in D
      BY <2>3, <3>1, <3>2 DEF Shielded
    <3>4. m + j \in 1..(m + n) /\ m + j < i /\ u[m + j] \in D
      BY <1>1, <1>2, <3>1, <3>3
    <3> QED
      BY <3>4
  <2>4. i <= m \/ i > m
    BY <1>1
  <2> QED
    BY <2>1, <2>2, <2>3, <2>4
<1> QED
  BY <1>2, <1>3 DEF Shielded, u

LEMMA ShieldedEmpty ==
    ASSUME NEW s, NEW D, NEW A, IsSequence(s), ToSet(s) \cap A = {}
    PROVE  Shielded(s, D, A)
<1>1. ToSet(s) = {s[i] : i \in 1..Len(s)}
  BY SequenceIs
<1> QED
  BY <1>1 DEF Shielded

LEMMA ShieldedFlatten ==
    ASSUME NEW ss, NEW D, NEW A, IsSequence(ss), \A i \in DOMAIN ss : IsSequence(ss[i]) /\ Shielded(ss[i], D, A)
    PROVE  Shielded(FlattenSeq(ss), D, A)
<1> DEFINE n == Len(ss)
<1>1. n \in Nat /\ DOMAIN ss = 1..n
  BY SequenceIs
<1>2. PICK F : /\ F[0] = <<>> /\ FlattenSeq(ss) = F[Len(ss)]
               /\ \A k \in Nat : k + 1 <= n => F[k + 1] = F[k] \o ss[k + 1]
  BY FlattenFolds
<1> DEFINE S == {k \in Nat : k <= n => IsSequence(F[k]) /\ Shielded(F[k], D, A)}
<1> HIDE DEF n
<1>3. 0 \in S
  BY <1>2, EmptySequence, ShieldedEmpty
<1>4. ASSUME NEW k \in Nat, k \in S PROVE k + 1 \in S
  <2> SUFFICES ASSUME k + 1 <= n PROVE IsSequence(F[k + 1]) /\ Shielded(F[k + 1], D, A)
    OBVIOUS
  <2>1. IsSequence(F[k]) /\ Shielded(F[k], D, A)
    BY <1>1, <1>4
  <2>2. IsSequence(ss[k + 1]) /\ Shielded(ss[k + 1], D, A)
    BY <1>1
  <2>3. F[k + 1] = F[k] \o ss[k + 1]
    BY <1>2
  <2> QED
    BY <2>1, <2>2, <2>3, ConcatSequences, ShieldedConcat
<1>5. n \in S
  BY <1>1, <1>3, <1>4, SetInduction
<1> QED
  BY <1>1, <1>2, <1>5 DEF n

\* A filter that keeps D keeps the shield.
LEMMA ShieldedKept ==
    ASSUME NEW s, NEW K, NEW D, NEW A, IsSequence(s), Shielded(s, D, A), D \subseteq K
    PROVE  Shielded(Kept(s, K), D, A)
<1> DEFINE n == Len(s)
           ss == [i \in DOMAIN s |-> IF s[i] \in K THEN <<s[i]>> ELSE <<>>]
<1>1. n \in Nat /\ DOMAIN s = 1..n
  BY SequenceIs
<1>2. \A i \in DOMAIN s : IsSequence(ss[i]) /\ ToSet(ss[i]) = {s[i]} \cap K
  BY SingleSequence, EmptySequence
<1>3. IsSequence(ss) /\ DOMAIN ss = 1..n /\ Len(ss) = n
  <2> DEFINE T == {ss[i] : i \in DOMAIN s}
  <2>1. ss \in [1..n -> T]
    BY <1>1
  <2> HIDE DEF ss, T, n
  <2>2. ss \in Seq(T) /\ DOMAIN ss = 1..n /\ Len(ss) = n
    BY <1>1, <2>1
  <2> QED
    BY <2>2, SequenceOf
<1> HIDE DEF ss
<1>4. PICK F : /\ F[0] = <<>> /\ FlattenSeq(ss) = F[Len(ss)]
               /\ \A k \in Nat : k + 1 <= Len(ss) => F[k + 1] = F[k] \o ss[k + 1]
  BY <1>1, <1>2, <1>3, FlattenFolds
<1> DEFINE Q(k) == /\ IsSequence(F[k]) /\ Shielded(F[k], D, A)
                   /\ \A j \in 1..k : s[j] \in D => s[j] \in ToSet(F[k])
           S == {k \in Nat : k <= n => Q(k)}
<1> HIDE DEF n
<1>5. 0 \in S
  <2>1. 1..0 = {}
    OBVIOUS
  <2> QED
    BY <1>4, <2>1, EmptySequence, ShieldedEmpty
<1>6. ASSUME NEW k \in Nat, k \in S PROVE k + 1 \in S
  <2> SUFFICES ASSUME k + 1 <= n PROVE Q(k + 1)
    OBVIOUS
  <2>1. Q(k)
    BY <1>1, <1>6
  <2>2. k + 1 \in DOMAIN s /\ F[k + 1] = F[k] \o ss[k + 1]
    <3>1. k + 1 \in 1..n /\ k + 1 <= Len(ss)
      BY <1>1, <1>3
    <3>2. F[k + 1] = F[k] \o ss[k + 1]
      BY <1>4, <3>1
    <3> QED
      BY <1>1, <3>1, <3>2
  <2>3. IsSequence(ss[k + 1]) /\ ToSet(ss[k + 1]) = {s[k + 1]} \cap K
    BY <1>2, <2>2
  <2>4. IsSequence(F[k + 1]) /\ ToSet(F[k + 1]) = ToSet(F[k]) \cup ({s[k + 1]} \cap K)
    BY <2>1, <2>2, <2>3, ConcatSequences
  <2>5. Shielded(F[k + 1], D, A)
    <3>1. CASE s[k + 1] \in A
      <4>1. PICK j \in 1..n : j < k + 1 /\ s[j] \in D
        BY <1>1, <2>2, <3>1 DEF Shielded, n
      <4>2. j \in 1..k
        BY <1>1, <4>1
      <4>3. ToSet(F[k]) \cap D # {}
        BY <2>1, <4>1, <4>2
      <4> QED
        BY <2>1, <2>2, <2>3, <4>3, ShieldedConcat
    <3>2. CASE s[k + 1] \notin A
      <4>1. Shielded(ss[k + 1], D, A)
        BY <2>3, <3>2, ShieldedEmpty
      <4> QED
        BY <2>1, <2>2, <2>3, <4>1, ShieldedConcat
    <3> QED
      BY <3>1, <3>2
  <2>6. ASSUME NEW j \in 1..(k + 1), s[j] \in D PROVE s[j] \in ToSet(F[k + 1])
    <3>1. j \in 1..k \/ j = k + 1
      OBVIOUS
    <3> QED
      BY <2>1, <2>4, <2>6, <3>1
  <2> QED
    BY <2>4, <2>5, <2>6
<1>7. n \in S
  BY <1>1, <1>5, <1>6, SetInduction
<1>8. Shielded(F[n], D, A)
  BY <1>1, <1>7
<1> QED
  BY <1>3, <1>4, <1>8 DEF Kept, ss

\* When all that match stand behind one that drops, the packet is dropped.
LEMMA ShieldDrops ==
    ASSUME NEW s, NEW p, IsSequence(s),
           Shielded(s, {r \in ToSet(s) : Match(r, p) /\ r.drop}, {r \in ToSet(s) : Match(r, p) /\ ~r.drop}),
           \E r \in ToSet(s) : Match(r, p)
    PROVE  Drops(s, p)
<1> DEFINE I == {i \in 1..Len(s) : Match(s[i], p)}
<1>1. Len(s) \in Nat /\ ToSet(s) = {s[i] : i \in 1..Len(s)}
  BY SequenceIs
<1>2. I # {} /\ I \subseteq Nat
  BY <1>1
<1>3. PICK i \in I : \A j \in I : i <= j
  BY <1>2, LeastNat
<1>4. s[i].drop
  <2> SUFFICES ASSUME ~s[i].drop PROVE FALSE
    OBVIOUS
  <2>1. PICK j \in 1..Len(s) : j < i /\ s[j] \in {r \in ToSet(s) : Match(r, p) /\ r.drop}
    BY <1>1, <1>3 DEF Shielded
  <2>2. j \in I /\ ~(i <= j)
    BY <1>1, <2>1
  <2> QED
    BY <1>3, <2>2
<1> QED
  BY <1>1, <1>3, <1>4, DropsFirst

-----------------------------------------------------------------------------
(* What a rule matches *)

LEMMA Tops == AddrTop \in Nat /\ PortTop \in Nat
BY SelectorsAssumption

\* The expressions of createIPExprs and createPortExprs are exact.
LEMMA IPExprsExact ==
    ASSUME NEW s \in Lists(AddrTop)
    PROVE  Exact(s, createIPExprs(s), AddrTop)
BY Tops, ExprsExact DEF createIPExprs, mergeUint32Intervals

LEMMA PortExprsExact ==
    ASSUME NEW s \in Lists(PortTop)
    PROVE  Exact(s, createPortExprs(s), PortTop)
BY Tops, ExprsExact DEF createPortExprs, mergeUint16Intervals

LEMMA SingleList ==
    ASSUME NEW top \in Nat, NEW v \in 0..top
    PROVE  <<Single(v)>> \in Lists(top) /\ \A w \in 0..top : Selects(<<Single(v)>>, w) <=> w = v
<1>1. Single(v) \in Intervals(top) /\ Single(v).low = v /\ Single(v).high = v
  BY DEF Single, Intervals
<1> DEFINE s == <<Single(v)>>
<1>2. ToSet(s) = {Single(v)}
  BY SingleSequence
<1>3. s \in Seq(Intervals(top)) /\ s # <<>>
  BY <1>1
<1> HIDE DEF s
<1>4. s \in Lists(top)
  BY <1>1, <1>2, <1>3 DEF Lists
<1>5. ASSUME NEW w \in 0..top PROVE Selects(s, w) <=> w = v
  BY <1>1, <1>2, <1>3 DEF Selects
<1> QED
  BY <1>4, <1>5 DEF s

LEMMA EmptyList ==
    ASSUME NEW top
    PROVE  <<>> \in Lists(top) /\ \A v : Selects(<<>>, v)
<1>1. <<>> \in Seq(Intervals(top))
  OBVIOUS
<1> QED
  BY <1>1, EmptySequence DEF Lists, Selects

PacketOK(p) ==
    /\ p.src \in Addrs /\ p.dst \in Addrs /\ p.sport \in Ports /\ p.dport \in Ports
    /\ p.st \in {"new", "est"}

DetailsOK(rd) ==
    /\ rd.ips \in Lists(AddrTop) /\ rd.srcPorts \in Lists(PortTop) /\ rd.dstPorts \in Lists(PortTop)
    /\ rd.inbound \in BOOLEAN /\ rd.log \in BOOLEAN /\ rd.drop \in BOOLEAN

\* The packets of a connection's opener that the details of a rule are about.
Covers(rd, p) ==
    /\ rd.addr \in {NoAddr, IF rd.inbound THEN p.dst ELSE p.src}
    /\ Selects(rd.ips, IF rd.inbound THEN p.src ELSE p.dst)
    /\ rd.proto \in {Unset, p.proto}
    /\ Selects(rd.srcPorts, p.sport) /\ Selects(rd.dstPorts, p.dport)

LEMMA ReplyOK ==
    ASSUME NEW p, PacketOK(p)
    PROVE  /\ PacketOK(Reply(p)) /\ Reply(p).st = "est"
           /\ Reply(p).src = p.dst /\ Reply(p).dst = p.src /\ Reply(p).proto = p.proto
           /\ Reply(p).sport = p.dport /\ Reply(p).dport = p.sport
BY DEF PacketOK, Reply

LEMMA RuleMatches ==
    ASSUME NEW rd, DetailsOK(rd), NEW p, PacketOK(p), NEW inbound \in BOOLEAN, NEW inverse \in BOOLEAN,
           NEW state, NEW at, NEW tag
    PROVE  Match(createNFTRule(rd, inbound, inverse, state, at, tag), p) <=>
             /\ p.st \in state
             /\ rd.addr \in {NoAddr, IF inbound THEN p.dst ELSE p.src}
             /\ Selects(rd.ips, IF inbound THEN p.src ELSE p.dst)
             /\ rd.proto \in {Unset, p.proto}
             /\ Selects(rd.srcPorts, IF inverse THEN p.dport ELSE p.sport)
             /\ Selects(rd.dstPorts, IF inverse THEN p.sport ELSE p.dport)
<1> DEFINE r == createNFTRule(rd, inbound, inverse, state, at, tag)
           own == IF inbound THEN p.dst ELSE p.src
           remote == IF inbound THEN p.src ELSE p.dst
           sport == IF inverse THEN p.dport ELSE p.sport
           dport == IF inverse THEN p.sport ELSE p.dport
<1>1. /\ r.inbound = inbound /\ r.inverse = inverse /\ r.state = state /\ r.addr = rd.addr
      /\ r.ips = createIPExprs(rd.ips) /\ r.proto = rd.proto
      /\ r.srcPorts = createPortExprs(rd.srcPorts) /\ r.dstPorts = createPortExprs(rd.dstPorts)
  BY DEF createNFTRule
<1>2. remote \in 0..AddrTop /\ sport \in 0..PortTop /\ dport \in 0..PortTop
  BY DEF PacketOK, Addrs, Ports
<1>3. Matches(r.ips, remote) <=> Selects(rd.ips, remote)
  BY <1>1, <1>2, IPExprsExact DEF DetailsOK, Exact
<1>4. Matches(r.srcPorts, sport) <=> Selects(rd.srcPorts, sport)
  BY <1>1, <1>2, PortExprsExact DEF DetailsOK, Exact
<1>5. Matches(r.dstPorts, dport) <=> Selects(rd.dstPorts, dport)
  BY <1>1, <1>2, PortExprsExact DEF DetailsOK, Exact
<1> HIDE DEF r
<1>6. Match(r, p) <=> /\ p.st \in state /\ rd.addr \in {NoAddr, own} /\ Matches(r.ips, remote)
                      /\ rd.proto \in {Unset, p.proto} /\ Matches(r.srcPorts, sport) /\ Matches(r.dstPorts, dport)
  BY <1>1 DEF Match
<1> QED
  BY <1>3, <1>4, <1>5, <1>6 DEF r

Forward(rd, state, at, tag) == createNFTRule(rd, rd.inbound, FALSE, state, at, tag)
Backward(rd, estAt, estTag) == createNFTRule(rd, ~rd.inbound, TRUE, {"est"}, estAt, estTag)

LEMMA ForwardMatches ==
    ASSUME NEW rd, DetailsOK(rd), NEW p, PacketOK(p), NEW state, NEW at, NEW tag
    PROVE  Match(Forward(rd, state, at, tag), p) <=> p.st \in state /\ Covers(rd, p)
<1>1. rd.inbound \in BOOLEAN
  BY DEF DetailsOK
<1> QED
  BY <1>1, RuleMatches DEF Forward, Covers

LEMMA BackwardMatches ==
    ASSUME NEW rd, DetailsOK(rd), NEW p, PacketOK(p), NEW estAt, NEW estTag
    PROVE  Match(Backward(rd, estAt, estTag), p) <=> p.st = "est" /\ Covers(rd, Reply(p))
<1>1. rd.inbound \in BOOLEAN /\ (~rd.inbound) \in BOOLEAN
  BY DEF DetailsOK
<1> DEFINE i == ~rd.inbound
<1>2. Match(createNFTRule(rd, i, TRUE, {"est"}, estAt, estTag), p) <=>
             /\ p.st \in {"est"}
             /\ rd.addr \in {NoAddr, IF i THEN p.dst ELSE p.src}
             /\ Selects(rd.ips, IF i THEN p.src ELSE p.dst)
             /\ rd.proto \in {Unset, p.proto}
             /\ Selects(rd.srcPorts, p.dport)
             /\ Selects(rd.dstPorts, p.sport)
  <2> HIDE DEF i
  <2>1. i \in BOOLEAN
    BY <1>1 DEF i
  <2> QED
    BY <2>1, RuleMatches
<1>3. (IF i THEN p.dst ELSE p.src) = (IF rd.inbound THEN p.src ELSE p.dst)
  BY <1>1
<1>4. (IF i THEN p.src ELSE p.dst) = (IF rd.inbound THEN p.dst ELSE p.src)
  BY <1>1
<1> QED
  BY <1>2, <1>3, <1>4, ReplyOK DEF Backward, Covers

\* The rules of createNFTRules: forward ones, and one for replies if they allow.
LEMMA RulesAre ==
    ASSUME NEW rd, DetailsOK(rd), NEW at, NEW tag, NEW estAt, NEW estTag
    PROVE  LET rules == createNFTRules(rd, at, tag, estAt, estTag) IN
           /\ IsSequence(rules)
           /\ ToSet(rules) =
                IF rd.drop THEN {Forward(rd, {"new"}, at, tag)}
                ELSE (IF rd.log THEN {Forward(rd, {"new"}, at, tag), Forward(rd, {"est"}, at, tag)}
                                ELSE {Forward(rd, {"new", "est"}, at, tag)})
                     \cup {Backward(rd, estAt, estTag)}
<1> DEFINE n == Forward(rd, {"new"}, at, tag)
           e == Forward(rd, {"est"}, at, tag)
           b == Forward(rd, {"new", "est"}, at, tag)
           r == Backward(rd, estAt, estTag)
           rules == createNFTRules(rd, at, tag, estAt, estTag)
<1>1. rules = IF rd.drop THEN <<n>> ELSE (IF rd.log THEN <<n, e>> ELSE <<b>>) \o <<r>>
  BY DEF createNFTRules, Forward, Backward
<1> HIDE DEF n, e, b, r, rules
<1>2. IsSequence(<<n>>) /\ ToSet(<<n>>) = {n}
  BY SingleSequence
<1>3. IsSequence(<<n, e>> \o <<r>>) /\ ToSet(<<n, e>> \o <<r>>) = {n, e} \cup {r}
  <2>2. IsSequence(<<n, e>>) /\ ToSet(<<n, e>>) = {n, e}
    BY PairSequence
  <2> QED
    BY <2>2, SingleSequence, ConcatSequences
<1>4. IsSequence(<<b>> \o <<r>>) /\ ToSet(<<b>> \o <<r>>) = {b} \cup {r}
  BY SingleSequence, ConcatSequences
<1> QED
  BY <1>1, <1>2, <1>3, <1>4 DEF n, e, b, r, rules

\* A rule of s for the chain x matches p.
Hits(s, x, p) == \E r \in ToSet(s) : r.chain = x /\ Match(r, p)

\* What the rules of createNFTRules hit.
LEMMA RulesHit ==
    ASSUME NEW rd, DetailsOK(rd), NEW at, NEW tag, NEW estAt, NEW estTag, NEW p, PacketOK(p), NEW x
    PROVE  Hits(createNFTRules(rd, at, tag, estAt, estTag), x, p) <=>
             IF rd.drop THEN x = at /\ p.st = "new" /\ Covers(rd, p)
             ELSE \/ x = at /\ Covers(rd, p)
                  \/ x = estAt /\ p.st = "est" /\ Covers(rd, Reply(p))
<1> DEFINE rules == createNFTRules(rd, at, tag, estAt, estTag)
           N == Forward(rd, {"new"}, at, tag)
           E == Forward(rd, {"est"}, at, tag)
           B == Forward(rd, {"new", "est"}, at, tag)
           R == Backward(rd, estAt, estTag)
<1>1. ToSet(rules) = IF rd.drop THEN {N} ELSE (IF rd.log THEN {N, E} ELSE {B}) \cup {R}
  BY RulesAre
<1>2. N.chain = at /\ E.chain = at /\ B.chain = at /\ R.chain = estAt
  BY DEF Forward, Backward, createNFTRule
<1>3. /\ Match(N, p) <=> p.st = "new" /\ Covers(rd, p)
      /\ Match(E, p) <=> p.st = "est" /\ Covers(rd, p)
      /\ Match(B, p) <=> Covers(rd, p)
      /\ Match(R, p) <=> p.st = "est" /\ Covers(rd, Reply(p))
  <2>1. Match(N, p) <=> p.st \in {"new"} /\ Covers(rd, p)
    BY ForwardMatches
  <2>2. Match(E, p) <=> p.st \in {"est"} /\ Covers(rd, p)
    BY ForwardMatches
  <2>3. Match(B, p) <=> p.st \in {"new", "est"} /\ Covers(rd, p)
    BY ForwardMatches
  <2>4. Match(R, p) <=> p.st = "est" /\ Covers(rd, Reply(p))
    BY BackwardMatches
  <2> QED
    BY <2>1, <2>2, <2>3, <2>4 DEF PacketOK
<1>4. p.st \in {"new", "est"}
  BY DEF PacketOK
<1> HIDE DEF rules, N, E, B, R
<1>5. Hits(rules, x, p) <=> IF rd.drop THEN x = at /\ p.st = "new" /\ Covers(rd, p)
                            ELSE \/ x = at /\ Covers(rd, p)
                                 \/ x = estAt /\ p.st = "est" /\ Covers(rd, Reply(p))
  <2>1. CASE rd.drop
    <3>1. ToSet(rules) = {N}
      BY <1>1, <2>1
    <3> QED
      BY <1>2, <1>3, <2>1, <3>1 DEF Hits
  <2>2. CASE ~rd.drop /\ rd.log
    <3>1. ToSet(rules) = {N, E, R}
      BY <1>1, <2>2
    <3> QED
      BY <1>2, <1>3, <1>4, <2>2, <3>1 DEF Hits
  <2>3. CASE ~rd.drop /\ ~rd.log
    <3>1. ToSet(rules) = {B, R}
      BY <1>1, <2>3
    <3> QED
      BY <1>2, <1>3, <2>3, <3>1 DEF Hits
  <2> QED
    BY <2>1, <2>2, <2>3
<1> QED
  BY <1>5 DEF rules

LEMMA RulesHaveChains ==
    ASSUME NEW rd, DetailsOK(rd), NEW at, NEW tag, NEW estAt, NEW estTag,
           NEW r \in ToSet(createNFTRules(rd, at, tag, estAt, estTag))
    PROVE  /\ r.drop = rd.drop /\ r.proto = rd.proto /\ r.dstPorts = createPortExprs(rd.dstPorts)
           /\ \/ /\ ~r.inverse /\ r.chain = at /\ r.tag = tag
                 /\ r.addr = rd.addr /\ r.ips = createIPExprs(rd.ips)
              \/ ~rd.drop /\ r.inverse /\ r.chain = estAt /\ r.tag = estTag
<1>1. \/ \E state : r = Forward(rd, state, at, tag)
      \/ ~rd.drop /\ r = Backward(rd, estAt, estTag)
  BY RulesAre
<1> QED
  BY <1>1 DEF Forward, Backward, createNFTRule

LEMMA RulesHaveBoth ==
    ASSUME NEW rd, DetailsOK(rd), ~rd.drop, NEW at, NEW tag, NEW estAt, NEW estTag
    PROVE  LET rules == createNFTRules(rd, at, tag, estAt, estTag) IN
           /\ \E r \in ToSet(rules) : ~r.inverse /\ r.chain = at /\ r.tag = tag
           /\ \E r \in ToSet(rules) : r.inverse /\ r.chain = estAt /\ r.tag = estTag
<1> DEFINE rules == createNFTRules(rd, at, tag, estAt, estTag)
<1>1. /\ \E state : Forward(rd, state, at, tag) \in ToSet(rules)
      /\ Backward(rd, estAt, estTag) \in ToSet(rules)
  BY RulesAre
<1>2. \A state : LET f == Forward(rd, state, at, tag) IN ~f.inverse /\ f.chain = at /\ f.tag = tag
  BY DEF Forward, createNFTRule
<1>3. LET b == Backward(rd, estAt, estTag) IN b.inverse /\ b.chain = estAt /\ b.tag = estTag
  BY DEF Backward, createNFTRule
<1> HIDE DEF rules
<1>4. \E r \in ToSet(rules) : ~r.inverse /\ r.chain = at /\ r.tag = tag
  BY <1>1, <1>2
<1>5. \E r \in ToSet(rules) : r.inverse /\ r.chain = estAt /\ r.tag = estTag
  BY <1>1, <1>3
<1> QED
  BY <1>4, <1>5 DEF rules

\* The drop at the end of a chain matches everything.
LEMMA DropMatches ==
    ASSUME NEW c, NEW p, PacketOK(p)
    PROVE  Match(createDropRule(c), p) /\ createDropRule(c).drop
BY DEF Match, createDropRule, PacketOK, Matches, Anything

-----------------------------------------------------------------------------
(* The networks that a policy manages *)

IsFunction(f) == f = [x \in DOMAIN f |-> f[x]]

LEMMA EmptyFunction ==
    ASSUME NEW f, IsFunction(f), f # <<>>
    PROVE  DOMAIN f # {}
<1> SUFFICES ASSUME DOMAIN f = {} PROVE FALSE
  OBVIOUS
<1> DEFINE e == <<>>
<1>1. e = [x \in {} |-> f[x]]
  OBVIOUS
<1> QED
  BY <1>1 DEF IsFunction

LEMMA ScopeFacts ==
    ASSUME NEW label, NEW project, NEW attached, label = AllNetworks \/ IsSequence(label),
           IsFunction(attached), NoNet \notin DOMAIN attached
    PROVE  LET r == resolveManagedNetworks(label, project, attached)
               s == policyScope(label, project, attached)
               v == resolveValidManagedNetworks(label, project, attached)
           IN  /\ v.err <=> s.err
               /\ ~s.err => /\ v.nets = s.nets /\ ~scopeError(r, attached) /\ DOMAIN s.nets # {}
                            /\ Usable(s.nets) = DOMAIN s.nets /\ \A n \in DOMAIN s.nets : ~s.nets[n].ipv6
               /\ ~scopeError(r, attached) /\ DOMAIN s.nets # {} /\ Usable(s.nets) = DOMAIN s.nets
                    /\ (\A n \in DOMAIN s.nets : ~s.nets[n].ipv6) => ~s.err
               /\ s.nets = IF scopeError(r, attached) THEN attached ELSE r.nets
               /\ DOMAIN s.nets \subseteq DOMAIN attached /\ \A n \in DOMAIN s.nets : s.nets[n] = attached[n]
               /\ s.addrs = [n \in Usable(s.nets) |-> s.nets[n].addr]
               /\ s.explicit <=> label # AllNetworks
               /\ IsFunction(s.nets)
<1> DEFINE r == resolveManagedNetworks(label, project, attached)
           s == policyScope(label, project, attached)
           v == resolveValidManagedNetworks(label, project, attached)
           wrong == scopeError(r, attached)
           actual == [i \in DOMAIN label |-> findNetwork(label[i], project, attached)]
<1>1. r.explicit <=> label # AllNetworks
  BY DEF resolveManagedNetworks
<1>2. ~wrong => /\ IsFunction(r.nets) /\ DOMAIN r.nets \subseteq DOMAIN attached
                /\ \A n \in DOMAIN r.nets : r.nets[n] = attached[n]
  <2>1. CASE label = AllNetworks
    BY <2>1 DEF resolveManagedNetworks
  <2>2. CASE label # AllNetworks /\ ~r.err
    <3>1. r.nets = Restrict(attached, ToSet(actual)) /\ \A i \in DOMAIN label : ~BadEntry(label, actual, attached, i)
      BY <2>2 DEF resolveManagedNetworks
    <3>2. \A i \in DOMAIN label : actual[i] # NoNet
      BY <3>1 DEF BadEntry
    <3>3. \A i \in DOMAIN label : actual[i] \in DOMAIN attached
      BY <3>2 DEF findNetwork
    <3>4. ToSet(actual) \subseteq DOMAIN attached
      BY <3>3 DEF ToSet
    <3> QED
      BY <3>1, <3>4 DEF Restrict, IsFunction
  <2>3. wrong \/ ~r.err
    BY DEF scopeError
  <2> QED
    BY <2>1, <2>2, <2>3
<1>3. /\ s.nets = IF wrong THEN attached ELSE r.nets
      /\ s.addrs = [n \in Usable(s.nets) |-> s.nets[n].addr]
      /\ s.explicit = r.explicit
      /\ s.err <=> wrong \/ s.nets = <<>> \/ \E n \in DOMAIN s.nets : n \notin Usable(s.nets) \/ s.nets[n].ipv6
  BY DEF policyScope, Managing, collectManagedIPv4Addresses
<1>4. /\ v.nets = r.nets
      /\ v.err <=> wrong \/ r.nets = <<>> \/ \E n \in DOMAIN r.nets : n \notin Usable(r.nets) \/ r.nets[n].ipv6
  <2>1. r = [nets |-> r.nets, explicit |-> r.explicit, err |-> r.err]
    BY DEF resolveManagedNetworks
  <2>2. v = [r EXCEPT !.err = wrong \/ r.nets = <<>> \/ collectManagedIPv4Addresses(r.nets).err]
    BY DEF resolveValidManagedNetworks
  <2> HIDE DEF r, v, wrong
  <2>3. /\ v.nets = r.nets
        /\ v.err = (wrong \/ r.nets = <<>> \/ collectManagedIPv4Addresses(r.nets).err)
    BY <2>1, <2>2
  <2> QED
    BY <2>3 DEF collectManagedIPv4Addresses
<1> HIDE DEF r, s, v, wrong
<1>5. IsFunction(s.nets) /\ DOMAIN s.nets \subseteq DOMAIN attached /\ \A n \in DOMAIN s.nets : s.nets[n] = attached[n]
  BY <1>2, <1>3
<1>6. Usable(s.nets) \subseteq DOMAIN s.nets
  BY DEF Usable
<1>7. v.err <=> s.err
  BY <1>3, <1>4
<1>8. ~s.err => /\ v.nets = s.nets /\ ~wrong /\ DOMAIN s.nets # {}
                /\ Usable(s.nets) = DOMAIN s.nets /\ \A n \in DOMAIN s.nets : ~s.nets[n].ipv6
  BY <1>3, <1>4, <1>5, <1>6, EmptyFunction
<1>9. ~wrong /\ DOMAIN s.nets # {} /\ Usable(s.nets) = DOMAIN s.nets
         /\ (\A n \in DOMAIN s.nets : ~s.nets[n].ipv6) => ~s.err
  <2>1. DOMAIN s.nets # {} => s.nets # <<>>
    <3>1. DOMAIN <<>> = {}
      OBVIOUS
    <3> QED
      BY <3>1
  <2> QED
    BY <1>3, <2>1
<1> QED
  BY <1>1, <1>3, <1>5, <1>7, <1>8, <1>9 DEF r, s, v, wrong

LEMMA CountsInjective ==
    ASSUME NEW n \in Nat, NEW f, DOMAIN f = 1..n, IsFunction(f)
    PROVE  Cardinality({f[i] : i \in 1..n}) = n <=> \A i, j \in 1..n : f[i] = f[j] => i = j
<1> DEFINE S == 1..n
           T == {f[i] : i \in S}
<1>1. IsFiniteSet(S) /\ Cardinality(S) = n
  BY FS_Interval
<1>2. f \in [S -> T] /\ \A t \in T : \E i \in S : f[i] = t
  BY DEF IsFunction
<1>3. f \in Surjection(S, T)
  BY <1>2 DEF Surjection
<1>4. f \in Injection(S, T) <=> \A i, j \in S : f[i] = f[j] => i = j
  BY <1>2 DEF Injection, IsInjective
<1>5. Cardinality(T) = Cardinality(S) <=> f \in Injection(S, T)
  <2> HIDE DEF S, T
  <2> QED
    BY <1>1, <1>3, FS_Surjection
<1> QED
  BY <1>1, <1>4, <1>5

\* Two entries of a label can be told apart.
LEMMA EntriesApart ==
    ASSUME NEW label, NEW nets, NEW actual, IsSequence(label), DOMAIN actual = DOMAIN label,
           \A i \in DOMAIN label : nets[actual[i]] # NoEndpoint,
           \A i, j \in DOMAIN label : label[i] = label[j] => actual[i] = actual[j]
    PROVE  (\A i \in DOMAIN label : \A j \in 1..(i - 1) :
               ~(\/ label[j] = label[i] \/ actual[j] = actual[i]
                 \/ nets[actual[i]].id # NoNetID /\ nets[actual[j]].id = nets[actual[i]].id))
           <=> \A i, j \in DOMAIN label :
                 networkEndpointIdentity(actual[i], nets[actual[i]]) = networkEndpointIdentity(actual[j], nets[actual[j]]) => i = j
<1> DEFINE Id(i) == networkEndpointIdentity(actual[i], nets[actual[i]])
           Same(j, i) == \/ label[j] = label[i] \/ actual[j] = actual[i]
                         \/ nets[actual[i]].id # NoNetID /\ nets[actual[j]].id = nets[actual[i]].id
<1>1. Len(label) \in Nat /\ DOMAIN label = 1..Len(label)
  BY SequenceIs
<1>2. \A i, j \in DOMAIN label : Id(i) = Id(j) <=> Same(j, i)
  <2> SUFFICES ASSUME NEW i \in DOMAIN label, NEW j \in DOMAIN label PROVE Id(i) = Id(j) <=> Same(j, i)
    OBVIOUS
  <2>1. /\ Id(i) = IF nets[actual[i]].id # NoNetID THEN <<"id", nets[actual[i]].id>> ELSE <<"name", actual[i]>>
        /\ Id(j) = IF nets[actual[j]].id # NoNetID THEN <<"id", nets[actual[j]].id>> ELSE <<"name", actual[j]>>
    BY DEF networkEndpointIdentity
  <2>2. /\ \A x, y : <<"id", x>> # <<"name", y>>
        /\ \A x, y : <<"id", x>> = <<"id", y>> <=> x = y
        /\ \A x, y : <<"name", x>> = <<"name", y>> <=> x = y
    OBVIOUS
  <2> HIDE DEF Id
  <2>3. label[j] = label[i] => actual[j] = actual[i]
    OBVIOUS
  <2>4. CASE nets[actual[i]].id = NoNetID /\ nets[actual[j]].id = NoNetID
    BY <2>1, <2>2, <2>3, <2>4
  <2>5. CASE nets[actual[i]].id # NoNetID /\ nets[actual[j]].id # NoNetID
    BY <2>1, <2>2, <2>3, <2>5
  <2>6. CASE nets[actual[i]].id = NoNetID /\ nets[actual[j]].id # NoNetID
    <3>1. Id(i) = <<"name", actual[i]>> /\ Id(j) = <<"id", nets[actual[j]].id>>
      BY <2>1, <2>6
    <3>2. Id(i) # Id(j) /\ actual[j] # actual[i]
      BY <2>2, <2>6, <3>1
    <3> QED
      BY <2>3, <2>6, <3>2
  <2>7. CASE nets[actual[i]].id # NoNetID /\ nets[actual[j]].id = NoNetID
    <3>1. Id(j) = <<"name", actual[j]>> /\ Id(i) = <<"id", nets[actual[i]].id>>
      BY <2>1, <2>7
    <3>2. Id(i) # Id(j) /\ actual[j] # actual[i]
      BY <2>2, <2>7, <3>1
    <3> QED
      BY <2>3, <2>7, <3>2
  <2> QED
    BY <2>4, <2>5, <2>6, <2>7
<1> HIDE DEF Id, Same
<1>3. ASSUME \A i \in DOMAIN label : \A j \in 1..(i - 1) : ~Same(j, i),
             NEW i \in DOMAIN label, NEW j \in DOMAIN label, Id(i) = Id(j)
      PROVE  i = j
  <2>1. i \in Nat /\ j \in Nat /\ i >= 1 /\ j >= 1
    BY <1>1
  <2>2. Same(j, i) /\ Same(i, j)
    BY <1>2, <1>3
  <2>3. ~(j < i)
    <3>1. j < i => j \in 1..(i - 1)
      BY <2>1
    <3> QED
      BY <1>3, <2>2, <3>1
  <2>4. ~(i < j)
    <3>1. i < j => i \in 1..(j - 1)
      BY <2>1
    <3> QED
      BY <1>3, <2>2, <3>1
  <2> QED
    BY <2>1, <2>3, <2>4
<1>4. ASSUME \A i, j \in DOMAIN label : Id(i) = Id(j) => i = j,
             NEW i \in DOMAIN label, NEW j \in 1..(i - 1)
      PROVE  ~Same(j, i)
  <2>1. j \in DOMAIN label /\ i # j
    BY <1>1
  <2> QED
    BY <1>2, <1>4, <2>1
<1> QED
  BY <1>3, <1>4 DEF Id, Same

\* The label can be honoured if and only if the scope of the policy is not in error.
LEMMA HonourableIs ==
    ASSUME NEW c, ContainerOK(world[c])
    PROVE  LET s == policyScope(world[c].scope, Project(c), world[c].nets) IN
           /\ Honourable(c) <=> ~s.err
           /\ world[c].scope # AllNetworks /\ ~s.err =>
                DOMAIN s.nets = {findNetwork(world[c].scope[i], Project(c), world[c].nets) : i \in DOMAIN world[c].scope}
<1> DEFINE label == world[c].scope
           nets == world[c].nets
           project == Project(c)
           r == resolveManagedNetworks(label, project, nets)
           s == policyScope(label, project, nets)
           wrong == scopeError(r, nets)
           actual == [i \in DOMAIN label |-> findNetwork(label[i], project, nets)]
           Identity(n) == networkEndpointIdentity(n, nets[n])
<1>0. NoNet \notin Nat
  BY ConstantsAssumption
<1>1. /\ label = AllNetworks \/ IsSequence(label)
      /\ IsFunction(nets) /\ NoNet \notin DOMAIN nets
  BY <1>0 DEF ContainerOK, IsFunction
<1>2. /\ ~s.err => /\ ~wrong /\ DOMAIN s.nets # {}
                   /\ Usable(s.nets) = DOMAIN s.nets /\ \A n \in DOMAIN s.nets : ~s.nets[n].ipv6
      /\ ~wrong /\ DOMAIN s.nets # {} /\ Usable(s.nets) = DOMAIN s.nets
            /\ (\A n \in DOMAIN s.nets : ~s.nets[n].ipv6) => ~s.err
      /\ s.nets = IF wrong THEN nets ELSE r.nets
      /\ DOMAIN s.nets \subseteq DOMAIN nets /\ \A n \in DOMAIN s.nets : s.nets[n] = nets[n]
  <2> HIDE DEF label, project, nets
  <2> QED
    BY <1>1, ScopeFacts
<1>3. /\ \A n \in DOMAIN s.nets : n \in Usable(s.nets) <=> n \in Usable(nets)
      /\ Usable(s.nets) \subseteq DOMAIN s.nets /\ Usable(nets) \subseteq DOMAIN nets
  BY <1>2 DEF Usable
<1>4. CASE label = AllNetworks
  <2>1. ~wrong /\ r.nets = nets
    BY <1>4 DEF resolveManagedNetworks, scopeError
  <2>2. Honourable(c) <=> DOMAIN nets # {} /\ DOMAIN nets \subseteq Usable(nets) /\ \A n \in DOMAIN nets : ~nets[n].ipv6
    BY <1>4 DEF Honourable
  <2> HIDE DEF s, r, wrong, nets
  <2>3. Honourable(c) <=> ~s.err
    BY <1>2, <1>3, <2>1, <2>2
  <2> QED
    BY <1>4, <2>3 DEF s, nets
<1>5. CASE label # AllNetworks
  <2> DEFINE named == {findNetwork(label[i], project, nets) : i \in DOMAIN label}
             ids == [i \in DOMAIN label |-> Identity(actual[i])]
             Repeated(i) == \E j \in 1..(i - 1) :
                \/ label[j] = label[i] \/ actual[j] = actual[i]
                \/ nets[actual[i]].id # NoNetID /\ nets[actual[j]].id = nets[actual[i]].id
             distinct == \A i, j \in DOMAIN label : Identity(actual[i]) = Identity(actual[j]) => i = j
             clash == validateScopedAddressUniqueness(r.nets, nets)
  <2>1. /\ r.explicit /\ r.err = \E i \in DOMAIN label : BadEntry(label, actual, nets, i)
        /\ ~r.err => r.nets = Restrict(nets, ToSet(actual))
    BY <1>5 DEF resolveManagedNetworks
  <2>2. named = ToSet(actual) /\ ToSet(actual) = {actual[i] : i \in DOMAIN label}
    BY DEF ToSet
  <2>3. /\ \A i \in DOMAIN label : actual[i] \in DOMAIN nets \/ actual[i] = NoNet
        /\ \A i, j \in DOMAIN label : label[i] = label[j] => actual[i] = actual[j]
    BY DEF findNetwork
  <2>4. \A i \in DOMAIN label : BadEntry(label, actual, nets, i) <=>
           label[i] = Blank \/ actual[i] \in {NoNet, HostNet} \/ nets[actual[i]] = NoEndpoint \/ Repeated(i)
    BY DEF BadEntry
  <2>5. Len(label) \in Nat /\ DOMAIN label = 1..Len(label) /\ ToSet(label) = {label[i] : i \in DOMAIN label}
    BY <1>1, <1>5, SequenceIs DEF ToSet
  <2>6. (\A i \in DOMAIN label : nets[actual[i]] # NoEndpoint) =>
           (distinct <=> \A i \in DOMAIN label : ~Repeated(i))
    <3>1. DOMAIN actual = DOMAIN label
      OBVIOUS
    <3> HIDE DEF actual, nets, label
    <3> QED
      BY <1>1, <1>5, <2>3, <3>1, EntriesApart DEF label
  <2>7. {Identity(n) : n \in named} = {ids[i] : i \in DOMAIN label}
    <3>1. \A i \in DOMAIN label : ids[i] = Identity(actual[i])
      OBVIOUS
    <3> HIDE DEF ids, actual, named, nets, label, Identity
    <3> QED
      BY <2>2, <3>1
  <2>8. Cardinality({Identity(n) : n \in named}) = Len(label) <=> distinct
    <3>1. DOMAIN ids = 1..Len(label) /\ IsFunction(ids)
      BY <2>5 DEF IsFunction
    <3>2. \A i \in DOMAIN label : ids[i] = Identity(actual[i])
      OBVIOUS
    <3> HIDE DEF ids, actual, named, nets
    <3>3. Cardinality({ids[i] : i \in 1..Len(label)}) = Len(label) <=> \A i, j \in 1..Len(label) : ids[i] = ids[j] => i = j
      BY <2>5, <3>1, CountsInjective
    <3>4. distinct <=> \A i, j \in 1..Len(label) : ids[i] = ids[j] => i = j
      BY <2>5, <3>2
    <3> HIDE DEF distinct
    <3> QED
      BY <2>5, <2>7, <3>3, <3>4
  <2>9. Honourable(c) <=>
          /\ named # {} /\ named \subseteq Usable(nets) /\ \A n \in named : ~nets[n].ipv6
          /\ HostNet \notin named /\ Blank \notin ToSet(label) /\ distinct
          /\ \A n \in named, m \in Usable(nets) : nets[n].addr = nets[m].addr => Identity(n) = Identity(m)
    <3>1. Honourable(c) <=>
            /\ named # {} /\ named \subseteq Usable(nets) /\ \A n \in named : ~nets[n].ipv6
            /\ HostNet \notin named /\ Blank \notin ToSet(label)
            /\ Cardinality({Identity(n) : n \in named}) = Len(label)
            /\ \A n \in named, m \in Usable(nets) : nets[n].addr = nets[m].addr => Identity(n) = Identity(m)
      BY <1>5 DEF Honourable
    <3> HIDE DEF named, distinct
    <3> QED
      BY <2>8, <3>1
  <2>10. wrong <=> r.err \/ clash \/ \E n \in DOMAIN r.nets : n \notin Usable(r.nets) \/ r.nets[n].ipv6
    BY <2>1 DEF scopeError, collectManagedIPv4Addresses
  <2>11. clash <=> \E m \in Usable(r.nets), n \in Usable(nets) :
            nets[n].addr = r.nets[m].addr /\ Identity(n) # networkEndpointIdentity(m, r.nets[m])
    BY DEF validateScopedAddressUniqueness
  <2>12. ~r.err => DOMAIN r.nets = named /\ \A n \in named : r.nets[n] = nets[n]
    BY <2>1, <2>2 DEF Restrict
  <2>13. ~r.err => Usable(r.nets) = named \cap {n \in named : nets[n] # NoEndpoint /\ nets[n].addr # NoAddr}
    BY <2>12 DEF Usable
  <2>14. \A n \in named : n \in DOMAIN nets => (n \in Usable(nets) <=> nets[n] # NoEndpoint /\ nets[n].addr # NoAddr)
    BY DEF Usable
  <2> HIDE DEF r, s, wrong, actual, named, clash, distinct, nets, label, Repeated, Identity
  <2>15. r.err <=> \E i \in DOMAIN label :
           label[i] = Blank \/ actual[i] \in {NoNet, HostNet} \/ nets[actual[i]] = NoEndpoint \/ Repeated(i)
    BY <2>1, <2>4
  <2>16. ASSUME ~s.err PROVE Honourable(c) /\ DOMAIN s.nets = named
    <3>1. ~wrong /\ ~r.err /\ ~clash
      BY <1>2, <2>10, <2>16
    <3>2. s.nets = r.nets /\ DOMAIN s.nets = named
      BY <1>2, <2>12, <3>1
    <3>3. named # {} /\ named \subseteq Usable(nets) /\ \A n \in named : ~nets[n].ipv6
      BY <1>2, <1>3, <2>16, <3>2
    <3>4. /\ \A i \in DOMAIN label : label[i] # Blank /\ actual[i] # HostNet /\ nets[actual[i]] # NoEndpoint /\ ~Repeated(i)
      BY <2>15, <3>1
    <3>5. distinct /\ HostNet \notin named /\ Blank \notin ToSet(label)
      BY <2>2, <2>5, <2>6, <3>4
    <3>6. \A n \in named, m \in Usable(nets) : nets[n].addr = nets[m].addr => Identity(n) = Identity(m)
      BY <1>2, <2>11, <2>12, <2>16, <3>1, <3>2 DEF Identity
    <3> QED
      BY <2>9, <3>2, <3>3, <3>5, <3>6
  <2>17. ASSUME Honourable(c) PROVE ~s.err
    <3>1. /\ named # {} /\ named \subseteq Usable(nets) /\ \A n \in named : ~nets[n].ipv6
          /\ HostNet \notin named /\ Blank \notin ToSet(label) /\ distinct
          /\ \A n \in named, m \in Usable(nets) : nets[n].addr = nets[m].addr => Identity(n) = Identity(m)
      BY <2>9, <2>17
    <3>2. \A i \in DOMAIN label : actual[i] \in named /\ actual[i] \in DOMAIN nets /\ label[i] # Blank
      BY <1>3, <2>2, <2>5, <3>1
    <3>3. \A i \in DOMAIN label : nets[actual[i]] # NoEndpoint /\ actual[i] \notin {NoNet, HostNet}
      BY <1>1, <2>14, <3>1, <3>2 DEF nets
    <3>4. \A i \in DOMAIN label : ~Repeated(i)
      BY <2>6, <3>1, <3>3
    <3>5. ~r.err
      BY <2>15, <3>2, <3>3, <3>4
    <3>6. Usable(r.nets) = named /\ DOMAIN r.nets = named /\ \A n \in named : r.nets[n] = nets[n]
      BY <1>3, <2>12, <2>13, <2>14, <3>1, <3>5
    <3>7. ~clash
      BY <2>11, <3>1, <3>6 DEF Identity
    <3>8. ~wrong
      BY <2>10, <3>1, <3>5, <3>6, <3>7
    <3> QED
      BY <1>2, <3>1, <3>6, <3>8
  <2> QED
    BY <2>16, <2>17 DEF named, s, nets, label
<1> QED
  BY <1>4, <1>5

-----------------------------------------------------------------------------
(* Containers *)

\* The scope of a container while it runs.
RunningScope(d) == policyScope(world[d].scope, Project(d), world[d].nets)

LEMMA Described ==
    ASSUME world \in Worlds, NEW c \in DOMAIN world
    PROVE  /\ ContainerOK(world[c]) /\ c \in Ids /\ c # None /\ c # "whalewall"
           /\ ManagedAddrs(world[c]) = Range(RunningScope(c).addrs)
           /\ \A d \in DOMAIN world : c # d => ManagedAddrs(world[c]) \cap ManagedAddrs(world[d]) = {}
<1>1. ContainerOK(world[c]) /\ DOMAIN world \subseteq Ids
      /\ \A d \in DOMAIN world : c # d => ManagedAddrs(world[c]) \cap ManagedAddrs(world[d]) = {}
  BY WorldsAssumption
<1>2. ManagedAddrs(world[c]) = Range(RunningScope(c).addrs)
  BY DEF ManagedAddrs, RunningScope, Project
<1> QED
  BY <1>1, <1>2, ConstantsAssumption

LEMMA NetsAre ==
    ASSUME world \in Worlds, NEW c \in DOMAIN world
    PROVE  /\ world[c].scope = AllNetworks \/ IsSequence(world[c].scope)
           /\ IsFunction(world[c].nets) /\ NoNet \notin DOMAIN world[c].nets
           /\ IsFunction(Nets(c)) /\ DOMAIN Nets(c) = DOMAIN world[c].nets
           /\ c \in running => Nets(c) = world[c].nets
           /\ c \notin running => Usable(Nets(c)) = {}
<1>1. ContainerOK(world[c])
  BY Described
<1>2. /\ world[c].scope = AllNetworks \/ IsSequence(world[c].scope)
      /\ IsFunction(world[c].nets) /\ NoNet \notin DOMAIN world[c].nets
      /\ \A n \in DOMAIN world[c].nets : EndpointOK(world[c].nets[n])
  BY <1>1, ConstantsAssumption DEF ContainerOK, IsFunction
<1>3. CASE c \in running
  BY <1>2, <1>3 DEF Nets
<1>4. CASE c \notin running
  <2> DEFINE E(n) == IF world[c].nets[n] = NoEndpoint THEN NoEndpoint ELSE [world[c].nets[n] EXCEPT !.addr = NoAddr]
  <2>1. Nets(c) = [n \in DOMAIN world[c].nets |-> E(n)]
    BY <1>4 DEF Nets
  <2>2. \A n \in DOMAIN world[c].nets : E(n) # NoEndpoint => E(n).addr = NoAddr
    BY <1>2 DEF EndpointOK
  <2> HIDE DEF E
  <2>3. Usable(Nets(c)) = {}
    BY <2>1, <2>2 DEF Usable
  <2> QED
    BY <1>2, <1>4, <2>1, <2>3 DEF IsFunction
<1> QED
  BY <1>2, <1>3, <1>4

\* A peer whose scope is not in error runs.
LEMMA PeerScope ==
    ASSUME world \in Worlds, NEW d \in DOMAIN world
    PROVE  /\ d \in running => Scope(d) = RunningScope(d)
           /\ ~Peers[d].err => d \in running /\ ~RunningScope(d).err /\ Peers[d].nets = RunningScope(d).nets
           /\ ~RunningScope(d).err =>
                resolveValidManagedNetworks(world[d].scope, Project(d), world[d].nets).nets = RunningScope(d).nets
           /\ d \in running /\ ~RunningScope(d).err => Peers[d].nets = RunningScope(d).nets /\ ~Peers[d].err
<1> DEFINE label == world[d].scope
           project == Project(d)
           nets == Nets(d)
           v == resolveValidManagedNetworks(label, project, nets)
           s == policyScope(label, project, nets)
           w == resolveValidManagedNetworks(label, project, world[d].nets)
           t == RunningScope(d)
<1>1. Peers[d] = v
  BY DEF Peers
<1>2. /\ label = AllNetworks \/ IsSequence(label)
      /\ IsFunction(nets) /\ NoNet \notin DOMAIN nets
      /\ IsFunction(world[d].nets) /\ NoNet \notin DOMAIN world[d].nets
      /\ d \in running => nets = world[d].nets
      /\ d \notin running => Usable(nets) = {}
  BY NetsAre
<1> HIDE DEF label, project, nets
<1>3. /\ v.err <=> s.err
      /\ ~s.err => v.nets = s.nets /\ DOMAIN s.nets # {} /\ Usable(s.nets) = DOMAIN s.nets
      /\ DOMAIN s.nets \subseteq DOMAIN nets /\ \A n \in DOMAIN s.nets : s.nets[n] = nets[n]
  BY <1>2, ScopeFacts
<1>4. t = policyScope(label, project, world[d].nets)
  BY DEF RunningScope, label, project
<1>5. (w.err <=> t.err) /\ (~t.err => w.nets = t.nets)
  <2> DEFINE attached == world[d].nets
             u == policyScope(label, project, attached)
             x == resolveValidManagedNetworks(label, project, attached)
  <2>1. IsFunction(attached) /\ NoNet \notin DOMAIN attached
    BY <1>2
  <2>2. t = u /\ w = x
    BY <1>4
  <2> HIDE DEF attached, t, w
  <2>3. (x.err <=> u.err) /\ (~u.err => x.nets = u.nets)
    BY <1>2, <2>1, ScopeFacts
  <2> HIDE DEF u, x
  <2> QED
    BY <2>2, <2>3
<1>6. d \in running => v = w /\ s = t /\ Scope(d) = t
  BY <1>2, <1>4 DEF Scope, nets, label, project
<1>7. d \notin running => s.err
  <2> SUFFICES ASSUME d \notin running, ~s.err PROVE FALSE
    OBVIOUS
  <2> HIDE DEF s
  <2>1. Usable(nets) = {} /\ Usable(s.nets) = DOMAIN s.nets /\ DOMAIN s.nets # {}
    BY <1>2, <1>3
  <2>2. Usable(s.nets) \subseteq Usable(nets)
    BY <1>3 DEF Usable
  <2> QED
    BY <2>1, <2>2
<1> HIDE DEF s, v, w, t
<1> QED
  BY <1>1, <1>3, <1>5, <1>6, <1>7 DEF w, label, project, t

\* The networks of a scope that is not in error.
LEMMA SoundScope ==
    ASSUME world \in Worlds, NEW c \in DOMAIN world, ~RunningScope(c).err
    PROVE  LET s == RunningScope(c) IN
           /\ IsFiniteSet(DOMAIN s.nets) /\ DOMAIN s.nets \subseteq Nat /\ DOMAIN s.nets # {}
           /\ DOMAIN s.nets \subseteq DOMAIN world[c].nets
           /\ DOMAIN s.addrs = DOMAIN s.nets /\ Usable(s.nets) = DOMAIN s.nets
           /\ \A n \in DOMAIN s.nets :
                /\ s.nets[n] = world[c].nets[n] /\ s.nets[n] # NoEndpoint
                /\ s.nets[n].addr \in Addrs /\ s.nets[n].addr # NoAddr /\ s.nets[n].gateway \in {NoAddr} \cup Addrs
                /\ s.addrs[n] = s.nets[n].addr /\ s.nets[n].addr \in ManagedAddrs(world[c])
           /\ \A a \in ManagedAddrs(world[c]) : \E n \in DOMAIN s.nets : a = s.nets[n].addr
<1> DEFINE s == RunningScope(c)
           nets == world[c].nets
<1>1. /\ nets = [n \in DOMAIN nets |-> nets[n]] /\ IsFiniteSet(DOMAIN nets) /\ DOMAIN nets \subseteq Nat
      /\ \A n \in DOMAIN nets : EndpointOK(nets[n])
      /\ ManagedAddrs(world[c]) = Range(s.addrs)
  BY Described DEF ContainerOK
<1>2. /\ DOMAIN s.nets # {} /\ Usable(s.nets) = DOMAIN s.nets
      /\ DOMAIN s.nets \subseteq DOMAIN nets /\ \A n \in DOMAIN s.nets : s.nets[n] = nets[n]
      /\ s.addrs = [n \in Usable(s.nets) |-> s.nets[n].addr]
  <2>1. /\ world[c].scope = AllNetworks \/ IsSequence(world[c].scope)
        /\ IsFunction(nets) /\ NoNet \notin DOMAIN nets
    BY NetsAre
  <2> QED
    BY <2>1, ScopeFacts DEF RunningScope
<1> HIDE DEF s
<1>3. IsFiniteSet(DOMAIN s.nets)
  BY <1>1, <1>2, FS_Subset
<1>4. ASSUME NEW n \in DOMAIN s.nets
      PROVE  /\ s.nets[n] = nets[n] /\ s.nets[n] # NoEndpoint
             /\ s.nets[n].addr \in Addrs /\ s.nets[n].addr # NoAddr /\ s.nets[n].gateway \in {NoAddr} \cup Addrs
             /\ s.addrs[n] = s.nets[n].addr
  <2>1. n \in Usable(s.nets) /\ n \in DOMAIN nets /\ s.nets[n] = nets[n]
    BY <1>2
  <2>2. s.nets[n] # NoEndpoint /\ s.nets[n].addr # NoAddr
    BY <2>1 DEF Usable
  <2>3. EndpointOK(s.nets[n])
    BY <1>1, <2>1
  <2> QED
    BY <1>2, <2>1, <2>2, <2>3 DEF EndpointOK
<1>5. Range(s.addrs) = {s.nets[n].addr : n \in DOMAIN s.nets}
  BY <1>2 DEF Range
<1>6. DOMAIN s.addrs = DOMAIN s.nets
  BY <1>2
<1> QED
  BY <1>1, <1>2, <1>3, <1>4, <1>5, <1>6 DEF s

\* What a sequence becomes when each element is replaced by a sequence.
LEMMA MapHolds ==
    ASSUME NEW s, IsSequence(s), NEW f, \A x \in ToSet(s) : IsSequence(f[x])
    PROVE  LET t == FlattenSeq([i \in DOMAIN s |-> f[s[i]]]) IN
           IsSequence(t) /\ ToSet(t) = UNION {ToSet(f[x]) : x \in ToSet(s)}
<1> DEFINE ss == [i \in DOMAIN s |-> f[s[i]]]
           t == FlattenSeq(ss)
<1>1. Len(s) \in Nat /\ DOMAIN s = 1..Len(s) /\ ToSet(s) = {s[i] : i \in 1..Len(s)}
  BY SequenceIs
<1>2. DOMAIN ss = 1..Len(s) /\ \A i \in DOMAIN s : ss[i] = f[s[i]] /\ IsSequence(ss[i])
  BY <1>1
<1>3. IsSequence(ss)
  <2> DEFINE T == {f[x] : x \in ToSet(s)}
  <2>1. ss \in [1..Len(s) -> T]
    BY <1>1
  <2>2. ss \in Seq(T)
    BY <1>1, <2>1
  <2> QED
    BY <2>2, SequenceOf
<1> HIDE DEF ss
<1>4. IsSequence(t) /\ ToSet(t) = UNION {ToSet(ss[i]) : i \in DOMAIN ss}
  BY <1>1, <1>2, <1>3, FlattenHolds
<1>5. UNION {ToSet(ss[i]) : i \in DOMAIN ss} = UNION {ToSet(f[x]) : x \in ToSet(s)}
  BY <1>1, <1>2
<1> QED
  BY <1>4, <1>5 DEF ss

LEMMA MapShields ==
    ASSUME NEW s, IsSequence(s), NEW f, NEW D, NEW A,
           \A x \in ToSet(s) : IsSequence(f[x]) /\ Shielded(f[x], D, A)
    PROVE  Shielded(FlattenSeq([i \in DOMAIN s |-> f[s[i]]]), D, A)
<1> DEFINE ss == [i \in DOMAIN s |-> f[s[i]]]
<1>1. Len(s) \in Nat /\ DOMAIN s = 1..Len(s) /\ ToSet(s) = {s[i] : i \in 1..Len(s)}
  BY SequenceIs
<1>2. DOMAIN ss = 1..Len(s) /\ \A i \in DOMAIN s : ss[i] = f[s[i]] /\ IsSequence(ss[i]) /\ Shielded(ss[i], D, A)
  BY <1>1
<1>3. IsSequence(ss)
  <2> DEFINE T == {f[x] : x \in ToSet(s)}
  <2>1. ss \in [1..Len(s) -> T]
    BY <1>1
  <2>2. ss \in Seq(T)
    BY <1>1, <2>1
  <2> QED
    BY <2>2, SequenceOf
<1> HIDE DEF ss
<1>4. Shielded(FlattenSeq(ss), D, A)
  BY <1>1, <1>2, <1>3, ShieldedFlatten
<1> QED
  BY <1>4 DEF ss

-----------------------------------------------------------------------------
(* Rules of a label, as they are normalised *)

\* What validateRule and normalizeConfig leave of a rule r in a rule q.
From(q, r) ==
    /\ q.network = r.network /\ q.ips = r.ips /\ q.proto = r.proto /\ q.srcPorts = r.srcPorts
    /\ q.dstPorts = r.dstPorts /\ q.log = r.log
    /\ IF Names(r) = {} THEN q.container = Unset
       ELSE q.container \in Names(r) /\ q.container # Unset /\ q.network # Unset
    /\ HasIPs(q) => q.ips # <<>>
    /\ RuleOK(q) /\ q = [r EXCEPT !.container = q.container, !.containers = Unset]

LEMMA ExpandedHolds ==
    ASSUME NEW r, RuleOK(r), ~validateRule(r)
    PROVE  /\ IsSequence(Expanded(r)) /\ ToSet(Expanded(r)) # {}
           /\ \A q \in ToSet(Expanded(r)) : From(q, r)
           /\ \A name \in Names(r) : \E q \in ToSet(Expanded(r)) : q.container = name
<1>1. /\ HasContainers(r) => r.containers # <<>>
      /\ HasContainer(r) \/ HasContainers(r) => r.network # Unset
      /\ HasIPs(r) => r.ips # <<>>
  BY DEF validateRule
<1>2. CASE ~HasContainers(r)
  <2>1. Expanded(r) = <<r>> /\ Names(r) = {r.container} \ {Unset}
    BY <1>2 DEF Expanded, Names
  <2>2. IsSequence(Expanded(r)) /\ ToSet(Expanded(r)) = {r}
    BY <2>1, SingleSequence
  <2>3. r = [r EXCEPT !.container = r.container, !.containers = Unset]
    BY <1>2 DEF RuleOK, HasContainers
  <2>4. From(r, r)
    BY <1>1, <2>1, <2>3 DEF From, HasContainer
  <2> QED
    BY <2>1, <2>2, <2>4
<1>3. CASE HasContainers(r)
  <2> DEFINE s == r.containers
             With(x) == [r EXCEPT !.container = x, !.containers = Unset]
             t == Expanded(r)
             T == {With(x) : x \in ToSet(s)}
  <2>1. t = [i \in DOMAIN s |-> With(s[i])] /\ Names(r) = ToSet(s)
    BY <1>3 DEF Expanded, Names
  <2>2. IsSequence(s) /\ Unset \notin ToSet(s)
    BY <1>3 DEF RuleOK, HasContainers
  <2>3. Len(s) \in Nat /\ DOMAIN s = 1..Len(s) /\ ToSet(s) = {s[i] : i \in 1..Len(s)}
    BY <2>2, SequenceIs
  <2>4. t \in Seq(T)
    <3>1. t \in [1..Len(s) -> T]
      BY <2>1, <2>3
    <3> HIDE DEF t, T, s
    <3> QED
      BY <2>3, <3>1
  <2>5. IsSequence(t)
    BY <2>4, SequenceOf
  <2>6. ToSet(t) = T
    <3>1. ToSet(t) = {t[i] : i \in DOMAIN t}
      BY DEF ToSet
    <3>2. DOMAIN t = 1..Len(s) /\ \A i \in 1..Len(s) : t[i] = With(s[i])
      BY <2>1, <2>3
    <3> HIDE DEF t, With
    <3> QED
      BY <2>3, <3>1, <3>2
  <2>7. ToSet(s) # {}
    <3>1. Len(s) # 0
      <4>1. s \in Seq(ToSet(s))
        BY <2>2 DEF IsSequence
      <4> QED
        BY <1>1, <1>3, <4>1
    <3>2. 1 \in 1..Len(s)
      BY <2>3, <3>1
    <3> QED
      BY <2>3, <3>2
  <2>8. \A x \in ToSet(s) : /\ With(x).container = x /\ With(x).containers = Unset /\ With(x).network = r.network
                            /\ With(x).ips = r.ips /\ With(x).proto = r.proto /\ With(x).srcPorts = r.srcPorts
                            /\ With(x).dstPorts = r.dstPorts /\ With(x).log = r.log /\ RuleOK(With(x))
                            /\ With(x) = [r EXCEPT !.container = With(x).container, !.containers = Unset]
    BY DEF RuleOK
  <2>9. \A x \in ToSet(s) : From(With(x), r)
    <3> HIDE DEF With
    <3> QED
      BY <1>1, <1>3, <2>1, <2>2, <2>7, <2>8 DEF From, HasIPs
  <2>10. \A x \in ToSet(s) : With(x).container = x
    BY <2>8
  <2>11. ToSet(t) # {} /\ \A q \in ToSet(t) : From(q, r)
    <3> HIDE DEF t, With
    <3> QED
      BY <2>6, <2>7, <2>9
  <2>12. \A name \in Names(r) : \E q \in ToSet(t) : q.container = name
    <3> HIDE DEF t, With
    <3> QED
      BY <2>1, <2>6, <2>10
  <2> QED
    BY <2>5, <2>11, <2>12
<1> QED
  BY <1>2, <1>3

LEMMA NormalizedHolds ==
    ASSUME NEW cfg, ConfigOK(cfg), ~validateConfig(cfg)
    PROVE  LET out == normalizeConfig(cfg) IN
           /\ IsSequence(out)
           /\ \A q \in ToSet(out) : \E r \in ToSet(cfg.output) : From(q, r)
           /\ \A r \in ToSet(cfg.output) : \A name \in Names(r) : \E q \in ToSet(out) : From(q, r) /\ q.container = name
           /\ \A r \in ToSet(cfg.output) : \E q \in ToSet(out) : From(q, r)
<1> DEFINE s == cfg.output
           f == [r \in ToSet(s) |-> Expanded(r)]
           out == normalizeConfig(cfg)
<1>1. IsSequence(s) /\ \A r \in ToSet(s) : RuleOK(r) /\ ~validateRule(r)
  BY DEF ConfigOK, validateConfig
<1>2. \A r \in ToSet(s) : /\ f[r] = Expanded(r) /\ IsSequence(f[r]) /\ ToSet(f[r]) # {}
                          /\ \A q \in ToSet(f[r]) : From(q, r)
                          /\ \A name \in Names(r) : \E q \in ToSet(f[r]) : q.container = name
  BY <1>1, ExpandedHolds
<1>3. [i \in DOMAIN s |-> Expanded(s[i])] = [i \in DOMAIN s |-> f[s[i]]]
  BY DEF ToSet
<1>4. out = FlattenSeq([i \in DOMAIN s |-> f[s[i]]])
  BY <1>3 DEF normalizeConfig
<1> HIDE DEF f, out, s
<1>5. IsSequence(out) /\ ToSet(out) = UNION {ToSet(f[r]) : r \in ToSet(s)}
  BY <1>1, <1>2, <1>4, MapHolds
<1>6. /\ IsSequence(out)
      /\ \A q \in ToSet(out) : \E r \in ToSet(s) : From(q, r)
      /\ \A r \in ToSet(s) : \A name \in Names(r) : \E q \in ToSet(out) : From(q, r) /\ q.container = name
      /\ \A r \in ToSet(s) : \E q \in ToSet(out) : From(q, r)
  BY <1>2, <1>5
<1> QED
  BY <1>6 DEF out, s

-----------------------------------------------------------------------------
(* Output rules *)

\* The parts of a rule that its nftables rules are made of.
PartsOK(r) ==
    /\ r.srcPorts \in {Unset} \cup Lists(PortTop) /\ r.dstPorts \in {Unset} \cup Lists(PortTop)
    /\ r.log \in BOOLEAN

LEMMA RuleParts ==
    ASSUME NEW r, RuleOK(r)
    PROVE  PartsOK(r) /\ r.ips \in {Unset} \cup Lists(AddrTop)
BY DEF RuleOK, PartsOK

\* The details of a rule, and the packets that they are about.
LEMMA DetailsAre ==
    ASSUME NEW r, PartsOK(r), NEW inbound \in BOOLEAN, NEW addr, NEW ips \in Lists(AddrTop), NEW drops \in BOOLEAN
    PROVE  LET rd == Details(r, inbound, addr, ips, drops) IN
           /\ DetailsOK(rd)
           /\ \A p : Covers(rd, p) <=> /\ addr \in {NoAddr, IF inbound THEN p.dst ELSE p.src}
                                       /\ Selects(ips, IF inbound THEN p.src ELSE p.dst)
                                       /\ Carries(r, p)
<1> DEFINE rd == Details(r, inbound, addr, ips, drops)
           S == IF NonEmpty(r.srcPorts) THEN r.srcPorts ELSE <<>>
           T == IF NonEmpty(r.dstPorts) THEN r.dstPorts ELSE <<>>
<1>1. /\ rd.inbound = inbound /\ rd.addr = addr /\ rd.ips = ips /\ rd.proto = r.proto /\ rd.log = r.log
      /\ rd.drop = drops /\ rd.srcPorts = S /\ rd.dstPorts = T
  BY DEF Details
<1>2. S \in Lists(PortTop) /\ T \in Lists(PortTop)
  BY EmptyList DEF NonEmpty, PartsOK
<1>3. \A v : (Selects(S, v) <=> Listed(r.srcPorts, v)) /\ (Selects(T, v) <=> Listed(r.dstPorts, v))
  BY EmptyList DEF NonEmpty, Listed
<1> HIDE DEF rd, S, T
<1>4. DetailsOK(rd)
  BY <1>1, <1>2 DEF DetailsOK, PartsOK
<1>5. \A p : Covers(rd, p) <=> /\ addr \in {NoAddr, IF inbound THEN p.dst ELSE p.src}
                               /\ Selects(ips, IF inbound THEN p.src ELSE p.dst)
                               /\ Carries(r, p)
  BY <1>1, <1>3 DEF Covers, Carries
<1> QED
  BY <1>4, <1>5 DEF rd

\* Packets of a rule's own address, and of the edge between two addresses.
OwnCovers(r, addr, q) == addr = q.src /\ (HasIPs(r) => Selects(r.ips, q.dst)) /\ Carries(r, q)
EdgeCovers(r, sAddr, dAddr, q) == sAddr = q.src /\ dAddr = q.dst /\ Carries(r, q)

LEMMA OwnRulesAre ==
    ASSUME NEW r, PartsOK(r), r.ips \in {Unset} \cup Lists(AddrTop), NEW c, NEW addr \in Addrs
    PROVE  LET R == OwnRules(r, c, addr) IN
           /\ IsSequence(R)
           /\ \A e \in ToSet(R) : ~e.drop /\ e.chain = c /\ e.tag = c
           /\ \A p, x : PacketOK(p) =>
                (Hits(R, x, p) <=> x = c /\ (OwnCovers(r, addr, p) \/ (p.st = "est" /\ OwnCovers(r, addr, Reply(p)))))
<1> DEFINE ips == IF HasIPs(r) THEN r.ips ELSE <<>>
           rd == Details(r, FALSE, addr, ips, FALSE)
           R == OwnRules(r, c, addr)
<1>1. ips \in Lists(AddrTop) /\ \A v : Selects(ips, v) <=> (HasIPs(r) => Selects(r.ips, v))
  BY EmptyList DEF HasIPs
<1>2. NoAddr # addr
  BY ConstantsAssumption
<1>3. R = createNFTRules(rd, c, c, c, c) /\ ~rd.drop
  BY DEF OwnRules, Details
<1> HIDE DEF ips, R
<1>4. /\ DetailsOK(rd)
      /\ \A p : Covers(rd, p) <=> addr \in {NoAddr, p.src} /\ Selects(ips, p.dst) /\ Carries(r, p)
  BY <1>1, DetailsAre
<1> HIDE DEF rd
<1>5. \A p : Covers(rd, p) <=> OwnCovers(r, addr, p)
  BY <1>1, <1>2, <1>4 DEF OwnCovers
<1>6. IsSequence(R)
  BY <1>3, <1>4, RulesAre
<1>7. \A e \in ToSet(R) : ~e.drop /\ e.chain = c /\ e.tag = c
  BY <1>3, <1>4, RulesHaveChains
<1>8. ASSUME NEW p, NEW x, PacketOK(p)
      PROVE  Hits(R, x, p) <=> x = c /\ (OwnCovers(r, addr, p) \/ (p.st = "est" /\ OwnCovers(r, addr, Reply(p))))
  <2>1. Hits(R, x, p) <=> \/ x = c /\ Covers(rd, p)
                          \/ x = c /\ p.st = "est" /\ Covers(rd, Reply(p))
    BY <1>3, <1>4, <1>8, RulesHit
  <2> QED
    BY <1>5, <2>1
<1> QED
  BY <1>6, <1>7, <1>8 DEF R

\* A rule of the edge from s to d: forward, or for replies.
EdgeShape(e, r, s, sAddr, d, dAddr) ==
    /\ ~e.drop /\ e.proto = r.proto
    /\ \/ ~e.inverse /\ e.chain = s /\ e.tag = d /\ e.addr = sAddr /\ e.ips = createIPExprs(<<Single(dAddr)>>)
       \/ e.inverse /\ e.chain = d /\ e.tag = s

LEMMA EdgeRulesAre ==
    ASSUME NEW r, PartsOK(r), NEW s, NEW sAddr \in Addrs, NEW d, NEW dAddr \in Addrs
    PROVE  LET R == EdgeRules(r, s, sAddr, d, dAddr) IN
           /\ IsSequence(R)
           /\ \A e \in ToSet(R) : EdgeShape(e, r, s, sAddr, d, dAddr)
           /\ \A p, x : PacketOK(p) =>
                (Hits(R, x, p) <=> \/ x = s /\ EdgeCovers(r, sAddr, dAddr, p)
                                   \/ x = d /\ p.st = "est" /\ EdgeCovers(r, sAddr, dAddr, Reply(p)))
<1> DEFINE ips == <<Single(dAddr)>>
           rd == Details(r, FALSE, sAddr, ips, FALSE)
           R == EdgeRules(r, s, sAddr, d, dAddr)
<1>1. ips \in Lists(AddrTop) /\ \A v \in Addrs : Selects(ips, v) <=> v = dAddr
  BY Tops, SingleList DEF Addrs
<1>2. NoAddr # sAddr
  BY ConstantsAssumption
<1>3. R = createNFTRules(rd, s, d, d, s) /\ ~rd.drop /\ rd.addr = sAddr /\ rd.ips = ips /\ rd.proto = r.proto
  BY DEF EdgeRules, Details
<1> HIDE DEF ips, R
<1>4. /\ DetailsOK(rd)
      /\ \A p : Covers(rd, p) <=> sAddr \in {NoAddr, p.src} /\ Selects(ips, p.dst) /\ Carries(r, p)
  BY <1>1, DetailsAre
<1> HIDE DEF rd
<1>5. \A p : PacketOK(p) => (Covers(rd, p) <=> EdgeCovers(r, sAddr, dAddr, p))
  BY <1>1, <1>2, <1>4 DEF EdgeCovers, PacketOK
<1>6. IsSequence(R)
  BY <1>3, <1>4, RulesAre
<1>7. \A e \in ToSet(R) : /\ ~e.drop /\ e.proto = r.proto
                          /\ \/ /\ ~e.inverse /\ e.chain = s /\ e.tag = d
                                /\ e.addr = sAddr /\ e.ips = createIPExprs(ips)
                             \/ e.inverse /\ e.chain = d /\ e.tag = s
  <2> SUFFICES ASSUME NEW e \in ToSet(R)
               PROVE  /\ ~e.drop /\ e.proto = r.proto
                      /\ \/ /\ ~e.inverse /\ e.chain = s /\ e.tag = d
                            /\ e.addr = sAddr /\ e.ips = createIPExprs(ips)
                         \/ e.inverse /\ e.chain = d /\ e.tag = s
    OBVIOUS
  <2> QED
    BY <1>3, <1>4, RulesHaveChains
<1>8. ASSUME NEW p, NEW x, PacketOK(p)
      PROVE  Hits(R, x, p) <=> \/ x = s /\ EdgeCovers(r, sAddr, dAddr, p)
                               \/ x = d /\ p.st = "est" /\ EdgeCovers(r, sAddr, dAddr, Reply(p))
  <2>1. Hits(R, x, p) <=> \/ x = s /\ Covers(rd, p)
                          \/ x = d /\ p.st = "est" /\ Covers(rd, Reply(p))
    BY <1>3, <1>4, <1>8, RulesHit
  <2> QED
    BY <1>5, <1>8, <2>1, ReplyOK
<1> QED
  BY <1>6, <1>7, <1>8 DEF R, ips, EdgeShape

\* Both directions have a rule, with the same ports.
LEMMA EdgeRulesPaired ==
    ASSUME NEW r, PartsOK(r), NEW s, NEW sAddr, NEW d, NEW dAddr \in Addrs
    PROVE  LET R == EdgeRules(r, s, sAddr, d, dAddr) IN
           /\ \A e, f \in ToSet(R) : e.dstPorts = f.dstPorts
           /\ NonEmpty(r.dstPorts) => \A e \in ToSet(R) : e.dstPorts = createPortExprs(r.dstPorts)
           /\ \E e \in ToSet(R) : ~e.inverse /\ e.chain = s /\ e.tag = d
           /\ \E e \in ToSet(R) : e.inverse /\ e.chain = d /\ e.tag = s
<1> DEFINE ips == <<Single(dAddr)>>
           rd == Details(r, FALSE, sAddr, ips, FALSE)
           R == EdgeRules(r, s, sAddr, d, dAddr)
<1>1. ips \in Lists(AddrTop)
  BY Tops, SingleList DEF Addrs
<1>2. R = createNFTRules(rd, s, d, d, s) /\ ~rd.drop /\ (NonEmpty(r.dstPorts) => rd.dstPorts = r.dstPorts)
  BY DEF EdgeRules, Details
<1> HIDE DEF ips, R
<1>3. DetailsOK(rd)
  BY <1>1, DetailsAre
<1> HIDE DEF rd
<1>4. \A e \in ToSet(R) : e.dstPorts = createPortExprs(rd.dstPorts)
  BY <1>2, <1>3, RulesHaveChains
<1>5. /\ \E e \in ToSet(R) : ~e.inverse /\ e.chain = s /\ e.tag = d
      /\ \E e \in ToSet(R) : e.inverse /\ e.chain = d /\ e.tag = s
  BY <1>2, <1>3, RulesHaveBoth
<1> QED
  BY <1>2, <1>4, <1>5 DEF R

\* What a populated rule opens for the source c, with the scope s, and where the
\* rules for replies are.
OutCovers(c, P, q, known, s, peers) ==
    LET r == P.rule
        at == findNetwork(r.network, Project(c), s.addrs)
    IN  IF r.network = Unset THEN \E n \in DOMAIN s.addrs : OwnCovers(r, s.addrs[n], q)
        ELSE IF r.container = Unset THEN OwnCovers(r, s.addrs[at], q)
        ELSE /\ P.peer \in known
             /\ EdgeCovers(r, s.addrs[at], AddrOn(P.peer, r.network, peers[P.peer].nets), q)
ToPeer(P) == P.rule.network # Unset /\ P.rule.container # Unset
EstAt(c, P) == IF ToPeer(P) THEN P.peer ELSE c

\* A populated rule that createOutputRules can be given.
PopulatedOK(c, P, known, s, peers) ==
    /\ PartsOK(P.rule) /\ P.rule.ips \in {Unset} \cup Lists(AddrTop)
    /\ P.rule.network # Unset => findNetwork(P.rule.network, Project(c), s.addrs) \in DOMAIN s.addrs
    /\ ToPeer(P) /\ P.peer \in known => AddrOn(P.peer, P.rule.network, peers[P.peer].nets) \in Addrs
AddrsOK(s) ==
    IsFiniteSet(DOMAIN s.addrs) /\ DOMAIN s.addrs \subseteq Nat /\ \A n \in DOMAIN s.addrs : s.addrs[n] \in Addrs

LEMMA OutputRulesAre ==
    ASSUME NEW c, NEW P, NEW known, NEW s, NEW peers, AddrsOK(s), PopulatedOK(c, P, known, s, peers)
    PROVE  LET R == OutputRules(c, P, known, s, peers) IN
           /\ IsSequence(R)
           /\ \A e \in ToSet(R) : ~e.drop /\ (e.chain = c \/ (e.chain = P.peer /\ P.peer \in known))
           /\ ToPeer(P) => R = IF P.peer \notin known THEN <<>>
                               ELSE EdgeRules(P.rule, c, s.addrs[findNetwork(P.rule.network, Project(c), s.addrs)],
                                              P.peer, AddrOn(P.peer, P.rule.network, peers[P.peer].nets))
           /\ ~ToPeer(P) => \A e \in ToSet(R) : e.tag = c /\ e.chain = c
           /\ \A p, x : PacketOK(p) =>
                (Hits(R, x, p) <=> \/ x = c /\ OutCovers(c, P, p, known, s, peers)
                                   \/ x = EstAt(c, P) /\ p.st = "est" /\ OutCovers(c, P, Reply(p), known, s, peers))
<1> DEFINE r == P.rule
           R == OutputRules(c, P, known, s, peers)
           at == findNetwork(r.network, Project(c), s.addrs)
           addr == s.addrs[at]
           to == AddrOn(P.peer, r.network, peers[P.peer].nets)
<1>0. PartsOK(r) /\ r.ips \in {Unset} \cup Lists(AddrTop)
  BY DEF PopulatedOK
<1>1. CASE r.network = Unset
  <2> DEFINE names == SortedNames(s.addrs)
             f == [n \in DOMAIN s.addrs |-> OwnRules(r, c, s.addrs[n])]
  <2>1. IsSequence(names) /\ ToSet(names) = DOMAIN s.addrs
    BY NamesSorted DEF AddrsOK
  <2>2. \A n \in DOMAIN s.addrs :
           /\ f[n] = OwnRules(r, c, s.addrs[n]) /\ IsSequence(f[n])
           /\ \A e \in ToSet(f[n]) : ~e.drop /\ e.chain = c /\ e.tag = c
           /\ \A p, x : PacketOK(p) =>
                (Hits(f[n], x, p) <=> x = c /\ (OwnCovers(r, s.addrs[n], p) \/ (p.st = "est" /\ OwnCovers(r, s.addrs[n], Reply(p)))))
    <3> SUFFICES ASSUME NEW n \in DOMAIN s.addrs
                 PROVE  /\ f[n] = OwnRules(r, c, s.addrs[n]) /\ IsSequence(f[n])
                        /\ \A e \in ToSet(f[n]) : ~e.drop /\ e.chain = c /\ e.tag = c
                        /\ \A p, x : PacketOK(p) =>
                             (Hits(f[n], x, p) <=> x = c /\ (OwnCovers(r, s.addrs[n], p) \/ (p.st = "est" /\ OwnCovers(r, s.addrs[n], Reply(p)))))
      OBVIOUS
    <3>1. f[n] = OwnRules(r, c, s.addrs[n]) /\ s.addrs[n] \in Addrs
      BY DEF AddrsOK
    <3> HIDE DEF f, r
    <3> QED
      BY <1>0, <3>1, OwnRulesAre
  <2>3. [i \in DOMAIN names |-> OwnRules(r, c, s.addrs[names[i]])] = [i \in DOMAIN names |-> f[names[i]]]
    BY <2>1 DEF ToSet
  <2>4. R = FlattenSeq([i \in DOMAIN names |-> f[names[i]]])
    BY <1>1, <2>3 DEF OutputRules, Concat
  <2> HIDE DEF f, R, names
  <2>5. IsSequence(R) /\ ToSet(R) = UNION {ToSet(f[n]) : n \in DOMAIN s.addrs}
    BY <2>1, <2>2, <2>4, MapHolds
  <2>6. \A p, x : Hits(R, x, p) <=> \E n \in DOMAIN s.addrs : Hits(f[n], x, p)
    BY <2>5 DEF Hits
  <2>7. \A p : OutCovers(c, P, p, known, s, peers) <=> \E n \in DOMAIN s.addrs : OwnCovers(r, s.addrs[n], p)
    BY <1>1 DEF OutCovers
  <2>8. ~ToPeer(P) /\ EstAt(c, P) = c
    BY <1>1 DEF EstAt, ToPeer
  <2>9. \A e \in ToSet(R) : ~e.drop /\ e.chain = c /\ e.tag = c
    BY <2>2, <2>5
  <2> HIDE DEF r
  <2>10. \A p, x : PacketOK(p) =>
                (Hits(R, x, p) <=> \/ x = c /\ OutCovers(c, P, p, known, s, peers)
                                   \/ x = EstAt(c, P) /\ p.st = "est" /\ OutCovers(c, P, Reply(p), known, s, peers))
    BY <2>2, <2>6, <2>7, <2>8
  <2> QED
    BY <2>5, <2>8, <2>9, <2>10 DEF R
<1>2. CASE r.network # Unset /\ r.container = Unset
  <2>1. addr \in Addrs
    BY <1>2 DEF AddrsOK, PopulatedOK
  <2>2. R = OwnRules(r, c, addr)
    BY <1>2 DEF OutputRules
  <2>3. \A p : OutCovers(c, P, p, known, s, peers) <=> OwnCovers(r, addr, p)
    BY <1>2 DEF OutCovers
  <2>4. ~ToPeer(P) /\ EstAt(c, P) = c
    BY <1>2 DEF EstAt, ToPeer
  <2> HIDE DEF r, addr, R
  <2>5. /\ IsSequence(R)
        /\ \A e \in ToSet(R) : ~e.drop /\ e.chain = c /\ e.tag = c
        /\ \A p, x : PacketOK(p) =>
             (Hits(R, x, p) <=> x = c /\ (OwnCovers(r, addr, p) \/ (p.st = "est" /\ OwnCovers(r, addr, Reply(p)))))
    BY <1>0, <2>1, <2>2, OwnRulesAre
  <2>6. \A p, x : PacketOK(p) =>
                (Hits(R, x, p) <=> \/ x = c /\ OutCovers(c, P, p, known, s, peers)
                                   \/ x = EstAt(c, P) /\ p.st = "est" /\ OutCovers(c, P, Reply(p), known, s, peers))
    BY <2>3, <2>4, <2>5
  <2> QED
    BY <2>4, <2>5, <2>6 DEF R
<1>3. CASE r.network # Unset /\ r.container # Unset /\ P.peer \notin known
  <2>1. R = <<>>
    BY <1>3 DEF OutputRules
  <2>2. \A p : ~OutCovers(c, P, p, known, s, peers)
    BY <1>3 DEF OutCovers
  <2>3. ToPeer(P)
    BY <1>3 DEF ToPeer
  <2> HIDE DEF R
  <2> QED
    BY <1>3, <2>1, <2>2, <2>3, EmptySequence DEF Hits, R
<1>4. CASE r.network # Unset /\ r.container # Unset /\ P.peer \in known
  <2>0. ToPeer(P) /\ EstAt(c, P) = P.peer
    BY <1>4 DEF ToPeer, EstAt
  <2>1. addr \in Addrs /\ to \in Addrs
    BY <1>4, <2>0 DEF AddrsOK, PopulatedOK
  <2>2. R = EdgeRules(r, c, addr, P.peer, to)
    BY <1>4 DEF OutputRules
  <2>3. \A p : OutCovers(c, P, p, known, s, peers) <=> EdgeCovers(r, addr, to, p)
    BY <1>4 DEF OutCovers
  <2> HIDE DEF r, addr, R, to
  <2>5. /\ IsSequence(R)
        /\ \A e \in ToSet(R) : ~e.drop /\ (e.chain = c \/ e.chain = P.peer)
        /\ \A p, x : PacketOK(p) =>
             (Hits(R, x, p) <=> \/ x = c /\ EdgeCovers(r, addr, to, p)
                                \/ x = P.peer /\ p.st = "est" /\ EdgeCovers(r, addr, to, Reply(p)))
    <3> DEFINE E == EdgeRules(r, c, addr, P.peer, to)
    <3>1. /\ IsSequence(E)
          /\ \A e \in ToSet(E) : EdgeShape(e, r, c, addr, P.peer, to)
      BY <1>0, <2>1, EdgeRulesAre
    <3>2. \A p, x : PacketOK(p) =>
             (Hits(E, x, p) <=> \/ x = c /\ EdgeCovers(r, addr, to, p)
                                \/ x = P.peer /\ p.st = "est" /\ EdgeCovers(r, addr, to, Reply(p)))
      BY <1>0, <2>1, EdgeRulesAre
    <3> HIDE DEF E
    <3>3. R = E
      BY <2>2 DEF E
    <3> QED
      BY <3>1, <3>2, <3>3 DEF EdgeShape
  <2>6. \A p, x : PacketOK(p) =>
                (Hits(R, x, p) <=> \/ x = c /\ OutCovers(c, P, p, known, s, peers)
                                   \/ x = EstAt(c, P) /\ p.st = "est" /\ OutCovers(c, P, Reply(p), known, s, peers))
    BY <2>0, <2>3, <2>5
  <2> QED
    BY <1>4, <2>0, <2>2, <2>5, <2>6 DEF R, r, addr, to
<1> QED
  BY <1>1, <1>2, <1>3, <1>4

-----------------------------------------------------------------------------
(* Peers *)

LEMMA FindsNetwork ==
    ASSUME NEW name, NEW project, NEW nets, NoNet \notin DOMAIN nets
    PROVE  /\ findNetwork(name, project, nets) \in DOMAIN nets <=> findNetwork(name, project, nets) # NoNet
           /\ \A other : DOMAIN other = DOMAIN nets => findNetwork(name, project, other) = findNetwork(name, project, nets)
BY DEF findNetwork

LEMMA SameNetwork ==
    ASSUME NEW n, NEW e, NEW m, NEW f, e # NoEndpoint, f # NoEndpoint
    PROVE  sameDockerNetwork(n, e, m, f) <=> networkEndpointIdentity(n, e) = networkEndpointIdentity(m, f)
<1> DEFINE I == networkEndpointIdentity(n, e)
           J == networkEndpointIdentity(m, f)
<1>1. /\ I = IF e.id # NoNetID THEN <<"id", e.id>> ELSE <<"name", n>>
      /\ J = IF f.id # NoNetID THEN <<"id", f.id>> ELSE <<"name", m>>
  BY DEF networkEndpointIdentity
<1>2. sameDockerNetwork(n, e, m, f) <=> IF e.id = NoNetID /\ f.id = NoNetID THEN n = m ELSE e.id = f.id
  BY DEF sameDockerNetwork
<1>3. /\ \A x, y : <<"id", x>> # <<"name", y>>
      /\ \A x, y : <<"id", x>> = <<"id", y>> <=> x = y
      /\ \A x, y : <<"name", x>> = <<"name", y>> <=> x = y
  OBVIOUS
<1> HIDE DEF I, J
<1>4. sameDockerNetwork(n, e, m, f) <=> I = J
  <2>1. CASE e.id = NoNetID /\ f.id = NoNetID
    BY <1>1, <1>2, <1>3, <2>1
  <2>2. CASE e.id # NoNetID /\ f.id # NoNetID
    BY <1>1, <1>2, <1>3, <2>2
  <2>3. CASE e.id = NoNetID /\ f.id # NoNetID
    <3>1. I = <<"name", n>> /\ J = <<"id", f.id>>
      BY <1>1, <2>3
    <3> QED
      BY <1>2, <1>3, <2>3, <3>1
  <2>4. CASE e.id # NoNetID /\ f.id = NoNetID
    <3>1. J = <<"name", m>> /\ I = <<"id", e.id>>
      BY <1>1, <2>4
    <3> QED
      BY <1>2, <1>3, <2>4, <3>1
  <2> QED
    BY <2>1, <2>2, <2>3, <2>4
<1> QED
  BY <1>4 DEF I, J

\* The best matches of a name are those who bear it best.
LEMMA BestAre ==
    ASSUME NEW r, NEW c
    PROVE  /\ r.container = Unset => BestMatches(r, Project(c)) = {}
           /\ r.container # Unset =>
                /\ BestMatches(r, Project(c)) = {d \in running : BearsBest(d, r.container, c)}
                /\ BestMatches(r, Project(c)) = {} <=> \A d \in running : ~Bears(d, r.container, c)
<1> DEFINE name == r.container
           Rank(d) == containerNameMatchRank(name, Project(c), d)
           B == BestMatches(r, Project(c))
<1>1. B = {d \in running : Rank(d) > 0 /\ \A o \in running : Rank(o) <= Rank(d)}
  BY DEF BestMatches
<1>2. CASE name = Unset
  <2>1. \A d \in running : Rank(d) = 0
    BY <1>2 DEF containerNameMatchRank
  <2> QED
    BY <1>1, <1>2, <2>1
<1>3. CASE name # Unset
  <2>1. \A d : /\ Rank(d) \in {0, 1, 2}
               /\ Rank(d) = 2 <=> world[d].name = name
               /\ Rank(d) > 0 <=> Bears(d, name, c)
    BY <1>3 DEF containerNameMatchRank, Bears
  <2> HIDE DEF Rank, name, B
  <2>2. ASSUME NEW d \in running
        PROVE  d \in B <=> BearsBest(d, name, c)
    <3>1. CASE Rank(d) = 0
      BY <1>1, <2>1, <2>2, <3>1 DEF BearsBest
    <3>2. CASE Rank(d) = 2
      <4>1. \A o \in running : Rank(o) <= 2
        BY <2>1
      <4> QED
        BY <1>1, <2>1, <2>2, <3>2, <4>1 DEF BearsBest
    <3>3. CASE Rank(d) = 1
      <4>1. \A o \in running : Rank(o) <= 1 <=> world[o].name # name
        BY <2>1
      <4> QED
        BY <1>1, <2>1, <2>2, <3>3, <4>1 DEF BearsBest
    <3> QED
      BY <2>1, <3>1, <3>2, <3>3
  <2>3. B = {} => \A d \in running : ~Bears(d, name, c)
    <3> SUFFICES ASSUME NEW d \in running, Bears(d, name, c) PROVE B # {}
      OBVIOUS
    <3>1. CASE \E o \in running : world[o].name = name
      BY <2>2, <3>1 DEF BearsBest, Bears
    <3>2. CASE ~\E o \in running : world[o].name = name
      BY <2>2, <3>2 DEF BearsBest
    <3> QED
      BY <3>1, <3>2
  <2>4. B \subseteq running
    BY <1>1
  <2>5. B = {d \in running : BearsBest(d, name, c)}
    BY <2>2, <2>4
  <2>6. (\A d \in running : ~Bears(d, name, c)) => B = {}
    BY <2>5 DEF BearsBest
  <2> QED
    BY <1>3, <2>3, <2>5, <2>6 DEF B, name
<1> QED
  BY <1>2, <1>3

\* The container d is the one that the rule r of c leads to.
Reaches(r, c, d) ==
    /\ d \in running /\ BearsBest(d, r.container, c)
    /\ \E n \in DOMAIN PeerNets[c], m \in DOMAIN PeerNets[d] : SharedNet(r, c, n, d, m, PeerNets)

LEMMA ResolvedIs ==
    ASSUME world \in Worlds, running \subseteq DOMAIN world, NEW c \in running, ~Scope(c).err,
           NEW r, ~Resolved(r, Project(c), Scope(c).nets, Peers).err
    PROVE  LET P == Resolved(r, Project(c), Scope(c).nets, Peers) IN
           /\ P.rule = r
           /\ r.network # Unset => findNetwork(r.network, Project(c), Scope(c).nets) \in DOMAIN Scope(c).nets
           /\ r.container # Unset /\ r.network # Unset => \A d \in running : d = P.peer <=> Reaches(r, c, d)
           /\ P.peer \in running \cup {None}
           /\ P.peer # None => /\ ~Peers[P.peer].err /\ world[P.peer].enabled = "true"
                               /\ r.container # Unset /\ Bears(P.peer, r.container, c)
<1> DEFINE nets == Scope(c).nets
           project == Project(c)
           peers == Peers
           P == Resolved(r, project, nets, peers)
           B == BestMatches(r, project)
           src == findNetwork(r.network, project, nets)
           dst(d) == findNetwork(r.network, Project(d), peers[d].nets)
           C == Candidates(r, project, nets, peers)
<1>1. /\ P.rule = r
      /\ r.network # Unset => src # NoNet
      /\ ~PeerError(r, project, nets, peers)
      /\ P.peer = IF B = {} THEN None ELSE CHOOSE d \in C : TRUE
  BY DEF Resolved
<1>2. /\ c \in DOMAIN world /\ ~RunningScope(c).err /\ Scope(c) = RunningScope(c)
      /\ PeerNets[c] = nets
  BY PeerScope DEF PeerNets
<1>3. /\ NoNet \notin DOMAIN nets
      /\ \A n \in DOMAIN nets : nets[n] # NoEndpoint
  <2>1. /\ DOMAIN nets \subseteq Nat
        /\ \A n \in DOMAIN nets : nets[n] # NoEndpoint
    BY <1>2, SoundScope
  <2> QED
    BY <2>1, ConstantsAssumption
<1>4. r.network # Unset => src \in DOMAIN nets
  BY <1>1, <1>3, FindsNetwork
<1>5. CASE B = {}
  <2>1. P.peer = None
    BY <1>1, <1>5
  <2>2. \A d \in running : d # None
    BY Described
  <2>3. r.container # Unset => \A d \in running : ~Reaches(r, c, d)
    BY <1>5, BestAre DEF Reaches, BearsBest
  <2> HIDE DEF P
  <2> QED
    BY <1>1, <1>4, <2>1, <2>2, <2>3 DEF P
<1>6. CASE B # {}
  <2>1. r.container # Unset /\ B = {d \in running : BearsBest(d, r.container, c)}
    BY <1>6, BestAre
  <2>2. /\ \A d \in B : world[d].enabled = "true" /\ ~peers[d].err
        /\ Cardinality(C) = 1
    BY <1>1, <1>6 DEF PeerError
  <2>3. C = {d \in B : dst(d) # NoNet /\ sameDockerNetwork(src, nets[src], dst(d), peers[d].nets[dst(d)])}
    BY DEF Candidates
  <2> HIDE DEF C
  <2>4. PICK x : C = {x}
    <3>1. IsFiniteSet(DOMAIN world)
      BY WorldsAssumption
    <3>2. B \subseteq running
      BY <2>1
    <3>3. C \subseteq DOMAIN world
      BY <2>3, <3>2
    <3>4. IsFiniteSet(C)
      BY <3>1, <3>3, FS_Subset
    <3> QED
      BY <2>2, <3>4, FS_Singleton
  <2>5. P.peer = x /\ x \in B
    BY <1>1, <1>6, <2>3, <2>4
  <2>6. ASSUME NEW d \in B, r.network # Unset
        PROVE  d = x <=> Reaches(r, c, d)
    <3> DEFINE m == dst(d)
               dnets == peers[d].nets
    <3>1. d \in DOMAIN world /\ d \in running /\ ~peers[d].err
      BY <2>1, <2>2
    <3>2. ~RunningScope(d).err /\ dnets = RunningScope(d).nets /\ PeerNets[d] = dnets
      BY <3>1, PeerScope DEF PeerNets
    <3>3. DOMAIN dnets \subseteq Nat /\ \A k \in DOMAIN dnets : dnets[k] # NoEndpoint
      BY <3>1, <3>2, SoundScope
    <3>4. m \in DOMAIN dnets <=> m # NoNet
      <4>1. NoNet \notin DOMAIN dnets
        BY <3>3, ConstantsAssumption
      <4> HIDE DEF dnets
      <4> QED
        BY <4>1, FindsNetwork DEF dnets
    <3>5. Reaches(r, c, d) <=> m # NoNet /\ networkEndpointIdentity(src, nets[src]) = networkEndpointIdentity(m, dnets[m])
      <4>1. BearsBest(d, r.container, c)
        BY <2>1
      <4>2. \A n, k : SharedNet(r, c, n, d, k, PeerNets) <=>
               /\ n = src /\ k = m /\ NoNet \notin {n, k}
               /\ networkEndpointIdentity(n, nets[n]) = networkEndpointIdentity(k, dnets[k])
        BY <1>2, <3>2 DEF SharedNet
      <4>3. Reaches(r, c, d) <=> \E n \in DOMAIN nets, k \in DOMAIN dnets : SharedNet(r, c, n, d, k, PeerNets)
        BY <1>2, <3>1, <3>2, <4>1 DEF Reaches
      <4>4. src \in DOMAIN nets /\ src # NoNet
        BY <1>1, <1>4, <2>6
      <4> HIDE DEF src, m, nets, dnets
      <4> QED
        BY <3>4, <4>2, <4>3, <4>4
    <3>6. m # NoNet => (sameDockerNetwork(src, nets[src], m, dnets[m]) <=>
                          networkEndpointIdentity(src, nets[src]) = networkEndpointIdentity(m, dnets[m]))
      <4>1. m # NoNet => nets[src] # NoEndpoint /\ dnets[m] # NoEndpoint
        BY <1>3, <1>4, <2>6, <3>3, <3>4
      <4> HIDE DEF src, m, nets, dnets
      <4> QED
        BY <4>1, SameNetwork
    <3>7. d \in C <=> m # NoNet /\ sameDockerNetwork(src, nets[src], m, dnets[m])
      BY <2>3
    <3> HIDE DEF src, m, nets, dnets
    <3> QED
      BY <2>4, <3>5, <3>6, <3>7
  <2>7. r.network # Unset => \A d \in running : d = P.peer <=> Reaches(r, c, d)
    BY <2>1, <2>5, <2>6 DEF Reaches
  <2>8. /\ P.peer \in running /\ ~peers[P.peer].err /\ world[P.peer].enabled = "true"
        /\ Bears(P.peer, r.container, c)
    BY <2>1, <2>2, <2>5 DEF BearsBest
  <2> HIDE DEF P
  <2> QED
    BY <1>1, <1>4, <2>1, <2>7, <2>8 DEF P
<1> QED
  BY <1>5, <1>6

-----------------------------------------------------------------------------
(* What the output rules of a sound policy open *)

Populated(c) ==
    IF RulesLabel(c) = Unset THEN <<>>
    ELSE populateOutputRules(normalizeConfig(RulesLabel(c)), Project(c), Scope(c).nets, Peers)

\* The policy of c gets as far as the output rules.
Sound(c) ==
    /\ world \in Worlds /\ running \subseteq DOMAIN world /\ c \in running /\ ~Scope(c).err
    /\ RulesLabel(c) # Unreadable /\ (RulesLabel(c) # Unset => ~validateConfig(RulesLabel(c)))
    /\ \A P \in ToSet(Populated(c)) : ~P.err

LEMMA SoundFacts ==
    ASSUME NEW c, Sound(c)
    PROVE  /\ c \in DOMAIN world /\ Scope(c) = RunningScope(c) /\ ~RunningScope(c).err
           /\ AddrsOK(Scope(c)) /\ DOMAIN Scope(c).addrs = DOMAIN Scope(c).nets
           /\ NoNet \notin DOMAIN Scope(c).nets /\ PeerNets[c] = Scope(c).nets
           /\ \A n \in DOMAIN Scope(c).nets :
                /\ Scope(c).addrs[n] = Scope(c).nets[n].addr /\ Scope(c).nets[n].addr \in ManagedAddrs(world[c])
                /\ Scope(c).nets[n].addr \in Addrs /\ Scope(c).nets[n] = world[c].nets[n]
           /\ \A a : a \in Range(Scope(c).addrs) <=> a \in ManagedAddrs(world[c])
<1>1. world \in Worlds /\ c \in DOMAIN world /\ c \in running /\ ~Scope(c).err
  BY DEF Sound
<1>2. Scope(c) = RunningScope(c) /\ ~RunningScope(c).err /\ PeerNets[c] = Scope(c).nets
  BY <1>1, PeerScope DEF PeerNets
<1> DEFINE s == RunningScope(c)
<1>3. /\ IsFiniteSet(DOMAIN s.nets) /\ DOMAIN s.nets \subseteq Nat /\ DOMAIN s.addrs = DOMAIN s.nets
      /\ \A n \in DOMAIN s.nets :
           /\ s.nets[n] = world[c].nets[n] /\ s.nets[n].addr \in Addrs /\ s.addrs[n] = s.nets[n].addr
           /\ s.nets[n].addr \in ManagedAddrs(world[c])
  BY <1>1, <1>2, SoundScope
<1>4. ManagedAddrs(world[c]) = Range(s.addrs)
  BY <1>1, Described
<1>5. NoNet \notin DOMAIN s.nets
  BY <1>3, ConstantsAssumption
<1> HIDE DEF s
<1>6. AddrsOK(s)
  BY <1>3 DEF AddrsOK
<1> QED
  BY <1>1, <1>2, <1>3, <1>4, <1>5, <1>6 DEF s

LEMMA LabelOK ==
    ASSUME world \in Worlds, NEW c \in DOMAIN world, RulesLabel(c) \notin {Unset, Unreadable}
    PROVE  ConfigOK(RulesLabel(c)) /\ RulesLabel(c) = world[c].rules /\ world[c].enabled # "invalid"
BY Described DEF RulesLabel, ContainerOK

LEMMA PopulatedHolds ==
    ASSUME NEW c, Sound(c)
    PROVE  /\ IsSequence(Populated(c))
           /\ \A P \in ToSet(Populated(c)) :
                /\ P = Resolved(P.rule, Project(c), Scope(c).nets, Peers)
                /\ \E r \in OutputOf(c) : From(P.rule, r)
           /\ \A r \in OutputOf(c) : \E P \in ToSet(Populated(c)) : From(P.rule, r)
           /\ \A r \in OutputOf(c) : \A name \in Names(r) :
                \E P \in ToSet(Populated(c)) : From(P.rule, r) /\ P.rule.container = name
<1>1. world \in Worlds /\ c \in DOMAIN world
  BY DEF Sound
<1>2. CASE RulesLabel(c) = Unset
  <2>1. Populated(c) = <<>> /\ OutputOf(c) = {}
    BY <1>2 DEF Populated, OutputOf
  <2> QED
    BY <2>1, EmptySequence
<1>3. CASE RulesLabel(c) # Unset
  <2> DEFINE cfg == RulesLabel(c)
             out == normalizeConfig(cfg)
             R(q) == Resolved(q, Project(c), Scope(c).nets, Peers)
             t == Populated(c)
  <2>1. ConfigOK(cfg) /\ ~validateConfig(cfg)
    BY <1>1, <1>3, LabelOK DEF Sound
  <2>2. OutputOf(c) = ToSet(cfg.output)
    BY <1>3 DEF OutputOf
  <2>3. t = [i \in DOMAIN out |-> R(out[i])]
    BY <1>3 DEF Populated, populateOutputRules
  <2>4. \A q : R(q).rule = q
    BY DEF Resolved
  <2> HIDE DEF cfg, R, t
  <2>5. /\ IsSequence(out)
        /\ \A q \in ToSet(out) : \E r \in ToSet(cfg.output) : From(q, r)
        /\ \A r \in ToSet(cfg.output) : \A name \in Names(r) : \E q \in ToSet(out) : From(q, r) /\ q.container = name
        /\ \A r \in ToSet(cfg.output) : \E q \in ToSet(out) : From(q, r)
    BY <2>1, NormalizedHolds
  <2> HIDE DEF out
  <2>6. Len(out) \in Nat /\ DOMAIN out = 1..Len(out) /\ ToSet(out) = {out[i] : i \in 1..Len(out)}
    BY <2>5, SequenceIs
  <2> DEFINE T == {R(q) : q \in ToSet(out)}
  <2>7. t \in Seq(T)
    <3>1. t \in [1..Len(out) -> T]
      BY <2>3, <2>6
    <3> HIDE DEF T
    <3> QED
      BY <2>6, <3>1
  <2>8. IsSequence(t)
    BY <2>7, SequenceOf
  <2>9. ToSet(t) = T
    <3>1. ToSet(t) = {t[i] : i \in DOMAIN t}
      BY DEF ToSet
    <3>2. DOMAIN t = 1..Len(out) /\ \A i \in 1..Len(out) : t[i] = R(out[i])
      BY <2>3, <2>6
    <3> QED
      BY <2>6, <3>1, <3>2
  <2>10. \A P \in ToSet(t) : P = R(P.rule) /\ P.rule \in ToSet(out)
    BY <2>4, <2>9
  <2>11. \A q \in ToSet(out) : R(q) \in ToSet(t) /\ R(q).rule = q
    BY <2>4, <2>9
  <2> HIDE DEF T
  <2>12. /\ \A P \in ToSet(t) : P = R(P.rule) /\ \E r \in OutputOf(c) : From(P.rule, r)
         /\ \A r \in OutputOf(c) : \E P \in ToSet(t) : From(P.rule, r)
    BY <2>2, <2>5, <2>10, <2>11
  <2>13. \A r \in OutputOf(c) : \A name \in Names(r) :
                \E P \in ToSet(t) : From(P.rule, r) /\ P.rule.container = name
    <3> SUFFICES ASSUME NEW r \in OutputOf(c), NEW name \in Names(r)
                 PROVE  \E P \in ToSet(t) : From(P.rule, r) /\ P.rule.container = name
      OBVIOUS
    <3>1. PICK q \in ToSet(out) : From(q, r) /\ q.container = name
      BY <2>2, <2>5
    <3>2. R(q) \in ToSet(t) /\ R(q).rule = q
      BY <2>11
    <3> QED
      BY <3>1, <3>2
  <2> QED
    BY <2>8, <2>12, <2>13 DEF t, R
<1> QED
  BY <1>2, <1>3

\* A peer that a populated rule leads to.
LEMMA PopulatedPeer ==
    ASSUME NEW c, Sound(c), NEW P \in ToSet(Populated(c))
    PROVE  /\ PartsOK(P.rule) /\ P.rule.ips \in {Unset} \cup Lists(AddrTop)
           /\ P.rule.container # Unset => P.rule.network # Unset
           /\ P.rule.network # Unset => findNetwork(P.rule.network, Project(c), Scope(c).addrs) \in DOMAIN Scope(c).addrs
           /\ P.rule.network # Unset =>
                findNetwork(P.rule.network, Project(c), Scope(c).addrs) = findNetwork(P.rule.network, Project(c), Scope(c).nets)
           /\ P.peer \in running \cup {None}
           /\ P.rule.container # Unset => \A d \in running : d = P.peer <=> Reaches(P.rule, c, d)
           /\ P.peer # None => /\ ~Peers[P.peer].err /\ world[P.peer].enabled = "true"
                               /\ P.rule.container # Unset /\ Bears(P.peer, P.rule.container, c)
<1> DEFINE r == P.rule
           s == Scope(c)
<1>1. PICK q \in OutputOf(c) : From(r, q)
  BY PopulatedHolds
<1>2. /\ PartsOK(r) /\ r.ips \in {Unset} \cup Lists(AddrTop)
      /\ r.container # Unset => r.network # Unset
  BY <1>1, RuleParts DEF From
<1>3. P = Resolved(r, Project(c), s.nets, Peers) /\ ~P.err
  BY PopulatedHolds DEF Sound
<1>4. /\ r.network # Unset => findNetwork(r.network, Project(c), s.nets) \in DOMAIN s.nets
      /\ r.container # Unset /\ r.network # Unset => \A d \in running : d = P.peer <=> Reaches(r, c, d)
      /\ P.peer \in running \cup {None}
      /\ P.peer # None => /\ ~Peers[P.peer].err /\ world[P.peer].enabled = "true"
                          /\ r.container # Unset /\ Bears(P.peer, r.container, c)
  <2> DEFINE x == Resolved(r, Project(c), s.nets, Peers)
  <2>1. P = x
    BY <1>3
  <2>2. world \in Worlds /\ running \subseteq DOMAIN world /\ c \in running /\ ~s.err /\ ~x.err
    BY <1>3, <2>1 DEF Sound
  <2> HIDE DEF r
  <2>3. /\ r.network # Unset => findNetwork(r.network, Project(c), s.nets) \in DOMAIN s.nets
        /\ r.container # Unset /\ r.network # Unset => \A d \in running : d = x.peer <=> Reaches(r, c, d)
        /\ x.peer \in running \cup {None}
        /\ x.peer # None => /\ ~Peers[x.peer].err /\ world[x.peer].enabled = "true"
                            /\ r.container # Unset /\ Bears(x.peer, r.container, c)
    BY <2>2, ResolvedIs
  <2> HIDE DEF x, s
  <2> QED
    BY <2>1, <2>3
<1>5. findNetwork(r.network, Project(c), s.addrs) = findNetwork(r.network, Project(c), s.nets) /\ DOMAIN s.addrs = DOMAIN s.nets
  BY SoundFacts, FindsNetwork
<1> QED
  BY <1>2, <1>4, <1>5

LEMMA ReachesOn ==
    ASSUME world \in Worlds, running \subseteq DOMAIN world, NEW c, NEW r, NEW d, Reaches(r, c, d), ~Peers[d].err
    PROVE  LET m == findNetwork(r.network, Project(d), Peers[d].nets) IN
           /\ m \in DOMAIN Peers[d].nets /\ PeerNets[d] = Peers[d].nets
           /\ AddrOn(d, r.network, Peers[d].nets) = Peers[d].nets[m].addr
           /\ Peers[d].nets[m].addr \in Addrs /\ Peers[d].nets[m].addr \in ManagedAddrs(world[d])
           /\ SharedNet(r, c, findNetwork(r.network, Project(c), PeerNets[c]), d, m, PeerNets)
<1> DEFINE m == findNetwork(r.network, Project(d), Peers[d].nets)
<1>1. d \in running /\ d \in DOMAIN world /\ PeerNets[d] = Peers[d].nets
  BY DEF Reaches, PeerNets
<1>2. PICK n \in DOMAIN PeerNets[c], k \in DOMAIN PeerNets[d] : SharedNet(r, c, n, d, k, PeerNets)
  BY DEF Reaches
<1>3. n = findNetwork(r.network, Project(c), PeerNets[c]) /\ k = m
  BY <1>1, <1>2 DEF SharedNet
<1>4. ~RunningScope(d).err /\ Peers[d].nets = RunningScope(d).nets
  BY <1>1, PeerScope
<1>5. Peers[d].nets[m].addr \in Addrs /\ Peers[d].nets[m].addr \in ManagedAddrs(world[d])
  <2>1. m \in DOMAIN RunningScope(d).nets
    BY <1>1, <1>2, <1>3, <1>4
  <2>2. RunningScope(d).nets[m].addr \in Addrs /\ RunningScope(d).nets[m].addr \in ManagedAddrs(world[d])
    BY <1>1, <1>4, <2>1, SoundScope
  <2> QED
    BY <1>4, <2>2
<1> QED
  BY <1>1, <1>2, <1>3, <1>5 DEF AddrOn

LEMMA PopulatedIsOK ==
    ASSUME NEW c, Sound(c), NEW known, known \subseteq DOMAIN world, NEW P \in ToSet(Populated(c))
    PROVE  PopulatedOK(c, P, known, Scope(c), Peers)
<1>1. ToPeer(P) /\ P.peer \in known => AddrOn(P.peer, P.rule.network, Peers[P.peer].nets) \in Addrs
  <2> SUFFICES ASSUME ToPeer(P), P.peer \in known PROVE AddrOn(P.peer, P.rule.network, Peers[P.peer].nets) \in Addrs
    OBVIOUS
  <2>0. world \in Worlds /\ running \subseteq DOMAIN world
    BY DEF Sound
  <2>1. P.peer # None
    BY <2>0, Described
  <2>2. P.peer \in running /\ Reaches(P.rule, c, P.peer) /\ ~Peers[P.peer].err
    BY <2>1, PopulatedPeer
  <2> QED
    BY <2>0, <2>2, ReachesOn
<1> QED
  BY <1>1, PopulatedPeer DEF PopulatedOK

\* What an output rule grants while the containers of known are.
SentToIn(c, r, p, nets, known) ==
    \E n \in DOMAIN nets[c] :
        /\ nets[c][n].addr = p.src
        /\ IF Names(r) = {}
           THEN /\ r.network = Unset \/ n = findNetwork(r.network, Project(c), nets[c])
                /\ r.ips = Unset \/ \E e \in ToSet(r.ips) : e.low <= p.dst /\ p.dst <= e.high
           ELSE \E d \in running \cap known : \E m \in DOMAIN nets[d], name \in Names(r) :
                  BearsBest(d, name, c) /\ SharedNet(r, c, n, d, m, nets) /\ nets[d][m].addr = p.dst
OutGrantedIn(c, p, nets, known) == \E r \in OutputOf(c) : Carries(r, p) /\ SentToIn(c, r, p, nets, known)

LEMMA FromFields ==
    ASSUME NEW q, NEW r, From(q, r), NEW c
    PROVE  /\ \A p : Carries(q, p) <=> Carries(r, p)
           /\ q.network = r.network /\ q.ips = r.ips /\ (HasIPs(r) => r.ips # <<>>)
           /\ Names(r) = {} <=> q.container = Unset
           /\ Names(r) # {} => q.container \in Names(r) /\ q.network # Unset
           /\ \A n, d, m, nets : SharedNet(q, c, n, d, m, nets) <=> SharedNet(r, c, n, d, m, nets)
BY DEF From, Carries, HasIPs, SharedNet

\* Without a name.
LEMMA AnonymousCovers ==
    ASSUME NEW c, Sound(c), NEW known, NEW P \in ToSet(Populated(c)), NEW r, From(P.rule, r), Names(r) = {}, NEW q
    PROVE  OutCovers(c, P, q, known, Scope(c), Peers) <=> Carries(r, q) /\ SentToIn(c, r, q, PeerNets, known)
<1> DEFINE x == P.rule
           s == Scope(c)
           at == findNetwork(x.network, Project(c), s.addrs)
           ips == r.ips = Unset \/ \E e \in ToSet(r.ips) : e.low <= q.dst /\ q.dst <= e.high
<1>1. /\ Carries(x, q) <=> Carries(r, q)
      /\ x.network = r.network /\ x.ips = r.ips /\ (HasIPs(r) => r.ips # <<>>) /\ x.container = Unset
  BY FromFields
<1>2. (HasIPs(x) => Selects(x.ips, q.dst)) <=> ips
  BY <1>1 DEF HasIPs, Selects
<1>3. /\ DOMAIN s.addrs = DOMAIN s.nets /\ PeerNets[c] = s.nets
      /\ \A n \in DOMAIN s.nets : s.addrs[n] = s.nets[n].addr
  BY SoundFacts
<1>4. x.network # Unset => at \in DOMAIN s.addrs /\ at = findNetwork(x.network, Project(c), s.nets)
  BY PopulatedPeer
<1>5. OutCovers(c, P, q, known, s, Peers) <=>
         /\ Carries(r, q) /\ ips
         /\ IF x.network = Unset THEN \E n \in DOMAIN s.addrs : s.addrs[n] = q.src ELSE s.addrs[at] = q.src
  <2> HIDE DEF ips
  <2> QED
    BY <1>1, <1>2 DEF OutCovers, OwnCovers
<1>6. SentToIn(c, r, q, PeerNets, known) <=>
         /\ ips
         /\ \E n \in DOMAIN s.nets : s.nets[n].addr = q.src /\ (r.network = Unset \/ n = findNetwork(r.network, Project(c), s.nets))
  <2>1. SentToIn(c, r, q, PeerNets, known) <=>
         \E n \in DOMAIN s.nets : /\ s.nets[n].addr = q.src
                                  /\ (r.network = Unset \/ n = findNetwork(r.network, Project(c), s.nets)) /\ ips
    BY <1>3 DEF SentToIn
  <2> HIDE DEF ips
  <2> QED
    BY <2>1
<1> HIDE DEF ips, s, at, x
<1>7. x.network = Unset => ((\E n \in DOMAIN s.addrs : s.addrs[n] = q.src) <=>
         \E n \in DOMAIN s.nets : s.nets[n].addr = q.src /\ (r.network = Unset \/ n = findNetwork(r.network, Project(c), s.nets)))
  BY <1>1, <1>3
<1>8. x.network # Unset => (s.addrs[at] = q.src <=>
         \E n \in DOMAIN s.nets : s.nets[n].addr = q.src /\ (r.network = Unset \/ n = findNetwork(r.network, Project(c), s.nets)))
  BY <1>1, <1>3, <1>4
<1> QED
  BY <1>5, <1>6, <1>7, <1>8 DEF s

\* With a name.
LEMMA NamedCovers ==
    ASSUME NEW c, Sound(c), NEW known, known \subseteq DOMAIN world, NEW P \in ToSet(Populated(c)),
           NEW r, From(P.rule, r), Names(r) # {}, NEW q
    PROVE  /\ OutCovers(c, P, q, known, Scope(c), Peers) => Carries(r, q) /\ SentToIn(c, r, q, PeerNets, known)
           /\ \A n, d, m : (/\ Carries(r, q) /\ n \in DOMAIN PeerNets[c] /\ PeerNets[c][n].addr = q.src
                            /\ d \in running \cap known /\ m \in DOMAIN PeerNets[d] /\ BearsBest(d, P.rule.container, c)
                            /\ SharedNet(r, c, n, d, m, PeerNets) /\ PeerNets[d][m].addr = q.dst)
                             => OutCovers(c, P, q, known, Scope(c), Peers) /\ d = P.peer
<1> DEFINE x == P.rule
           s == Scope(c)
           at == findNetwork(x.network, Project(c), s.addrs)
           d0 == P.peer
           m0 == findNetwork(x.network, Project(d0), Peers[d0].nets)
<1>0. world \in Worlds /\ running \subseteq DOMAIN world
  BY DEF Sound
<1>1. /\ Carries(x, q) <=> Carries(r, q)
      /\ x.network = r.network /\ x.network # Unset /\ x.container # Unset /\ x.container \in Names(r)
      /\ \A n, d, m : SharedNet(x, c, n, d, m, PeerNets) <=> SharedNet(r, c, n, d, m, PeerNets)
  BY FromFields
<1>2. /\ DOMAIN s.addrs = DOMAIN s.nets /\ PeerNets[c] = s.nets
      /\ \A n \in DOMAIN s.nets : s.addrs[n] = s.nets[n].addr
  BY SoundFacts
<1>3. at \in DOMAIN s.addrs /\ at = findNetwork(x.network, Project(c), s.nets)
  BY <1>1, PopulatedPeer
<1>4. OutCovers(c, P, q, known, s, Peers) <=>
         /\ d0 \in known /\ s.addrs[at] = q.src /\ AddrOn(d0, x.network, Peers[d0].nets) = q.dst /\ Carries(r, q)
  BY <1>1 DEF OutCovers, EdgeCovers
<1>5. d0 \in known => /\ d0 \in running /\ Reaches(x, c, d0) /\ ~Peers[d0].err
  <2>1. d0 \in known => d0 # None
    BY <1>0, Described
  <2> QED
    BY <1>1, <2>1, PopulatedPeer
<1>6. d0 \in known => /\ m0 \in DOMAIN PeerNets[d0] /\ PeerNets[d0] = Peers[d0].nets
                      /\ AddrOn(d0, x.network, Peers[d0].nets) = PeerNets[d0][m0].addr
                      /\ SharedNet(x, c, at, d0, m0, PeerNets)
  <2> SUFFICES ASSUME d0 \in known
               PROVE  /\ m0 \in DOMAIN PeerNets[d0] /\ PeerNets[d0] = Peers[d0].nets
                      /\ AddrOn(d0, x.network, Peers[d0].nets) = PeerNets[d0][m0].addr
                      /\ SharedNet(x, c, at, d0, m0, PeerNets)
    OBVIOUS
  <2>1. d0 \in running /\ Reaches(x, c, d0) /\ ~Peers[d0].err
    BY <1>5
  <2>2. /\ m0 \in DOMAIN Peers[d0].nets /\ PeerNets[d0] = Peers[d0].nets
        /\ AddrOn(d0, x.network, Peers[d0].nets) = Peers[d0].nets[m0].addr
        /\ SharedNet(x, c, findNetwork(x.network, Project(c), PeerNets[c]), d0, m0, PeerNets)
    <3> HIDE DEF x, d0
    <3> QED
      BY <1>0, <2>1, ReachesOn
  <2> QED
    BY <1>2, <1>3, <2>2
<1>7. ASSUME OutCovers(c, P, q, known, s, Peers)
      PROVE  Carries(r, q) /\ SentToIn(c, r, q, PeerNets, known)
  <2>1. /\ at \in DOMAIN PeerNets[c] /\ PeerNets[c][at].addr = q.src /\ d0 \in running \cap known
        /\ m0 \in DOMAIN PeerNets[d0] /\ x.container \in Names(r) /\ SharedNet(r, c, at, d0, m0, PeerNets)
        /\ PeerNets[d0][m0].addr = q.dst /\ BearsBest(d0, x.container, c) /\ Carries(r, q)
    BY <1>1, <1>2, <1>3, <1>4, <1>5, <1>6, <1>7 DEF Reaches
  <2> HIDE DEF x, at, d0, m0
  <2> QED
    BY <2>1 DEF SentToIn
<1>8. ASSUME NEW n, NEW d, NEW m, Carries(r, q), n \in DOMAIN PeerNets[c], PeerNets[c][n].addr = q.src,
             d \in running \cap known, m \in DOMAIN PeerNets[d], BearsBest(d, x.container, c),
             SharedNet(r, c, n, d, m, PeerNets), PeerNets[d][m].addr = q.dst
      PROVE  OutCovers(c, P, q, known, s, Peers) /\ d = P.peer
  <2>1. SharedNet(x, c, n, d, m, PeerNets)
    BY <1>1, <1>8
  <2>2. Reaches(x, c, d)
    BY <1>8, <2>1 DEF Reaches
  <2>3. d = d0
    BY <1>1, <1>8, <2>2, PopulatedPeer
  <2>4. n = findNetwork(x.network, Project(c), PeerNets[c]) /\ m = findNetwork(x.network, Project(d), PeerNets[d])
    BY <2>1 DEF SharedNet
  <2>5. n = at /\ m = m0 /\ d0 \in known
    BY <1>2, <1>3, <1>6, <1>8, <2>3, <2>4
  <2> HIDE DEF x, at, d0, m0
  <2>6. s.addrs[at] = q.src /\ AddrOn(d0, x.network, Peers[d0].nets) = q.dst
    BY <1>2, <1>3, <1>6, <1>8, <2>3, <2>5
  <2> QED
    BY <1>4, <1>8, <2>3, <2>5, <2>6 DEF d0
<1> QED
  BY <1>7, <1>8

\* The populated rules open what the labels grant.
LEMMA OutGrantedIs ==
    ASSUME NEW c, Sound(c), NEW known, known \subseteq DOMAIN world, NEW q
    PROVE  (\E P \in ToSet(Populated(c)) : OutCovers(c, P, q, known, Scope(c), Peers)) <=> OutGrantedIn(c, q, PeerNets, known)
<1>1. ASSUME NEW P \in ToSet(Populated(c)), OutCovers(c, P, q, known, Scope(c), Peers)
      PROVE  OutGrantedIn(c, q, PeerNets, known)
  <2>1. PICK r \in OutputOf(c) : From(P.rule, r)
    BY PopulatedHolds
  <2>2. Carries(r, q) /\ SentToIn(c, r, q, PeerNets, known)
    BY <1>1, <2>1, AnonymousCovers, NamedCovers
  <2> QED
    BY <2>2 DEF OutGrantedIn
<1>2. ASSUME OutGrantedIn(c, q, PeerNets, known)
      PROVE  \E P \in ToSet(Populated(c)) : OutCovers(c, P, q, known, Scope(c), Peers)
  <2>1. PICK r \in OutputOf(c) : Carries(r, q) /\ SentToIn(c, r, q, PeerNets, known)
    BY <1>2 DEF OutGrantedIn
  <2>2. CASE Names(r) = {}
    <3>1. PICK P \in ToSet(Populated(c)) : From(P.rule, r)
      BY PopulatedHolds
    <3> QED
      BY <2>1, <2>2, <3>1, AnonymousCovers
  <2>3. CASE Names(r) # {}
    <3>1. PICK n \in DOMAIN PeerNets[c], d \in running \cap known : \E m \in DOMAIN PeerNets[d], name \in Names(r) :
             /\ PeerNets[c][n].addr = q.src /\ BearsBest(d, name, c)
             /\ SharedNet(r, c, n, d, m, PeerNets) /\ PeerNets[d][m].addr = q.dst
      BY <2>1, <2>3 DEF SentToIn
    <3>2. PICK m \in DOMAIN PeerNets[d], name \in Names(r) :
             /\ PeerNets[c][n].addr = q.src /\ BearsBest(d, name, c)
             /\ SharedNet(r, c, n, d, m, PeerNets) /\ PeerNets[d][m].addr = q.dst
      BY <3>1
    <3>3. PICK P \in ToSet(Populated(c)) : From(P.rule, r) /\ P.rule.container = name
      BY PopulatedHolds
    <3> QED
      BY <2>1, <2>3, <3>2, <3>3, NamedCovers
  <2> QED
    BY <2>2, <2>3
<1> QED
  BY <1>1, <1>2

\* What createOutputRules installs.
LEMMA OutboundHolds ==
    ASSUME NEW c, Sound(c), NEW known, known \subseteq DOMAIN world
    PROVE  LET R == createOutputRules(c, Populated(c), known, Scope(c), Peers) IN
           /\ IsSequence(R)
           /\ ToSet(R) = UNION {ToSet(OutputRules(c, P, known, Scope(c), Peers)) : P \in ToSet(Populated(c))}
           /\ \A e \in ToSet(R) : ~e.drop /\ e.chain \in known \cup {c}
           /\ \A p, x : PacketOK(p) =>
                (Hits(R, x, p) <=> \E P \in ToSet(Populated(c)) :
                   \/ x = c /\ OutCovers(c, P, p, known, Scope(c), Peers)
                   \/ x = EstAt(c, P) /\ p.st = "est" /\ OutCovers(c, P, Reply(p), known, Scope(c), Peers))
<1> DEFINE t == Populated(c)
           s == Scope(c)
           R == createOutputRules(c, t, known, s, Peers)
           f == [P \in ToSet(t) |-> OutputRules(c, P, known, s, Peers)]
<1>1. IsSequence(t) /\ AddrsOK(s)
  BY PopulatedHolds, SoundFacts
<1>2. \A P \in ToSet(t) :
        /\ f[P] = OutputRules(c, P, known, s, Peers) /\ IsSequence(f[P])
        /\ \A e \in ToSet(f[P]) : ~e.drop /\ e.chain \in known \cup {c}
        /\ \A p, x : PacketOK(p) =>
             (Hits(f[P], x, p) <=> \/ x = c /\ OutCovers(c, P, p, known, s, Peers)
                                   \/ x = EstAt(c, P) /\ p.st = "est" /\ OutCovers(c, P, Reply(p), known, s, Peers))
  <2> SUFFICES ASSUME NEW P \in ToSet(t)
               PROVE  /\ f[P] = OutputRules(c, P, known, s, Peers) /\ IsSequence(f[P])
                      /\ \A e \in ToSet(f[P]) : ~e.drop /\ e.chain \in known \cup {c}
                      /\ \A p, x : PacketOK(p) =>
                           (Hits(f[P], x, p) <=>
                              \/ x = c /\ OutCovers(c, P, p, known, s, Peers)
                              \/ x = EstAt(c, P) /\ p.st = "est" /\ OutCovers(c, P, Reply(p), known, s, Peers))
    OBVIOUS
  <2>1. f[P] = OutputRules(c, P, known, s, Peers)
    OBVIOUS
  <2>2. PopulatedOK(c, P, known, s, Peers)
    BY PopulatedIsOK
  <2> HIDE DEF f, s
  <2>3. /\ IsSequence(f[P])
        /\ \A e \in ToSet(f[P]) : ~e.drop /\ (e.chain = c \/ (e.chain = P.peer /\ P.peer \in known))
    BY <1>1, <2>1, <2>2, OutputRulesAre
  <2>4. \A p, x : PacketOK(p) =>
           (Hits(f[P], x, p) <=> \/ x = c /\ OutCovers(c, P, p, known, s, Peers)
                                 \/ x = EstAt(c, P) /\ p.st = "est" /\ OutCovers(c, P, Reply(p), known, s, Peers))
    BY <1>1, <2>1, <2>2, OutputRulesAre
  <2> QED
    BY <2>1, <2>3, <2>4
<1>3. [i \in DOMAIN t |-> OutputRules(c, t[i], known, s, Peers)] = [i \in DOMAIN t |-> f[t[i]]]
  BY DEF ToSet
<1>4. R = FlattenSeq([i \in DOMAIN t |-> f[t[i]]])
  BY <1>3 DEF createOutputRules, Concat
<1> HIDE DEF f, R, t, s
<1>5. IsSequence(R) /\ ToSet(R) = UNION {ToSet(f[P]) : P \in ToSet(t)}
  BY <1>1, <1>2, <1>4, MapHolds
<1>6. UNION {ToSet(f[P]) : P \in ToSet(t)} = UNION {ToSet(OutputRules(c, P, known, s, Peers)) : P \in ToSet(t)}
  BY <1>2
<1>7. \A e \in ToSet(R) : ~e.drop /\ e.chain \in known \cup {c}
  BY <1>2, <1>5
<1>8. \A p, x : Hits(R, x, p) <=> \E P \in ToSet(t) : Hits(f[P], x, p)
  BY <1>5 DEF Hits
<1>9. \A p, x : PacketOK(p) =>
           (Hits(R, x, p) <=> \E P \in ToSet(t) :
                 \/ x = c /\ OutCovers(c, P, p, known, s, Peers)
                 \/ x = EstAt(c, P) /\ p.st = "est" /\ OutCovers(c, P, Reply(p), known, s, Peers))
  BY <1>2, <1>8
<1> QED
  BY <1>5, <1>6, <1>7, <1>9 DEF R, t, s

-----------------------------------------------------------------------------
(* Rows that wait for a container *)

\* A persisted row is of a rule of its source's label.
WaitOK(w) ==
    /\ w.src \in DOMAIN world /\ w.project = Project(w.src)
    /\ RulesLabel(w.src) \notin {Unset, Unreadable}
    /\ \E r \in OutputOf(w.src) : From(w.rule, r)
    /\ w.rule.container # Unset
    /\ w.resolved # None => Bears(w.resolved, w.rule.container, w.src)

\* The rows of a table that become an edge to c.
EdgeRows(c, table, known) ==
    {w \in RowsFor(c, table, known) : WaitingFate(c, w, Scope(c), Peers[w.src]) = "edge"}

LEMMA EdgeFate ==
    ASSUME world \in Worlds, running \subseteq DOMAIN world, NEW c \in running, ~Scope(c).err,
           NEW table, NEW known, NEW w \in EdgeRows(c, table, known), WaitOK(w)
    PROVE  LET n == findNetwork(w.rule.network, Project(w.src), PeerNets[w.src])
               m == findNetwork(w.rule.network, Project(c), PeerNets[c])
           IN  /\ w \in table /\ w.src \in known /\ w.src \in running /\ ~Peers[w.src].err /\ world[w.src].enabled = "true"
               /\ PeerNets[w.src] = Peers[w.src].nets /\ PeerNets[c] = Scope(c).nets
               /\ n \in DOMAIN PeerNets[w.src] /\ m \in DOMAIN PeerNets[c]
               /\ SharedNet(w.rule, w.src, n, c, m, PeerNets)
               /\ AddrOn(w.src, w.rule.network, Peers[w.src].nets) = PeerNets[w.src][n].addr
               /\ AddrOn(c, w.rule.network, Scope(c).nets) = PeerNets[c][m].addr
               /\ PeerNets[w.src][n].addr \in Addrs \cap ManagedAddrs(world[w.src])
               /\ PeerNets[c][m].addr \in Addrs \cap ManagedAddrs(world[c])
               /\ w.resolved \in {None, c} /\ Bears(c, w.rule.container, w.src)
<1> DEFINE d == w.src
           nets == Scope(c).nets
           src == Peers[d]
           at == findNetwork(w.rule.network, Project(c), nets)
           from == findNetwork(w.rule.network, Project(d), src.nets)
<1>1. /\ w \in table /\ d \in known /\ w.rule.container \in {world[c].name, world[c].service}
      /\ WaitingFate(c, w, Scope(c), src) = "edge"
  BY DEF EdgeRows, RowsFor
<1>2. /\ Applies(c, w) /\ at # NoNet /\ world[d].enabled = "true" /\ ~src.err /\ from # NoNet
      /\ sameDockerNetwork(from, src.nets[from], at, nets[at])
  BY <1>1 DEF WaitingFate
<1>3. d \in DOMAIN world /\ c \in DOMAIN world
  BY DEF WaitOK
<1>4. /\ d \in running /\ ~RunningScope(d).err /\ src.nets = RunningScope(d).nets /\ PeerNets[d] = src.nets
      /\ ~RunningScope(c).err /\ Scope(c) = RunningScope(c) /\ PeerNets[c] = nets
  BY <1>2, <1>3, PeerScope DEF PeerNets
<1>5. /\ DOMAIN src.nets \subseteq Nat
      /\ \A n \in DOMAIN src.nets : src.nets[n] # NoEndpoint /\ src.nets[n].addr \in Addrs \cap ManagedAddrs(world[d])
  BY <1>3, <1>4, SoundScope
<1>6. /\ DOMAIN nets \subseteq Nat
      /\ \A n \in DOMAIN nets : nets[n] # NoEndpoint /\ nets[n].addr \in Addrs \cap ManagedAddrs(world[c])
  BY <1>3, <1>4, SoundScope
<1>7. at \in DOMAIN nets
  <2>1. NoNet \notin DOMAIN nets
    BY <1>6, ConstantsAssumption
  <2> HIDE DEF nets
  <2> QED
    BY <1>2, <2>1, FindsNetwork
<1>8. from \in DOMAIN src.nets
  <2>1. NoNet \notin DOMAIN src.nets
    BY <1>5, ConstantsAssumption
  <2> QED
    BY <1>2, <2>1, FindsNetwork
<1>9. networkEndpointIdentity(from, src.nets[from]) = networkEndpointIdentity(at, nets[at])
  <2>1. src.nets[from] # NoEndpoint /\ nets[at] # NoEndpoint
    BY <1>5, <1>6, <1>7, <1>8
  <2> HIDE DEF from, at, nets, src
  <2> QED
    BY <1>2, <2>1, SameNetwork
<1>10. SharedNet(w.rule, d, from, c, at, PeerNets)
  BY <1>2, <1>4, <1>9 DEF SharedNet
<1>11. /\ AddrOn(d, w.rule.network, src.nets) = src.nets[from].addr
       /\ AddrOn(c, w.rule.network, nets) = nets[at].addr
  BY DEF AddrOn
<1>12. w.resolved \in {None, c} /\ Bears(c, w.rule.container, d)
  <2>1. CASE w.resolved = None
    <3>1. w.project \in {NoProject, Project(c)} /\ w.project = Project(d)
      BY <1>2, <2>1 DEF Applies, WaitOK
    <3> QED
      BY <1>1, <2>1, <3>1 DEF Bears
  <2>2. CASE w.resolved # None
    BY <1>2, <2>2 DEF Applies, WaitOK
  <2> QED
    BY <2>1, <2>2
<1> HIDE DEF from, at, nets, src
<1>13. src.nets[from].addr \in Addrs \cap ManagedAddrs(world[d]) /\ nets[at].addr \in Addrs \cap ManagedAddrs(world[c])
  BY <1>5, <1>6, <1>7, <1>8
<1>14. /\ findNetwork(w.rule.network, Project(w.src), PeerNets[w.src]) = from
       /\ findNetwork(w.rule.network, Project(c), PeerNets[c]) = at
       /\ PeerNets[w.src] = src.nets /\ PeerNets[c] = nets /\ Peers[w.src] = src /\ Scope(c).nets = nets
  BY <1>4 DEF from, at, src, nets
<1> QED
  BY <1>1, <1>2, <1>4, <1>7, <1>8, <1>10, <1>11, <1>12, <1>13, <1>14

\* A packet between c and a container of known, in the chain x of one of them.
PeerHit(x, p, c, known) ==
    \E d \in known \cap running :
        \/ x = d /\ p.src \in ManagedAddrs(world[d]) /\ p.dst \in ManagedAddrs(world[c])
        \/ x = c /\ p.st = "est" /\ p.src \in ManagedAddrs(world[c]) /\ p.dst \in ManagedAddrs(world[d])

\* What createWaitingContainerRules installs.
LEMMA WaitingHolds ==
    ASSUME world \in Worlds, running \subseteq DOMAIN world, NEW c \in running, ~Scope(c).err,
           NEW table, IsFiniteSet(table), \A w \in table : WaitOK(w), NEW known,
           ~createWaitingContainerRules(c, table, known, Scope(c), Peers).err
    PROVE  LET R == createWaitingContainerRules(c, table, known, Scope(c), Peers).rules IN
           /\ IsSequence(R)
           /\ ToSet(R) = UNION {ToSet(WaitingEdge(c, w, Scope(c), Peers)) : w \in EdgeRows(c, table, known)}
           /\ \A e \in ToSet(R) : ~e.drop /\ e.chain \in known \cup {c}
           /\ \A p, x : PacketOK(p) /\ Hits(R, x, p) => PeerHit(x, p, c, known)
<1> DEFINE s == Scope(c)
           M == EdgeRows(c, table, known)
           W == createWaitingContainerRules(c, table, known, s, Peers)
           R == W.rules
           t == SetToSeq(M)
           f == [w \in M |-> WaitingEdge(c, w, s, Peers)]
<1>1. M \subseteq table
  BY DEF EdgeRows, RowsFor
<1>2. IsFiniteSet(M)
  BY <1>1, FS_Subset
<1>3. IsSequence(t) /\ ToSet(t) = M
  <2> HIDE DEF M
  <2> QED
    BY <1>2, SetToSeqHolds, SequenceOf
<1>4. R = FlattenSeq([i \in DOMAIN t |-> WaitingEdge(c, t[i], s, Peers)])
  <2> DEFINE fate == [w \in RowsFor(c, table, known) |-> WaitingFate(c, w, s, Peers[w.src])]
             N == {w \in DOMAIN fate : fate[w] = "edge"}
  <2>1. N = M
    BY DEF EdgeRows
  <2>2. R = Concat(SetToSeq(N), LAMBDA w : WaitingEdge(c, w, s, Peers))
    BY DEF createWaitingContainerRules
  <2> HIDE DEF N, M, R, W
  <2>3. R = Concat(t, LAMBDA w : WaitingEdge(c, w, s, Peers))
    BY <2>1, <2>2
  <2> QED
    BY <2>3 DEF Concat
<1>5. [i \in DOMAIN t |-> WaitingEdge(c, t[i], s, Peers)] = [i \in DOMAIN t |-> f[t[i]]]
  BY <1>3 DEF ToSet
<1>6. ASSUME NEW w \in M
      PROVE  /\ f[w] = WaitingEdge(c, w, s, Peers) /\ IsSequence(f[w])
             /\ \A e \in ToSet(f[w]) : ~e.drop /\ e.chain \in known \cup {c}
             /\ \A p, x : PacketOK(p) /\ Hits(f[w], x, p) =>
                \E d \in known \cap running : /\ ~Peers[d].err
                   /\ \/ x = d /\ p.src \in ManagedAddrs(world[d]) /\ p.dst \in ManagedAddrs(world[c])
                      \/ x = c /\ p.st = "est" /\ p.src \in ManagedAddrs(world[c]) /\ p.dst \in ManagedAddrs(world[d])
  <2> DEFINE d == w.src
             a == AddrOn(d, w.rule.network, Peers[d].nets)
             b == AddrOn(c, w.rule.network, s.nets)
  <2>1. f[w] = EdgeRules(w.rule, d, a, c, b)
    BY DEF WaitingEdge
  <2>2. /\ d \in known /\ d \in running /\ ~Peers[d].err
        /\ a \in Addrs \cap ManagedAddrs(world[d]) /\ b \in Addrs \cap ManagedAddrs(world[c])
    <3>1. WaitOK(w)
      BY <1>1
    <3> QED
      BY <3>1, EdgeFate
  <2>3. PartsOK(w.rule)
    BY <1>1, RuleParts DEF WaitOK, From
  <2>4. f[w] = WaitingEdge(c, w, s, Peers)
    OBVIOUS
  <2> HIDE DEF f, d, a, b
  <2> DEFINE E == EdgeRules(w.rule, d, a, c, b)
  <2>5. /\ IsSequence(E) /\ \A e \in ToSet(E) : EdgeShape(e, w.rule, d, a, c, b)
    BY <2>2, <2>3, EdgeRulesAre
  <2>6. \A p, x : PacketOK(p) =>
                (Hits(E, x, p) <=> \/ x = d /\ EdgeCovers(w.rule, a, b, p)
                                   \/ x = c /\ p.st = "est" /\ EdgeCovers(w.rule, a, b, Reply(p)))
    BY <2>2, <2>3, EdgeRulesAre
  <2> HIDE DEF E
  <2>7. f[w] = E
    BY <2>1 DEF E
  <2>8. \A e \in ToSet(f[w]) : ~e.drop /\ e.chain \in known \cup {c}
    BY <2>2, <2>5, <2>7 DEF EdgeShape
  <2>9. ASSUME NEW p, NEW x, PacketOK(p), Hits(f[w], x, p)
        PROVE  \/ x = d /\ p.src \in ManagedAddrs(world[d]) /\ p.dst \in ManagedAddrs(world[c])
               \/ x = c /\ p.st = "est" /\ p.src \in ManagedAddrs(world[c]) /\ p.dst \in ManagedAddrs(world[d])
    BY <2>2, <2>6, <2>7, <2>9, ReplyOK DEF EdgeCovers
  <2> QED
    BY <2>2, <2>4, <2>5, <2>7, <2>8, <2>9
<1> HIDE DEF f, R, t, s, M, W
<1>7. IsSequence(R) /\ ToSet(R) = UNION {ToSet(f[w]) : w \in M}
  BY <1>3, <1>4, <1>5, <1>6, MapHolds
<1>8. UNION {ToSet(f[w]) : w \in M} = UNION {ToSet(WaitingEdge(c, w, s, Peers)) : w \in M}
  BY <1>6
<1>9. \A e \in ToSet(R) : ~e.drop /\ e.chain \in known \cup {c}
  BY <1>6, <1>7
<1>10. ASSUME NEW p, NEW x, PacketOK(p), Hits(R, x, p)
       PROVE  PeerHit(x, p, c, known)
  <2>1. PICK w \in M : Hits(f[w], x, p)
    BY <1>7, <1>10 DEF Hits
  <2> QED
    BY <1>6, <1>10, <2>1 DEF PeerHit
<1> QED
  BY <1>7, <1>8, <1>9, <1>10 DEF R, W, s, M

-----------------------------------------------------------------------------
(* Published ports *)

\* A port that createPortMappingRules is given, on a network of the scope.
PortOK(p) ==
    /\ p.port \in Ports /\ p.proto \in {"tcp", "udp"} /\ IsFiniteSet(p.bindings)
NetOK(s, n) ==
    s.addrs[n] = s.nets[n].addr /\ s.addrs[n] \in Addrs /\ s.nets[n].gateway \in {NoAddr} \cup Addrs
FlagsOK(cfg) ==
    /\ cfg.localAllow \in BOOLEAN /\ cfg.localLog \in BOOLEAN
    /\ cfg.externalAllow \in BOOLEAN /\ cfg.externalLog \in BOOLEAN /\ cfg.externalIPs \in Lists(AddrTop)

PortAt(p, q) == p.port = q.dport /\ p.proto = q.proto
LocalAt(s, n, p, q) == s.nets[n].addr = q.dst /\ q.src = s.nets[n].gateway /\ PortAt(p, q)
ExternalAt(cfg, s, n, p, q) == s.nets[n].addr = q.dst /\ Selects(cfg.externalIPs, q.src) /\ PortAt(p, q)

LEMMA PortRuleCarries ==
    ASSUME NEW p, NEW port \in Ports, p.proto \in {"tcp", "udp"}, NEW r, NEW log \in BOOLEAN,
           r = [proto |-> p.proto, log |-> log, srcPorts |-> Unset, dstPorts |-> <<Single(port)>>]
    PROVE  /\ PartsOK(r)
           /\ \A q : PacketOK(q) => (Carries(r, q) <=> port = q.dport /\ p.proto = q.proto)
<1> DEFINE l == <<Single(port)>>
<1>1. l \in Lists(PortTop) /\ \A v \in Ports : Selects(l, v) <=> v = port
  BY Tops, SingleList DEF Ports
<1>2. Unset # p.proto /\ Unset # l
  BY ConstantsAssumption
<1>3. l # <<>>
  OBVIOUS
<1>4. r.proto = p.proto /\ r.log = log /\ r.srcPorts = Unset /\ r.dstPorts = l
  OBVIOUS
<1> HIDE DEF l
<1>5. PartsOK(r)
  BY <1>1, <1>4 DEF PartsOK
<1> QED
  BY <1>1, <1>2, <1>3, <1>4, <1>5 DEF Carries, Listed, PacketOK

LEMMA InboundDetails ==
    ASSUME NEW r, PartsOK(r), NEW addr, NEW ips \in Lists(AddrTop), NEW drops \in BOOLEAN
    PROVE  LET rd == Details(r, TRUE, addr, ips, drops) IN
           /\ DetailsOK(rd)
           /\ \A q : Covers(rd, q) <=> addr \in {NoAddr, q.dst} /\ Selects(ips, q.src) /\ Carries(r, q)
BY DetailsAre

LEMMA GatewayRulesAre ==
    ASSUME NEW c, NEW cfg, NEW s, NEW n, NEW p, PortOK(p), NetOK(s, n), FlagsOK(cfg)
    PROVE  LET G == GatewayRules(c, cfg, s, n, p) IN
           /\ IsSequence(G)
           /\ \A e \in ToSet(G) : (e.drop <=> ~cfg.localAllow) /\ e.chain = c /\ e.tag = c
           /\ \A q, x : PacketOK(q) =>
                (Hits(G, x, q) <=>
                   /\ x = c /\ ~(cfg.localAllow /\ cfg.externalAllow /\ cfg.externalIPs = <<>>)
                   /\ IF cfg.localAllow THEN LocalAt(s, n, p, q) \/ (q.st = "est" /\ LocalAt(s, n, p, Reply(q)))
                      ELSE q.st = "new" /\ LocalAt(s, n, p, q))
<1> DEFINE G == GatewayRules(c, cfg, s, n, p)
           gateway == s.nets[n].gateway
           addr == s.addrs[n]
           skipped == cfg.localAllow /\ cfg.externalAllow /\ cfg.externalIPs = <<>>
           r == PortRule(p, cfg.localLog)
           no == ~cfg.localAllow
           ips == <<Single(gateway)>>
           rd == Details(r, TRUE, addr, ips, no)
<1>0. /\ addr = s.nets[n].addr /\ addr \in Addrs /\ NoAddr # addr /\ NoAddr \notin Addrs /\ gateway \in {NoAddr} \cup Addrs
      /\ no \in BOOLEAN /\ cfg.localLog \in BOOLEAN /\ (no <=> ~cfg.localAllow)
  BY ConstantsAssumption DEF NetOK, FlagsOK
<1>1. CASE gateway = NoAddr \/ skipped
  <2>1. G = <<>>
    BY <1>1 DEF GatewayRules
  <2>2. gateway = NoAddr => \A q : PacketOK(q) => ~LocalAt(s, n, p, q) /\ ~LocalAt(s, n, p, Reply(q))
    BY <1>0 DEF LocalAt, PacketOK, Reply
  <2> HIDE DEF G, gateway, skipped
  <2>3. \A x, q : ~Hits(G, x, q)
    BY <2>1, EmptySequence DEF Hits
  <2> QED
    BY <1>1, <2>1, <2>2, <2>3, EmptySequence DEF G, skipped
<1>2. CASE ~(gateway = NoAddr \/ skipped)
  <2>1. G = createNFTRules(rd, c, c, c, c)
    BY <1>2 DEF GatewayRules
  <2>2. rd.drop = no
    BY DEF Details
  <2>3. ips \in Lists(AddrTop) /\ \A v \in Addrs : Selects(ips, v) <=> v = gateway
    <3>1. gateway \in Addrs
      BY <1>0, <1>2
    <3> HIDE DEF gateway
    <3> QED
      BY <3>1, Tops, SingleList DEF Addrs
  <2>4. PartsOK(r) /\ \A q : PacketOK(q) => (Carries(r, q) <=> PortAt(p, q))
    <3>1. /\ p.port \in Ports /\ p.proto \in {"tcp", "udp"}
          /\ r = [proto |-> p.proto, log |-> cfg.localLog, srcPorts |-> Unset, dstPorts |-> <<Single(p.port)>>]
      BY DEF PortOK, PortRule
    <3> HIDE DEF r
    <3> QED
      BY <1>0, <3>1, PortRuleCarries DEF PortAt
  <2> HIDE DEF ips, r, addr, no, G
  <2>5. /\ DetailsOK(rd)
        /\ \A q : Covers(rd, q) <=> addr \in {NoAddr, q.dst} /\ Selects(ips, q.src) /\ Carries(r, q)
    <3>1. PartsOK(r) /\ ips \in Lists(AddrTop) /\ no \in BOOLEAN
      BY <1>0, <2>3, <2>4
    <3>2. CASE no = TRUE
      <4>1. rd = Details(r, TRUE, addr, ips, TRUE)
        BY <3>2
      <4> HIDE DEF rd
      <4> QED
        BY <3>1, <4>1, InboundDetails
    <3>3. CASE no = FALSE
      <4>1. rd = Details(r, TRUE, addr, ips, FALSE)
        BY <3>3
      <4> HIDE DEF rd
      <4> QED
        BY <3>1, <4>1, InboundDetails
    <3> QED
      BY <3>1, <3>2, <3>3
  <2> HIDE DEF rd
  <2>6. \A q : PacketOK(q) => (Covers(rd, q) <=> LocalAt(s, n, p, q))
    BY <1>0, <2>3, <2>4, <2>5 DEF LocalAt, PacketOK
  <2>7. IsSequence(G)
    BY <2>1, <2>5, RulesAre
  <2>8. \A e \in ToSet(G) : e.drop = rd.drop /\ e.chain = c /\ e.tag = c
    BY <2>1, <2>5, RulesHaveChains
  <2>9. ASSUME NEW q, NEW x, PacketOK(q)
        PROVE  Hits(G, x, q) <=> /\ x = c
                                 /\ IF cfg.localAllow THEN LocalAt(s, n, p, q) \/ (q.st = "est" /\ LocalAt(s, n, p, Reply(q)))
                                    ELSE q.st = "new" /\ LocalAt(s, n, p, q)
    <3>1. Hits(G, x, q) <=> IF rd.drop THEN x = c /\ q.st = "new" /\ Covers(rd, q)
                            ELSE \/ x = c /\ Covers(rd, q)
                                 \/ x = c /\ q.st = "est" /\ Covers(rd, Reply(q))
      BY <2>1, <2>5, <2>9, RulesHit
    <3>2. Covers(rd, Reply(q)) <=> LocalAt(s, n, p, Reply(q))
      BY <2>6, <2>9, ReplyOK
    <3> QED
      BY <1>0, <2>2, <2>6, <2>9, <3>1, <3>2
  <2>10. \A e \in ToSet(G) : (e.drop <=> ~cfg.localAllow) /\ e.chain = c /\ e.tag = c
    BY <1>0, <2>2, <2>8
  <2> HIDE DEF skipped
  <2> QED
    BY <1>2, <2>7, <2>9, <2>10 DEF G, skipped
<1> QED
  BY <1>1, <1>2

LEMMA ExternalRulesAre ==
    ASSUME NEW c, NEW cfg, NEW s, NEW n, NEW p, PortOK(p), NetOK(s, n), FlagsOK(cfg)
    PROVE  LET X == ExternalRules(c, cfg, s, n, p) IN
           /\ IsSequence(X)
           /\ \A e \in ToSet(X) : ~e.drop /\ e.chain = c /\ e.tag = c
           /\ \A q, x : PacketOK(q) =>
                (Hits(X, x, q) <=>
                   /\ x = c /\ cfg.externalAllow /\ p.bindings # {}
                   /\ ExternalAt(cfg, s, n, p, q) \/ (q.st = "est" /\ ExternalAt(cfg, s, n, p, Reply(q))))
<1> DEFINE X == ExternalRules(c, cfg, s, n, p)
           addr == s.addrs[n]
           r == PortRule(p, cfg.externalLog)
           ips == cfg.externalIPs
           rd == Details(r, TRUE, addr, ips, FALSE)
           none == ~cfg.externalAllow \/ p.bindings = {}
<1>0. /\ addr = s.nets[n].addr /\ addr \in Addrs /\ NoAddr # addr
      /\ cfg.externalLog \in BOOLEAN /\ ips \in Lists(AddrTop)
  BY ConstantsAssumption DEF NetOK, FlagsOK
<1>1. CASE none
  <2>1. X = <<>>
    BY <1>1 DEF ExternalRules
  <2> HIDE DEF X, none
  <2>2. \A x, q : ~Hits(X, x, q)
    BY <2>1, EmptySequence DEF Hits
  <2> QED
    BY <1>1, <2>1, <2>2, EmptySequence DEF X, none
<1>2. CASE ~none
  <2>1. X = createNFTRules(rd, c, c, c, c)
    BY <1>2 DEF ExternalRules
  <2>2. ~rd.drop
    BY DEF Details
  <2>4. PartsOK(r) /\ \A q : PacketOK(q) => (Carries(r, q) <=> PortAt(p, q))
    <3>1. /\ p.port \in Ports /\ p.proto \in {"tcp", "udp"}
          /\ r = [proto |-> p.proto, log |-> cfg.externalLog, srcPorts |-> Unset, dstPorts |-> <<Single(p.port)>>]
      BY DEF PortOK, PortRule
    <3> HIDE DEF r
    <3> QED
      BY <1>0, <3>1, PortRuleCarries DEF PortAt
  <2> HIDE DEF ips, r, addr, X
  <2>5. /\ DetailsOK(rd)
        /\ \A q : Covers(rd, q) <=> addr \in {NoAddr, q.dst} /\ Selects(ips, q.src) /\ Carries(r, q)
    BY <1>0, <2>4, InboundDetails
  <2> HIDE DEF rd
  <2>6. \A q : PacketOK(q) => (Covers(rd, q) <=> ExternalAt(cfg, s, n, p, q))
    BY <1>0, <2>4, <2>5 DEF ExternalAt, PacketOK, ips
  <2>7. IsSequence(X)
    BY <2>1, <2>5, RulesAre
  <2>8. \A e \in ToSet(X) : e.drop = rd.drop /\ e.chain = c /\ e.tag = c
    BY <2>1, <2>5, RulesHaveChains
  <2>9. ASSUME NEW q, NEW x, PacketOK(q)
        PROVE  Hits(X, x, q) <=> /\ x = c
                                 /\ ExternalAt(cfg, s, n, p, q) \/ (q.st = "est" /\ ExternalAt(cfg, s, n, p, Reply(q)))
    <3>1. Hits(X, x, q) <=> IF rd.drop THEN x = c /\ q.st = "new" /\ Covers(rd, q)
                            ELSE \/ x = c /\ Covers(rd, q)
                                 \/ x = c /\ q.st = "est" /\ Covers(rd, Reply(q))
      BY <2>1, <2>5, <2>9, RulesHit
    <3>2. Covers(rd, Reply(q)) <=> ExternalAt(cfg, s, n, p, Reply(q))
      BY <2>6, <2>9, ReplyOK
    <3> QED
      BY <2>2, <2>6, <2>9, <3>1, <3>2
  <2>10. \A e \in ToSet(X) : ~e.drop /\ e.chain = c /\ e.tag = c
    BY <2>2, <2>8
  <2> QED
    BY <1>2, <2>7, <2>9, <2>10 DEF X
<1> QED
  BY <1>1, <1>2

\* And the host ports at which localhost is to be stopped are ones.
PortIs(p, cfg) ==
    /\ PortOK(p) /\ p = [port |-> p.port, proto |-> p.proto, bindings |-> p.bindings]
    /\ cfg.localAllow \/ \A b \in p.bindings : FromLocalhost(b) => b.port \in Ports
HostAt(p, b, q) == q.src = LocalAddr /\ b.port = q.dport /\ p.proto = q.proto
HostRule(e, c) == e.drop /\ e.chain = "whalewall" /\ e.tag = c

LEMMA LocalhostDropIs ==
    ASSUME NEW c, NEW cfg, NEW p, PortIs(p, cfg), NEW b \in p.bindings, FromLocalhost(b)
    PROVE  LET H == LocalhostDrop(c, cfg, p, b) IN
           /\ IsSequence(H)
           /\ \A e \in ToSet(H) : HostRule(e, c)
           /\ \A q, x : PacketOK(q) =>
                (Hits(H, x, q) <=> x = "whalewall" /\ ~cfg.localAllow /\ q.st = "new" /\ HostAt(p, b, q))
<1> DEFINE H == LocalhostDrop(c, cfg, p, b)
           at == "whalewall"
           r == PortRule([p EXCEPT !.port = b.port], FALSE)
           ips == <<Single(LocalAddr)>>
           rd == Details(r, TRUE, NoAddr, ips, TRUE)
<1>0. PortOK(p) /\ p = [port |-> p.port, proto |-> p.proto, bindings |-> p.bindings]
  BY DEF PortIs
<1>1. CASE cfg.localAllow
  <2>1. H = <<>>
    BY <1>1 DEF LocalhostDrop
  <2> HIDE DEF H
  <2>2. \A x, q : ~Hits(H, x, q)
    BY <2>1, EmptySequence DEF Hits
  <2> QED
    BY <1>1, <2>1, <2>2, EmptySequence DEF H
<1>2. CASE ~cfg.localAllow
  <2>1. H = createNFTRules(rd, at, c, at, c)
    BY <1>2 DEF LocalhostDrop
  <2>2. rd.drop
    BY DEF Details
  <2>3. ips \in Lists(AddrTop) /\ \A v \in Addrs : Selects(ips, v) <=> v = LocalAddr
    BY Tops, SingleList, ConstantsAssumption DEF Addrs
  <2>4. PartsOK(r) /\ \A q : PacketOK(q) => (Carries(r, q) <=> b.port = q.dport /\ p.proto = q.proto)
    <3> DEFINE log == FALSE
    <3>1. /\ b.port \in Ports /\ p.proto \in {"tcp", "udp"} /\ log \in BOOLEAN
          /\ r = [proto |-> p.proto, log |-> log, srcPorts |-> Unset, dstPorts |-> <<Single(b.port)>>]
      BY <1>0, <1>2 DEF PortIs, PortOK, PortRule
    <3> HIDE DEF r, log
    <3> QED
      BY <3>1, PortRuleCarries
  <2> HIDE DEF ips, r, H, at
  <2>5. /\ DetailsOK(rd)
        /\ \A q : Covers(rd, q) <=> NoAddr \in {NoAddr, q.dst} /\ Selects(ips, q.src) /\ Carries(r, q)
    BY <2>3, <2>4, DetailsAre
  <2> HIDE DEF rd
  <2>6. \A q : PacketOK(q) => (Covers(rd, q) <=> HostAt(p, b, q))
    BY <2>3, <2>4, <2>5 DEF HostAt, PacketOK
  <2>7. IsSequence(H)
    BY <2>1, <2>5, RulesAre
  <2>8. \A e \in ToSet(H) : e.drop = rd.drop /\ e.chain = at /\ e.tag = c
    BY <2>1, <2>5, RulesHaveChains
  <2>9. ASSUME NEW q, NEW x, PacketOK(q)
        PROVE  Hits(H, x, q) <=> x = at /\ q.st = "new" /\ HostAt(p, b, q)
    <3>1. Hits(H, x, q) <=> IF rd.drop THEN x = at /\ q.st = "new" /\ Covers(rd, q)
                            ELSE \/ x = at /\ Covers(rd, q)
                                 \/ x = at /\ q.st = "est" /\ Covers(rd, Reply(q))
      BY <2>1, <2>5, <2>9, RulesHit
    <3> QED
      BY <2>2, <2>6, <2>9, <3>1
  <2>10. \A e \in ToSet(H) : e.drop /\ e.chain = at /\ e.tag = c
    BY <2>2, <2>8
  <2> QED
    BY <1>2, <2>7, <2>9, <2>10 DEF H, at, HostRule
<1> QED
  BY <1>1, <1>2

\* The rules at x among U that drop q, and those that let it pass.
DropOn(U, x, q) == {r \in U : r.chain = x /\ Match(r, q) /\ r.drop}
AllowOn(U, x, q) == {r \in U : r.chain = x /\ Match(r, q) /\ ~r.drop}

LEMMA LocalRulesAre ==
    ASSUME NEW c, c # "whalewall", NEW cfg, NEW s, NEW n, NEW p, PortIs(p, cfg), NetOK(s, n), FlagsOK(cfg)
    PROVE  LET L == LocalRules(c, cfg, s, n, p) IN
           /\ IsSequence(L)
           /\ \A e \in ToSet(L) : /\ e.tag = c /\ e.chain \in {c, "whalewall"}
                                  /\ e.chain = c => (e.drop <=> ~cfg.localAllow)
                                  /\ e.chain = "whalewall" => e.drop
           /\ \A x, q : Hits(L, x, q) <=> \/ OpenToHost(p) /\ Hits(GatewayRules(c, cfg, s, n, p), x, q)
                                          \/ \E b \in p.bindings : FromLocalhost(b) /\ Hits(LocalhostDrop(c, cfg, p, b), x, q)
<1> DEFINE L == LocalRules(c, cfg, s, n, p)
           B == {b \in p.bindings : FromLocalhost(b)}
           t == SetToSeq(B)
           G == GatewayRules(c, cfg, s, n, p)
           h == [b \in B |-> LocalhostDrop(c, cfg, p, b)]
           f == [b \in B |-> G \o h[b]]
<1>0. PortOK(p) /\ p = [port |-> p.port, proto |-> p.proto, bindings |-> p.bindings]
  BY DEF PortIs
<1>1. IsFiniteSet(B)
  BY <1>0, FS_Subset DEF PortOK
<1>2. IsSequence(t) /\ ToSet(t) = B
  <2> HIDE DEF B
  <2> QED
    BY <1>1, SetToSeqHolds, SequenceOf
<1>3. L = FlattenSeq([i \in DOMAIN t |-> G \o LocalhostDrop(c, cfg, p, t[i])])
  BY DEF LocalRules, Concat
<1>4. [i \in DOMAIN t |-> G \o LocalhostDrop(c, cfg, p, t[i])] = [i \in DOMAIN t |-> f[t[i]]]
  BY <1>2 DEF ToSet
<1>5. IsSequence(G) /\ \A e \in ToSet(G) : (e.drop <=> ~cfg.localAllow) /\ e.chain = c /\ e.tag = c
  BY <1>0, GatewayRulesAre
<1>6. ASSUME NEW b \in B
      PROVE  IsSequence(h[b]) /\ \A e \in ToSet(h[b]) : e.drop /\ e.chain = "whalewall" /\ e.tag = c
  <2>1. b \in p.bindings /\ FromLocalhost(b) /\ h[b] = LocalhostDrop(c, cfg, p, b)
    OBVIOUS
  <2> HIDE DEF B, t, G, f
  <2> DEFINE E == LocalhostDrop(c, cfg, p, b)
  <2>2. b \in p.bindings /\ FromLocalhost(b)
    BY <2>1
  <2>3. IsSequence(E) /\ \A e \in ToSet(E) : HostRule(e, c)
    BY <2>2, LocalhostDropIs
  <2> HIDE DEF E, h
  <2> QED
    BY <2>1, <2>3 DEF E, HostRule
<1>7. \A b \in B : f[b] = G \o h[b] /\ h[b] = LocalhostDrop(c, cfg, p, b)
  OBVIOUS
<1>8. OpenToHost(p) <=> B # {}
  BY DEF OpenToHost, FromLocalhost
<1>9. \A b : b \in B <=> b \in p.bindings /\ FromLocalhost(b)
  OBVIOUS
<1> HIDE DEF f, L, t, G, h, B
<1>10. ASSUME NEW b \in B
       PROVE  IsSequence(f[b]) /\ ToSet(f[b]) = ToSet(G) \cup ToSet(h[b])
  <2>1. f[b] = G \o h[b]
    BY <1>7
  <2> QED
    BY <1>5, <1>6, <2>1, ConcatSequences
<1>11. IsSequence(L) /\ ToSet(L) = UNION {ToSet(f[b]) : b \in B}
  <2>1. L = FlattenSeq([i \in DOMAIN t |-> f[t[i]]])
    BY <1>3, <1>4
  <2>2. \A b \in ToSet(t) : IsSequence(f[b])
    BY <1>2, <1>10
  <2> QED
    BY <1>2, <2>1, <2>2, MapHolds
<1>12. ASSUME NEW e \in ToSet(L)
       PROVE  /\ e.tag = c /\ e.chain \in {c, "whalewall"}
              /\ e.chain = c => (e.drop <=> ~cfg.localAllow)
              /\ e.chain = "whalewall" => e.drop
  <2>1. PICK b \in B : e \in ToSet(G) \/ e \in ToSet(h[b])
    BY <1>10, <1>11
  <2> QED
    BY <1>5, <1>6, <2>1
<1>13. ASSUME NEW x, NEW q
       PROVE  Hits(L, x, q) <=> (B # {} /\ Hits(G, x, q)) \/ \E b \in B : Hits(h[b], x, q)
  BY <1>10, <1>11 DEF Hits
<1> QED
  BY <1>7, <1>8, <1>9, <1>11, <1>12, <1>13 DEF L, G

\* What mapped_ports lets in at a port and network.
AllowAt(cfg, s, n, p, q) ==
    \/ cfg.externalAllow /\ p.bindings # {} /\ ExternalAt(cfg, s, n, p, q)
    \/ cfg.localAllow /\ OpenToHost(p) /\ LocalAt(s, n, p, q)
\* And what of localhost it denies.
DenyAt(cfg, s, n, p, q) == ~cfg.localAllow /\ OpenToHost(p) /\ LocalAt(s, n, p, q)
HostDenied(cfg, p, q) == ~cfg.localAllow /\ \E b \in p.bindings : FromLocalhost(b) /\ HostAt(p, b, q)

LEMMA PortRulesAre ==
    ASSUME NEW c, c # "whalewall", NEW cfg, NEW s, NEW n, NEW p, PortIs(p, cfg), NetOK(s, n), FlagsOK(cfg)
    PROVE  LET R == PortRules(c, cfg, s, n, p) IN
           /\ IsSequence(R)
           /\ \A e \in ToSet(R) : e.tag = c /\ e.chain \in {c, "whalewall"} /\ (e.chain = "whalewall" => e.drop)
           /\ \A q : PacketOK(q) =>
                /\ Hits(R, "whalewall", q) <=> q.st = "new" /\ HostDenied(cfg, p, q)
                /\ DropOn(ToSet(R), c, q) # {} <=> q.st = "new" /\ DenyAt(cfg, s, n, p, q)
                /\ AllowOn(ToSet(R), c, q) # {} <=>
                     AllowAt(cfg, s, n, p, q) \/ (q.st = "est" /\ AllowAt(cfg, s, n, p, Reply(q)))
                /\ \A U : (/\ ToSet(R) \subseteq U /\ q.st = "new"
                           /\ DenyAt(cfg, s, n, p, q) \/ ~AllowAt(cfg, s, n, p, q))
                             => Shielded(R, DropOn(U, c, q), AllowOn(U, c, q))
<1> DEFINE R == PortRules(c, cfg, s, n, p)
           L == LocalRules(c, cfg, s, n, p)
           G == GatewayRules(c, cfg, s, n, p)
           H(b) == LocalhostDrop(c, cfg, p, b)
           X == ExternalRules(c, cfg, s, n, p)
           skipped == cfg.localAllow /\ cfg.externalAllow /\ cfg.externalIPs = <<>>
<1>0. PortOK(p) /\ p = [port |-> p.port, proto |-> p.proto, bindings |-> p.bindings]
  BY DEF PortIs
<1>1. R = L \o X
  BY DEF PortRules
<1>2. /\ IsSequence(L)
      /\ \A e \in ToSet(L) : /\ e.tag = c /\ e.chain \in {c, "whalewall"}
                             /\ e.chain = c => (e.drop <=> ~cfg.localAllow)
                             /\ e.chain = "whalewall" => e.drop
  BY LocalRulesAre
<1>3. \A x, q : Hits(L, x, q) <=> \/ OpenToHost(p) /\ Hits(G, x, q)
                                  \/ \E b \in p.bindings : FromLocalhost(b) /\ Hits(H(b), x, q)
  BY LocalRulesAre
<1>4. /\ IsSequence(X) /\ \A e \in ToSet(X) : ~e.drop /\ e.chain = c /\ e.tag = c
      /\ \A q, x : PacketOK(q) =>
           (Hits(X, x, q) <=>
              /\ x = c /\ cfg.externalAllow /\ p.bindings # {}
              /\ ExternalAt(cfg, s, n, p, q) \/ (q.st = "est" /\ ExternalAt(cfg, s, n, p, Reply(q))))
  BY <1>0, ExternalRulesAre
<1>5. \A q, x : PacketOK(q) =>
           (Hits(G, x, q) <=>
              /\ x = c /\ ~skipped
              /\ IF cfg.localAllow THEN LocalAt(s, n, p, q) \/ (q.st = "est" /\ LocalAt(s, n, p, Reply(q)))
                 ELSE q.st = "new" /\ LocalAt(s, n, p, q))
  BY <1>0, GatewayRulesAre
<1>6. \A b \in p.bindings : FromLocalhost(b) => \A q, x : PacketOK(q) =>
           (Hits(H(b), x, q) <=> x = "whalewall" /\ ~cfg.localAllow /\ q.st = "new" /\ HostAt(p, b, q))
  BY LocalhostDropIs
<1>7. /\ OpenToHost(p) => p.bindings # {}
      /\ skipped => cfg.localAllow /\ cfg.externalAllow /\ \A q : LocalAt(s, n, p, q) => ExternalAt(cfg, s, n, p, q)
  BY EmptyList DEF OpenToHost, LocalAt, ExternalAt
<1> HIDE DEF R, L, G, H, X, skipped
<1>8. IsSequence(R) /\ ToSet(R) = ToSet(L) \cup ToSet(X)
  BY <1>1, <1>2, <1>4, ConcatSequences
<1>9. \A e \in ToSet(R) : e.tag = c /\ e.chain \in {c, "whalewall"} /\ (e.chain = "whalewall" => e.drop)
  BY <1>2, <1>4, <1>8
<1>10. ASSUME NEW q, PacketOK(q)
       PROVE  /\ Hits(R, "whalewall", q) <=> q.st = "new" /\ HostDenied(cfg, p, q)
              /\ DropOn(ToSet(R), c, q) # {} <=> q.st = "new" /\ DenyAt(cfg, s, n, p, q)
              /\ AllowOn(ToSet(R), c, q) # {} <=>
                   AllowAt(cfg, s, n, p, q) \/ (q.st = "est" /\ AllowAt(cfg, s, n, p, Reply(q)))
              /\ \A U : (/\ ToSet(R) \subseteq U /\ q.st = "new"
                         /\ DenyAt(cfg, s, n, p, q) \/ ~AllowAt(cfg, s, n, p, q))
                           => Shielded(R, DropOn(U, c, q), AllowOn(U, c, q))
  <2>1. \A x : Hits(R, x, q) <=> Hits(L, x, q) \/ Hits(X, x, q)
    BY <1>8 DEF Hits
  <2>2. Hits(L, "whalewall", q) <=> q.st = "new" /\ HostDenied(cfg, p, q)
    BY <1>3, <1>5, <1>6, <1>10 DEF HostDenied
  <2>3. Hits(L, c, q) <=> /\ OpenToHost(p) /\ ~skipped
                          /\ IF cfg.localAllow THEN LocalAt(s, n, p, q) \/ (q.st = "est" /\ LocalAt(s, n, p, Reply(q)))
                             ELSE q.st = "new" /\ LocalAt(s, n, p, q)
    BY <1>3, <1>5, <1>6, <1>10
  <2>4. Hits(R, "whalewall", q) <=> q.st = "new" /\ HostDenied(cfg, p, q)
    BY <1>4, <1>10, <2>1, <2>2
  <2>5. DropOn(ToSet(R), c, q) # {} <=> ~cfg.localAllow /\ Hits(L, c, q)
    BY <1>2, <1>4, <1>8 DEF DropOn, Hits
  <2>6. AllowOn(ToSet(R), c, q) # {} <=> (cfg.localAllow /\ Hits(L, c, q)) \/ Hits(X, c, q)
    BY <1>2, <1>4, <1>8 DEF AllowOn, Hits
  <2>7. DropOn(ToSet(R), c, q) # {} <=> q.st = "new" /\ DenyAt(cfg, s, n, p, q)
    BY <1>7, <2>3, <2>5 DEF DenyAt
  <2>8. AllowOn(ToSet(R), c, q) # {} <=>
                   AllowAt(cfg, s, n, p, q) \/ (q.st = "est" /\ AllowAt(cfg, s, n, p, Reply(q)))
    <3>1. Hits(X, c, q) <=> /\ cfg.externalAllow /\ p.bindings # {}
                            /\ ExternalAt(cfg, s, n, p, q) \/ (q.st = "est" /\ ExternalAt(cfg, s, n, p, Reply(q)))
      BY <1>4, <1>10
    <3>2. CASE skipped
      BY <1>7, <2>3, <2>6, <3>1, <3>2 DEF AllowAt
    <3>3. CASE ~skipped
      BY <1>7, <2>3, <2>6, <3>1, <3>3 DEF AllowAt
    <3> QED
      BY <3>2, <3>3
  <2>9. ASSUME NEW U, ToSet(R) \subseteq U, q.st = "new", DenyAt(cfg, s, n, p, q) \/ ~AllowAt(cfg, s, n, p, q)
        PROVE  Shielded(R, DropOn(U, c, q), AllowOn(U, c, q))
    <3> DEFINE D == DropOn(U, c, q)
               A == AllowOn(U, c, q)
    <3>1. CASE DenyAt(cfg, s, n, p, q)
      <4>1. ~cfg.localAllow
        BY <3>1 DEF DenyAt
      <4>2. ToSet(L) \cap A = {}
        BY <1>2, <4>1 DEF AllowOn
      <4>3. ToSet(L) \cap D # {}
        <5>1. DropOn(ToSet(R), c, q) # {}
          BY <2>7, <2>9, <3>1
        <5> QED
          BY <1>4, <1>8, <2>9, <5>1 DEF DropOn
      <4> HIDE DEF D, A
      <4> QED
        BY <1>1, <1>2, <1>4, <4>2, <4>3, ShieldedEmpty, ShieldedConcat DEF D, A
    <3>2. CASE ~AllowAt(cfg, s, n, p, q)
      <4>1. AllowOn(ToSet(R), c, q) = {}
        BY <2>8, <2>9, <3>2
      <4>2. ToSet(R) \cap A = {}
        BY <4>1 DEF AllowOn
      <4> HIDE DEF A, D
      <4> QED
        BY <1>8, <4>2, ShieldedEmpty DEF A, D
    <3> QED
      BY <2>9, <3>1, <3>2
  <2> QED
    BY <2>4, <2>7, <2>8, <2>9
<1> QED
  BY <1>8, <1>9, <1>10 DEF R

\* The rules R are those of mapped_ports for the pairs K of a network and a port.
PortPart(R, c, cfg, s, K) ==
    /\ IsSequence(R)
    /\ \A e \in ToSet(R) : e.tag = c /\ e.chain \in {c, "whalewall"} /\ (e.chain = "whalewall" => e.drop)
    /\ \A q : PacketOK(q) =>
         /\ Hits(R, "whalewall", q) <=> q.st = "new" /\ \E k \in K : HostDenied(cfg, k[2], q)
         /\ DropOn(ToSet(R), c, q) # {} <=> q.st = "new" /\ \E k \in K : DenyAt(cfg, s, k[1], k[2], q)
         /\ AllowOn(ToSet(R), c, q) # {} <=>
              \E k \in K : AllowAt(cfg, s, k[1], k[2], q) \/ (q.st = "est" /\ AllowAt(cfg, s, k[1], k[2], Reply(q)))
         /\ \A U : (/\ ToSet(R) \subseteq U /\ q.st = "new"
                    /\ \A k \in K : DenyAt(cfg, s, k[1], k[2], q) \/ ~AllowAt(cfg, s, k[1], k[2], q))
                      => Shielded(R, DropOn(U, c, q), AllowOn(U, c, q))

LEMMA OnePort ==
    ASSUME NEW c, c # "whalewall", NEW cfg, NEW s, NEW n, NEW p, PortIs(p, cfg), NetOK(s, n), FlagsOK(cfg)
    PROVE  PortPart(PortRules(c, cfg, s, n, p), c, cfg, s, {<<n, p>>})
<1> DEFINE R == PortRules(c, cfg, s, n, p)
           K == {<<n, p>>}
<1>1. /\ IsSequence(R)
      /\ \A e \in ToSet(R) : e.tag = c /\ e.chain \in {c, "whalewall"} /\ (e.chain = "whalewall" => e.drop)
      /\ \A q : PacketOK(q) =>
           /\ Hits(R, "whalewall", q) <=> q.st = "new" /\ HostDenied(cfg, p, q)
           /\ DropOn(ToSet(R), c, q) # {} <=> q.st = "new" /\ DenyAt(cfg, s, n, p, q)
           /\ AllowOn(ToSet(R), c, q) # {} <=>
                AllowAt(cfg, s, n, p, q) \/ (q.st = "est" /\ AllowAt(cfg, s, n, p, Reply(q)))
           /\ \A U : (/\ ToSet(R) \subseteq U /\ q.st = "new"
                      /\ DenyAt(cfg, s, n, p, q) \/ ~AllowAt(cfg, s, n, p, q))
                        => Shielded(R, DropOn(U, c, q), AllowOn(U, c, q))
  BY PortRulesAre
<1>2. /\ <<n, p>> \in K /\ \A k \in K : k[1] = n /\ k[2] = p
  OBVIOUS
<1> HIDE DEF R, K
<1>3. /\ \A q : (\E k \in K : HostDenied(cfg, k[2], q)) <=> HostDenied(cfg, p, q)
      /\ \A q : (\E k \in K : DenyAt(cfg, s, k[1], k[2], q)) <=> DenyAt(cfg, s, n, p, q)
      /\ \A q : (\E k \in K : AllowAt(cfg, s, k[1], k[2], q) \/ (q.st = "est" /\ AllowAt(cfg, s, k[1], k[2], Reply(q))))
                  <=> AllowAt(cfg, s, n, p, q) \/ (q.st = "est" /\ AllowAt(cfg, s, n, p, Reply(q)))
      /\ \A q : (\A k \in K : DenyAt(cfg, s, k[1], k[2], q) \/ ~AllowAt(cfg, s, k[1], k[2], q))
                  <=> DenyAt(cfg, s, n, p, q) \/ ~AllowAt(cfg, s, n, p, q)
  BY <1>2
<1> QED
  BY <1>1, <1>3 DEF PortPart, R, K

LEMMA PortsGather ==
    ASSUME NEW c, NEW cfg, NEW s, NEW t, IsSequence(t), NEW f, NEW k,
           \A x \in ToSet(t) : PortPart(f[x], c, cfg, s, k[x])
    PROVE  PortPart(FlattenSeq([i \in DOMAIN t |-> f[t[i]]]), c, cfg, s, UNION {k[x] : x \in ToSet(t)})
<1> DEFINE R == FlattenSeq([i \in DOMAIN t |-> f[t[i]]])
           K == UNION {k[x] : x \in ToSet(t)}
<1>1. \A x \in ToSet(t) : IsSequence(f[x])
  BY DEF PortPart
<1>2. IsSequence(R) /\ ToSet(R) = UNION {ToSet(f[x]) : x \in ToSet(t)}
  BY <1>1, MapHolds
<1>3. \A y : y \in K <=> \E x \in ToSet(t) : y \in k[x]
  OBVIOUS
<1> HIDE DEF K
<1>4. \A e \in ToSet(R) : e.tag = c /\ e.chain \in {c, "whalewall"} /\ (e.chain = "whalewall" => e.drop)
  <2> HIDE DEF R
  <2> QED
    BY <1>2 DEF PortPart
<1>5. ASSUME NEW q, PacketOK(q)
      PROVE  /\ Hits(R, "whalewall", q) <=> q.st = "new" /\ \E y \in K : HostDenied(cfg, y[2], q)
             /\ DropOn(ToSet(R), c, q) # {} <=> q.st = "new" /\ \E y \in K : DenyAt(cfg, s, y[1], y[2], q)
             /\ AllowOn(ToSet(R), c, q) # {} <=>
                  \E y \in K : AllowAt(cfg, s, y[1], y[2], q) \/ (q.st = "est" /\ AllowAt(cfg, s, y[1], y[2], Reply(q)))
             /\ \A U : (/\ ToSet(R) \subseteq U /\ q.st = "new"
                        /\ \A y \in K : DenyAt(cfg, s, y[1], y[2], q) \/ ~AllowAt(cfg, s, y[1], y[2], q))
                          => Shielded(R, DropOn(U, c, q), AllowOn(U, c, q))
  <2>1. /\ Hits(R, "whalewall", q) <=> \E x \in ToSet(t) : Hits(f[x], "whalewall", q)
        /\ DropOn(ToSet(R), c, q) # {} <=> \E x \in ToSet(t) : DropOn(ToSet(f[x]), c, q) # {}
        /\ AllowOn(ToSet(R), c, q) # {} <=> \E x \in ToSet(t) : AllowOn(ToSet(f[x]), c, q) # {}
    <3> HIDE DEF R
    <3> QED
      BY <1>2 DEF Hits, DropOn, AllowOn
  <2>2. \A x \in ToSet(t) :
          /\ Hits(f[x], "whalewall", q) <=> q.st = "new" /\ \E y \in k[x] : HostDenied(cfg, y[2], q)
          /\ DropOn(ToSet(f[x]), c, q) # {} <=> q.st = "new" /\ \E y \in k[x] : DenyAt(cfg, s, y[1], y[2], q)
          /\ AllowOn(ToSet(f[x]), c, q) # {} <=>
               \E y \in k[x] : AllowAt(cfg, s, y[1], y[2], q) \/ (q.st = "est" /\ AllowAt(cfg, s, y[1], y[2], Reply(q)))
          /\ \A U : (/\ ToSet(f[x]) \subseteq U /\ q.st = "new"
                     /\ \A y \in k[x] : DenyAt(cfg, s, y[1], y[2], q) \/ ~AllowAt(cfg, s, y[1], y[2], q))
                       => Shielded(f[x], DropOn(U, c, q), AllowOn(U, c, q))
    BY <1>5 DEF PortPart
  <2>3. Hits(R, "whalewall", q) <=> q.st = "new" /\ \E y \in K : HostDenied(cfg, y[2], q)
    BY <1>3, <2>1, <2>2
  <2>4. DropOn(ToSet(R), c, q) # {} <=> q.st = "new" /\ \E y \in K : DenyAt(cfg, s, y[1], y[2], q)
    BY <1>3, <2>1, <2>2
  <2>5. AllowOn(ToSet(R), c, q) # {} <=>
          \E y \in K : AllowAt(cfg, s, y[1], y[2], q) \/ (q.st = "est" /\ AllowAt(cfg, s, y[1], y[2], Reply(q)))
    BY <1>3, <2>1, <2>2
  <2>6. ASSUME NEW U, ToSet(R) \subseteq U, q.st = "new",
               \A y \in K : DenyAt(cfg, s, y[1], y[2], q) \/ ~AllowAt(cfg, s, y[1], y[2], q)
        PROVE  Shielded(R, DropOn(U, c, q), AllowOn(U, c, q))
    <3> DEFINE D == DropOn(U, c, q)
               A == AllowOn(U, c, q)
    <3>1. \A x \in ToSet(t) : IsSequence(f[x]) /\ Shielded(f[x], D, A)
      <4>1. \A x \in ToSet(t) : ToSet(f[x]) \subseteq U
        BY <1>2, <2>6
      <4> QED
        BY <1>1, <1>3, <2>2, <2>6, <4>1
    <3> HIDE DEF D, A
    <3>2. Shielded(R, D, A)
      BY <3>1, MapShields
    <3> QED
      BY <3>2 DEF D, A
  <2> QED
    BY <2>3, <2>4, <2>5, <2>6
<1> HIDE DEF R
<1>6. PortPart(R, c, cfg, s, K)
  BY <1>2, <1>4, <1>5 DEF PortPart
<1> QED
  BY <1>6 DEF R, K

\* The ports of a container are such that rules can be built for them.
PortsFine(c, cfg) ==
    /\ c # "whalewall" /\ PortsOK(world[c].ports)
    /\ \A p \in world[c].ports :
         /\ p.proto \in {"tcp", "udp"}
         /\ cfg.localAllow \/ \A b \in p.bindings : FromLocalhost(b) => b.port \in Ports

LEMMA NetworkPorts ==
    ASSUME NEW c, NEW cfg, PortsFine(c, cfg), NEW s, NEW n, NetOK(s, n), FlagsOK(cfg)
    PROVE  PortPart(NetworkPortRules(c, cfg, s, n), c, cfg, s, {<<n, p>> : p \in world[c].ports})
<1> DEFINE t == SortedPorts(c)
           P == world[c].ports
           f == [p \in P |-> PortRules(c, cfg, s, n, p)]
           k == [p \in P |-> {<<n, p>>}]
           R == NetworkPortRules(c, cfg, s, n)
<1>1. IsSequence(t) /\ ToSet(t) = P
  BY PortsSorted DEF PortsFine
<1>2. R = FlattenSeq([i \in DOMAIN t |-> PortRules(c, cfg, s, n, t[i])])
  BY DEF NetworkPortRules, Concat
<1>3. [i \in DOMAIN t |-> PortRules(c, cfg, s, n, t[i])] = [i \in DOMAIN t |-> f[t[i]]]
  BY <1>1 DEF ToSet
<1>4. ASSUME NEW p \in P
      PROVE  PortPart(f[p], c, cfg, s, k[p])
  <2>1. f[p] = PortRules(c, cfg, s, n, p) /\ k[p] = {<<n, p>>}
    OBVIOUS
  <2>2. PortIs(p, cfg) /\ c # "whalewall"
    BY DEF PortsFine, PortsOK, PortIs, PortOK
  <2> HIDE DEF f, k
  <2> QED
    BY <2>1, <2>2, OnePort
<1>5. UNION {k[p] : p \in P} = {<<n, p>> : p \in P}
  OBVIOUS
<1> HIDE DEF f, k, R, t, P
<1>6. \A p \in ToSet(t) : PortPart(f[p], c, cfg, s, k[p])
  BY <1>1, <1>4
<1>7. R = FlattenSeq([i \in DOMAIN t |-> f[t[i]]])
  BY <1>2, <1>3
<1>8. PortPart(R, c, cfg, s, UNION {k[p] : p \in ToSet(t)})
  BY <1>1, <1>6, <1>7, PortsGather
<1>9. PortPart(R, c, cfg, s, {<<n, p>> : p \in P})
  BY <1>1, <1>5, <1>8
<1> QED
  BY <1>9 DEF R, P

LEMMA GreatestInt ==
    ASSUME NEW S, IsFiniteSet(S), S \subseteq Int, S # {}
    PROVE  Max(S) \in S /\ \A y \in S : y <= Max(S)
<1> DEFINE t == SetToSeq(S)
           n == Len(t)
           G == {k \in Nat : k = 0 \/ k > n \/ \E i \in 1..n : \A j \in 1..k : t[j] <= t[i]}
<1>1. t \in Seq(S) /\ ToSet(t) = S
  BY SetToSeqHolds
<1> HIDE DEF t
<1>2. n \in Nat /\ S = {t[i] : i \in 1..n}
  <2>1. IsSequence(t)
    BY <1>1, SequenceOf
  <2> QED
    BY <1>1, <2>1, SequenceIs
<1> HIDE DEF n
<1>3. \A i \in 1..n : t[i] \in Int
  BY <1>2
<1>4. 0 \in G
  OBVIOUS
<1>5. ASSUME NEW k \in Nat, k \in G
      PROVE  k + 1 \in G
  <2>1. CASE k + 1 > n
    BY <2>1
  <2>2. CASE k = 0 /\ ~(k + 1 > n)
    <3>1. 1 \in 1..n /\ \A j \in 1..(k + 1) : t[j] <= t[1]
      BY <1>2, <1>3, <2>2
    <3> QED
      BY <3>1
  <2>3. CASE k # 0 /\ ~(k + 1 > n)
    <3>1. PICK i \in 1..n : \A j \in 1..k : t[j] <= t[i]
      BY <1>2, <1>5, <2>3
    <3>2. k + 1 \in 1..n
      BY <1>2, <2>3
    <3>3. CASE t[k + 1] <= t[i]
      <4>1. \A j \in 1..(k + 1) : t[j] <= t[i]
        BY <3>1, <3>3
      <4> QED
        BY <4>1
    <3>4. CASE ~(t[k + 1] <= t[i])
      <4>1. ASSUME NEW j \in 1..(k + 1)
            PROVE  t[j] <= t[k + 1]
        <5>1. j \in 1..n
          BY <1>2, <3>2
        <5>2. CASE j = k + 1
          BY <1>3, <3>2, <5>2
        <5>3. CASE j # k + 1
          <6>1. t[j] <= t[i]
            BY <3>1, <5>3
          <6> QED
            BY <1>3, <3>2, <3>4, <5>1, <6>1
        <5> QED
          BY <5>2, <5>3
      <4> QED
        BY <3>2, <4>1
    <3> QED
      BY <3>3, <3>4
  <2> QED
    BY <2>1, <2>2, <2>3
<1>6. n \in G
  <2> HIDE DEF G
  <2> QED
    BY <1>2, <1>4, <1>5, SetInduction
<1>7. n # 0
  BY <1>2
<1>8. PICK i \in 1..n : \A j \in 1..n : t[j] <= t[i]
  BY <1>2, <1>6, <1>7
<1>9. \E x \in S : \A y \in S : x >= y
  BY <1>2, <1>3, <1>8
<1> QED
  BY <1>9 DEF Max

LEMMA SmallestNat ==
    ASSUME NEW S, S \subseteq Nat, S # {}
    PROVE  Min(S) \in S /\ \A y \in S : Min(S) <= y
<1>1. \E x \in S : \A y \in S : x <= y
  BY LeastNat
<1> QED
  BY <1>1 DEF Min

\* Docker's gateway network is the one that beats the others.
LEMMA GatewayIs ==
    ASSUME NEW nets, IsFiniteSet(DOMAIN nets), DOMAIN nets \subseteq Nat,
           \A n \in DOMAIN nets : nets[n].priority \in Int, Usable(nets) = DOMAIN nets, GatewayCapable(nets) # {}
    PROVE  /\ dockerIPv4GatewayNetworkName(nets) \in DOMAIN nets
           /\ \A n \in DOMAIN nets : n = dockerIPv4GatewayNetworkName(nets) <=>
                /\ nets[n].gateway # NoAddr
                /\ \A m \in DOMAIN nets : nets[m].gateway # NoAddr =>
                     nets[n].priority > nets[m].priority \/ (nets[n].priority = nets[m].priority /\ n <= m)
<1> DEFINE C == GatewayCapable(nets)
           T == {nets[n].priority : n \in C}
           top == Max(T)
           S == {n \in C : nets[n].priority = top}
           at == Min(S)
<1>1. C \subseteq DOMAIN nets /\ \A n \in DOMAIN nets : n \in C <=> nets[n].gateway # NoAddr
  BY DEF GatewayCapable
<1>2. dockerIPv4GatewayNetworkName(nets) = at
  BY DEF dockerIPv4GatewayNetworkName
<1>3. IsFiniteSet(C)
  BY <1>1, FS_Subset
<1>4. IsFiniteSet(T)
  <2> DEFINE g == [n \in C |-> nets[n].priority]
  <2>1. g \in Surjection(C, T)
    BY DEF Surjection
  <2> HIDE DEF g, C, T
  <2> QED
    BY <1>3, <2>1, FS_Surjection
<1>5. T \subseteq Int /\ T # {}
  BY <1>1
<1>6. top \in T /\ \A y \in T : y <= top
  <2> HIDE DEF T
  <2> QED
    BY <1>4, <1>5, GreatestInt
<1> HIDE DEF top
<1>7. S \subseteq Nat /\ S # {}
  BY <1>1, <1>6
<1>8. at \in S /\ \A y \in S : at <= y
  <2> HIDE DEF S
  <2> QED
    BY <1>7, SmallestNat
<1> HIDE DEF at
<1>9. at \in DOMAIN nets /\ at \in Nat /\ at \in C /\ nets[at].priority = top
  BY <1>1, <1>8
<1>10. \A m \in C : m \in Nat /\ nets[m].priority \in Int /\ nets[m].priority <= top /\ (nets[m].priority = top => at <= m)
  BY <1>1, <1>6, <1>8
<1>11. top \in Int
  BY <1>5, <1>6
<1> HIDE DEF S, T, C
<1>12. ASSUME NEW n \in DOMAIN nets, n = at
       PROVE  /\ nets[n].gateway # NoAddr
              /\ \A m \in DOMAIN nets : nets[m].gateway # NoAddr =>
                   nets[n].priority > nets[m].priority \/ (nets[n].priority = nets[m].priority /\ n <= m)
  <2>1. \A m \in C : top > nets[m].priority \/ (top = nets[m].priority /\ at <= m)
    BY <1>10, <1>11
  <2> QED
    BY <1>1, <1>9, <1>12, <2>1
<1>13. ASSUME NEW n \in DOMAIN nets, nets[n].gateway # NoAddr,
              \A m \in DOMAIN nets : nets[m].gateway # NoAddr =>
                   nets[n].priority > nets[m].priority \/ (nets[n].priority = nets[m].priority /\ n <= m)
       PROVE  n = at
  <2>1. n \in C
    BY <1>1, <1>13
  <2>2. nets[n].priority > top \/ (nets[n].priority = top /\ n <= at)
    BY <1>1, <1>9, <1>13
  <2>3. n \in Nat /\ nets[n].priority \in Int /\ nets[n].priority <= top /\ (nets[n].priority = top => at <= n)
    BY <1>10, <2>1
  <2> QED
    BY <1>9, <1>11, <2>2, <2>3
<1> QED
  BY <1>2, <1>9, <1>12, <1>13

\* Ports that are not published add nothing.
LEMMA PublishedOnly ==
    ASSUME NEW R, NEW c, NEW cfg, NEW s, NEW K, NEW J, PortPart(R, c, cfg, s, K), J \subseteq K,
           \A k \in K : k \in J \/ k[2].bindings = {}
    PROVE  PortPart(R, c, cfg, s, J)
<1>1. ASSUME NEW k \in K, k \notin J
      PROVE  \A q : ~HostDenied(cfg, k[2], q) /\ ~DenyAt(cfg, s, k[1], k[2], q) /\ ~AllowAt(cfg, s, k[1], k[2], q)
  BY <1>1 DEF HostDenied, DenyAt, AllowAt, OpenToHost
<1>2. \A q : (\E k \in K : HostDenied(cfg, k[2], q)) <=> (\E k \in J : HostDenied(cfg, k[2], q))
  BY <1>1
<1>3. \A q : (\E k \in K : DenyAt(cfg, s, k[1], k[2], q)) <=> (\E k \in J : DenyAt(cfg, s, k[1], k[2], q))
  BY <1>1
<1>4. \A q : (\E k \in K : AllowAt(cfg, s, k[1], k[2], q) \/ (q.st = "est" /\ AllowAt(cfg, s, k[1], k[2], Reply(q)))) <=>
             (\E k \in J : AllowAt(cfg, s, k[1], k[2], q) \/ (q.st = "est" /\ AllowAt(cfg, s, k[1], k[2], Reply(q))))
  BY <1>1
<1>5. \A q : (\A k \in K : DenyAt(cfg, s, k[1], k[2], q) \/ ~AllowAt(cfg, s, k[1], k[2], q)) <=>
             (\A k \in J : DenyAt(cfg, s, k[1], k[2], q) \/ ~AllowAt(cfg, s, k[1], k[2], q))
  BY <1>1
<1> QED
  BY <1>2, <1>3, <1>4, <1>5 DEF PortPart

LEMMA NoPorts ==
    ASSUME NEW c, NEW cfg, NEW s
    PROVE  PortPart(<<>>, c, cfg, s, {})
<1> DEFINE R == <<>>
<1>1. IsSequence(R) /\ ToSet(R) = {}
  BY EmptySequence
<1> HIDE DEF R
<1>2. \A U, q : Shielded(R, DropOn(U, c, q), AllowOn(U, c, q))
  BY <1>1, ShieldedEmpty
<1>3. \A x, q : ~Hits(R, x, q) /\ DropOn(ToSet(R), x, q) = {} /\ AllowOn(ToSet(R), x, q) = {}
  BY <1>1 DEF Hits, DropOn, AllowOn
<1>4. PortPart(R, c, cfg, s, {})
  BY <1>1, <1>2, <1>3 DEF PortPart
<1> QED
  BY <1>4 DEF R

PortPairs(c) == {<<n, p>> : n \in GatewayNets(c), p \in Published(c)}

\* The networks of createPortMappingRules are those Docker may publish ports through.
LEMMA PortNetworks ==
    ASSUME NEW c, Sound(c), NEW cfg, Published(c) # {}, ~createPortMappingRules(c, cfg, Scope(c)).err
    PROVE  LET s == Scope(c)
               at == dockerIPv4GatewayNetworkName(Nets(c))
               names == IF ~s.explicit THEN SortedNames(s.nets) ELSE IF at \in DOMAIN s.nets THEN <<at>> ELSE <<>>
           IN  IsSequence(names) /\ ToSet(names) = GatewayNets(c) /\ GatewayNets(c) \subseteq DOMAIN s.nets
<1> DEFINE s == Scope(c)
           nets == Nets(c)
           at == dockerIPv4GatewayNetworkName(nets)
           names == IF ~s.explicit THEN SortedNames(s.nets) ELSE IF at \in DOMAIN s.nets THEN <<at>> ELSE <<>>
<1>1. world \in Worlds /\ c \in running /\ c \in DOMAIN world /\ ~s.err /\ running \subseteq DOMAIN world
  BY DEF Sound
<1>2. /\ nets = world[c].nets /\ IsFunction(nets) /\ NoNet \notin DOMAIN nets
      /\ world[c].scope = AllNetworks \/ IsSequence(world[c].scope)
  BY <1>1, NetsAre
<1>3. IsFiniteSet(DOMAIN nets) /\ DOMAIN nets \subseteq Nat /\ \A n \in DOMAIN nets : EndpointOK(nets[n])
  BY <1>1, <1>2, Described DEF ContainerOK
<1>4. /\ s.explicit <=> world[c].scope # AllNetworks
      /\ DOMAIN s.nets \subseteq DOMAIN nets
      /\ s.nets = IF scopeError(resolveManagedNetworks(world[c].scope, Project(c), nets), nets) THEN nets
                  ELSE resolveManagedNetworks(world[c].scope, Project(c), nets).nets
  BY <1>2, ScopeFacts DEF Scope
<1>5. CASE world[c].scope = AllNetworks
  <2>1. s.nets = nets
    BY <1>4, <1>5 DEF resolveManagedNetworks
  <2>2. GatewayNets(c) = DOMAIN s.nets
    BY <1>5, <2>1 DEF GatewayNets
  <2>3. names = SortedNames(s.nets)
    BY <1>4, <1>5
  <2>4. IsFiniteSet(DOMAIN s.nets) /\ DOMAIN s.nets \subseteq Nat
    BY <1>3, <2>1
  <2> HIDE DEF names, s
  <2>5. IsSequence(names) /\ ToSet(names) = DOMAIN s.nets
    BY <2>3, <2>4, NamesSorted
  <2> QED
    BY <2>2, <2>5 DEF names, s
<1>6. CASE world[c].scope # AllNetworks
  <2>0. s.explicit
    BY <1>4, <1>6
  <2>1. at # NoNet
    BY <2>0 DEF createPortMappingRules
  <2>2. Usable(nets) = DOMAIN nets /\ GatewayCapable(nets) # {}
    <3> HIDE DEF nets
    <3> QED
      BY <2>1 DEF dockerIPv4GatewayNetworkName
  <2>3. \A n \in DOMAIN nets : nets[n].priority \in Int
    <3>1. \A n \in DOMAIN nets : nets[n] # NoEndpoint
      BY <2>2 DEF Usable
    <3> QED
      BY <1>3, <3>1 DEF EndpointOK
  <2> DEFINE B(n) == /\ nets[n].gateway # NoAddr
                     /\ \A m \in DOMAIN nets : nets[m].gateway # NoAddr =>
                          nets[n].priority > nets[m].priority \/ (nets[n].priority = nets[m].priority /\ n <= m)
  <2>4. GatewayNets(c) = {n \in DOMAIN s.nets : B(n)}
    BY <1>6 DEF GatewayNets
  <2> HIDE DEF nets
  <2>5. \A n \in DOMAIN nets : n = at <=> B(n)
    BY <1>3, <2>2, <2>3, GatewayIs
  <2> HIDE DEF at, s, B
  <2>6. GatewayNets(c) = IF at \in DOMAIN s.nets THEN {at} ELSE {}
    BY <1>4, <2>4, <2>5
  <2>7. names = IF at \in DOMAIN s.nets THEN <<at>> ELSE <<>>
    BY <2>0
  <2> HIDE DEF names
  <2>8. IsSequence(names) /\ ToSet(names) = IF at \in DOMAIN s.nets THEN {at} ELSE {}
    BY <2>7, SingleSequence, EmptySequence
  <2>9. ToSet(names) = GatewayNets(c) /\ GatewayNets(c) \subseteq DOMAIN s.nets
    BY <2>6, <2>8
  <2> QED
    BY <2>8, <2>9 DEF names, s, at, nets
<1> QED
  BY <1>5, <1>6

LEMMA PortMappingHolds ==
    ASSUME NEW c, Sound(c), RulesLabel(c) # Unset, ~createPortMappingRules(c, RulesLabel(c), Scope(c)).err
    PROVE  PortPart(createPortMappingRules(c, RulesLabel(c), Scope(c)).rules, c, RulesLabel(c), Scope(c), PortPairs(c))
<1> DEFINE s == Scope(c)
           cfg == RulesLabel(c)
           at == dockerIPv4GatewayNetworkName(Nets(c))
           names == IF ~s.explicit THEN SortedNames(s.nets) ELSE IF at \in DOMAIN s.nets THEN <<at>> ELSE <<>>
           M == createPortMappingRules(c, cfg, s)
           P == world[c].ports
           N == GatewayNets(c)
           f == [n \in N |-> NetworkPortRules(c, cfg, s, n)]
           k == [n \in N |-> {<<n, p>> : p \in P}]
<1>1. CASE Published(c) = {}
  <2>1. M.rules = <<>>
    BY <1>1 DEF createPortMappingRules
  <2>2. PortPairs(c) = {}
    BY <1>1 DEF PortPairs
  <2> QED
    BY <2>1, <2>2, NoPorts
<1>2. CASE Published(c) # {}
  <2>1. IsSequence(names) /\ ToSet(names) = N /\ N \subseteq DOMAIN s.nets
    BY <1>2, PortNetworks
  <2>2. CASE names = <<>>
    <3>1. M.rules = <<>>
      BY <2>2 DEF createPortMappingRules
    <3>2. N = {}
      BY <2>1, <2>2, EmptySequence
    <3>3. PortPairs(c) = {}
      BY <3>2 DEF PortPairs
    <3> QED
      BY <3>1, <3>3, NoPorts
  <2>3. CASE names # <<>>
    <3>1. /\ \A p \in P : /\ p.proto \in {"tcp", "udp"}
                          /\ \A b \in p.bindings : ~cfg.localAllow /\ FromLocalhost(b) => b.port # NoPort
          /\ M.rules = FlattenSeq([i \in DOMAIN names |-> NetworkPortRules(c, cfg, s, names[i])])
      BY <1>2, <2>3 DEF createPortMappingRules, Concat
    <3>2. world \in Worlds /\ c \in DOMAIN world
      BY DEF Sound
    <3>3. PortsFine(c, cfg)
      <4>1. c # "whalewall" /\ PortsOK(P)
        BY <3>2, Described DEF ContainerOK
      <4>2. \A p \in P : \A b \in p.bindings : b.port = NoPort \/ b.port \in Ports
        BY <4>1 DEF PortsOK
      <4> QED
        BY <3>1, <4>1, <4>2 DEF PortsFine
    <3>4. FlagsOK(cfg)
      <4>1. cfg \notin {Unset, Unreadable}
        BY DEF Sound
      <4>2. ConfigOK(cfg)
        BY <3>2, <4>1, LabelOK
      <4> HIDE DEF cfg
      <4> QED
        BY <4>2 DEF ConfigOK, FlagsOK
    <3>5. \A n \in N : NetOK(s, n)
      <4>1. ~RunningScope(c).err /\ s = RunningScope(c)
        BY SoundFacts
      <4> HIDE DEF s, N
      <4> QED
        BY <2>1, <3>2, <4>1, SoundScope DEF NetOK
    <3>6. [i \in DOMAIN names |-> NetworkPortRules(c, cfg, s, names[i])] = [i \in DOMAIN names |-> f[names[i]]]
      <4> HIDE DEF names, N, cfg, s
      <4> QED
        BY <2>1 DEF ToSet
    <3>7. ASSUME NEW n \in N
          PROVE  PortPart(f[n], c, cfg, s, k[n])
      <4>1. f[n] = NetworkPortRules(c, cfg, s, n) /\ k[n] = {<<n, p>> : p \in P}
        OBVIOUS
      <4> HIDE DEF f, k, s, cfg, N
      <4> QED
        BY <3>3, <3>4, <3>5, <4>1, NetworkPorts
    <3>8. \A x : x \in UNION {k[n] : n \in N} <=> \E n \in N, p \in P : x = <<n, p>>
      <4> HIDE DEF N, P
      <4> QED
        OBVIOUS
    <3> HIDE DEF f, k, names, M, N, s, cfg, P
    <3>9. M.rules = FlattenSeq([i \in DOMAIN names |-> f[names[i]]])
      BY <3>1, <3>6
    <3>10. PortPart(M.rules, c, cfg, s, UNION {k[n] : n \in ToSet(names)})
      BY <2>1, <3>7, <3>9, PortsGather
    <3> DEFINE K == UNION {k[n] : n \in N}
    <3>11. PortPart(M.rules, c, cfg, s, K)
      BY <2>1, <3>10
    <3>12. PortPairs(c) \subseteq K
      BY <3>8 DEF PortPairs, Published, N, P
    <3>13. \A x \in K : x \in PortPairs(c) \/ x[2].bindings = {}
      BY <3>8 DEF PortPairs, Published, N, P
    <3> HIDE DEF K
    <3>14. PortPart(M.rules, c, cfg, s, PortPairs(c))
      BY <3>11, <3>12, <3>13, PublishedOnly
    <3> QED
      BY <3>14 DEF M, cfg, s
  <2> QED
    BY <2>2, <2>3
<1> QED
  BY <1>1, <1>2

\* In the words of the labels: what is let in, what is denied, and that a denial
\* is not undone by an allow for another port or network.
LEMMA PortsGranted ==
    ASSUME NEW c, Sound(c), RulesLabel(c) # Unset, Published(c) = {} \/ GatewayNets(c) \subseteq DOMAIN Scope(c).nets, NEW q
    PROVE  LET s == Scope(c)
               cfg == RulesLabel(c)
           IN  /\ (\E k \in PortPairs(c) : AllowAt(cfg, s, k[1], k[2], q)) <=> InGranted(c, q)
               /\ (\E k \in PortPairs(c) : DenyAt(cfg, s, k[1], k[2], q)) <=> InDenied(c, q)
               /\ InDenied(c, q) => \A k \in PortPairs(c) : DenyAt(cfg, s, k[1], k[2], q) \/ ~AllowAt(cfg, s, k[1], k[2], q)
<1> DEFINE s == Scope(c)
           cfg == RulesLabel(c)
           K == PortPairs(c)
<1>1. \A k : k \in K <=> \E n \in GatewayNets(c), p \in Published(c) : k = <<n, p>>
  BY DEF PortPairs
<1>2. /\ world \in Worlds /\ c \in DOMAIN world /\ c \in running
  BY DEF Sound
<1>3. Nets(c) = world[c].nets /\ s = RunningScope(c) /\ ~RunningScope(c).err
  BY <1>2, NetsAre, SoundFacts
<1>4. \A n \in DOMAIN s.nets : s.nets[n] = world[c].nets[n] /\ n \in Usable(world[c].nets)
  <2>1. \A n \in DOMAIN s.nets : /\ s.nets[n] = world[c].nets[n] /\ s.nets[n] # NoEndpoint
                                 /\ n \in DOMAIN world[c].nets /\ s.nets[n].addr # NoAddr
    BY <1>2, <1>3, SoundScope
  <2> HIDE DEF s
  <2> QED
    BY <2>1 DEF Usable
<1>5. /\ \A p \in Published(c) : p \in world[c].ports /\ p.bindings # {}
  BY DEF Published
<1> HIDE DEF s, cfg, K
<1>6. ASSUME NEW n \in GatewayNets(c), NEW p \in Published(c)
      PROVE  /\ LocalAt(s, n, p, q) <=> Arrives(c, q, n, p) /\ q.src = Nets(c)[n].gateway
             /\ ExternalAt(cfg, s, n, p, q) <=> Arrives(c, q, n, p) /\ Selects(cfg.externalIPs, q.src)
             /\ AllowAt(cfg, s, n, p, q) <=>
                  /\ Arrives(c, q, n, p)
                  /\ (cfg.externalAllow /\ Selects(cfg.externalIPs, q.src)) \/ (cfg.localAllow /\ FromGateway(c, q, n, p))
             /\ DenyAt(cfg, s, n, p, q) <=> ~cfg.localAllow /\ Arrives(c, q, n, p) /\ FromGateway(c, q, n, p)
             /\ n \in DOMAIN s.nets
  <2>1. n \in DOMAIN s.nets /\ s.nets[n] = Nets(c)[n]
    BY <1>3, <1>4 DEF s
  <2>2. LocalAt(s, n, p, q) <=> Arrives(c, q, n, p) /\ q.src = Nets(c)[n].gateway
    BY <2>1 DEF LocalAt, Arrives, PortAt
  <2>3. ExternalAt(cfg, s, n, p, q) <=> Arrives(c, q, n, p) /\ Selects(cfg.externalIPs, q.src)
    BY <2>1 DEF ExternalAt, Arrives, PortAt
  <2>4. AllowAt(cfg, s, n, p, q) <=>
          /\ Arrives(c, q, n, p)
          /\ (cfg.externalAllow /\ Selects(cfg.externalIPs, q.src)) \/ (cfg.localAllow /\ FromGateway(c, q, n, p))
    BY <1>5, <2>2, <2>3 DEF AllowAt, FromGateway
  <2>5. DenyAt(cfg, s, n, p, q) <=> ~cfg.localAllow /\ Arrives(c, q, n, p) /\ FromGateway(c, q, n, p)
    BY <2>2 DEF DenyAt, FromGateway
  <2> QED
    BY <2>1, <2>2, <2>3, <2>4, <2>5
<1>7. /\ \A k \in K : k[1] \in GatewayNets(c) /\ k[2] \in Published(c)
      /\ \A n \in GatewayNets(c), p \in Published(c) : <<n, p>> \in K /\ <<n, p>>[1] = n /\ <<n, p>>[2] = p
  BY <1>1
<1>8. (\E k \in K : AllowAt(cfg, s, k[1], k[2], q)) <=>
        \E n \in GatewayNets(c), p \in Published(c) : AllowAt(cfg, s, n, p, q)
  <2>1. ASSUME NEW n \in GatewayNets(c), NEW p \in Published(c), AllowAt(cfg, s, n, p, q)
        PROVE  \E k \in K : AllowAt(cfg, s, k[1], k[2], q)
    <3> DEFINE k == <<n, p>>
    <3>1. k \in K /\ k[1] = n /\ k[2] = p
      BY <1>7
    <3> HIDE DEF k
    <3> QED
      BY <2>1, <3>1
  <2> QED
    BY <1>7, <2>1
<1>9. (\E k \in K : DenyAt(cfg, s, k[1], k[2], q)) <=>
        \E n \in GatewayNets(c), p \in Published(c) : DenyAt(cfg, s, n, p, q)
  <2>1. ASSUME NEW n \in GatewayNets(c), NEW p \in Published(c), DenyAt(cfg, s, n, p, q)
        PROVE  \E k \in K : DenyAt(cfg, s, k[1], k[2], q)
    <3> DEFINE k == <<n, p>>
    <3>1. k \in K /\ k[1] = n /\ k[2] = p
      BY <1>7
    <3> HIDE DEF k
    <3> QED
      BY <2>1, <3>1
  <2> QED
    BY <1>7, <2>1
<1>10. (\E k \in K : AllowAt(cfg, s, k[1], k[2], q)) <=> InGranted(c, q)
  BY <1>6, <1>8 DEF InGranted, cfg
<1>11. (\E k \in K : DenyAt(cfg, s, k[1], k[2], q)) <=> InDenied(c, q)
  BY <1>6, <1>9 DEF InDenied, cfg
<1>12. ASSUME InDenied(c, q), NEW k \in K, AllowAt(cfg, s, k[1], k[2], q)
       PROVE  DenyAt(cfg, s, k[1], k[2], q)
  <2>1. PICK n \in GatewayNets(c), p \in Published(c) : DenyAt(cfg, s, n, p, q)
    BY <1>9, <1>11, <1>12
  <2>2. PICK m \in GatewayNets(c), o \in Published(c) : k = <<m, o>>
    BY <1>1, <1>12
  <2>3. AllowAt(cfg, s, m, o, q)
    BY <1>12, <2>2
  <2>4. Arrives(c, q, n, p) /\ Arrives(c, q, m, o) /\ n \in DOMAIN s.nets /\ m \in DOMAIN s.nets
    BY <1>6, <2>1, <2>3
  <2>5. world[c].nets[n].addr = world[c].nets[m].addr /\ p.port = o.port /\ p.proto = o.proto
    BY <1>3, <2>4 DEF Arrives
  <2>6. /\ \A x, y \in world[c].ports : x.port = y.port /\ x.proto = y.proto => x = y
        /\ \A x, y \in Usable(world[c].nets) : world[c].nets[x].addr = world[c].nets[y].addr => x = y
    <3>1. ContainerOK(world[c]) /\ world[c].ports # {}
      BY <1>2, <1>5, Described
    <3> QED
      BY <3>1 DEF ContainerOK, PortsOK
  <2>7. n = m /\ p = o
    BY <1>4, <1>5, <2>4, <2>5, <2>6
  <2> QED
    BY <2>1, <2>2, <2>7
<1> QED
  BY <1>10, <1>11, <1>12 DEF K, s, cfg

-----------------------------------------------------------------------------
(* The outcome of createContainerRules *)

Known(c) == rows \cup {c}
OwnRows(c) == WaitingRows(c, Populated(c), Scope(c).nets)
TableFor(c) == {w \in waiting : w.src # c} \cup OwnRows(c)
Inbound(c) == createWaitingContainerRules(c, TableFor(c), Known(c), Scope(c), Peers)
Outbound(c) == createOutputRules(c, Populated(c), Known(c), Scope(c), Peers)
Mapping(c) ==
    IF RulesLabel(c) = Unset THEN [err |-> FALSE, rules |-> <<>>] ELSE createPortMappingRules(c, RulesLabel(c), Scope(c))
Result(c) == Outcome(c, RulesLabel(c), Scope(c), Peers)

LEMMA OutcomeIs ==
    ASSUME world \in Worlds, running \subseteq DOMAIN world, NEW c \in running
    PROVE  /\ ~Result(c).err <=> Sound(c) /\ ~Inbound(c).err /\ ~Mapping(c).err
           /\ ~Result(c).err => /\ Result(c).rules = Inbound(c).rules \o Outbound(c) \o Mapping(c).rules
                                /\ Result(c).rows = OwnRows(c)
           /\ Result(c).err => Result(c).rules = <<>> /\ Result(c).rows = {}
<1> DEFINE s == Scope(c)
           cfg == RulesLabel(c)
           B == Built(c, cfg, Populated(c), s, Peers)
<1>1. Refused.err /\ Refused.rules = <<>> /\ Refused.rows = {}
  BY DEF Refused
<1>2. CASE s.err \/ cfg = Unreadable \/ (cfg # Unset /\ validateConfig(cfg))
  <2>1. Result(c) = Refused
    BY <1>2 DEF Result, Outcome
  <2>2. ~Sound(c)
    BY <1>2 DEF Sound
  <2> QED
    BY <1>1, <2>1, <2>2
<1>3. CASE ~(s.err \/ cfg = Unreadable \/ (cfg # Unset /\ validateConfig(cfg)))
  <2>1. Result(c) = B
    BY <1>3 DEF Result, Outcome, Populated
  <2>2. Sound(c) <=> ~\E P \in ToSet(Populated(c)) : P.err
    BY <1>3 DEF Sound
  <2>3. CASE \E P \in ToSet(Populated(c)) : P.err
    <3>1. B = Refused
      BY <2>3 DEF Built
    <3> QED
      BY <1>1, <2>1, <2>2, <2>3, <3>1
  <2>4. CASE ~\E P \in ToSet(Populated(c)) : P.err
    <3>1. B = Assembled(OwnRows(c), Inbound(c), Outbound(c), Mapping(c))
      BY <2>4 DEF Built, OwnRows, Inbound, Outbound, Mapping, Known, TableFor
    <3> HIDE DEF B
    <3>2. CASE Inbound(c).err \/ Mapping(c).err
      BY <1>1, <2>1, <2>2, <2>4, <3>1, <3>2 DEF Assembled
    <3>3. CASE ~(Inbound(c).err \/ Mapping(c).err)
      <4>1. B = [err |-> FALSE, rows |-> OwnRows(c), rules |-> Inbound(c).rules \o Outbound(c) \o Mapping(c).rules]
        BY <3>1, <3>3 DEF Assembled
      <4> DEFINE all == Inbound(c).rules \o Outbound(c) \o Mapping(c).rules
      <4> HIDE DEF all
      <4>2. B = [err |-> FALSE, rows |-> OwnRows(c), rules |-> all]
        BY <4>1 DEF all
      <4>3. ~B.err /\ B.rows = OwnRows(c) /\ B.rules = all
        BY <4>2
      <4> QED
        BY <2>1, <2>2, <2>4, <3>3, <4>3 DEF all
    <3> QED
      BY <3>2, <3>3
  <2> QED
    BY <2>3, <2>4
<1> QED
  BY <1>2, <1>3

-----------------------------------------------------------------------------
(* The invariant *)

EndsWith(s, e) == s # <<>> /\ Last(s) = e

LEMMA AppendIs ==
    ASSUME NEW s, NEW e, IsSequence(s)
    PROVE  /\ Append(s, e) = s \o <<e>> /\ IsSequence(Append(s, e)) /\ ToSet(Append(s, e)) = ToSet(s) \cup {e}
           /\ EndsWith(Append(s, e), e)
<1> DEFINE T == ToSet(s) \cup {e}
<1>1. s \in Seq(ToSet(s)) /\ ToSet(s) \subseteq T /\ e \in T
  BY DEF IsSequence
<1> HIDE DEF T
<1>2. s \in Seq(T)
  BY <1>1
<1>3. Append(s, e) = s \o <<e>>
  BY <1>1, <1>2
<1>4. IsSequence(s \o <<e>>) /\ ToSet(s \o <<e>>) = ToSet(s) \cup {e}
  BY SingleSequence, ConcatSequences
<1>5. Append(s, e) # <<>> /\ Len(Append(s, e)) = Len(s) + 1 /\ Append(s, e)[Len(s) + 1] = e
  BY <1>1, <1>2
<1> QED
  BY <1>3, <1>4, <1>5 DEF EndsWith, Last

LEMMA EndsConcat ==
    ASSUME NEW s, NEW t, NEW e, IsSequence(s), IsSequence(t), EndsWith(t, e)
    PROVE  EndsWith(s \o t, e)
<1>1. Len(s) \in Nat /\ Len(t) \in Nat
  BY SequenceIs
<1>2. Len(t) # 0
  BY DEF EndsWith, IsSequence
<1>3. Len(s \o t) = Len(s) + Len(t) /\ \A i \in 1..Len(t) : (s \o t)[Len(s) + i] = t[i]
  BY ConcatSequences
<1>4. s \o t # <<>>
  BY <1>1, <1>2, <1>3
<1>5. (s \o t)[Len(s \o t)] = t[Len(t)]
  BY <1>1, <1>2, <1>3
<1> QED
  BY <1>4, <1>5 DEF EndsWith, Last

LEMMA EndsKept ==
    ASSUME NEW s, NEW K, NEW e \in K, IsSequence(s), EndsWith(s, e)
    PROVE  EndsWith(Kept(s, K), e)
<1> DEFINE n == Len(s)
           ss == [i \in DOMAIN s |-> IF s[i] \in K THEN <<s[i]>> ELSE <<>>]
<1>1. n \in Nat /\ DOMAIN s = 1..n
  BY SequenceIs
<1>2. \A i \in DOMAIN s : IsSequence(ss[i])
  BY SingleSequence, EmptySequence
<1>3. IsSequence(ss) /\ DOMAIN ss = 1..n /\ Len(ss) = n
  <2> DEFINE T == {ss[i] : i \in DOMAIN s}
  <2>1. ss \in [1..n -> T]
    BY <1>1
  <2> HIDE DEF ss, T, n
  <2>2. ss \in Seq(T) /\ DOMAIN ss = 1..n /\ Len(ss) = n
    BY <1>1, <2>1
  <2> QED
    BY <2>2, SequenceOf
<1>4. n # 0 /\ s[n] = e
  BY DEF EndsWith, IsSequence, Last
<1>5. ss[n] = <<e>>
  BY <1>1, <1>4
<1> HIDE DEF ss
<1>6. PICK F : /\ F[0] = <<>> /\ FlattenSeq(ss) = F[Len(ss)]
               /\ \A k \in Nat : k + 1 <= Len(ss) => F[k + 1] = F[k] \o ss[k + 1]
  BY <1>1, <1>2, <1>3, FlattenFolds
<1> DEFINE S == {k \in Nat : k <= n => IsSequence(F[k])}
<1> HIDE DEF n
<1>7. 0 \in S
  BY <1>6, EmptySequence
<1>8. ASSUME NEW k \in Nat, k \in S PROVE k + 1 \in S
  <2> SUFFICES ASSUME k + 1 <= n PROVE IsSequence(F[k + 1])
    OBVIOUS
  <2>1. IsSequence(F[k])
    BY <1>1, <1>8
  <2>2. k + 1 \in DOMAIN s /\ k + 1 <= Len(ss)
    BY <1>1, <1>3
  <2>3. F[k + 1] = F[k] \o ss[k + 1] /\ IsSequence(ss[k + 1])
    BY <1>2, <1>6, <2>2
  <2> QED
    BY <2>1, <2>3, ConcatSequences
<1>9. n - 1 \in Nat /\ (n - 1) + 1 = n /\ n - 1 <= n /\ n <= Len(ss)
  BY <1>1, <1>3, <1>4
<1>10. IsSequence(F[n - 1])
  BY <1>7, <1>8, <1>9, SetInduction
<1>11. F[n] = F[n - 1] \o <<e>>
  BY <1>5, <1>6, <1>9
<1>12. IsSequence(<<e>>) /\ EndsWith(<<e>>, e)
  BY SingleSequence DEF EndsWith, Last
<1>13. EndsWith(F[n], e)
  BY <1>10, <1>11, <1>12, EndsConcat
<1> QED
  BY <1>3, <1>6, <1>13 DEF Kept, ss

\* The address map leads to a container from the addresses it manages, the tables
\* hold what the labels say, and chains end with their drop.
MapOK == /\ vmap \in [Addrs -> rows \cup {None}]
         /\ \A d \in rows : \A a \in Addrs : vmap[a] = d <=> a \in ManagedAddrs(world[d])
TablesOK == /\ running \subseteq DOMAIN world /\ rows \subseteq DOMAIN world
            /\ IsFiniteSet(waiting) /\ \A w \in waiting : WaitOK(w) /\ w.src \in rows
ChainOK(c, s) ==
    /\ IsSequence(s) /\ (s = <<>> <=> c \notin rows)
    /\ c \in rows => EndsWith(s, createDropRule(c)) /\ \A r \in ToSet(s) : r.chain = c
ChainsOK == /\ DOMAIN chain = Ids /\ \A c \in Ids : ChainOK(c, chain[c])
            /\ IsSequence(main) /\ \A r \in ToSet(main) : r.drop /\ r.chain = "whalewall" /\ r.tag \in rows
IInv == /\ world \in Worlds /\ TablesOK /\ MapOK /\ ChainsOK
        /\ last \in [id : Ids \cup {None}, fate : {"none", "applied", "quarantined"}]

LEMMA FiniteElements ==
    ASSUME NEW s, IsSequence(s)
    PROVE  IsFiniteSet(ToSet(s))
<1> DEFINE n == Len(s)
           S == 1..n
           g == [i \in S |-> s[i]]
<1>1. n \in Nat /\ ToSet(s) = {s[i] : i \in S}
  BY SequenceIs
<1>2. IsFiniteSet(S)
  BY <1>1, FS_Interval
<1>3. g \in Surjection(S, ToSet(s))
  BY <1>1 DEF Surjection
<1> HIDE DEF g, S
<1> QED
  BY <1>2, <1>3, FS_Surjection

LEMMA OwnRowsOK ==
    ASSUME NEW c, Sound(c)
    PROVE  IsFiniteSet(OwnRows(c)) /\ \A w \in OwnRows(c) : WaitOK(w) /\ w.src = c
<1> DEFINE s == Scope(c)
           Q == {P \in ToSet(Populated(c)) : P.rule.container # Unset}
           g == [P \in Q |-> [src |-> c, rule |-> P.rule, resolved |-> P.peer, project |-> Project(c),
                              network |-> s.nets[findNetwork(P.rule.network, Project(c), s.nets)].id]]
<1>1. OwnRows(c) = {g[P] : P \in Q}
  BY DEF OwnRows, WaitingRows
<1>2. IsFiniteSet(Q)
  BY PopulatedHolds, FiniteElements, FS_Subset
<1>3. g \in Surjection(Q, OwnRows(c))
  <2> DEFINE W == OwnRows(c)
  <2>1. \A P \in Q : g[P] \in W
    BY <1>1
  <2>2. \A w \in W : \E P \in Q : g[P] = w
    BY <1>1
  <2>3. DOMAIN g = Q /\ g = [P \in Q |-> g[P]]
    OBVIOUS
  <2> HIDE DEF g, Q, W
  <2>4. g \in [Q -> W]
    BY <2>1, <2>3
  <2> QED
    BY <2>2, <2>4 DEF Surjection, W
<1>4. IsFiniteSet(OwnRows(c))
  <2> HIDE DEF g, Q
  <2> QED
    BY <1>2, <1>3, FS_Surjection
<1>5. ASSUME NEW w \in OwnRows(c)
      PROVE  WaitOK(w) /\ w.src = c
  <2>1. PICK P \in Q : w = g[P]
    BY <1>1
  <2>2. w.src = c /\ w.rule = P.rule /\ w.resolved = P.peer /\ w.project = Project(c)
    BY <2>1
  <2>3. P \in ToSet(Populated(c)) /\ P.rule.container # Unset
    OBVIOUS
  <2> HIDE DEF g, Q
  <2>4. PICK r \in OutputOf(c) : From(P.rule, r)
    BY <2>3, PopulatedHolds
  <2>5. RulesLabel(c) \notin {Unset, Unreadable}
    BY <2>4 DEF OutputOf, Sound
  <2>6. P.peer # None => Bears(P.peer, P.rule.container, c)
    BY <2>3, PopulatedPeer
  <2>7. c \in DOMAIN world
    BY SoundFacts
  <2> QED
    BY <2>2, <2>3, <2>4, <2>5, <2>6, <2>7 DEF WaitOK
<1> QED
  BY <1>4, <1>5

LEMMA TableOK ==
    ASSUME IInv, NEW c, Sound(c)
    PROVE  /\ IsFiniteSet(TableFor(c)) /\ \A w \in TableFor(c) : WaitOK(w) /\ w.src \in Known(c)
           /\ Known(c) \subseteq DOMAIN world /\ c \in Known(c)
<1>1. IsFiniteSet(OwnRows(c)) /\ \A w \in OwnRows(c) : WaitOK(w) /\ w.src = c
  BY OwnRowsOK
<1>2. IsFiniteSet(waiting) /\ \A w \in waiting : WaitOK(w) /\ w.src \in rows
  BY DEF IInv, TablesOK
<1> DEFINE V == {w \in waiting : w.src # c}
<1>3. IsFiniteSet(V)
  BY <1>2, FS_Subset
<1>4. IsFiniteSet(V \cup OwnRows(c))
  <2> HIDE DEF V
  <2> QED
    BY <1>1, <1>3, FS_Union
<1>5. c \in DOMAIN world
  BY SoundFacts
<1> QED
  BY <1>1, <1>2, <1>4, <1>5 DEF TableFor, Known, IInv, TablesOK

\* The parts of the policy of a container whose create succeeds.
Succeeds(c) == IInv /\ c \in running /\ ~Result(c).err

LEMMA PartsAre ==
    ASSUME NEW c, Succeeds(c)
    PROVE  /\ Sound(c) /\ c # "whalewall"
           /\ ~Inbound(c).err /\ ~Mapping(c).err
           /\ IsSequence(Inbound(c).rules) /\ IsSequence(Outbound(c)) /\ IsSequence(Mapping(c).rules)
           /\ \A e \in ToSet(Inbound(c).rules) \cup ToSet(Outbound(c)) : ~e.drop /\ e.chain \in Known(c)
           /\ PortPart(Mapping(c).rules, c, RulesLabel(c), Scope(c), IF RulesLabel(c) = Unset THEN {} ELSE PortPairs(c))
<1>1. /\ world \in Worlds /\ running \subseteq DOMAIN world /\ c \in running /\ c \in DOMAIN world
  BY DEF Succeeds, IInv, TablesOK
<1>2. Sound(c) /\ ~Inbound(c).err /\ ~Mapping(c).err
  BY <1>1, OutcomeIs DEF Succeeds
<1>3. c # "whalewall"
  BY <1>1, Described
<1>4. /\ IsFiniteSet(TableFor(c)) /\ \A w \in TableFor(c) : WaitOK(w)
      /\ Known(c) \subseteq DOMAIN world /\ Known(c) \cup {c} = Known(c) /\ ~Scope(c).err
  BY <1>2, TableOK DEF Succeeds, Sound
<1>5. IsSequence(Inbound(c).rules) /\ \A e \in ToSet(Inbound(c).rules) : ~e.drop /\ e.chain \in Known(c) \cup {c}
  BY <1>1, <1>2, <1>4, WaitingHolds DEF Inbound
<1>6. IsSequence(Outbound(c)) /\ \A e \in ToSet(Outbound(c)) : ~e.drop /\ e.chain \in Known(c) \cup {c}
  BY <1>2, <1>4, OutboundHolds DEF Outbound
<1>7. PortPart(Mapping(c).rules, c, RulesLabel(c), Scope(c), IF RulesLabel(c) = Unset THEN {} ELSE PortPairs(c))
  <2>1. CASE RulesLabel(c) = Unset
    <3>1. Mapping(c).rules = <<>>
      BY <2>1 DEF Mapping
    <3> QED
      BY <2>1, <3>1, NoPorts
  <2>2. CASE RulesLabel(c) # Unset
    <3>1. Mapping(c) = createPortMappingRules(c, RulesLabel(c), Scope(c))
      BY <2>2 DEF Mapping
    <3> QED
      BY <1>2, <2>2, <3>1, PortMappingHolds
  <2> QED
    BY <2>1, <2>2
<1>8. IsSequence(Mapping(c).rules)
  BY <1>7 DEF PortPart
<1> QED
  BY <1>2, <1>3, <1>4, <1>5, <1>6, <1>7, <1>8

LEMMA RulesParts ==
    ASSUME NEW c, Succeeds(c)
    PROVE  /\ Result(c).rules = (Inbound(c).rules \o Outbound(c)) \o Mapping(c).rules /\ Result(c).rows = OwnRows(c)
           /\ IsSequence(Inbound(c).rules \o Outbound(c))
           /\ ToSet(Inbound(c).rules \o Outbound(c)) = ToSet(Inbound(c).rules) \cup ToSet(Outbound(c))
           /\ IsSequence(Result(c).rules)
           /\ ToSet(Result(c).rules) = (ToSet(Inbound(c).rules) \cup ToSet(Outbound(c))) \cup ToSet(Mapping(c).rules)
           /\ \A x, q : Hits(Result(c).rules, x, q) <=>
                Hits(Inbound(c).rules, x, q) \/ Hits(Outbound(c), x, q) \/ Hits(Mapping(c).rules, x, q)
<1> DEFINE A == Inbound(c).rules
           B == Outbound(c)
           M == Mapping(c).rules
           R == Result(c).rules
<1>1. world \in Worlds /\ running \subseteq DOMAIN world /\ c \in running
  BY DEF Succeeds, IInv, TablesOK
<1>2. R = A \o B \o M /\ Result(c).rows = OwnRows(c)
  BY <1>1, OutcomeIs DEF Succeeds
<1>3. IsSequence(A) /\ IsSequence(B) /\ IsSequence(M)
  BY PartsAre
<1> HIDE DEF A, B, M, R
<1>4. R = (A \o B) \o M
  BY <1>2
<1>5. IsSequence(A \o B) /\ ToSet(A \o B) = ToSet(A) \cup ToSet(B)
  BY <1>3, ConcatSequences
<1>6. IsSequence(R) /\ ToSet(R) = (ToSet(A) \cup ToSet(B)) \cup ToSet(M)
  BY <1>3, <1>4, <1>5, ConcatSequences
<1>7. \A x, q : Hits(R, x, q) <=> Hits(A, x, q) \/ Hits(B, x, q) \/ Hits(M, x, q)
  BY <1>6 DEF Hits
<1> QED
  BY <1>2, <1>4, <1>5, <1>6, <1>7 DEF A, B, M, R

-----------------------------------------------------------------------------
(* Edges *)

Valid(x) == resolveValidManagedNetworks(world[x].scope, Project(x), world[x].nets).nets
\* What EdgesAuthorized asks of an edge from s to d, with the rows T, bound to one of B.
EdgeBacked(e, s, d, T, B) ==
    LET nets == [x \in {s, d} |-> Valid(x)] IN
    /\ world[d].enabled # "false" /\ world[s].enabled = "true"
    /\ \E w \in T, r \in ToSet(RulesLabel(s).output), n \in DOMAIN nets[s], m \in DOMAIN nets[d] :
         /\ w.src = s /\ w.resolved \in B
         /\ w.rule = [r EXCEPT !.container = w.rule.container, !.containers = Unset]
         /\ w.rule.container \in Names(r) /\ Bears(d, w.rule.container, s)
         /\ SharedNet(r, s, n, d, m, nets)
         /\ e.addr = nets[s][n].addr /\ e.ips = createIPExprs(<<Single(nets[d][m].addr)>>)
         /\ e.proto = r.proto /\ (NonEmpty(r.dstPorts) => e.dstPorts = createPortExprs(r.dstPorts))
Partner(f, e) ==
    f.chain = e.tag /\ f.tag = e.chain /\ f.proto = e.proto /\ f.dstPorts = e.dstPorts /\ (f.inverse <=> ~e.inverse)

LEMMA EdgePartner ==
    ASSUME NEW r, PartsOK(r), NEW s, NEW sAddr \in Addrs, NEW d, NEW dAddr \in Addrs,
           NEW e \in ToSet(EdgeRules(r, s, sAddr, d, dAddr))
    PROVE  /\ EdgeShape(e, r, s, sAddr, d, dAddr)
           /\ NonEmpty(r.dstPorts) => e.dstPorts = createPortExprs(r.dstPorts)
           /\ \E f \in ToSet(EdgeRules(r, s, sAddr, d, dAddr)) : Partner(f, e)
<1> DEFINE E == EdgeRules(r, s, sAddr, d, dAddr)
<1>1. \A f \in ToSet(E) : EdgeShape(f, r, s, sAddr, d, dAddr)
  BY EdgeRulesAre
<1>2. /\ \A g, f \in ToSet(E) : g.dstPorts = f.dstPorts
      /\ NonEmpty(r.dstPorts) => \A g \in ToSet(E) : g.dstPorts = createPortExprs(r.dstPorts)
      /\ \E g \in ToSet(E) : ~g.inverse /\ g.chain = s /\ g.tag = d
      /\ \E g \in ToSet(E) : g.inverse /\ g.chain = d /\ g.tag = s
  BY EdgeRulesPaired
<1> HIDE DEF E
<1>3. e \in ToSet(E)
  BY DEF E
<1>4. \A f \in ToSet(E) : f.proto = r.proto
  BY <1>1 DEF EdgeShape
<1>5. CASE e.inverse
  <2>1. e.chain = d /\ e.tag = s
    BY <1>1, <1>3, <1>5 DEF EdgeShape
  <2>2. PICK f \in ToSet(E) : ~f.inverse /\ f.chain = s /\ f.tag = d
    BY <1>2
  <2>3. Partner(f, e)
    BY <1>2, <1>3, <1>4, <1>5, <2>1, <2>2 DEF Partner
  <2> QED
    BY <1>1, <1>2, <1>3, <2>3 DEF E
<1>6. CASE ~e.inverse
  <2>1. e.chain = s /\ e.tag = d
    BY <1>1, <1>3, <1>6 DEF EdgeShape
  <2>2. PICK f \in ToSet(E) : f.inverse /\ f.chain = d /\ f.tag = s
    BY <1>2
  <2>3. Partner(f, e)
    BY <1>2, <1>3, <1>4, <1>6, <2>1, <2>2 DEF Partner
  <2> QED
    BY <1>1, <1>2, <1>3, <2>3 DEF E
<1> QED
  BY <1>5, <1>6

LEMMA EdgeIsBacked ==
    ASSUME NEW q, NEW r, From(q, r), NEW s, NEW d, NEW n, NEW m, NEW T, NEW B, NEW w \in T, NEW e,
           r \in OutputOf(s), q.container # Unset, Valid(s) = PeerNets[s], Valid(d) = PeerNets[d],
           n \in DOMAIN PeerNets[s], m \in DOMAIN PeerNets[d], SharedNet(q, s, n, d, m, PeerNets),
           EdgeShape(e, q, s, PeerNets[s][n].addr, d, PeerNets[d][m].addr), ~e.inverse,
           NonEmpty(q.dstPorts) => e.dstPorts = createPortExprs(q.dstPorts),
           world[d].enabled # "false", world[s].enabled = "true", Bears(d, q.container, s),
           w.src = s, w.rule = q, w.resolved \in B
    PROVE  EdgeBacked(e, s, d, T, B)
<1> DEFINE nets == [x \in {s, d} |-> Valid(x)]
<1>1. nets[s] = PeerNets[s] /\ nets[d] = PeerNets[d]
  OBVIOUS
<1>2. /\ q.container \in Names(r) /\ SharedNet(r, s, n, d, m, PeerNets)
      /\ q.proto = r.proto /\ q.dstPorts = r.dstPorts
      /\ q = [r EXCEPT !.container = q.container, !.containers = Unset]
  BY FromFields DEF From
<1> HIDE DEF nets
<1>3. SharedNet(r, s, n, d, m, nets)
  BY <1>1, <1>2 DEF SharedNet
<1>4. r \in ToSet(RulesLabel(s).output)
  BY DEF OutputOf
<1>5. /\ e.addr = nets[s][n].addr /\ e.ips = createIPExprs(<<Single(nets[d][m].addr)>>)
      /\ e.proto = r.proto /\ (NonEmpty(r.dstPorts) => e.dstPorts = createPortExprs(r.dstPorts))
  BY <1>1, <1>2 DEF EdgeShape
<1>6. n \in DOMAIN nets[s] /\ m \in DOMAIN nets[d]
  BY <1>1
<1>7. \E v \in T, x \in ToSet(RulesLabel(s).output), y \in DOMAIN nets[s], z \in DOMAIN nets[d] :
         /\ v.src = s /\ v.resolved \in B
         /\ v.rule = [x EXCEPT !.container = v.rule.container, !.containers = Unset]
         /\ v.rule.container \in Names(x) /\ Bears(d, v.rule.container, s)
         /\ SharedNet(x, s, y, d, z, nets)
         /\ e.addr = nets[s][y].addr /\ e.ips = createIPExprs(<<Single(nets[d][z].addr)>>)
         /\ e.proto = x.proto /\ (NonEmpty(x.dstPorts) => e.dstPorts = createPortExprs(x.dstPorts))
  BY <1>2, <1>3, <1>4, <1>5, <1>6
<1> QED
  BY <1>7 DEF EdgeBacked, nets

LEMMA BackedMore ==
    ASSUME NEW e, NEW s, NEW d, NEW T, NEW B, EdgeBacked(e, s, d, T, B),
           NEW U, NEW C, \A w \in T : w.src = s => w \in U, B \subseteq C
    PROVE  EdgeBacked(e, s, d, U, C)
<1> DEFINE nets == [x \in {s, d} |-> Valid(x)]
           Behind(w, r, n, m) ==
             /\ w.rule = [r EXCEPT !.container = w.rule.container, !.containers = Unset]
             /\ w.rule.container \in Names(r) /\ Bears(d, w.rule.container, s)
             /\ SharedNet(r, s, n, d, m, nets)
             /\ e.addr = nets[s][n].addr /\ e.ips = createIPExprs(<<Single(nets[d][m].addr)>>)
             /\ e.proto = r.proto /\ (NonEmpty(r.dstPorts) => e.dstPorts = createPortExprs(r.dstPorts))
<1>1. \A V, D : EdgeBacked(e, s, d, V, D) <=>
        /\ world[d].enabled # "false" /\ world[s].enabled = "true"
        /\ \E w \in V, r \in ToSet(RulesLabel(s).output), n \in DOMAIN nets[s], m \in DOMAIN nets[d] :
             w.src = s /\ w.resolved \in D /\ Behind(w, r, n, m)
  BY DEF EdgeBacked
<1> HIDE DEF nets, Behind
<1> QED
  BY <1>1

LEMMA ValidPeer ==
    ASSUME world \in Worlds, NEW d \in DOMAIN world, ~Peers[d].err
    PROVE  Valid(d) = PeerNets[d] /\ d \in running
<1>1. d \in running /\ ~RunningScope(d).err /\ Peers[d].nets = RunningScope(d).nets
  BY PeerScope
<1>2. resolveValidManagedNetworks(world[d].scope, Project(d), world[d].nets).nets = RunningScope(d).nets
  BY <1>1, PeerScope
<1> QED
  BY <1>1, <1>2 DEF Valid, PeerNets

LEMMA InboundEdges ==
    ASSUME NEW c, Succeeds(c), world[c].enabled # "false", NEW e \in ToSet(Inbound(c).rules)
    PROVE  /\ c \in {e.chain, e.tag}
           /\ \E f \in ToSet(Inbound(c).rules) : Partner(f, e)
           /\ ~e.inverse => e.tag = c /\ EdgeBacked(e, e.chain, c, TableFor(c), {None, c})
<1> DEFINE S == EdgeRows(c, TableFor(c), Known(c))
           s == Scope(c)
<1>0. world \in Worlds /\ running \subseteq DOMAIN world /\ c \in running /\ Sound(c) /\ ~Inbound(c).err
  BY PartsAre DEF Succeeds, IInv, TablesOK
<1>1. /\ IsFiniteSet(TableFor(c)) /\ \A w \in TableFor(c) : WaitOK(w)
      /\ ~Scope(c).err
  BY <1>0, TableOK DEF Succeeds, Sound
<1>2. ToSet(Inbound(c).rules) = UNION {ToSet(WaitingEdge(c, w, s, Peers)) : w \in S}
  BY <1>0, <1>1, WaitingHolds DEF Inbound
<1>3. PICK w \in S : e \in ToSet(WaitingEdge(c, w, s, Peers))
  BY <1>2
<1>4. w \in TableFor(c)
  BY DEF EdgeRows, RowsFor
<1>5. WaitOK(w)
  BY <1>1, <1>4
<1> DEFINE o == w.src
           n == findNetwork(w.rule.network, Project(o), PeerNets[o])
           m == findNetwork(w.rule.network, Project(c), PeerNets[c])
           a == PeerNets[o][n].addr
           b == PeerNets[c][m].addr
<1>6. /\ o \in running /\ ~Peers[o].err /\ world[o].enabled = "true"
      /\ n \in DOMAIN PeerNets[o] /\ m \in DOMAIN PeerNets[c] /\ SharedNet(w.rule, o, n, c, m, PeerNets)
      /\ AddrOn(o, w.rule.network, Peers[o].nets) = a /\ AddrOn(c, w.rule.network, s.nets) = b
      /\ a \in Addrs /\ b \in Addrs
      /\ w.resolved \in {None, c} /\ Bears(c, w.rule.container, o)
  BY <1>0, <1>1, <1>5, EdgeFate
<1>7. WaitingEdge(c, w, s, Peers) = EdgeRules(w.rule, o, a, c, b)
  BY <1>6 DEF WaitingEdge
<1>8. PICK r \in OutputOf(o) : From(w.rule, r)
  BY <1>5 DEF WaitOK
<1>9. PartsOK(w.rule) /\ w.rule.container # Unset
  BY <1>5, <1>8, RuleParts DEF WaitOK, From
<1>10. Valid(o) = PeerNets[o] /\ Valid(c) = PeerNets[c]
  <2>1. ~Peers[c].err /\ c \in DOMAIN world /\ o \in DOMAIN world
    BY <1>0, <1>1, <1>6, PeerScope
  <2> QED
    BY <1>0, <1>6, <2>1, ValidPeer
<1> HIDE DEF S, s, o, n, m, a, b
<1>11. /\ EdgeShape(e, w.rule, o, a, c, b)
       /\ NonEmpty(w.rule.dstPorts) => e.dstPorts = createPortExprs(w.rule.dstPorts)
       /\ \E f \in ToSet(EdgeRules(w.rule, o, a, c, b)) : Partner(f, e)
  BY <1>3, <1>6, <1>7, <1>9, EdgePartner
<1>12. \E f \in ToSet(Inbound(c).rules) : Partner(f, e)
  BY <1>2, <1>7, <1>11
<1>13. c \in {e.chain, e.tag}
  BY <1>11 DEF EdgeShape
<1>14. ASSUME ~e.inverse
       PROVE  e.tag = c /\ EdgeBacked(e, e.chain, c, TableFor(c), {None, c})
  <2>1. e.chain = o /\ e.tag = c
    BY <1>11, <1>14 DEF EdgeShape
  <2>2. EdgeShape(e, w.rule, o, PeerNets[o][n].addr, c, PeerNets[c][m].addr) /\ w.src = o
    BY <1>11 DEF a, b, o
  <2>3. EdgeBacked(e, o, c, TableFor(c), {None, c})
    BY <1>4, <1>6, <1>8, <1>9, <1>10, <1>11, <1>14, <2>2, EdgeIsBacked
  <2> QED
    BY <2>1, <2>3
<1> QED
  BY <1>12, <1>13, <1>14

LEMMA OutboundEdges ==
    ASSUME NEW c, Succeeds(c), world[c].enabled # "false", world[c].enabled \in {"true", "invalid"},
           NEW e \in ToSet(Outbound(c)), e.chain # e.tag
    PROVE  /\ c \in {e.chain, e.tag}
           /\ \E f \in ToSet(Outbound(c)) : Partner(f, e)
           /\ ~e.inverse => EdgeBacked(e, e.chain, e.tag, TableFor(c), {e.tag})
<1> DEFINE s == Scope(c)
           K == Known(c)
<1>0. world \in Worlds /\ running \subseteq DOMAIN world /\ c \in running /\ Sound(c) /\ c \in DOMAIN world
  BY PartsAre DEF Succeeds, IInv, TablesOK
<1>1. K \subseteq DOMAIN world /\ ~s.err /\ AddrsOK(s) /\ DOMAIN s.addrs = DOMAIN s.nets /\ PeerNets[c] = s.nets
      /\ \A n \in DOMAIN s.nets : s.addrs[n] = s.nets[n].addr /\ s.nets[n].addr \in Addrs
  BY <1>0, TableOK, SoundFacts DEF Succeeds, Sound
<1>2. ToSet(Outbound(c)) = UNION {ToSet(OutputRules(c, P, K, s, Peers)) : P \in ToSet(Populated(c))}
  BY <1>0, <1>1, OutboundHolds DEF Outbound
<1>3. PICK P \in ToSet(Populated(c)) : e \in ToSet(OutputRules(c, P, K, s, Peers))
  BY <1>2
<1> DEFINE r == P.rule
           d == P.peer
           n == findNetwork(r.network, Project(c), s.nets)
           m == findNetwork(r.network, Project(d), Peers[d].nets)
           a == s.nets[n].addr
           b == Peers[d].nets[m].addr
           R == OutputRules(c, P, K, s, Peers)
<1>4. PopulatedOK(c, P, K, s, Peers)
  BY <1>0, <1>1, PopulatedIsOK
<1>5. /\ ToPeer(P) => R = IF d \notin K THEN <<>>
                               ELSE EdgeRules(r, c, s.addrs[findNetwork(r.network, Project(c), s.addrs)],
                                              d, AddrOn(d, r.network, Peers[d].nets))
      /\ ~ToPeer(P) => \A f \in ToSet(R) : f.tag = c /\ f.chain = c
  <2> HIDE DEF s, K
  <2> QED
    BY <1>1, <1>4, OutputRulesAre
<1>6. ToPeer(P)
  BY <1>3, <1>5
<1>7. r.network # Unset /\ r.container # Unset
  BY <1>6 DEF ToPeer
<1>8. d \in K
  BY <1>3, <1>5, <1>6, EmptySequence
<1>9. /\ PartsOK(r) /\ findNetwork(r.network, Project(c), s.addrs) = n /\ n \in DOMAIN s.nets
      /\ d \in running \cup {None} /\ \A x \in running : x = d <=> Reaches(r, c, x)
      /\ d # None => ~Peers[d].err /\ world[d].enabled = "true" /\ Bears(d, r.container, c)
  BY <1>0, <1>1, <1>7, PopulatedPeer
<1>10. d # None
  BY <1>0, <1>1, <1>8, Described
<1>11. d \in running /\ d \in DOMAIN world /\ Reaches(r, c, d) /\ ~Peers[d].err
  BY <1>0, <1>9, <1>10
<1>12. /\ m \in DOMAIN Peers[d].nets /\ PeerNets[d] = Peers[d].nets
       /\ AddrOn(d, r.network, Peers[d].nets) = b /\ b \in Addrs
       /\ SharedNet(r, c, findNetwork(r.network, Project(c), PeerNets[c]), d, m, PeerNets)
  BY <1>0, <1>11, ReachesOn
<1>13. R = EdgeRules(r, c, a, d, b) /\ a \in Addrs
  BY <1>1, <1>5, <1>6, <1>8, <1>9, <1>12
<1>14. SharedNet(r, c, n, d, m, PeerNets)
  BY <1>1, <1>12
<1>15. Valid(d) = PeerNets[d] /\ Valid(c) = PeerNets[c]
  <2>1. ~Peers[c].err
    BY <1>0, <1>1, PeerScope
  <2> QED
    BY <1>0, <1>11, <2>1, ValidPeer
<1>16. PICK o \in OutputOf(c) : From(r, o)
  BY <1>0, PopulatedHolds
<1>17. world[c].enabled = "true"
  <2>1. RulesLabel(c) \notin {Unset, Unreadable}
    BY <1>0, <1>16 DEF OutputOf, Sound
  <2> QED
    BY <1>0, <2>1, LabelOK
<1>18. PICK v \in TableFor(c) : v.src = c /\ v.resolved = d /\ v.rule = r
  <2> DEFINE w == [src |-> c, rule |-> r, resolved |-> d, project |-> Project(c), network |-> s.nets[n].id]
  <2>1. w \in OwnRows(c)
    BY <1>7 DEF OwnRows, WaitingRows
  <2>2. w.src = c /\ w.resolved = d /\ w.rule = r
    OBVIOUS
  <2> HIDE DEF w
  <2> QED
    BY <2>1, <2>2 DEF TableFor
<1>19. PeerNets[c][n].addr = a /\ PeerNets[d][m].addr = b /\ n \in DOMAIN PeerNets[c] /\ m \in DOMAIN PeerNets[d]
  BY <1>1, <1>9, <1>12
<1> HIDE DEF s, K, r, d, n, m, a, b, R
<1>20. e \in ToSet(EdgeRules(r, c, a, d, b))
  BY <1>3, <1>13 DEF R
<1>21. /\ EdgeShape(e, r, c, a, d, b)
       /\ NonEmpty(r.dstPorts) => e.dstPorts = createPortExprs(r.dstPorts)
       /\ \E f \in ToSet(EdgeRules(r, c, a, d, b)) : Partner(f, e)
  BY <1>9, <1>12, <1>13, <1>20, EdgePartner
<1>22. \E f \in ToSet(Outbound(c)) : Partner(f, e)
  BY <1>2, <1>13, <1>21 DEF R
<1>23. c \in {e.chain, e.tag}
  BY <1>21 DEF EdgeShape
<1>24. ASSUME ~e.inverse
       PROVE  EdgeBacked(e, e.chain, e.tag, TableFor(c), {e.tag})
  <2>1. e.chain = c /\ e.tag = d
    BY <1>21, <1>24 DEF EdgeShape
  <2>2. EdgeShape(e, r, c, PeerNets[c][n].addr, d, PeerNets[d][m].addr)
    BY <1>19, <1>21
  <2>3. world[d].enabled # "false" /\ Bears(d, r.container, c)
    BY <1>9, <1>10
  <2>4. v.resolved \in {d}
    BY <1>18
  <2>5. EdgeBacked(e, c, d, TableFor(c), {d})
    BY <1>7, <1>14, <1>15, <1>16, <1>17, <1>18, <1>19, <1>21, <1>24, <2>2, <2>3, <2>4, EdgeIsBacked
  <2> QED
    BY <2>1, <2>5
<1> QED
  BY <1>22, <1>23, <1>24

\* Whom the row behind a new edge is bound to, as in Bound.
NewlyBound(c, s, d) == IF s = c THEN {d} ELSE {None, d}

\* All rules of a create, with the edges among them.
LEMMA NewRules ==
    ASSUME NEW c, Succeeds(c), world[c].enabled \in {"true", "invalid"}, NEW e \in ToSet(Result(c).rules)
    PROVE  /\ e.chain \in Known(c) \cup {"whalewall"} /\ (e.chain # c => e.tag = c)
           /\ e.chain = "whalewall" => e.drop
           /\ e.drop => e.chain \in {c, "whalewall"}
           /\ e.chain # e.tag /\ e.chain # "whalewall" =>
                /\ e.tag \in Known(c)
                /\ \E f \in ToSet(Result(c).rules) : Partner(f, e)
                /\ ~e.inverse => EdgeBacked(e, e.chain, e.tag, TableFor(c), NewlyBound(c, e.chain, e.tag))
<1>1. /\ ToSet(Result(c).rules) = (ToSet(Inbound(c).rules) \cup ToSet(Outbound(c))) \cup ToSet(Mapping(c).rules)
  BY RulesParts
<1>2. /\ \A f \in ToSet(Inbound(c).rules) \cup ToSet(Outbound(c)) : ~f.drop /\ f.chain \in Known(c)
      /\ \A f \in ToSet(Mapping(c).rules) : f.tag = c /\ f.chain \in {c, "whalewall"} /\ (f.chain = "whalewall" => f.drop)
      /\ c # "whalewall" /\ c \in Known(c)
  BY PartsAre DEF PortPart, Known
<1>3. world[c].enabled # "false"
  OBVIOUS
<1>4. "whalewall" \notin Known(c)
  <2>1. world \in Worlds /\ Known(c) \subseteq DOMAIN world
    BY PartsAre, TableOK DEF Succeeds, IInv
  <2> QED
    BY <2>1, Described
<1>5. CASE e \in ToSet(Inbound(c).rules)
  <2>1. /\ c \in {e.chain, e.tag}
        /\ \E f \in ToSet(Inbound(c).rules) : Partner(f, e)
        /\ ~e.inverse => e.tag = c /\ EdgeBacked(e, e.chain, c, TableFor(c), {None, c})
    BY <1>3, <1>5, InboundEdges
  <2>2. e.tag \in Known(c)
    BY <1>2, <2>1 DEF Partner
  <2>3. e.chain # e.tag /\ ~e.inverse => EdgeBacked(e, e.chain, e.tag, TableFor(c), NewlyBound(c, e.chain, e.tag))
    BY <2>1 DEF NewlyBound
  <2> QED
    BY <1>1, <1>2, <1>4, <1>5, <2>1, <2>2, <2>3
<1>6. CASE e \in ToSet(Outbound(c)) /\ e.chain = e.tag
  <2>1. e.chain \in Known(c) /\ ~e.drop
    BY <1>2, <1>6
  <2>2. e.chain # c => e.tag = c
    <3> SUFFICES ASSUME e.chain # c PROVE e.tag = c
      OBVIOUS
    <3>1. Sound(c) /\ Known(c) \subseteq DOMAIN world /\ AddrsOK(Scope(c))
      BY PartsAre, TableOK, SoundFacts DEF Succeeds
    <3>2. PICK P \in ToSet(Populated(c)) : e \in ToSet(OutputRules(c, P, Known(c), Scope(c), Peers))
      BY <1>6, <3>1, OutboundHolds DEF Outbound
    <3>3. PopulatedOK(c, P, Known(c), Scope(c), Peers)
      BY <3>1, PopulatedIsOK
    <3> DEFINE s == Scope(c)
               a == s.addrs[findNetwork(P.rule.network, Project(c), s.addrs)]
               b == AddrOn(P.peer, P.rule.network, Peers[P.peer].nets)
    <3>4. /\ ToPeer(P) => OutputRules(c, P, Known(c), s, Peers) = IF P.peer \notin Known(c) THEN <<>>
                               ELSE EdgeRules(P.rule, c, a, P.peer, b)
          /\ ~ToPeer(P) => \A f \in ToSet(OutputRules(c, P, Known(c), s, Peers)) : f.tag = c /\ f.chain = c
      BY <3>1, <3>3, OutputRulesAre
    <3>5. ToPeer(P) /\ P.peer \in Known(c)
      BY <3>2, <3>4, EmptySequence
    <3>6. a \in Addrs /\ b \in Addrs /\ PartsOK(P.rule)
      BY <3>1, <3>3, <3>5 DEF AddrsOK, PopulatedOK, ToPeer
    <3>7. e \in ToSet(EdgeRules(P.rule, c, a, P.peer, b))
      BY <3>2, <3>4, <3>5
    <3> HIDE DEF s, a, b
    <3>8. EdgeShape(e, P.rule, c, a, P.peer, b)
      BY <3>6, <3>7, EdgeRulesAre
    <3> QED
      BY <3>8 DEF EdgeShape
  <2> QED
    BY <1>4, <1>6, <2>1, <2>2
<1>7. CASE e \in ToSet(Outbound(c)) /\ e.chain # e.tag
  <2>1. /\ c \in {e.chain, e.tag}
        /\ \E f \in ToSet(Outbound(c)) : Partner(f, e)
        /\ ~e.inverse => EdgeBacked(e, e.chain, e.tag, TableFor(c), {e.tag})
    BY <1>3, <1>7, OutboundEdges
  <2>2. e.tag \in Known(c)
    BY <1>2, <2>1 DEF Partner
  <2>3. ~e.inverse => EdgeBacked(e, e.chain, e.tag, TableFor(c), NewlyBound(c, e.chain, e.tag))
    BY <2>1, BackedMore DEF NewlyBound
  <2> QED
    BY <1>1, <1>2, <1>4, <1>7, <2>1, <2>2, <2>3
<1>8. CASE e \in ToSet(Mapping(c).rules)
  BY <1>2, <1>8
<1> QED
  BY <1>1, <1>5, <1>6, <1>7, <1>8

-----------------------------------------------------------------------------
(* The steps *)

Quarantined(c) == IInv /\ c \in running /\ Result(c).err
Policies(c) == [d \in Ids |-> IF d = c THEN Append(In(Result(c).rules, c), createDropRule(c))
                              ELSE In(Result(c).rules, d) \o NotTagged(chain[d], c)]

LEMMA CreateIs ==
    ASSUME IInv, NEW c \in DOMAIN world, createContainerRules(c)
    PROVE  /\ c \in running /\ world[c].enabled \in {"true", "invalid"}
           /\ Succeeds(c) \/ Quarantined(c)
           /\ vmap' = RetargetedMap(c, Scope(c).addrs) /\ rows' = Known(c)
           /\ chain' = Policies(c) /\ main' = NotTagged(main, c) \o In(Result(c).rules, "whalewall")
           /\ waiting' = {w \in waiting : w.src # c} \cup Result(c).rows
           /\ last' = [id |-> c, fate |-> IF Result(c).err THEN "quarantined" ELSE "applied"]
           /\ world' = world /\ running' = running
<1>1. c \in running /\ world[c].enabled \in {"true", "invalid"}
  BY DEF createContainerRules, Managed
<1>2. Create(c, Scope(c), Result(c))
  BY DEF createContainerRules, Result
<1>3. Succeeds(c) \/ Quarantined(c)
  BY <1>1 DEF Succeeds, Quarantined
<1> QED
  BY <1>1, <1>2, <1>3 DEF Create, replaceContainerPolicy, Policies, Known

\* What the rules of a create are, whether it succeeds or not.
LEMMA CreateRules ==
    ASSUME IInv, NEW c \in running, world[c].enabled \in {"true", "invalid"}
    PROVE  /\ IsSequence(Result(c).rules)
           /\ \A e \in ToSet(Result(c).rules) :
                /\ e.chain \in Known(c) \cup {"whalewall"} /\ (e.chain # c => e.tag = c)
                /\ e.chain = "whalewall" => e.drop
                /\ e.drop => e.chain \in {c, "whalewall"}
           /\ IsFiniteSet(Result(c).rows) /\ \A w \in Result(c).rows : WaitOK(w) /\ w.src = c
<1>1. CASE Result(c).err
  <2>1. Result(c).rules = <<>> /\ Result(c).rows = {}
    BY <1>1, OutcomeIs DEF IInv, TablesOK
  <2> QED
    BY <2>1, EmptySequence, FS_EmptySet
<1>2. CASE ~Result(c).err
  <2>1. Succeeds(c)
    BY <1>2 DEF Succeeds
  <2>2. Result(c).rows = OwnRows(c) /\ IsSequence(Result(c).rules)
    BY <2>1, RulesParts
  <2>3. IsFiniteSet(Result(c).rows) /\ \A w \in Result(c).rows : WaitOK(w) /\ w.src = c
    BY <2>1, <2>2, PartsAre, OwnRowsOK
  <2> QED
    BY <2>1, <2>2, <2>3, NewRules
<1> QED
  BY <1>1, <1>2

\* The address map after a create.
LEMMA MapAfter ==
    ASSUME IInv, NEW c \in running
    PROVE  LET V == RetargetedMap(c, Scope(c).addrs) IN
           /\ V \in [Addrs -> Known(c) \cup {None}]
           /\ \A d \in Known(c) : \A a \in Addrs : V[a] = d <=> a \in ManagedAddrs(world[d])
<1> DEFINE S == Range(Scope(c).addrs)
           V == RetargetedMap(c, Scope(c).addrs)
<1>1. world \in Worlds /\ c \in DOMAIN world /\ rows \subseteq DOMAIN world
  BY DEF IInv, TablesOK
<1>2. S = ManagedAddrs(world[c])
  BY <1>1, PeerScope, Described
<1>3. V = [a \in Addrs |-> IF a \in S THEN c ELSE IF vmap[a] = c THEN None ELSE vmap[a]]
  BY DEF RetargetedMap
<1>4. /\ vmap \in [Addrs -> rows \cup {None}]
      /\ \A d \in rows : \A a \in Addrs : vmap[a] = d <=> a \in ManagedAddrs(world[d])
  BY DEF IInv, MapOK
<1>5. None \notin DOMAIN world
  BY <1>1, Described
<1>6. \A d \in DOMAIN world : c # d => ManagedAddrs(world[c]) \cap ManagedAddrs(world[d]) = {}
  BY <1>1, Described
<1> HIDE DEF S, V
<1>7. V \in [Addrs -> Known(c) \cup {None}]
  BY <1>3, <1>4 DEF Known
<1>8. ASSUME NEW d \in Known(c), NEW a \in Addrs
      PROVE  V[a] = d <=> a \in ManagedAddrs(world[d])
  <2>1. V[a] = IF a \in S THEN c ELSE IF vmap[a] = c THEN None ELSE vmap[a]
    BY <1>3
  <2>2. CASE d = c
    BY <1>1, <1>2, <1>5, <2>1, <2>2
  <2>3. CASE d # c
    <3>1. d \in rows /\ d \in DOMAIN world /\ d # None
      BY <1>1, <1>5, <2>3 DEF Known
    <3>2. a \in S => a \notin ManagedAddrs(world[d])
      BY <1>2, <1>6, <2>3, <3>1
    <3> QED
      BY <1>4, <2>1, <2>3, <3>1, <3>2
  <2> QED
    BY <2>2, <2>3
<1> QED
  BY <1>7, <1>8 DEF V

\* The chains after a create.
LEMMA ChainsAfter ==
    ASSUME IInv, NEW c \in running, world[c].enabled \in {"true", "invalid"}, NEW d \in Ids
    PROVE  /\ d = c => ToSet(Policies(c)[d]) = {r \in ToSet(Result(c).rules) : r.chain = c} \cup {createDropRule(c)}
           /\ d # c => ToSet(Policies(c)[d]) = {r \in ToSet(Result(c).rules) : r.chain = d} \cup {r \in ToSet(chain[d]) : r.tag # c}
           /\ IsSequence(Policies(c)[d]) /\ (Policies(c)[d] = <<>> <=> d \notin Known(c))
           /\ d \in Known(c) => EndsWith(Policies(c)[d], createDropRule(d)) /\ \A r \in ToSet(Policies(c)[d]) : r.chain = d
<1> DEFINE R == Result(c).rules
           A == In(R, d)
           B == NotTagged(chain[d], c)
           e == createDropRule(d)
           Q == Policies(c)[d]
<1>1. IsSequence(R) /\ \A r \in ToSet(R) : r.chain \in Known(c) \cup {"whalewall"}
  BY CreateRules
<1>2. IsSequence(A) /\ ToSet(A) = {r \in ToSet(R) : r.chain = d}
  BY <1>1, InHolds
<1>3. e.chain = d /\ e.tag = d
  BY DEF createDropRule
<1>4. ChainOK(d, chain[d])
  BY DEF IInv, ChainsOK
<1>5. c \in Known(c) /\ rows \cup {c} = Known(c)
  BY DEF Known
<1>6. CASE d = c
  <2>1. Q = Append(A, e)
    BY <1>6 DEF Policies
  <2> HIDE DEF A, e, Q, R
  <2>2. IsSequence(Q) /\ ToSet(Q) = ToSet(A) \cup {e} /\ EndsWith(Q, e)
    BY <1>2, <2>1, AppendIs
  <2>3. \A r \in ToSet(Q) : r.chain = d
    BY <1>2, <1>3, <2>2
  <2>4. Q # <<>>
    BY <2>2 DEF EndsWith
  <2> QED
    BY <1>2, <1>5, <1>6, <2>2, <2>3, <2>4 DEF A, e, Q, R
<1>7. CASE d # c
  <2>1. Q = A \o B
    BY <1>7 DEF Policies
  <2>2. IsSequence(chain[d])
    BY <1>4 DEF ChainOK
  <2>3. IsSequence(B) /\ ToSet(B) = {r \in ToSet(chain[d]) : r.tag # c}
    BY <2>2, NotTaggedHolds
  <2> HIDE DEF A, B, e, Q, R
  <2>4. IsSequence(Q) /\ ToSet(Q) = ToSet(A) \cup ToSet(B)
    BY <1>2, <2>1, <2>3, ConcatSequences
  <2>5. CASE d \in rows
    <3>1. EndsWith(chain[d], e) /\ \A r \in ToSet(chain[d]) : r.chain = d
      BY <1>4, <2>5 DEF ChainOK, e
    <3> DEFINE K == {r \in ToSet(chain[d]) : r.tag # c}
    <3>2. e \in K
      <4>1. e \in ToSet(chain[d])
        <5> DEFINE t == chain[d]
        <5>1. Len(t) \in Nat /\ Len(t) # 0 /\ ToSet(t) = {t[i] : i \in 1..Len(t)} /\ t[Len(t)] = e
          <6>1. Len(t) \in Nat /\ ToSet(t) = {t[i] : i \in 1..Len(t)}
            BY <2>2, SequenceIs
          <6>2. Len(t) # 0 /\ t[Len(t)] = e
            BY <2>2, <3>1 DEF EndsWith, Last, IsSequence
          <6> QED
            BY <6>1, <6>2
        <5> HIDE DEF t
        <5>2. Len(t) \in 1..Len(t)
          BY <5>1
        <5>3. e \in ToSet(t)
          BY <5>1, <5>2
        <5> QED
          BY <5>3 DEF t
      <4> QED
        BY <1>3, <1>7, <4>1
    <3>3. B = Kept(chain[d], K)
      BY <2>2, NotTaggedKeeps DEF B
    <3> HIDE DEF K
    <3>4. EndsWith(B, e)
      BY <2>2, <3>1, <3>2, <3>3, EndsKept
    <3>5. EndsWith(Q, e)
      BY <1>2, <2>1, <2>3, <3>4, EndsConcat
    <3>6. Q # <<>>
      BY <3>5 DEF EndsWith
    <3>7. \A r \in ToSet(Q) : r.chain = d
      BY <1>2, <2>3, <2>4, <3>1
    <3> QED
      BY <1>2, <1>5, <1>7, <2>3, <2>4, <2>5, <3>5, <3>6, <3>7 DEF Q, e, R
  <2>6. CASE d \notin rows
    <3>1. chain[d] = <<>> /\ d \notin Known(c)
      BY <1>4, <1>7, <2>6 DEF ChainOK, Known
    <3>2. ToSet(B) = {}
      BY <2>3, <3>1, EmptySequence
    <3>3. d # "whalewall"
      BY ConstantsAssumption
    <3>4. ToSet(A) = {}
      BY <1>1, <1>2, <3>1, <3>3
    <3>5. Q = <<>>
      BY <2>4, <3>2, <3>4 DEF IsSequence
    <3> QED
      BY <1>2, <1>7, <2>3, <2>4, <3>1, <3>5 DEF Q, e, R
  <2> QED
    BY <2>5, <2>6
<1> QED
  BY <1>6, <1>7

-----------------------------------------------------------------------------
(* The invariant holds *)

LEMMA WaitKept ==
    ASSUME NEW w, WaitOK(w), world' = world
    PROVE  WaitOK(w)'
BY DEF WaitOK, Project, RulesLabel, OutputOf, Bears, From, Names, HasContainers, HasIPs, RuleOK

LEMMA InitHolds ==
    ASSUME Init
    PROVE  IInv
<1>1. world \in Worlds /\ running = {} /\ rows = {} /\ waiting = {}
  BY DEF Init
<1>2. TablesOK
  BY <1>1, FS_EmptySet DEF TablesOK
<1>3. MapOK
  BY <1>1 DEF MapOK, Init
<1>4. ChainsOK
  <2>1. DOMAIN chain = Ids /\ main = <<>> /\ \A c \in Ids : chain[c] = <<>>
    BY DEF Init
  <2> QED
    BY <1>1, <2>1, EmptySequence DEF ChainsOK, ChainOK
<1>5. last \in [id : Ids \cup {None}, fate : {"none", "applied", "quarantined"}]
  BY DEF Init
<1> QED
  BY <1>1, <1>2, <1>3, <1>4, <1>5 DEF IInv

LEMMA CreateKeeps ==
    ASSUME IInv, NEW c \in DOMAIN world, createContainerRules(c)
    PROVE  IInv'
<1> DEFINE R == Result(c).rules
<1>1. /\ c \in running /\ world[c].enabled \in {"true", "invalid"}
      /\ vmap' = RetargetedMap(c, Scope(c).addrs) /\ rows' = Known(c)
      /\ chain' = Policies(c) /\ main' = NotTagged(main, c) \o In(R, "whalewall")
      /\ waiting' = {w \in waiting : w.src # c} \cup Result(c).rows
      /\ last' = [id |-> c, fate |-> IF Result(c).err THEN "quarantined" ELSE "applied"]
      /\ world' = world /\ running' = running
  BY CreateIs
<1>2. /\ IsSequence(R)
      /\ \A e \in ToSet(R) :
           /\ e.chain \in Known(c) \cup {"whalewall"} /\ (e.chain # c => e.tag = c)
           /\ e.chain = "whalewall" => e.drop
      /\ IsFiniteSet(Result(c).rows) /\ \A w \in Result(c).rows : WaitOK(w) /\ w.src = c
  BY <1>1, CreateRules
<1>3. TablesOK'
  <2>1. IsFiniteSet(waiting) /\ \A w \in waiting : WaitOK(w) /\ w.src \in rows
    BY DEF IInv, TablesOK
  <2> DEFINE V == {w \in waiting : w.src # c}
  <2>2. IsFiniteSet(V)
    BY <2>1, FS_Subset
  <2>3. IsFiniteSet(V \cup Result(c).rows)
    <3> HIDE DEF V
    <3> QED
      BY <1>2, <2>2, FS_Union
  <2>4. \A w \in V \cup Result(c).rows : WaitOK(w) /\ w.src \in Known(c)
    BY <1>2, <2>1 DEF Known
  <2>5. waiting' = V \cup Result(c).rows
    BY <1>1
  <2> HIDE DEF V
  <2>6. \A w \in waiting' : WaitOK(w)' /\ w.src \in rows'
    BY <1>1, <2>4, <2>5, WaitKept
  <2>7. running' \subseteq DOMAIN world' /\ rows' \subseteq DOMAIN world'
    BY <1>1 DEF IInv, TablesOK, Known
  <2> QED
    BY <2>3, <2>5, <2>6, <2>7 DEF TablesOK
<1>4. MapOK'
  <2>1. /\ vmap' \in [Addrs -> Known(c) \cup {None}]
        /\ \A d \in Known(c) : \A a \in Addrs : vmap'[a] = d <=> a \in ManagedAddrs(world[d])
    BY <1>1, MapAfter
  <2> QED
    BY <1>1, <2>1 DEF MapOK
<1>5. \A d \in Ids : ChainOK(d, chain[d])'
  <2> SUFFICES ASSUME NEW d \in Ids PROVE ChainOK(d, chain[d])'
    OBVIOUS
  <2>1. /\ IsSequence(Policies(c)[d]) /\ (Policies(c)[d] = <<>> <=> d \notin Known(c))
        /\ d \in Known(c) => EndsWith(Policies(c)[d], createDropRule(d)) /\ \A r \in ToSet(Policies(c)[d]) : r.chain = d
    BY <1>1, ChainsAfter
  <2>2. chain'[d] = Policies(c)[d]
    BY <1>1
  <2> QED
    BY <1>1, <2>1, <2>2 DEF ChainOK
<1>6. DOMAIN chain' = Ids
  BY <1>1 DEF Policies
<1>7. IsSequence(main') /\ \A r \in ToSet(main') : r.drop /\ r.chain = "whalewall" /\ r.tag \in rows'
  <2> DEFINE A == NotTagged(main, c)
             B == In(R, "whalewall")
  <2>1. IsSequence(main) /\ \A r \in ToSet(main) : r.drop /\ r.chain = "whalewall" /\ r.tag \in rows
    BY DEF IInv, ChainsOK
  <2>2. IsSequence(A) /\ ToSet(A) = {r \in ToSet(main) : r.tag # c}
    BY <2>1, NotTaggedHolds
  <2>3. IsSequence(B) /\ ToSet(B) = {r \in ToSet(R) : r.chain = "whalewall"}
    BY <1>2, InHolds
  <2>4. c # "whalewall"
    BY Described DEF IInv
  <2> HIDE DEF A, B, R
  <2>5. IsSequence(main') /\ ToSet(main') = ToSet(A) \cup ToSet(B)
    BY <1>1, <2>2, <2>3, ConcatSequences DEF A, B
  <2> QED
    BY <1>1, <1>2, <2>1, <2>2, <2>3, <2>4, <2>5 DEF Known
<1>8. last' \in [id : Ids \cup {None}, fate : {"none", "applied", "quarantined"}]
  <2>1. c \in Ids
    BY Described DEF IInv
  <2> QED
    BY <1>1, <2>1
<1>9. world' \in Worlds
  BY <1>1 DEF IInv
<1>10. ChainsOK'
  BY <1>5, <1>6, <1>7 DEF ChainsOK
<1> QED
  BY <1>3, <1>4, <1>8, <1>9, <1>10 DEF IInv

LEMMA DeleteKeeps ==
    ASSUME IInv, NEW c \in DOMAIN world, deleteContainerRules(c)
    PROVE  IInv'
<1>1. /\ chain' = [d \in Ids |-> IF d = c THEN <<>> ELSE NotTagged(chain[d], c)]
      /\ main' = NotTagged(main, c)
      /\ vmap' = [a \in Addrs |-> IF vmap[a] = c THEN None ELSE vmap[a]]
      /\ rows' = rows \ {c}
      /\ waiting' = {w \in waiting : w.src # c}
      /\ last' = [id |-> None, fate |-> "none"] /\ world' = world /\ running' = running
  BY DEF deleteContainerRules, Idle
<1>2. TablesOK'
  <2>1. IsFiniteSet(waiting) /\ \A w \in waiting : WaitOK(w) /\ w.src \in rows
    BY DEF IInv, TablesOK
  <2>2. IsFiniteSet(waiting')
    BY <1>1, <2>1, FS_Subset
  <2>3. \A w \in waiting' : WaitOK(w)' /\ w.src \in rows'
    BY <1>1, <2>1, WaitKept
  <2> QED
    BY <1>1, <2>2, <2>3 DEF TablesOK, IInv
<1>3. MapOK'
  <2>1. /\ vmap \in [Addrs -> rows \cup {None}]
        /\ \A d \in rows : \A a \in Addrs : vmap[a] = d <=> a \in ManagedAddrs(world[d])
    BY DEF IInv, MapOK
  <2>2. None \notin rows
    BY Described DEF IInv, TablesOK
  <2> QED
    BY <1>1, <2>1, <2>2 DEF MapOK
<1>4. ASSUME NEW d \in Ids PROVE ChainOK(d, chain[d])'
  <2>0. ChainOK(d, chain[d])
    BY DEF IInv, ChainsOK
  <2>1. CASE d = c
    <3>1. chain'[d] = <<>> /\ d \notin rows'
      BY <1>1, <2>1
    <3> QED
      BY <3>1, EmptySequence DEF ChainOK
  <2>2. CASE d # c
    <3> DEFINE t == chain[d]
               K == {r \in ToSet(t) : r.tag # c}
               e == createDropRule(d)
    <3>1. chain'[d] = NotTagged(t, c) /\ (d \in rows' <=> d \in rows)
      BY <1>1, <2>2
    <3>2. IsSequence(t) /\ (t = <<>> <=> d \notin rows)
      BY <2>0 DEF ChainOK
    <3>3. IsSequence(NotTagged(t, c)) /\ ToSet(NotTagged(t, c)) = K
      BY <3>2, NotTaggedHolds
    <3>4. CASE d \in rows
      <4>1. EndsWith(t, e) /\ \A r \in ToSet(t) : r.chain = d
        BY <2>0, <3>4 DEF ChainOK
      <4>2. e.tag = d
        BY DEF createDropRule
      <4>3. e \in ToSet(t)
        <5>1. Len(t) \in Nat /\ ToSet(t) = {t[i] : i \in 1..Len(t)}
          BY <3>2, SequenceIs
        <5>2. Len(t) # 0 /\ t[Len(t)] = e
          BY <3>2, <4>1 DEF EndsWith, Last, IsSequence
        <5>3. Len(t) \in 1..Len(t)
          BY <5>1, <5>2
        <5> HIDE DEF t, e
        <5> QED
          BY <5>1, <5>2, <5>3
      <4>4. e \in K
        BY <2>2, <4>2, <4>3
      <4>5. NotTagged(t, c) = Kept(t, K)
        BY <3>2, NotTaggedKeeps
      <4> HIDE DEF K, t, e
      <4>6. EndsWith(NotTagged(t, c), e)
        BY <3>2, <4>1, <4>4, <4>5, EndsKept
      <4>7. NotTagged(t, c) # <<>>
        BY <4>6 DEF EndsWith
      <4>8. \A r \in ToSet(NotTagged(t, c)) : r.chain = d
        BY <3>3, <4>1 DEF K
      <4> QED
        BY <3>1, <3>3, <3>4, <4>6, <4>7, <4>8 DEF ChainOK, e
    <3>5. CASE d \notin rows
      <4>1. K = {}
        BY <3>2, <3>5, EmptySequence
      <4>2. NotTagged(t, c) = <<>>
        BY <3>3, <4>1 DEF IsSequence
      <4> QED
        BY <3>1, <3>3, <3>5, <4>2 DEF ChainOK
    <3> QED
      BY <3>4, <3>5
  <2> QED
    BY <2>1, <2>2
<1>5. IsSequence(main') /\ \A r \in ToSet(main') : r.drop /\ r.chain = "whalewall" /\ r.tag \in rows'
  <2>1. IsSequence(main) /\ \A r \in ToSet(main) : r.drop /\ r.chain = "whalewall" /\ r.tag \in rows
    BY DEF IInv, ChainsOK
  <2>2. IsSequence(main') /\ ToSet(main') = {r \in ToSet(main) : r.tag # c}
    BY <1>1, <2>1, NotTaggedHolds
  <2> QED
    BY <1>1, <2>1, <2>2
<1>6. ChainsOK'
  BY <1>1, <1>4, <1>5 DEF ChainsOK
<1> QED
  BY <1>1, <1>2, <1>3, <1>6 DEF IInv

LEMMA OthersKeep ==
    ASSUME IInv, world' = world, rows' = rows, waiting' = waiting, chain' = chain, main' = main, vmap' = vmap,
           running' \subseteq DOMAIN world, last' \in [id : Ids \cup {None}, fate : {"none", "applied", "quarantined"}]
    PROVE  IInv'
<1>1. TablesOK'
  <2>1. \A w \in waiting : WaitOK(w)'
    BY WaitKept DEF IInv, TablesOK
  <2> QED
    BY <2>1 DEF IInv, TablesOK
<1>2. MapOK' /\ ChainsOK'
  BY DEF IInv, MapOK, ChainsOK, ChainOK
<1> QED
  BY <1>1, <1>2 DEF IInv

LEMMA StepKeeps ==
    ASSUME IInv, [Next]_vars
    PROVE  IInv'
<1>1. CASE UNCHANGED vars
  BY <1>1, OthersKeep DEF vars, IInv, TablesOK
<1>2. CASE Next
  <2>1. PICK c \in DOMAIN world : createContainerRules(c) \/ deleteContainerRules(c) \/ start(c) \/ die(c)
    BY <1>2 DEF Next
  <2>2. CASE createContainerRules(c)
    BY <2>2, CreateKeeps
  <2>3. CASE deleteContainerRules(c)
    BY <2>3, DeleteKeeps
  <2>4. CASE start(c) \/ die(c)
    BY <2>4, OthersKeep DEF start, die, Idle, IInv, TablesOK
  <2> QED
    BY <2>1, <2>2, <2>3, <2>4
<1> QED
  BY <1>1, <1>2

LEMMA Invariant == Spec => []IInv
<1>1. Init => IInv
  BY InitHolds
<1>2. IInv /\ [Next]_vars => IInv'
  BY StepKeeps
<1> QED
  BY <1>1, <1>2, PTL DEF Spec

\* A container has a chain, closed by its drop, exactly while it has a row, and
\* addresses lead to containers that have one (createContainerRules,
\* deleteContainerRules), whatever the containers and their labels are.
THEOREM TypeHolds == Spec => []TypeOK
<1>1. ASSUME IInv PROVE TypeOK
  <2>1. \A c \in Ids : ChainOK(c, chain[c])
    BY <1>1 DEF IInv, ChainsOK
  <2>2. ASSUME NEW c \in Ids, c \in rows
        PROVE  Last(chain[c]) = createDropRule(c) /\ {r.chain : r \in ToSet(chain[c])} = {c}
    <3> DEFINE t == chain[c]
    <3>1. EndsWith(t, createDropRule(c)) /\ IsSequence(t) /\ \A r \in ToSet(t) : r.chain = c
      BY <2>1, <2>2 DEF ChainOK
    <3>2. ToSet(t) # {}
      BY <3>1 DEF EndsWith, IsSequence
    <3> HIDE DEF t
    <3> QED
      BY <3>1, <3>2 DEF EndsWith, t
  <2>3. \A c \in Ids : (chain[c] = <<>>) <=> (c \notin rows)
    BY <2>1 DEF ChainOK
  <2>4. {w.src : w \in waiting} \subseteq rows
    BY <1>1 DEF IInv, TablesOK
  <2>5. running \subseteq DOMAIN world /\ rows \subseteq DOMAIN world /\ vmap \in [Addrs -> rows \cup {None}]
    BY <1>1 DEF IInv, TablesOK, MapOK
  <2>6. last \in [id : Ids \cup {None}, fate : {"none", "applied", "quarantined"}]
    BY <1>1 DEF IInv
  <2>7. \A c \in Ids :
          /\ (chain[c] = <<>>) <=> (c \notin rows)
          /\ c \in rows => Last(chain[c]) = createDropRule(c) /\ {r.chain : r \in ToSet(chain[c])} = {c}
    BY <2>2, <2>3
  <2> QED
    BY <2>4, <2>5, <2>6, <2>7 DEF TypeOK
<1> QED
  BY <1>1, Invariant, PTL

\* The expression of every list of addresses or ports of a label matches exactly
\* the values of the list, up to the greatest one, and has no two elements under
\* one key (createIPExprs, createPortExprs, mergeUint32Intervals).
THEOREM SelectorsHold == Spec => []SelectorsExact
<1>1. ASSUME world \in Worlds PROVE SelectorsExact
  <2> SUFFICES ASSUME NEW c \in DOMAIN world
               PROVE  /\ \A s \in SelectorLists(c).ips \ {Unset} : Exact(s, createIPExprs(s), AddrTop)
                      /\ \A s \in SelectorLists(c).ports \ {Unset} : Exact(s, createPortExprs(s), PortTop)
    BY DEF SelectorsExact
  <2>1. CASE world[c].rules \in {Unset, Unreadable}
    BY <2>1 DEF SelectorLists
  <2>2. CASE world[c].rules \notin {Unset, Unreadable}
    <3> DEFINE cfg == world[c].rules
    <3>1. ConfigOK(cfg)
      BY <1>1, <2>2, Described DEF ContainerOK
    <3>2. /\ SelectorLists(c).ips = {r.ips : r \in ToSet(cfg.output)} \cup {cfg.externalIPs}
          /\ SelectorLists(c).ports = UNION {{r.srcPorts, r.dstPorts} : r \in ToSet(cfg.output)}
      BY <2>2 DEF SelectorLists
    <3>3. cfg.externalIPs \in Lists(AddrTop)
      BY <3>1 DEF ConfigOK
    <3>4. \A r \in ToSet(cfg.output) : /\ r.ips \in {Unset} \cup Lists(AddrTop)
                                       /\ r.srcPorts \in {Unset} \cup Lists(PortTop)
                                       /\ r.dstPorts \in {Unset} \cup Lists(PortTop)
      BY <3>1, RuleParts DEF ConfigOK, PartsOK
    <3> HIDE DEF cfg
    <3>5. SelectorLists(c).ips \ {Unset} \subseteq Lists(AddrTop)
      BY <3>2, <3>3, <3>4
    <3>6. SelectorLists(c).ports \ {Unset} \subseteq Lists(PortTop)
      BY <3>2, <3>4
    <3> QED
      BY <3>5, <3>6, IPExprsExact, PortExprsExact
  <2> QED
    BY <2>1, <2>2
<1>2. IInv => world \in Worlds
  BY DEF IInv
<1> QED
  BY <1>1, <1>2, Invariant, PTL

-----------------------------------------------------------------------------
(* What follows a create: a step that is not one leaves last.id behind *)

LEMMA LastIsCreate ==
    ASSUME IInv, Next, NEW c \in DOMAIN world, last'.id = c
    PROVE  createContainerRules(c)
<1>1. c # None
  BY Described DEF IInv
<1>2. PICK d \in DOMAIN world : createContainerRules(d) \/ deleteContainerRules(d) \/ start(d) \/ die(d)
  BY DEF Next
<1>3. ~(deleteContainerRules(d) \/ start(d) \/ die(d))
  BY <1>1 DEF deleteContainerRules, start, die, Idle
<1>4. createContainerRules(d)
  BY <1>2, <1>3
<1>5. last'.id = d
  BY <1>4, CreateIs
<1> QED
  BY <1>4, <1>5

LEMMA NoCreateYet ==
    ASSUME Init, NEW c \in DOMAIN world
    PROVE  last.id # c /\ ~Just(c, "applied") /\ ~Just(c, "quarantined")
<1>1. IInv
  BY InitHolds
<1>2. c # None
  BY <1>1, Described DEF IInv
<1> QED
  BY <1>2 DEF Init, Just

\* A policy that quarantines lets nothing pass.
LEMMA QuarantineDrops ==
    ASSUME NEW c, NEW p, PacketOK(p)
    PROVE  Drops(Append(In(<<>>, c), createDropRule(c)), p)
<1>1. IsSequence(In(<<>>, c)) /\ ToSet(In(<<>>, c)) = {}
  BY EmptySequence, InHolds
<1> QED
  BY <1>1, DropMatches, AllowsBeforeDrop

-----------------------------------------------------------------------------
(* The scope of a policy *)

\* The networks that ScopeHolds speaks of.
NamedNets(c) ==
    IF world[c].scope = AllNetworks \/ ~Honourable(c) THEN Usable(world[c].nets)
    ELSE {findNetwork(world[c].scope[i], Project(c), world[c].nets) : i \in DOMAIN world[c].scope}

\* A label that resolves selects something.
LEMMA SelectionNotEmpty ==
    ASSUME NEW label, IsSequence(label), label # <<>>, label # AllNetworks, NEW project, NEW attached,
           ~resolveManagedNetworks(label, project, attached).err
    PROVE  DOMAIN resolveManagedNetworks(label, project, attached).nets # {}
<1> DEFINE r == resolveManagedNetworks(label, project, attached)
           actual == [i \in DOMAIN label |-> findNetwork(label[i], project, attached)]
<1>1. r.nets = Restrict(attached, ToSet(actual)) /\ \A i \in DOMAIN label : ~BadEntry(label, actual, attached, i)
  BY DEF resolveManagedNetworks
<1>2. 1 \in DOMAIN label
  <2>1. Len(label) \in Nat /\ DOMAIN label = 1..Len(label) /\ label \in Seq(ToSet(label))
    BY SequenceIs DEF IsSequence
  <2> QED
    BY <2>1
<1>3. actual[1] \in ToSet(actual)
  BY <1>2 DEF ToSet
<1> QED
  BY <1>1, <1>3 DEF Restrict

LEMMA ScopeAddrs ==
    ASSUME world \in Worlds, NEW c \in DOMAIN world
    PROVE  /\ Honourable(c) <=> ~RunningScope(c).err
           /\ ManagedAddrs(world[c]) = {world[c].nets[n].addr : n \in NamedNets(c)}
           /\ ManagedAddrs(world[c]) \subseteq Addrs
<1> DEFINE s == RunningScope(c)
           nets == world[c].nets
           label == world[c].scope
           r == resolveManagedNetworks(label, Project(c), nets)
<1>1. /\ ContainerOK(world[c]) /\ ManagedAddrs(world[c]) = Range(s.addrs)
      /\ label = AllNetworks \/ (IsSequence(label) /\ label # <<>>)
      /\ IsFunction(nets) /\ NoNet \notin DOMAIN nets
  BY Described, NetsAre DEF ContainerOK
<1>2. Honourable(c) <=> ~s.err
  BY <1>1, HonourableIs DEF RunningScope
<1>3. /\ ~s.err => ~scopeError(r, nets) /\ Usable(s.nets) = DOMAIN s.nets
      /\ s.nets = IF scopeError(r, nets) THEN nets ELSE r.nets
      /\ DOMAIN s.nets \subseteq DOMAIN nets /\ \A n \in DOMAIN s.nets : s.nets[n] = nets[n]
      /\ s.addrs = [n \in Usable(s.nets) |-> s.nets[n].addr]
      /\ IsFunction(s.nets)
  BY <1>1, ScopeFacts DEF RunningScope
<1>4. Range(s.addrs) = {s.nets[n].addr : n \in Usable(s.nets)}
  BY <1>3 DEF Range
<1>5. Usable(s.nets) \subseteq DOMAIN s.nets
  BY DEF Usable
<1>6. {s.nets[n].addr : n \in Usable(s.nets)} = {nets[n].addr : n \in Usable(s.nets)}
  BY <1>3, <1>5
<1>7. Usable(s.nets) = NamedNets(c)
  <2>1. CASE label = AllNetworks
    <3>1. r.nets = nets
      BY <2>1 DEF resolveManagedNetworks
    <3> QED
      BY <1>3, <2>1, <3>1 DEF NamedNets
  <2>2. CASE label # AllNetworks /\ s.err
    <3>1. scopeError(r, nets)
      <4> SUFFICES ASSUME ~scopeError(r, nets) PROVE FALSE
        OBVIOUS
      <4>1. ~r.err /\ r.explicit /\ ~collectManagedIPv4Addresses(r.nets).err
        BY <2>2 DEF scopeError, resolveManagedNetworks
      <4>2. DOMAIN r.nets # {}
        BY <1>1, <2>2, <4>1, SelectionNotEmpty
      <4>3. r.nets # <<>>
        <5>1. DOMAIN <<>> = {}
          OBVIOUS
        <5> QED
          BY <4>2, <5>1
      <4>4. s.err <=> scopeError(r, nets) \/ s.nets = <<>> \/ collectManagedIPv4Addresses(s.nets).err
        BY DEF RunningScope, policyScope, Managing
      <4> QED
        BY <1>3, <2>2, <4>1, <4>3, <4>4
    <3> QED
      BY <1>2, <1>3, <2>2, <3>1 DEF NamedNets
  <2>3. CASE label # AllNetworks /\ ~s.err
    <3>1. DOMAIN s.nets = {findNetwork(label[i], Project(c), nets) : i \in DOMAIN label}
      BY <1>1, <2>3, HonourableIs DEF RunningScope
    <3> QED
      BY <1>2, <1>3, <2>3, <3>1 DEF NamedNets
  <2> QED
    BY <2>1, <2>2, <2>3
<1>8. \A n \in Usable(s.nets) : s.nets[n].addr \in Addrs
  <2> SUFFICES ASSUME NEW n \in Usable(s.nets) PROVE s.nets[n].addr \in Addrs
    OBVIOUS
  <2>1. n \in DOMAIN nets /\ s.nets[n] = nets[n] /\ nets[n] # NoEndpoint /\ nets[n].addr # NoAddr
    BY <1>3, <1>5 DEF Usable
  <2>2. EndpointOK(nets[n])
    BY <1>1, <2>1 DEF ContainerOK
  <2> QED
    BY <2>1, <2>2 DEF EndpointOK
<1>9. ManagedAddrs(world[c]) = {nets[n].addr : n \in NamedNets(c)}
  BY <1>1, <1>4, <1>6, <1>7
<1>10. ManagedAddrs(world[c]) \subseteq Addrs
  BY <1>1, <1>4, <1>8
<1> QED
  BY <1>2, <1>9, <1>10

\* What ScopeHolds says of a container.
ScopeFact(c) ==
    /\ Mapped(c) = {world[c].nets[n].addr : n \in NamedNets(c)}
    /\ ~Honourable(c) => last.fate = "quarantined"
    /\ last.fate = "quarantined" => \A p \in Packets :
          vmap[p.src] = c \/ (vmap[p.src] = None /\ vmap[p.dst] = c) => ~Passes(p)

LEMMA LabelKept ==
    ASSUME world' = world, NEW c
    PROVE  (Honourable(c)' <=> Honourable(c)) /\ NamedNets(c)' = NamedNets(c)
<1>1. Honourable(c)' <=> Honourable(c)
  BY DEF Honourable, Project
<1> QED
  BY <1>1 DEF NamedNets, Project

\* The create of c has just happened, in the primed state.
LEMMA ScopeAfter ==
    ASSUME IInv, NEW c \in DOMAIN world, createContainerRules(c)
    PROVE  ScopeFact(c)'
<1>1. /\ world \in Worlds /\ running \subseteq DOMAIN world /\ c \in Ids /\ c # None
  BY Described DEF IInv, TablesOK
<1>2. c \in running /\ vmap' = RetargetedMap(c, Scope(c).addrs) /\ chain' = Policies(c)
  BY CreateIs
<1>3. last' = [id |-> c, fate |-> IF Result(c).err THEN "quarantined" ELSE "applied"]
  BY CreateIs
<1>4. \A a \in Addrs : vmap'[a] = c <=> a \in ManagedAddrs(world[c])
  BY <1>2, MapAfter DEF Known
<1>5. Mapped(c)' = ManagedAddrs(world[c])
  BY <1>1, <1>4, ScopeAddrs DEF Mapped
<1>6. ~Honourable(c) => Result(c).err
  <2>1. Scope(c) = RunningScope(c)
    BY <1>1, <1>2, PeerScope
  <2>2. ~Honourable(c) => Scope(c).err
    BY <1>1, <2>1, ScopeAddrs
  <2>3. Scope(c).err => ~Sound(c)
    BY DEF Sound
  <2> QED
    BY <1>1, <1>2, <2>2, <2>3, OutcomeIs
<1>7. ASSUME Result(c).err, NEW p \in Packets, vmap'[p.src] = c \/ (vmap'[p.src] = None /\ vmap'[p.dst] = c)
      PROVE  ~Passes(p)'
  <2>1. Result(c).rules = <<>>
    BY <1>1, <1>2, <1>7, OutcomeIs
  <2>2. chain'[c] = Append(In(<<>>, c), createDropRule(c))
    BY <1>1, <1>2, <2>1 DEF Policies
  <2>3. PacketOK(p)
    BY PacketsAssumption DEF PacketOK
  <2>4. Drops(chain'[c], p)
    BY <2>2, <2>3, QuarantineDrops
  <2> QED
    BY <1>1, <1>7, <2>4 DEF Passes
<1>8. world' = world
  BY CreateIs
<1>9. Mapped(c)' = {world[c].nets[n].addr : n \in NamedNets(c)}
  BY <1>1, <1>5, ScopeAddrs
<1>10. ~Honourable(c) => last'.fate = "quarantined"
  BY <1>3, <1>6
<1>11. last'.fate = "quarantined" => Result(c).err
  BY <1>3
<1> QED
  BY <1>7, <1>8, <1>9, <1>10, <1>11, LabelKept DEF ScopeFact

\* A policy is confined to the endpoints that managed_networks names when the label
\* can be honoured in full; otherwise every address is under a policy that lets
\* nothing pass (createContainerRules, resolveManagedNetworks).
THEOREM ScopeIsHeld == Spec => []ScopeHolds
<1> DEFINE P == \A c \in DOMAIN world : last.id = c => ScopeFact(c)
<1>1. Init => P
  BY NoCreateYet
<1>2. IInv /\ P /\ [Next]_vars => P'
  <2> SUFFICES ASSUME IInv, P, [Next]_vars PROVE P'
    OBVIOUS
  <2>1. CASE UNCHANGED vars
    <3>1. world' = world /\ last' = last
      BY <2>1 DEF vars
    <3>2. ASSUME NEW c \in DOMAIN world, ScopeFact(c) PROVE ScopeFact(c)'
      <4>1. Mapped(c)' = Mapped(c) /\ \A p : Passes(p)' <=> Passes(p)
        BY <2>1 DEF vars, Mapped, Passes
      <4> QED
        BY <2>1, <3>1, <3>2, <4>1, LabelKept DEF vars, ScopeFact
    <3> QED
      BY <3>1, <3>2
  <2>2. CASE Next
    <3>1. world' = world
      BY <2>2 DEF Next, createContainerRules, Create, deleteContainerRules, start, die
    <3> QED
      BY <2>2, <3>1, LastIsCreate, ScopeAfter
  <2> QED
    BY <2>1, <2>2
<1>3. P => ScopeHolds
  BY DEF ScopeHolds, ScopeFact, NamedNets
<1> QED
  BY <1>1, <1>2, <1>3, Invariant, PTL DEF Spec

-----------------------------------------------------------------------------
(* Names that nobody bears *)

\* Apart from names that nobody bears nothing is wrong with the label of c, and
\* none of the rows T is for c.
Peerless(c, T) ==
    /\ Honourable(c) /\ ~validateConfig(RulesLabel(c)) /\ Published(c) = {}
    /\ \A r \in ToSet(RulesLabel(c).output) :
         /\ r.network # Unset => findNetwork(r.network, Project(c), Scope(c).nets) # NoNet
         /\ \A d \in running, name \in Names(r) : ~Bears(d, name, c)
    /\ \A w \in T : w.rule.container \notin {world[c].name, world[c].service}

LEMMA AbsentResolves ==
    ASSUME NEW c, NEW r, NEW q, From(q, r),
           r.network # Unset => findNetwork(r.network, Project(c), Scope(c).nets) # NoNet,
           \A d \in running, name \in Names(r) : ~Bears(d, name, c)
    PROVE  ~Resolved(q, Project(c), Scope(c).nets, Peers).err
<1>1. q.network = r.network /\ (q.container # Unset => q.container \in Names(r))
  BY DEF From
<1>2. BestMatches(q, Project(c)) = {}
  BY <1>1, BestAre
<1> QED
  BY <1>1, <1>2 DEF Resolved, PeerError

LEMMA PeerlessSucceeds ==
    ASSUME IInv, NEW c \in running, RulesLabel(c) \notin {Unset, Unreadable},
           Peerless(c, {w \in waiting : w.src # c})
    PROVE  ~Result(c).err
<1> DEFINE cfg == RulesLabel(c)
           out == normalizeConfig(cfg)
<1>1. world \in Worlds /\ running \subseteq DOMAIN world /\ c \in DOMAIN world
  BY DEF IInv, TablesOK
<1>2. ~Scope(c).err
  BY <1>1, ScopeAddrs, PeerScope DEF Peerless
<1>3. ConfigOK(cfg) /\ ~validateConfig(cfg)
  BY <1>1, LabelOK DEF Peerless
<1>4. Sound(c)
  <2>1. IsSequence(out) /\ \A q \in ToSet(out) : \E r \in ToSet(cfg.output) : From(q, r)
    BY <1>3, NormalizedHolds
  <2>2. \A q \in ToSet(out) : ~Resolved(q, Project(c), Scope(c).nets, Peers).err
    <3> SUFFICES ASSUME NEW q \in ToSet(out) PROVE ~Resolved(q, Project(c), Scope(c).nets, Peers).err
      OBVIOUS
    <3>1. PICK r \in ToSet(cfg.output) : From(q, r)
      BY <2>1
    <3> QED
      BY <3>1, AbsentResolves DEF Peerless
  <2>3. Populated(c) = [i \in DOMAIN out |-> Resolved(out[i], Project(c), Scope(c).nets, Peers)]
    BY DEF Populated, populateOutputRules
  <2> DEFINE f == [i \in DOMAIN out |-> Resolved(out[i], Project(c), Scope(c).nets, Peers)]
  <2>4. \A P \in ToSet(f) : ~P.err
    <3> SUFFICES ASSUME NEW P \in ToSet(f) PROVE ~P.err
      OBVIOUS
    <3>1. PICK i \in DOMAIN f : P = f[i]
      BY DEF ToSet
    <3>2. i \in DOMAIN out /\ P = Resolved(out[i], Project(c), Scope(c).nets, Peers)
      BY <3>1
    <3>3. out[i] \in ToSet(out)
      BY <3>2 DEF ToSet
    <3> QED
      BY <2>2, <3>2, <3>3
  <2> QED
    BY <1>1, <1>2, <1>3, <2>3, <2>4 DEF Sound
<1>5. ~Inbound(c).err
  <2>1. ASSUME NEW w \in OwnRows(c) PROVE w.rule.container \notin {world[c].name, world[c].service}
    <3>1. WaitOK(w) /\ w.src = c
      BY <1>4, OwnRowsOK
    <3>2. PICK r \in OutputOf(c) : From(w.rule, r)
      BY <3>1 DEF WaitOK
    <3>3. w.rule.container \in Names(r)
      BY <3>1, <3>2 DEF WaitOK, From
    <3>4. ~Bears(c, w.rule.container, c)
      BY <3>2, <3>3 DEF Peerless, OutputOf
    <3> QED
      BY <3>4 DEF Bears
  <2>2. RowsFor(c, TableFor(c), Known(c)) = {}
    BY <2>1 DEF RowsFor, TableFor, Peerless
  <2> QED
    BY <2>2 DEF Inbound, createWaitingContainerRules
<1>6. ~Mapping(c).err
  BY DEF Mapping, createPortMappingRules, Peerless
<1> QED
  BY <1>1, <1>4, <1>5, <1>6, OutcomeIs

AbsentFact(c) ==
    Just(c, "quarantined") /\ RulesLabel(c) \notin {Unset, Unreadable} => ~Peerless(c, waiting)

LEMMA PeerlessKept ==
    ASSUME world' = world, running' = running, NEW c, NEW T
    PROVE  /\ RulesLabel(c)' = RulesLabel(c)
           /\ Peerless(c, T)' <=> Peerless(c, T)
<1>1. RulesLabel(c)' = RulesLabel(c) /\ Published(c)' = Published(c) /\ Scope(c)' = Scope(c) /\ Project(c)' = Project(c)
  BY DEF RulesLabel, Published, Scope, Project, Nets
<1>2. \A d, name : Bears(d, name, c)' <=> Bears(d, name, c)
  BY DEF Bears, Project
<1> QED
  BY <1>1, <1>2, LabelKept DEF Peerless

\* A container is not quarantined for names that nobody bears: the rest of its
\* policy is applied (populateOutputRules, createContainerRules).
THEOREM AbsentPeersAreHarmless == Spec => []AbsentPeersHarmless
<1> DEFINE P == \A c \in DOMAIN world : AbsentFact(c)
<1>1. Init => P
  BY NoCreateYet DEF AbsentFact
<1>2. IInv /\ P /\ [Next]_vars => P'
  <2> SUFFICES ASSUME IInv, P, [Next]_vars PROVE P'
    OBVIOUS
  <2>1. CASE UNCHANGED vars
    <3>1. world' = world /\ running' = running /\ waiting' = waiting /\ last' = last
      BY <2>1 DEF vars
    <3>2. ASSUME NEW c \in DOMAIN world PROVE AbsentFact(c)'
      BY <3>1, PeerlessKept DEF AbsentFact, Just
    <3> QED
      BY <3>1, <3>2
  <2>2. CASE Next
    <3>1. world' = world
      BY <2>2 DEF Next, createContainerRules, Create, deleteContainerRules, start, die
    <3>2. ASSUME NEW c \in DOMAIN world, Just(c, "quarantined")', RulesLabel(c)' \notin {Unset, Unreadable},
                 Peerless(c, waiting)'
          PROVE  FALSE
      <4>1. createContainerRules(c)
        BY <2>2, <3>2, LastIsCreate DEF Just
      <4>2. c \in running /\ running' = running /\ Result(c).err
        BY <3>2, <4>1, CreateIs DEF Just
      <4>3. waiting' = {w \in waiting : w.src # c}
        BY <4>1, <4>2, CreateIs, OutcomeIs DEF IInv, TablesOK
      <4>4. Peerless(c, {w \in waiting : w.src # c})
        BY <3>1, <3>2, <4>2, <4>3, PeerlessKept DEF Peerless
      <4> QED
        BY <3>1, <3>2, <4>2, <4>4, PeerlessKept, PeerlessSucceeds
    <3> QED
      BY <3>1, <3>2 DEF AbsentFact
  <2> QED
    BY <2>1, <2>2
<1>3. P => AbsentPeersHarmless
  BY DEF AbsentPeersHarmless, AbsentFact, Peerless
<1> QED
  BY <1>1, <1>2, <1>3, Invariant, PTL DEF Spec

-----------------------------------------------------------------------------
(* Edges are authorised *)

\* What EdgesAuthorized says of a rule of the chain of s that carries another ID.
EdgeFact(s, e) ==
    e.tag # s =>
      /\ e.tag \in rows
      /\ \E f \in ToSet(chain[e.tag]) : Partner(f, e)
      /\ ~e.inverse => EdgeBacked(e, s, e.tag, waiting, Bound(s, e.tag))
EdgesOK == \A s \in rows : \A e \in ToSet(chain[s]) : EdgeFact(s, e)

\* And of the rows.
BoundOnce(T) == \A w, v \in T : w.src = v.src /\ w.rule = v.rule => w.resolved = v.resolved

LEMMA OwnBoundOnce ==
    ASSUME NEW c, Sound(c)
    PROVE  BoundOnce(OwnRows(c))
<1>1. \A w \in OwnRows(c) : \E P \in ToSet(Populated(c)) : w.rule = P.rule /\ w.resolved = P.peer
  BY DEF OwnRows, WaitingRows
<1>2. \A P \in ToSet(Populated(c)) : P = Resolved(P.rule, Project(c), Scope(c).nets, Peers)
  BY PopulatedHolds
<1>3. \A w \in OwnRows(c) : w.resolved = Resolved(w.rule, Project(c), Scope(c).nets, Peers).peer
  BY <1>1, <1>2
<1> QED
  BY <1>3 DEF BoundOnce

LEMMA CreateBoundOnce ==
    ASSUME IInv, BoundOnce(waiting), NEW c \in DOMAIN world, createContainerRules(c)
    PROVE  BoundOnce(waiting)'
<1> DEFINE old == {w \in waiting : w.src # c}
<1>1. waiting' = old \cup Result(c).rows
  BY CreateIs
<1>2. BoundOnce(Result(c).rows) /\ \A w \in Result(c).rows : w.src = c
  <2>1. CASE Succeeds(c)
    <3>1. Sound(c)
      BY <2>1, PartsAre
    <3>2. Result(c).rows = OwnRows(c)
      BY <2>1, RulesParts
    <3>3. BoundOnce(OwnRows(c))
      BY <3>1, OwnBoundOnce
    <3>4. \A w \in OwnRows(c) : w.src = c
      BY <3>1, OwnRowsOK
    <3> QED
      BY <3>2, <3>3, <3>4
  <2>2. CASE Quarantined(c)
    <3>1. Result(c).rows = {}
      BY <2>2, OutcomeIs DEF Quarantined, IInv, TablesOK
    <3> QED
      BY <3>1 DEF BoundOnce
  <2> QED
    BY <2>1, <2>2, CreateIs
<1>3. BoundOnce(old) /\ \A w \in old : w.src # c
  BY DEF BoundOnce
<1> HIDE DEF old
<1>4. BoundOnce(waiting')
  BY <1>1, <1>2, <1>3 DEF BoundOnce
<1> QED
  BY <1>4 DEF BoundOnce

LEMMA BackedKept ==
    ASSUME world' = world, NEW e, NEW s, NEW d, NEW T, NEW B, EdgeBacked(e, s, d, T, B)
    PROVE  EdgeBacked(e, s, d, T, B)'
<1>1. \A x : Valid(x)' = Valid(x)
  BY DEF Valid, Project
<1>2. RulesLabel(s)' = RulesLabel(s)
  BY DEF RulesLabel
<1>3. \A x, name, y : Bears(x, name, y)' <=> Bears(x, name, y)
  BY DEF Bears, Project
<1>4. \A r, n, m, nets : SharedNet(r, s, n, d, m, nets)' <=> SharedNet(r, s, n, d, m, nets)
  BY DEF SharedNet, Project
<1> DEFINE nets == [x \in {s, d} |-> Valid(x)]
<1>5. nets' = nets
  BY <1>1
<1>6. world[d].enabled # "false" /\ world[s].enabled = "true"
  BY DEF EdgeBacked
<1>7. PICK w \in T, r \in ToSet(RulesLabel(s).output), n \in DOMAIN nets[s], m \in DOMAIN nets[d] :
         /\ w.src = s /\ w.resolved \in B
         /\ w.rule = [r EXCEPT !.container = w.rule.container, !.containers = Unset]
         /\ w.rule.container \in Names(r) /\ Bears(d, w.rule.container, s)
         /\ SharedNet(r, s, n, d, m, nets)
         /\ e.addr = nets[s][n].addr /\ e.ips = createIPExprs(<<Single(nets[d][m].addr)>>)
         /\ e.proto = r.proto /\ (NonEmpty(r.dstPorts) => e.dstPorts = createPortExprs(r.dstPorts))
  BY DEF EdgeBacked
<1>8. Bears(d, w.rule.container, s)' /\ SharedNet(r, s, n, d, m, nets)'
  BY <1>3, <1>4, <1>5, <1>7
<1>9. n \in DOMAIN nets'[s] /\ m \in DOMAIN nets'[d] /\ e.addr = nets'[s][n].addr
      /\ e.ips = createIPExprs(<<Single(nets'[d][m].addr)>>)
  <2> HIDE DEF nets
  <2> QED
    BY <1>5, <1>7
<1>10. r \in ToSet(RulesLabel(s).output)'
  BY <1>2, <1>7
<1>11. world'[d].enabled # "false" /\ world'[s].enabled = "true"
  BY <1>6
<1> DEFINE E == \E v \in T, q \in ToSet(RulesLabel(s).output), k \in DOMAIN nets[s], l \in DOMAIN nets[d] :
                   /\ v.src = s /\ v.resolved \in B
                   /\ v.rule = [q EXCEPT !.container = v.rule.container, !.containers = Unset]
                   /\ v.rule.container \in Names(q) /\ Bears(d, v.rule.container, s)
                   /\ SharedNet(q, s, k, d, l, nets)
                   /\ e.addr = nets[s][k].addr /\ e.ips = createIPExprs(<<Single(nets[d][l].addr)>>)
                   /\ e.proto = q.proto /\ (NonEmpty(q.dstPorts) => e.dstPorts = createPortExprs(q.dstPorts))
<1>12. E'
  <2> HIDE DEF nets
  <2> QED
    BY <1>7, <1>8, <1>9, <1>10
<1> QED
  BY <1>11, <1>12 DEF EdgeBacked

\* A rule that does not carry c's ID keeps what it had, when c's rules and rows are
\* replaced or go.
LEMMA OldEdges ==
    ASSUME IInv, EdgesOK, world' = world, NEW c,
           \A d \in rows \ {c} : d \in rows' /\ \A r \in ToSet(chain[d]) : r.tag # c => r \in ToSet(chain'[d]),
           \A w \in waiting : w.src # c => w \in waiting', last'.id \in {c, None},
           NEW s \in rows, s # c, NEW e \in ToSet(chain[s]), e.tag # c
    PROVE  EdgeFact(s, e)'
<1> SUFFICES ASSUME e.tag # s
             PROVE  /\ e.tag \in rows'
                    /\ \E f \in ToSet(chain'[e.tag]) : Partner(f, e)
                    /\ ~e.inverse => EdgeBacked(e, s, e.tag, waiting, Bound(s, e.tag))'
  BY DEF EdgeFact
<1>1. /\ e.tag \in rows
      /\ \E f \in ToSet(chain[e.tag]) : Partner(f, e)
      /\ ~e.inverse => EdgeBacked(e, s, e.tag, waiting, Bound(s, e.tag))
  BY DEF EdgesOK, EdgeFact
<1>2. e.chain = s
  BY Described DEF IInv, ChainsOK, ChainOK, TablesOK
<1>3. PICK f \in ToSet(chain[e.tag]) : Partner(f, e)
  BY <1>1
<1>4. f \in ToSet(chain'[e.tag])
  BY <1>1, <1>2, <1>3 DEF Partner
<1>5. Bound(s, e.tag) \subseteq {None, e.tag} /\ Bound(s, e.tag)' = {None, e.tag}
  <2>1. s # last'.id
    BY Described DEF IInv, TablesOK
  <2> QED
    BY <2>1 DEF Bound
<1>6. ~e.inverse => EdgeBacked(e, s, e.tag, waiting', {None, e.tag})
  BY <1>1, <1>5, BackedMore
<1>7. ~e.inverse => EdgeBacked(e, s, e.tag, waiting, Bound(s, e.tag))'
  BY <1>5, <1>6, BackedKept
<1> QED
  BY <1>1, <1>3, <1>4, <1>7

LEMMA CreateEdges ==
    ASSUME IInv, EdgesOK, NEW c \in DOMAIN world, createContainerRules(c)
    PROVE  EdgesOK'
<1>1. /\ c \in running /\ world[c].enabled \in {"true", "invalid"}
      /\ rows' = Known(c) /\ chain' = Policies(c) /\ world' = world
      /\ waiting' = {w \in waiting : w.src # c} \cup Result(c).rows
  BY CreateIs
<1>2. Known(c) \subseteq Ids
  BY Described DEF IInv, TablesOK, Known
<1>3. ASSUME NEW d \in Known(c), d # c
      PROVE  ToSet(chain'[d]) = {r \in ToSet(Result(c).rules) : r.chain = d} \cup {r \in ToSet(chain[d]) : r.tag # c}
  BY <1>1, <1>2, <1>3, ChainsAfter
<1>4. ToSet(chain'[c]) = {r \in ToSet(Result(c).rules) : r.chain = c} \cup {createDropRule(c)}
  BY <1>1, <1>2, ChainsAfter DEF Known
<1>5. ASSUME NEW s \in Known(c), NEW e \in ToSet(Result(c).rules), e.chain = s
      PROVE  EdgeFact(s, e)'
  <2> SUFFICES ASSUME e.tag # s
               PROVE  /\ e.tag \in rows'
                      /\ \E f \in ToSet(chain'[e.tag]) : Partner(f, e)
                      /\ ~e.inverse => EdgeBacked(e, s, e.tag, waiting, Bound(s, e.tag))'
    BY DEF EdgeFact
  <2>1. Succeeds(c)
    <3>1. Result(c).err => Result(c).rules = <<>>
      BY <1>1, OutcomeIs DEF IInv, TablesOK
    <3>2. ~Result(c).err
      BY <1>5, <3>1, EmptySequence
    <3> QED
      BY <1>1, <3>2 DEF Succeeds
  <2>2. s # "whalewall"
    BY Described DEF IInv, TablesOK, Known
  <2>3. /\ e.tag \in Known(c)
        /\ \E f \in ToSet(Result(c).rules) : Partner(f, e)
        /\ ~e.inverse => EdgeBacked(e, e.chain, e.tag, TableFor(c), NewlyBound(c, e.chain, e.tag))
    BY <1>1, <1>5, <2>1, <2>2, NewRules
  <2>4. PICK f \in ToSet(Result(c).rules) : Partner(f, e)
    BY <2>3
  <2>5. f \in ToSet(chain'[e.tag])
    BY <1>3, <1>4, <2>3, <2>4 DEF Partner
  <2>6. TableFor(c) = waiting'
    BY <1>1, <2>1, RulesParts DEF TableFor
  <2>7. ~e.inverse => EdgeBacked(e, s, e.tag, waiting', NewlyBound(c, s, e.tag))
    BY <1>5, <2>3, <2>6
  <2>8. Bound(s, e.tag)' = NewlyBound(c, s, e.tag)
    BY CreateIs DEF Bound, NewlyBound
  <2>9. ~e.inverse => EdgeBacked(e, s, e.tag, waiting, Bound(s, e.tag))'
    BY <1>1, <2>7, <2>8, BackedKept
  <2> QED
    BY <1>1, <2>3, <2>4, <2>5, <2>9
<1>6. ASSUME NEW s \in rows, s # c, NEW e \in ToSet(chain[s]), e.tag # c
      PROVE  EdgeFact(s, e)'
  <2>1. \A d \in rows \ {c} : d \in rows' /\ \A r \in ToSet(chain[d]) : r.tag # c => r \in ToSet(chain'[d])
    BY <1>1, <1>3 DEF Known
  <2>2. last'.id = c
    BY CreateIs
  <2> QED
    BY <1>1, <1>6, <2>1, <2>2, OldEdges
<1>7. EdgeFact(c, createDropRule(c))'
  BY DEF EdgeFact, createDropRule
<1>8. ASSUME NEW s \in rows', NEW e \in ToSet(chain'[s])
      PROVE  EdgeFact(s, e)'
  <2>1. CASE s = c
    BY <1>1, <1>4, <1>5, <1>7, <1>8, <2>1
  <2>2. CASE s # c
    BY <1>1, <1>3, <1>5, <1>6, <1>8, <2>2 DEF Known
  <2> QED
    BY <2>1, <2>2
<1> QED
  BY <1>8 DEF EdgesOK

LEMMA DeleteEdges ==
    ASSUME IInv, EdgesOK, NEW c \in DOMAIN world, deleteContainerRules(c)
    PROVE  EdgesOK'
<1>1. /\ rows' = rows \ {c} /\ world' = world /\ waiting' = {w \in waiting : w.src # c}
      /\ chain' = [d \in Ids |-> IF d = c THEN <<>> ELSE NotTagged(chain[d], c)] /\ last'.id = None
  BY DEF deleteContainerRules, Idle
<1>2. \A d \in rows \ {c} : d \in Ids /\ IsSequence(chain[d])
  BY Described DEF IInv, TablesOK, ChainsOK, ChainOK
<1>3. \A d \in rows \ {c} : ToSet(chain'[d]) = {r \in ToSet(chain[d]) : r.tag # c}
  BY <1>1, <1>2, NotTaggedHolds
<1>4. ASSUME NEW s \in rows', NEW e \in ToSet(chain'[s])
      PROVE  EdgeFact(s, e)'
  <2>1. \A d \in rows \ {c} : d \in rows' /\ \A r \in ToSet(chain[d]) : r.tag # c => r \in ToSet(chain'[d])
    BY <1>1, <1>3
  <2>2. \A w \in waiting : w.src # c => w \in waiting'
    BY <1>1
  <2>3. s \in rows /\ s # c /\ e \in ToSet(chain[s]) /\ e.tag # c
    BY <1>1, <1>3, <1>4
  <2> QED
    BY <1>1, <2>1, <2>2, <2>3, OldEdges
<1> QED
  BY <1>4 DEF EdgesOK

\* However containers come and go, a rule that lets s reach another container d
\* comes from one rule of the label of s and the one row that was persisted for it,
\* which names d and is bound to d or still to nobody, on a network that both manage;
\* and the rule for its replies stands in d's chain (createWaitingContainerRules,
\* populateOutputRules, deleteContainerRules).
THEOREM EdgesAreAuthorized == Spec => []EdgesAuthorized
<1> DEFINE P == EdgesOK /\ BoundOnce(waiting)
<1>1. Init => P
  BY DEF Init, EdgesOK, BoundOnce
<1>2. IInv /\ P /\ [Next]_vars => P'
  <2> SUFFICES ASSUME IInv, EdgesOK, BoundOnce(waiting), [Next]_vars PROVE EdgesOK' /\ BoundOnce(waiting)'
    OBVIOUS
  <2>1. CASE world' = world /\ rows' = rows /\ waiting' = waiting /\ chain' = chain
             /\ (last' = last \/ last'.id = None)
    <3>1. ASSUME NEW s \in rows, NEW e \in ToSet(chain[s]) PROVE EdgeFact(s, e)'
      <4>1. Bound(s, e.tag) \subseteq Bound(s, e.tag)'
        <5>1. s # None
          BY Described DEF IInv, TablesOK
        <5> QED
          BY <2>1, <5>1 DEF Bound
      <4>2. EdgeFact(s, e)
        BY <3>1 DEF EdgesOK
      <4>3. ASSUME e.tag # s, ~e.inverse PROVE EdgeBacked(e, s, e.tag, waiting, Bound(s, e.tag))'
        <5>1. EdgeBacked(e, s, e.tag, waiting, Bound(s, e.tag))
          BY <4>2, <4>3 DEF EdgeFact
        <5>2. EdgeBacked(e, s, e.tag, waiting', Bound(s, e.tag)')
          BY <2>1, <4>1, <5>1, BackedMore
        <5> QED
          BY <2>1, <5>2, BackedKept
      <4> QED
        BY <2>1, <4>2, <4>3 DEF EdgeFact
    <3> QED
      BY <2>1, <3>1 DEF EdgesOK, BoundOnce
  <2>2. CASE UNCHANGED vars
    BY <2>1, <2>2 DEF vars
  <2>3. CASE Next
    <3>1. PICK c \in DOMAIN world : createContainerRules(c) \/ deleteContainerRules(c) \/ start(c) \/ die(c)
      BY <2>3 DEF Next
    <3>2. CASE createContainerRules(c)
      BY <3>2, CreateEdges, CreateBoundOnce
    <3>3. CASE deleteContainerRules(c)
      <4>1. waiting' \subseteq waiting
        BY <3>3 DEF deleteContainerRules
      <4> QED
        BY <3>3, <4>1, DeleteEdges DEF BoundOnce
    <3>4. CASE start(c) \/ die(c)
      BY <2>1, <3>4 DEF start, die, Idle
    <3> QED
      BY <3>1, <3>2, <3>3, <3>4
  <2> QED
    BY <2>2, <2>3
<1>3. IInv /\ P => EdgesAuthorized
  <2> DEFINE Back(s, e, inverse) == \E f \in ToSet(chain[e.tag]) :
                 f.tag = s /\ (f.inverse <=> inverse) /\ f.proto = e.proto /\ f.dstPorts = e.dstPorts
  <2>1. ASSUME IInv, EdgesOK, NEW s \in rows, NEW e \in ToSet(chain[s]), e.tag # s
        PROVE  Back(s, e, ~e.inverse) /\ (~e.inverse => EdgeBacked(e, s, e.tag, waiting, Bound(s, e.tag)))
    <3>1. e.chain = s
      BY <2>1, Described DEF IInv, ChainsOK, ChainOK, TablesOK
    <3>2. /\ \E f \in ToSet(chain[e.tag]) : Partner(f, e)
          /\ ~e.inverse => EdgeBacked(e, s, e.tag, waiting, Bound(s, e.tag))
      BY <2>1 DEF EdgesOK, EdgeFact
    <3> QED
      BY <3>1, <3>2 DEF Partner
  <2> DEFINE EdgeIs(s, e) ==
               LET d == e.tag
                   nets == [x \in {s, d} |-> resolveValidManagedNetworks(world[x].scope, Project(x), world[x].nets).nets]
               IN  IF e.inverse
                   THEN \E f \in ToSet(chain[d]) : f.tag = s /\ ~f.inverse /\ f.proto = e.proto /\ f.dstPorts = e.dstPorts
                   ELSE /\ \E f \in ToSet(chain[d]) : f.tag = s /\ f.inverse /\ f.proto = e.proto /\ f.dstPorts = e.dstPorts
                        /\ world[d].enabled # "false" /\ world[s].enabled = "true"
                        /\ \E w \in waiting, r \in ToSet(RulesLabel(s).output), n \in DOMAIN nets[s], m \in DOMAIN nets[d] :
                             /\ w.src = s /\ w.resolved \in Bound(s, d)
                             /\ w.rule = [r EXCEPT !.container = w.rule.container, !.containers = Unset]
                             /\ w.rule.container \in Names(r) /\ Bears(d, w.rule.container, s)
                             /\ SharedNet(r, s, n, d, m, nets)
                             /\ e.addr = nets[s][n].addr /\ e.ips = createIPExprs(<<Single(nets[d][m].addr)>>)
                             /\ e.proto = r.proto /\ (NonEmpty(r.dstPorts) => e.dstPorts = createPortExprs(r.dstPorts))
  <2>2. ASSUME IInv, EdgesOK, NEW s \in rows, NEW e \in {f \in ToSet(chain[s]) : f.tag # s}
        PROVE  EdgeIs(s, e)
    <3>1. Back(s, e, ~e.inverse) /\ (~e.inverse => EdgeBacked(e, s, e.tag, waiting, Bound(s, e.tag)))
      BY <2>1, <2>2
    <3>2. CASE e.inverse
      BY <3>1, <3>2
    <3>3. CASE ~e.inverse
      <4>1. \E f \in ToSet(chain[e.tag]) : f.tag = s /\ f.inverse /\ f.proto = e.proto /\ f.dstPorts = e.dstPorts
        BY <3>1, <3>3
      <4>2. EdgeBacked(e, s, e.tag, waiting, Bound(s, e.tag))
        BY <3>1, <3>3
      <4> HIDE DEF Back
      <4> QED
        BY <3>3, <4>1, <4>2, Zenon DEF EdgeBacked, Valid
    <3> QED
      BY <3>2, <3>3
  <2>3. (\A s \in rows : \A e \in {f \in ToSet(chain[s]) : f.tag # s} : EdgeIs(s, e)) /\ BoundOnce(waiting)
          => EdgesAuthorized
    BY Zenon DEF EdgesAuthorized, BoundOnce
  <2> HIDE DEF EdgeIs
  <2> QED
    BY <2>2, <2>3
<1> QED
  BY <1>1, <1>2, <1>3, Invariant, PTL DEF Spec

-----------------------------------------------------------------------------
(* The fate of packets after a create *)

\* The published ports of c's policy, in the words of the labels.
LEMMA MappingIs ==
    ASSUME NEW c, Succeeds(c), NEW q, PacketOK(q)
    PROVE  /\ DropOn(ToSet(Mapping(c).rules), c, q) # {} <=> q.st = "new" /\ RulesLabel(c) # Unset /\ InDenied(c, q)
           /\ AllowOn(ToSet(Mapping(c).rules), c, q) # {} <=> InGranted(c, q) \/ (q.st = "est" /\ InGranted(c, Reply(q)))
           /\ InGranted(c, q) \/ (RulesLabel(c) # Unset /\ InDenied(c, q)) => q.dst \in ManagedAddrs(world[c])
<1> DEFINE M == Mapping(c).rules
           cfg == RulesLabel(c)
           s == Scope(c)
           K == IF cfg = Unset THEN {} ELSE PortPairs(c)
<1>1. Sound(c) /\ ~Mapping(c).err /\ PortPart(M, c, cfg, s, K)
  BY PartsAre
<1>2. /\ DropOn(ToSet(M), c, q) # {} <=> q.st = "new" /\ \E k \in K : DenyAt(cfg, s, k[1], k[2], q)
      /\ AllowOn(ToSet(M), c, q) # {} <=>
           \E k \in K : AllowAt(cfg, s, k[1], k[2], q) \/ (q.st = "est" /\ AllowAt(cfg, s, k[1], k[2], Reply(q)))
  BY <1>1 DEF PortPart
<1>3. CASE cfg = Unset
  <2>1. K = {} /\ \A p : ~InGranted(c, p)
    BY <1>3 DEF InGranted
  <2> HIDE DEF K, M
  <2> QED
    BY <1>2, <1>3, <2>1 DEF M
<1>4. CASE cfg # Unset
  <2>1. K = PortPairs(c)
    BY <1>4
  <2>2. Published(c) = {} \/ GatewayNets(c) \subseteq DOMAIN s.nets
    BY <1>1, <1>4, PortNetworks DEF Mapping
  <2>3. \A p : /\ (\E k \in K : AllowAt(cfg, s, k[1], k[2], p)) <=> InGranted(c, p)
               /\ (\E k \in K : DenyAt(cfg, s, k[1], k[2], p)) <=> InDenied(c, p)
    BY <1>1, <1>4, <2>1, <2>2, PortsGranted
  <2>4. ASSUME NEW k \in K, AllowAt(cfg, s, k[1], k[2], q) \/ DenyAt(cfg, s, k[1], k[2], q)
        PROVE  q.dst \in ManagedAddrs(world[c])
    <3>1. PICK n \in GatewayNets(c), p \in Published(c) : k = <<n, p>>
      BY <2>1, <2>4 DEF PortPairs
    <3>2. k[1] = n /\ n \in DOMAIN s.nets
      BY <2>2, <3>1
    <3>3. s.nets[n].addr = q.dst
      BY <2>4, <3>2 DEF AllowAt, DenyAt, ExternalAt, LocalAt
    <3> QED
      BY <1>1, <3>2, <3>3, SoundFacts
  <2> HIDE DEF K, M, s
  <2>5. InGranted(c, q) \/ InDenied(c, q) => q.dst \in ManagedAddrs(world[c])
    BY <2>3, <2>4
  <2>6. DropOn(ToSet(M), c, q) # {} <=> q.st = "new" /\ InDenied(c, q)
    BY <1>2, <2>3
  <2>7. AllowOn(ToSet(M), c, q) # {} <=> InGranted(c, q) \/ (q.st = "est" /\ InGranted(c, Reply(q)))
    BY <1>2, <2>3
  <2> QED
    BY <1>4, <2>5, <2>6, <2>7 DEF M
<1> QED
  BY <1>3, <1>4

\* Which rules of c's chain match, and which of them drop.
LEMMA ChainHits ==
    ASSUME NEW c, Succeeds(c), NEW q, PacketOK(q)
    PROVE  /\ DropOn(ToSet(Result(c).rules), c, q) # {} <=> q.st = "new" /\ RulesLabel(c) # Unset /\ InDenied(c, q)
           /\ Hits(Result(c).rules, c, q) <=>
                \/ Hits(Inbound(c).rules, c, q) \/ Hits(Outbound(c), c, q)
                \/ q.st = "new" /\ RulesLabel(c) # Unset /\ InDenied(c, q)
                \/ InGranted(c, q) \/ (q.st = "est" /\ InGranted(c, Reply(q)))
<1> DEFINE I == ToSet(Inbound(c).rules)
           O == ToSet(Outbound(c))
           M == ToSet(Mapping(c).rules)
<1>1. ToSet(Result(c).rules) = (I \cup O) \cup M /\ \A e \in I \cup O : ~e.drop
  BY RulesParts, PartsAre
<1>2. Hits(Result(c).rules, c, q) <=>
        Hits(Inbound(c).rules, c, q) \/ Hits(Outbound(c), c, q) \/ Hits(Mapping(c).rules, c, q)
  BY RulesParts
<1>3. DropOn(ToSet(Result(c).rules), c, q) = DropOn(M, c, q)
  BY <1>1 DEF DropOn
<1>4. Hits(Mapping(c).rules, c, q) <=> DropOn(M, c, q) # {} \/ AllowOn(M, c, q) # {}
  BY DEF Hits, DropOn, AllowOn
<1> HIDE DEF I, O
<1> QED
  BY <1>2, <1>3, <1>4, MappingIs

\* Without a drop before the last rule, what matches passes.
LEMMA ChainFate ==
    ASSUME NEW R, IsSequence(R), NEW c, NEW q, PacketOK(q), DropOn(ToSet(R), c, q) = {}
    PROVE  Drops(Append(In(R, c), createDropRule(c)), q) <=> ~Hits(R, c, q)
<1>1. IsSequence(In(R, c)) /\ ToSet(In(R, c)) = {r \in ToSet(R) : r.chain = c}
  BY InHolds
<1>2. \A r \in ToSet(In(R, c)) : Match(r, q) => ~r.drop
  BY <1>1 DEF DropOn
<1>3. (\E r \in ToSet(In(R, c)) : Match(r, q)) <=> Hits(R, c, q)
  BY <1>1 DEF Hits
<1> QED
  BY <1>1, <1>2, <1>3, DropMatches, AllowsBeforeDrop

\* What the rules for the sources that wait for c match in c's chain.
LEMMA InboundHits ==
    ASSUME NEW c, Succeeds(c), NEW q, PacketOK(q), Hits(Inbound(c).rules, c, q)
    PROVE  \E d \in Known(c) \cap running :
             \/ q.src \in ManagedAddrs(world[d]) /\ q.dst \in ManagedAddrs(world[c]) /\ d = c
             \/ q.st = "est" /\ q.src \in ManagedAddrs(world[c]) /\ q.dst \in ManagedAddrs(world[d])
<1>1. /\ Sound(c) /\ ~Inbound(c).err /\ IsFiniteSet(TableFor(c)) /\ \A w \in TableFor(c) : WaitOK(w)
  BY PartsAre, TableOK DEF Succeeds
<1>2. world \in Worlds /\ running \subseteq DOMAIN world /\ c \in running /\ ~Scope(c).err
  BY <1>1 DEF Sound
<1>3. ~createWaitingContainerRules(c, TableFor(c), Known(c), Scope(c), Peers).err
  BY <1>1 DEF Inbound
<1>4. PeerHit(c, q, c, Known(c))
  BY <1>1, <1>2, <1>3, WaitingHolds DEF Inbound
<1> QED
  BY <1>4 DEF PeerHit

LEMMA OutboundHits ==
    ASSUME NEW c, Succeeds(c), NEW q, PacketOK(q), q.st = "new"
    PROVE  Hits(Outbound(c), c, q) <=> OutGrantedIn(c, q, PeerNets, Known(c))
<1>1. Sound(c) /\ Known(c) \subseteq DOMAIN world
  BY PartsAre, TableOK DEF Succeeds
<1>2. Hits(Outbound(c), c, q) <=> \E P \in ToSet(Populated(c)) : OutCovers(c, P, q, Known(c), Scope(c), Peers)
  BY <1>1, OutboundHolds DEF Outbound
<1> QED
  BY <1>1, <1>2, OutGrantedIs

\* What a successful create leaves.
Applied(c) ==
    /\ Succeeds(c) /\ c \in DOMAIN world /\ c \in Ids /\ c # None /\ world' = world /\ running' = running
    /\ rows' = Known(c) /\ main' = NotTagged(main, c) \o In(Result(c).rules, "whalewall")
    /\ chain' = Policies(c) /\ chain'[c] = Append(In(Result(c).rules, c), createDropRule(c))
    /\ \A a \in Addrs : /\ vmap'[a] \in Known(c) \cup {None}
                        /\ \A d \in Known(c) : vmap'[a] = d <=> a \in ManagedAddrs(world[d])

LEMMA AppliedIs ==
    ASSUME IInv, Next, NEW c \in DOMAIN world, Just(c, "applied")'
    PROVE  Applied(c)
<1>1. createContainerRules(c)
  BY LastIsCreate DEF Just
<1>2. c \in Ids /\ c # None
  BY Described DEF IInv
<1>3. /\ c \in running /\ vmap' = RetargetedMap(c, Scope(c).addrs) /\ rows' = Known(c) /\ chain' = Policies(c)
      /\ main' = NotTagged(main, c) \o In(Result(c).rules, "whalewall") /\ world' = world /\ running' = running
      /\ last' = [id |-> c, fate |-> IF Result(c).err THEN "quarantined" ELSE "applied"]
  BY <1>1, CreateIs
<1>4. Succeeds(c)
  BY <1>3 DEF Just, Succeeds
<1>5. chain'[c] = Append(In(Result(c).rules, c), createDropRule(c))
  BY <1>2, <1>3 DEF Policies
<1>6. \A a \in Addrs : /\ vmap'[a] \in Known(c) \cup {None}
                       /\ \A d \in Known(c) : vmap'[a] = d <=> a \in ManagedAddrs(world[d])
  BY <1>3, MapAfter
<1> QED
  BY <1>2, <1>3, <1>4, <1>5, <1>6 DEF Applied

\* What the labels grant does not change while Docker's view does not.
LEMMA GrantKept ==
    ASSUME world' = world, running' = running, NEW c
    PROVE  /\ PeerNets' = PeerNets /\ RulesLabel(c)' = RulesLabel(c) /\ OutputOf(c)' = OutputOf(c)
           /\ \A r, p, nets : SentTo(c, r, p, nets)' <=> SentToIn(c, r, p, nets, rows')
           /\ \A p, nets : OutGranted(c, p, nets)' <=> OutGrantedIn(c, p, nets, rows')
           /\ \A p : (InGranted(c, p)' <=> InGranted(c, p)) /\ (InDenied(c, p)' <=> InDenied(c, p))
           /\ GatewayNets(c)' = GatewayNets(c) /\ Published(c)' = Published(c)
<1>1. \A x : Project(x)' = Project(x) /\ Nets(x)' = Nets(x) /\ RulesLabel(x)' = RulesLabel(x)
  BY DEF Project, Nets, RulesLabel
<1>2. Peers' = Peers
  BY <1>1 DEF Peers
<1>3. PeerNets' = PeerNets
  BY <1>2 DEF PeerNets
<1>4. OutputOf(c)' = OutputOf(c)
  BY <1>1 DEF OutputOf
<1>5. \A d, name : BearsBest(d, name, c)' <=> BearsBest(d, name, c)
  BY <1>1 DEF BearsBest, Bears
<1>6. \A r, n, d, m, nets : SharedNet(r, c, n, d, m, nets)' <=> SharedNet(r, c, n, d, m, nets)
  BY <1>1 DEF SharedNet
<1>7. \A r, p, nets : SentTo(c, r, p, nets)' <=> SentToIn(c, r, p, nets, rows')
  BY <1>1, <1>5, <1>6 DEF SentTo, SentToIn
<1>8. \A p, nets : OutGranted(c, p, nets)' <=> OutGrantedIn(c, p, nets, rows')
  BY <1>4, <1>7 DEF OutGranted, OutGrantedIn
<1>9. Scope(c)' = Scope(c) /\ Published(c)' = Published(c)
  BY <1>1 DEF Scope, Published
<1>10. GatewayNets(c)' = GatewayNets(c)
  BY <1>1, <1>9 DEF GatewayNets
<1>11. \A p, n, port : /\ Arrives(c, p, n, port)' <=> Arrives(c, p, n, port)
                       /\ FromGateway(c, p, n, port)' <=> FromGateway(c, p, n, port)
  BY <1>1 DEF Arrives, FromGateway
<1>12. \A p : (InGranted(c, p)' <=> InGranted(c, p)) /\ (InDenied(c, p)' <=> InDenied(c, p))
  BY <1>1, <1>9, <1>10, <1>11 DEF InGranted, InDenied
<1> QED
  BY <1>1, <1>3, <1>4, <1>7, <1>8, <1>9, <1>10, <1>12

LEMMA GrantIs ==
    ASSUME NEW c, NEW p, NEW nets
    PROVE  OutGranted(c, p, nets) <=> OutGrantedIn(c, p, nets, rows)
<1>1. \A r : SentTo(c, r, p, nets) <=> SentToIn(c, r, p, nets, rows)
  BY DEF SentTo, SentToIn
<1> QED
  BY <1>1 DEF OutGranted, OutGrantedIn

LEMMA Still ==
    ASSUME UNCHANGED vars, NEW c
    PROVE  /\ world' = world /\ running' = running /\ rows' = rows /\ vmap' = vmap
           /\ \A fate : Just(c, fate)' <=> Just(c, fate)
           /\ \A p : Passes(p)' <=> Passes(p)
           /\ \A p, nets : OutGranted(c, p, nets)' <=> OutGranted(c, p, nets)
           /\ \A r, p, nets : SentTo(c, r, p, nets)' <=> SentTo(c, r, p, nets)
<1>1. /\ world' = world /\ running' = running /\ rows' = rows /\ vmap' = vmap
      /\ chain' = chain /\ main' = main /\ last' = last
  BY DEF vars
<1>2. \A p : Passes(p)' <=> Passes(p)
  BY <1>1 DEF Passes
<1>3. \A p, nets : OutGranted(c, p, nets)' <=> OutGranted(c, p, nets)
  BY <1>1, GrantKept, GrantIs
<1>4. \A r, p, nets : SentToIn(c, r, p, nets, rows) <=> SentTo(c, r, p, nets)
  BY DEF SentTo, SentToIn
<1>5. \A r, p, nets : SentTo(c, r, p, nets)' <=> SentTo(c, r, p, nets)
  BY <1>1, <1>4, GrantKept
<1> QED
  BY <1>1, <1>2, <1>3, <1>5 DEF Just

LEMMA OutAfter ==
    ASSUME NEW c, Applied(c), NEW q \in Packets, q.st = "new", vmap'[q.src] = c, vmap'[q.dst] # c
    PROVE  Passes(q)' <=> OutGrantedIn(c, q, PeerNets, Known(c))
<1>1. PacketOK(q) /\ Succeeds(c) /\ IsSequence(Result(c).rules)
  BY PacketsAssumption, RulesParts DEF PacketOK, Applied
<1>2. q.src \in ManagedAddrs(world[c]) /\ q.dst \notin ManagedAddrs(world[c])
  BY <1>1 DEF Applied, PacketOK, Known
<1>3. ~InGranted(c, q) /\ ~(RulesLabel(c) # Unset /\ InDenied(c, q))
  BY <1>1, <1>2, MappingIs
<1>4. ~Hits(Inbound(c).rules, c, q)
  BY <1>1, <1>2, InboundHits
<1>5. DropOn(ToSet(Result(c).rules), c, q) = {} /\ (Hits(Result(c).rules, c, q) <=> Hits(Outbound(c), c, q))
  BY <1>1, <1>3, <1>4, ChainHits
<1>6. Drops(chain'[c], q) <=> ~Hits(Result(c).rules, c, q)
  BY <1>1, <1>5, ChainFate DEF Applied
<1>7. Passes(q)' <=> ~Drops(chain'[c], q)
  BY DEF Passes, Applied
<1> QED
  BY <1>1, <1>5, <1>6, <1>7, OutboundHits

\* After a create a new connection of the container leaves if and only if an output
\* rule of its label names it, by its network, address or container, protocol and
\* ports (populateOutputRules, createOutputRules, validateRule).
THEOREM OutboundHoldsPolicy == Spec => []OutboundIsPolicy
<1> DEFINE Fact(c) == Just(c, "applied") => \A p \in Packets :
                        p.st = "new" /\ vmap[p.src] = c /\ vmap[p.dst] # c => (Passes(p) <=> OutGranted(c, p, PeerNets))
           P == \A c \in DOMAIN world : Fact(c)
<1>1. Init => P
  BY NoCreateYet
<1>2. IInv /\ P /\ [Next]_vars => P'
  <2> SUFFICES ASSUME IInv, P, [Next]_vars PROVE P'
    OBVIOUS
  <2>1. CASE UNCHANGED vars
    <3>1. world' = world /\ running' = running
      BY <2>1 DEF vars
    <3>2. PeerNets' = PeerNets
      BY <3>1, GrantKept
    <3>3. ASSUME NEW c \in DOMAIN world PROVE Fact(c)'
      <4>1. Fact(c)
        OBVIOUS
      <4> QED
        BY <2>1, <3>2, <4>1, Still
    <3> HIDE DEF Fact
    <3> QED
      BY <3>1, <3>3
  <2>2. CASE Next
    <3>1. world' = world
      BY <2>2 DEF Next, createContainerRules, Create, deleteContainerRules, start, die
    <3>2. ASSUME NEW c \in DOMAIN world PROVE Fact(c)'
      <4> SUFFICES ASSUME Just(c, "applied")', NEW p \in Packets, p.st = "new", vmap'[p.src] = c, vmap'[p.dst] # c
                   PROVE  Passes(p)' <=> OutGranted(c, p, PeerNets)'
        OBVIOUS
      <4>1. Applied(c)
        BY <2>2, AppliedIs
      <4>2. Passes(p)' <=> OutGrantedIn(c, p, PeerNets, Known(c))
        BY <4>1, OutAfter
      <4>3. PeerNets' = PeerNets /\ rows' = Known(c) /\ world' = world /\ running' = running
        BY <4>1, GrantKept DEF Applied
      <4>4. OutGranted(c, p, PeerNets)' <=> OutGrantedIn(c, p, PeerNets, Known(c))
        BY <4>3, GrantKept
      <4> QED
        BY <4>2, <4>4
    <3> HIDE DEF Fact
    <3> QED
      BY <3>1, <3>2
  <2> QED
    BY <2>1, <2>2
<1>3. P => OutboundIsPolicy
  BY DEF OutboundIsPolicy
<1> QED
  BY <1>1, <1>2, <1>3, Invariant, PTL DEF Spec

LEMMA ShieldedMore ==
    ASSUME NEW s, NEW D, NEW A, NEW E, NEW B, Shielded(s, D, A), D \subseteq E, B \subseteq A
    PROVE  Shielded(s, E, B)
  BY DEF Shielded

\* A rule for c that denies localhost wins.
LEMMA DenialWins ==
    ASSUME NEW c, Succeeds(c), NEW q, PacketOK(q), q.st = "new", RulesLabel(c) # Unset, InDenied(c, q),
           ~Hits(Inbound(c).rules, c, q), ~Hits(Outbound(c), c, q)
    PROVE  Drops(Append(In(Result(c).rules, c), createDropRule(c)), q)
<1> DEFINE F == Inbound(c).rules \o Outbound(c)
           M == Mapping(c).rules
           R == Result(c).rules
           D == DropOn(ToSet(R), c, q)
           A == AllowOn(ToSet(R), c, q)
           t == In(R, c)
           e == createDropRule(c)
<1>1. /\ R = F \o M /\ IsSequence(F) /\ IsSequence(M) /\ IsSequence(R)
      /\ ToSet(F) = ToSet(Inbound(c).rules) \cup ToSet(Outbound(c))
      /\ ToSet(R) = ToSet(F) \cup ToSet(M)
  BY RulesParts, PartsAre
<1>2. ToSet(F) \cap A = {}
  BY <1>1 DEF AllowOn, Hits
<1>3. Shielded(F, D, A)
  <2> HIDE DEF F, D, A
  <2> QED
    BY <1>1, <1>2, ShieldedEmpty
<1>4. Shielded(M, D, A)
  <2> DEFINE cfg == RulesLabel(c)
             s == Scope(c)
             K == PortPairs(c)
  <2>1. Sound(c) /\ ~Mapping(c).err /\ PortPart(M, c, cfg, s, K)
    BY PartsAre
  <2>2. Published(c) = {} \/ GatewayNets(c) \subseteq DOMAIN s.nets
    BY <2>1, PortNetworks DEF Mapping
  <2>3. \A k \in K : DenyAt(cfg, s, k[1], k[2], q) \/ ~AllowAt(cfg, s, k[1], k[2], q)
    BY <2>1, <2>2, PortsGranted
  <2>4. ToSet(M) \subseteq ToSet(R)
    BY <1>1
  <2> HIDE DEF M, R, K, s, cfg
  <2> QED
    BY <2>1, <2>3, <2>4 DEF PortPart
<1>5. Shielded(R, D, A)
  <2> HIDE DEF F, M, D, A
  <2> QED
    BY <1>1, <1>3, <1>4, ShieldedConcat
<1>6. D # {}
  BY ChainHits
<1>7. IsSequence(t) /\ ToSet(t) = {r \in ToSet(R) : r.chain = c} /\ t = Kept(R, {r \in ToSet(R) : r.chain = c})
  BY <1>1, InHolds, InKeeps
<1>8. D \subseteq {r \in ToSet(R) : r.chain = c}
  BY DEF DropOn
<1> HIDE DEF R, F, M
<1>9. Shielded(t, D, A)
  <2> HIDE DEF D, A, t
  <2> QED
    BY <1>1, <1>5, <1>7, <1>8, ShieldedKept
<1>10. ToSet(t) \cap D # {}
  BY <1>6, <1>7, <1>8
<1>11. IsSequence(Append(t, e)) /\ Append(t, e) = t \o <<e>> /\ ToSet(Append(t, e)) = ToSet(t) \cup {e} /\ IsSequence(<<e>>)
  BY <1>7, AppendIs, SingleSequence
<1>12. Shielded(t \o <<e>>, D, A)
  <2> HIDE DEF D, A, t, e
  <2> QED
    BY <1>7, <1>9, <1>10, <1>11, ShieldedConcat
<1> DEFINE u == Append(t, e)
           D2 == {r \in ToSet(u) : Match(r, q) /\ r.drop}
           A2 == {r \in ToSet(u) : Match(r, q) /\ ~r.drop}
<1>13. Match(e, q) /\ e.drop
  BY DropMatches
<1>14. D \subseteq D2 /\ A2 \subseteq A
  BY <1>7, <1>11, <1>13 DEF DropOn, AllowOn
<1>15. Shielded(u, D2, A2)
  <2> HIDE DEF D, A, D2, A2, t, e
  <2> QED
    BY <1>11, <1>12, <1>14, ShieldedMore
<1>16. \E r \in ToSet(u) : Match(r, q)
  BY <1>11, <1>13
<1> HIDE DEF t, e
<1>17. Drops(u, q)
  BY <1>11, <1>15, <1>16, ShieldDrops
<1> QED
  BY <1>17 DEF t, e, R

\* A grant to send is one from an address of the container.
LEMMA GrantFrom ==
    ASSUME NEW c, Sound(c), NEW q, NEW known, OutGrantedIn(c, q, PeerNets, known)
    PROVE  q.src \in ManagedAddrs(world[c])
<1>1. PICK r \in OutputOf(c) : SentToIn(c, r, q, PeerNets, known)
  BY DEF OutGrantedIn
<1>2. PICK n \in DOMAIN PeerNets[c] : PeerNets[c][n].addr = q.src
  BY <1>1 DEF SentToIn
<1> QED
  BY <1>2, SoundFacts

LEMMA InAfter ==
    ASSUME NEW c, Applied(c), NEW q \in Packets, q.st = "new", vmap'[q.src] = None, vmap'[q.dst] = c
    PROVE  Passes(q)' <=> InGranted(c, q) /\ ~InDenied(c, q)
<1>1. PacketOK(q) /\ Succeeds(c) /\ IsSequence(Result(c).rules) /\ Sound(c) /\ c # None
  BY PacketsAssumption, RulesParts, PartsAre DEF PacketOK, Applied
<1>2. q.src \notin ManagedAddrs(world[c])
  BY <1>1 DEF Applied, PacketOK, Known
<1>3. ~Hits(Inbound(c).rules, c, q)
  BY <1>1, <1>2, InboundHits
<1>4. ~Hits(Outbound(c), c, q)
  BY <1>1, <1>2, OutboundHits, GrantFrom
<1>5. Passes(q)' <=> ~Drops(chain'[c], q)
  BY <1>1 DEF Passes
<1>6. chain'[c] = Append(In(Result(c).rules, c), createDropRule(c))
  BY DEF Applied
<1>7. CASE RulesLabel(c) # Unset /\ InDenied(c, q)
  BY <1>1, <1>3, <1>4, <1>5, <1>6, <1>7, DenialWins
<1>8. CASE ~(RulesLabel(c) # Unset /\ InDenied(c, q))
  <2>1. DropOn(ToSet(Result(c).rules), c, q) = {} /\ (Hits(Result(c).rules, c, q) <=> InGranted(c, q))
    BY <1>1, <1>3, <1>4, <1>8, ChainHits
  <2>2. Drops(chain'[c], q) <=> ~Hits(Result(c).rules, c, q)
    BY <1>1, <1>6, <2>1, ChainFate
  <2>3. InGranted(c, q) => RulesLabel(c) # Unset
    BY DEF InGranted
  <2> QED
    BY <1>5, <1>8, <2>1, <2>2, <2>3
<1> QED
  BY <1>7, <1>8

\* The ports at which localhost is stopped on the host.
HostStopped(c, q) ==
    /\ RulesLabel(c) # Unset /\ ~RulesLabel(c).localAllow /\ GatewayNets(c) # {}
    /\ \E port \in Published(c) : \E b \in port.bindings :
          port.proto = q.proto /\ b.port = q.dport /\ FromLocalhost(b)

LEMMA HostHits ==
    ASSUME NEW c, Succeeds(c), NEW q, PacketOK(q), q.st = "new", q.src = LocalAddr
    PROVE  Hits(Result(c).rules, "whalewall", q) <=> HostStopped(c, q)
<1> DEFINE cfg == RulesLabel(c)
           K == IF cfg = Unset THEN {} ELSE PortPairs(c)
<1>1. /\ \A e \in ToSet(Inbound(c).rules) \cup ToSet(Outbound(c)) : e.chain \in Known(c)
      /\ PortPart(Mapping(c).rules, c, cfg, Scope(c), K) /\ Sound(c)
  BY PartsAre
<1>2. "whalewall" \notin Known(c)
  <2>1. world \in Worlds /\ Known(c) \subseteq DOMAIN world
    BY <1>1, TableOK DEF Succeeds, IInv
  <2> QED
    BY <2>1, Described
<1>3. ~Hits(Inbound(c).rules, "whalewall", q) /\ ~Hits(Outbound(c), "whalewall", q)
  BY <1>1, <1>2 DEF Hits
<1>4. Hits(Mapping(c).rules, "whalewall", q) <=> \E k \in K : HostDenied(cfg, k[2], q)
  BY <1>1 DEF PortPart
<1>5. (\E k \in K : HostDenied(cfg, k[2], q)) <=> HostStopped(c, q)
  <2>1. CASE cfg = Unset
    BY <2>1 DEF HostStopped
  <2>2. CASE cfg # Unset
    <3>1. (\E k \in K : HostDenied(cfg, k[2], q)) <=> GatewayNets(c) # {} /\ \E port \in Published(c) : HostDenied(cfg, port, q)
      <4>1. ASSUME NEW k \in K, HostDenied(cfg, k[2], q)
            PROVE  GatewayNets(c) # {} /\ \E port \in Published(c) : HostDenied(cfg, port, q)
        <5>1. PICK n \in GatewayNets(c), port \in Published(c) : k = <<n, port>>
          BY <2>2, <4>1 DEF PortPairs
        <5>2. k[2] = port
          BY <5>1
        <5> QED
          BY <4>1, <5>2
      <4>2. ASSUME NEW n \in GatewayNets(c), NEW port \in Published(c), HostDenied(cfg, port, q)
            PROVE  \E k \in K : HostDenied(cfg, k[2], q)
        <5>1. <<n, port>> \in K /\ <<n, port>>[2] = port
          BY <2>2 DEF PortPairs
        <5> HIDE DEF K
        <5> QED
          BY <4>2, <5>1
      <4> HIDE DEF K
      <4> QED
        BY <4>1, <4>2
    <3>2. \A port : HostDenied(cfg, port, q) <=>
            ~cfg.localAllow /\ \E b \in port.bindings : port.proto = q.proto /\ b.port = q.dport /\ FromLocalhost(b)
      BY DEF HostDenied, HostAt
    <3> HIDE DEF K
    <3> QED
      BY <2>2, <3>1, <3>2 DEF HostStopped
  <2> QED
    BY <2>1, <2>2
<1> HIDE DEF K
<1> QED
  BY <1>3, <1>4, <1>5, RulesParts

LEMMA HostAfter ==
    ASSUME NEW c, Applied(c), NEW q \in Packets, q.st = "new", vmap'[q.src] = None,
           q.src = LocalAddr, q.dst = LocalAddr, rows' = {c}
    PROVE  Passes(q)' <=> ~HostStopped(c, q)
<1> DEFINE R == Result(c).rules
           s == NotTagged(main, c)
           t == In(R, "whalewall")
<1>1. PacketOK(q) /\ Succeeds(c) /\ IsSequence(R) /\ IInv
  BY PacketsAssumption, RulesParts DEF PacketOK, Applied, Succeeds
<1>2. IsSequence(main) /\ \A r \in ToSet(main) : r.tag = c
  BY <1>1 DEF IInv, ChainsOK, Applied, Known
<1>3. IsSequence(s) /\ ToSet(s) = {}
  BY <1>2, NotTaggedHolds
<1>4. IsSequence(t) /\ ToSet(t) = {r \in ToSet(R) : r.chain = "whalewall"}
  BY <1>1, InHolds
<1>5. \A r \in ToSet(t) : r.drop
  <2>1. \A e \in ToSet(Inbound(c).rules) \cup ToSet(Outbound(c)) : e.chain \in Known(c)
    BY <1>1, PartsAre
  <2>2. \A e \in ToSet(Mapping(c).rules) : e.chain = "whalewall" => e.drop
    BY <1>1, PartsAre DEF PortPart
  <2>3. "whalewall" \notin Known(c)
    BY <1>1, Described DEF IInv, TablesOK, Known, Applied
  <2> QED
    BY <1>1, <1>4, <2>1, <2>2, <2>3, RulesParts
<1>6. main' = s \o t
  BY DEF Applied
<1> HIDE DEF s
<1>7. (\E r \in ToSet(t) : Match(r, q)) <=> Hits(R, "whalewall", q)
  BY <1>4 DEF Hits
<1> HIDE DEF t, R
<1>8. IsSequence(s \o t) /\ ToSet(s \o t) = ToSet(t)
  BY <1>3, <1>4, ConcatSequences
<1>9. Drops(main', q) <=> \E r \in ToSet(t) : Match(r, q)
  BY <1>5, <1>6, <1>8, AllDrop
<1>10. Passes(q)' <=> ~Drops(main', q)
  BY DEF Passes
<1> QED
  BY <1>1, <1>7, <1>9, <1>10, HostHits DEF R

\* After a create a new connection from outside reaches the container if and only
\* if mapped_ports lets it in; the denial of localhost wins, and stops it at the host
\* port too (createPortMappingRules).
THEOREM InboundHoldsPolicy == Spec => []InboundIsPolicy
<1> DEFINE In1(c, p) == vmap[p.dst] = c => (Passes(p) <=> InGranted(c, p) /\ ~InDenied(c, p))
           In2(c, p) == p.src = LocalAddr /\ p.dst = LocalAddr /\ rows = {c} => (Passes(p) <=> ~HostStopped(c, p))
           Fact(c) == Just(c, "applied") => \A p \in Packets :
                        p.st = "new" /\ vmap[p.src] = None => In1(c, p) /\ In2(c, p)
           P == \A c \in DOMAIN world : Fact(c)
<1>1. Init => P
  BY NoCreateYet
<1>2. IInv /\ P /\ [Next]_vars => P'
  <2> SUFFICES ASSUME IInv, P, [Next]_vars PROVE P'
    OBVIOUS
  <2>1. ASSUME world' = world, running' = running, NEW c, NEW p
        PROVE  /\ InGranted(c, p)' <=> InGranted(c, p)
               /\ InDenied(c, p)' <=> InDenied(c, p)
               /\ HostStopped(c, p)' <=> HostStopped(c, p)
    BY <2>1, GrantKept DEF HostStopped
  <2>2. CASE UNCHANGED vars
    <3>1. world' = world /\ running' = running
      BY <2>2 DEF vars
    <3>2. ASSUME NEW c \in DOMAIN world PROVE Fact(c)'
      <4>1. Fact(c)
        OBVIOUS
      <4> QED
        BY <2>1, <2>2, <3>1, <4>1, Still
    <3> HIDE DEF Fact
    <3> QED
      BY <3>1, <3>2
  <2>3. CASE Next
    <3>1. world' = world
      BY <2>3 DEF Next, createContainerRules, Create, deleteContainerRules, start, die
    <3>2. ASSUME NEW c \in DOMAIN world PROVE Fact(c)'
      <4> SUFFICES ASSUME Just(c, "applied")', NEW p \in Packets, p.st = "new", vmap'[p.src] = None
                   PROVE  In1(c, p)' /\ In2(c, p)'
        OBVIOUS
      <4>1. Applied(c)
        BY <2>3, AppliedIs
      <4>2. world' = world /\ running' = running
        BY <4>1 DEF Applied
      <4>3. In1(c, p)'
        BY <2>1, <4>1, <4>2, InAfter
      <4>4. In2(c, p)'
        BY <2>1, <4>1, <4>2, HostAfter
      <4> QED
        BY <4>3, <4>4
    <3> HIDE DEF Fact
    <3> QED
      BY <3>1, <3>2
  <2> QED
    BY <2>2, <2>3
<1>3. P => InboundIsPolicy
  BY DEF InboundIsPolicy, HostStopped
<1> QED
  BY <1>1, <1>2, <1>3, Invariant, PTL DEF Spec

-----------------------------------------------------------------------------
(* Established connections *)

\* A packet of the connection that q opens, in its direction.
Along(p, q) ==
    /\ p.src = q.src /\ p.dst = q.dst /\ p.proto = q.proto /\ p.sport = q.sport /\ p.dport = q.dport
    /\ p.st = "est"

LEMMA AlongIs ==
    ASSUME NEW q \in Packets
    PROVE  /\ PacketOK(q) /\ PacketOK(Follow(q)) /\ Along(Follow(q), q)
           /\ PacketOK(Reply(q)) /\ Along(Reply(Reply(q)), q)
<1>1. q \in [src : Addrs, dst : Addrs, proto : {q.proto}, sport : Ports, dport : Ports, st : {"new", "est"}]
  BY PacketsAssumption
<1>2. PacketOK(q)
  BY <1>1 DEF PacketOK
<1>3. PacketOK(Follow(q)) /\ Along(Follow(q), q)
  BY <1>1 DEF Follow, PacketOK, Along
<1>4. PacketOK(Reply(q)) /\ Along(Reply(Reply(q)), q)
  BY <1>2 DEF Reply, PacketOK, Along
<1> QED
  BY <1>2, <1>3, <1>4

LEMMA PeerAddr ==
    ASSUME NEW c, Sound(c), NEW known, known \subseteq DOMAIN world, NEW P \in ToSet(Populated(c)), ToPeer(P),
           NEW q, OutCovers(c, P, q, known, Scope(c), Peers)
    PROVE  P.peer \in known /\ q.dst \in ManagedAddrs(world[P.peer])
<1>1. /\ P.peer \in known
      /\ AddrOn(P.peer, P.rule.network, Peers[P.peer].nets) = q.dst
  BY DEF OutCovers, EdgeCovers, ToPeer
<1>2. world \in Worlds /\ running \subseteq DOMAIN world
  BY DEF Sound
<1>3. P.peer # None /\ P.peer \in running
  BY <1>1, <1>2, Described, PopulatedPeer
<1>4. ~Peers[P.peer].err /\ Reaches(P.rule, c, P.peer)
  BY <1>3, PopulatedPeer
<1> QED
  BY <1>1, <1>2, <1>4, ReachesOn

LEMMA EstablishedOut ==
    ASSUME NEW c, Succeeds(c), NEW q, PacketOK(q), q.st = "est"
    PROVE  /\ Hits(Outbound(c), c, q) <=>
                \/ OutGrantedIn(c, q, PeerNets, Known(c))
                \/ \E P \in ToSet(Populated(c)) : EstAt(c, P) = c /\ OutCovers(c, P, Reply(q), Known(c), Scope(c), Peers)
           /\ \A P \in ToSet(Populated(c)) : OutCovers(c, P, Reply(q), Known(c), Scope(c), Peers) =>
                OutGrantedIn(c, Reply(q), PeerNets, Known(c))
<1>1. Sound(c) /\ Known(c) \subseteq DOMAIN world
  BY PartsAre, TableOK DEF Succeeds
<1>2. Hits(Outbound(c), c, q) <=> \E P \in ToSet(Populated(c)) :
        \/ OutCovers(c, P, q, Known(c), Scope(c), Peers)
        \/ c = EstAt(c, P) /\ OutCovers(c, P, Reply(q), Known(c), Scope(c), Peers)
  BY <1>1, OutboundHolds DEF Outbound
<1> QED
  BY <1>1, <1>2, OutGrantedIs

LEMMA EstablishedFate ==
    ASSUME NEW c, Applied(c), NEW q, PacketOK(q), q.st = "est",
           vmap'[q.src] = c \/ (vmap'[q.src] = None /\ vmap'[q.dst] = c)
    PROVE  Passes(q)' <=> \/ Hits(Inbound(c).rules, c, q) \/ Hits(Outbound(c), c, q)
                          \/ InGranted(c, q) \/ InGranted(c, Reply(q))
<1>1. /\ Succeeds(c) /\ IsSequence(Result(c).rules) /\ c # None
      /\ chain'[c] = Append(In(Result(c).rules, c), createDropRule(c))
  BY RulesParts DEF Applied
<1>2. /\ DropOn(ToSet(Result(c).rules), c, q) = {}
      /\ Hits(Result(c).rules, c, q) <=> \/ Hits(Inbound(c).rules, c, q) \/ Hits(Outbound(c), c, q)
                                         \/ InGranted(c, q) \/ InGranted(c, Reply(q))
  BY <1>1, ChainHits
<1>3. Drops(chain'[c], q) <=> ~Hits(Result(c).rules, c, q)
  BY <1>1, <1>2, ChainFate
<1>4. Passes(q)' <=> ~Drops(chain'[c], q)
  <2>1. CASE vmap'[q.src] = c
    BY <1>1, <2>1 DEF Passes
  <2>2. CASE vmap'[q.src] = None /\ vmap'[q.dst] = c
    BY <1>1, <2>2 DEF Passes
  <2> QED
    BY <2>1, <2>2
<1> QED
  BY <1>2, <1>3, <1>4

LEMMA AddressesAfter ==
    ASSUME NEW c, Applied(c), NEW a \in Addrs
    PROVE  /\ vmap'[a] = c <=> a \in ManagedAddrs(world[c])
           /\ vmap'[a] = None => \A d \in Known(c) : a \notin ManagedAddrs(world[d])
           /\ \A d \in Known(c) : a \in ManagedAddrs(world[d]) => vmap'[a] = d
           /\ None \notin Known(c) /\ c \in Known(c)
<1>1. None \notin Known(c)
  BY Described DEF Applied, Succeeds, IInv, TablesOK, Known
<1>2. /\ c \in Known(c)
      /\ \A d \in Known(c) : vmap'[a] = d <=> a \in ManagedAddrs(world[d])
  BY DEF Applied, Known
<1> QED
  BY <1>1, <1>2

\* With somebody outside, packets of a connection that c opens, or the replies of one
\* that it is sent.
LEMMA LeavingAfter ==
    ASSUME NEW c, Applied(c), NEW q \in Packets, q.st = "est", vmap'[q.src] = c, vmap'[q.dst] = None
    PROVE  Passes(q)' <=> OutGrantedIn(c, q, PeerNets, Known(c)) \/ InGranted(c, Reply(q))
<1>1. PacketOK(q) /\ Succeeds(c) /\ Sound(c)
  BY AlongIs, PartsAre DEF Applied
<1>2. q.src \in ManagedAddrs(world[c]) /\ \A d \in Known(c) : q.dst \notin ManagedAddrs(world[d])
  BY <1>1, AddressesAfter DEF PacketOK
<1>3. q.dst \notin ManagedAddrs(world[c])
  BY <1>1, <1>2 DEF Known
<1>4. ~Hits(Inbound(c).rules, c, q)
  BY <1>1, <1>2, <1>3, InboundHits
<1>5. ~InGranted(c, q)
  BY <1>1, <1>3, MappingIs
<1>6. ~OutGrantedIn(c, Reply(q), PeerNets, Known(c))
  BY <1>1, <1>3, GrantFrom, ReplyOK
<1>7. Hits(Outbound(c), c, q) <=> OutGrantedIn(c, q, PeerNets, Known(c))
  BY <1>1, <1>6, EstablishedOut
<1> QED
  BY <1>1, <1>4, <1>5, <1>7, EstablishedFate

LEMMA EnteringAfter ==
    ASSUME NEW c, Applied(c), NEW q \in Packets, q.st = "est", vmap'[q.src] = None, vmap'[q.dst] = c
    PROVE  Passes(q)' <=> InGranted(c, q) \/ OutGrantedIn(c, Reply(q), PeerNets, Known(c))
<1>1. PacketOK(q) /\ PacketOK(Reply(q)) /\ Succeeds(c) /\ Sound(c)
  BY AlongIs, PartsAre DEF Applied
<1>2. \A d \in Known(c) : q.src \notin ManagedAddrs(world[d])
  BY <1>1, AddressesAfter DEF PacketOK
<1>3. q.src \notin ManagedAddrs(world[c])
  BY <1>1, <1>2 DEF Known
<1>4. ~Hits(Inbound(c).rules, c, q)
  BY <1>1, <1>3, InboundHits
<1>5. ~InGranted(c, Reply(q))
  BY <1>1, <1>3, MappingIs, ReplyOK
<1>6. ~OutGrantedIn(c, q, PeerNets, Known(c))
  BY <1>1, <1>3, GrantFrom
<1>7. Known(c) \subseteq DOMAIN world
  BY <1>1, TableOK DEF Succeeds
<1>8. ASSUME OutGrantedIn(c, Reply(q), PeerNets, Known(c))
      PROVE  \E P \in ToSet(Populated(c)) : EstAt(c, P) = c /\ OutCovers(c, P, Reply(q), Known(c), Scope(c), Peers)
  <2>1. PICK P \in ToSet(Populated(c)) : OutCovers(c, P, Reply(q), Known(c), Scope(c), Peers)
    BY <1>1, <1>7, <1>8, OutGrantedIs
  <2>2. ~ToPeer(P)
    BY <1>1, <1>2, <1>7, <2>1, PeerAddr, ReplyOK
  <2> QED
    BY <2>1, <2>2 DEF EstAt
<1>9. Hits(Outbound(c), c, q) <=> OutGrantedIn(c, Reply(q), PeerNets, Known(c))
  BY <1>1, <1>6, <1>8, EstablishedOut
<1> QED
  BY <1>1, <1>4, <1>5, <1>9, EstablishedFate

\* A packet along a connection that c may open to a named peer.
LEMMA PeerCovered ==
    ASSUME NEW c, Sound(c), NEW known, known \subseteq DOMAIN world, NEW r \in OutputOf(c), Names(r) # {}, NEW q,
           Carries(r, q), SentToIn(c, r, q, PeerNets, known)
    PROVE  \E P \in ToSet(Populated(c)) :
             /\ ToPeer(P)
             /\ \A p : Along(p, q) => OutCovers(c, P, p, known, Scope(c), Peers)
<1>1. PICK n \in DOMAIN PeerNets[c], d \in running \cap known :
        /\ PeerNets[c][n].addr = q.src
        /\ \E m \in DOMAIN PeerNets[d], name \in Names(r) :
             BearsBest(d, name, c) /\ SharedNet(r, c, n, d, m, PeerNets) /\ PeerNets[d][m].addr = q.dst
  BY DEF SentToIn
<1>2. PICK m \in DOMAIN PeerNets[d], name \in Names(r) :
             BearsBest(d, name, c) /\ SharedNet(r, c, n, d, m, PeerNets) /\ PeerNets[d][m].addr = q.dst
  BY <1>1
<1>3. PICK P \in ToSet(Populated(c)) : From(P.rule, r) /\ P.rule.container = name
  BY PopulatedHolds
<1>4. ToPeer(P)
  BY <1>3 DEF From, ToPeer
<1>5. ASSUME NEW p, Along(p, q)
      PROVE  OutCovers(c, P, p, known, Scope(c), Peers)
  <2>1. Carries(r, p) /\ PeerNets[c][n].addr = p.src /\ PeerNets[d][m].addr = p.dst
    BY <1>1, <1>2, <1>5 DEF Along, Carries
  <2> QED
    BY <1>1, <1>2, <1>3, <2>1, NamedCovers
<1> QED
  BY <1>4, <1>5

\* With a named peer, in the chains of both.
LEMMA PeerAfter ==
    ASSUME NEW c, Applied(c), NEW q \in Packets, vmap'[q.src] = c, vmap'[q.dst] \notin {c, None},
           NEW r \in OutputOf(c), Names(r) # {}, Carries(r, q), SentToIn(c, r, q, PeerNets, Known(c))
    PROVE  Passes(Follow(q))' /\ Passes(Reply(q))'
<1>1. /\ PacketOK(q) /\ PacketOK(Follow(q)) /\ Along(Follow(q), q) /\ PacketOK(Reply(q)) /\ Along(Reply(Reply(q)), q)
      /\ Succeeds(c) /\ Sound(c) /\ Known(c) \subseteq DOMAIN world
  BY AlongIs, PartsAre, TableOK DEF Applied, Succeeds
<1>2. PICK P \in ToSet(Populated(c)) : /\ ToPeer(P)
                                       /\ \A p : Along(p, q) => OutCovers(c, P, p, Known(c), Scope(c), Peers)
  BY <1>1, PeerCovered
<1>3. /\ OutCovers(c, P, Follow(q), Known(c), Scope(c), Peers)
      /\ OutCovers(c, P, Reply(Reply(q)), Known(c), Scope(c), Peers)
  BY <1>1, <1>2
<1>4. \A p, x : PacketOK(p) =>
        (Hits(Outbound(c), x, p) <=> \E Q \in ToSet(Populated(c)) :
           \/ x = c /\ OutCovers(c, Q, p, Known(c), Scope(c), Peers)
           \/ x = EstAt(c, Q) /\ p.st = "est" /\ OutCovers(c, Q, Reply(p), Known(c), Scope(c), Peers))
  BY <1>1, OutboundHolds DEF Outbound
<1>5. Passes(Follow(q))'
  <2>1. Follow(q).src = q.src /\ Follow(q).st = "est"
    BY <1>1 DEF Along
  <2>2. Hits(Outbound(c), c, Follow(q))
    BY <1>1, <1>3, <1>4
  <2> QED
    BY <1>1, <2>1, <2>2, EstablishedFate
<1>6. Passes(Reply(q))'
  <2> DEFINE d == P.peer
             R == Result(c).rules
             s == In(R, d)
             t == NotTagged(chain[d], c)
  <2>1. d \in Known(c) /\ q.dst \in ManagedAddrs(world[d])
    BY <1>1, <1>2, <1>3, PeerAddr DEF Along
  <2>2. vmap'[q.dst] = d /\ d # c /\ d # None
    BY <1>1, <2>1, AddressesAfter DEF PacketOK
  <2>3. Hits(Outbound(c), d, Reply(q))
    <3>1. EstAt(c, P) = d /\ Reply(q).st = "est"
      BY <1>1, <1>2, ReplyOK DEF EstAt
    <3> QED
      BY <1>1, <1>3, <1>4, <3>1
  <2>4. Hits(R, d, Reply(q))
    BY <1>1, <2>3, RulesParts
  <2>5. d \in Ids /\ d # "whalewall"
    BY <1>1, <2>1, Described DEF Sound
  <2>6. chain'[d] = s \o t
    BY <2>2, <2>5 DEF Applied, Policies
  <2>7. IsSequence(R) /\ IsSequence(chain[d])
    BY <1>1, <2>5, RulesParts DEF Succeeds, IInv, ChainsOK, ChainOK
  <2>8. IsSequence(s) /\ ToSet(s) = {e \in ToSet(R) : e.chain = d} /\ IsSequence(t)
    BY <2>7, InHolds, NotTaggedHolds
  <2>9. \A e \in ToSet(s) : ~e.drop
    <3>1. \A e \in ToSet(Inbound(c).rules) \cup ToSet(Outbound(c)) : ~e.drop
      BY <1>1, PartsAre
    <3>2. \A e \in ToSet(Mapping(c).rules) : e.chain \in {c, "whalewall"}
      BY <1>1, PartsAre DEF PortPart
    <3> QED
      BY <1>1, <2>2, <2>5, <2>8, <3>1, <3>2, RulesParts
  <2>10. \E e \in ToSet(s) : Match(e, Reply(q))
    BY <2>4, <2>8 DEF Hits
  <2> HIDE DEF s, t, R
  <2>11. ~Drops(chain'[d], Reply(q))
    BY <2>6, <2>8, <2>9, <2>10, HeadAllows
  <2>12. vmap'[Reply(q).src] = d
    BY <1>1, <2>2, ReplyOK
  <2> QED
    BY <2>2, <2>11, <2>12 DEF Passes
<1> QED
  BY <1>5, <1>6

\* After a create packets of an established connection pass, in both directions,
\* exactly where the connection may be opened in one; with a named peer the replies
\* pass in the peer's chain too, whatever that chain holds (createNFTRules,
\* replaceContainerPolicy).
THEOREM RepliesDoFollow == Spec => []RepliesFollow
<1> DEFINE Granted(c, q) == IF vmap[q.src] = c THEN OutGranted(c, q, PeerNets) ELSE InGranted(c, q)
           Est(c, p) == p.st = "est" /\ {vmap[p.src], vmap[p.dst]} = {c, None} =>
                          (Passes(p) <=> Granted(c, p) \/ Granted(c, Reply(p)))
           Named(c, p) == (/\ p.st = "new" /\ vmap[p.src] = c /\ vmap[p.dst] \notin {c, None}
                           /\ \E r \in OutputOf(c) : Names(r) # {} /\ Carries(r, p) /\ SentTo(c, r, p, PeerNets)) =>
                          Passes(Follow(p)) /\ Passes(Reply(p))
           Fact(c) == Just(c, "applied") => \A p \in Packets : Est(c, p) /\ Named(c, p)
           P == \A c \in DOMAIN world : Fact(c)
<1>1. Init => P
  BY NoCreateYet
<1>2. IInv /\ P /\ [Next]_vars => P'
  <2> SUFFICES ASSUME IInv, P, [Next]_vars PROVE P'
    OBVIOUS
  <2>1. CASE UNCHANGED vars
    <3>1. world' = world /\ running' = running /\ vmap' = vmap
      BY <2>1 DEF vars
    <3>2. \A c : PeerNets' = PeerNets /\ OutputOf(c)' = OutputOf(c) /\ \A p : InGranted(c, p)' <=> InGranted(c, p)
      BY <3>1, GrantKept
    <3>3. ASSUME NEW c \in DOMAIN world PROVE Fact(c)'
      <4> SUFFICES ASSUME Just(c, "applied")', NEW p \in Packets PROVE Est(c, p)' /\ Named(c, p)'
        OBVIOUS
      <4>1. Est(c, p) /\ Named(c, p)
        BY <2>1, Still
      <4>2. \A q : Granted(c, q)' <=> Granted(c, q)
        BY <2>1, <3>1, <3>2, Still
      <4>3. Est(c, p)'
        <5> HIDE DEF Granted
        <5> QED
          BY <2>1, <3>1, <4>1, <4>2, Still
      <4>4. Named(c, p)'
        BY <2>1, <3>1, <3>2, <4>1, Still
      <4> QED
        BY <4>3, <4>4
    <3> HIDE DEF Fact
    <3> QED
      BY <3>1, <3>3
  <2>2. CASE Next
    <3>1. world' = world
      BY <2>2 DEF Next, createContainerRules, Create, deleteContainerRules, start, die
    <3>2. ASSUME NEW c \in DOMAIN world PROVE Fact(c)'
      <4> SUFFICES ASSUME Just(c, "applied")', NEW p \in Packets PROVE Est(c, p)' /\ Named(c, p)'
        OBVIOUS
      <4>1. Applied(c)
        BY <2>2, AppliedIs
      <4>2. world' = world /\ running' = running /\ rows' = Known(c) /\ c # None
        BY <4>1 DEF Applied
      <4>3. PeerNets' = PeerNets /\ OutputOf(c)' = OutputOf(c)
        BY <4>2, GrantKept
      <4>4. \A q : (OutGranted(c, q, PeerNets)' <=> OutGrantedIn(c, q, PeerNets, Known(c))) /\ (InGranted(c, q)' <=> InGranted(c, q))
        BY <4>2, <4>3, GrantKept
      <4>5. \A r : SentTo(c, r, p, PeerNets)' <=> SentToIn(c, r, p, PeerNets, Known(c))
        BY <4>2, <4>3, GrantKept
      <4>6. Reply(p).src = p.dst /\ Reply(p).dst = p.src
        BY AlongIs, ReplyOK
      <4>7. Est(c, p)'
        <5> SUFFICES ASSUME p.st = "est", {vmap'[p.src], vmap'[p.dst]} = {c, None}
                     PROVE  Passes(p)' <=> Granted(c, p)' \/ Granted(c, Reply(p))'
          OBVIOUS
        <5>1. CASE vmap'[p.src] = c /\ vmap'[p.dst] = None
          <6>1. Passes(p)' <=> OutGrantedIn(c, p, PeerNets, Known(c)) \/ InGranted(c, Reply(p))
            BY <4>1, <5>1, LeavingAfter
          <6>2. Granted(c, p)' <=> OutGrantedIn(c, p, PeerNets, Known(c))
            BY <4>4, <5>1
          <6>3. Granted(c, Reply(p))' <=> InGranted(c, Reply(p))
            BY <4>2, <4>4, <4>6, <5>1
          <6> QED
            BY <6>1, <6>2, <6>3
        <5>2. CASE vmap'[p.src] = None /\ vmap'[p.dst] = c
          <6>1. Passes(p)' <=> InGranted(c, p) \/ OutGrantedIn(c, Reply(p), PeerNets, Known(c))
            BY <4>1, <5>2, EnteringAfter
          <6>2. Granted(c, p)' <=> InGranted(c, p)
            BY <4>2, <4>4, <5>2
          <6>3. Granted(c, Reply(p))' <=> OutGrantedIn(c, Reply(p), PeerNets, Known(c))
            BY <4>4, <4>6, <5>2
          <6> QED
            BY <6>1, <6>2, <6>3
        <5> QED
          BY <5>1, <5>2, <4>2
      <4>8. Named(c, p)'
        <5> SUFFICES ASSUME vmap'[p.src] = c, vmap'[p.dst] \notin {c, None},
                            NEW r \in OutputOf(c)', Names(r) # {}, Carries(r, p), SentTo(c, r, p, PeerNets)'
                     PROVE  Passes(Follow(p))' /\ Passes(Reply(p))'
          OBVIOUS
        <5> QED
          BY <4>1, <4>3, <4>5, PeerAfter
      <4> QED
        BY <4>7, <4>8
    <3> HIDE DEF Fact
    <3> QED
      BY <3>1, <3>2
  <2> QED
    BY <2>1, <2>2
<1>3. P => RepliesFollow
  BY DEF RepliesFollow
<1> QED
  BY <1>1, <1>2, <1>3, Invariant, PTL DEF Spec
=============================================================================
