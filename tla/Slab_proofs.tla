----------------------------- MODULE Slab_proofs -----------------------------
(***************************************************************************)
(* What holds of the slab allocator for any classes, clients and sizes.    *)
(* The layout is computed by recursive functions; what they compute is     *)
(* shown with Descent: a set of numbers that holds with each number the    *)
(* one before it is empty.                                                 *)
(***************************************************************************)
EXTENDS Slab, FiniteSetTheorems, SequenceTheorems, WellFoundedInduction, TLAPS

-----------------------------------------------------------------------------
(* What append, unlinking the head and unlinking an element do to a list.   *)

LEMMA AppendFacts ==
    ASSUME NEW S, NEW s \in Seq(S), NEW e \in S
    PROVE  /\ Append(s, e) \in Seq(S)
           /\ Len(Append(s, e)) = Len(s) + 1
           /\ \A i \in 1..Len(s) : Append(s, e)[i] = s[i]
           /\ Append(s, e)[Len(s) + 1] = e
OBVIOUS

LEMMA TailFacts ==
    ASSUME NEW S, NEW s \in Seq(S), s # <<>>
    PROVE  /\ Head(s) \in S /\ Head(s) = s[1]
           /\ Tail(s) \in Seq(S)
           /\ Len(s) \in Nat \ {0} /\ Len(Tail(s)) = Len(s) - 1
           /\ \A i \in 1..(Len(s) - 1) : Tail(s)[i] = s[i + 1]
OBVIOUS

LEMMA RemoveFacts ==
    ASSUME NEW S, NEW s \in Seq(S), NEW k \in 1..Len(s)
    PROVE  /\ RemoveAt(s, k) \in Seq(S)
           /\ Len(s) \in Nat \ {0} /\ Len(RemoveAt(s, k)) = Len(s) - 1
           /\ \A i \in 1..(Len(s) - 1) : RemoveAt(s, k)[i] = IF i < k THEN s[i] ELSE s[i + 1]
<1> DEFINE a == SubSeq(s, 1, k - 1)
           b == SubSeq(s, k + 1, Len(s))
<1>1. Len(s) \in Nat \ {0} /\ k \in Nat \ {0} /\ k <= Len(s)
  OBVIOUS
<1>2. a \in Seq(S) /\ Len(a) = k - 1 /\ \A i \in 1..(k - 1) : a[i] = s[i]
  BY <1>1
<1>3. b \in Seq(S) /\ Len(b) = Len(s) - k /\ \A i \in 1..(Len(s) - k) : b[i] = s[i + k]
  BY <1>1
<1> HIDE DEF a, b
<1>4. a \o b \in Seq(S) /\ Len(a \o b) = Len(s) - 1
  <2>1. a \o b \in Seq(S) /\ Len(a \o b) = Len(a) + Len(b)
    BY <1>2, <1>3, ConcatProperties
  <2> QED
    BY <1>1, <1>2, <1>3, <2>1
<1>5. ASSUME NEW i \in 1..(Len(s) - 1) PROVE (a \o b)[i] = IF i < k THEN s[i] ELSE s[i + 1]
  <2>1. CASE i < k
    BY <1>1, <1>2, <1>3, <2>1
  <2>2. CASE ~(i < k)
    <3>1. (a \o b)[i] = b[i - (k - 1)]
      BY <1>1, <1>2, <1>3, <2>2
    <3>2. i - (k - 1) \in 1..(Len(s) - k)
      BY <1>1, <2>2
    <3>3. b[i - (k - 1)] = s[(i - (k - 1)) + k]
      BY <1>3, <3>2
    <3>4. (i - (k - 1)) + k = i + 1
      BY <1>1
    <3> QED
      BY <2>2, <3>1, <3>3, <3>4
  <2> QED
    BY <2>1, <2>2
<1>6. RemoveAt(s, k) = a \o b
  BY DEF RemoveAt, a, b
<1> QED
  BY <1>1, <1>4, <1>5, <1>6

-----------------------------------------------------------------------------
(* The same operations as sets, on sequences that repeat nothing.          *)

LEMMA Members ==
    ASSUME NEW S, NEW s \in Seq(S), NEW e
    PROVE  /\ e \in ToSet(s) <=> \E i \in 1..Len(s) : s[i] = e
           /\ IsInjective(s) <=> \A i, j \in 1..Len(s) : s[i] = s[j] => i = j
BY DEF ToSet, IsInjective

LEMMA AppendSet ==
    ASSUME NEW S, NEW s \in Seq(S), NEW e \in S, IsInjective(s), e \notin ToSet(s)
    PROVE  IsInjective(Append(s, e)) /\ ToSet(Append(s, e)) = ToSet(s) \cup {e}
<1> DEFINE t == Append(s, e)
<1>1. t \in Seq(S) /\ Len(t) = Len(s) + 1 /\ t[Len(s) + 1] = e /\ Len(s) \in Nat
      /\ \A i \in 1..Len(s) : t[i] = s[i]
  BY AppendFacts
<1> HIDE DEF t
<1>2. \A i \in 1..Len(s) : s[i] # e
  BY Members
<1>3. \A i, j \in 1..Len(s) : s[i] = s[j] => i = j
  BY Members
<1>4. \A i, j \in 1..Len(t) : t[i] = t[j] => i = j
  BY <1>1, <1>2, <1>3
<1>5. ASSUME NEW x PROVE x \in ToSet(t) <=> x \in ToSet(s) \/ x = e
  <2>1. x \in ToSet(t) <=> \E i \in 1..Len(t) : t[i] = x
    BY <1>1, Members
  <2>2. x \in ToSet(s) <=> \E i \in 1..Len(s) : s[i] = x
    BY Members
  <2> QED
    BY <1>1, <2>1, <2>2
<1>6. ToSet(t) = ToSet(s) \cup {e}
  BY <1>5
<1> QED
  BY <1>1, <1>4, <1>6, Members DEF t

LEMMA RemoveSet ==
    ASSUME NEW S, NEW s \in Seq(S), NEW k \in 1..Len(s), IsInjective(s)
    PROVE  IsInjective(RemoveAt(s, k)) /\ ToSet(RemoveAt(s, k)) = ToSet(s) \ {s[k]}
<1> DEFINE t == RemoveAt(s, k)
<1>1. t \in Seq(S) /\ Len(s) \in Nat \ {0} /\ Len(t) = Len(s) - 1
      /\ \A i \in 1..(Len(s) - 1) : t[i] = IF i < k THEN s[i] ELSE s[i + 1]
  BY RemoveFacts
<1> HIDE DEF t
<1>2. \A i, j \in 1..Len(s) : s[i] = s[j] => i = j
  BY Members
<1>3. ASSUME NEW i \in 1..Len(t), NEW j \in 1..Len(t), t[i] = t[j] PROVE i = j
  <2> DEFINE Old(n) == IF n < k THEN n ELSE n + 1
  <2>1. ASSUME NEW n \in 1..Len(t) PROVE Old(n) \in 1..Len(s) /\ t[n] = s[Old(n)]
    BY <1>1
  <2>2. Old(i) = Old(j)
    <3>1. Old(i) \in 1..Len(s) /\ Old(j) \in 1..Len(s) /\ s[Old(i)] = s[Old(j)]
      BY <1>3, <2>1
    <3> HIDE DEF Old
    <3> QED
      BY <1>2, <3>1
  <2> QED
    BY <1>1, <2>2
<1>4. ASSUME NEW x PROVE x \in ToSet(t) <=> x \in ToSet(s) /\ x # s[k]
  <2>1. x \in ToSet(t) <=> \E i \in 1..Len(t) : t[i] = x
    BY <1>1, Members
  <2>2. x \in ToSet(s) <=> \E i \in 1..Len(s) : s[i] = x
    BY Members
  <2>3. ASSUME NEW i \in 1..Len(t), t[i] = x PROVE x \in ToSet(s) /\ x # s[k]
    <3>1. \E a \in 1..Len(s) : t[i] = s[a] /\ a # k
      <4>1. CASE i < k
        BY <1>1, <4>1
      <4>2. CASE ~(i < k)
        <5>1. i + 1 \in 1..Len(s) /\ i + 1 # k /\ t[i] = s[i + 1]
          BY <1>1, <4>2
        <5> QED
          BY <5>1
      <4> QED
        BY <4>1, <4>2
    <3> QED
      BY <1>2, <2>2, <2>3, <3>1
  <2>4. ASSUME NEW a \in 1..Len(s), s[a] = x, x # s[k] PROVE \E i \in 1..Len(t) : t[i] = x
    <3>1. CASE a < k
      <4>1. a \in 1..Len(t) /\ t[a] = s[a]
        BY <1>1, <3>1
      <4> QED
        BY <2>4, <4>1
    <3>2. CASE a > k
      <4>1. a - 1 \in 1..Len(t) /\ ~(a - 1 < k) /\ (a - 1) + 1 = a
        BY <1>1, <3>2
      <4>2. t[a - 1] = s[a]
        BY <1>1, <4>1
      <4> QED
        BY <2>4, <4>1, <4>2
    <3> QED
      BY <2>4, <3>1, <3>2
  <2> QED
    BY <2>1, <2>2, <2>3, <2>4
<1>5. ToSet(t) = ToSet(s) \ {s[k]}
  BY <1>4
<1> QED
  BY <1>1, <1>3, <1>5, Members DEF t

LEMMA TailIsRemove ==
    ASSUME NEW S, NEW s \in Seq(S), s # <<>>
    PROVE  1 \in 1..Len(s) /\ Tail(s) = RemoveAt(s, 1) /\ Head(s) = s[1]
<1>1. 1 \in 1..Len(s) /\ Head(s) = s[1]
  BY TailFacts
<1>2. Tail(s) \in Seq(S) /\ RemoveAt(s, 1) \in Seq(S) /\ Len(Tail(s)) = Len(RemoveAt(s, 1))
  BY <1>1, TailFacts, RemoveFacts
<1>3. \A i \in 1..Len(Tail(s)) : Tail(s)[i] = RemoveAt(s, 1)[i]
  BY <1>1, TailFacts, RemoveFacts
<1> QED
  BY <1>1, <1>2, <1>3

-----------------------------------------------------------------------------
(* Least numbers, and functions that are defined step by step.             *)

LEMMA Least ==
    ASSUME NEW T, T \subseteq Nat, T # {}
    PROVE  \E n \in T : \A m \in T : n <= m
<1> DEFINE R == {p \in Nat \X Nat : p[1] < p[2]}
<1>1. R = OpToRel(<, Nat)
  BY DEF OpToRel
<1>2. IsWellFoundedOn(R, Nat)
  BY NatLessThanWellFounded, <1>1
<1>3. \A m, n \in Nat : m < n => <<m, n>> \in R
  OBVIOUS
<1> HIDE DEF R
<1>4. PICK n \in T : \A m \in T : ~(<<m, n>> \in R)
  BY <1>2, WFMin
<1>5. ASSUME NEW m \in T PROVE n <= m
  <2>1. m \in Nat /\ n \in Nat
    OBVIOUS
  <2>2. ~(m < n)
    BY <1>3, <1>4, <2>1
  <2> QED
    BY <2>1, <2>2
<1> QED
  BY <1>5

\* f starts with a, and step i takes it on by G[i].
Follows(f, n, a, G) == f[0] = a /\ \A i \in 1..n : f[i] = G[i][f[i - 1]]

LEMMA Descent ==
    ASSUME NEW T, T \subseteq Nat, \A i \in T : i - 1 \in T
    PROVE  T = {}
<1> SUFFICES ASSUME T # {} PROVE FALSE
  OBVIOUS
<1>1. PICK i \in T : \A k \in T : i <= k
  BY Least
<1>2. i - 1 \in T /\ i \in Nat
  OBVIOUS
<1> QED
  BY <1>1, <1>2

LEMMA StepsExist ==
    ASSUME NEW S, NEW n \in Nat, NEW a \in S, NEW G \in [1..n -> [S -> S]]
    PROVE  \E f \in [0..n -> S] : Follows(f, n, a, G)
<1> DEFINE Runs(m, f) == f[0] = a /\ \A i \in 1..m : f[i] = G[i][f[i - 1]]
           T == {m \in 0..n : ~ \E f \in [0..m -> S] : Runs(m, f)}
<1>1. 0 \notin T
  <2>1. [i \in 0..0 |-> a] \in [0..0 -> S] /\ Runs(0, [i \in 0..0 |-> a])
    OBVIOUS
  <2> QED
    BY <2>1
<1>2. ASSUME NEW m \in T, m # 0, m - 1 \notin T PROVE FALSE
  <2>1. m \in 1..n /\ m - 1 \in 0..n
    BY <1>2
  <2>2. PICK f \in [0..(m - 1) -> S] : Runs(m - 1, f)
    BY <1>2, <2>1
  <2> DEFINE g == [i \in 0..m |-> IF i = m THEN G[m][f[m - 1]] ELSE f[i]]
  <2>3. m - 1 \in 0..(m - 1) /\ f[m - 1] \in S
    BY <2>1
  <2>4. G[m][f[m - 1]] \in S
    BY <2>1, <2>3
  <2>5. g \in [0..m -> S]
    BY <2>1, <2>4
  <2>6. ASSUME NEW i \in 1..m PROVE g[i] = G[i][g[i - 1]]
    <3>1. i - 1 \in 0..m /\ i - 1 # m /\ i \in 0..m
      BY <2>1
    <3>2. CASE i = m
      BY <3>1, <3>2
    <3>3. CASE i # m
      <4>1. i \in 1..(m - 1)
        BY <2>1, <3>3
      <4>2. f[i] = G[i][f[i - 1]]
        BY <2>2, <4>1
      <4> QED
        BY <3>1, <3>3, <4>2
    <3> QED
      BY <3>2, <3>3
  <2>7. g[0] = a
    BY <2>1, <2>2
  <2>8. Runs(m, g)
    BY <2>6, <2>7
  <2> HIDE DEF g
  <2> QED
    BY <2>5, <2>8
<1> HIDE DEF Runs
<1>3. T = {}
  <2>1. T \subseteq Nat
    OBVIOUS
  <2> HIDE DEF T
  <2>2. \A m \in T : m - 1 \in T
    BY <1>1, <1>2
  <2> QED
    BY <2>1, <2>2, Descent
<1>4. n \notin T /\ n \in 0..n
  BY <1>3
<1> QED
  BY <1>4 DEF Runs, Follows

LEMMA UnitSizeStep == UnitSize = [i \in Classes |-> IF i = 1 THEN SLAB_UNIT_SIZE ELSE 2 * UnitSize[i - 1]]
<1> DEFINE S == Nat \ {0}
           n == SLAB_MAX - 1
           G == [i \in 1..n |-> [x \in S |-> 2 * x]]
<1>1. n \in Nat /\ SLAB_UNIT_SIZE \in S /\ G \in [1..n -> [S -> S]]
  BY SlabAssumption
<1> HIDE DEF S, G
<1> HIDE DEF n
<1>2. PICK f \in [0..n -> S] : Follows(f, n, SLAB_UNIT_SIZE, G)
  BY <1>1, StepsExist
<1> USE DEF n, Follows
<1> DEFINE h == [i \in Classes |-> f[i - 1]]
<1>3. ASSUME NEW i \in Classes PROVE h[i] = IF i = 1 THEN SLAB_UNIT_SIZE ELSE 2 * h[i - 1]
  <2>1. CASE i = 1
    BY <1>2, <2>1
  <2>2. CASE i # 1
    <3>1. i - 1 \in Classes /\ i - 1 \in 1..n /\ (i - 1) - 1 \in 0..n
      BY <2>2, SlabAssumption DEF Classes
    <3>2. f[i - 1] = G[i - 1][f[(i - 1) - 1]] /\ f[(i - 1) - 1] \in S
      BY <1>2, <3>1
    <3>3. f[i - 1] = 2 * f[(i - 1) - 1]
      BY <3>1, <3>2 DEF G
    <3> QED
      BY <2>2, <3>1, <3>3
  <2> QED
    BY <2>1, <2>2
<1>4. h = [i \in Classes |-> IF i = 1 THEN SLAB_UNIT_SIZE ELSE 2 * h[i - 1]]
  BY <1>3
<1> HIDE DEF h
<1> QED
  BY <1>4 DEF UnitSize

LEMMA UnitSizeFacts ==
    /\ UnitSize \in [Classes -> Nat \ {0}]
    /\ \A i \in Classes : UnitSize[i] = IF i = 1 THEN SLAB_UNIT_SIZE ELSE 2 * UnitSize[i - 1]
<1> DEFINE T == {i \in Classes : UnitSize[i] \notin Nat \ {0}}
<1>1. \A i \in Classes : UnitSize[i] = IF i = 1 THEN SLAB_UNIT_SIZE ELSE 2 * UnitSize[i - 1]
  BY UnitSizeStep
<1>2. T \subseteq Nat
  BY SlabAssumption DEF Classes
<1>3. ASSUME NEW i \in T, i - 1 \notin T PROVE FALSE
  <2>1. CASE i = 1
    BY <1>1, <1>3, <2>1, SlabAssumption
  <2>2. CASE i # 1
    <3>1. i - 1 \in Classes
      BY <1>3, <2>2, SlabAssumption DEF Classes
    <3>2. UnitSize[i - 1] \in Nat \ {0} /\ UnitSize[i] = 2 * UnitSize[i - 1]
      BY <1>1, <1>3, <2>2, <3>1
    <3> QED
      BY <1>3, <3>2
  <2> QED
    BY <2>1, <2>2
<1> HIDE DEF T
<1>4. T = {}
  BY <1>2, <1>3, Descent
<1>5. UnitSize = [i \in Classes |-> UnitSize[i]]
  BY UnitSizeStep
<1> QED
  BY <1>1, <1>4, <1>5 DEF T

\* The running sums of slab_create: what is added may be any function.
LEMMA SumsExist ==
    ASSUME NEW n \in Nat, NEW add \in [1..n -> Nat]
    PROVE  \E F : F = [i \in 0..n |-> IF i = 0 THEN 0 ELSE F[i - 1] + add[i]]
<1> DEFINE G == [i \in 1..n |-> [x \in Nat |-> x + add[i]]]
<1>1. G \in [1..n -> [Nat -> Nat]]
  OBVIOUS
<1>2. \A i \in 1..n, x \in Nat : G[i][x] = x + add[i]
  OBVIOUS
<1> HIDE DEF G
<1>3. PICK F \in [0..n -> Nat] : Follows(F, n, 0, G)
  BY <1>1, StepsExist
<1>4. ASSUME NEW i \in 0..n PROVE F[i] = IF i = 0 THEN 0 ELSE F[i - 1] + add[i]
  <2>1. CASE i = 0
    BY <1>3, <2>1 DEF Follows
  <2>2. CASE i # 0
    <3>1. i \in 1..n /\ F[i - 1] \in Nat
      BY <2>2
    <3>2. F[i] = G[i][F[i - 1]]
      BY <1>3, <3>1 DEF Follows
    <3> QED
      BY <1>2, <2>2, <3>1, <3>2
  <2> QED
    BY <2>1, <2>2
<1>5. F = [i \in 0..n |-> IF i = 0 THEN 0 ELSE F[i - 1] + add[i]]
  BY <1>4
<1> QED
  BY <1>5

LEMMA SumFacts ==
    ASSUME NEW n \in Nat, NEW add \in [1..n -> Nat \ {0}],
           NEW F, F = [i \in 0..n |-> IF i = 0 THEN 0 ELSE F[i - 1] + add[i]]
    PROVE  /\ F \in [0..n -> Nat] /\ F[0] = 0
           /\ \A i \in 1..n : F[i] = F[i - 1] + add[i]
           /\ \A i, j \in 0..n : i < j => F[i] < F[j]
<1>1. F[0] = 0 /\ \A i \in 1..n : F[i] = F[i - 1] + add[i]
  OBVIOUS
<1>2. \A i \in 0..n : F[i] \in Nat
  <2> DEFINE T == {i \in 0..n : F[i] \notin Nat}
  <2>1. ASSUME NEW i \in T, i - 1 \notin T PROVE FALSE
    <3>1. i \in 1..n /\ F[i - 1] \in Nat
      BY <1>1, <2>1
    <3>2. F[i] = F[i - 1] + add[i] /\ add[i] \in Nat
      BY <1>1, <3>1
    <3> QED
      BY <2>1, <3>1, <3>2
  <2>2. T \subseteq Nat
    OBVIOUS
  <2> HIDE DEF T
  <2>3. T = {}
    BY <2>1, <2>2, Descent
  <2> QED
    BY <2>3 DEF T
<1>3. ASSUME NEW i \in 0..n PROVE \A j \in 0..n : i < j => F[i] < F[j]
  <2> DEFINE T == {j \in 0..n : i < j /\ ~(F[i] < F[j])}
  <2>1. ASSUME NEW j \in T, j - 1 \notin T PROVE FALSE
    <3>1. j \in 1..n /\ i <= j - 1 /\ j - 1 \in 0..n
      BY <2>1
    <3>2. F[j] = F[j - 1] + add[j] /\ add[j] \in Nat \ {0} /\ F[j - 1] \in Nat /\ F[j] \in Nat /\ F[i] \in Nat
      BY <1>1, <1>2, <3>1
    <3>3. F[i] <= F[j - 1]
      BY <1>2, <2>1, <3>1, <3>2
    <3> QED
      BY <2>1, <3>2, <3>3
  <2>2. T \subseteq Nat
    OBVIOUS
  <2> HIDE DEF T
  <2>3. T = {}
    BY <2>1, <2>2, Descent
  <2> QED
    BY <2>3 DEF T
<1>4. F = [i \in 0..n |-> F[i]]
  OBVIOUS
<1> QED
  BY <1>1, <1>2, <1>3, <1>4

LEMMA EndStep == End = [i \in 0..SLAB_MAX |-> IF i = 0 THEN 0 ELSE End[i - 1] + MaxNum[i] * UnitSize[i]]
<1> DEFINE add == [i \in 1..SLAB_MAX |-> MaxNum[i] * UnitSize[i]]
<1>1. SLAB_MAX \in Nat /\ add \in [1..SLAB_MAX -> Nat]
  BY SlabAssumption, UnitSizeFacts DEF Classes
<1>2. \A i \in 1..SLAB_MAX : add[i] = MaxNum[i] * UnitSize[i]
  OBVIOUS
<1> HIDE DEF add
<1>3. PICK F : F = [i \in 0..SLAB_MAX |-> IF i = 0 THEN 0 ELSE F[i - 1] + add[i]]
  BY <1>1, SumsExist
<1>4. ASSUME NEW i \in 0..SLAB_MAX PROVE F[i] = IF i = 0 THEN 0 ELSE F[i - 1] + MaxNum[i] * UnitSize[i]
  <2>1. F[i] = IF i = 0 THEN 0 ELSE F[i - 1] + add[i]
    BY <1>3
  <2>2. i # 0 => i \in 1..SLAB_MAX
    BY <1>1
  <2> QED
    BY <1>2, <2>1, <2>2
<1>5. F = [i \in 0..SLAB_MAX |-> IF i = 0 THEN 0 ELSE F[i - 1] + MaxNum[i] * UnitSize[i]]
  <2>1. F = [i \in 0..SLAB_MAX |-> F[i]]
    BY <1>3
  <2> QED
    BY <1>4, <2>1
<1> QED
  BY <1>5 DEF End

LEMMA UnitsStep == Units = [i \in 0..SLAB_MAX |-> IF i = 0 THEN 0 ELSE Units[i - 1] + MaxNum[i]]
<1>1. SLAB_MAX \in Nat /\ MaxNum \in [1..SLAB_MAX -> Nat]
  BY SlabAssumption DEF Classes
<1>2. PICK F : F = [i \in 0..SLAB_MAX |-> IF i = 0 THEN 0 ELSE F[i - 1] + MaxNum[i]]
  BY <1>1, SumsExist
<1> QED
  BY <1>2 DEF Units

LEMMA ProductFacts ==
    ASSUME NEW u \in Nat
    PROVE  /\ \A a \in Nat : a * u \in Nat /\ (a + 1) * u = a * u + u
           /\ \A a, b \in Nat : a < b => a * u + u <= b * u
           /\ 0 * u = 0 /\ 1 * u = u
<1>1. ASSUME NEW a \in Nat PROVE a * u \in Nat /\ (a + 1) * u = a * u + u
  OBVIOUS
<1>2. ASSUME NEW a \in Nat, NEW b \in Nat, a < b PROVE a * u + u <= b * u
  <2>1. PICK c \in Nat : b = (a + 1) + c
    <3>1. b - (a + 1) \in Nat /\ b = (a + 1) + (b - (a + 1))
      BY <1>2
    <3> QED
      BY <3>1
  <2>2. b * u = (a * u + u) + c * u
    BY <2>1
  <2>3. c * u \in Nat
    BY <1>1, <2>1
  <2> QED
    BY <1>1, <2>2, <2>3
<1> QED
  BY <1>1, <1>2

LEMMA EndFacts ==
    /\ End \in [0..SLAB_MAX -> Nat] /\ End[0] = 0
    /\ \A i \in Classes : End[i] = End[i - 1] + MaxNum[i] * UnitSize[i]
    /\ \A i, j \in 0..SLAB_MAX : i < j => End[i] < End[j]
<1> DEFINE add == [i \in 1..SLAB_MAX |-> MaxNum[i] * UnitSize[i]]
<1>1. ASSUME NEW i \in 1..SLAB_MAX PROVE MaxNum[i] * UnitSize[i] \in Nat \ {0}
  <2>1. MaxNum[i] \in Nat \ {0} /\ UnitSize[i] \in Nat \ {0}
    BY SlabAssumption, UnitSizeFacts DEF Classes
  <2> QED
    BY <2>1
<1>2. SLAB_MAX \in Nat /\ add \in [1..SLAB_MAX -> Nat \ {0}]
  BY <1>1, SlabAssumption
<1>3. \A i \in 1..SLAB_MAX : add[i] = MaxNum[i] * UnitSize[i]
  OBVIOUS
<1> HIDE DEF add
<1>4. End = [i \in 0..SLAB_MAX |-> IF i = 0 THEN 0 ELSE End[i - 1] + add[i]]
  <2>1. ASSUME NEW i \in 0..SLAB_MAX
        PROVE  (IF i = 0 THEN 0 ELSE End[i - 1] + MaxNum[i] * UnitSize[i]) = IF i = 0 THEN 0 ELSE End[i - 1] + add[i]
    <3>1. i # 0 => i \in 1..SLAB_MAX
      BY <1>2
    <3> QED
      BY <1>3, <3>1
  <2> QED
    BY <2>1, EndStep
<1>5. /\ End \in [0..SLAB_MAX -> Nat] /\ End[0] = 0
      /\ \A i \in 1..SLAB_MAX : End[i] = End[i - 1] + add[i]
      /\ \A i, j \in 0..SLAB_MAX : i < j => End[i] < End[j]
  BY <1>2, <1>4, SumFacts
<1> QED
  BY <1>3, <1>5 DEF Classes

LEMMA UnitsFacts ==
    /\ Units \in [0..SLAB_MAX -> Nat] /\ Units[0] = 0
    /\ \A i \in Classes : Units[i] = Units[i - 1] + MaxNum[i]
    /\ \A i, j \in 0..SLAB_MAX : i < j => Units[i] < Units[j]
<1>1. SLAB_MAX \in Nat /\ MaxNum \in [1..SLAB_MAX -> Nat \ {0}]
  BY SlabAssumption DEF Classes
<1> QED
  BY <1>1, UnitsStep, SumFacts DEF Classes

-----------------------------------------------------------------------------
(* The loop that places the units.                                         *)

\* The addresses of the first m units of class c.
FirstUnits(c, m) == [k \in 1..m |-> End[c - 1] + (k - 1) * UnitSize[c]]

\* What the loop has when it has placed m units of class c.
UpTo(c, m) ==
    [j      |-> c,
     count  |-> m,
     offset |-> End[c - 1] + m * UnitSize[c],
     free   |-> [d \in Classes |-> IF d < c THEN FirstUnits(d, MaxNum[d]) ELSE IF d = c THEN FirstUnits(c, m) ELSE <<>>]]

\* The body of the loop.
PlaceNext(p) ==
    LET j == IF p.count < MaxNum[p.j] THEN p.j ELSE p.j + 1
    IN  [j      |-> j,
         count  |-> IF p.count < MaxNum[p.j] THEN p.count + 1 ELSE 1,
         offset |-> p.offset + UnitSize[j],
         free   |-> [p.free EXCEPT ![j] = Append(@, p.offset)]]

\* n rounds have come to class c.
Reached(n, c) == IF n = 0 THEN c = 1 ELSE Units[c - 1] < n /\ n <= Units[c]

LEMMA ReachedExists == ASSUME NEW n \in 0..slab_max_num PROVE \E c \in Classes : Reached(n, c)
<1>0. SLAB_MAX \in Nat \ {0} /\ slab_max_num \in Nat
  BY SlabAssumption, UnitsFacts DEF slab_max_num
<1>1. CASE n = 0
  BY <1>0, <1>1 DEF Reached, Classes
<1>2. CASE n # 0
  <2> DEFINE T == {c \in Classes : n <= Units[c]}
  <2>1. T \subseteq Nat /\ SLAB_MAX \in T
    BY <1>0 DEF Classes, slab_max_num
  <2>2. PICK c \in T : \A d \in T : c <= d
    BY <2>1, Least
  <2>3. c \in Classes /\ c - 1 \in 0..SLAB_MAX /\ Units[c - 1] \in Nat
    BY <1>0, UnitsFacts DEF Classes
  <2>4. Units[c - 1] < n
    <3>1. CASE c = 1
      BY <1>2, <1>0, <3>1, UnitsFacts
    <3>2. CASE c # 1
      <4>1. c - 1 \in Classes /\ c - 1 \notin T
        BY <2>1, <2>2, <2>3, <3>2 DEF Classes
      <4> QED
        BY <1>0, <2>3, <4>1
    <3> QED
      BY <3>1, <3>2
  <2> QED
    BY <1>2, <2>3, <2>4 DEF Reached
<1> QED
  BY <1>1, <1>2

LEMMA ReachedUnique ==
    ASSUME NEW n \in 0..slab_max_num, NEW c \in Classes, NEW d \in Classes, Reached(n, c), Reached(n, d) PROVE c = d
<1>0. /\ SLAB_MAX \in Nat \ {0} /\ slab_max_num \in Nat /\ n \in Nat
      /\ \A e \in Classes : e \in Nat /\ e \in 0..SLAB_MAX /\ e - 1 \in 0..SLAB_MAX /\ Units[e] \in Nat /\ Units[e - 1] \in Nat
  <2>1. SLAB_MAX \in Nat \ {0} /\ SLAB_MAX \in 0..SLAB_MAX
    BY SlabAssumption
  <2>2. slab_max_num \in Nat
    BY <2>1, UnitsFacts DEF slab_max_num
  <2>3. \A e \in Classes : e \in Nat /\ e \in 0..SLAB_MAX /\ e - 1 \in 0..SLAB_MAX
    BY <2>1 DEF Classes
  <2> QED
    BY <2>1, <2>2, <2>3, UnitsFacts
<1>1. ASSUME NEW a \in Classes, NEW b \in Classes, Reached(n, a), Reached(n, b), a < b PROVE FALSE
  <2>1. n # 0
    BY <1>1 DEF Reached
  <2>2. Units[a] <= Units[b - 1]
    <3>1. a < b - 1 \/ a = b - 1
      BY <1>0, <1>1
    <3>2. a \in 0..SLAB_MAX /\ b - 1 \in 0..SLAB_MAX /\ Units[a] \in Nat /\ Units[b - 1] \in Nat
      BY <1>0
    <3>3. CASE a < b - 1
      <4>1. Units[a] < Units[b - 1]
        BY <3>2, <3>3, UnitsFacts
      <4> QED
        BY <3>2, <4>1
    <3>4. CASE a = b - 1
      BY <3>2, <3>4
    <3> QED
      BY <3>1, <3>3, <3>4
  <2> QED
    BY <1>0, <1>1, <2>1, <2>2 DEF Reached
<1> QED
  BY <1>0, <1>1

LEMMA ClassFacts ==
    /\ SLAB_MAX \in Nat \ {0} /\ slab_max_num \in Nat \ {0}
    /\ \A c \in Classes : /\ c \in Nat \ {0} /\ c \in 0..SLAB_MAX /\ c - 1 \in 0..SLAB_MAX
                          /\ Units[c] \in Nat /\ Units[c - 1] \in Nat /\ End[c] \in Nat /\ End[c - 1] \in Nat
                          /\ MaxNum[c] \in Nat \ {0} /\ UnitSize[c] \in Nat \ {0}
    /\ \A c, d \in Classes : c < d => d - 1 \in Classes /\ End[c] <= End[d - 1]
<1>1. SLAB_MAX \in Nat \ {0} /\ SLAB_MAX \in 0..SLAB_MAX
  BY SlabAssumption
<1>2. slab_max_num \in Nat \ {0}
  <2>1. Units[0] = 0 /\ 0 \in 0..SLAB_MAX /\ 0 < SLAB_MAX /\ Units[SLAB_MAX] \in Nat
    BY <1>1, UnitsFacts
  <2>2. Units[0] < Units[SLAB_MAX]
    BY <1>1, <2>1, UnitsFacts
  <2> QED
    BY <2>1, <2>2 DEF slab_max_num
<1>3. \A c \in Classes : c \in Nat \ {0} /\ c \in 0..SLAB_MAX /\ c - 1 \in 0..SLAB_MAX
  BY <1>1 DEF Classes
<1>4. ASSUME NEW c \in Classes, NEW d \in Classes, c < d PROVE d - 1 \in Classes /\ End[c] <= End[d - 1]
  <2>1. d - 1 \in Classes /\ (c < d - 1 \/ c = d - 1)
    BY <1>1, <1>4 DEF Classes
  <2>2. c \in 0..SLAB_MAX /\ d - 1 \in 0..SLAB_MAX /\ End[c] \in Nat /\ End[d - 1] \in Nat
    BY <1>3, EndFacts
  <2>3. CASE c < d - 1
    <3>1. End[c] < End[d - 1]
      BY <2>2, <2>3, EndFacts
    <3> QED
      BY <2>1, <2>2, <3>1
  <2>4. CASE c = d - 1
    BY <2>1, <2>2, <2>4
  <2> QED
    BY <2>1, <2>3, <2>4
<1> QED
  BY <1>1, <1>2, <1>3, <1>4, EndFacts, UnitsFacts, UnitSizeFacts, SlabAssumption

LEMMA ListFacts ==
    ASSUME NEW c \in Classes, NEW m \in Nat
    PROVE  /\ FirstUnits(c, m) \in Seq(Nat) /\ Len(FirstUnits(c, m)) = m
           /\ \A k \in 1..m : FirstUnits(c, m)[k] = End[c - 1] + (k - 1) * UnitSize[c] /\ FirstUnits(c, m)[k] \in Nat
<1>1. End[c - 1] \in Nat /\ UnitSize[c] \in Nat
  BY ClassFacts
<1>2. ASSUME NEW k \in 1..m PROVE End[c - 1] + (k - 1) * UnitSize[c] \in Nat
  <2>1. k - 1 \in Nat
    OBVIOUS
  <2>2. (k - 1) * UnitSize[c] \in Nat
    BY <1>1, <2>1, ProductFacts
  <2> QED
    BY <1>1, <2>2
<1>3. FirstUnits(c, m) \in [1..m -> Nat]
  BY <1>2 DEF FirstUnits
<1>4. FirstUnits(c, m) \in Seq(Nat) /\ Len(FirstUnits(c, m)) = m
  BY <1>3
<1> QED
  BY <1>2, <1>4 DEF FirstUnits

LEMMA ListGrows ==
    ASSUME NEW c \in Classes, NEW m \in Nat
    PROVE  Append(FirstUnits(c, m), End[c - 1] + m * UnitSize[c]) = FirstUnits(c, m + 1)
<1> DEFINE e == End[c - 1] + m * UnitSize[c]
           s == FirstUnits(c, m)
           t == FirstUnits(c, m + 1)
<1>1. s \in Seq(Nat) /\ Len(s) = m /\ \A k \in 1..m : s[k] = End[c - 1] + (k - 1) * UnitSize[c]
  BY ListFacts
<1>2. m + 1 \in Nat
  OBVIOUS
<1>3. t \in Seq(Nat) /\ Len(t) = m + 1 /\ \A k \in 1..(m + 1) : t[k] = End[c - 1] + (k - 1) * UnitSize[c]
  BY <1>2, ListFacts
<1>4. t[m + 1] = e /\ e \in Nat
  <2>1. m + 1 \in 1..(m + 1) /\ (m + 1) - 1 = m
    OBVIOUS
  <2>2. t[m + 1] \in Nat
    BY <1>3, <2>1
  <2> QED
    BY <1>3, <2>1, <2>2
<1> HIDE DEF s, t, e
<1>5. /\ Append(s, e) \in Seq(Nat) /\ Len(Append(s, e)) = m + 1
      /\ (\A k \in 1..m : Append(s, e)[k] = s[k]) /\ Append(s, e)[m + 1] = e
  BY <1>1, <1>4, AppendProperties
<1>6. ASSUME NEW k \in 1..(m + 1) PROVE Append(s, e)[k] = t[k]
  <2>1. k \in 1..m \/ k = m + 1
    OBVIOUS
  <2> QED
    BY <1>1, <1>3, <1>4, <1>5, <2>1
<1>7. Append(s, e) = t
  BY <1>3, <1>5, <1>6, SeqEqual
<1> QED
  BY <1>7 DEF s, t, e

\* A round that stays in a class, and one that goes on to the next.
LEMMA StaysInClass ==
    ASSUME NEW c \in Classes, NEW m \in Nat, m < MaxNum[c] PROVE PlaceNext(UpTo(c, m)) = UpTo(c, m + 1)
<1> DEFINE p == UpTo(c, m)
           F == [d \in Classes |-> IF d < c THEN FirstUnits(d, MaxNum[d]) ELSE IF d = c THEN FirstUnits(c, m) ELSE <<>>]
           G == [d \in Classes |-> IF d < c THEN FirstUnits(d, MaxNum[d]) ELSE IF d = c THEN FirstUnits(c, m + 1) ELSE <<>>]
<1>1. p.j = c /\ p.count = m /\ p.offset = End[c - 1] + m * UnitSize[c] /\ p.free = F
  BY DEF UpTo
<1>2. c \in Nat /\ End[c - 1] \in Nat /\ UnitSize[c] \in Nat /\ m * UnitSize[c] \in Nat
  BY ClassFacts, ProductFacts
<1>3. (m + 1) * UnitSize[c] = m * UnitSize[c] + UnitSize[c]
  BY <1>2, ProductFacts
<1>4. [F EXCEPT ![c] = Append(F[c], End[c - 1] + m * UnitSize[c])] = G
  <2>1. F[c] = FirstUnits(c, m)
    BY <1>2
  <2>2. [F EXCEPT ![c] = FirstUnits(c, m + 1)] = G
    <3> DEFINE H == [F EXCEPT ![c] = FirstUnits(c, m + 1)]
    <3>0. \A d \in Classes : d \in Nat
      BY ClassFacts
    <3>1. ASSUME NEW d \in Classes PROVE H[d] = G[d]
      <4>1. d < c \/ d = c \/ d > c
        BY <3>0
      <4> QED
        BY <3>0, <4>1
    <3>2. H = [d \in Classes |-> H[d]] /\ G = [d \in Classes |-> G[d]]
      OBVIOUS
    <3> HIDE DEF G, H
    <3>3. H = G
      BY <3>1, <3>2
    <3> QED
      BY <3>3 DEF H
  <2> QED
    BY <2>1, <2>2, ListGrows
<1>5. PlaceNext(p) = [j |-> c, count |-> m + 1, offset |-> (End[c - 1] + m * UnitSize[c]) + UnitSize[c],
                 free |-> [F EXCEPT ![c] = Append(F[c], End[c - 1] + m * UnitSize[c])]]
  <2> HIDE DEF p, F
  <2> QED
    BY <1>1 DEF PlaceNext
<1>6. (End[c - 1] + m * UnitSize[c]) + UnitSize[c] = End[c - 1] + (m + 1) * UnitSize[c]
  <2> DEFINE x == m * UnitSize[c]
             y == (m + 1) * UnitSize[c]
  <2>1. x \in Nat /\ y = x + UnitSize[c]
    BY <1>2, <1>3
  <2> HIDE DEF x, y
  <2>2. (End[c - 1] + x) + UnitSize[c] = End[c - 1] + y
    BY <1>2, <2>1
  <2> QED
    BY <2>2 DEF x, y
<1> QED
  BY <1>4, <1>5, <1>6 DEF UpTo

LEMMA GoesToNextClass ==
    ASSUME NEW c \in Classes, NEW b \in Classes, c = b + 1
    PROVE  PlaceNext(UpTo(b, MaxNum[b])) = UpTo(c, 1)
<1> DEFINE p == UpTo(b, MaxNum[b])
           F == [d \in Classes |-> IF d < b THEN FirstUnits(d, MaxNum[d]) ELSE IF d = b THEN FirstUnits(b, MaxNum[b]) ELSE <<>>]
           G == [d \in Classes |-> IF d < c THEN FirstUnits(d, MaxNum[d]) ELSE IF d = c THEN FirstUnits(c, 1) ELSE <<>>]
<1>1. /\ b \in Nat /\ c \in Nat /\ c - 1 = b /\ MaxNum[b] \in Nat /\ End[b] \in Nat /\ UnitSize[c] \in Nat
      /\ End[b] = End[b - 1] + MaxNum[b] * UnitSize[b]
  BY ClassFacts, EndFacts
<1>2. p.j = b /\ p.count = MaxNum[b] /\ p.offset = End[b] /\ p.free = F
  BY <1>1 DEF UpTo
<1>3. Append(<<>>, End[b]) = FirstUnits(c, 1)
  <2>1. Append(FirstUnits(c, 0), End[c - 1] + 0 * UnitSize[c]) = FirstUnits(c, 0 + 1)
    BY ListGrows
  <2>2. FirstUnits(c, 0) = <<>>
    BY ListFacts
  <2>3. End[c - 1] + 0 * UnitSize[c] = End[b] /\ 0 + 1 = 1
    BY <1>1, ProductFacts
  <2> QED
    BY <2>1, <2>2, <2>3
<1>4. [F EXCEPT ![c] = Append(F[c], End[b])] = G
  <2>1. F[c] = <<>>
    BY <1>1
  <2>2. \A d \in Classes : d \in Nat
    BY ClassFacts
  <2>3. [F EXCEPT ![c] = FirstUnits(c, 1)] = G
    <3> DEFINE H == [F EXCEPT ![c] = FirstUnits(c, 1)]
    <3>1. ASSUME NEW d \in Classes PROVE H[d] = G[d]
      <4>1. d < b \/ d = b \/ d = c \/ d > c
        BY <1>1, <2>2
      <4> QED
        BY <1>1, <2>2, <4>1
    <3>2. H = [d \in Classes |-> H[d]] /\ G = [d \in Classes |-> G[d]]
      OBVIOUS
    <3> HIDE DEF G, H
    <3>3. H = G
      BY <3>1, <3>2
    <3> QED
      BY <3>3 DEF H
  <2> QED
    BY <1>3, <2>1, <2>3
<1>5. ~(p.count < MaxNum[p.j]) /\ p.j + 1 = c
  BY <1>1, <1>2
<1>6. PlaceNext(p) = [j |-> c, count |-> 1, offset |-> End[b] + UnitSize[c],
                 free |-> [F EXCEPT ![c] = Append(F[c], End[b])]]
  <2> HIDE DEF p, F
  <2> QED
    BY <1>2, <1>5 DEF PlaceNext
<1>7. End[b] + UnitSize[c] = End[c - 1] + 1 * UnitSize[c]
  BY <1>1, ProductFacts
<1> QED
  BY <1>4, <1>6, <1>7 DEF UpTo

\* All rounds at once: what the loop has after n of them.
Rounds == [n \in 0..slab_max_num |-> LET c == CHOOSE c \in Classes : Reached(n, c) IN UpTo(c, n - Units[c - 1])]

NothingPlaced == [j |-> 1, count |-> 0, offset |-> 0, free |-> [i \in Classes |-> <<>>]]

LEMMA RoundsAt ==
    ASSUME NEW n \in 0..slab_max_num, NEW c \in Classes, Reached(n, c) PROVE Rounds[n] = UpTo(c, n - Units[c - 1])
<1>1. PICK d \in Classes : d = (CHOOSE e \in Classes : Reached(n, e)) /\ Reached(n, d)
  OBVIOUS
<1>2. d = c
  BY <1>1, ReachedUnique
<1> QED
  BY <1>1, <1>2 DEF Rounds

LEMMA RoundsFacts ==
    /\ Rounds[0] = NothingPlaced
    /\ \A n \in 1..slab_max_num : Rounds[n] = PlaceNext(Rounds[n - 1])
<1>0. slab_max_num \in Nat /\ 0 \in 0..slab_max_num /\ 1 \in Classes
  BY ClassFacts DEF Classes
<1>1. Rounds[0] = NothingPlaced
  <2>1. Reached(0, 1) /\ Units[1 - 1] = 0
    BY UnitsFacts DEF Reached
  <2>2. Rounds[0] = UpTo(1, 0)
    BY <1>0, <2>1, RoundsAt
  <2>3. End[1 - 1] + 0 * UnitSize[1] = 0
    BY <1>0, EndFacts, ClassFacts, ProductFacts
  <2>4. FirstUnits(1, 0) = <<>>
    BY <1>0, ListFacts
  <2>5. ASSUME NEW d \in Classes PROVE (IF d < 1 THEN FirstUnits(d, MaxNum[d]) ELSE IF d = 1 THEN FirstUnits(1, 0) ELSE <<>>) = <<>>
    <3>1. d \in Nat \ {0}
      BY ClassFacts
    <3> QED
      BY <2>4, <3>1
  <2> QED
    BY <2>2, <2>3, <2>5 DEF UpTo, NothingPlaced
<1>2. ASSUME NEW n \in 1..slab_max_num PROVE Rounds[n] = PlaceNext(Rounds[n - 1])
  <2>1. n \in 0..slab_max_num /\ n - 1 \in 0..slab_max_num /\ n \in Nat \ {0}
    BY <1>0
  <2>2. PICK c \in Classes : Reached(n, c)
    BY <2>1, ReachedExists
  <2>3. Units[c - 1] < n /\ n <= Units[c]
    BY <2>1, <2>2 DEF Reached
  <2>4. /\ c \in Nat \ {0} /\ Units[c] \in Nat /\ Units[c - 1] \in Nat /\ MaxNum[c] \in Nat
        /\ Units[c] = Units[c - 1] + MaxNum[c]
    BY ClassFacts, UnitsFacts
  <2>5. Rounds[n] = UpTo(c, n - Units[c - 1])
    BY <2>1, <2>2, RoundsAt
  <2>6. CASE Reached(n - 1, c)
    <3> DEFINE m == (n - 1) - Units[c - 1]
    <3>1. m \in Nat
      <4>1. CASE n - 1 = 0
        BY <2>1, <2>3, <2>4, <4>1
      <4>2. CASE n - 1 # 0
        BY <2>1, <2>4, <2>6, <4>2 DEF Reached
      <4> QED
        BY <4>1, <4>2
    <3>2. m < MaxNum[c] /\ m + 1 = n - Units[c - 1]
      BY <2>1, <2>3, <2>4
    <3>3. Rounds[n - 1] = UpTo(c, m)
      BY <2>1, <2>6, RoundsAt
    <3> HIDE DEF m
    <3>4. PlaceNext(UpTo(c, m)) = UpTo(c, m + 1)
      BY <3>1, <3>2, StaysInClass
    <3> QED
      BY <2>5, <3>2, <3>3, <3>4
  <2>7. CASE ~Reached(n - 1, c)
    <3>1. n - 1 = Units[c - 1] /\ c # 1
      <4>1. CASE n - 1 = 0
        <5>1. c # 1
          BY <2>7, <4>1 DEF Reached
        <5>2. 1 < c /\ 0 \in 0..SLAB_MAX /\ c - 1 \in 0..SLAB_MAX /\ 0 < c - 1
          BY <2>4, <5>1, ClassFacts
        <5>3. Units[0] < Units[c - 1]
          BY <5>2, UnitsFacts
        <5> QED
          BY <2>1, <2>3, <2>4, <4>1, <5>3, UnitsFacts
      <4>2. CASE n - 1 # 0
        <5>1. ~(Units[c - 1] < n - 1)
          BY <2>1, <2>3, <2>4, <2>7, <4>2 DEF Reached
        <5>2. n - 1 = Units[c - 1]
          BY <2>1, <2>3, <2>4, <5>1
        <5>3. c # 1
          BY <4>2, <5>2, UnitsFacts
        <5> QED
          BY <5>2, <5>3
      <4> QED
        BY <4>1, <4>2
    <3>2. PICK b \in Classes : c = b + 1
      <4>1. c - 1 \in Classes /\ c = (c - 1) + 1
        BY <2>4, <3>1, ClassFacts DEF Classes
      <4> QED
        BY <4>1
    <3>3. /\ b \in Nat \ {0} /\ c - 1 = b /\ Units[b] = Units[b - 1] + MaxNum[b]
          /\ Units[b - 1] \in Nat /\ MaxNum[b] \in Nat \ {0} /\ Units[b] \in Nat
      BY <3>2, ClassFacts, UnitsFacts
    <3>4. Reached(n - 1, b) /\ (n - 1) - Units[b - 1] = MaxNum[b] /\ n - Units[c - 1] = 1
      BY <2>1, <3>1, <3>3 DEF Reached
    <3>5. Rounds[n - 1] = UpTo(b, MaxNum[b])
      BY <2>1, <3>4, RoundsAt
    <3>6. PlaceNext(UpTo(b, MaxNum[b])) = UpTo(c, 1)
      BY <3>2, GoesToNextClass
    <3> QED
      BY <2>5, <3>4, <3>5, <3>6
  <2> QED
    BY <2>6, <2>7
<1> QED
  BY <1>1, <1>2

LEMMA PlaceStep == Place = [n \in 0..slab_max_num |-> IF n = 0 THEN NothingPlaced ELSE PlaceNext(Place[n - 1])]
<1>1. Rounds = [n \in 0..slab_max_num |-> IF n = 0 THEN NothingPlaced ELSE PlaceNext(Rounds[n - 1])]
  <2>1. slab_max_num \in Nat
    BY ClassFacts
  <2>2. ASSUME NEW n \in 0..slab_max_num PROVE Rounds[n] = IF n = 0 THEN NothingPlaced ELSE PlaceNext(Rounds[n - 1])
    <3>1. n = 0 \/ n \in 1..slab_max_num
      BY <2>1
    <3> QED
      BY <3>1, RoundsFacts
  <2>3. Rounds = [n \in 0..slab_max_num |-> Rounds[n]]
    BY DEF Rounds
  <2> QED
    BY <2>2, <2>3
<1> DEFINE Q(f) == f = [n \in 0..slab_max_num |-> IF n = 0 THEN NothingPlaced ELSE PlaceNext(f[n - 1])]
<1>2. Q(Rounds)
  BY <1>1
<1>3. Place = CHOOSE f : Q(f)
  BY DEF Place, PlaceNext, NothingPlaced
<1> HIDE DEF Q
<1>4. Q(Place)
  BY <1>2, <1>3
<1> QED
  BY <1>4 DEF Q

LEMMA PlaceIsRounds == Place[slab_max_num] = Rounds[slab_max_num]
<1> DEFINE T == {n \in 0..slab_max_num : Place[n] # Rounds[n]}
<1>1. slab_max_num \in Nat
  BY ClassFacts
<1>2. T \subseteq Nat
  OBVIOUS
<1>3. ASSUME NEW n \in T, n - 1 \notin T PROVE FALSE
  <2>1. n \in 0..slab_max_num /\ Place[n] = IF n = 0 THEN NothingPlaced ELSE PlaceNext(Place[n - 1])
    BY PlaceStep
  <2>2. n # 0
    BY <1>3, <2>1, RoundsFacts
  <2>3. n \in 1..slab_max_num /\ n - 1 \in 0..slab_max_num
    BY <1>1, <2>1, <2>2
  <2>4. Place[n - 1] = Rounds[n - 1]
    BY <1>3, <2>3
  <2> QED
    BY <1>3, <2>1, <2>2, <2>3, <2>4, RoundsFacts
<1> HIDE DEF T
<1>4. T = {}
  BY <1>2, <1>3, Descent
<1> QED
  BY <1>1, <1>4 DEF T

\* The list of a class holds its units one behind the other.
LEMMA UnitListIs == ASSUME NEW i \in Classes PROVE UnitList(i) = FirstUnits(i, MaxNum[i])
<1>1. SLAB_MAX \in Classes /\ slab_max_num \in 0..slab_max_num /\ slab_max_num # 0
  BY ClassFacts DEF Classes
<1>2. /\ Units[SLAB_MAX] = Units[SLAB_MAX - 1] + MaxNum[SLAB_MAX] /\ Units[SLAB_MAX - 1] \in Nat
      /\ MaxNum[SLAB_MAX] \in Nat \ {0} /\ slab_max_num = Units[SLAB_MAX] /\ Units[SLAB_MAX] \in Nat
  BY <1>1, UnitsFacts, ClassFacts DEF slab_max_num
<1>3. Reached(slab_max_num, SLAB_MAX) /\ slab_max_num - Units[SLAB_MAX - 1] = MaxNum[SLAB_MAX]
  BY <1>1, <1>2 DEF Reached
<1>4. Place[slab_max_num] = UpTo(SLAB_MAX, MaxNum[SLAB_MAX])
  BY <1>1, <1>3, PlaceIsRounds, RoundsAt
<1>5. i \in Nat /\ SLAB_MAX \in Nat /\ (i < SLAB_MAX \/ i = SLAB_MAX)
  BY SlabAssumption DEF Classes
<1> QED
  BY <1>4, <1>5 DEF UnitList, UpTo

\* is_in_slab in terms of the classes' ends.
LEMMA RangeOf ==
    ASSUME NEW p
    PROVE  /\ (~\E i \in Classes : End[i - 1] <= p /\ p < End[i]) => is_in_slab(p) = -1
           /\ (\E i \in Classes : End[i - 1] <= p /\ p < End[i]) =>
                 \E i \in Classes : is_in_slab(p) = i /\ End[i - 1] <= p /\ p < End[i]
<1> DEFINE Holds(r) == r.first <= p /\ p < r.end
<1>1. \A r \in Ranges : \E i \in Classes : r.class = i /\ r.first = End[i - 1] /\ r.end = End[i]
  BY DEF Ranges
<1>2. \A i \in Classes : \E r \in Ranges : r.class = i /\ r.first = End[i - 1] /\ r.end = End[i]
  <2> TAKE i \in Classes
  <2> DEFINE r == [class |-> i, first |-> End[i - 1], end |-> End[i]]
  <2>1. r \in Ranges /\ r.class = i /\ r.first = End[i - 1] /\ r.end = End[i]
    BY DEF Ranges
  <2> QED
    BY <2>1
<1>3. ASSUME ~\E i \in Classes : End[i - 1] <= p /\ p < End[i] PROVE is_in_slab(p) = -1
  BY <1>1, <1>3 DEF is_in_slab
<1>4. ASSUME NEW i \in Classes, End[i - 1] <= p, p < End[i]
      PROVE  \E j \in Classes : is_in_slab(p) = j /\ End[j - 1] <= p /\ p < End[j]
  <2>1. \E r \in Ranges : Holds(r)
    BY <1>2, <1>4
  <2> DEFINE c == CHOOSE r \in Ranges : Holds(r)
  <2>2. c \in Ranges /\ Holds(c)
    BY <2>1
  <2>3. is_in_slab(p) = c.class
    BY <2>1 DEF is_in_slab
  <2> HIDE DEF c
  <2> QED
    BY <1>1, <2>2, <2>3
<1> QED
  BY <1>3, <1>4

\* An address in the range of a class is in no other.
LEMMA RangeFacts ==
    ASSUME NEW i \in Classes, NEW p \in Nat, End[i - 1] <= p, p < End[i] PROVE is_in_slab(p) = i
<1>1. ASSUME NEW j \in Classes, End[j - 1] <= p, p < End[j] PROVE j = i
  <2>1. /\ i \in Nat /\ j \in Nat /\ End[i] \in Nat /\ End[i - 1] \in Nat /\ End[j] \in Nat /\ End[j - 1] \in Nat
        /\ (i < j => End[i] <= End[j - 1]) /\ (j < i => End[j] <= End[i - 1])
    BY ClassFacts
  <2> QED
    BY <1>1, <2>1
<1> QED
  BY <1>1, RangeOf

LEMMA BehindFacts == ASSUME NEW p \in Int, p = -1 \/ End[SLAB_MAX] <= p PROVE is_in_slab(p) = -1
<1>1. ASSUME NEW j \in Classes, End[j - 1] <= p, p < End[j] PROVE FALSE
  <2>1. SLAB_MAX \in Classes /\ End[SLAB_MAX] \in Nat /\ End[j] \in Nat /\ End[j - 1] \in Nat
    BY ClassFacts DEF Classes
  <2>2. End[j] <= End[SLAB_MAX]
    <3>1. j \in 0..SLAB_MAX /\ SLAB_MAX \in 0..SLAB_MAX /\ (j < SLAB_MAX \/ j = SLAB_MAX)
      BY ClassFacts DEF Classes
    <3>2. j < SLAB_MAX => End[j] < End[SLAB_MAX]
      BY <3>1, EndFacts
    <3> QED
      BY <2>1, <3>1, <3>2
  <2> QED
    BY <1>1, <2>1, <2>2
<1> QED
  BY <1>1, RangeOf

\* The k-th unit of a class lies in the class's range.
LEMMA UnitFacts ==
    ASSUME NEW i \in Classes
    PROVE  /\ UnitList(i) \in Seq(Nat) /\ Len(UnitList(i)) = MaxNum[i]
           /\ \A k \in 1..MaxNum[i] :
                /\ UnitList(i)[k] = End[i - 1] + (k - 1) * UnitSize[i] /\ UnitList(i)[k] \in Nat
                /\ End[i - 1] <= UnitList(i)[k] /\ UnitList(i)[k] + UnitSize[i] <= End[i]
           /\ \A k, l \in 1..MaxNum[i] : k < l => UnitList(i)[k] + UnitSize[i] <= UnitList(i)[l]
<1>1. /\ MaxNum[i] \in Nat /\ UnitSize[i] \in Nat \ {0} /\ End[i - 1] \in Nat /\ End[i] \in Nat
      /\ End[i] = End[i - 1] + MaxNum[i] * UnitSize[i]
  BY ClassFacts, EndFacts
<1>2. /\ UnitList(i) \in Seq(Nat) /\ Len(UnitList(i)) = MaxNum[i]
      /\ \A k \in 1..MaxNum[i] : UnitList(i)[k] = End[i - 1] + (k - 1) * UnitSize[i] /\ UnitList(i)[k] \in Nat
  BY <1>1, UnitListIs, ListFacts
<1>3. ASSUME NEW a \in Nat PROVE a * UnitSize[i] \in Nat
  BY <1>1, ProductFacts
<1>4. ASSUME NEW k \in 1..MaxNum[i]
      PROVE  End[i - 1] <= UnitList(i)[k] /\ UnitList(i)[k] + UnitSize[i] <= End[i]
  <2> DEFINE x == (k - 1) * UnitSize[i]
             y == MaxNum[i] * UnitSize[i]
  <2>1. k - 1 \in Nat /\ k - 1 < MaxNum[i]
    BY <1>1
  <2>2. x \in Nat /\ y \in Nat /\ x + UnitSize[i] <= y
    BY <1>1, <2>1, ProductFacts
  <2>3. UnitList(i)[k] = End[i - 1] + x /\ End[i] = End[i - 1] + y
    BY <1>1, <1>2
  <2> HIDE DEF x, y
  <2> QED
    BY <1>1, <2>2, <2>3
<1>5. ASSUME NEW k \in 1..MaxNum[i], NEW l \in 1..MaxNum[i], k < l
      PROVE  UnitList(i)[k] + UnitSize[i] <= UnitList(i)[l]
  <2> DEFINE x == (k - 1) * UnitSize[i]
             y == (l - 1) * UnitSize[i]
  <2>1. k - 1 \in Nat /\ l - 1 \in Nat /\ k - 1 < l - 1
    BY <1>1, <1>5
  <2>2. x \in Nat /\ y \in Nat /\ x + UnitSize[i] <= y
    BY <1>1, <2>1, ProductFacts
  <2>3. UnitList(i)[k] = End[i - 1] + x /\ UnitList(i)[l] = End[i - 1] + y
    BY <1>2
  <2> HIDE DEF x, y
  <2> QED
    BY <1>1, <2>2, <2>3
<1> QED
  BY <1>2, <1>4, <1>5

LEMMA LayoutHolds == Layout
<1>1. ASSUME NEW i \in Classes
      PROVE  /\ UnitSize[i] \in Nat \ {0} /\ UnitList(i) \in Seq(Nat)
             /\ Len(UnitList(i)) = MaxNum[i] /\ MaxNum[i] \in Nat
             /\ \A k \in 1..MaxNum[i] : \A b \in 0..(UnitSize[i] - 1) : is_in_slab(UnitList(i)[k] + b) = i
             /\ IsInjective(UnitList(i))
  <2>1. UnitSize[i] \in Nat \ {0} /\ End[i - 1] \in Nat /\ End[i] \in Nat /\ MaxNum[i] \in Nat
    BY ClassFacts
  <2>2. ASSUME NEW k \in 1..MaxNum[i], NEW b \in 0..(UnitSize[i] - 1) PROVE is_in_slab(UnitList(i)[k] + b) = i
    <3> DEFINE u == UnitList(i)[k]
    <3>1. u \in Nat /\ End[i - 1] <= u /\ u + UnitSize[i] <= End[i]
      BY UnitFacts
    <3> HIDE DEF u
    <3>2. u + b \in Nat /\ End[i - 1] <= u + b /\ u + b < End[i]
      BY <2>1, <3>1
    <3> QED
      BY <3>2, RangeFacts DEF u
  <2>3. ASSUME NEW k \in 1..MaxNum[i], NEW l \in 1..MaxNum[i], UnitList(i)[k] = UnitList(i)[l] PROVE k = l
    <3>1. UnitList(i)[k] \in Nat /\ UnitList(i)[l] \in Nat
      BY UnitFacts
    <3>2. /\ k < l => UnitList(i)[k] + UnitSize[i] <= UnitList(i)[l]
          /\ l < k => UnitList(i)[l] + UnitSize[i] <= UnitList(i)[k]
      BY UnitFacts
    <3>3. ~(k < l) /\ ~(l < k)
      BY <2>1, <2>3, <3>1, <3>2
    <3> QED
      BY <2>1, <3>3
  <2>4. UnitList(i) \in Seq(Nat) /\ Len(UnitList(i)) = MaxNum[i]
    BY UnitFacts
  <2>5. IsInjective(UnitList(i))
    BY <2>3, <2>4 DEF IsInjective
  <2> QED
    BY <2>1, <2>2, <2>4, <2>5
<1>2. ASSUME NEW i \in Classes, NEW u \in UnitsOf(i)
      PROVE  \E k \in 1..MaxNum[i] : u = UnitList(i)[k]
  BY <1>1 DEF UnitsOf, ToSet
<1>3. ASSUME NEW i \in Classes, NEW j \in Classes, NEW u \in UnitsOf(i), NEW v \in UnitsOf(j), u < v
      PROVE  u + UnitSize[i] <= v
  <2>1. PICK k \in 1..MaxNum[i] : u = UnitList(i)[k]
    BY <1>2
  <2>2. PICK l \in 1..MaxNum[j] : v = UnitList(j)[l]
    BY <1>2
  <2>3. /\ u \in Nat /\ End[i - 1] <= u /\ u + UnitSize[i] <= End[i]
        /\ v \in Nat /\ End[j - 1] <= v /\ v + UnitSize[j] <= End[j]
    BY <2>1, <2>2, UnitFacts
  <2>4. /\ i \in Nat /\ j \in Nat /\ End[i] \in Nat /\ End[i - 1] \in Nat /\ End[j] \in Nat /\ End[j - 1] \in Nat
        /\ (i < j => End[i] <= End[j - 1]) /\ (j < i => End[j] <= End[i - 1])
        /\ UnitSize[i] \in Nat /\ UnitSize[j] \in Nat /\ MaxNum[i] \in Nat
    BY ClassFacts
  <2>5. CASE i = j
    <3>1. k < l
      <4>1. ~(k = l)
        BY <1>3, <2>1, <2>2, <2>3, <2>5
      <4>2. ~(l < k)
        <5>1. l < k => v + UnitSize[i] <= u
          BY <2>1, <2>2, <2>5, UnitFacts
        <5> QED
          BY <1>3, <2>3, <2>4, <5>1
      <4> QED
        BY <2>4, <2>5, <4>1, <4>2
    <3> QED
      BY <2>1, <2>2, <2>5, <3>1, UnitFacts
  <2>6. CASE i < j
    BY <2>3, <2>4, <2>6
  <2>7. CASE j < i
    BY <1>3, <2>3, <2>4, <2>7
  <2> QED
    BY <2>4, <2>5, <2>6, <2>7
<1>4. Null \notin Heap /\ \A p \in Heap \cup {Null} : is_in_slab(p) = -1
  <2>1. End[SLAB_MAX] \in Nat
    BY EndFacts, SlabAssumption
  <2>2. Cardinality(Handles) \in Nat
    BY SlabAssumption, FS_CardinalityType
  <2>3. \A p \in Heap : p \in Nat /\ End[SLAB_MAX] <= p
    BY <2>1, <2>2 DEF Heap
  <2> QED
    BY <2>3, BehindFacts DEF Null
<1> QED
  BY <1>1, <1>3, <1>4 DEF Layout

-----------------------------------------------------------------------------
(* One class: its free and used lists, the line of its holders, its units  *)
(* and the handles that point into it.                                     *)

ClassInv(f, u, l, U, H) ==
    /\ f \in Seq(U) /\ u \in Seq(U) /\ l \in Seq(Handles)
    /\ IsInjective(f) /\ IsInjective(u) /\ IsInjective(l)
    /\ ToSet(f) \cap ToSet(u) = {} /\ ToSet(f) \cup ToSet(u) = U
    /\ Len(u) = Len(l) /\ ToSet(l) = H

\* slab_malloc on a class.
LEMMA ClassTake ==
    ASSUME NEW U, NEW H, NEW f, NEW u, NEW l, ClassInv(f, u, l, U, H), f # <<>>,
           NEW h \in Handles \ H
    PROVE  /\ Head(f) \in U
           /\ ClassInv(Tail(f), Append(u, Head(f)), Append(l, h), U, H \cup {h})
<1> USE DEF ClassInv
<1>1. Head(f) \in U /\ Head(f) = f[1] /\ Tail(f) \in Seq(U) /\ 1 \in 1..Len(f)
  BY TailFacts
<1>2. IsInjective(Tail(f)) /\ ToSet(Tail(f)) = ToSet(f) \ {Head(f)}
  BY <1>1, TailIsRemove, RemoveSet
<1>3. Head(f) \in ToSet(f)
  BY <1>1, Members
<1>4. Append(u, Head(f)) \in Seq(U) /\ IsInjective(Append(u, Head(f)))
      /\ ToSet(Append(u, Head(f))) = ToSet(u) \cup {Head(f)}
      /\ Len(Append(u, Head(f))) = Len(u) + 1
  BY <1>1, <1>3, AppendFacts, AppendSet
<1>5. Append(l, h) \in Seq(Handles) /\ IsInjective(Append(l, h))
      /\ ToSet(Append(l, h)) = ToSet(l) \cup {h} /\ Len(Append(l, h)) = Len(l) + 1
  BY AppendFacts, AppendSet
<1> QED
  BY <1>1, <1>2, <1>3, <1>4, <1>5

\* slab_free on a class, for the handle at place k of its line.
LEMMA ClassRecycle ==
    ASSUME NEW U, NEW H, NEW f, NEW u, NEW l, ClassInv(f, u, l, U, H), NEW k \in 1..Len(l)
    PROVE  /\ u # <<>> /\ Head(u) \in U
           /\ ClassInv(Append(f, Head(u)), Tail(u), RemoveAt(l, k), U, H \ {l[k]})
<1> USE DEF ClassInv
<1>1. u # <<>>
  OBVIOUS
<1>2. Head(u) \in U /\ Head(u) = u[1] /\ Tail(u) \in Seq(U) /\ 1 \in 1..Len(u)
      /\ Len(Tail(u)) = Len(u) - 1
  BY <1>1, TailFacts
<1>3. IsInjective(Tail(u)) /\ ToSet(Tail(u)) = ToSet(u) \ {Head(u)}
  BY <1>1, <1>2, TailIsRemove, RemoveSet
<1>4. Head(u) \in ToSet(u)
  BY <1>2, Members
<1>5. Append(f, Head(u)) \in Seq(U) /\ IsInjective(Append(f, Head(u)))
      /\ ToSet(Append(f, Head(u))) = ToSet(f) \cup {Head(u)}
  BY <1>2, <1>4, AppendFacts, AppendSet
<1>6. RemoveAt(l, k) \in Seq(Handles) /\ IsInjective(RemoveAt(l, k))
      /\ ToSet(RemoveAt(l, k)) = ToSet(l) \ {l[k]} /\ Len(RemoveAt(l, k)) = Len(l) - 1
  BY RemoveFacts, RemoveSet
<1> QED
  BY <1>1, <1>2, <1>3, <1>4, <1>5, <1>6

-----------------------------------------------------------------------------
(* The whole allocator.                                                    *)

Holders(i) == {h \in Handles : ptr[h] # Null /\ is_in_slab(ptr[h]) = i}

\* Before slab_create there is nothing; after it every class is consistent.
SlabInv ==
    /\ phase \in {"none", "ready", "released"}
    /\ free \in [Classes -> Seq(InSlab)] /\ used \in [Classes -> Seq(InSlab)]
    /\ line \in [Classes -> Seq(Handles)]
    /\ mem \in [InSlab \cup Heap -> Handles \cup {Zero, Part}]
    /\ ptr \in [Handles -> InSlab \cup Heap \cup {Null}]
    /\ size \in [Handles -> Nat] /\ stored \subseteq Handles
    /\ phase = "none" => /\ \A h \in Handles : ptr[h] = Null
                         /\ \A i \in Classes : used[i] = <<>> /\ line[i] = <<>>
    /\ phase # "none" => \A i \in Classes : ClassInv(free[i], used[i], line[i], UnitsOf(i), Holders(i))

LEMMA ClassOf ==
    ASSUME NEW p
    PROVE  is_in_slab(p) \in Classes \cup {-1} /\ -1 \notin Classes
<1>1. -1 \notin Classes
  BY SlabAssumption DEF Classes
<1> QED
  BY <1>1, RangeOf

\* What the layout says of single addresses.
LEMMA LayoutFacts ==
    /\ \A i \in Classes : UnitList(i) \in Seq(UnitsOf(i)) /\ IsInjective(UnitList(i))
                          /\ UnitSize[i] \in Nat /\ UnitsOf(i) \subseteq InSlab
    /\ \A i \in Classes : \A p \in UnitsOf(i) : is_in_slab(p) = i
    /\ is_in_slab(Null) = -1 /\ \A p \in Heap : is_in_slab(p) = -1
    /\ Null \notin InSlab
<1>1. \A i \in Classes : UnitList(i) \in Seq(UnitsOf(i)) /\ IsInjective(UnitList(i))
                         /\ UnitSize[i] \in Nat /\ UnitsOf(i) \subseteq InSlab
  BY LayoutHolds DEF Layout, UnitsOf, InSlab, ToSet
<1>2. ASSUME NEW i \in Classes, NEW p \in UnitsOf(i) PROVE is_in_slab(p) = i
  <2>1. UnitList(i) \in Seq(Nat) /\ Len(UnitList(i)) = MaxNum[i] /\ UnitSize[i] \in Nat \ {0}
    BY LayoutHolds DEF Layout
  <2>2. PICK k \in 1..MaxNum[i] : UnitList(i)[k] = p
    BY <2>1, Members DEF UnitsOf
  <2>3. p \in Nat /\ 0 \in 0..(UnitSize[i] - 1)
    BY <2>1, <2>2
  <2>4. is_in_slab(UnitList(i)[k] + 0) = i
    BY <2>3, LayoutHolds DEF Layout
  <2> QED
    BY <2>2, <2>3, <2>4
<1>3. is_in_slab(Null) = -1 /\ \A p \in Heap : is_in_slab(p) = -1
  BY LayoutHolds DEF Layout
<1> QED
  BY <1>1, <1>2, <1>3, ClassOf DEF InSlab

\* A class's lists are typed by the class's own units.
LEMMA Widen ==
    ASSUME NEW i \in Classes, NEW s \in Seq(UnitsOf(i))
    PROVE  s \in Seq(InSlab)
BY LayoutFacts

LEMMA InitInv == Init => SlabInv
<1> SUFFICES ASSUME Init PROVE SlabInv
  OBVIOUS
<1>1. <<>> \in Seq(InSlab) /\ <<>> \in Seq(Handles)
  OBVIOUS
<1> QED
  BY <1>1 DEF Init, SlabInv

\* A step that leaves every class alone but one, k, which it moves to a
\* consistent state.
LEMMA OneClass ==
    ASSUME SlabInv, phase # "none", phase' = phase, NEW k \in Classes,
           \A i \in Classes \ {k} : free'[i] = free[i] /\ used'[i] = used[i] /\ line'[i] = line[i]
                                    /\ Holders(i)' = Holders(i),
           ClassInv(free'[k], used'[k], line'[k], UnitsOf(k), Holders(k)')
    PROVE  \A i \in Classes : ClassInv(free'[i], used'[i], line'[i], UnitsOf(i), Holders(i)')
<1> SUFFICES ASSUME NEW i \in Classes
             PROVE  ClassInv(free'[i], used'[i], line'[i], UnitsOf(i), Holders(i)')
  OBVIOUS
<1>1. CASE i = k
  BY <1>1
<1>2. CASE i # k
  BY <1>2 DEF SlabInv
<1> QED
  BY <1>1, <1>2

\* Moving one pointer changes the holders of the classes it leaves and enters.
LEMMA MovePointer ==
    ASSUME SlabInv, NEW h \in Handles, NEW p \in InSlab \cup Heap \cup {Null},
           NEW s, Points(h, p, s)
    PROVE  /\ ptr' \in [Handles -> InSlab \cup Heap \cup {Null}]
           /\ \A i \in Classes :
                 Holders(i)' = IF is_in_slab(p) = i THEN Holders(i) \cup {h} ELSE Holders(i) \ {h}
           /\ \A i \in Classes : h \in Holders(i) <=> is_in_slab(ptr[h]) = i
<1>1. ptr' \in [Handles -> InSlab \cup Heap \cup {Null}] /\ ptr'[h] = p
      /\ \A g \in Handles \ {h} : ptr'[g] = ptr[g]
  BY DEF SlabInv, Points
<1>2. ASSUME NEW i \in Classes
      PROVE  /\ Holders(i)' = IF is_in_slab(p) = i THEN Holders(i) \cup {h} ELSE Holders(i) \ {h}
             /\ h \in Holders(i) <=> is_in_slab(ptr[h]) = i
  <2>1. \A q : is_in_slab(q) = i => q # Null
    BY ClassOf, LayoutFacts
  <2>2. Holders(i)' = {g \in Handles : ptr'[g] # Null /\ is_in_slab(ptr'[g]) = i}
    BY DEF Holders
  <2> QED
    BY <1>1, <2>1, <2>2 DEF Holders
<1> QED
  BY <1>1, <1>2

LEMMA SlabInductive ==
    ASSUME SlabInv, [Next]_vars
    PROVE  SlabInv'
<1>0. \A i \in Classes : UnitsOf(i) \subseteq InSlab
  BY LayoutFacts
<1>1. CASE slab_create
  <2>1. \A i \in Classes : UnitList(i) \in Seq(UnitsOf(i)) /\ IsInjective(UnitList(i))
    BY LayoutFacts
  <2>2. free' \in [Classes -> Seq(InSlab)] /\ \A i \in Classes : free'[i] = UnitList(i)
    BY <1>1, <2>1, Widen DEF slab_create
  <2>3. ASSUME NEW i \in Classes PROVE ClassInv(free'[i], used'[i], line'[i], UnitsOf(i), Holders(i)')
    <3>1. used'[i] = <<>> /\ line'[i] = <<>> /\ Holders(i)' = {}
      BY <1>1 DEF slab_create, SlabInv, Holders
    <3>2. ToSet(UnitList(i)) = UnitsOf(i) /\ ToSet(<<>>) = {} /\ IsInjective(<<>>)
      BY DEF UnitsOf, ToSet, IsInjective
    <3> QED
      BY <2>1, <2>2, <3>1, <3>2 DEF ClassInv
  <2> QED
    BY <1>1, <2>2, <2>3 DEF slab_create, SlabInv
<1>2. CASE slab_release
  BY <1>2 DEF slab_release, SlabInv, Holders
<1>3. ASSUME NEW h \in Handles, Store(h) PROVE SlabInv'
  BY <1>3 DEF Store, SlabInv, Holders
<1>4. ASSUME NEW h \in Handles, NEW s \in Sizes, MallocUnit(h, s) PROVE SlabInv'
  <2>1. PICK i \in Classes :
           /\ IsFirstFit(s, i) /\ TakeUnit(i)
           /\ mem' = [mem EXCEPT ![Head(free[i])] = Zero]
           /\ Points(h, Head(free[i]), s)
           /\ line' = [line EXCEPT ![i] = Append(@, h)]
    BY <1>4 DEF MallocUnit
  <2>2. phase = "ready" /\ phase' = phase /\ ptr[h] = Null /\ UNCHANGED stored /\ free[i] # <<>>
    BY <1>4, <2>1 DEF MallocUnit, IsFirstFit, Fits
  <2>3. ClassInv(free[i], used[i], line[i], UnitsOf(i), Holders(i)) /\ h \notin Holders(i)
    BY <2>2 DEF SlabInv, Holders
  <2>4. Head(free[i]) \in UnitsOf(i)
        /\ ClassInv(Tail(free[i]), Append(used[i], Head(free[i])), Append(line[i], h), UnitsOf(i), Holders(i) \cup {h})
    BY <2>2, <2>3, ClassTake
  <2>5. /\ free' = [free EXCEPT ![i] = Tail(free[i])] /\ line' = [line EXCEPT ![i] = Append(line[i], h)]
        /\ used' = [used EXCEPT ![i] = Append(used[i], Head(free[i]))]
        /\ Tail(free[i]) \in Seq(InSlab) /\ Append(used[i], Head(free[i])) \in Seq(InSlab)
        /\ Append(line[i], h) \in Seq(Handles)
    BY <2>1, <2>4, Widen DEF TakeUnit, ClassInv
  <2>6. is_in_slab(Head(free[i])) = i /\ is_in_slab(ptr[h]) = -1
    BY <2>2, <2>4, LayoutFacts
  <2>7. Head(free[i]) \in InSlab /\ ptr' = [ptr EXCEPT ![h] = Head(free[i])] /\ size' = [size EXCEPT ![h] = s]
    BY <1>0, <2>1, <2>4 DEF Points
  <2>8. ptr' \in [Handles -> InSlab \cup Heap \cup {Null}] /\ Holders(i)' = Holders(i) \cup {h}
        /\ \A j \in Classes \ {i} : Holders(j)' = Holders(j)
    <3>1. /\ ptr' \in [Handles -> InSlab \cup Heap \cup {Null}]
          /\ \A j \in Classes : Holders(j)' = IF is_in_slab(Head(free[i])) = j THEN Holders(j) \cup {h} ELSE Holders(j) \ {h}
          /\ \A j \in Classes : h \in Holders(j) <=> is_in_slab(ptr[h]) = j
      BY <2>1, <2>7, MovePointer
    <3>2. Holders(i)' = Holders(i) \cup {h}
      BY <2>6, <3>1
    <3>3. ASSUME NEW j \in Classes \ {i} PROVE Holders(j)' = Holders(j)
      <4>1. h \notin Holders(j)
        BY <2>6, <3>1, ClassOf
      <4>2. Holders(j)' = Holders(j) \ {h}
        BY <2>6, <3>1
      <4> QED
        BY <4>1, <4>2
    <3> QED
      BY <3>1, <3>2, <3>3
  <2>9. \A j \in Classes : ClassInv(free'[j], used'[j], line'[j], UnitsOf(j), Holders(j)')
    BY <2>2, <2>4, <2>5, <2>8, OneClass DEF SlabInv
  <2> QED
    BY <2>1, <2>2, <2>5, <2>7, <2>8, <2>9, SlabAssumption DEF SlabInv
<1>5. ASSUME NEW h \in Handles, NEW s \in Sizes, MallocBlock(h, s) PROVE SlabInv'
  <2>1. PICK p \in Heap : mem' = [mem EXCEPT ![p] = Zero] /\ Points(h, p, s)
    BY <1>5 DEF MallocBlock
  <2>2. phase = "ready" /\ ptr[h] = Null /\ UNCHANGED <<phase, free, used, stored, line>>
    BY <1>5 DEF MallocBlock
  <2>3. is_in_slab(p) = -1 /\ is_in_slab(ptr[h]) = -1
    BY <2>2, LayoutFacts
  <2>4. ptr' \in [Handles -> InSlab \cup Heap \cup {Null}] /\ \A j \in Classes : Holders(j)' = Holders(j)
    <3>1. /\ ptr' \in [Handles -> InSlab \cup Heap \cup {Null}]
          /\ \A i \in Classes :
                Holders(i)' = IF is_in_slab(p) = i THEN Holders(i) \cup {h} ELSE Holders(i) \ {h}
          /\ \A i \in Classes : h \in Holders(i) <=> is_in_slab(ptr[h]) = i
      BY <2>1, MovePointer
    <3> QED
      BY <2>3, <3>1, ClassOf
  <2> QED
    BY <2>1, <2>2, <2>4, SlabAssumption DEF SlabInv, Points
<1>6. ASSUME NEW h \in Handles, NEW i \in Classes, phase = "ready", phase' = phase,
             is_in_slab(ptr[h]) = i, RecycleUnit(i), Leaves(h, i),
             NEW p \in Heap \cup {Null}, NEW s, Points(h, p, s)
      PROVE  /\ free' \in [Classes -> Seq(InSlab)] /\ used' \in [Classes -> Seq(InSlab)]
             /\ line' \in [Classes -> Seq(Handles)] /\ ptr' \in [Handles -> InSlab \cup Heap \cup {Null}]
             /\ Head(used[i]) \in InSlab
             /\ \A j \in Classes : ClassInv(free'[j], used'[j], line'[j], UnitsOf(j), Holders(j)')
  <2>1. PICK k \in 1..Len(line[i]) : line[i][k] = h /\ line' = [line EXCEPT ![i] = RemoveAt(line[i], k)]
    BY <1>6 DEF Leaves
  <2>2. ClassInv(free[i], used[i], line[i], UnitsOf(i), Holders(i))
    BY <1>6 DEF SlabInv
  <2>3. Head(used[i]) \in UnitsOf(i)
        /\ ClassInv(Append(free[i], Head(used[i])), Tail(used[i]), RemoveAt(line[i], k), UnitsOf(i), Holders(i) \ {h})
    BY <2>1, <2>2, ClassRecycle
  <2>4. /\ free' = [free EXCEPT ![i] = Append(free[i], Head(used[i]))]
        /\ used' = [used EXCEPT ![i] = Tail(used[i])]
        /\ Append(free[i], Head(used[i])) \in Seq(InSlab) /\ Tail(used[i]) \in Seq(InSlab)
        /\ RemoveAt(line[i], k) \in Seq(Handles)
    BY <1>6, <2>3, Widen DEF RecycleUnit, ClassInv
  <2>5. is_in_slab(p) = -1
    BY LayoutFacts
  <2>6. ptr' \in [Handles -> InSlab \cup Heap \cup {Null}] /\ Holders(i)' = Holders(i) \ {h}
        /\ \A j \in Classes \ {i} : Holders(j)' = Holders(j)
    <3>1. /\ ptr' \in [Handles -> InSlab \cup Heap \cup {Null}]
          /\ \A j \in Classes : Holders(j)' = IF is_in_slab(p) = j THEN Holders(j) \cup {h} ELSE Holders(j) \ {h}
          /\ \A j \in Classes : h \in Holders(j) <=> is_in_slab(ptr[h]) = j
      BY <1>6, MovePointer
    <3>2. Holders(i)' = Holders(i) \ {h}
      BY <2>5, <3>1, ClassOf
    <3>3. ASSUME NEW j \in Classes \ {i} PROVE Holders(j)' = Holders(j)
      <4>1. h \notin Holders(j)
        BY <1>6, <3>1
      <4>2. Holders(j)' = Holders(j) \ {h}
        BY <2>5, <3>1, ClassOf
      <4> QED
        BY <4>1, <4>2
    <3> QED
      BY <3>1, <3>2, <3>3
  <2>7. \A j \in Classes : ClassInv(free'[j], used'[j], line'[j], UnitsOf(j), Holders(j)')
    BY <1>6, <2>1, <2>3, <2>4, <2>6, OneClass DEF SlabInv
  <2> QED
    BY <1>0, <2>1, <2>3, <2>4, <2>6, <2>7 DEF SlabInv
<1>7. ASSUME NEW h \in Handles, FreeUnit(h) PROVE SlabInv'
  <2>1. PICK i \in Classes : is_in_slab(ptr[h]) = i
    BY <1>7, ClassOf DEF FreeUnit
  <2>2. /\ phase = "ready" /\ phase' = phase /\ RecycleUnit(i) /\ Leaves(h, i)
        /\ Points(h, Null, 0) /\ size' = [size EXCEPT ![h] = 0]
        /\ mem' = [mem EXCEPT ![Head(used[i])] = Zero] /\ stored' = stored \ {h}
    BY <1>7, <2>1 DEF FreeUnit, Points
  <2> QED
    BY <1>6, <2>1, <2>2 DEF SlabInv
<1>8. ASSUME NEW h \in Handles, FreeBlock(h) PROVE SlabInv'
  <2>1. /\ phase = "ready" /\ is_in_slab(ptr[h]) = -1 /\ Points(h, Null, 0)
        /\ size' = [size EXCEPT ![h] = 0] /\ mem' = [mem EXCEPT ![ptr[h]] = Zero] /\ stored' = stored \ {h}
        /\ UNCHANGED <<phase, free, used, line>>
    BY <1>8 DEF FreeBlock, Points
  <2>2. ptr' \in [Handles -> InSlab \cup Heap \cup {Null}] /\ \A j \in Classes : Holders(j)' = Holders(j)
    <3>1. /\ ptr' \in [Handles -> InSlab \cup Heap \cup {Null}]
          /\ \A j \in Classes : Holders(j)' = IF is_in_slab(Null) = j THEN Holders(j) \cup {h} ELSE Holders(j) \ {h}
          /\ \A j \in Classes : h \in Holders(j) <=> is_in_slab(ptr[h]) = j
      BY <2>1, MovePointer
    <3>2. is_in_slab(Null) = -1
      BY LayoutFacts
    <3>3. ASSUME NEW j \in Classes PROVE Holders(j)' = Holders(j)
      <4>1. h \notin Holders(j)
        BY <2>1, <3>1, ClassOf
      <4>2. Holders(j)' = Holders(j) \ {h}
        BY <3>1, <3>2, ClassOf
      <4> QED
        BY <4>1, <4>2
    <3> QED
      BY <3>1, <3>3
  <2> QED
    BY <2>1, <2>2 DEF SlabInv
<1>9. ASSUME NEW h \in Handles, NEW s \in Sizes, ReallocInPlace(h, s) PROVE SlabInv'
  BY <1>9, SlabAssumption DEF ReallocInPlace, SlabInv, Holders
<1>10. ASSUME NEW h \in Handles, ptr[h] # Null, NEW n PROVE Copied(h, n) \in Handles \cup {Zero, Part}
  BY <1>10 DEF Copied, SlabInv
<1>11. ASSUME NEW h \in Handles, NEW s \in Sizes, ReallocToUnit(h, s) PROVE SlabInv'
  <2>1. PICK g \in Classes : is_in_slab(ptr[h]) = g
    BY <1>11, ClassOf DEF ReallocToUnit
  <2>2. phase = "ready" /\ phase' = phase /\ ptr[h] # Null /\ s > UnitSize[g] /\ UNCHANGED stored
    BY <1>11, <2>1, ClassOf DEF ReallocToUnit, MayRealloc, SizeAt
  <2>3. PICK i \in Classes :
           /\ IsFirstFit(s, i)
           /\ used' = [used EXCEPT ![i] = Append(used[i], Head(free[i])), ![g] = Tail(used[g])]
           /\ free' = [free EXCEPT ![i] = Tail(free[i]), ![g] = Append(free[g], Head(used[g]))]
           /\ mem' = [mem EXCEPT ![Head(free[i])] = Copied(h, SizeAt(g)), ![Head(used[g])] = Zero]
           /\ Points(h, Head(free[i]), s)
           /\ \E k \in 1..Len(line[g]) :
                 /\ line[g][k] = h
                 /\ line' = [line EXCEPT ![g] = RemoveAt(line[g], k), ![i] = Append(line[i], h)]
    <3>1. \E i \in Classes : s <= UnitSize[i] /\ i # g /\ IsFirstFit(s, i) /\
             LET new == Head(free[i])  old == Head(used[g]) IN
             /\ used' = [used EXCEPT ![i] = Append(@, new), ![g] = Tail(@)]
             /\ free' = [free EXCEPT ![i] = Tail(@), ![g] = Append(@, old)]
             /\ mem' = [mem EXCEPT ![new] = Copied(h, SizeAt(g)), ![old] = Zero]
             /\ Points(h, new, s)
             /\ \E k \in 1..Len(line[g]) :
                   /\ line[g][k] = h
                   /\ line' = [line EXCEPT ![g] = RemoveAt(@, k), ![i] = Append(@, h)]
      <4>1. ASSUME NEW i \in Classes, IsFirstFit(s, i) PROVE s <= UnitSize[i] /\ i # g
        BY <2>2, <4>1, LayoutFacts, SlabAssumption DEF IsFirstFit, Fits
      <4> QED
        BY <1>11, <2>1, <4>1 DEF ReallocToUnit
    <3> QED
      BY <3>1 DEF SlabInv
  <2>4. PICK k \in 1..Len(line[g]) : line[g][k] = h
            /\ line' = [line EXCEPT ![g] = RemoveAt(line[g], k), ![i] = Append(line[i], h)]
    BY <2>3
  <2>5. i # g /\ free[i] # <<>>
    BY <2>2, <2>3, LayoutFacts, SlabAssumption DEF IsFirstFit, Fits
  <2>6. ClassInv(free[i], used[i], line[i], UnitsOf(i), Holders(i)) /\ h \notin Holders(i)
        /\ ClassInv(free[g], used[g], line[g], UnitsOf(g), Holders(g))
    BY <2>1, <2>2, <2>5 DEF SlabInv, Holders
  <2>7. Head(free[i]) \in UnitsOf(i)
        /\ ClassInv(Tail(free[i]), Append(used[i], Head(free[i])), Append(line[i], h), UnitsOf(i), Holders(i) \cup {h})
    BY <2>5, <2>6, ClassTake
  <2>8. Head(used[g]) \in UnitsOf(g)
        /\ ClassInv(Append(free[g], Head(used[g])), Tail(used[g]), RemoveAt(line[g], k), UnitsOf(g), Holders(g) \ {h})
    BY <2>4, <2>6, ClassRecycle
  <2>9. is_in_slab(Head(free[i])) = i /\ Head(free[i]) \in InSlab /\ ptr' = [ptr EXCEPT ![h] = Head(free[i])]
    BY <1>0, <2>3, <2>7, LayoutFacts DEF Points
  <2>10. ptr' \in [Handles -> InSlab \cup Heap \cup {Null}]
         /\ Holders(i)' = Holders(i) \cup {h} /\ Holders(g)' = Holders(g) \ {h}
         /\ \A j \in Classes \ {i, g} : Holders(j)' = Holders(j)
    <3>1. /\ ptr' \in [Handles -> InSlab \cup Heap \cup {Null}]
          /\ \A j \in Classes : Holders(j)' = IF is_in_slab(Head(free[i])) = j THEN Holders(j) \cup {h} ELSE Holders(j) \ {h}
          /\ \A j \in Classes : h \in Holders(j) <=> is_in_slab(ptr[h]) = j
      BY <2>3, <2>9, MovePointer
    <3>2. Holders(i)' = Holders(i) \cup {h}
      BY <2>9, <3>1
    <3>3. ASSUME NEW j \in Classes \ {i} PROVE Holders(j)' = Holders(j) \ {h}
      BY <2>9, <3>1
    <3>4. ASSUME NEW j \in Classes \ {i, g} PROVE Holders(j)' = Holders(j)
      <4>1. h \notin Holders(j)
        BY <2>1, <3>1
      <4> QED
        BY <3>3, <4>1
    <3> QED
      BY <2>5, <3>1, <3>2, <3>3, <3>4
  <2>11. /\ Tail(free[i]) \in Seq(InSlab) /\ Append(used[i], Head(free[i])) \in Seq(InSlab)
         /\ Append(line[i], h) \in Seq(Handles)
         /\ Append(free[g], Head(used[g])) \in Seq(InSlab) /\ Tail(used[g]) \in Seq(InSlab)
         /\ RemoveAt(line[g], k) \in Seq(Handles)
    BY <2>7, <2>8, Widen DEF ClassInv
  <2>12. free' \in [Classes -> Seq(InSlab)] /\ used' \in [Classes -> Seq(InSlab)] /\ line' \in [Classes -> Seq(Handles)]
    BY <2>3, <2>4, <2>11 DEF SlabInv
  <2>13. ASSUME NEW j \in Classes PROVE ClassInv(free'[j], used'[j], line'[j], UnitsOf(j), Holders(j)')
    <3>1. CASE j = i
      BY <2>3, <2>4, <2>5, <2>7, <2>10, <3>1 DEF SlabInv
    <3>2. CASE j = g
      BY <2>3, <2>4, <2>5, <2>8, <2>10, <3>2 DEF SlabInv
    <3>3. CASE j # i /\ j # g
      BY <2>2, <2>3, <2>4, <2>10, <3>3 DEF SlabInv
    <3> QED
      BY <3>1, <3>2, <3>3
  <2>14. mem' \in [InSlab \cup Heap -> Handles \cup {Zero, Part}]
    BY <1>10, <2>2, <2>3 DEF SlabInv
  <2>15. size' \in [Handles -> Nat]
    BY <2>3, SlabAssumption DEF Points, SlabInv
  <2> QED
    BY <2>2, <2>10, <2>12, <2>13, <2>14, <2>15 DEF SlabInv
<1>12. ASSUME NEW h \in Handles, NEW s \in Sizes, ReallocToBlock(h, s) PROVE SlabInv'
  <2>1. PICK i \in Classes : is_in_slab(ptr[h]) = i
    BY <1>12, ClassOf DEF ReallocToBlock
  <2>2. phase = "ready" /\ phase' = phase /\ ptr[h] # Null /\ UNCHANGED stored /\ Leaves(h, i)
    BY <1>12, <2>1 DEF ReallocToBlock, MayRealloc
  <2>3. PICK p \in Heap :
           /\ RecycleUnit(i) /\ Points(h, p, s)
           /\ mem' = [mem EXCEPT ![p] = Copied(h, SizeAt(i)), ![Head(used[i])] = Zero]
    BY <1>12, <2>1 DEF ReallocToBlock
  <2>4. mem' \in [InSlab \cup Heap -> Handles \cup {Zero, Part}] /\ size' \in [Handles -> Nat]
    BY <1>10, <2>2, <2>3, SlabAssumption DEF SlabInv, Points
  <2> QED
    BY <1>6, <2>1, <2>2, <2>3, <2>4 DEF SlabInv
<1>13. ASSUME NEW h \in Handles, NEW s \in Sizes, ReallocBlock(h, s) PROVE SlabInv'
  <2>1. phase = "ready" /\ phase' = phase /\ ptr[h] # Null /\ is_in_slab(ptr[h]) = -1 /\ UNCHANGED stored
    BY <1>13 DEF ReallocBlock, MayRealloc
  <2>2. ASSUME NEW i \in Classes, IsFirstFit(s, i), TakeUnit(i),
               mem' = [mem EXCEPT ![Head(free[i])] = Copied(h, SizeAt(-1)), ![ptr[h]] = Zero],
               Points(h, Head(free[i]), s), line' = [line EXCEPT ![i] = Append(@, h)]
        PROVE  SlabInv'
    <3>1. ClassInv(free[i], used[i], line[i], UnitsOf(i), Holders(i)) /\ h \notin Holders(i) /\ free[i] # <<>>
      BY <2>1, <2>2, ClassOf DEF SlabInv, Holders, IsFirstFit, Fits
    <3>2. Head(free[i]) \in UnitsOf(i)
          /\ ClassInv(Tail(free[i]), Append(used[i], Head(free[i])), Append(line[i], h), UnitsOf(i), Holders(i) \cup {h})
      BY <3>1, ClassTake
    <3>3. /\ free' = [free EXCEPT ![i] = Tail(free[i])] /\ line' = [line EXCEPT ![i] = Append(line[i], h)]
          /\ used' = [used EXCEPT ![i] = Append(used[i], Head(free[i]))]
          /\ Tail(free[i]) \in Seq(InSlab) /\ Append(used[i], Head(free[i])) \in Seq(InSlab)
          /\ Append(line[i], h) \in Seq(Handles)
      BY <2>2, <3>2, Widen DEF TakeUnit, ClassInv
    <3>4. is_in_slab(Head(free[i])) = i /\ Head(free[i]) \in InSlab
          /\ ptr' = [ptr EXCEPT ![h] = Head(free[i])] /\ size' = [size EXCEPT ![h] = s]
      BY <1>0, <2>2, <3>2, LayoutFacts DEF Points
    <3>5. ptr' \in [Handles -> InSlab \cup Heap \cup {Null}] /\ Holders(i)' = Holders(i) \cup {h}
          /\ \A j \in Classes \ {i} : Holders(j)' = Holders(j)
      <4>1. /\ ptr' \in [Handles -> InSlab \cup Heap \cup {Null}]
            /\ \A j \in Classes : Holders(j)' = IF is_in_slab(Head(free[i])) = j THEN Holders(j) \cup {h} ELSE Holders(j) \ {h}
            /\ \A j \in Classes : h \in Holders(j) <=> is_in_slab(ptr[h]) = j
        BY <2>2, <3>4, MovePointer
      <4> QED
        BY <2>1, <3>4, <4>1, ClassOf
    <3>6. \A j \in Classes : ClassInv(free'[j], used'[j], line'[j], UnitsOf(j), Holders(j)')
      BY <2>1, <3>2, <3>3, <3>5, OneClass DEF SlabInv
    <3>7. mem' \in [InSlab \cup Heap -> Handles \cup {Zero, Part}]
      BY <1>10, <2>1, <2>2 DEF SlabInv
    <3> QED
      BY <2>1, <3>3, <3>4, <3>5, <3>6, <3>7, SlabAssumption DEF SlabInv
  <2>3. ASSUME NEW p \in Heap, Points(h, p, s), UNCHANGED <<free, used, line>>,
               mem' = [mem EXCEPT ![p] = Copied(h, SizeAt(-1)), ![ptr[h]] = Zero]
        PROVE  SlabInv'
    <3>1. is_in_slab(p) = -1 /\ ptr' = [ptr EXCEPT ![h] = p] /\ size' = [size EXCEPT ![h] = s]
      BY <2>3, LayoutFacts DEF Points
    <3>2. ptr' \in [Handles -> InSlab \cup Heap \cup {Null}] /\ \A j \in Classes : Holders(j)' = Holders(j)
      BY <2>1, <2>3, <3>1, MovePointer, ClassOf
    <3>3. mem' \in [InSlab \cup Heap -> Handles \cup {Zero, Part}]
      BY <1>10, <2>1, <2>3 DEF SlabInv
    <3> QED
      BY <2>1, <2>3, <3>1, <3>2, <3>3, SlabAssumption DEF SlabInv
  <2> QED
    BY <1>13, <2>2, <2>3 DEF ReallocBlock
<1>14. CASE UNCHANGED vars
  BY <1>14 DEF vars, SlabInv, Holders
<1> QED
  BY <1>1, <1>2, <1>3, <1>4, <1>5, <1>7, <1>8, <1>9, <1>11, <1>12, <1>13, <1>14 DEF Next
-----------------------------------------------------------------------------
HistoryTyped == outOfTurn \subseteq Classes /\ risk \subseteq Handles

LEMMA HistoryStep ==
    ASSUME HistoryTyped, [Next]_vars
    PROVE  HistoryTyped'
<1> USE DEF HistoryTyped, AtRisk
<1>1. \A i : is_in_slab(i) # -1 => is_in_slab(i) \in Classes
  BY ClassOf
<1>2. ASSUME NEW h \in Handles, NEW i \in Classes, Turn(h, i) PROVE outOfTurn' \subseteq Classes
  BY <1>2 DEF Turn
<1>3. ASSUME NEW h \in Handles, FreeUnit(h) PROVE HistoryTyped'
  BY <1>1, <1>2, <1>3 DEF FreeUnit, Leaves
<1>4. ASSUME NEW h \in Handles, NEW s \in Sizes, ReallocToUnit(h, s) \/ ReallocToBlock(h, s) PROVE HistoryTyped'
  BY <1>1, <1>2, <1>4 DEF ReallocToUnit, ReallocToBlock, Leaves
<1>5. ASSUME NEW h \in Handles, NEW s \in Sizes,
             MallocUnit(h, s) \/ MallocBlock(h, s) \/ ReallocInPlace(h, s) \/ ReallocBlock(h, s)
      PROVE  HistoryTyped'
  BY <1>5 DEF MallocUnit, MallocBlock, ReallocInPlace, ReallocBlock
<1>6. ASSUME NEW h \in Handles, Store(h) \/ FreeBlock(h) PROVE HistoryTyped'
  BY <1>6 DEF Store, FreeBlock
<1>7. CASE slab_create \/ slab_release \/ UNCHANGED vars
  BY <1>7 DEF slab_create, slab_release, vars
<1> QED
  BY <1>3, <1>4, <1>5, <1>6, <1>7 DEF Next

\* Every state of the code has well-formed lists and pointers: free lists, used
\* lists and client pointers of comm_slab.c.
THEOREM TypeCorrect == Spec => []TypeOK
<1>1. Init => SlabInv /\ HistoryTyped
  BY InitInv DEF Init, HistoryTyped
<1>2. SlabInv /\ HistoryTyped /\ [Next]_vars => (SlabInv /\ HistoryTyped)'
  BY SlabInductive, HistoryStep
<1>3. SlabInv /\ HistoryTyped => TypeOK
  BY DEF SlabInv, HistoryTyped, TypeOK
<1> QED
  BY <1>1, <1>2, <1>3, PTL DEF Spec

\* Whatever the clients do, slab_malloc, slab_free and slab_realloc never lose
\* a unit of the region and never list one twice.
THEOREM Partition == Spec => []UnitsPartitioned
<1>1. Init => SlabInv
  BY InitInv
<1>2. SlabInv /\ [Next]_vars => SlabInv'
  BY SlabInductive
<1>3. SlabInv => UnitsPartitioned
  BY DEF SlabInv, UnitsPartitioned, ClassInv
<1> QED
  BY <1>1, <1>2, <1>3, PTL DEF Spec

\* slab_free, which takes the head of a used list without a look at whether
\* the list is empty, always finds a unit there: a class has as many used
\* units as clients hold pointers into it.
THEOREM NeverEmptyHanded == Spec => []UsedMatchesLive
<1>1. Init => SlabInv
  BY InitInv
<1>2. SlabInv /\ [Next]_vars => SlabInv'
  BY SlabInductive
<1>3. SlabInv => UsedMatchesLive
  <2> SUFFICES ASSUME SlabInv, NEW i \in Classes
               PROVE  Len(used[i]) = Len(line[i]) /\ ToSet(line[i]) = Holders(i)
    BY DEF UsedMatchesLive, Holders
  <2>1. CASE phase = "none"
    <3>1. used[i] = <<>> /\ line[i] = <<>> /\ Holders(i) = {} /\ ToSet(<<>>) = {}
      BY <2>1 DEF SlabInv, Holders, ToSet
    <3> QED
      BY <3>1
  <2>2. CASE phase # "none"
    BY <2>2 DEF SlabInv, ClassInv
  <2> QED
    BY <2>1, <2>2
<1> QED
  BY <1>1, <1>2, <1>3, PTL DEF Spec

\* Where slab_create put the units and where is_in_slab looks for them agree,
\* for any number of classes, unit size and numbers of units: no unit overlaps
\* another, each of a unit's bytes is found in the unit's class, and neither
\* NULL nor a block from malloc in any.
THEOREM LayoutRight == Spec => []LayoutOK
<1>1. Init => LayoutOK
  BY LayoutHolds DEF LayoutOK
<1>2. LayoutOK /\ [Next]_vars => LayoutOK'
  BY LayoutHolds DEF LayoutOK
<1> QED
  BY <1>1, <1>2, PTL DEF Spec

-----------------------------------------------------------------------------
(* While a class is in turn, the k-th handle of its line points to the k-th *)
(* unit of its used list.                                                   *)

Aligned(u, l, P) == \A k \in 1..Len(l) : P[l[k]] = u[k]

BlocksApart == \A g, h \in Handles :
    g # h /\ ptr[g] # Null /\ is_in_slab(ptr[g]) = -1 => ptr[g] # ptr[h]

QueueInv ==
    /\ SlabInv
    /\ BlocksApart
    /\ \A i \in Classes \ outOfTurn : Aligned(used[i], line[i], ptr)

LEMMA AlignTake ==
    ASSUME NEW U, NEW H, NEW f, NEW u, NEW l, ClassInv(f, u, l, U, H), NEW h \in Handles \ H,
           NEW T, NEW P \in [Handles -> T], Aligned(u, l, P), NEW e \in U
    PROVE  Aligned(Append(u, e), Append(l, h), [P EXCEPT ![h] = e])
<1> DEFINE Q == [P EXCEPT ![h] = e]  v == Append(u, e)  m == Append(l, h)
<1>1. /\ Len(u) = Len(l) /\ Len(l) \in Nat /\ Len(m) = Len(l) + 1
      /\ \A k \in 1..Len(l) : v[k] = u[k] /\ m[k] = l[k] /\ l[k] \in Handles
      /\ v[Len(l) + 1] = e /\ m[Len(l) + 1] = h
  BY AppendFacts DEF ClassInv
<1>2. \A k \in 1..Len(l) : l[k] # h
  BY Members DEF ClassInv
<1>3. Q[h] = e /\ \A g \in Handles \ {h} : Q[g] = P[g]
  OBVIOUS
<1> HIDE DEF Q, v, m
<1>4. ASSUME NEW k \in 1..Len(m) PROVE Q[m[k]] = v[k]
  <2>1. CASE k = Len(l) + 1
    BY <1>1, <1>3, <2>1
  <2>2. CASE k # Len(l) + 1
    <3>1. k \in 1..Len(l)
      BY <1>1, <2>2
    <3> QED
      BY <1>1, <1>2, <1>3, <3>1 DEF Aligned
  <2> QED
    BY <2>1, <2>2
<1> QED
  BY <1>4 DEF Aligned, Q, v, m

LEMMA AlignRecycle ==
    ASSUME NEW U, NEW H, NEW f, NEW u, NEW l, ClassInv(f, u, l, U, H), l # <<>>,
           NEW T, NEW P \in [Handles -> T], Aligned(u, l, P), NEW e
    PROVE  Aligned(Tail(u), RemoveAt(l, 1), [P EXCEPT ![l[1]] = e])
<1> DEFINE Q == [P EXCEPT ![l[1]] = e]  v == Tail(u)  m == RemoveAt(l, 1)
<1>1. u # <<>> /\ Len(u) = Len(l)
  BY DEF ClassInv
<1>2. /\ Len(l) \in Nat \ {0} /\ Len(m) = Len(l) - 1 /\ 1 \in 1..Len(l)
      /\ \A k \in 1..(Len(l) - 1) : v[k] = u[k + 1] /\ m[k] = l[k + 1]
  <2>1. l \in Seq(Handles) /\ u \in Seq(U) /\ 1 \in 1..Len(l)
    BY TailIsRemove DEF ClassInv
  <2>2. \A k \in 1..(Len(l) - 1) : v[k] = u[k + 1]
    BY <1>1, <2>1, TailFacts
  <2>3. /\ Len(l) \in Nat \ {0} /\ Len(m) = Len(l) - 1
        /\ \A k \in 1..(Len(l) - 1) : m[k] = l[k + 1]
    <3>1. /\ Len(l) \in Nat \ {0} /\ Len(m) = Len(l) - 1
          /\ \A k \in 1..(Len(l) - 1) : m[k] = IF k < 1 THEN l[k] ELSE l[k + 1]
      BY <2>1, RemoveFacts
    <3> HIDE DEF m
    <3> QED
      BY <3>1
  <2> QED
    BY <2>1, <2>2, <2>3
<1>3. \A k \in 1..Len(l) : l[k] \in Handles
  BY DEF ClassInv
<1>4. \A k \in 1..(Len(l) - 1) : l[k + 1] # l[1]
  <2>1. \A a, b \in 1..Len(l) : l[a] = l[b] => a = b
    BY Members DEF ClassInv
  <2> QED
    BY <1>2, <2>1
<1>5. \A g \in Handles \ {l[1]} : Q[g] = P[g]
  BY <1>2, <1>3
<1> HIDE DEF Q, v, m
<1>6. ASSUME NEW k \in 1..Len(m) PROVE Q[m[k]] = v[k]
  <2>1. k \in 1..(Len(l) - 1) /\ k + 1 \in 1..Len(l)
    BY <1>2
  <2>2. Q[l[k + 1]] = P[l[k + 1]] /\ P[l[k + 1]] = u[k + 1]
    BY <1>3, <1>4, <1>5, <2>1 DEF Aligned
  <2> QED
    BY <1>2, <2>1, <2>2
<1> QED
  BY <1>6 DEF Aligned, Q, v, m

LEMMA AlignOther ==
    ASSUME NEW U, NEW H, NEW f, NEW u, NEW l, ClassInv(f, u, l, U, H), NEW h \in Handles \ H,
           NEW T, NEW P \in [Handles -> T], Aligned(u, l, P), NEW e
    PROVE  Aligned(u, l, [P EXCEPT ![h] = e])
<1>1. \A k \in 1..Len(l) : l[k] \in Handles /\ l[k] # h
  BY Members DEF ClassInv
<1> QED
  BY <1>1 DEF Aligned

\* A pointer that becomes NULL, a unit, or a block nobody holds leaves the
\* blocks apart.
LEMMA StayApart ==
    ASSUME QueueInv, NEW h \in Handles, NEW p, NEW s, Points(h, p, s),
           p = Null \/ is_in_slab(p) # -1 \/ \A g \in Handles : ptr[g] # p
    PROVE  BlocksApart'
BY DEF QueueInv, SlabInv, BlocksApart, Points

LEMMA QueueInductive ==
    ASSUME QueueInv, [Next]_vars
    PROVE  QueueInv'
<1> DEFINE T == InSlab \cup Heap \cup {Null}
<1>1. SlabInv /\ SlabInv' /\ ptr \in [Handles -> T]
  BY SlabInductive DEF QueueInv, SlabInv
<1> HIDE DEF T
<1>2. CASE slab_create \/ slab_release \/ UNCHANGED vars
  BY <1>1, <1>2 DEF slab_create, slab_release, vars, QueueInv, BlocksApart
<1>3. ASSUME NEW h \in Handles, Store(h) PROVE QueueInv'
  BY <1>1, <1>3 DEF Store, QueueInv, BlocksApart
<1>4. ASSUME NEW h \in Handles, NEW s \in Sizes, ReallocInPlace(h, s) PROVE QueueInv'
  BY <1>1, <1>4 DEF ReallocInPlace, QueueInv, BlocksApart
<1>5. ASSUME NEW h \in Handles, NEW j \in Classes \ outOfTurn, phase = "ready", is_in_slab(ptr[h]) # j,
             NEW e, ptr' = [ptr EXCEPT ![h] = e], used'[j] = used[j], line'[j] = line[j]
      PROVE  Aligned(used'[j], line'[j], ptr')
  <2>1. ClassInv(free[j], used[j], line[j], UnitsOf(j), Holders(j)) /\ h \in Handles \ Holders(j)
    BY <1>1, <1>5 DEF SlabInv, Holders
  <2>2. Aligned(used[j], line[j], [ptr EXCEPT ![h] = e])
    BY <1>1, <2>1, AlignOther DEF QueueInv
  <2> QED
    BY <1>5, <2>2
<1>6. ASSUME NEW h \in Handles, NEW i \in Classes, phase = "ready", is_in_slab(ptr[h]) # i,
             free[i] # <<>>, ptr' = [ptr EXCEPT ![h] = Head(free[i])],
             used'[i] = Append(used[i], Head(free[i])), line'[i] = Append(line[i], h)
      PROVE  /\ i \notin outOfTurn => Aligned(used'[i], line'[i], ptr')
             /\ is_in_slab(Head(free[i])) = i
  <2>1. ClassInv(free[i], used[i], line[i], UnitsOf(i), Holders(i)) /\ h \in Handles \ Holders(i)
    BY <1>1, <1>6 DEF SlabInv, Holders
  <2>2. Head(free[i]) \in UnitsOf(i)
    BY <1>6, <2>1, ClassTake
  <2>3. i \notin outOfTurn =>
           Aligned(Append(used[i], Head(free[i])), Append(line[i], h), [ptr EXCEPT ![h] = Head(free[i])])
    BY <1>1, <2>1, <2>2, AlignTake DEF QueueInv
  <2> QED
    BY <1>6, <2>2, <2>3, LayoutFacts
<1>7. ASSUME NEW h \in Handles, NEW i \in Classes \ outOfTurn, phase = "ready", line[i] # <<>>, line[i][1] = h,
             NEW e, ptr' = [ptr EXCEPT ![h] = e],
             used'[i] = Tail(used[i]), line'[i] = RemoveAt(line[i], 1)
      PROVE  Aligned(used'[i], line'[i], ptr')
  <2>1. ClassInv(free[i], used[i], line[i], UnitsOf(i), Holders(i))
    BY <1>1, <1>7 DEF SlabInv
  <2>2. Aligned(Tail(used[i]), RemoveAt(line[i], 1), [ptr EXCEPT ![line[i][1]] = e])
    BY <1>1, <1>7, <2>1, AlignRecycle DEF QueueInv
  <2> QED
    BY <1>7, <2>2
<1>8. ASSUME NEW h \in Handles, NEW i \in Classes, phase = "ready", NEW k \in 1..Len(line[i]),
             line[i][k] = h, line'[i] = RemoveAt(line[i], k), Turn(h, i)
      PROVE  /\ \A j \in Classes \ outOfTurn' : j \notin outOfTurn \/ line'[j] = <<>>
             /\ i \notin outOfTurn' /\ line'[i] # <<>> =>
                   line[i] # <<>> /\ line[i][1] = h /\ line'[i] = RemoveAt(line[i], 1)
  <2>1. ClassInv(free[i], used[i], line[i], UnitsOf(i), Holders(i))
    BY <1>1, <1>8 DEF SlabInv
  <2>2. line[i] # <<>> /\ Head(line[i]) = line[i][1] /\ 1 \in 1..Len(line[i])
    BY <1>8, <2>1 DEF ClassInv
  <2>3. line[i][1] = h => k = 1
    BY <1>8, <2>1, <2>2, Members DEF ClassInv
  <2> QED
    BY <1>8, <2>2, <2>3 DEF Turn
<1>8a. ASSUME NEW j \in Classes, line'[j] = <<>> PROVE Aligned(used'[j], line'[j], ptr')
  BY <1>8a DEF Aligned
<1>9. ASSUME NEW h \in Handles, NEW s \in Sizes, MallocUnit(h, s) PROVE QueueInv'
  <2>1. PICK i \in Classes :
           /\ IsFirstFit(s, i) /\ TakeUnit(i)
           /\ Points(h, Head(free[i]), s)
           /\ line' = [line EXCEPT ![i] = Append(@, h)]
    BY <1>9 DEF MallocUnit
  <2>2. phase = "ready" /\ is_in_slab(ptr[h]) = -1 /\ free[i] # <<>>
        /\ ptr' = [ptr EXCEPT ![h] = Head(free[i])]
    BY <1>9, <2>1, LayoutFacts DEF MallocUnit, IsFirstFit, Fits, Points
  <2>3. /\ used'[i] = Append(used[i], Head(free[i])) /\ line'[i] = Append(line[i], h)
        /\ \A j \in Classes \ {i} : used'[j] = used[j] /\ line'[j] = line[j]
        /\ outOfTurn' = outOfTurn
    BY <1>1, <1>9, <2>1 DEF MallocUnit, TakeUnit, SlabInv
  <2>4. (i \notin outOfTurn => Aligned(used'[i], line'[i], ptr')) /\ is_in_slab(Head(free[i])) = i
    BY <1>6, <2>2, <2>3, ClassOf
  <2>5. \A j \in Classes \ outOfTurn : j # i => Aligned(used'[j], line'[j], ptr')
    BY <1>5, <2>2, <2>3, ClassOf
  <2>6. BlocksApart'
    BY <2>1, <2>4, StayApart, ClassOf
  <2> QED
    BY <1>1, <2>3, <2>4, <2>5, <2>6 DEF QueueInv
<1>10. ASSUME NEW h \in Handles, NEW p, NEW s, phase = "ready", is_in_slab(ptr[h]) = -1,
              Points(h, p, s), p = Null \/ IsNextBlock(p), UNCHANGED <<used, line, outOfTurn>>
       PROVE  QueueInv'
  <2>1. BlocksApart'
    BY <1>10, StayApart DEF IsNextBlock
  <2>2. \A j \in Classes \ outOfTurn : Aligned(used'[j], line'[j], ptr')
    BY <1>5, <1>10, ClassOf DEF Points
  <2> QED
    BY <1>1, <1>10, <2>1, <2>2 DEF QueueInv
<1>11. ASSUME NEW h \in Handles, NEW p, NEW s, NEW i \in Classes, phase = "ready", is_in_slab(ptr[h]) = i,
              Points(h, p, s), p = Null \/ IsNextBlock(p), RecycleUnit(i), Leaves(h, i)
       PROVE  QueueInv'
  <2>1. BlocksApart'
    BY <1>11, StayApart DEF IsNextBlock
  <2>2. PICK k \in 1..Len(line[i]) : line[i][k] = h /\ line' = [line EXCEPT ![i] = RemoveAt(@, k)]
    BY <1>11 DEF Leaves
  <2>3. /\ ptr' = [ptr EXCEPT ![h] = p] /\ used'[i] = Tail(used[i]) /\ line'[i] = RemoveAt(line[i], k)
        /\ \A j \in Classes \ {i} : used'[j] = used[j] /\ line'[j] = line[j]
    BY <1>1, <1>11, <2>2 DEF Points, RecycleUnit, SlabInv
  <2>4. /\ \A j \in Classes \ outOfTurn' : j \notin outOfTurn \/ line'[j] = <<>>
        /\ i \notin outOfTurn' /\ line'[i] # <<>> =>
              line[i] # <<>> /\ line[i][1] = h /\ line'[i] = RemoveAt(line[i], 1)
    BY <1>8, <1>11, <2>2, <2>3 DEF Leaves
  <2>5. i \notin outOfTurn' => Aligned(used'[i], line'[i], ptr')
    BY <1>7, <1>11, <1>8a, <2>3, <2>4
  <2>6. \A j \in Classes \ outOfTurn' : j # i => Aligned(used'[j], line'[j], ptr')
    BY <1>5, <1>11, <1>8a, <2>3, <2>4
  <2> QED
    BY <1>1, <2>1, <2>5, <2>6 DEF QueueInv
<1>12. ASSUME NEW h \in Handles, NEW s \in Sizes, MallocBlock(h, s) PROVE QueueInv'
  <2>1. PICK p \in Heap : IsNextBlock(p) /\ Points(h, p, s)
    BY <1>12 DEF MallocBlock
  <2>2. phase = "ready" /\ is_in_slab(ptr[h]) = -1 /\ UNCHANGED <<used, line, outOfTurn>>
    BY <1>12, LayoutFacts DEF MallocBlock
  <2> QED
    BY <1>10, <2>1, <2>2
<1>13. ASSUME NEW h \in Handles, FreeUnit(h) PROVE QueueInv'
  <2>1. is_in_slab(ptr[h]) \in Classes
    BY <1>13, ClassOf DEF FreeUnit
  <2> QED
    BY <1>11, <1>13, <2>1 DEF FreeUnit
<1>14. ASSUME NEW h \in Handles, FreeBlock(h) PROVE QueueInv'
  BY <1>10, <1>14 DEF FreeBlock
<1>15. ASSUME NEW h \in Handles, NEW s \in Sizes, ReallocToBlock(h, s) PROVE QueueInv'
  <2>1. is_in_slab(ptr[h]) \in Classes /\ phase = "ready" /\ Leaves(h, is_in_slab(ptr[h]))
    BY <1>15, ClassOf DEF ReallocToBlock, MayRealloc
  <2>2. PICK p \in Heap : IsNextBlock(p) /\ RecycleUnit(is_in_slab(ptr[h])) /\ Points(h, p, s)
    BY <1>15 DEF ReallocToBlock
  <2> QED
    BY <1>11, <2>1, <2>2
<1>16. ASSUME NEW h \in Handles, NEW s \in Sizes, ReallocBlock(h, s) PROVE QueueInv'
  <2>1. phase = "ready" /\ is_in_slab(ptr[h]) = -1 /\ outOfTurn' = outOfTurn
    BY <1>16 DEF ReallocBlock, MayRealloc
  <2>2. ASSUME NEW i \in Classes, IsFirstFit(s, i), TakeUnit(i), Points(h, Head(free[i]), s),
               line' = [line EXCEPT ![i] = Append(@, h)]
        PROVE  QueueInv'
    <3>1. free[i] # <<>> /\ ptr' = [ptr EXCEPT ![h] = Head(free[i])]
      BY <2>2 DEF IsFirstFit, Fits, Points
    <3>2. /\ used'[i] = Append(used[i], Head(free[i])) /\ line'[i] = Append(line[i], h)
          /\ \A j \in Classes \ {i} : used'[j] = used[j] /\ line'[j] = line[j]
      BY <1>1, <2>2 DEF TakeUnit, SlabInv
    <3>3. (i \notin outOfTurn => Aligned(used'[i], line'[i], ptr')) /\ is_in_slab(Head(free[i])) = i
      BY <1>6, <2>1, <3>1, <3>2, ClassOf
    <3>4. \A j \in Classes \ outOfTurn : j # i => Aligned(used'[j], line'[j], ptr')
      BY <1>5, <2>1, <3>1, <3>2, ClassOf
    <3>5. BlocksApart'
      BY <2>2, <3>3, StayApart, ClassOf
    <3> QED
      BY <1>1, <2>1, <3>3, <3>4, <3>5 DEF QueueInv
  <2> QED
    BY <1>10, <1>16, <2>1, <2>2 DEF ReallocBlock
<1>17. ASSUME NEW h \in Handles, NEW s \in Sizes, ReallocToUnit(h, s) PROVE QueueInv'
  <2>1. PICK g \in Classes : is_in_slab(ptr[h]) = g
    BY <1>17, ClassOf DEF ReallocToUnit
  <2>2. phase = "ready" /\ s > UnitSize[g]
    BY <1>17, <2>1, ClassOf DEF ReallocToUnit, MayRealloc, SizeAt
  <2>3. PICK i \in Classes :
           /\ IsFirstFit(s, i) /\ Points(h, Head(free[i]), s)
           /\ used' = [used EXCEPT ![i] = Append(@, Head(free[i])), ![g] = Tail(@)]
           /\ \E k \in 1..Len(line[g]) :
                 /\ line[g][k] = h
                 /\ line' = [line EXCEPT ![g] = RemoveAt(@, k), ![i] = Append(@, h)]
           /\ Turn(h, g)
    BY <1>17, <2>1 DEF ReallocToUnit
  <2>4. i # g /\ free[i] # <<>> /\ ptr' = [ptr EXCEPT ![h] = Head(free[i])]
    BY <2>2, <2>3, LayoutFacts, SlabAssumption DEF IsFirstFit, Fits, Points
  <2>5. PICK k \in 1..Len(line[g]) :
           line[g][k] = h /\ line' = [line EXCEPT ![g] = RemoveAt(@, k), ![i] = Append(@, h)]
    BY <2>3
  <2>6. /\ used'[i] = Append(used[i], Head(free[i])) /\ line'[i] = Append(line[i], h)
        /\ used'[g] = Tail(used[g]) /\ line'[g] = RemoveAt(line[g], k)
        /\ \A j \in Classes \ {i, g} : used'[j] = used[j] /\ line'[j] = line[j]
    BY <1>1, <2>3, <2>4, <2>5 DEF SlabInv
  <2>6a. /\ \A j \in Classes \ outOfTurn' : j \notin outOfTurn \/ line'[j] = <<>>
         /\ g \notin outOfTurn' /\ line'[g] # <<>> =>
               line[g] # <<>> /\ line[g][1] = h /\ line'[g] = RemoveAt(line[g], 1)
    BY <1>8, <2>2, <2>3, <2>5, <2>6
  <2>7. (i \notin outOfTurn' => Aligned(used'[i], line'[i], ptr')) /\ is_in_slab(Head(free[i])) = i
    BY <1>6, <1>8a, <2>1, <2>2, <2>4, <2>6, <2>6a
  <2>8. g \notin outOfTurn' => Aligned(used'[g], line'[g], ptr')
    BY <1>7, <1>8a, <2>2, <2>4, <2>6, <2>6a
  <2>9. \A j \in Classes \ outOfTurn' : j # i /\ j # g => Aligned(used'[j], line'[j], ptr')
    BY <1>5, <1>8a, <2>1, <2>2, <2>4, <2>6, <2>6a
  <2>10. BlocksApart'
    BY <2>3, <2>7, StayApart, ClassOf
  <2> QED
    BY <1>1, <2>7, <2>8, <2>9, <2>10 DEF QueueInv
<1> QED
  BY <1>2, <1>3, <1>4, <1>9, <1>12, <1>13, <1>14, <1>15, <1>16, <1>17 DEF Next

LEMMA InitQueue == Init => QueueInv
<1> SUFFICES ASSUME Init PROVE QueueInv
  OBVIOUS
<1>1. SlabInv
  BY InitInv
<1> QED
  BY <1>1 DEF Init, QueueInv, BlocksApart, Aligned

LEMMA QueueOwner == QueueInv => OneOwner
<1> SUFFICES ASSUME QueueInv, NEW g \in Handles, NEW h \in Handles,
                    ptr[g] # Null, ptr[g] = ptr[h], is_in_slab(ptr[g]) \notin outOfTurn
             PROVE  g = h
  BY DEF OneOwner
<1>1. CASE is_in_slab(ptr[g]) = -1
  BY <1>1 DEF QueueInv, BlocksApart
<1>2. ASSUME NEW i \in Classes, is_in_slab(ptr[g]) = i PROVE g = h
  <2>1. ClassInv(free[i], used[i], line[i], UnitsOf(i), Holders(i)) /\ g \in Holders(i) /\ h \in Holders(i)
    BY <1>2 DEF QueueInv, SlabInv, Holders
  <2>2. PICK a \in 1..Len(line[i]) : line[i][a] = g
    BY <2>1, Members DEF ClassInv
  <2>3. PICK b \in 1..Len(line[i]) : line[i][b] = h
    BY <2>1, Members DEF ClassInv
  <2>4. used[i][a] = used[i][b]
    BY <1>2, <2>2, <2>3 DEF QueueInv, Aligned
  <2>5. a = b
    BY <2>1, <2>4, Members DEF ClassInv
  <2> QED
    BY <2>2, <2>3, <2>5
<1> QED
  BY <1>1, <1>2, ClassOf

\* Two clients never hold the same memory, except in a class a client gave a
\* unit back to out of turn, until all of that class's units are back: in any
\* order of slab_malloc, slab_free and slab_realloc.
THEOREM SoleOwner == Spec => []OneOwner
<1>1. Init => QueueInv
  BY InitQueue
<1>2. QueueInv /\ [Next]_vars => QueueInv'
  BY QueueInductive
<1>3. QueueInv => OneOwner
  BY QueueOwner
<1> QED
  BY <1>1, <1>2, <1>3, PTL DEF Spec

-----------------------------------------------------------------------------
(* What a client stored stays: nobody else's unit is recycled while a class *)
(* is in turn, and what is copied out of a unit is all of it.               *)

KeepInv ==
    /\ KeepsData
    /\ \A h \in stored : ptr[h] # Null
    /\ \A h \in Handles : ptr[h] # Null /\ is_in_slab(ptr[h]) \in outOfTurn => h \in risk
    /\ \A h \in Handles : \A i \in Classes :
          ptr[h] # Null /\ is_in_slab(ptr[h]) = i => size[h] <= UnitSize[i]

\* What a step of h writes to: where h points, where it will point, and the
\* unit z of class i that it recycles.  If class i is in turn after the step,
\* z is h's own unit or nobody holds a unit of the class any more.
Recycles(h, i, z) ==
    /\ i \in Classes => is_in_slab(z) = i
    /\ i \in Classes /\ i \notin outOfTurn' =>
          \/ z = ptr[h]
          \/ \A g \in Handles \ {h} : ptr[g] # Null => is_in_slab(ptr[g]) # i

\* The step of h that gives a unit of class i back recycles such a unit.
LEMMA TurnRecycles ==
    ASSUME QueueInv, phase = "ready", NEW h \in Handles, NEW i \in Classes,
           NEW k \in 1..Len(line[i]), line[i][k] = h, line'[i] = RemoveAt(line[i], k), Turn(h, i)
    PROVE  Recycles(h, i, Head(used[i])) /\ Head(used[i]) \in InSlab
<1>1. ClassInv(free[i], used[i], line[i], UnitsOf(i), Holders(i))
  BY DEF QueueInv, SlabInv
<1>2. /\ used[i] # <<>> /\ Head(used[i]) = used[i][1] /\ Head(used[i]) \in UnitsOf(i)
      /\ Head(line[i]) = line[i][1] /\ 1 \in 1..Len(line[i])
  <2>1. Len(used[i]) = Len(line[i]) /\ line[i] \in Seq(Handles) /\ used[i] \in Seq(UnitsOf(i))
    BY <1>1 DEF ClassInv
  <2>2. used[i] # <<>> /\ line[i] # <<>>
    BY <2>1
  <2> QED
    BY <2>1, <2>2, TailFacts
<1>3. is_in_slab(Head(used[i])) = i /\ Head(used[i]) \in InSlab
  BY <1>2, LayoutFacts
<1>4. ASSUME i \notin outOfTurn', line'[i] # <<>> PROVE Head(used[i]) = ptr[h]
  <2>1. i \notin outOfTurn /\ line[i][1] = h
    BY <1>2, <1>4 DEF Turn
  <2> QED
    BY <1>2, <2>1 DEF QueueInv, Aligned
<1>5. ASSUME line'[i] = <<>>, NEW g \in Handles \ {h}, ptr[g] # Null, is_in_slab(ptr[g]) = i PROVE FALSE
  <2>1. g \in ToSet(line[i])
    BY <1>1, <1>5 DEF ClassInv, Holders
  <2>2. ToSet(RemoveAt(line[i], k)) = ToSet(line[i]) \ {h}
    BY <1>1, RemoveSet DEF ClassInv
  <2>3. ToSet(<<>>) = {}
    BY DEF ToSet
  <2> QED
    BY <1>5, <2>1, <2>2, <2>3
<1> QED
  BY <1>3, <1>4, <1>5 DEF Recycles

\* The other clients keep what they stored if the step writes only to where h
\* pointed, to where h now points and to the unit it recycles.
LEMMA OthersKeep ==
    ASSUME QueueInv, OneOwner', KeepInv, NEW h \in Handles, NEW p, NEW s, Points(h, p, s),
           OneOwner, NEW i, NEW z, Recycles(h, i, z), i \notin Classes => z = ptr[h],
           \A y \in InSlab \cup Heap : y # ptr[h] /\ y # p /\ y # z => mem'[y] = mem[y],
           mem'[ptr[h]] = mem[ptr[h]] \/ z = ptr[h] \/ p = ptr[h],
           NEW S, AtRisk(S), stored' \subseteq stored, NEW g \in stored' \ {h}, g \notin risk'
    PROVE  mem'[ptr'[g]] = g
<1>1. /\ g \in Handles /\ ptr[g] # Null
      /\ ptr \in [Handles -> InSlab \cup Heap \cup {Null}]
      /\ mem \in [InSlab \cup Heap -> Handles \cup {Zero, Part}]
  BY DEF QueueInv, SlabInv, KeepInv
<1>2. ptr'[g] = ptr[g] /\ ptr'[h] = p /\ ptr[g] \in InSlab \cup Heap
  BY <1>1 DEF Points
<1>3. g \notin risk /\ is_in_slab(ptr[g]) \notin outOfTurn'
  BY <1>1, <1>2 DEF AtRisk
<1>4. mem[ptr[g]] = g /\ is_in_slab(ptr[g]) \notin outOfTurn
  BY <1>1, <1>3 DEF KeepInv, KeepsData
<1>5. ptr[g] # ptr[h]
  BY <1>1, <1>4 DEF OneOwner
<1>6. ptr[g] # p
  BY <1>1, <1>2, <1>3 DEF OneOwner
<1>7. ptr[g] # z
  BY <1>1, <1>3, <1>5 DEF Recycles
<1> QED
  BY <1>1, <1>2, <1>4, <1>5, <1>6, <1>7

\* The size a client asked for is right if it is for h.
LEMMA SizesKeep ==
    ASSUME QueueInv, KeepInv, NEW h \in Handles, NEW p, NEW s, Points(h, p, s),
           \A i \in Classes : p # Null /\ is_in_slab(p) = i => s <= UnitSize[i]
    PROVE  \A g \in Handles : \A i \in Classes :
              ptr'[g] # Null /\ is_in_slab(ptr'[g]) = i => size'[g] <= UnitSize[i]
BY DEF QueueInv, SlabInv, KeepInv, Points

\* The unit slab_malloc takes is of the class it is taken from.
LEMMA ClassTaken ==
    ASSUME NEW i \in Classes, free[i] # <<>>,
           ClassInv(free[i], used[i], line[i], UnitsOf(i), Holders(i))
    PROVE  is_in_slab(Head(free[i])) = i /\ Head(free[i]) \in InSlab
<1>1. Head(free[i]) \in UnitsOf(i)
  BY TailFacts DEF ClassInv
<1> QED
  BY <1>1, LayoutFacts

LEMMA HeapNotNull == Null \notin Heap
BY LayoutHolds DEF Layout

\* h comes to hold p, of size s; z is what class i recycles, or its old block;
\* nothing else is written, and p has h's data if that is still safe.
Moves(h, p, s, i, z, S) ==
    /\ Points(h, p, s) /\ Recycles(h, i, z) /\ AtRisk(S) /\ stored' \subseteq stored
    /\ i \notin Classes => z = ptr[h]
    /\ \A y \in InSlab \cup Heap : y # ptr[h] /\ y # p /\ y # z => mem'[y] = mem[y]
    /\ mem'[ptr[h]] = mem[ptr[h]] \/ z = ptr[h] \/ p = ptr[h]
    /\ h \in stored' => p # Null
    /\ h \in stored' \ risk' => mem'[p] = h
    /\ \A j \in Classes : p # Null /\ is_in_slab(p) = j => s <= UnitSize[j]

LEMMA KeepInductive ==
    ASSUME QueueInv, OneOwner, OneOwner', KeepInv, [Next]_vars
    PROVE  KeepInv'
<1>0. /\ mem \in [InSlab \cup Heap -> Handles \cup {Zero, Part}] /\ stored \subseteq Handles
      /\ ptr \in [Handles -> InSlab \cup Heap \cup {Null}] /\ size \in [Handles -> Nat]
      /\ \A i \in Classes : phase = "ready" =>
             ClassInv(free[i], used[i], line[i], UnitsOf(i), Holders(i))
  BY DEF QueueInv, SlabInv
<1>1. CASE slab_create \/ slab_release \/ UNCHANGED vars
  BY <1>1 DEF slab_create, slab_release, vars, KeepInv, KeepsData
<1>2. ASSUME NEW h \in Handles, NEW p, NEW s, NEW i, NEW z, NEW S, Moves(h, p, s, i, z, S)
      PROVE  KeepInv'
  <2>0. /\ Points(h, p, s) /\ Recycles(h, i, z) /\ AtRisk(S) /\ stored' \subseteq stored
        /\ i \notin Classes => z = ptr[h]
        /\ \A y \in InSlab \cup Heap : y # ptr[h] /\ y # p /\ y # z => mem'[y] = mem[y]
        /\ mem'[ptr[h]] = mem[ptr[h]] \/ z = ptr[h] \/ p = ptr[h]
        /\ h \in stored' => p # Null
        /\ h \in stored' \ risk' => mem'[p] = h
        /\ \A j \in Classes : p # Null /\ is_in_slab(p) = j => s <= UnitSize[j]
    BY <1>2 DEF Moves
  <2>1. \A g \in stored' \ {h} : g \notin risk' => mem'[ptr'[g]] = g
    BY <2>0, OthersKeep
  <2>2. ptr'[h] = p /\ \A g \in Handles \ {h} : ptr'[g] = ptr[g]
    BY <1>0, <2>0 DEF Points
  <2>3. \A g \in Handles : \A j \in Classes :
           ptr'[g] # Null /\ is_in_slab(ptr'[g]) = j => size'[g] <= UnitSize[j]
    BY <2>0, SizesKeep
  <2>4. \A g \in Handles : ptr'[g] # Null /\ is_in_slab(ptr'[g]) \in outOfTurn' => g \in risk'
    BY <2>0 DEF AtRisk
  <2>5. \A g \in stored' : ptr'[g] # Null
    BY <1>0, <2>0, <2>2 DEF KeepInv
  <2>6. KeepsData'
    BY <2>0, <2>1, <2>2 DEF KeepsData
  <2> QED
    BY <2>3, <2>4, <2>5, <2>6 DEF KeepInv
<1>2a. \A h \in Handles : Recycles(h, -1, ptr[h]) /\ -1 \notin Classes
  BY ClassOf DEF Recycles
<1>3. ASSUME NEW h \in Handles, NEW s \in Sizes, MallocUnit(h, s) PROVE KeepInv'
  <2>1. PICK i \in Classes : IsFirstFit(s, i) /\ Points(h, Head(free[i]), s)
                             /\ mem' = [mem EXCEPT ![Head(free[i])] = Zero]
    BY <1>3 DEF MallocUnit
  <2>2. stored' = stored /\ h \notin stored /\ phase = "ready" /\ AtRisk({})
    BY <1>3 DEF MallocUnit, KeepInv
  <2>3. s <= UnitSize[i] /\ free[i] # <<>>
    BY <2>1 DEF IsFirstFit, Fits
  <2>4. is_in_slab(Head(free[i])) = i
    BY <1>0, <2>2, <2>3, ClassTaken
  <2>5. \A y \in InSlab \cup Heap : y # Head(free[i]) => mem'[y] = mem[y]
    BY <1>0, <2>1
  <2>6. Moves(h, Head(free[i]), s, -1, ptr[h], {})
    BY <1>2a, <2>1, <2>2, <2>3, <2>4, <2>5 DEF Moves
  <2> QED
    BY <1>2, <2>6
<1>4. ASSUME NEW h \in Handles, NEW s \in Sizes, MallocBlock(h, s) PROVE KeepInv'
  <2>1. PICK p \in Heap : mem' = [mem EXCEPT ![p] = Zero] /\ Points(h, p, s)
    BY <1>4 DEF MallocBlock
  <2>2. stored' = stored /\ h \notin stored /\ AtRisk({})
    BY <1>4 DEF MallocBlock, KeepInv
  <2>3. \A i \in Classes : is_in_slab(p) # i
    BY <2>1, LayoutFacts, ClassOf
  <2>4. \A y \in InSlab \cup Heap : y # p => mem'[y] = mem[y]
    BY <1>0, <2>1
  <2>5. Moves(h, p, s, -1, ptr[h], {})
    BY <1>2a, <2>1, <2>2, <2>3, <2>4 DEF Moves
  <2> QED
    BY <1>2, <2>5
<1>5. ASSUME NEW h \in Handles, Store(h) PROVE KeepInv'
  <2>1. /\ ptr' = ptr /\ size' = size /\ stored' = stored \cup {h} /\ ptr[h] # Null
        /\ mem' = [mem EXCEPT ![ptr[h]] = h] /\ outOfTurn' = outOfTurn
        /\ risk' = {g \in risk : g = h => is_in_slab(ptr[h]) \in outOfTurn}
    BY <1>5 DEF Store
  <2>2. ASSUME NEW g \in stored' \ risk' PROVE mem'[ptr[g]] = g
    <3>1. CASE g = h
      BY <1>0, <2>1, <3>1
    <3>2. CASE g # h
      <4>1. g \in stored \ risk /\ g \in Handles /\ ptr[g] # Null /\ mem[ptr[g]] = g
        BY <1>0, <2>1, <2>2, <3>2 DEF KeepInv, KeepsData
      <4>2. ptr[g] # ptr[h]
        BY <3>2, <4>1 DEF OneOwner, KeepInv
      <4> QED
        BY <1>0, <2>1, <4>1, <4>2
    <3> QED
      BY <3>1, <3>2
  <2> QED
    BY <2>1, <2>2 DEF KeepInv, KeepsData
<1>6. ASSUME NEW h \in Handles, NEW i \in Classes, phase = "ready", Leaves(h, i)
      PROVE  Recycles(h, i, Head(used[i])) /\ Head(used[i]) \in InSlab
  <2>1. PICK k \in 1..Len(line[i]) : line[i][k] = h /\ line' = [line EXCEPT ![i] = RemoveAt(@, k)]
    BY <1>6 DEF Leaves
  <2>2. line'[i] = RemoveAt(line[i], k)
    BY <2>1 DEF QueueInv, SlabInv
  <2> QED
    BY <1>6, <2>1, <2>2, TurnRecycles DEF Leaves
<1>7. ASSUME NEW h \in Handles, FreeUnit(h) PROVE KeepInv'
  <2>1. PICK i \in Classes : is_in_slab(ptr[h]) = i
    BY <1>7, ClassOf DEF FreeUnit
  <2>2. /\ mem' = [mem EXCEPT ![Head(used[i])] = Zero] /\ Points(h, Null, 0) /\ AtRisk({})
        /\ Leaves(h, i) /\ phase = "ready" /\ stored' = stored \ {h}
    BY <1>7, <2>1 DEF FreeUnit
  <2>3. Recycles(h, i, Head(used[i])) /\ Head(used[i]) \in InSlab
    BY <1>6, <2>2
  <2>4. \A y \in InSlab \cup Heap : y # Head(used[i]) => mem'[y] = mem[y]
    BY <1>0, <2>2, <2>3
  <2>5. mem'[ptr[h]] = mem[ptr[h]] \/ Head(used[i]) = ptr[h]
    BY <1>0, <1>7, <2>4 DEF FreeUnit
  <2>6. Moves(h, Null, 0, i, Head(used[i]), {})
    BY <2>2, <2>3, <2>4, <2>5 DEF Moves
  <2> QED
    BY <1>2, <2>6
<1>8. ASSUME NEW h \in Handles, FreeBlock(h) PROVE KeepInv'
  <2>1. mem' = [mem EXCEPT ![ptr[h]] = Zero] /\ Points(h, Null, 0) /\ stored' = stored \ {h} /\ AtRisk({})
    BY <1>8 DEF FreeBlock
  <2>2. \A y \in InSlab \cup Heap : y # ptr[h] => mem'[y] = mem[y]
    BY <1>0, <2>1
  <2>3. Moves(h, Null, 0, -1, ptr[h], {})
    BY <1>2a, <2>1, <2>2 DEF Moves
  <2> QED
    BY <1>2, <2>3
<1>9. ASSUME NEW h \in Handles, NEW s \in Sizes, ReallocInPlace(h, s) PROVE KeepInv'
  <2>1. /\ s <= SizeAt(is_in_slab(ptr[h])) /\ ptr[h] # Null
        /\ size' = [size EXCEPT ![h] = s] /\ UNCHANGED <<mem, ptr, stored, outOfTurn, risk>>
    BY <1>9 DEF ReallocInPlace, MayRealloc
  <2>2. is_in_slab(ptr[h]) \in Classes => s <= UnitSize[is_in_slab(ptr[h])]
    BY <2>1, ClassOf DEF SizeAt
  <2>3. size'[h] = s /\ \A g \in Handles \ {h} : size'[g] = size[g]
    BY <1>0, <2>1
  <2> QED
    BY <2>1, <2>2, <2>3 DEF KeepInv, KeepsData
<1>10. ASSUME NEW h \in stored \ risk, NEW i \in Classes, is_in_slab(ptr[h]) = i
       PROVE  ptr[h] # Null /\ Copied(h, SizeAt(i)) = h
  <2>1. h \in Handles /\ ptr[h] # Null /\ mem[ptr[h]] = h /\ size[h] <= UnitSize[i]
    BY <1>0, <1>10 DEF KeepInv, KeepsData
  <2>2. ~(size[h] > UnitSize[i])
    <3>1. size[h] \in Nat /\ UnitSize[i] \in Nat
      BY <1>0, <2>1, LayoutFacts
    <3> QED
      BY <2>1, <3>1
  <2>3. SizeAt(i) = UnitSize[i]
    BY ClassOf DEF SizeAt
  <2> QED
    BY <2>1, <2>2, <2>3 DEF Copied
<1>10a. ASSUME NEW h \in stored, NEW S, AtRisk(S), stored' = stored, ptr'[h] # Null, h \notin risk'
        PROVE  h \in stored \ risk /\ h \notin S
  BY <1>0, <1>10a DEF AtRisk
<1>11. ASSUME NEW h \in Handles, NEW s \in Sizes, ReallocToUnit(h, s) PROVE KeepInv'
  <2>1. PICK f \in Classes : is_in_slab(ptr[h]) = f
    BY <1>11, ClassOf DEF ReallocToUnit
  <2>2. phase = "ready" /\ s > UnitSize[f] /\ stored' = stored /\ ptr[h] # Null /\ AtRisk({}) /\ Turn(h, f)
    BY <1>11, <2>1, ClassOf DEF ReallocToUnit, MayRealloc, SizeAt
  <2>3. PICK i \in Classes :
           /\ IsFirstFit(s, i) /\ Points(h, Head(free[i]), s)
           /\ mem' = [mem EXCEPT ![Head(free[i])] = Copied(h, SizeAt(f)), ![Head(used[f])] = Zero]
           /\ \E k \in 1..Len(line[f]) :
                 line[f][k] = h /\ line' = [line EXCEPT ![f] = RemoveAt(@, k), ![i] = Append(@, h)]
    BY <1>11, <2>1 DEF ReallocToUnit
  <2>4. s <= UnitSize[i] /\ i # f /\ free[i] # <<>>
    <3>1. s <= UnitSize[i] /\ free[i] # <<>>
      BY <2>3 DEF IsFirstFit, Fits
    <3>2. UnitSize[i] \in Nat /\ UnitSize[f] \in Nat /\ s \in Nat
      BY LayoutFacts, SlabAssumption
    <3> QED
      BY <2>2, <3>1, <3>2
  <2>5. is_in_slab(Head(free[i])) = i /\ Head(free[i]) \in InSlab
    BY <1>0, <2>2, <2>4, ClassTaken
  <2>6. Recycles(h, f, Head(used[f])) /\ Head(used[f]) \in InSlab
    <3>1. PICK k \in 1..Len(line[f]) :
             line[f][k] = h /\ line' = [line EXCEPT ![f] = RemoveAt(@, k), ![i] = Append(@, h)]
      BY <2>3
    <3>2. line'[f] = RemoveAt(line[f], k)
      BY <2>4, <3>1 DEF QueueInv, SlabInv
    <3> QED
      BY <2>2, <3>1, <3>2, TurnRecycles
  <2>7. Head(free[i]) # ptr[h] /\ Head(free[i]) # Head(used[f])
    BY <2>1, <2>4, <2>5, <2>6 DEF Recycles
  <2>8. /\ \A y \in InSlab \cup Heap : y # Head(used[f]) /\ y # Head(free[i]) => mem'[y] = mem[y]
        /\ mem'[Head(free[i])] = Copied(h, SizeAt(f))
    BY <1>0, <2>3, <2>5, <2>6, <2>7
  <2>8a. mem'[ptr[h]] = mem[ptr[h]] \/ Head(used[f]) = ptr[h]
    BY <1>0, <2>2, <2>7, <2>8
  <2>9. Head(free[i]) # Null /\ (h \in stored \ risk => mem'[Head(free[i])] = h)
    BY <1>10, <2>1, <2>5, <2>8, LayoutFacts
  <2>10. h \in stored' \ risk' => mem'[Head(free[i])] = h
    <3>1. ptr'[h] = Head(free[i])
      BY <1>0, <2>3 DEF Points
    <3> QED
      BY <1>10a, <2>2, <2>9, <3>1
  <2>11. \A j \in Classes : is_in_slab(Head(free[i])) = j => s <= UnitSize[j]
    BY <2>4, <2>5
  <2>12. Moves(h, Head(free[i]), s, f, Head(used[f]), {})
    BY <2>2, <2>3, <2>6, <2>8, <2>8a, <2>9, <2>10, <2>11 DEF Moves
  <2> QED
    BY <1>2, <2>12
<1>12. ASSUME NEW h \in Handles, NEW s \in Sizes, ReallocToBlock(h, s) PROVE KeepInv'
  <2>1. PICK f \in Classes : is_in_slab(ptr[h]) = f
    BY <1>12, ClassOf DEF ReallocToBlock
  <2>2. phase = "ready" /\ stored' = stored /\ Leaves(h, f) /\ ptr[h] # Null /\ AtRisk({})
    BY <1>12, <2>1 DEF ReallocToBlock, MayRealloc
  <2>3. PICK p \in Heap : /\ Points(h, p, s)
                          /\ mem' = [mem EXCEPT ![p] = Copied(h, SizeAt(f)), ![Head(used[f])] = Zero]
    BY <1>12, <2>1 DEF ReallocToBlock
  <2>4. Recycles(h, f, Head(used[f])) /\ Head(used[f]) \in InSlab
    BY <1>6, <2>2
  <2>5. is_in_slab(p) = -1 /\ p # ptr[h] /\ p # Head(used[f])
    BY <2>1, <2>3, <2>4, LayoutFacts, ClassOf DEF Recycles
  <2>6. /\ \A y \in InSlab \cup Heap : y # Head(used[f]) /\ y # p => mem'[y] = mem[y]
        /\ mem'[p] = Copied(h, SizeAt(f))
    BY <1>0, <2>3, <2>4, <2>5
  <2>6a. mem'[ptr[h]] = mem[ptr[h]] \/ Head(used[f]) = ptr[h]
    BY <1>0, <2>2, <2>5, <2>6
  <2>7. p # Null
    BY <2>3, HeapNotNull
  <2>8. h \in stored' \ risk' => mem'[p] = h
    <3>1. ptr'[h] = p
      BY <1>0, <2>3 DEF Points
    <3> QED
      BY <1>10, <1>10a, <2>1, <2>2, <2>6, <2>7, <3>1
  <2>9. \A i \in Classes : is_in_slab(p) # i
    BY <2>5, ClassOf
  <2>10. Moves(h, p, s, f, Head(used[f]), {})
    BY <2>2, <2>3, <2>4, <2>6, <2>6a, <2>7, <2>8, <2>9 DEF Moves
  <2> QED
    BY <1>2, <2>10
<1>13. ASSUME NEW h \in Handles, NEW s \in Sizes, ReallocBlock(h, s) PROVE KeepInv'
  <2> DEFINE S == IF size[h] > SizeAt(-1) THEN {h} ELSE {}
  <2>1. /\ phase = "ready" /\ ptr[h] # Null /\ is_in_slab(ptr[h]) = -1 /\ stored' = stored /\ AtRisk(S)
    BY <1>13 DEF ReallocBlock, MayRealloc
  <2>2. ASSUME h \in stored \ risk, h \notin S PROVE Copied(h, SizeAt(-1)) = h
    BY <2>2 DEF Copied, KeepInv, KeepsData
  <2>3. ASSUME NEW p \in InSlab \cup Heap, Points(h, p, s), p # ptr[h],
               mem' = [mem EXCEPT ![p] = Copied(h, SizeAt(-1)), ![ptr[h]] = Zero],
               \A j \in Classes : is_in_slab(p) = j => s <= UnitSize[j]
        PROVE  KeepInv'
    <3>1. p # Null
      BY HeapNotNull, LayoutFacts
    <3>2. ptr'[h] = p /\ ptr[h] \in InSlab \cup Heap
      BY <1>0, <2>1, <2>3 DEF Points
    <3>3. /\ \A y \in InSlab \cup Heap : y # ptr[h] /\ y # p => mem'[y] = mem[y]
          /\ mem'[p] = Copied(h, SizeAt(-1))
      BY <1>0, <2>3, <3>2
    <3>4. h \in stored' \ risk' => mem'[p] = h
      <4> HIDE DEF S
      <4> QED
        BY <1>10a, <2>1, <2>2, <3>1, <3>2, <3>3
    <3>5. Moves(h, p, s, -1, ptr[h], S)
      <4> HIDE DEF S
      <4> QED
        BY <1>2a, <2>1, <2>3, <3>1, <3>3, <3>4 DEF Moves
    <3> HIDE DEF S
    <3> QED
      BY <1>2, <3>5
  <2>4. ASSUME NEW i \in Classes, IsFirstFit(s, i), Points(h, Head(free[i]), s),
               mem' = [mem EXCEPT ![Head(free[i])] = Copied(h, SizeAt(-1)), ![ptr[h]] = Zero]
        PROVE  KeepInv'
    <3>1. s <= UnitSize[i] /\ free[i] # <<>>
      BY <2>4 DEF IsFirstFit, Fits
    <3>2. is_in_slab(Head(free[i])) = i /\ Head(free[i]) \in InSlab
      BY <1>0, <2>1, <3>1, ClassTaken
    <3> QED
      BY <2>1, <2>3, <2>4, <3>1, <3>2, ClassOf
  <2>5. ASSUME NEW p \in Heap, IsNextBlock(p), Points(h, p, s),
               mem' = [mem EXCEPT ![p] = Copied(h, SizeAt(-1)), ![ptr[h]] = Zero]
        PROVE  KeepInv'
    <3>1. p # ptr[h] /\ is_in_slab(p) = -1
      BY <2>5, LayoutFacts DEF IsNextBlock
    <3> QED
      BY <2>3, <2>5, <3>1, ClassOf
  <2> QED
    BY <1>13, <2>4, <2>5 DEF ReallocBlock
<1> QED
  BY <1>1, <1>3, <1>4, <1>5, <1>7, <1>8, <1>9, <1>11, <1>12, <1>13 DEF Next

\* What a client stored is there until it gives the memory back, also after
\* slab_realloc moved it, in any order of frees: unless it held a unit of a
\* class that was out of turn, or slab_realloc moved it out of a malloc block
\* of more than m_unit_size[-1] bytes.
THEOREM DataKept == Spec => []KeepsData
<1>1. Init => QueueInv
  BY InitQueue
<1>2. QueueInv /\ [Next]_vars => QueueInv'
  BY QueueInductive
<1>3. QueueInv => OneOwner
  BY QueueOwner
<1>4. Init => KeepInv
  BY DEF Init, KeepInv, KeepsData
<1>5. QueueInv /\ OneOwner /\ OneOwner' /\ KeepInv /\ [Next]_vars => KeepInv'
  BY KeepInductive
<1>6. KeepInv => KeepsData
  BY DEF KeepInv
<1> QED
  BY <1>1, <1>2, <1>3, <1>4, <1>5, <1>6, PTL DEF Spec
=============================================================================
