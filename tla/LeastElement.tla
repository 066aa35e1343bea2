---------------------------- MODULE LeastElement ----------------------------
(***************************************************************************)
(* A set of numbers up to n has a least one: what the searches of the code  *)
(* that stop at the first hit rely on (the ARP table, a line's end).  With  *)
(* it, induction up to n, and the functions that loops over a buffer define *)
(* by recursion.                                                            *)
(***************************************************************************)
EXTENDS Integers, FiniteSets, FiniteSetTheorems, TLAPS

\* Initial segments are finite sets, of which some family's member has no smaller one in
\* it.
LEMMA LeastExists ==
  ASSUME NEW n \in Nat, NEW S \in SUBSET (0 .. n), S # {}
  PROVE  \E i \in S : \A j \in S : i <= j
<1> DEFINE Up(k) == 0 .. k
           T == {Up(k) : k \in S}
           R == StrictSubsetOrdering(0 .. n)
<1>1. T \in SUBSET FiniteSubsetsOf(0 .. n) /\ T # {}
  <2>1. IsFiniteSet(0 .. n)
    BY FS_Interval
  <2>2. FiniteSubsetsOf(0 .. n) = SUBSET (0 .. n)
    BY <2>1, FS_FiniteSubsetsOfFinite
  <2>3. ASSUME NEW t \in T PROVE t \in SUBSET (0 .. n)
    <3>1. PICK k \in S : t = Up(k)
      BY <2>3
    <3> QED BY <3>1
  <2>4. T # {}
    <3>1. PICK k : k \in S
      OBVIOUS
    <3>2. Up(k) \in T
      BY <3>1
    <3> QED BY <3>2
  <2> HIDE DEF T
  <2> QED BY <2>2, <2>3, <2>4
<1>2. PICK x \in T : \A y \in T : ~(<<y, x>> \in R)
  <2>1. IsWellFoundedOn(R, FiniteSubsetsOf(0 .. n))
    BY FS_StrictSubsetOrderingWellFounded
  <2> HIDE DEF T, R
  <2> QED BY <1>1, <2>1, WFMin
<1>3. PICK i \in S : x = Up(i)
  BY <1>2
<1>4. ASSUME NEW j \in S PROVE i <= j
  <2> SUFFICES ASSUME j < i PROVE FALSE
    OBVIOUS
  <2>1. Up(j) \subseteq Up(i) /\ i \in Up(i) /\ i \notin Up(j)
    OBVIOUS
  <2>2. Up(j) \in SUBSET (0 .. n) /\ Up(i) \in SUBSET (0 .. n)
    OBVIOUS
  <2>3. <<Up(j), Up(i)>> \in R
    BY <2>1, <2>2 DEF StrictSubsetOrdering
  <2> QED BY <1>2, <1>3, <2>3
<1> QED BY <1>4

-----------------------------------------------------------------------------
(* Induction and recursion, by the least number at which they fail. *)

\* Induction: what holds of 0 and, if it holds of a number, of the next one, holds of all
\* up to n.  What does not hold somewhere would have a least place.
LEMMA UpTo ==
  ASSUME NEW n \in Nat, NEW S, 0 \in S, \A i \in 0 .. n - 1 : i \in S => i + 1 \in S
  PROVE  \A i \in 0 .. n : i \in S
<1> DEFINE T == {i \in 0 .. n : i \notin S}
<1> SUFFICES ASSUME T # {} PROVE FALSE
  OBVIOUS
<1>1. T \in SUBSET (0 .. n)
  OBVIOUS
<1>2. PICK i \in T : \A j \in T : i <= j
  <2> HIDE DEF T
  <2> QED BY <1>1, LeastExists
<1>3. i \in 1 .. n /\ i \notin S
  OBVIOUS
<1>4. i - 1 \in S
  <2> SUFFICES ASSUME i - 1 \notin S PROVE FALSE
    OBVIOUS
  <2>1. i - 1 \in T
    BY <1>3
  <2> QED BY <1>2, <1>3, <2>1
<1>5. i - 1 + 1 \in S
  BY <1>3, <1>4
<1> QED BY <1>3, <1>5

\* A first value in V, and a rule that makes the value at i + 1 from that at i.
IsRule(n, V, a, g) == a \in V /\ g \in [0 .. n - 1 -> [V -> V]]

\* Recursion: a first value and a rule for the next one make a function, so that an
\* equation of this form defines one.
LEMMA RecursiveFunction ==
  ASSUME NEW n \in Nat, NEW V, NEW a, NEW g, IsRule(n, V, a, g)
  PROVE  \E f \in [0 .. n -> V] : f = [i \in 0 .. n |-> IF i = 0 THEN a ELSE g[i - 1][f[i - 1]]]
<1> USE DEF IsRule
<1> DEFINE Makes(m, f) == f[0] = a /\ \A i \in 0 .. m - 1 : f[i + 1] = g[i][f[i]]
           S == {m \in 0 .. n : \E f \in [0 .. m -> V] : Makes(m, f)}
<1>1. 0 \in S
  <2> DEFINE f == [i \in 0 .. 0 |-> a]
  <2>1. f \in [0 .. 0 -> V] /\ f[0] = a
    OBVIOUS
  <2>2. Makes(0, f)
    BY <2>1
  <2>3. 0 \in 0 .. n
    OBVIOUS
  <2> HIDE DEF Makes, f
  <2> QED BY <2>1, <2>2, <2>3
<1>2. ASSUME NEW m \in 0 .. n - 1, m \in S PROVE m + 1 \in S
  <2>1. PICK f \in [0 .. m -> V] : Makes(m, f)
    BY <1>2
  <2> DEFINE h == [i \in 0 .. m + 1 |-> IF i = m + 1 THEN g[m][f[m]] ELSE f[i]]
  <2>2. g[m] \in [V -> V] /\ f[m] \in V /\ g[m][f[m]] \in V
    OBVIOUS
  <2>3. h \in [0 .. m + 1 -> V]
    BY <2>2
  <2>4. h[0] = a
    BY <2>1
  <2>5. ASSUME NEW i \in 0 .. m PROVE h[i + 1] = g[i][h[i]]
    <3>1. h[i] = f[i]
      OBVIOUS
    <3>2. CASE i = m
      BY <3>1, <3>2
    <3>3. CASE i # m
      <4>1. i \in 0 .. m - 1 /\ h[i + 1] = f[i + 1]
        BY <3>3
      <4> QED BY <2>1, <3>1, <4>1
    <3> QED BY <3>2, <3>3
  <2> HIDE DEF h
  <2>6. m + 1 - 1 = m /\ m + 1 \in 0 .. n
    OBVIOUS
  <2>7. Makes(m + 1, h)
    BY <2>4, <2>5, <2>6
  <2> HIDE DEF Makes
  <2> QED BY <2>3, <2>6, <2>7
<1>3. \A i \in 0 .. n : i \in S
  <2> HIDE DEF S
  <2> QED BY <1>1, <1>2, UpTo
<1>4. n \in 0 .. n
  OBVIOUS
<1>5. \E f \in [0 .. n -> V] : Makes(n, f)
  <2> HIDE DEF Makes
  <2> QED BY <1>3, <1>4
<1> HIDE DEF S
<1>6. PICK f \in [0 .. n -> V] : Makes(n, f)
  BY <1>5
<1>7. f[0] = a /\ \A i \in 0 .. n - 1 : f[i + 1] = g[i][f[i]]
  BY <1>6
<1>8. ASSUME NEW i \in 0 .. n PROVE f[i] = IF i = 0 THEN a ELSE g[i - 1][f[i - 1]]
  <2>1. CASE i = 0
    BY <1>7, <2>1
  <2>2. CASE i # 0
    <3>1. i - 1 \in 0 .. n - 1 /\ i - 1 + 1 = i
      BY <2>2
    <3> QED BY <1>7, <2>2, <3>1
  <2> QED BY <2>1, <2>2
<1>9. f = [i \in 0 .. n |-> IF i = 0 THEN a ELSE g[i - 1][f[i - 1]]]
  BY <1>8
<1> QED BY <1>9
=============================================================================
