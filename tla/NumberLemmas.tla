---------------------------- MODULE NumberLemmas ----------------------------
(***************************************************************************)
(* Facts about numbers and finite sets that the proofs of several          *)
(* components need.  Where a proof would go by induction it looks at the   *)
(* least counterexample instead.                                           *)
(***************************************************************************)
EXTENDS Integers, Sequences, FiniteSets, FiniteSetTheorems, WellFoundedInduction, TLAPS

(* Every set of natural numbers has a least member. *)
LEMMA LeastNumber ==
  ASSUME NEW T, T \subseteq Nat, T # {}
  PROVE  \E x \in T : \A y \in T : x <= y
<1>1. PICK x \in T : \A y \in T : ~(<<y, x>> \in OpToRel(<, Nat))
  BY NatLessThanWellFounded, WFMin
<1>2. \A y \in T : <<y, x>> \in Nat \X Nat /\ <<y, x>>[1] = y /\ <<y, x>>[2] = x
  OBVIOUS
<1>3. \A y \in T : ~(y < x)
  BY <1>1, <1>2 DEF OpToRel
<1> QED BY <1>3

(* A finite set whose members carry different numbers can be listed in the *)
(* order of these numbers.                                                 *)
LEMMA SortedListing ==
  ASSUME NEW S, IsFiniteSet(S), NEW f \in [S -> Nat], \A x, y \in S : f[x] = f[y] => x = y
  PROVE  \E s \in [1..Cardinality(S) -> S] :
            \A i, j \in 1..Cardinality(S) : i < j => f[s[i]] < f[s[j]]
<1> DEFINE Sorted(T) == \E s \in [1..Cardinality(T) -> T] :
                           \A i, j \in 1..Cardinality(T) : i < j => f[s[i]] < f[s[j]]
           Bad == {n \in Nat : \E T \in SUBSET S : Cardinality(T) = n /\ ~Sorted(T)}
<1>1. ASSUME Bad # {}  PROVE FALSE
  <2>1. PICK n \in Bad : \A m \in Bad : n <= m
    BY <1>1, LeastNumber
  <2>2. PICK T \in SUBSET S : Cardinality(T) = n /\ ~Sorted(T)
    BY <2>1
  <2>3. IsFiniteSet(T) /\ n \in Nat
    BY <2>1, <2>2, FS_Subset
  <2>4. n # 0
    <3> SUFFICES ASSUME n = 0  PROVE FALSE
      OBVIOUS
    <3>1. T = {} /\ Cardinality(T) = 0
      BY <2>2, <2>3, FS_EmptySet
    <3>2. [i \in 1..0 |-> i] \in [1..Cardinality(T) -> T]
      BY <3>1
    <3>3. \A i, j \in 1..Cardinality(T) : i < j => f[[l \in 1..0 |-> l][i]] < f[[l \in 1..0 |-> l][j]]
      BY <3>1
    <3> QED BY <2>2, <3>2, <3>3
  <2>5. T # {}
    BY <2>2, <2>4, FS_EmptySet
  <2>6. PICK x \in T : \A y \in T : f[x] <= f[y]
    <3> DEFINE V == {f[y] : y \in T}
    <3>1. V \subseteq Nat /\ V # {}
      BY <2>5
    <3>2. PICK v \in V : \A w \in V : v <= w
      BY <3>1, LeastNumber
    <3> QED BY <3>2
  <2>7. Cardinality(T \ {x}) = n - 1 /\ T \ {x} \in SUBSET S
    BY <2>2, <2>3, <2>6, FS_RemoveElement
  <2>8. Sorted(T \ {x})
    <3>1. n - 1 \in Nat /\ ~(n <= n - 1)
      BY <2>3, <2>4
    <3>2. n - 1 \notin Bad
      BY <2>1, <3>1
    <3> QED BY <2>7, <3>1, <3>2
  <2>9. PICK s \in [1..(n - 1) -> T \ {x}] :
           \A i, j \in 1..(n - 1) : i < j => f[s[i]] < f[s[j]]
    BY <2>7, <2>8
  <2> DEFINE r == [i \in 1..n |-> IF i = 1 THEN x ELSE s[i - 1]]
  <2>10. r \in [1..n -> T]
    BY <2>3, <2>6, <2>9
  <2>11. \A y \in T \ {x} : f[x] < f[y]
    BY <2>6
  <2>12. ASSUME NEW i \in 1..n, NEW j \in 1..n, i < j  PROVE f[r[i]] < f[r[j]]
    <3>1. j - 1 \in 1..(n - 1) /\ r[j] = s[j - 1] /\ s[j - 1] \in T \ {x}
      BY <2>3, <2>9, <2>12
    <3>2. CASE i = 1
      <4>1. r[i] = x
        BY <3>2
      <4> QED BY <2>11, <3>1, <4>1
    <3>3. CASE i # 1
      <4>1. i - 1 \in 1..(n - 1) /\ r[i] = s[i - 1] /\ i - 1 < j - 1
        BY <2>3, <2>12, <3>3
      <4> QED BY <2>9, <3>1, <4>1
    <3> QED BY <3>2, <3>3
  <2> HIDE DEF r
  <2> QED BY <2>2, <2>10, <2>12
<1>2. Cardinality(S) \in Nat
  BY FS_CardinalityType
<1> QED BY <1>1, <1>2

=============================================================================
