----------------------------- MODULE NewestFirst -----------------------------
(***************************************************************************)
(* Facts that the proofs share: extreme elements of sets of numbers, and   *)
(* the first page of a list that a provider sorts newest first.            *)
(***************************************************************************)
EXTENDS Integers, FiniteSets, FiniteSetsExt, FiniteSetTheorems, TLAPS

\* A set of naturals has a least element, and Min finds it.
LEMMA MinNat ==
  ASSUME NEW S, S \subseteq Nat, S # {}
  PROVE  Min(S) \in S /\ \A j \in S : Min(S) <= j
<1>1. PICK x \in S : \A y \in S : ~(<<y, x>> \in OpToRel(<, Nat))
  BY NatLessThanWellFounded, WFMin, Zenon
<1>2. \A y \in S : x <= y
  <2> SUFFICES ASSUME NEW y \in S, y < x PROVE FALSE
    OBVIOUS
  <2>1. <<y, x>> \in Nat \X Nat /\ <<y, x>>[1] = y /\ <<y, x>>[2] = x
    OBVIOUS
  <2>2. <<y, x>>[1] < <<y, x>>[2]
    BY <2>1
  <2>3. <<y, x>> \in OpToRel(<, Nat)
    BY <2>1, <2>2, Zenon DEF OpToRel
  <2> QED BY <1>1, <2>3, Zenon
<1> QED BY <1>2 DEF Min

\* A bounded set of naturals has a greatest element, and Max finds it.
LEMMA MaxNat ==
  ASSUME NEW n \in Nat, NEW S, S \subseteq 0 .. n, S # {}
  PROVE  Max(S) \in S /\ \A j \in S : j <= Max(S)
<1> DEFINE T == {k \in Nat : n - k \in S}
<1>1. T # {}
  <2>1. PICK i \in S : TRUE
    OBVIOUS
  <2>2. n - i \in Nat /\ n - (n - i) = i
    BY <2>1
  <2> QED BY <2>1, <2>2
<1>2. Min(T) \in T /\ \A k \in T : Min(T) <= k
  BY <1>1, MinNat
<1>3. n - Min(T) \in S
  BY <1>2
<1>4. ASSUME NEW j \in S PROVE j <= n - Min(T)
  <2>1. n - j \in T
    OBVIOUS
  <2> QED BY <2>1, <1>2
<1>5. \A j \in S : n - Min(T) >= j
  BY <1>3, <1>4
<1> QED BY <1>3, <1>5 DEF Max

\* The greater of two numbers.
LEMMA MaxPair ==
  ASSUME NEW a \in Int, NEW b \in Int
  PROVE  Max({a, b}) = IF a >= b THEN a ELSE b
<1> DEFINE m == IF a >= b THEN a ELSE b
<1>1. m \in {a, b} /\ \A y \in {a, b} : m >= y
  OBVIOUS
<1>2. \A x \in {a, b} : (\A y \in {a, b} : x >= y) => x = m
  OBVIOUS
<1> HIDE DEF m
<1>3. Max({a, b}) = m
  BY <1>1, <1>2 DEF Max
<1> QED BY <1>3 DEF m

-----------------------------------------------------------------------------
\* The elements of L that fewer than n others precede in R.
FirstOf(L, R, n) == {i \in L : Cardinality({j \in L : <<j, i>> \in R}) < n}

StrictOrder(R, L) ==
    /\ \A i \in L : <<i, i>> \notin R
    /\ \A i, j, k \in L : <<i, j>> \in R /\ <<j, k>> \in R => <<i, k>> \in R

\* What precedes an element of the first page is on it.
LEMMA FirstOfClosed ==
  ASSUME NEW L, NEW R, NEW n \in Nat, IsFiniteSet(L), StrictOrder(R, L),
         NEW i \in FirstOf(L, R, n), NEW j \in L, <<j, i>> \in R
  PROVE  j \in FirstOf(L, R, n)
<1> DEFINE before(x) == {y \in L : <<y, x>> \in R}
<1>1. \A x : before(x) \in SUBSET L
  OBVIOUS
<1>2. IsFiniteSet(before(i)) /\ IsFiniteSet(before(j))
  BY <1>1, FS_Subset
<1>3. i \in L /\ Cardinality(before(i)) < n
  BY DEF FirstOf
<1>4. before(j) \in SUBSET before(i)
  BY <1>3 DEF StrictOrder
<1>5. Cardinality(before(j)) <= Cardinality(before(i))
  BY <1>2, <1>4, FS_Subset
<1>6. Cardinality(before(i)) \in Nat /\ Cardinality(before(j)) \in Nat
  BY <1>2, FS_CardinalityType
<1>7. Cardinality(before(j)) < n
  BY <1>3, <1>5, <1>6
<1> QED BY <1>7 DEF FirstOf

\* A page that is not full is the whole list.
LEMMA FirstOfAll ==
  ASSUME NEW L, NEW R, NEW n \in Nat, IsFiniteSet(L), StrictOrder(R, L),
         Cardinality(FirstOf(L, R, n)) < n
  PROVE  FirstOf(L, R, n) = L
<1> DEFINE before(x) == {y \in L : <<y, x>> \in R}
           rest == L \ FirstOf(L, R, n)
           ranks == {Cardinality(before(x)) : x \in rest}
<1>1. \A x : before(x) \in SUBSET L
  OBVIOUS
<1>2. \A x : IsFiniteSet(before(x)) /\ Cardinality(before(x)) \in Nat
  BY <1>1, FS_Subset, FS_CardinalityType
<1> SUFFICES ASSUME rest # {} PROVE FALSE
  BY DEF FirstOf
<1>3. ranks \subseteq Nat /\ ranks # {}
  BY <1>2
<1>4. Min(ranks) \in ranks /\ \A k \in ranks : Min(ranks) <= k
  BY <1>3, MinNat
<1>5. PICK i \in rest : \A x \in rest : Cardinality(before(i)) <= Cardinality(before(x))
  <2>1. PICK i \in rest : Min(ranks) = Cardinality(before(i))
    BY <1>4, Zenon
  <2>2. \A x \in rest : Cardinality(before(x)) \in ranks
    BY Zenon
  <2>3. \A x \in rest : Min(ranks) <= Cardinality(before(x))
    BY <1>4, <2>2, Zenon
  <2> QED BY <2>1, <2>3, Zenon
<1>6. before(i) \subseteq FirstOf(L, R, n)
  <2> SUFFICES ASSUME NEW j \in before(i), j \in rest PROVE FALSE
    OBVIOUS
  <2>1. i \in L /\ j \in L /\ j \notin before(j) /\ before(j) \in SUBSET before(i)
    BY DEF StrictOrder
  <2>2. before(j) # before(i)
    BY <2>1
  <2>3. Cardinality(before(j)) <= Cardinality(before(i))
        /\ Cardinality(before(j)) # Cardinality(before(i))
    BY <1>2, <2>1, <2>2, FS_Subset
  <2>4. Cardinality(before(i)) <= Cardinality(before(j))
    BY <1>5
  <2>5. Cardinality(before(i)) \in Nat /\ Cardinality(before(j)) \in Nat
    BY <1>2
  <2> HIDE DEF before
  <2> QED BY <2>3, <2>4, <2>5
<1>7. IsFiniteSet(FirstOf(L, R, n)) /\ Cardinality(FirstOf(L, R, n)) \in Nat
  BY FS_Subset, FS_CardinalityType DEF FirstOf
<1>8. Cardinality(before(i)) <= Cardinality(FirstOf(L, R, n))
  BY <1>6, <1>7, FS_Subset
<1>9. ~(Cardinality(before(i)) < n)
  BY <1>5 DEF FirstOf
<1>10. Cardinality(before(i)) \in Nat
  BY <1>2
<1> HIDE DEF before
<1> QED BY <1>7, <1>8, <1>9, <1>10
=============================================================================
