------------------------------ MODULE ListProofs ------------------------------
(* What is left of a list: its entries are those at the places that are kept, *)
(* each of them once.  MempoolService, ReorgDetector and CycleFinder rest on  *)
(* this.  And the least of a set of numbers, for proofs without induction.    *)
EXTENDS Lists, Sequences, FiniteSetTheorems, WellFoundedInduction, TLAPS

(* A strict subset of a finite set has fewer elements.                        *)
LEMMA StrictSubset ==
  ASSUME NEW T, IsFiniteSet(T), NEW S \in SUBSET T, S # T
  PROVE  Cardinality(S) \in Nat /\ Cardinality(T) \in Nat /\ Cardinality(S) < Cardinality(T)
<1>1. IsFiniteSet(S) /\ Cardinality(S) <= Cardinality(T)
      /\ (Cardinality(S) = Cardinality(T) => S = T)
  BY FS_Subset
<1>2. Cardinality(S) \in Nat /\ Cardinality(T) \in Nat
  BY <1>1, FS_CardinalityType
<1> QED
  BY <1>1, <1>2

(* Every rank up to their number is that of one of finitely many places.      *)
LEMMA PlaceOfRank ==
  ASSUME NEW n \in Nat, NEW places \in SUBSET (1..n), NEW k \in 1..Cardinality(places)
  PROVE  \E i \in places : Cardinality({j \in places : j < i}) = k - 1
<1> DEFINE Before(i) == {j \in places : j < i}
           rank == [i \in places |-> Cardinality(Before(i))]
           Ranks == 0..(Cardinality(places) - 1)
<1>1. IsFiniteSet(places) /\ Cardinality(places) \in Nat
  <2>1. IsFiniteSet(1..n)
    BY FS_Interval
  <2> QED
    BY <2>1, FS_Subset, FS_CardinalityType
<1>2. ASSUME NEW i \in places
      PROVE  /\ Before(i) \in SUBSET places /\ Before(i) # places
             /\ IsFiniteSet(Before(i)) /\ Cardinality(Before(i)) \in Ranks
  <2>1. Before(i) \in SUBSET places /\ Before(i) # places
    OBVIOUS
  <2>2. IsFiniteSet(Before(i))
    BY <1>1, <2>1, FS_Subset
  <2>3. Cardinality(Before(i)) \in Nat /\ Cardinality(Before(i)) < Cardinality(places)
    <3> HIDE DEF Before
    <3> QED
      BY <1>1, <2>1, StrictSubset
  <2>4. Cardinality(Before(i)) \in Ranks
    <3> HIDE DEF Before
    <3> QED
      BY <1>1, <2>3
  <2> QED
    BY <2>1, <2>2, <2>4
<1>3. ASSUME NEW i \in places, NEW j \in places, i < j
      PROVE  Cardinality(Before(i)) < Cardinality(Before(j))
  <2>1. Before(i) \in SUBSET Before(j) /\ i \in Before(j) /\ i \notin Before(i)
    <3>1. i \in Nat /\ j \in Nat /\ \A x \in places : x \in Nat
      OBVIOUS
    <3>2. \A x \in places : x < i => x < j
      BY <1>3, <3>1
    <3>3. i < j /\ ~(i < i)
      BY <1>3, <3>1
    <3> QED
      BY <3>2, <3>3
  <2>2. IsFiniteSet(Before(j))
    BY <1>2
  <2> HIDE DEF Before
  <2> QED
    BY <2>1, <2>2, StrictSubset
<1>4. rank \in Injection(places, Ranks)
  <2>1. rank \in [places -> Ranks]
    <3> HIDE DEF Before, Ranks
    <3> QED
      BY <1>2
  <2>2. ASSUME NEW i \in places, NEW j \in places, rank[i] = rank[j]
        PROVE  i = j
    <3>1. Cardinality(Before(i)) = Cardinality(Before(j))
      BY <2>2
    <3>2. Cardinality(Before(i)) \in Ranks /\ Cardinality(Before(j)) \in Ranks
      BY <1>2
    <3> HIDE DEF Before
    <3>3. ~(i < j) /\ ~(j < i)
      BY <1>3, <3>1, <3>2
    <3> QED
      BY <3>3
  <2> HIDE DEF rank
  <2> QED
    BY <2>1, <2>2 DEF Injection, IsInjective
<1>5. IsFiniteSet(Ranks) /\ Cardinality(Ranks) = Cardinality(places)
  <2> DEFINE last == Cardinality(places) - 1
  <2>1. last \in Int /\ ~(0 > last) /\ last - 0 + 1 = Cardinality(places)
    BY <1>1
  <2> HIDE DEF last
  <2>2. IsFiniteSet(0..last) /\ Cardinality(0..last) = last - 0 + 1
    BY <2>1, FS_Interval
  <2> QED
    BY <2>1, <2>2 DEF last
<1>6. rank \in Surjection(places, Ranks)
  <2> HIDE DEF rank, Ranks
  <2> QED
    BY <1>4, <1>5, FS_Injection
<1>7. k - 1 \in Ranks
  BY <1>1
<1>8. PICK i \in places : rank[i] = k - 1
  <2> HIDE DEF rank, Ranks
  <2> QED
    BY <1>6, <1>7 DEF Surjection
<1> QED
  BY <1>8

(* The entries that are kept are as many as their places, and each is at a    *)
(* place of its own in the list there was.                                    *)
LEMMA KeptEntries ==
  ASSUME NEW S, NEW list \in Seq(S), NEW places \in SUBSET (1..Len(list))
  PROVE  /\ Kept(list, places) \in Seq(S) /\ Len(Kept(list, places)) <= Len(list)
         /\ Len(Kept(list, places)) = Cardinality(places)
         /\ IsFiniteSet(places)
         /\ \E at \in [1..Len(Kept(list, places)) -> places] :
              /\ \A k \in 1..Len(Kept(list, places)) : Kept(list, places)[k] = list[at[k]]
              /\ \A k, m \in 1..Len(Kept(list, places)) : at[k] = at[m] => k = m
<1> DEFINE Before(i) == {j \in places : j < i}
           at == [k \in 1..Cardinality(places) |->
                    CHOOSE i \in places : Cardinality(Before(i)) = k - 1]
           kept == Kept(list, places)
           n == Cardinality(places)
<1>1. Len(list) \in Nat
  OBVIOUS
<1>2. IsFiniteSet(places) /\ n \in Nat /\ n <= Len(list)
  <2>1. IsFiniteSet(1..Len(list)) /\ Cardinality(1..Len(list)) <= Len(list)
    BY <1>1, FS_Interval
  <2>2. /\ IsFiniteSet(places) /\ n <= Cardinality(1..Len(list))
        /\ n \in Nat /\ Cardinality(1..Len(list)) \in Nat
    BY <2>1, FS_Subset, FS_CardinalityType
  <2> QED
    BY <1>1, <2>1, <2>2
<1>3. ASSUME NEW k \in 1..n
      PROVE  at[k] \in places /\ Cardinality(Before(at[k])) = k - 1
  <2>1. \E i \in places : Cardinality(Before(i)) = k - 1
    BY <1>1, PlaceOfRank
  <2> HIDE DEF Before
  <2> QED
    BY <2>1
<1>4. kept = [k \in 1..n |-> list[at[k]]]
  BY DEF Kept
<1>5. ASSUME NEW k \in 1..n, NEW m \in 1..n, at[k] = at[m]
      PROVE  k = m
  <2>1. Cardinality(Before(at[k])) = k - 1 /\ Cardinality(Before(at[m])) = m - 1
    BY <1>3
  <2> HIDE DEF Before, at
  <2>2. k - 1 = m - 1
    BY <1>5, <2>1
  <2> QED
    BY <1>2, <2>2
<1>6. at \in [1..n -> places]
  <2> DEFINE a(k) == CHOOSE i \in places : Cardinality(Before(i)) = k - 1
  <2>1. \A k \in 1..n : a(k) \in places
    BY <1>3
  <2> HIDE DEF a
  <2>2. [k \in 1..n |-> a(k)] \in [1..n -> places]
    BY <2>1
  <2> QED
    BY <2>2 DEF a
<1> HIDE DEF at, kept, n
<1>7. kept \in Seq(S) /\ Len(kept) = n
  <2>1. ASSUME NEW k \in 1..n
        PROVE  list[at[k]] \in S
    <3>1. at[k] \in 1..Len(list)
      BY <1>3
    <3> QED
      BY <3>1
  <2> QED
    BY <1>2, <1>4, <2>1
<1>8. \A k \in 1..n : kept[k] = list[at[k]]
  BY <1>4
<1>9. \A k, m \in 1..n : at[k] = at[m] => k = m
  BY <1>5
<1> QED
  BY <1>2, <1>6, <1>7, <1>8, <1>9 DEF kept, n

(* A set of numbers has a least.                                            *)
LEMMA LeastNumber ==
  ASSUME NEW S \in SUBSET Nat, S # {}
  PROVE  \E m \in S : \A k \in S : m <= k
<1>1. PICK n \in S : TRUE
  OBVIOUS
<1> DEFINE T == S \cap (0..n)
           Below(m) == {k \in T : k < m}
           Belows == {Below(m) : m \in T}
<1>2. IsFiniteSet(T) /\ n \in T
  <2>1. IsFiniteSet(0..n) /\ T \subseteq 0..n /\ n \in 0..n
    BY FS_Interval
  <2> QED
    BY <2>1, FS_Subset
<1> HIDE DEF T
<1>3. IsWellFoundedOn(StrictSubsetOrdering(T), SUBSET T)
  BY <1>2, FS_StrictSubsetOrderingWellFounded, FS_FiniteSubsetsOfFinite
<1>4. Belows \subseteq SUBSET T /\ Belows # {}
  <2>1. \A m \in T : Below(m) \in SUBSET T
    OBVIOUS
  <2> HIDE DEF Below
  <2> QED
    BY <1>2, <2>1
<1>5. PICK B \in Belows : \A C \in Belows : ~(<<C, B>> \in StrictSubsetOrdering(T))
  <2> HIDE DEF Belows
  <2> QED
    BY <1>3, <1>4, WFMin
<1>6. PICK m \in T : B = Below(m)
  BY <1>5
<1>7. T \subseteq Nat
  BY DEF T
<1>8. ASSUME NEW k \in T, k < m
      PROVE  FALSE
  <2>1. k \in Nat /\ m \in Nat
    BY <1>7, <1>8
  <2>2. ASSUME NEW x \in Below(k) PROVE x \in Below(m)
    <3>1. x \in T /\ x < k /\ x \in Nat
      BY <1>7, <2>2
    <3> QED
      BY <1>8, <2>1, <3>1
  <2>3. k \in Below(m) /\ k \notin Below(k)
    BY <1>8, <2>1
  <2>4. Below(k) \in SUBSET T /\ B \in SUBSET T /\ Below(k) \subseteq B /\ Below(k) # B
    BY <1>6, <2>2, <2>3
  <2>5. <<Below(k), B>> \in StrictSubsetOrdering(T)
    <3> HIDE DEF Below
    <3> QED
      BY <2>4 DEF StrictSubsetOrdering
  <2> QED
    BY <1>5, <1>8, <2>5
<1>9. \A k \in T : m <= k
  BY <1>7, <1>8
<1> QED
  BY <1>2, <1>9 DEF T
=============================================================================
