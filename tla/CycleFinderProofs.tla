------------------------- MODULE CycleFinderProofs --------------------------
(* For every list of pools with their tokens, every set of pools that have a  *)
(* state and every list of passes: the depth-first search of CycleFinder finds*)
(* cycles over distinct pools and tokens, and all of them unless it is cut    *)
(* short.  The recursion of collectCyclesPrepared is a path with, at each of its*)
(* tokens, the edge to try next; what is known of a search under way is that it*)
(* has found every cycle that leaves the path over an edge already tried.     *)
EXTENDS CycleFinder, ListProofs, SequenceTheorems

-----------------------------------------------------------------------------
(* Lists.                                                                     *)

(* What is kept of a list are its entries at the places that are kept.        *)
LEMMA KeptRange ==
  ASSUME NEW S, NEW list \in Seq(S), NEW places \in SUBSET (1..Len(list))
  PROVE  /\ Kept(list, places) \in Seq(S)
         /\ Range(Kept(list, places)) = {list[i] : i \in places}
<1> DEFINE some == Kept(list, places)
<1>1. some \in Seq(S) /\ Len(some) = Cardinality(places) /\ IsFiniteSet(places)
  BY KeptEntries
<1>2. PICK at \in [1..Len(some) -> places] :
        /\ \A k \in 1..Len(some) : some[k] = list[at[k]]
        /\ \A k, m \in 1..Len(some) : at[k] = at[m] => k = m
  BY KeptEntries
<1> HIDE DEF some
<1>3. Len(some) \in Nat /\ DOMAIN some = 1..Len(some)
  BY <1>1
<1>4. IsFiniteSet(1..Len(some)) /\ Cardinality(1..Len(some)) = Len(some)
  <2>1. Len(some) \in Nat
    BY <1>3
  <2> HIDE DEF some
  <2> DEFINE n == Len(some)
  <2>2. n \in Nat
    BY <2>1
  <2> HIDE DEF n
  <2>3. IsFiniteSet(1..n) /\ Cardinality(1..n) = n
    <3>1. 1 \in Int /\ n \in Int /\ (1 > n => n = 0) /\ n - 1 + 1 = n
      BY <2>2
    <3> QED
      BY <3>1, FS_Interval
  <2> QED
    BY <2>3 DEF n
<1>5. at \in Injection(1..Len(some), places)
  BY <1>2 DEF Injection, IsInjective
<1>6. at \in Surjection(1..Len(some), places)
  BY <1>1, <1>4, <1>5, FS_Injection
<1>7. \A i \in places : \E k \in 1..Len(some) : at[k] = i
  BY <1>6 DEF Surjection
<1>8. Range(some) = {list[i] : i \in places}
  <2>1. Range(some) = {some[k] : k \in 1..Len(some)}
    BY <1>3 DEF Range
  <2>2. \A k \in 1..Len(some) : some[k] \in {list[i] : i \in places}
    BY <1>2
  <2>3. \A i \in places : \E k \in 1..Len(some) : some[k] = list[i]
    BY <1>2, <1>7
  <2> QED
    BY <2>1, <2>2, <2>3
<1> QED
  BY <1>1, <1>8 DEF some

(* What FlattenSeq stands for exists, and is a list of the entries.           *)
FlatAfter(lists, x, i) == IF i = 1 THEN lists[i] ELSE x \o lists[i]
FlatUpTo(lists, g, n) == g = [i \in 1..n |-> FlatAfter(lists, g[i - 1], i)]

LEMMA FlatExists ==
  ASSUME NEW lists, NEW n \in Nat
  PROVE  \E g : FlatUpTo(lists, g, n)
<1> DEFINE S == {k \in Nat : ~\E g : FlatUpTo(lists, g, k)}
<1>1. SUFFICES ASSUME S # {} PROVE FALSE
  OBVIOUS
<1>2. PICK m \in S : \A k \in S : m <= k
  <2> HIDE DEF S
  <2>1. S \in SUBSET Nat
    BY DEF S
  <2> QED
    BY <1>1, <2>1, LeastNumber
<1>3. CASE m = 0
  <2>1. FlatUpTo(lists, <<>>, 0)
    BY DEF FlatUpTo
  <2> QED
    BY <1>2, <1>3, <2>1
<1>4. CASE m # 0
  <2>1. m \in Nat \ {0} /\ m - 1 \in Nat /\ m - 1 \notin S
    BY <1>2, <1>4
  <2>2. PICK g : FlatUpTo(lists, g, m - 1)
    BY <2>1
  <2> DEFINE h == [i \in 1..m |-> FlatAfter(lists, g[i - 1], i)]
  <2>3. \A i \in 1..(m - 1) : h[i] = g[i]
    BY <2>1, <2>2 DEF FlatUpTo
  <2>4. \A i \in 1..m : FlatAfter(lists, h[i - 1], i) = FlatAfter(lists, g[i - 1], i)
    <3> SUFFICES ASSUME NEW i \in 1..m
                 PROVE  FlatAfter(lists, h[i - 1], i) = FlatAfter(lists, g[i - 1], i)
      OBVIOUS
    <3>1. CASE i = 1
      BY <3>1 DEF FlatAfter
    <3>2. CASE i # 1
      <4>1. i - 1 \in 1..(m - 1)
        BY <2>1, <3>2
      <4> QED
        BY <2>3, <4>1
    <3> QED
      BY <3>1, <3>2
  <2>5. h = [i \in 1..m |-> FlatAfter(lists, h[i - 1], i)]
    BY <2>4
  <2>6. FlatUpTo(lists, h, m)
    BY <2>5 DEF FlatUpTo
  <2> QED
    BY <1>2, <2>6
<1> QED
  BY <1>3, <1>4

(* Lists of entries, one after the other, are a list of them.                 *)
LEMMA FlatList ==
  ASSUME NEW S, NEW lists \in Seq(Seq(S))
  PROVE  FlattenSeq(lists) \in Seq(S)
<1>1. Len(lists) \in Nat /\ \A i \in 1..Len(lists) : lists[i] \in Seq(S)
  OBVIOUS
<1>2. CASE Len(lists) = 0
  <2>1. lists = <<>>
    BY <1>2
  <2> QED
    BY <2>1 DEF FlattenSeq
<1>3. CASE Len(lists) # 0
  <2> DEFINE flat == CHOOSE g : FlatUpTo(lists, g, Len(lists))
  <2>1. FlatUpTo(lists, flat, Len(lists))
    BY <1>1, FlatExists
  <2>2. FlattenSeq(lists) = flat[Len(lists)]
    BY <1>3 DEF FlattenSeq, FlatUpTo, FlatAfter
  <2> HIDE DEF flat
  <2> DEFINE Bad == {i \in 1..Len(lists) : flat[i] \notin Seq(S)}
  <2>3. Bad = {}
    <3>1. SUFFICES ASSUME Bad # {} PROVE FALSE
      OBVIOUS
    <3>2. PICK m \in Bad : \A k \in Bad : m <= k
      <4> HIDE DEF Bad
      <4>1. Bad \in SUBSET Nat
        BY <1>1 DEF Bad
      <4> QED
        BY <3>1, <4>1, LeastNumber
    <3>3. flat[m] = FlatAfter(lists, flat[m - 1], m) /\ m \in 1..Len(lists)
      BY <2>1, <3>2 DEF FlatUpTo
    <3>4. CASE m = 1
      BY <1>1, <3>2, <3>3, <3>4 DEF FlatAfter
    <3>5. CASE m # 1
      <4>1. m - 1 \in 1..Len(lists) /\ m - 1 \notin Bad
        BY <1>1, <3>2, <3>5
      <4>2. flat[m - 1] \in Seq(S) /\ lists[m] \in Seq(S)
        BY <1>1, <3>3, <4>1
      <4>3. flat[m - 1] \o lists[m] \in Seq(S)
        BY <4>2
      <4> QED
        BY <3>2, <3>3, <3>5, <4>3 DEF FlatAfter
    <3> QED
      BY <3>4, <3>5
  <2>4. Len(lists) \in 1..Len(lists)
    BY <1>1, <1>3
  <2> QED
    BY <2>2, <2>3, <2>4
<1> QED
  BY <1>2, <1>3

(* The entries of a list are as many as its places just when each is at one   *)
(* place alone.                                                               *)
LEMMA DistinctCount ==
  ASSUME NEW n \in Nat, NEW f, f = [i \in 1..n |-> f[i]]
  PROVE  Cardinality({f[i] : i \in 1..n}) = n <=> \A i, j \in 1..n : f[i] = f[j] => i = j
<1> DEFINE T == {f[i] : i \in 1..n}
<1>1. f \in Surjection(1..n, T)
  <2>1. f \in [1..n -> T] /\ \A t \in T : \E i \in 1..n : f[i] = t
    OBVIOUS
  <2> HIDE DEF T
  <2> QED
    BY <2>1 DEF Surjection
<1>2. IsFiniteSet(1..n) /\ Cardinality(1..n) = n
  <2>1. 1 \in Int /\ n \in Int /\ (1 > n => n = 0) /\ n - 1 + 1 = n
    OBVIOUS
  <2> QED
    BY <2>1, FS_Interval
<1>3. Cardinality(T) = n <=> f \in Injection(1..n, T)
  <2> HIDE DEF T
  <2> QED
    BY <1>1, <1>2, FS_Surjection
<1>4. f \in [1..n -> T]
  OBVIOUS
<1>5. f \in Injection(1..n, T) <=> \A i, j \in 1..n : f[i] = f[j] => i = j
  <2> HIDE DEF T
  <2> QED
    BY <1>4 DEF Injection, IsInjective
<1> QED
  BY <1>3, <1>5

(* The entries of two lists joined are those of both.                         *)
LEMMA JoinedRange ==
  ASSUME NEW S, NEW s \in Seq(S), NEW t \in Seq(S)
  PROVE  s \o t \in Seq(S) /\ Range(s \o t) = Range(s) \cup Range(t)
<1>1. /\ s \o t \in Seq(S) /\ Len(s \o t) = Len(s) + Len(t)
      /\ \A i \in 1..(Len(s) + Len(t)) :
           (s \o t)[i] = IF i <= Len(s) THEN s[i] ELSE t[i - Len(s)]
  BY ConcatProperties
<1>2. Len(s) \in Nat /\ Len(t) \in Nat
  OBVIOUS
<1>3. \A i \in 1..Len(s) : i \in 1..(Len(s) + Len(t)) /\ (s \o t)[i] = s[i]
  BY <1>1, <1>2
<1>4. \A i \in 1..Len(t) : /\ Len(s) + i \in 1..(Len(s) + Len(t))
                           /\ (s \o t)[Len(s) + i] = t[i]
  <2> TAKE i \in 1..Len(t)
  <2>1. Len(s) + i \in 1..(Len(s) + Len(t)) /\ ~(Len(s) + i <= Len(s)) /\ Len(s) + i - Len(s) = i
    BY <1>2
  <2> QED
    BY <1>1, <2>1
<1>5. ASSUME NEW x \in Range(s \o t) PROVE x \in Range(s) \cup Range(t)
  <2>1. PICK i \in 1..(Len(s) + Len(t)) : x = (s \o t)[i]
    BY <1>1, <1>5 DEF Range
  <2>2. CASE i <= Len(s)
    BY <1>1, <1>2, <2>1, <2>2 DEF Range
  <2>3. CASE ~(i <= Len(s))
    <3>1. i - Len(s) \in 1..Len(t) /\ x = t[i - Len(s)]
      BY <1>1, <1>2, <2>1, <2>3
    <3> QED
      BY <3>1 DEF Range
  <2> QED
    BY <2>2, <2>3
<1>6. ASSUME NEW x \in Range(s) PROVE x \in Range(s \o t)
  <2>1. PICK i \in 1..Len(s) : x = s[i]
    BY <1>6 DEF Range
  <2>2. i \in DOMAIN (s \o t) /\ (s \o t)[i] = x
    BY <1>1, <1>3, <2>1
  <2> QED
    BY <2>2 DEF Range
<1>7. ASSUME NEW x \in Range(t) PROVE x \in Range(s \o t)
  <2>1. PICK i \in 1..Len(t) : x = t[i]
    BY <1>7 DEF Range
  <2>2. Len(s) + i \in DOMAIN (s \o t) /\ (s \o t)[Len(s) + i] = x
    BY <1>1, <1>4, <2>1
  <2> QED
    BY <2>2 DEF Range
<1> QED
  BY <1>1, <1>5, <1>6, <1>7

(* A list is one of the entries it has.                                       *)
LEMMA OwnRange ==
  ASSUME NEW S, NEW s \in Seq(S)
  PROVE  s \in Seq(Range(s)) /\ Range(s) \subseteq S
<1>1. DOMAIN s = 1..Len(s) /\ Len(s) \in Nat /\ s = [i \in 1..Len(s) |-> s[i]]
  OBVIOUS
<1>2. \A i \in 1..Len(s) : s[i] \in Range(s) /\ s[i] \in S
  BY <1>1 DEF Range
<1>3. s \in Seq(Range(s))
  <2> HIDE DEF Range
  <2>1. s \in [1..Len(s) -> Range(s)]
    BY <1>1, <1>2
  <2> QED
    BY <1>1, <2>1, SeqDef
<1> QED
  BY <1>1, <1>2, <1>3 DEF Range

(* What is appended is one more entry.                                        *)
LEMMA AppendedRange ==
  ASSUME NEW S, NEW s \in Seq(S), NEW x \in S
  PROVE  Append(s, x) \in Seq(S) /\ Range(Append(s, x)) = Range(s) \cup {x}
<1> DEFINE t == Append(s, x)
<1>1. /\ t \in Seq(S) /\ Len(t) = Len(s) + 1 /\ t[Len(s) + 1] = x /\ Len(s) \in Nat
      /\ \A i \in 1..Len(s) : t[i] = s[i]
  OBVIOUS
<1>2. DOMAIN t = 1..(Len(s) + 1) /\ DOMAIN s = 1..Len(s)
  BY <1>1
<1>3. \A i \in 1..(Len(s) + 1) : i \in 1..Len(s) \/ i = Len(s) + 1
  BY <1>1
<1>4. Len(s) + 1 \in 1..(Len(s) + 1) /\ \A i \in 1..Len(s) : i \in 1..(Len(s) + 1)
  BY <1>1
<1> HIDE DEF t
<1>5. Range(t) = Range(s) \cup {x}
  BY <1>1, <1>2, <1>3, <1>4 DEF Range
<1> QED
  BY <1>1, <1>5 DEF t

(* All but the last entry of a list.                                          *)
LEMMA FrontEntries ==
  ASSUME NEW S, NEW t \in Seq(S), t # <<>>
  PROVE  /\ Front(t) \in Seq(S) /\ Len(Front(t)) = Len(t) - 1
         /\ \A i \in 1..(Len(t) - 1) : Front(t)[i] = t[i]
<1>1. Len(t) \in Nat \ {0} /\ \A i \in 1..(Len(t) - 1) : i \in 1..Len(t) /\ t[i] \in S
  OBVIOUS
<1> DEFINE n == Len(t) - 1
<1>2. n \in Nat /\ n \in Int /\ 1 \in Int /\ (~(1 <= n) => n = 0) /\ n - 1 + 1 = n
  <2>1. n \in Nat
    BY <1>1
  <2> HIDE DEF n
  <2> QED
    BY <2>1
<1>3. \A i \in 1..n : 1 + i - 1 = i /\ t[i] \in S
  BY <1>1
<1>4. Front(t) = SubSeq(t, 1, n)
  BY DEF Front
<1> HIDE DEF n
<1>5. /\ SubSeq(t, 1, n) \in Seq(S) /\ Len(SubSeq(t, 1, n)) = IF 1 <= n THEN n - 1 + 1 ELSE 0
      /\ \A i \in 1..(n - 1 + 1) : SubSeq(t, 1, n)[i] = t[1 + i - 1]
  BY <1>2, <1>3, SubSeqProperties
<1>6. \A i \in 1..n : SubSeq(t, 1, n)[i] = t[i]
  BY <1>2, <1>3, <1>5
<1>7. Len(SubSeq(t, 1, n)) = n
  BY <1>2, <1>5
<1> QED
  BY <1>4, <1>5, <1>6, <1>7 DEF n

-----------------------------------------------------------------------------
(* The graph.                                                                 *)

(* The edges are a list.                                                      *)
LEMMA EdgesList ==
  ASSUME CycleFinderConstants
  PROVE  Edges \in Seq(Range(Edges)) /\ DOMAIN Edges = 1..Len(Edges) /\ Len(Edges) \in Nat
<1> DEFINE Edge(p, i, j) ==
             [pool |-> p, in |-> PoolTokens[p][i], out |-> PoolTokens[p][j], up |-> i < j]
           Between(p) == {Edge(p, i, j) : i \in DOMAIN PoolTokens[p], j \in DOMAIN PoolTokens[p]}
           All == UNION {Between(p) : p \in DOMAIN PoolTokens}
<1>1. ASSUME NEW p \in DOMAIN PoolTokens
      PROVE  EdgesOf(p) \in Seq(All)
  <2> DEFINE t == PoolTokens[p]
             From(i) == [j \in DOMAIN t |-> Edge(p, i, j)]
             Others(i) == {j \in DOMAIN t : t[j] # t[i]}
             lists == [i \in DOMAIN t |-> Kept(From(i), Others(i))]
  <2>1. DOMAIN t = 1..Len(t) /\ Len(t) \in Nat
    <3>1. t \in Seq(Range(t))
      BY DEF CycleFinderConstants
    <3> HIDE DEF t, Range
    <3> QED
      BY <3>1
  <2>2. ASSUME NEW i \in DOMAIN t PROVE Kept(From(i), Others(i)) \in Seq(All)
    <3>1. \A j \in DOMAIN t : Edge(p, i, j) \in All
      <4>1. \A j \in DOMAIN t : Edge(p, i, j) \in Between(p)
        BY <2>2
      <4> HIDE DEF Edge, Between
      <4> QED
        BY <4>1
    <3>2. From(i) \in [1..Len(t) -> All]
      <4> HIDE DEF Edge, All, t
      <4> QED
        BY <2>1, <3>1
    <3>3. From(i) \in Seq(All)
      <4> HIDE DEF From, All, t
      <4> QED
        BY <2>1, <3>2, SeqDef
    <3>4. DOMAIN From(i) = 1..Len(t) /\ DOMAIN From(i) = 1..Len(From(i))
      <4>1. DOMAIN From(i) = 1..Len(t)
        BY <2>1
      <4> HIDE DEF From, All
      <4> QED
        BY <3>3, <4>1
    <3>5. Others(i) \in SUBSET (1..Len(From(i)))
      <4>1. Others(i) \in SUBSET (1..Len(t))
        <5> HIDE DEF t
        <5> QED
          BY <2>1
      <4> HIDE DEF From, Others, t
      <4> QED
        BY <3>4, <4>1
    <3> HIDE DEF From, Others, All
    <3> QED
      BY <3>3, <3>5, KeptRange
  <2>3. lists \in Seq(Seq(All))
    <3>1. lists \in [1..Len(t) -> Seq(All)]
      <4> HIDE DEF From, Others, All
      <4> QED
        BY <2>1, <2>2
    <3> HIDE DEF lists, t, All
    <3> QED
      BY <2>1, <3>1, SeqDef
  <2>4. EdgesOf(p) = FlattenSeq(lists)
    BY DEF EdgesOf
  <2> HIDE DEF lists, All
  <2> QED
    BY <2>3, <2>4, FlatList
<1>2. DOMAIN RoutingPools = 1..Len(RoutingPools) /\ Len(RoutingPools) \in Nat
      /\ \A i \in 1..Len(RoutingPools) : RoutingPools[i] \in DOMAIN PoolTokens
  BY DEF CycleFinderConstants
<1> DEFINE lists == [i \in DOMAIN RoutingPools |-> EdgesOf(RoutingPools[i])]
<1>3. lists \in Seq(Seq(All))
  <2> HIDE DEF All
  <2>1. lists \in [1..Len(RoutingPools) -> Seq(All)]
    BY <1>1, <1>2
  <2> HIDE DEF lists
  <2> QED
    BY <1>2, <2>1, SeqDef
<1>4. Edges \in Seq(All)
  <2>1. Edges = FlattenSeq(lists)
    BY DEF Edges
  <2> HIDE DEF lists, All
  <2> QED
    BY <1>3, <2>1, FlatList
<1> HIDE DEF All
<1> QED
  BY <1>4, OwnRange

(* The tokens that edges join, and the edges that leave each of them.         *)
Ends == {e.in : e \in Range(Edges)} \cup {e.out : e \in Range(Edges)}
Leaving == [t \in Ends |-> Adjacency(t)]

(* What leaves a token are the edges that start there and have a state.       *)
LEMMA LeavingEdges ==
  ASSUME CycleFinderConstants, NEW t
  PROVE  /\ Adjacency(t) \in Seq(Range(Edges))
         /\ \A e : e \in Range(Adjacency(t))
                     <=> e \in Range(Edges) /\ e.in = t /\ e.pool \in valid
<1> DEFINE places == {i \in Routable : Edges[i].in = t}
<1>1. Edges \in Seq(Range(Edges)) /\ DOMAIN Edges = 1..Len(Edges)
  BY EdgesList
<1>2. places \in SUBSET (1..Len(Edges))
  BY <1>1 DEF Routable
<1>3. Adjacency(t) \in Seq(Range(Edges)) /\ Range(Adjacency(t)) = {Edges[i] : i \in places}
  <2>1. Adjacency(t) = Kept(Edges, places)
    BY DEF Adjacency
  <2> HIDE DEF places
  <2> QED
    BY <1>1, <1>2, <2>1, KeptRange
<1>4. \A e : e \in {Edges[i] : i \in places}
               <=> e \in Range(Edges) /\ e.in = t /\ e.pool \in valid
  BY DEF Routable, Range
<1> QED
  BY <1>3, <1>4

(* Every token that an edge with a state leaves is started at.                *)
LEMMA StartsCover ==
  ASSUME CycleFinderConstants
  PROVE  /\ StartTokens \in Seq(Ends)
         /\ \A e \in Range(Edges) : e.pool \in valid => e.in \in Range(StartTokens)
<1> DEFINE ins == [i \in DOMAIN Edges |-> Edges[i].in]
           firsts == {i \in Routable : \A j \in Routable : Edges[j].in = Edges[i].in => i <= j}
<1>1. Edges \in Seq(Range(Edges)) /\ DOMAIN Edges = 1..Len(Edges) /\ Len(Edges) \in Nat
  BY EdgesList
<1>2. ins \in Seq(Ends) /\ Len(ins) = Len(Edges)
  <2>1. \A i \in DOMAIN Edges : Edges[i].in \in Ends
    BY DEF Ends, Range
  <2>2. ins \in [1..Len(Edges) -> Ends]
    BY <1>1, <2>1
  <2>3. ins \in Seq(Ends)
    <3> HIDE DEF ins
    <3> QED
      BY <1>1, <2>2, SeqDef
  <2>4. DOMAIN ins = 1..Len(Edges)
    BY <1>1
  <2> HIDE DEF ins
  <2> QED
    BY <1>1, <2>3, <2>4
<1>3. firsts \in SUBSET (1..Len(Edges)) /\ Routable \in SUBSET (1..Len(Edges))
  BY <1>1 DEF Routable
<1>4. TokenOrder \in Seq(Ends) /\ Range(TokenOrder) = {ins[i] : i \in firsts}
  <2>1. TokenOrder = Kept(ins, firsts)
    BY DEF TokenOrder
  <2> HIDE DEF ins, firsts
  <2> QED
    BY <1>2, <1>3, <2>1, KeptRange
<1>5. ASSUME NEW e \in Range(Edges), e.pool \in valid
      PROVE  e.in \in Range(TokenOrder)
  <2>1. PICK i \in Routable : Edges[i] = e
    BY <1>5 DEF Range, Routable
  <2> DEFINE same == {j \in Routable : Edges[j].in = e.in}
  <2>2. same \in SUBSET Nat /\ i \in same
    <3>1. Routable \in SUBSET Nat
      BY <1>1, <1>3
    <3>2. \A j \in same : j \in Routable
      OBVIOUS
    <3>3. i \in same
      BY <2>1
    <3> HIDE DEF same
    <3> QED
      BY <3>1, <3>2, <3>3
  <2>3. PICK m \in same : \A k \in same : m <= k
    <3> HIDE DEF same
    <3> QED
      BY <2>2, LeastNumber
  <2>4. m \in firsts /\ m \in DOMAIN Edges /\ ins[m] = e.in
    BY <1>1, <1>3, <2>3
  <2> QED
    BY <1>4, <2>4
<1> DEFINE major == {i \in DOMAIN TokenOrder : TokenOrder[i] \in Majors}
           minor == {i \in DOMAIN TokenOrder : TokenOrder[i] \notin Majors}
<1> HIDE DEF ins, firsts
<1>6. /\ major \in SUBSET (1..Len(TokenOrder)) /\ minor \in SUBSET (1..Len(TokenOrder))
      /\ major \cup minor = 1..Len(TokenOrder) /\ DOMAIN TokenOrder = 1..Len(TokenOrder)
  BY <1>4
<1>7. /\ Kept(TokenOrder, major) \in Seq(Ends) /\ Kept(TokenOrder, minor) \in Seq(Ends)
      /\ Range(Kept(TokenOrder, major)) = {TokenOrder[i] : i \in major}
      /\ Range(Kept(TokenOrder, minor)) = {TokenOrder[i] : i \in minor}
  <2> HIDE DEF major, minor
  <2> QED
    BY <1>4, <1>6, KeptRange
<1>8. StartTokens = Kept(TokenOrder, major) \o Kept(TokenOrder, minor)
  BY DEF StartTokens
<1>9. /\ StartTokens \in Seq(Ends)
      /\ Range(StartTokens) = {TokenOrder[i] : i \in major} \cup {TokenOrder[i] : i \in minor}
  <2> HIDE DEF major, minor
  <2> QED
    BY <1>7, <1>8, JoinedRange
<1>10. Range(TokenOrder) = {TokenOrder[i] : i \in major} \cup {TokenOrder[i] : i \in minor}
  <2> HIDE DEF major, minor
  <2> QED
    BY <1>6 DEF Range
<1> QED
  BY <1>5, <1>9, <1>10

-----------------------------------------------------------------------------
(* The search, on any graph: adj are the edges that leave a token, starts the *)
(* tokens to start at, ok the pools with a state, s the position of the start *)
(* token, p the path, nx the edges to try next and f the cycles found.        *)

(* What a search rests on: from each token the edges that leave it and have a *)
(* state, and the tokens to start at.                                         *)
Graph(adj, starts, ok) ==
  /\ adj \in [Ends -> Seq(Range(Edges))]
  /\ \A t \in Ends : \A e : e \in Range(adj[t])
                              <=> e \in Range(Edges) /\ e.in = t /\ e.pool \in ok
  /\ starts \in Seq(Ends)
  /\ \A e \in Range(Edges) : e.pool \in ok => e.in \in Range(starts)

(* The cycles that a search of so many hops looks for, place by place.        *)
Ring(ok, hops, c) ==
  /\ c \in Seq(Range(Edges)) /\ Len(c) >= 2 /\ Len(c) <= hops
  /\ \A i \in 1..(Len(c) - 1) : c[i].out = c[i + 1].in
  /\ c[Len(c)].out = c[1].in
  /\ \A i, j \in 1..Len(c) : c[i].in = c[j].in \/ c[i].pool = c[j].pool => i = j
  /\ \A i \in 1..Len(c) : c[i].pool \in ok

(* They are the cycles of the reference.                                      *)
LEMMA RingIsSimple ==
  ASSUME NEW c, NEW hops \in Nat
  PROVE  c \in SimpleCycles(hops) <=> Ring(valid, hops, c)
<1>1. c \in UNION {[1..k -> Range(Edges)] : k \in 2..hops}
      <=> c \in Seq(Range(Edges)) /\ Len(c) >= 2 /\ Len(c) <= hops
  <2>1. ASSUME NEW k \in 2..hops, c \in [1..k -> Range(Edges)]
        PROVE  c \in Seq(Range(Edges)) /\ Len(c) = k
    <3>1. k \in Nat
      OBVIOUS
    <3> HIDE DEF Range
    <3>2. c \in Seq(Range(Edges))
      BY <2>1, <3>1, SeqDef
    <3>3. DOMAIN c = 1..k /\ DOMAIN c = 1..Len(c) /\ Len(c) \in Nat
      BY <2>1, <3>2
    <3> QED
      BY <3>1, <3>2, <3>3
  <2>2. ASSUME c \in Seq(Range(Edges)), Len(c) >= 2, Len(c) <= hops
        PROVE  Len(c) \in 2..hops /\ c \in [1..Len(c) -> Range(Edges)]
    BY <2>2, LenProperties
  <2> QED
    BY <2>1, <2>2
<1>2. ASSUME c \in Seq(Range(Edges)), Len(c) >= 2
      PROVE  IsSimple(c) <=>
               /\ \A i \in 1..(Len(c) - 1) : c[i].out = c[i + 1].in
               /\ c[Len(c)].out = c[1].in
               /\ \A i, j \in 1..Len(c) : c[i].in = c[j].in \/ c[i].pool = c[j].pool => i = j
               /\ \A i \in 1..Len(c) : c[i].pool \in valid
  <2>1. DOMAIN c = 1..Len(c) /\ Len(c) \in Nat
    BY <1>2
  <2> DEFINE ins == [i \in 1..Len(c) |-> c[i].in]
             pools == [i \in 1..Len(c) |-> c[i].pool]
  <2>2. /\ ins = [i \in 1..Len(c) |-> ins[i]] /\ \A i \in 1..Len(c) : ins[i] = c[i].in
        /\ pools = [i \in 1..Len(c) |-> pools[i]] /\ \A i \in 1..Len(c) : pools[i] = c[i].pool
    OBVIOUS
  <2>3. /\ {c[i].in : i \in DOMAIN c} = {ins[i] : i \in 1..Len(c)}
        /\ RouteKey(c) = {pools[i] : i \in 1..Len(c)}
    BY <2>1, <2>2 DEF RouteKey
  <2> HIDE DEF ins, pools
  <2>4. /\ Cardinality({c[i].in : i \in DOMAIN c}) = Len(c)
             <=> \A i, j \in 1..Len(c) : ins[i] = ins[j] => i = j
        /\ Cardinality(RouteKey(c)) = Len(c)
             <=> \A i, j \in 1..Len(c) : pools[i] = pools[j] => i = j
    <3>1. Cardinality({ins[i] : i \in 1..Len(c)}) = Len(c)
             <=> \A i, j \in 1..Len(c) : ins[i] = ins[j] => i = j
      BY <2>1, <2>2, DistinctCount
    <3>2. Cardinality({pools[i] : i \in 1..Len(c)}) = Len(c)
             <=> \A i, j \in 1..Len(c) : pools[i] = pools[j] => i = j
      BY <2>1, <2>2, DistinctCount
    <3> QED
      BY <2>3, <3>1, <3>2
  <2>5. RouteKey(c) \subseteq valid <=> \A i \in 1..Len(c) : c[i].pool \in valid
    BY <2>1 DEF RouteKey
  <2>6. Last(c) = c[Len(c)]
    BY DEF Last
  <2> QED
    BY <2>2, <2>4, <2>5, <2>6 DEF IsSimple, IsCycle
<1> QED
  BY <1>1, <1>2 DEF SimpleCycles, Ring

(* The token that the search is at.                                           *)
At(starts, s, p) == IF p = <<>> THEN starts[s] ELSE p[Len(p)].out

(* The path goes on from the start token, over distinct pools and tokens, and *)
(* has room for one more edge.                                                *)
GoodPath(starts, ok, hops, s, p) ==
  /\ p \in Seq(Range(Edges)) /\ Len(p) < hops
  /\ p # <<>> => s <= Len(starts) /\ p[1].in = starts[s]
  /\ \A i \in 1..Len(p) : p[i].pool \in ok /\ p[i].out # starts[s]
  /\ \A i \in 2..Len(p) : p[i].in = p[i - 1].out
  /\ \A i, j \in 1..Len(p) : p[i].pool = p[j].pool \/ p[i].out = p[j].out => i = j

(* Of each token on the path the edge taken is the one before the next to try.*)
GoodPlaces(adj, p, nx) ==
  /\ nx \in Seq(Nat \ {0}) /\ Len(nx) = Len(p) + 1
  /\ \A i \in 1..Len(p) : /\ nx[i] - 1 \in 1..Len(adj[p[i].in])
                          /\ adj[p[i].in][nx[i] - 1] = p[i]

(* The edges of the k-th token whose cycles the search is done with.          *)
Behind(p, nx, k) == IF k <= Len(p) THEN nx[k] - 2 ELSE nx[k] - 1
(* A cycle leaves the path at its k-th token over an edge that the search is  *)
(* done with; it was to be found before, from this start token or another.    *)
Passed(adj, p, nx, k, c) ==
  /\ k <= Len(c) /\ \A i \in 1..(k - 1) : c[i] = p[i]
  /\ \E j \in 1..Behind(p, nx, k) : j <= Len(adj[c[k].in]) /\ adj[c[k].in][j] = c[k]
Earlier(adj, starts, s, p, nx, c) ==
  \/ \E r \in 1..(s - 1) : c[1].in = starts[r]
  \/ /\ s <= Len(starts) /\ c[1].in = starts[s]
     /\ \E k \in 1..Len(nx) : Passed(adj, p, nx, k, c)

(* What is found are cycles, and all of those that were to be found before.   *)
Search(adj, starts, ok, hops, s, p, nx, f) ==
  /\ s \in 1..(Len(starts) + 1)
  /\ GoodPath(starts, ok, hops, s, p) /\ GoodPlaces(adj, p, nx)
  /\ f \in Seq(Seq(Range(Edges))) /\ \A c \in Range(f) : Ring(ok, hops, c)
  /\ \A c : Ring(ok, hops, c) /\ Earlier(adj, starts, s, p, nx, c) => c \in Range(f)

(* The k-th edge of a cycle goes on from the path, and closes the cycle or    *)
(* leads to a token that is new to the path.                                  *)
NextOf(starts, ok, hops, s, p, c, k) ==
  /\ k \in 1..Len(c) /\ c[k] \in Range(Edges) /\ c[k].pool \in ok
  /\ c[k].in = At(starts, s, p)
  /\ \A i \in 1..Len(p) : p[i].pool # c[k].pool
  /\ \/ Len(c) = k /\ c[k].out = starts[s] /\ p # <<>>
     \/ /\ k < Len(c) /\ c[k].out # starts[s] /\ k < hops
        /\ \A i \in 1..Len(p) : p[i].out # c[k].out

(* The next edge of a cycle that goes on from the path is one that the search *)
(* does not leave aside.                                                      *)
LEMMA NextOfRing ==
  ASSUME NEW starts, NEW ok, NEW hops \in Nat, NEW s, NEW p, NEW c,
         GoodPath(starts, ok, hops, s, p), Ring(ok, hops, c), c[1].in = starts[s],
         Len(p) < Len(c), \A i \in 1..Len(p) : c[i] = p[i]
  PROVE  NextOf(starts, ok, hops, s, p, c, Len(p) + 1)
<1> DEFINE k == Len(p) + 1
<1> USE DEF NextOf
<1>1. p \in Seq(Range(Edges)) /\ Len(p) \in Nat /\ c \in Seq(Range(Edges)) /\ Len(c) \in Nat
  BY DEF GoodPath, Ring
<1>2. k \in 1..Len(c) /\ c[k] \in Range(Edges) /\ c[k].pool \in ok
  <2>1. k \in 1..Len(c)
    BY <1>1
  <2> HIDE DEF k
  <2> QED
    BY <1>1, <2>1 DEF Ring
<1>3. c[k].in = At(starts, s, p)
  <2>1. CASE p = <<>>
    <3>1. k = 1
      BY <2>1
    <3> QED
      BY <2>1, <3>1 DEF At
  <2>2. CASE p # <<>>
    <3>1. Len(p) \in 1..(Len(c) - 1) /\ Len(p) \in 1..Len(p)
      BY <1>1, <2>2
    <3>2. c[Len(p)].out = c[Len(p) + 1].in /\ c[Len(p)] = p[Len(p)]
      BY <3>1 DEF Ring
    <3> QED
      BY <2>2, <3>2 DEF At
  <2> QED
    BY <2>1, <2>2
<1>4. \A i \in 1..Len(p) : p[i].pool # c[k].pool
  <2> TAKE i \in 1..Len(p)
  <2>1. i \in 1..Len(c) /\ i # k /\ c[i] = p[i]
    BY <1>1
  <2> HIDE DEF k
  <2> QED
    BY <1>2, <2>1 DEF Ring
<1>5. CASE Len(c) = k
  <2>1. c[k].out = starts[s]
    BY <1>5 DEF Ring
  <2>2. p # <<>>
    <3>1. p = <<>> => Len(c) = 1
      BY <1>5
    <3> QED
      BY <3>1 DEF Ring
  <2> QED
    BY <1>2, <1>3, <1>4, <1>5, <2>1, <2>2
<1>6. CASE Len(c) # k
  <2>1. k < Len(c) /\ k + 1 \in 1..Len(c) /\ k \in 1..(Len(c) - 1)
    BY <1>1, <1>2, <1>6
  <2>2. c[k].out = c[k + 1].in
    <3> HIDE DEF k
    <3> QED
      BY <2>1 DEF Ring
  <2>3. k < hops
    BY <1>1, <2>1 DEF Ring
  <2>4. c[k].out # starts[s]
    <3>1. 1 \in 1..Len(c) /\ k + 1 # 1
      BY <1>1, <2>1
    <3> HIDE DEF k
    <3> QED
      BY <2>1, <2>2, <3>1 DEF Ring
  <2>5. \A i \in 1..Len(p) : p[i].out # c[k].out
    <3> TAKE i \in 1..Len(p)
    <3>1. i \in 1..(Len(c) - 1) /\ i + 1 \in 1..Len(c) /\ i + 1 # k + 1 /\ c[i] = p[i]
      BY <1>1, <2>1
    <3>2. c[i].out = c[i + 1].in
      BY <3>1 DEF Ring
    <3> HIDE DEF k
    <3> QED
      BY <2>1, <2>2, <3>1, <3>2 DEF Ring
  <2> QED
    BY <1>2, <1>3, <1>4, <2>1, <2>3, <2>4, <2>5
<1> QED
  BY <1>5, <1>6

(* The token that the search is at is one that edges join.                    *)
LEMMA AtEnd ==
  ASSUME NEW adj, NEW starts, NEW ok, NEW hops \in Nat, NEW s, NEW p,
         Graph(adj, starts, ok), GoodPath(starts, ok, hops, s, p), s \in 1..Len(starts)
  PROVE  At(starts, s, p) \in Ends /\ adj[At(starts, s, p)] \in Seq(Range(Edges))
<1>1. At(starts, s, p) \in Ends
  <2>1. CASE p = <<>>
    <3>1. starts[s] \in Ends
      BY DEF Graph
    <3> QED
      BY <2>1, <3>1 DEF At
  <2>2. CASE p # <<>>
    <3>1. p \in Seq(Range(Edges)) /\ Len(p) \in 1..Len(p)
      BY <2>2 DEF GoodPath
    <3>2. p[Len(p)] \in Range(Edges)
      BY <3>1
    <3> QED
      BY <2>2, <3>2 DEF At, Ends
  <2> QED
    BY <2>1, <2>2
<1> QED
  BY <1>1 DEF Graph

(* An edge is tried when every cycle that goes on with it is found.           *)
LEMMA AdvanceKeeps ==
  ASSUME NEW adj, NEW starts, NEW ok, NEW hops \in Nat, NEW s, NEW p, NEW nx, NEW f, NEW g,
         Graph(adj, starts, ok), Search(adj, starts, ok, hops, s, p, nx, f),
         s <= Len(starts), nx[Len(nx)] <= Len(adj[At(starts, s, p)]),
         g \in Seq(Seq(Range(Edges))), Range(f) \subseteq Range(g),
         \A c \in Range(g) : Ring(ok, hops, c),
         \A c : /\ Ring(ok, hops, c) /\ c[1].in = starts[s] /\ Len(p) < Len(c)
                /\ \A i \in 1..Len(p) : c[i] = p[i]
                /\ c[Len(p) + 1] = adj[At(starts, s, p)][nx[Len(nx)]]
                => c \in Range(g)
  PROVE  Search(adj, starts, ok, hops, s, p, [nx EXCEPT ![Len(nx)] = @ + 1], g)
<1> DEFINE nx2 == [nx EXCEPT ![Len(nx)] = @ + 1]
           n == Len(p) + 1
<1>1. /\ nx \in Seq(Nat \ {0}) /\ Len(nx) = n /\ n \in Nat \ {0} /\ Len(p) \in Nat
      /\ GoodPath(starts, ok, hops, s, p) /\ s \in 1..Len(starts)
  <2>1. GoodPath(starts, ok, hops, s, p) /\ GoodPlaces(adj, p, nx) /\ s \in 1..(Len(starts) + 1)
    BY DEF Search
  <2>2. p \in Seq(Range(Edges)) /\ nx \in Seq(Nat \ {0}) /\ Len(nx) = Len(p) + 1
    BY <2>1 DEF GoodPath, GoodPlaces
  <2>3. Len(p) \in Nat
    BY <2>2
  <2>4. s \in 1..Len(starts)
    <3>1. Len(starts) \in Nat
      BY DEF Graph
    <3> QED
      BY <2>1, <3>1
  <2> QED
    BY <2>1, <2>2, <2>3, <2>4
<1>2. /\ nx2 \in Seq(Nat \ {0}) /\ Len(nx2) = n /\ nx2[n] = nx[n] + 1 /\ nx[n] \in Nat
      /\ \A i \in 1..Len(p) : nx2[i] = nx[i]
  <2>1. n \in 1..Len(nx) /\ nx[n] \in Nat \ {0} /\ nx[n] + 1 \in Nat \ {0}
    BY <1>1
  <2>2. nx2 = [nx EXCEPT ![n] = nx[n] + 1]
    BY <1>1
  <2>3. \A i \in 1..Len(p) : i \in 1..Len(nx) /\ i # n
    BY <1>1
  <2> HIDE DEF nx2, n
  <2> QED
    BY <1>1, <2>1, <2>2, <2>3, ExceptSeq
<1>3. GoodPlaces(adj, p, nx2)
  <2>1. GoodPlaces(adj, p, nx)
    BY DEF Search
  <2>2. \A i \in 1..Len(p) : /\ nx2[i] - 1 \in 1..Len(adj[p[i].in])
                             /\ adj[p[i].in][nx2[i] - 1] = p[i]
    <3> TAKE i \in 1..Len(p)
    <3>1. nx2[i] = nx[i]
      BY <1>2
    <3> HIDE DEF nx2
    <3> QED
      BY <2>1, <3>1 DEF GoodPlaces
  <2> HIDE DEF nx2
  <2> QED
    BY <1>2, <2>2 DEF GoodPlaces
<1>4. ASSUME NEW c, Ring(ok, hops, c), Earlier(adj, starts, s, p, nx2, c)
      PROVE  c \in Range(g)
  <2>1. CASE Earlier(adj, starts, s, p, nx, c)
    BY <1>4, <2>1 DEF Search
  <2>2. CASE ~Earlier(adj, starts, s, p, nx, c)
    <3>1. c[1].in = starts[s] /\ \E k \in 1..Len(nx2) : Passed(adj, p, nx2, k, c)
      <4> HIDE DEF nx2
      <4> QED
        BY <1>4, <2>2 DEF Earlier
    <3>2. PICK k \in 1..n : Passed(adj, p, nx2, k, c) /\ ~Passed(adj, p, nx, k, c)
      <4> HIDE DEF nx2
      <4> QED
        BY <1>1, <1>2, <2>2, <3>1 DEF Earlier
    <3>3. k = n
      <4>1. k # n => k \in 1..Len(p) /\ Behind(p, nx2, k) = Behind(p, nx, k)
        <5>1. k # n => k \in 1..Len(p) /\ nx2[k] = nx[k] /\ k <= Len(p)
          <6>1. k # n => k \in 1..Len(p)
            BY <1>1
          <6> HIDE DEF nx2, n
          <6> QED
            BY <1>1, <1>2, <6>1
        <5> HIDE DEF nx2, n
        <5> QED
          BY <5>1 DEF Behind
      <4> HIDE DEF nx2
      <4> QED
        BY <3>2, <4>1 DEF Passed
    <3>4. Behind(p, nx2, n) = nx[n] /\ Behind(p, nx, n) = nx[n] - 1 /\ nx[n] \in Nat
      <4>1. ~(n <= Len(p)) /\ nx[n] + 1 - 1 = nx[n]
        BY <1>1, <1>2
      <4> HIDE DEF nx2, n
      <4> QED
        BY <1>2, <4>1 DEF Behind
    <3>5. /\ n <= Len(c) /\ \A i \in 1..Len(p) : c[i] = p[i]
          /\ \E j \in 1..nx[n] : j <= Len(adj[c[n].in]) /\ adj[c[n].in][j] = c[n]
      <4> HIDE DEF nx2
      <4> QED
        BY <1>1, <3>2, <3>3, <3>4 DEF Passed
    <3>6. ~\E j \in 1..(nx[n] - 1) : j <= Len(adj[c[n].in]) /\ adj[c[n].in][j] = c[n]
      BY <1>1, <3>2, <3>3, <3>4, <3>5 DEF Passed
    <3>7. adj[c[n].in][nx[n]] = c[n]
      <4>1. PICK j \in 1..nx[n] : j <= Len(adj[c[n].in]) /\ adj[c[n].in][j] = c[n]
        BY <3>5
      <4>2. j = nx[n]
        BY <3>4, <3>6, <4>1
      <4> QED
        BY <4>1, <4>2
    <3>8. Len(p) < Len(c)
      BY <1>1, <1>4, <3>5 DEF Ring
    <3>9. c[n].in = At(starts, s, p)
      <4>1. NextOf(starts, ok, hops, s, p, c, Len(p) + 1)
        BY <1>1, <1>4, <3>1, <3>5, <3>8, NextOfRing
      <4> QED
        BY <4>1 DEF NextOf
    <3> QED
      BY <1>1, <1>4, <3>1, <3>5, <3>7, <3>8, <3>9
  <2> QED
    BY <2>1, <2>2
<1> QED
  <2> HIDE DEF nx2
  <2>1. s \in 1..(Len(starts) + 1)
    BY DEF Search
  <2>2. Search(adj, starts, ok, hops, s, p, nx2, g)
    BY <1>1, <1>3, <1>4, <2>1 DEF Search
  <2> QED
    BY <2>2 DEF nx2

(* The edge to try next leads no cycle on from the path.                      *)
LEMMA SkipKeeps ==
  ASSUME NEW adj, NEW starts, NEW ok, NEW hops \in Nat, NEW s, NEW p, NEW nx, NEW f, NEW e,
         Graph(adj, starts, ok), Search(adj, starts, ok, hops, s, p, nx, f),
         s <= Len(starts), nx[Len(nx)] <= Len(adj[At(starts, s, p)]),
         e = adj[At(starts, s, p)][nx[Len(nx)]],
         \/ \E i \in 1..Len(p) : p[i].pool = e.pool
         \/ /\ e.out # starts[s] \/ p = <<>>
            /\ e.out = starts[s] \/ (\E i \in 1..Len(p) : p[i].out = e.out) \/ ~(Len(p) + 1 < hops)
  PROVE  Search(adj, starts, ok, hops, s, p, [nx EXCEPT ![Len(nx)] = @ + 1], f)
<1>1. GoodPath(starts, ok, hops, s, p)
  BY DEF Search
<1>2. ASSUME NEW c, Ring(ok, hops, c), c[1].in = starts[s], Len(p) < Len(c),
             \A i \in 1..Len(p) : c[i] = p[i], c[Len(p) + 1] = e
      PROVE  FALSE
  <2>1. NextOf(starts, ok, hops, s, p, c, Len(p) + 1)
    BY <1>1, <1>2, NextOfRing
  <2> QED
    BY <1>2, <2>1 DEF NextOf
<1>3. f \in Seq(Seq(Range(Edges))) /\ \A c \in Range(f) : Ring(ok, hops, c)
  BY DEF Search
<1> QED
  BY <1>2, <1>3, AdvanceKeeps

(* An edge that the search comes to is one of the graph.                      *)
LEMMA TriedEdge ==
  ASSUME NEW adj, NEW starts, NEW ok, NEW hops \in Nat, NEW s, NEW p, NEW nx, NEW f, NEW e,
         Graph(adj, starts, ok), Search(adj, starts, ok, hops, s, p, nx, f),
         s <= Len(starts), nx[Len(nx)] <= Len(adj[At(starts, s, p)]),
         e = adj[At(starts, s, p)][nx[Len(nx)]]
  PROVE  /\ e \in Range(Edges) /\ e.in = At(starts, s, p) /\ e.pool \in ok
         /\ nx[Len(nx)] \in 1..Len(adj[At(starts, s, p)]) /\ s \in 1..Len(starts)
<1>1. /\ GoodPath(starts, ok, hops, s, p) /\ GoodPlaces(adj, p, nx)
      /\ s \in 1..Len(starts) /\ Len(p) \in Nat
  BY DEF Search, Graph, GoodPath
<1>2. At(starts, s, p) \in Ends /\ adj[At(starts, s, p)] \in Seq(Range(Edges))
  BY <1>1, AtEnd
<1>3. nx[Len(nx)] \in Nat \ {0}
  BY <1>1 DEF GoodPlaces
<1>4. nx[Len(nx)] \in 1..Len(adj[At(starts, s, p)])
  BY <1>2, <1>3
<1>5. e \in Range(adj[At(starts, s, p)])
  BY <1>2, <1>4 DEF Range
<1> QED
  BY <1>1, <1>2, <1>4, <1>5 DEF Graph

(* The edge to try next closes a cycle, which is appended.                    *)
LEMMA CloseKeeps ==
  ASSUME NEW adj, NEW starts, NEW ok, NEW hops \in Nat, NEW s, NEW p, NEW nx, NEW f, NEW e,
         Graph(adj, starts, ok), Search(adj, starts, ok, hops, s, p, nx, f),
         s <= Len(starts), nx[Len(nx)] <= Len(adj[At(starts, s, p)]),
         e = adj[At(starts, s, p)][nx[Len(nx)]],
         \A i \in 1..Len(p) : p[i].pool # e.pool, e.out = starts[s], p # <<>>
  PROVE  Search(adj, starts, ok, hops, s, p, [nx EXCEPT ![Len(nx)] = @ + 1],
                Append(f, Append(p, e)))
<1> DEFINE cycle == Append(p, e)
           n == Len(p) + 1
<1>1. GoodPath(starts, ok, hops, s, p) /\ p \in Seq(Range(Edges)) /\ Len(p) \in Nat \ {0}
  BY DEF Search, GoodPath
<1>2. e \in Range(Edges) /\ e.in = p[Len(p)].out /\ e.pool \in ok
  BY TriedEdge DEF At
<1>3. /\ cycle \in Seq(Range(Edges)) /\ Len(cycle) = n /\ cycle[n] = e
      /\ \A i \in 1..Len(p) : cycle[i] = p[i]
  BY <1>1, <1>2
<1>4. Ring(ok, hops, cycle)
  <2> HIDE DEF cycle
  <2>1. Len(cycle) >= 2 /\ Len(cycle) <= hops
    BY <1>1, <1>3 DEF GoodPath
  <2>2. \A i \in 1..(Len(cycle) - 1) : cycle[i].out = cycle[i + 1].in
    <3> TAKE i \in 1..(Len(cycle) - 1)
    <3>1. i \in 1..Len(p) /\ cycle[i] = p[i]
      BY <1>1, <1>3
    <3>2. CASE i = Len(p)
      BY <1>2, <1>3, <3>1, <3>2
    <3>3. CASE i # Len(p)
      <4>1. i + 1 \in 2..Len(p) /\ i + 1 \in 1..Len(p) /\ i + 1 - 1 = i
        BY <1>1, <3>1, <3>3
      <4>2. p[i + 1].in = p[i].out
        BY <1>1, <4>1 DEF GoodPath
      <4> QED
        BY <1>3, <3>1, <4>1, <4>2
    <3> QED
      BY <3>2, <3>3
  <2>3. cycle[1].in = starts[s] /\ cycle[Len(cycle)].out = starts[s]
    <3>1. 1 \in 1..Len(p)
      BY <1>1
    <3>2. p[1].in = starts[s]
      BY <1>1 DEF GoodPath
    <3> QED
      BY <1>3, <3>1, <3>2
  <2>4. \A i \in 1..Len(p) : cycle[i].pool \in ok /\ cycle[i].pool # e.pool
    BY <1>1, <1>3 DEF GoodPath
  <2>5. \A i \in 1..Len(cycle) : cycle[i].pool \in ok
    <3>1. \A i \in 1..Len(cycle) : i \in 1..Len(p) \/ i = n
      BY <1>1, <1>3
    <3> QED
      BY <1>2, <1>3, <2>4, <3>1
  <2>6. ASSUME NEW i \in 1..Len(cycle), NEW j \in 1..Len(cycle), i # 1, j # 1,
               cycle[i].in = cycle[j].in
        PROVE  i = j
    <3>1. /\ i - 1 \in 1..Len(p) /\ j - 1 \in 1..Len(p) /\ i - 1 + 1 = i /\ j - 1 + 1 = j
          /\ i - 1 \in 1..(Len(cycle) - 1) /\ j - 1 \in 1..(Len(cycle) - 1)
      BY <1>1, <1>3, <2>6
    <3>2. p[i - 1].out = cycle[i].in /\ p[j - 1].out = cycle[j].in
      <4>1. cycle[i - 1].out = cycle[i - 1 + 1].in /\ cycle[j - 1].out = cycle[j - 1 + 1].in
        BY <2>2, <3>1
      <4> QED
        BY <1>3, <3>1, <4>1
    <3>3. i - 1 = j - 1
      BY <1>1, <2>6, <3>1, <3>2 DEF GoodPath
    <3> QED
      BY <3>1, <3>3
  <2>7. ASSUME NEW i \in 1..Len(cycle), i # 1
        PROVE  cycle[i].in # cycle[1].in
    <3>1. i - 1 \in 1..Len(p) /\ i - 1 \in 1..(Len(cycle) - 1) /\ i - 1 + 1 = i
      BY <1>1, <1>3, <2>7
    <3>2. cycle[i - 1].out = cycle[i - 1 + 1].in
      BY <2>2, <3>1
    <3>3. p[i - 1].out # starts[s]
      BY <1>1, <3>1 DEF GoodPath
    <3> QED
      BY <1>3, <2>3, <3>1, <3>2, <3>3
  <2>8. \A i, j \in 1..Len(cycle) : cycle[i].in = cycle[j].in => i = j
    BY <2>6, <2>7
  <2>9. ASSUME NEW i \in 1..Len(cycle), NEW j \in 1..Len(cycle), cycle[i].pool = cycle[j].pool
        PROVE  i = j
    <3>1. (i \in 1..Len(p) \/ i = n) /\ (j \in 1..Len(p) \/ j = n)
      BY <1>1, <1>3
    <3>2. CASE i \in 1..Len(p) /\ j \in 1..Len(p)
      BY <1>1, <1>3, <2>9, <3>2 DEF GoodPath
    <3> QED
      BY <1>3, <2>4, <2>9, <3>1, <3>2
  <2> QED
    BY <1>3, <2>1, <2>2, <2>3, <2>5, <2>8, <2>9 DEF Ring
<1> DEFINE g == Append(f, cycle)
<1>5. f \in Seq(Seq(Range(Edges))) /\ \A c \in Range(f) : Ring(ok, hops, c)
  BY DEF Search
<1>6. g \in Seq(Seq(Range(Edges))) /\ Range(g) = Range(f) \cup {cycle}
  <2> HIDE DEF cycle
  <2> QED
    BY <1>3, <1>5, AppendedRange
<1>7. ASSUME NEW c, Ring(ok, hops, c), c[1].in = starts[s], Len(p) < Len(c),
             \A i \in 1..Len(p) : c[i] = p[i], c[Len(p) + 1] = e
      PROVE  c \in Range(g)
  <2>1. NextOf(starts, ok, hops, s, p, c, Len(p) + 1)
    BY <1>1, <1>7, NextOfRing
  <2>2. Len(c) = n /\ c \in Seq(Range(Edges))
    BY <1>7, <2>1 DEF NextOf, Ring
  <2>3. \A i \in 1..n : i \in 1..Len(p) \/ i = n
    BY <1>1
  <2>4. c = cycle
    <3>1. \A i \in 1..Len(c) : c[i] = cycle[i]
      <4> HIDE DEF cycle, n
      <4>1. c[n] = e
        BY <1>7 DEF n
      <4> QED
        BY <1>3, <1>7, <2>2, <2>3, <4>1
    <3> HIDE DEF cycle
    <3> QED
      BY <1>3, <2>2, <3>1, SeqEqual
  <2> HIDE DEF cycle, g
  <2> QED
    BY <1>6, <2>4
<1> HIDE DEF cycle, g
<1>8. Search(adj, starts, ok, hops, s, p, [nx EXCEPT ![Len(nx)] = @ + 1], g)
  BY <1>4, <1>5, <1>6, <1>7, AdvanceKeeps
<1> QED
  BY <1>8 DEF g, cycle

(* The edge to try next leads to a new token, where the search goes on.       *)
LEMMA FollowKeeps ==
  ASSUME NEW adj, NEW starts, NEW ok, NEW hops \in Nat, NEW s, NEW p, NEW nx, NEW f, NEW e,
         Graph(adj, starts, ok), Search(adj, starts, ok, hops, s, p, nx, f),
         s <= Len(starts), nx[Len(nx)] <= Len(adj[At(starts, s, p)]),
         e = adj[At(starts, s, p)][nx[Len(nx)]],
         \A i \in 1..Len(p) : p[i].pool # e.pool /\ p[i].out # e.out,
         e.out # starts[s], Len(p) + 1 < hops
  PROVE  Search(adj, starts, ok, hops, s, Append(p, e),
                Append([nx EXCEPT ![Len(nx)] = @ + 1], 1), f)
<1> DEFINE n == Len(p) + 1
           p2 == Append(p, e)
           nx1 == [nx EXCEPT ![Len(nx)] = @ + 1]
           nx2 == Append(nx1, 1)
<1>1. /\ GoodPath(starts, ok, hops, s, p) /\ p \in Seq(Range(Edges)) /\ Len(p) \in Nat
      /\ n \in Nat /\ nx \in Seq(Nat \ {0}) /\ Len(nx) = n /\ GoodPlaces(adj, p, nx)
  BY DEF Search, GoodPath, GoodPlaces
<1>2. /\ e \in Range(Edges) /\ e.in = At(starts, s, p) /\ e.pool \in ok
      /\ nx[n] \in 1..Len(adj[e.in]) /\ e = adj[e.in][nx[n]] /\ s \in 1..Len(starts)
  BY <1>1, TriedEdge
<1>3. /\ p2 \in Seq(Range(Edges)) /\ Len(p2) = n /\ p2[n] = e
      /\ \A i \in 1..Len(p) : p2[i] = p[i]
  BY <1>1, <1>2
<1>4. /\ nx2 \in Seq(Nat \ {0}) /\ Len(nx2) = n + 1 /\ nx2[n + 1] = 1 /\ nx2[n] = nx[n] + 1
      /\ nx[n] \in Nat /\ \A i \in 1..Len(p) : nx2[i] = nx[i]
  <2>1. n \in 1..Len(nx) /\ nx[n] \in Nat \ {0} /\ nx[n] + 1 \in Nat \ {0}
    BY <1>1
  <2>2. nx1 = [nx EXCEPT ![n] = nx[n] + 1]
    BY <1>1
  <2>3. \A i \in 1..Len(p) : i \in 1..Len(nx) /\ i # n
    BY <1>1
  <2>4. /\ nx1 \in Seq(Nat \ {0}) /\ Len(nx1) = n /\ nx1[n] = nx[n] + 1
        /\ \A i \in 1..Len(p) : nx1[i] = nx[i]
    <3> HIDE DEF nx1, n
    <3> QED
      BY <1>1, <2>1, <2>2, <2>3, ExceptSeq
  <2>5. /\ nx2 \in Seq(Nat \ {0}) /\ Len(nx2) = n + 1 /\ nx2[n + 1] = 1
        /\ \A i \in 1..n : nx2[i] = nx1[i]
    <3> HIDE DEF nx1, n
    <3> QED
      BY <2>4
  <2>6. n \in 1..n /\ \A i \in 1..Len(p) : i \in 1..n
    BY <1>1
  <2> HIDE DEF nx1, nx2, n
  <2> QED
    BY <2>1, <2>4, <2>5, <2>6
<1>5. \A i \in 1..n : i \in 1..Len(p) \/ i = n
  BY <1>1
<1>6. GoodPath(starts, ok, hops, s, p2)
  <2> HIDE DEF p2
  <2>1. s <= Len(starts) /\ p2[1].in = starts[s]
    <3>1. CASE p = <<>>
      <4>1. n = 1
        BY <3>1
      <4> QED
        BY <1>2, <1>3, <3>1, <4>1 DEF At
    <3>2. CASE p # <<>>
      <4>1. 1 \in 1..Len(p)
        BY <1>1, <3>2
      <4>2. p[1].in = starts[s]
        BY <1>1, <3>2 DEF GoodPath
      <4> QED
        BY <1>3, <4>1, <4>2
    <3> QED
      BY <3>1, <3>2
  <2>2. \A i \in 1..n : p2[i].pool \in ok /\ p2[i].out # starts[s]
    <3>1. \A i \in 1..Len(p) : p[i].pool \in ok /\ p[i].out # starts[s]
      BY <1>1 DEF GoodPath
    <3> HIDE DEF n
    <3> QED
      BY <1>2, <1>3, <1>5, <3>1
  <2>3. ASSUME NEW i \in 2..n
        PROVE  p2[i].in = p2[i - 1].out
    <3>1. i - 1 \in 1..Len(p) /\ p2[i - 1] = p[i - 1]
      <4>1. i - 1 \in 1..Len(p)
        BY <1>1
      <4> QED
        BY <1>3, <4>1
    <3>2. CASE i = n
      <4>1. i - 1 = Len(p) /\ p # <<>>
        BY <1>1, <3>1, <3>2
      <4> QED
        BY <1>2, <1>3, <3>1, <3>2, <4>1 DEF At
    <3>3. CASE i # n
      <4>1. i \in 2..Len(p) /\ i \in 1..Len(p)
        BY <1>1, <3>3
      <4>2. p[i].in = p[i - 1].out
        BY <1>1, <4>1 DEF GoodPath
      <4> QED
        BY <1>3, <3>1, <4>1, <4>2
    <3> QED
      BY <3>2, <3>3
  <2>4. ASSUME NEW i \in 1..n, NEW j \in 1..n, p2[i].pool = p2[j].pool \/ p2[i].out = p2[j].out
        PROVE  i = j
    <3>1. (i \in 1..Len(p) \/ i = n) /\ (j \in 1..Len(p) \/ j = n)
      BY <1>5
    <3>2. CASE i \in 1..Len(p) /\ j \in 1..Len(p)
      <4>1. p[i].pool = p[j].pool \/ p[i].out = p[j].out
        BY <1>3, <2>4, <3>2
      <4> QED
        BY <1>1, <3>2, <4>1 DEF GoodPath
    <3> HIDE DEF n
    <3> QED
      BY <1>3, <2>4, <3>1, <3>2
  <2> QED
    BY <1>3, <2>1, <2>2, <2>3, <2>4 DEF GoodPath
<1>7. GoodPlaces(adj, p2, nx2)
  <2>1. ASSUME NEW i \in 1..n
        PROVE  nx2[i] - 1 \in 1..Len(adj[p2[i].in]) /\ adj[p2[i].in][nx2[i] - 1] = p2[i]
    <3> HIDE DEF p2, nx2
    <3>1. CASE i \in 1..Len(p)
      <4>1. nx2[i] = nx[i] /\ p2[i] = p[i]
        BY <1>3, <1>4, <3>1
      <4> QED
        BY <1>1, <3>1, <4>1 DEF GoodPlaces
    <3>2. CASE i = n
      <4>1. nx2[n] - 1 = nx[n]
        BY <1>4
      <4> QED
        BY <1>2, <1>3, <3>2, <4>1
    <3> QED
      BY <1>5, <3>1, <3>2
  <2> HIDE DEF p2, nx2
  <2> QED
    BY <1>3, <1>4, <2>1 DEF GoodPlaces
<1>8. ASSUME NEW c, Ring(ok, hops, c), Earlier(adj, starts, s, p2, nx2, c)
      PROVE  Earlier(adj, starts, s, p, nx, c)
  <2>1. ASSUME NEW k \in 1..(n + 1), Passed(adj, p2, nx2, k, c)
        PROVE  k \in 1..n /\ Passed(adj, p, nx, k, c)
    <3>1. k # n + 1
      <4>1. ~(n + 1 <= Len(p2)) /\ nx2[n + 1] - 1 = 0
        BY <1>1, <1>3, <1>4
      <4>2. Behind(p2, nx2, n + 1) = 0
        <5> HIDE DEF p2, nx2, n
        <5> QED
          BY <4>1 DEF Behind
      <4> HIDE DEF p2, nx2
      <4> QED
        BY <2>1, <4>2 DEF Passed
    <3>2. k \in 1..n
      BY <1>1, <3>1
    <3>3. Behind(p2, nx2, k) = Behind(p, nx, k)
      <4>1. k <= Len(p2)
        BY <1>3, <3>2
      <4>2. CASE k \in 1..Len(p)
        <5>1. k <= Len(p) /\ nx2[k] = nx[k]
          BY <1>4, <4>2
        <5> HIDE DEF p2, nx2, n
        <5> QED
          BY <4>1, <5>1 DEF Behind
      <4>3. CASE k = n
        <5>1. ~(k <= Len(p)) /\ nx2[k] - 2 = nx[k] - 1
          BY <1>1, <1>4, <4>3
        <5> HIDE DEF p2, nx2, n
        <5> QED
          BY <4>1, <5>1 DEF Behind
      <4> QED
        BY <1>5, <3>2, <4>2, <4>3
    <3>4. \A i \in 1..(k - 1) : p2[i] = p[i]
      <4>1. \A i \in 1..(k - 1) : i \in 1..Len(p)
        BY <1>1, <3>2
      <4> HIDE DEF p2
      <4> QED
        BY <1>3, <4>1
    <3> HIDE DEF p2, nx2, n
    <3> QED
      BY <2>1, <3>2, <3>3, <3>4 DEF Passed
  <2> HIDE DEF p2, nx2, n
  <2> QED
    BY <1>1, <1>4, <1>8, <2>1 DEF Earlier
<1> HIDE DEF p2, nx2
<1>9. Search(adj, starts, ok, hops, s, p2, nx2, f)
  BY <1>6, <1>7, <1>8 DEF Search
<1> QED
  BY <1>9 DEF p2, nx2

(* A number below m and not below m - 1 is m - 1.                             *)
LEMMA LastBelow ==
  ASSUME NEW m \in Nat, NEW j \in 1..(m - 1), j \notin 1..(m - 2)
  PROVE  j = m - 1
OBVIOUS

(* Every edge of the last token is tried: the search goes back to the token   *)
(* before, and is done with the edge that led from there.                     *)
LEMMA BacktrackKeeps ==
  ASSUME NEW adj, NEW starts, NEW ok, NEW hops \in Nat, NEW s, NEW p, NEW nx, NEW f,
         Graph(adj, starts, ok), Search(adj, starts, ok, hops, s, p, nx, f),
         s <= Len(starts), nx[Len(nx)] > Len(adj[At(starts, s, p)]), p # <<>>
  PROVE  Search(adj, starts, ok, hops, s, Front(p), Front(nx), f)
<1> DEFINE n == Len(p)
           p2 == Front(p)
           nx2 == Front(nx)
<1>1. /\ GoodPath(starts, ok, hops, s, p) /\ p \in Seq(Range(Edges)) /\ n \in Nat \ {0}
      /\ nx \in Seq(Nat \ {0}) /\ Len(nx) = n + 1 /\ GoodPlaces(adj, p, nx)
      /\ s \in 1..Len(starts)
  BY DEF Search, GoodPath, GoodPlaces, Graph
<1>2. /\ p2 \in Seq(Range(Edges)) /\ Len(p2) = n - 1 /\ n - 1 \in Nat
      /\ \A i \in 1..(n - 1) : p2[i] = p[i]
  BY <1>1, FrontEntries
<1>3. /\ nx2 \in Seq(Nat \ {0}) /\ Len(nx2) = n /\ \A i \in 1..n : nx2[i] = nx[i] /\ nx[i] \in Nat
      /\ nx[n + 1] \in Nat
  <2>1. nx # <<>> /\ Len(nx) - 1 = n
    BY <1>1
  <2>2. n + 1 \in 1..Len(nx) /\ \A i \in 1..n : i \in 1..Len(nx)
    BY <1>1
  <2>3. /\ nx2 \in Seq(Nat \ {0}) /\ Len(nx2) = Len(nx) - 1
        /\ \A i \in 1..(Len(nx) - 1) : nx2[i] = nx[i]
    BY <1>1, <2>1, FrontEntries
  <2>4. nx[n + 1] \in Nat /\ \A i \in 1..n : nx[i] \in Nat
    <3> HIDE DEF n
    <3> QED
      BY <1>1, <2>2
  <2> HIDE DEF nx2, n
  <2> QED
    BY <2>1, <2>3, <2>4
<1>4. \A i \in 1..(n - 1) : i \in 1..n
  BY <1>1
<1>5. GoodPath(starts, ok, hops, s, p2)
  <2> HIDE DEF p2
  <2>1. p2 # <<>> => s <= Len(starts) /\ p2[1].in = starts[s]
    <3>1. p2 # <<>> => 1 \in 1..(n - 1)
      BY <1>2
    <3>2. p[1].in = starts[s]
      BY <1>1 DEF GoodPath
    <3> QED
      BY <1>1, <1>2, <3>1, <3>2
  <2>2. \A i \in 1..(n - 1) : p2[i].pool \in ok /\ p2[i].out # starts[s]
    BY <1>1, <1>2, <1>4 DEF GoodPath
  <2>3. \A i \in 2..(n - 1) : p2[i].in = p2[i - 1].out
    <3> TAKE i \in 2..(n - 1)
    <3>1. i \in 2..n /\ i - 1 \in 1..(n - 1) /\ i \in 1..(n - 1)
      BY <1>1
    <3> QED
      BY <1>1, <1>2, <3>1 DEF GoodPath
  <2>4. \A i, j \in 1..(n - 1) : p2[i].pool = p2[j].pool \/ p2[i].out = p2[j].out => i = j
    BY <1>1, <1>2, <1>4 DEF GoodPath
  <2>5. n - 1 < hops
    <3>1. n < hops
      BY <1>1 DEF GoodPath
    <3> QED
      BY <1>1, <3>1
  <2> QED
    BY <1>2, <2>1, <2>2, <2>3, <2>4, <2>5 DEF GoodPath
<1>6. GoodPlaces(adj, p2, nx2)
  <2> HIDE DEF p2, nx2, n
  <2>1. \A i \in 1..(n - 1) : p2[i] = p[i] /\ nx2[i] = nx[i]
    BY <1>2, <1>3, <1>4
  <2>2. \A i \in 1..(n - 1) : /\ nx[i] - 1 \in 1..Len(adj[p[i].in])
                              /\ adj[p[i].in][nx[i] - 1] = p[i]
    BY <1>1, <1>4 DEF GoodPlaces, n
  <2>3. Len(nx2) = Len(p2) + 1
    BY <1>1, <1>2, <1>3
  <2> QED
    BY <1>2, <1>3, <2>1, <2>2, <2>3 DEF GoodPlaces
<1>7. ASSUME NEW c, Ring(ok, hops, c), Earlier(adj, starts, s, p2, nx2, c),
             ~Earlier(adj, starts, s, p, nx, c)
      PROVE  FALSE
  <2>1. c[1].in = starts[s] /\ \E k \in 1..n : Passed(adj, p2, nx2, k, c)
    <3> HIDE DEF p2, nx2, n
    <3> QED
      BY <1>3, <1>7 DEF Earlier
  <2>2. PICK k \in 1..n : Passed(adj, p2, nx2, k, c)
    BY <2>1
  <2>3. \A m \in 1..(n + 1) : ~Passed(adj, p, nx, m, c)
    <3> HIDE DEF n
    <3> QED
      BY <1>1, <1>7, <2>1 DEF Earlier
  <2>4. \A i \in 1..(k - 1) : c[i] = p[i]
    <3>1. \A i \in 1..(k - 1) : i \in 1..(n - 1)
      BY <1>1, <2>2
    <3>2. \A i \in 1..(k - 1) : c[i] = p2[i]
      BY <2>2 DEF Passed
    <3> HIDE DEF p2, n
    <3> QED
      BY <1>2, <3>1, <3>2
  <2>5. k = n
    <3>1. SUFFICES ASSUME k # n PROVE FALSE
      OBVIOUS
    <3>2. k \in 1..(n - 1) /\ k <= Len(p2) /\ k <= Len(p) /\ k \in 1..(n + 1)
      BY <1>1, <1>2, <3>1
    <3>3. Behind(p2, nx2, k) = Behind(p, nx, k)
      <4> HIDE DEF p2, nx2
      <4> QED
        BY <1>3, <3>2 DEF Behind
    <3>4. Passed(adj, p, nx, k, c)
      <4> HIDE DEF p2, nx2
      <4> QED
        BY <2>2, <2>4, <3>3 DEF Passed
    <3> QED
      BY <2>3, <3>2, <3>4
  <2>6. Behind(p2, nx2, n) = nx[n] - 1 /\ Behind(p, nx, n) = nx[n] - 2
    <3>1. ~(n <= Len(p2)) /\ n <= Len(p) /\ n \in 1..n
      BY <1>1, <1>2
    <3> HIDE DEF p2, nx2
    <3> QED
      BY <1>3, <3>1 DEF Behind
  <2>7. /\ n <= Len(c)
        /\ \E j \in 1..(nx[n] - 1) : j <= Len(adj[c[n].in]) /\ adj[c[n].in][j] = c[n]
    <3> HIDE DEF p2, nx2, n
    <3> QED
      BY <2>2, <2>5, <2>6 DEF Passed
  <2>8. ~\E j \in 1..(nx[n] - 2) : j <= Len(adj[c[n].in]) /\ adj[c[n].in][j] = c[n]
    <3>1. n \in 1..(n + 1)
      BY <1>1
    <3> HIDE DEF p2, nx2, n
    <3> QED
      BY <2>3, <2>4, <2>5, <2>6, <2>7, <3>1 DEF Passed
  <2>9. adj[c[n].in][nx[n] - 1] = c[n]
    <3>1. PICK j \in 1..(nx[n] - 1) : j <= Len(adj[c[n].in]) /\ adj[c[n].in][j] = c[n]
      BY <2>7
    <3>2. nx[n] \in Nat
      BY <1>1, <1>3
    <3>3. j \notin 1..(nx[n] - 2)
      BY <2>8, <3>1
    <3>4. j = nx[n] - 1
      <4> HIDE DEF n, p2, nx2
      <4> QED
        BY <3>1, <3>2, <3>3, LastBelow, Zenon
    <3> QED
      BY <3>1, <3>4
  <2>10. /\ c \in Seq(Range(Edges)) /\ Len(c) \in Nat /\ n \in 1..Len(c)
         /\ \A i \in 1..(n - 1) : c[i] = p[i]
    BY <1>1, <1>7, <2>4, <2>5, <2>7 DEF Ring
  <2>11. c[n].in = p[n].in
    <3>1. CASE n = 1
      BY <1>1, <2>1, <3>1 DEF GoodPath
    <3>2. CASE n # 1
      <4>1. n - 1 \in 1..(n - 1) /\ n \in 2..n /\ n - 1 \in 1..(Len(c) - 1) /\ n - 1 + 1 = n
        <5>1. n \in Nat \ {0} /\ n # 1 /\ n <= Len(c) /\ Len(c) \in Nat
          BY <1>1, <2>10, <3>2
        <5> HIDE DEF n
        <5> QED
          BY <5>1
      <4>2. c[n - 1].out = c[n - 1 + 1].in
        BY <1>7, <4>1 DEF Ring
      <4>3. p[n].in = p[n - 1].out
        BY <1>1, <4>1 DEF GoodPath
      <4> QED
        BY <2>10, <4>1, <4>2, <4>3
    <3> QED
      BY <3>1, <3>2
  <2>12. c[n] = p[n] /\ p[n].out # starts[s]
    <3>1. n \in 1..n
      BY <1>1
    <3>2. adj[p[n].in][nx[n] - 1] = p[n]
      BY <1>1, <3>1 DEF GoodPlaces
    <3> QED
      BY <1>1, <2>9, <2>11, <3>1, <3>2 DEF GoodPath
  <2>13. \A i \in 1..n : c[i] = p[i]
    <3>1. \A i \in 1..n : i \in 1..(n - 1) \/ i = n
      BY <1>1
    <3> QED
      BY <2>10, <2>12, <3>1
  <2>14. n < Len(c)
    <3>1. Len(c) # n
      BY <1>7, <2>1, <2>12 DEF Ring
    <3> QED
      BY <2>10, <3>1
  <2>15. NextOf(starts, ok, hops, s, p, c, n + 1)
    BY <1>1, <1>7, <2>1, <2>13, <2>14, NextOfRing
  <2>16. /\ n + 1 \in 1..Len(c) /\ c[n + 1] \in Range(Edges) /\ c[n + 1].pool \in ok
         /\ c[n + 1].in = At(starts, s, p)
    BY <2>15 DEF NextOf
  <2>17. c[n + 1] \in Range(adj[c[n + 1].in]) /\ adj[c[n + 1].in] \in Seq(Range(Edges))
    <3>1. At(starts, s, p) \in Ends /\ adj[At(starts, s, p)] \in Seq(Range(Edges))
      BY <1>1, AtEnd
    <3> HIDE DEF n
    <3> QED
      BY <2>16, <3>1 DEF Graph
  <2>18. PICK j \in 1..Len(adj[c[n + 1].in]) : adj[c[n + 1].in][j] = c[n + 1]
    BY <2>17 DEF Range
  <2>19. j \in 1..Behind(p, nx, n + 1) /\ j <= Len(adj[c[n + 1].in])
    <3>1. ~(n + 1 <= Len(p))
      BY <1>1
    <3>2. Behind(p, nx, n + 1) = nx[n + 1] - 1
      <4> HIDE DEF n
      <4> QED
        BY <3>1 DEF Behind
    <3>3. nx[n + 1] > Len(adj[c[n + 1].in]) /\ Len(adj[c[n + 1].in]) \in Nat /\ nx[n + 1] \in Nat
      BY <1>1, <1>3, <2>16, <2>17
    <3> QED
      BY <3>2, <3>3
  <2>20. Passed(adj, p, nx, n + 1, c)
    <3> DEFINE m == n + 1
    <3>1. m <= Len(c) /\ m - 1 = n
      BY <1>1, <2>10, <2>16
    <3>2. \A i \in 1..(m - 1) : c[i] = p[i]
      BY <2>13, <3>1
    <3>3. \E i \in 1..Behind(p, nx, m) : i <= Len(adj[c[m].in]) /\ adj[c[m].in][i] = c[m]
      BY <2>18, <2>19
    <3>4. Passed(adj, p, nx, m, c)
      <4> HIDE DEF m, n
      <4> QED
        BY <3>1, <3>2, <3>3 DEF Passed
    <3> QED
      BY <3>4
  <2>21. n + 1 \in 1..(n + 1)
    BY <1>1
  <2> QED
    BY <2>3, <2>20, <2>21
<1> HIDE DEF p2, nx2
<1>8. Search(adj, starts, ok, hops, s, p2, nx2, f)
  BY <1>5, <1>6, <1>7 DEF Search
<1> QED
  BY <1>8 DEF p2, nx2

(* A search begins with nothing found and nothing tried.                      *)
LEMMA SearchBegins ==
  ASSUME NEW adj, NEW starts, NEW ok, NEW hops \in Nat \ {0, 1}, Graph(adj, starts, ok)
  PROVE  Search(adj, starts, ok, hops, 1, <<>>, <<1>>, <<>>)
<1>1. 1 \in 1..(Len(starts) + 1)
  BY DEF Graph
<1>2. GoodPath(starts, ok, hops, 1, <<>>) /\ GoodPlaces(adj, <<>>, <<1>>)
  BY DEF GoodPath, GoodPlaces
<1>3. \A c : ~Earlier(adj, starts, 1, <<>>, <<1>>, c)
  <2>1. \A k \in 1..Len(<<1>>) : Behind(<<>>, <<1>>, k) = 0
    BY DEF Behind
  <2> QED
    BY <2>1 DEF Earlier, Passed
<1>4. <<>> \in Seq(Seq(Range(Edges))) /\ Range(<<>>) = {}
  BY DEF Range
<1> QED
  BY <1>1, <1>2, <1>3, <1>4 DEF Search

(* A start token is left when all its edges are tried.                        *)
LEMMA NextStartKeeps ==
  ASSUME NEW adj, NEW starts, NEW ok, NEW hops \in Nat, NEW s, NEW nx, NEW f,
         Graph(adj, starts, ok), Search(adj, starts, ok, hops, s, <<>>, nx, f),
         s <= Len(starts), nx[Len(nx)] > Len(adj[At(starts, s, <<>>)])
  PROVE  Search(adj, starts, ok, hops, s + 1, <<>>, <<1>>, f)
<1>1. /\ GoodPath(starts, ok, hops, s, <<>>) /\ nx \in Seq(Nat \ {0}) /\ Len(nx) = 1
      /\ s \in 1..Len(starts) /\ Len(starts) \in Nat
  BY DEF Search, GoodPlaces, Graph
<1>2. /\ starts[s] \in Ends /\ adj[starts[s]] \in Seq(Range(Edges))
      /\ nx[1] > Len(adj[starts[s]]) /\ nx[1] \in Nat
  <2>1. At(starts, s, <<>>) = starts[s]
    BY DEF At
  <2>2. At(starts, s, <<>>) \in Ends /\ adj[At(starts, s, <<>>)] \in Seq(Range(Edges))
    BY <1>1, AtEnd
  <2>3. nx[1] \in Nat
    <3>1. 1 \in 1..Len(nx)
      BY <1>1
    <3>2. nx[1] \in Nat \ {0}
      BY <1>1, <3>1, ElementOfSeq
    <3> QED
      BY <3>2
  <2> QED
    BY <1>1, <2>1, <2>2, <2>3
<1>3. GoodPath(starts, ok, hops, s + 1, <<>>) /\ GoodPlaces(adj, <<>>, <<1>>)
  BY <1>1 DEF GoodPath, GoodPlaces
<1>4. ASSUME NEW c, Ring(ok, hops, c), c[1].in = starts[s]
      PROVE  Earlier(adj, starts, s, <<>>, nx, c)
  <2>1. 1 \in 1..Len(c) /\ c \in Seq(Range(Edges)) /\ 1 <= Len(c)
    BY <1>4 DEF Ring
  <2>2. c[1] \in Range(Edges) /\ c[1].pool \in ok
    BY <1>4, <2>1 DEF Ring
  <2>3. c[1] \in Range(adj[starts[s]])
    BY <1>2, <1>4, <2>2 DEF Graph
  <2>4. PICK j \in 1..Len(adj[starts[s]]) : adj[starts[s]][j] = c[1]
    <3>1. DOMAIN adj[starts[s]] = 1..Len(adj[starts[s]])
      BY <1>2
    <3> QED
      BY <2>3, <3>1 DEF Range
  <2>5. j \in 1..Behind(<<>>, nx, 1) /\ j <= Len(adj[c[1].in]) /\ adj[c[1].in][j] = c[1]
    <3>1. Behind(<<>>, nx, 1) = nx[1] - 1
      BY DEF Behind
    <3>2. Len(adj[starts[s]]) \in Nat
      BY <1>2
    <3> QED
      BY <1>2, <1>4, <2>4, <3>1, <3>2
  <2>6. \A i \in 1..(1 - 1) : c[i] = <<>>[i]
    OBVIOUS
  <2>7. Passed(adj, <<>>, nx, 1, c)
    BY <2>1, <2>5, <2>6 DEF Passed
  <2> QED
    BY <1>1, <1>4, <2>7 DEF Earlier
<1>5. ASSUME NEW c, Ring(ok, hops, c), Earlier(adj, starts, s + 1, <<>>, << 1 >>, c)
      PROVE  Earlier(adj, starts, s, <<>>, nx, c)
  <2>1. ~\E k \in 1..Len(<<1>>) : Passed(adj, <<>>, <<1>>, k, c)
    <3>1. \A k \in 1..Len(<<1>>) : Behind(<<>>, <<1>>, k) = 0
      BY DEF Behind
    <3> QED
      BY <3>1 DEF Passed
  <2>2. \E r \in 1..s : c[1].in = starts[r]
    BY <1>1, <1>5, <2>1 DEF Earlier
  <2>3. PICK r \in 1..s : c[1].in = starts[r]
    BY <2>2
  <2>4. CASE r = s
    BY <1>4, <1>5, <2>3, <2>4
  <2>5. CASE r # s
    <3>1. r \in 1..(s - 1)
      BY <1>1, <2>5
    <3> QED
      BY <2>3, <3>1 DEF Earlier
  <2> QED
    BY <2>4, <2>5
<1>6. s + 1 \in 1..(Len(starts) + 1)
  BY <1>1
<1> QED
  BY <1>3, <1>5, <1>6 DEF Search

(* When every start token is done with, every cycle is found.                 *)
LEMMA SearchEnds ==
  ASSUME NEW adj, NEW starts, NEW ok, NEW hops \in Nat, NEW s, NEW p, NEW nx, NEW f, NEW c,
         Graph(adj, starts, ok), Search(adj, starts, ok, hops, s, p, nx, f),
         s > Len(starts), Ring(ok, hops, c)
  PROVE  c \in Range(f)
<1>1. c[1] \in Range(Edges) /\ c[1].pool \in ok
  <2>1. 1 \in 1..Len(c) /\ c \in Seq(Range(Edges))
    BY DEF Ring
  <2> QED
    BY <2>1 DEF Ring
<1>2. c[1].in \in Range(starts) /\ starts \in Seq(Ends) /\ s = Len(starts) + 1
  BY <1>1 DEF Graph, Search
<1>3. PICK r \in 1..Len(starts) : c[1].in = starts[r]
  BY <1>2 DEF Range
<1>4. r \in 1..(s - 1)
  BY <1>2
<1>5. Earlier(adj, starts, s, p, nx, c)
  BY <1>3, <1>4 DEF Earlier
<1> QED
  BY <1>5 DEF Search

-----------------------------------------------------------------------------
(* The passes of CycleFinder.                                                 *)

(* The longest cycles asked for are those of one of the passes.               *)
LEMMA LongestHops ==
  ASSUME CycleFinderConstants
  PROVE  /\ MaxHops \in Nat /\ \E i \in 1..Len(Passes) : Passes[i].maxHops = MaxHops
         /\ \A i \in 1..Len(Passes) : Passes[i].maxHops \in 2..8 /\ Passes[i].maxHops <= MaxHops
         /\ DOMAIN Passes = 1..Len(Passes) /\ Len(Passes) \in Nat \ {0}
<1> DEFINE H == {Passes[i].maxHops : i \in DOMAIN Passes}
           S == {8 - h : h \in H}
<1>1. Passes \in Seq(Range(Passes)) /\ Passes # <<>>
      /\ \A i \in DOMAIN Passes : Passes[i].maxHops \in 2..8
  BY DEF CycleFinderConstants
<1>2. DOMAIN Passes = 1..Len(Passes) /\ Len(Passes) \in Nat \ {0}
  <2> HIDE DEF Range
  <2> QED
    BY <1>1
<1>3. H # {} /\ H \in SUBSET (2..8)
  BY <1>1, <1>2
<1> HIDE DEF H
<1>4. PICK m \in S : \A k \in S : m <= k
  <2>1. S \in SUBSET Nat /\ S # {}
    <3>1. \A h \in H : 8 - h \in Nat
      BY <1>3
    <3> QED
      BY <1>3, <3>1
  <2> HIDE DEF S
  <2> QED
    BY <2>1, LeastNumber
<1>5. PICK h \in H : m = 8 - h
  BY <1>4
<1>6. \A x \in H : h >= x
  <2> TAKE x \in H
  <2>1. 8 - x \in S /\ x \in 2..8 /\ h \in 2..8
    BY <1>3
  <2>2. 8 - h <= 8 - x
    <3> HIDE DEF S
    <3> QED
      BY <1>4, <1>5, <2>1
  <2> QED
    BY <2>1, <2>2
<1>7. MaxHops \in H /\ \A x \in H : MaxHops >= x
  BY <1>6 DEF MaxHops, Max, H
<1>8. \A i \in 1..Len(Passes) : Passes[i].maxHops \in H
  BY <1>2 DEF H
<1>9. \E i \in 1..Len(Passes) : Passes[i].maxHops = MaxHops
  BY <1>2, <1>7 DEF H
<1>10. \A x \in H : x \in 2..8 /\ x <= MaxHops /\ x \in Nat
  <2>1. \A x \in H : x \in 2..8
    BY <1>3
  <2> QED
    BY <1>7, <2>1
<1> QED
  BY <1>2, <1>7, <1>8, <1>9, <1>10

(* Its adjacency and start tokens are a graph as the search takes it.         *)
LEMMA GraphHolds ==
  ASSUME CycleFinderConstants
  PROVE  Graph(Leaving, StartTokens, valid)
<1>1. \A t \in Ends : /\ Leaving[t] \in Seq(Range(Edges))
                      /\ \A e : e \in Range(Leaving[t])
                                  <=> e \in Range(Edges) /\ e.in = t /\ e.pool \in valid
  BY LeavingEdges DEF Leaving
<1>2. Leaving \in [Ends -> Seq(Range(Edges))]
  BY LeavingEdges DEF Leaving
<1> QED
  BY <1>1, <1>2, StartsCover DEF Graph

(* All the cycles of so many hops are among these.                            *)
Found(ok, hops, cycles) == \A c : Ring(ok, hops, c) => c \in Range(cycles)

(* The inductive invariant of a depth-first search: the pass under way is as  *)
(* above, the passes before have found cycles only, and each of them all that *)
(* its hops allow unless its limit or the time stopped it.                    *)
DfsInv ==
  finder = "dfs" =>
    /\ pass \in 1..(Len(Passes) + 1)
    /\ IF pass <= Len(Passes)
       THEN Search(Leaving, StartTokens, valid, Passes[pass].maxHops, start, path, next, found)
       ELSE found = <<>>
    /\ all \in Seq(Seq(Range(Edges))) /\ \A c \in Range(all) : Ring(valid, MaxHops, c)
    /\ ~exceeded => \A p \in 1..(pass - 1) :
                      \/ Len(all) >= Passes[p].maxCycles
                      \/ Found(valid, Passes[p].maxHops, all)
    /\ kept.done => pass > Len(Passes)

(* It holds at first.                                                         *)
LEMMA DfsBegins ==
  ASSUME CycleFinderConstants, CycleFinderInit
  PROVE  DfsInv
<1>1. Len(Passes) \in Nat \ {0} /\ Passes[1].maxHops \in Nat \ {0, 1}
  <2>1. 1 \in 1..Len(Passes) /\ Len(Passes) \in Nat \ {0}
    BY LongestHops
  <2>2. Passes[1].maxHops \in 2..8
    BY <2>1, LongestHops
  <2> QED
    BY <2>1, <2>2
<1>2. Search(Leaving, StartTokens, valid, Passes[1].maxHops, 1, <<>>, <<1>>, <<>>)
  BY <1>1, GraphHolds, SearchBegins
<1>3. pass = 1 /\ start = 1 /\ path = <<>> /\ next = <<1>> /\ found = <<>> /\ all = <<>>
      /\ exceeded = FALSE /\ kept.done = FALSE
  BY DEF CycleFinderInit
<1>4. all \in Seq(Seq(Range(Edges))) /\ Range(all) = {}
  BY <1>3 DEF Range
<1>5. Search(Leaving, StartTokens, valid, Passes[pass].maxHops, start, path, next, found)
  BY <1>2, <1>3
<1>6. 1..(pass - 1) = {}
  BY <1>3
<1> QED
  BY <1>1, <1>3, <1>4, <1>5, <1>6 DEF DfsInv

(* Nothing of the graph changes when no pool does.                            *)
LEMMA GraphStays ==
  ASSUME valid' = valid
  PROVE  Leaving' = Leaving /\ StartTokens' = StartTokens
BY DEF Leaving, StartTokens, TokenOrder, Adjacency, Routable

(* While the search goes on, only it changes.                                 *)
LEMMA SearchStep ==
  ASSUME CycleFinderConstants, DfsInv, finder = "dfs", pass <= Len(Passes),
         UNCHANGED <<finder, valid, pass, all, exceeded, kept>>,
         Search(Leaving, StartTokens, valid, Passes[pass].maxHops, start', path', next', found')
  PROVE  DfsInv'
<1>1. Leaving' = Leaving /\ StartTokens' = StartTokens
  BY GraphStays
<1>2. Search(Leaving', StartTokens', valid', Passes[pass'].maxHops, start', path', next', found')
  BY <1>1
<1> QED
  BY <1>2 DEF DfsInv

(* An edge closes a cycle, is followed or is left aside.                      *)
LEMMA TryEdgeKeeps ==
  ASSUME CycleFinderConstants, DfsInv, TryEdge
  PROVE  DfsInv'
<1> DEFINE hops == Passes[pass].maxHops
           e == Leaving[At(StartTokens, start, path)][next[Len(next)]]
           advanced == [next EXCEPT ![Len(next)] = @ + 1]
<1>1. /\ finder = "dfs" /\ pass <= Len(Passes) /\ start <= Len(StartTokens)
      /\ ~(next[Len(next)] > Len(Adjacency(Token)))
      /\ UNCHANGED <<finder, valid, pass, all, exceeded, kept, start>>
  BY DEF TryEdge, Searching, Tried, Last
<1>2. /\ Search(Leaving, StartTokens, valid, hops, start, path, next, found)
      /\ Graph(Leaving, StartTokens, valid) /\ pass \in 1..Len(Passes)
  <2>1. pass \in 1..Len(Passes)
    BY <1>1, LongestHops DEF DfsInv
  <2> QED
    BY <1>1, <2>1, GraphHolds DEF DfsInv
<1>3. hops \in Nat
  BY <1>2, LongestHops
<1>4. /\ GoodPath(StartTokens, valid, hops, start, path) /\ start \in 1..Len(StartTokens)
      /\ GoodPlaces(Leaving, path, next)
  <2> HIDE DEF hops
  <2> QED
    BY <1>1, <1>2 DEF Search, Graph
<1>5. Token = At(StartTokens, start, path)
  BY DEF Token, At, Last
<1>6. /\ At(StartTokens, start, path) \in Ends
      /\ Leaving[At(StartTokens, start, path)] \in Seq(Range(Edges))
  <2> HIDE DEF hops
  <2> QED
    BY <1>2, <1>3, <1>4, AtEnd
<1>7. Leaving[At(StartTokens, start, path)] = Adjacency(Token)
  BY <1>5, <1>6 DEF Leaving
<1>8. next[Len(next)] <= Len(Leaving[At(StartTokens, start, path)])
  <2>1. Len(Adjacency(Token)) \in Nat
    BY <1>6, <1>7
  <2>2. next[Len(next)] \in Nat
    <3>1. next \in Seq(Nat \ {0}) /\ Len(next) \in 1..Len(next)
      BY <1>4 DEF GoodPlaces, GoodPath
    <3> QED
      BY <3>1, ElementOfSeq
  <2> QED
    BY <1>1, <1>7, <2>1, <2>2
<1>9. e = Adjacency(Token)[Last(next)] /\ Advanced = advanced
  BY <1>7 DEF Last, Advanced
<1>10. /\ path \in Seq(Range(Edges)) /\ DOMAIN path = 1..Len(path)
       /\ FreshPool(e) <=> \A i \in 1..Len(path) : path[i].pool # e.pool
       /\ e.out \notin Visited
            <=> e.out # StartTokens[start] /\ \A i \in 1..Len(path) : path[i].out # e.out
  <2>1. path \in Seq(Range(Edges)) /\ DOMAIN path = 1..Len(path)
    BY <1>4 DEF GoodPath
  <2> HIDE DEF e
  <2> QED
    BY <2>1 DEF FreshPool, RouteKey, Visited
<1> HIDE DEF hops, e, advanced
<1>11. CASE FreshPool(e) /\ e.out = StartTokens[start] /\ path # <<>>
  <2>1. found' = Append(found, Append(path, e)) /\ next' = advanced /\ path' = path
    BY <1>9, <1>11 DEF TryEdge
  <2>2. Search(Leaving, StartTokens, valid, hops, start, path, advanced,
               Append(found, Append(path, e)))
    BY <1>1, <1>2, <1>3, <1>8, <1>10, <1>11, CloseKeeps DEF e, advanced
  <2>3. Search(Leaving, StartTokens, valid, Passes[pass].maxHops, start', path', next', found')
    BY <1>1, <2>1, <2>2 DEF hops
  <2> QED
    BY <1>1, <2>3, SearchStep
<1>12. CASE /\ ~(FreshPool(e) /\ e.out = StartTokens[start] /\ path # <<>>)
            /\ FreshPool(e) /\ e.out \notin Visited /\ Len(path) + 1 < hops
  <2>1. found' = found /\ next' = Append(advanced, 1) /\ path' = Append(path, e)
    BY <1>9, <1>12 DEF TryEdge, hops
  <2>2. Search(Leaving, StartTokens, valid, hops, start, Append(path, e), Append(advanced, 1), found)
    BY <1>1, <1>2, <1>3, <1>8, <1>10, <1>12, FollowKeeps DEF e, advanced
  <2>3. Search(Leaving, StartTokens, valid, Passes[pass].maxHops, start', path', next', found')
    BY <1>1, <2>1, <2>2 DEF hops
  <2> QED
    BY <1>1, <2>3, SearchStep
<1>13. CASE /\ ~(FreshPool(e) /\ e.out = StartTokens[start] /\ path # <<>>)
            /\ ~(FreshPool(e) /\ e.out \notin Visited /\ Len(path) + 1 < hops)
  <2>1. found' = found /\ next' = advanced /\ path' = path
    BY <1>9, <1>13 DEF TryEdge, hops
  <2>2. \/ \E i \in 1..Len(path) : path[i].pool = e.pool
        \/ /\ e.out # StartTokens[start] \/ path = <<>>
           /\ \/ e.out = StartTokens[start] \/ \E i \in 1..Len(path) : path[i].out = e.out
              \/ ~(Len(path) + 1 < hops)
    BY <1>10, <1>13
  <2>3. Search(Leaving, StartTokens, valid, hops, start, path, advanced, found)
    BY <1>1, <1>2, <1>3, <1>8, <2>2, SkipKeeps DEF e, advanced
  <2>4. Search(Leaving, StartTokens, valid, Passes[pass].maxHops, start', path', next', found')
    BY <1>1, <2>1, <2>3 DEF hops
  <2> QED
    BY <1>1, <2>4, SearchStep
<1> QED
  BY <1>11, <1>12, <1>13

(* The token is done with: back, or to the next start token.                  *)
LEMMA LeaveTokenKeeps ==
  ASSUME CycleFinderConstants, DfsInv, Backtrack \/ NextStart
  PROVE  DfsInv'
<1> DEFINE hops == Passes[pass].maxHops
<1>1. /\ finder = "dfs" /\ pass <= Len(Passes) /\ start <= Len(StartTokens)
      /\ next[Len(next)] > Len(Adjacency(Token))
      /\ UNCHANGED <<finder, valid, pass, all, exceeded, kept, found>>
  BY DEF Backtrack, NextStart, Searching, Tried, Last
<1>2. /\ Search(Leaving, StartTokens, valid, hops, start, path, next, found)
      /\ Graph(Leaving, StartTokens, valid) /\ pass \in 1..Len(Passes)
  <2>1. pass \in 1..Len(Passes)
    BY <1>1, LongestHops DEF DfsInv
  <2> QED
    BY <1>1, <2>1, GraphHolds DEF DfsInv
<1>3. hops \in Nat
  BY <1>2, LongestHops
<1> HIDE DEF hops
<1>4. GoodPath(StartTokens, valid, hops, start, path) /\ start \in 1..Len(StartTokens)
  BY <1>1, <1>2 DEF Search, Graph
<1>5. next[Len(next)] > Len(Leaving[At(StartTokens, start, path)])
  <2>1. Token = At(StartTokens, start, path)
    BY DEF Token, At, Last
  <2>2. At(StartTokens, start, path) \in Ends
    BY <1>2, <1>3, <1>4, AtEnd
  <2> QED
    BY <1>1, <2>1, <2>2 DEF Leaving
<1>6. CASE Backtrack
  <2>1. path # <<>> /\ path' = Front(path) /\ next' = Front(next) /\ start' = start
    BY <1>6 DEF Backtrack
  <2>2. Search(Leaving, StartTokens, valid, hops, start, Front(path), Front(next), found)
    BY <1>1, <1>2, <1>3, <1>5, <2>1, BacktrackKeeps
  <2>3. Search(Leaving, StartTokens, valid, Passes[pass].maxHops, start', path', next', found')
    BY <1>1, <2>1, <2>2 DEF hops
  <2> QED
    BY <1>1, <2>3, SearchStep
<1>7. CASE NextStart
  <2>1. path = <<>> /\ path' = <<>> /\ next' = <<1>> /\ start' = start + 1
    BY <1>7 DEF NextStart
  <2>2. Search(Leaving, StartTokens, valid, hops, start + 1, <<>>, <<1>>, found)
    BY <1>1, <1>2, <1>3, <1>5, <2>1, NextStartKeeps
  <2>3. Search(Leaving, StartTokens, valid, Passes[pass].maxHops, start', path', next', found')
    BY <1>1, <2>1, <2>2 DEF hops
  <2> QED
    BY <1>1, <2>3, SearchStep
<1> QED
  BY <1>6, <1>7

(* A longer search looks for the shorter cycles as well.                      *)
LEMMA RingLonger ==
  ASSUME NEW ok, NEW m \in Nat, NEW n \in Nat, m <= n, NEW c, Ring(ok, m, c)
  PROVE  Ring(ok, n, c)
<1>1. Len(c) <= n
  <2>1. c \in Seq(Range(Edges)) /\ Len(c) <= m
    BY DEF Ring
  <2> QED
    BY <2>1
<1> QED
  BY <1>1 DEF Ring

(* A pass ends: it was cut short by its limit or by the time, or it is        *)
(* complete.                                                                  *)
LEMMA NextPassKeeps ==
  ASSUME CycleFinderConstants, DfsInv, NextPass
  PROVE  DfsInv'
<1> DEFINE hops == Passes[pass].maxHops
<1>1. /\ finder = "dfs" /\ pass <= Len(Passes) /\ pass \in 1..Len(Passes)
      /\ UNCHANGED <<finder, valid, exceeded, kept>>
      /\ all' = all \o found /\ found' = <<>> /\ path' = <<>> /\ start' = 1 /\ next' = <<1>>
      /\ pass' = IF exceeded THEN Len(Passes) + 1 ELSE pass + 1
      /\ start > Len(StartTokens) \/ Len(found) >= Passes[pass].maxCycles \/ exceeded
  BY LongestHops DEF NextPass, Full, DfsInv
<1>2. /\ hops \in Nat /\ hops <= MaxHops /\ MaxHops \in Nat /\ Len(Passes) \in Nat \ {0}
      /\ \A i \in 1..Len(Passes) : Passes[i].maxHops \in 2..8
  <2>1. hops \in 2..8
    BY <1>1, LongestHops
  <2> QED
    BY <1>1, <2>1, LongestHops
<1>3. /\ Search(Leaving, StartTokens, valid, hops, start, path, next, found)
      /\ Graph(Leaving, StartTokens, valid)
  BY <1>1, GraphHolds DEF DfsInv
<1> HIDE DEF hops
<1>4. found \in Seq(Seq(Range(Edges))) /\ \A c \in Range(found) : Ring(valid, hops, c)
  BY <1>3 DEF Search
<1>5. all \in Seq(Seq(Range(Edges))) /\ \A c \in Range(all) : Ring(valid, MaxHops, c)
  BY <1>1 DEF DfsInv
<1>6. /\ all' \in Seq(Seq(Range(Edges))) /\ Range(all') = Range(all) \cup Range(found)
      /\ Len(all') = Len(all) + Len(found) /\ Len(all) \in Nat /\ Len(found) \in Nat
  <2> DEFINE S == Seq(Range(Edges))
  <2>1. all \o found \in Seq(S) /\ Range(all \o found) = Range(all) \cup Range(found)
    <3> HIDE DEF S
    <3>1. all \in Seq(S) /\ found \in Seq(S)
      BY <1>4, <1>5 DEF S
    <3> QED
      BY <3>1, JoinedRange
  <2>2. Len(all \o found) = Len(all) + Len(found) /\ Len(all) \in Nat /\ Len(found) \in Nat
    <3> HIDE DEF S
    <3>1. all \in Seq(S) /\ found \in Seq(S)
      BY <1>4, <1>5 DEF S
    <3> QED
      BY <3>1, ConcatProperties
  <2> QED
    BY <1>1, <2>1, <2>2
<1>7. \A c \in Range(all') : Ring(valid', MaxHops, c)
  BY <1>1, <1>2, <1>4, <1>5, <1>6, RingLonger
<1>8. pass' \in 1..(Len(Passes) + 1)
  BY <1>1, <1>2
<1>9. IF pass' <= Len(Passes)
      THEN Search(Leaving', StartTokens', valid', Passes[pass'].maxHops, start', path', next', found')
      ELSE found' = <<>>
  <2>1. CASE pass' <= Len(Passes)
    <3>1. Passes[pass'].maxHops \in 2..8
      BY <1>2, <1>8, <2>1
    <3>2. Passes[pass'].maxHops \in Nat \ {0, 1}
      BY <3>1
    <3>3. Search(Leaving, StartTokens, valid, Passes[pass'].maxHops, 1, <<>>, <<1>>, <<>>)
      BY <1>3, <3>2, SearchBegins
    <3>4. Leaving' = Leaving /\ StartTokens' = StartTokens
      BY <1>1, GraphStays
    <3> QED
      BY <1>1, <2>1, <3>3, <3>4
  <2>2. CASE ~(pass' <= Len(Passes))
    BY <1>1, <2>2
  <2> QED
    BY <2>1, <2>2
<1>10. ASSUME ~exceeded', NEW p \in 1..(pass' - 1)
       PROVE  \/ Len(all') >= Passes[p].maxCycles
              \/ Found(valid', Passes[p].maxHops, all')
  <2>1. pass' = pass + 1 /\ ~exceeded
    BY <1>1, <1>10
  <2>2. /\ p \in 1..Len(Passes) /\ (p \in 1..(pass - 1) \/ p = pass)
    BY <1>1, <1>2, <1>10, <2>1
  <2>3. Passes[p].maxCycles \in Nat
    BY <2>2, LongestHops DEF CycleFinderConstants
  <2>4. CASE p \in 1..(pass - 1)
    <3>1. Len(all) >= Passes[p].maxCycles \/ Found(valid, Passes[p].maxHops, all)
      BY <1>1, <2>1, <2>4 DEF DfsInv
    <3>2. CASE Len(all) >= Passes[p].maxCycles
      BY <1>6, <2>3, <3>2
    <3>3. CASE Found(valid, Passes[p].maxHops, all)
      BY <1>1, <1>6, <3>3 DEF Found
    <3> QED
      BY <3>1, <3>2, <3>3
  <2>5. CASE p = pass
    <3>1. CASE Len(found) >= Passes[pass].maxCycles
      BY <1>6, <2>3, <2>5, <3>1
    <3>2. CASE start > Len(StartTokens)
      <4>1. \A c : Ring(valid, hops, c) => c \in Range(found)
        BY <1>2, <1>3, <3>2, SearchEnds
      <4>2. Found(valid', Passes[p].maxHops, all')
        BY <1>1, <1>6, <2>5, <4>1 DEF Found, hops
      <4> QED
        BY <4>2
    <3> QED
      BY <1>1, <2>1, <3>1, <3>2
  <2> QED
    BY <2>2, <2>4, <2>5
<1>11. kept'.done => pass' > Len(Passes)
  BY <1>1 DEF DfsInv
<1> QED
  BY <1>1, <1>6, <1>7, <1>8, <1>9, <1>10, <1>11 DEF DfsInv

(* Every step of either search keeps what is known of the depth-first one.    *)
LEMMA DfsStep ==
  ASSUME CycleFinderConstants, DfsInv, [CycleFinderNext]_finderVars
  PROVE  DfsInv'
<1>1. CASE TryEdge
  BY <1>1, TryEdgeKeeps
<1>2. CASE Backtrack \/ NextStart
  BY <1>2, LeaveTokenKeeps
<1>3. CASE NextPass
  BY <1>3, NextPassKeeps
<1>4. CASE Exceed
  <2>1. Leaving' = Leaving /\ StartTokens' = StartTokens
    BY <1>4, GraphStays DEF Exceed
  <2> QED
    BY <1>4, <2>1 DEF Exceed, DfsInv
<1>5. CASE Finalize
  <2>1. Leaving' = Leaving /\ StartTokens' = StartTokens
    BY <1>5, GraphStays DEF Finalize
  <2> QED
    BY <1>5, <2>1 DEF Finalize, DfsInv
<1>6. CASE BellmanFordPass
  BY <1>6 DEF BellmanFordPass, DfsInv
<1>7. CASE UNCHANGED finderVars
  <2>1. Leaving' = Leaving /\ StartTokens' = StartTokens
    BY <1>7, GraphStays DEF finderVars
  <2> QED
    BY <1>7, <2>1 DEF finderVars, DfsInv
<1> QED
  BY <1>1, <1>2, <1>3, <1>4, <1>5, <1>6, <1>7 DEF CycleFinderNext

(* What is known of the search says that it finds every cycle.                *)
LEMMA DfsFindsAll ==
  ASSUME CycleFinderConstants, DfsInv, finder = "dfs"
  PROVE  EveryCycleFound
<1>1. /\ MaxHops \in Nat /\ DOMAIN Passes = 1..Len(Passes) /\ Len(Passes) \in Nat \ {0}
      /\ \A i \in 1..Len(Passes) : Passes[i].maxHops \in 2..8 /\ Passes[i].maxHops <= MaxHops
  BY LongestHops
<1>2. /\ all \in Seq(Seq(Range(Edges))) /\ \A c \in Range(all) : Ring(valid, MaxHops, c)
      /\ pass \in 1..(Len(Passes) + 1)
  BY DEF DfsInv
<1>3. found \in Seq(Seq(Range(Edges))) /\ \A c \in Range(found) : Ring(valid, MaxHops, c)
  <2>1. CASE pass <= Len(Passes)
    <3>1. Search(Leaving, StartTokens, valid, Passes[pass].maxHops, start, path, next, found)
      BY <2>1 DEF DfsInv
    <3>2. /\ found \in Seq(Seq(Range(Edges)))
          /\ \A c \in Range(found) : Ring(valid, Passes[pass].maxHops, c)
      BY <3>1 DEF Search
    <3>3. Passes[pass].maxHops \in 2..8 /\ Passes[pass].maxHops <= MaxHops
      BY <1>1, <1>2, <2>1
    <3>4. Passes[pass].maxHops \in Nat
      BY <3>3
    <3> QED
      BY <1>1, <3>2, <3>3, <3>4, RingLonger
  <2>2. CASE ~(pass <= Len(Passes))
    <3>1. found = <<>>
      BY <2>2 DEF DfsInv
    <3> QED
      BY <3>1 DEF Range
  <2> QED
    BY <2>1, <2>2
<1>4. Range(found \o all) = Range(found) \cup Range(all)
  <2> DEFINE S == Seq(Range(Edges))
  <2>1. found \in Seq(S) /\ all \in Seq(S)
    BY <1>2, <1>3
  <2> HIDE DEF S
  <2> QED
    BY <2>1, JoinedRange
<1>5. \A c \in Range(found \o all) : IsSimple(c)
  BY <1>1, <1>2, <1>3, <1>4, RingIsSimple DEF SimpleCycles
<1>6. ASSUME kept.done, ~exceeded, \A i \in DOMAIN Passes : Len(all) < Passes[i].maxCycles
      PROVE  Range(all) = SimpleCycles(MaxHops)
  <2>1. PICK m \in 1..Len(Passes) : Passes[m].maxHops = MaxHops
    BY LongestHops
  <2>2. m \in 1..(pass - 1)
    BY <1>1, <1>2, <1>6, <2>1 DEF DfsInv
  <2>3. ~(Len(all) >= Passes[m].maxCycles)
    <3>1. Passes[m].maxCycles \in Nat \ {0} /\ Len(all) \in Nat /\ Len(all) < Passes[m].maxCycles
      BY <1>1, <1>2, <1>6, <2>1 DEF CycleFinderConstants
    <3> QED
      BY <3>1
  <2>4. Found(valid, MaxHops, all)
    BY <1>6, <2>1, <2>2, <2>3 DEF DfsInv
  <2> QED
    BY <1>1, <1>2, <2>4, RingIsSimple DEF Found
<1> QED
  BY <1>5, <1>6 DEF EveryCycleFound

-----------------------------------------------------------------------------
(* Theorems.                                                                  *)

(* The inductive invariant holds.                                             *)
THEOREM CycleFinderInvariant ==
  ASSUME CycleFinderConstants
  PROVE  CycleFinderSpec => []DfsInv
<1>1. CycleFinderInit => DfsInv
  BY DfsBegins
<1>2. DfsInv /\ [CycleFinderNext]_finderVars => DfsInv'
  BY DfsStep
<1> QED
  BY <1>1, <1>2, PTL DEF CycleFinderSpec

(* Whatever the pools, their tokens and states, the passes and the moment the *)
(* time is used up (findCyclesMultiPass): a depth-first search returns cycles *)
(* over distinct pools and tokens only, and every one of them if neither the  *)
(* limit of a pass nor the time cut it short.                                 *)
THEOREM DepthFirstComplete ==
  ASSUME CycleFinderConstants
  PROVE  CycleFinderSpec => [](finder = "dfs" => EveryCycleFound)
<1>1. DfsInv => (finder = "dfs" => EveryCycleFound)
  BY DfsFindsAll
<1> QED
  BY <1>1, CycleFinderInvariant, PTL
=============================================================================
