------------------------------ MODULE CycleFinder ------------------------------
(***************************************************************************)
(* The enumeration of arbitrage cycles (src/src/pipeline/finder.ts) over    *)
(* the routing graph (graph.ts): several depth-first passes, each with a    *)
(* limit of hops and of cycles and all with one budget of time, then        *)
(* deduplication by set of pools, rescoring by spot price and a cap that    *)
(* keeps some cycles of every length; and the Bellman-Ford search.          *)
(* Weights are logarithms, here small integers: a pool of price k and fee f *)
(* weighs f - k in one direction and f + k in the other, and a cycle earns  *)
(* when the weights of its edges sum to less than 0.                        *)
(***************************************************************************)
EXTENDS Integers, Sequences, FiniteSets, Functions, SequencesExt, FiniteSetsExt, Lists

CONSTANTS
  RoutingPools,    \* the pools after filterPoolsForRouting, in their order
  PoolTokens,      \* their tokens
  FeeOf,           \* their fees
  Majors,          \* MAJOR_TOKENS
  MajorBonus,      \* what starting at one is worth
  HopPenalty,      \* HOP_PENALTIES
  Passes,          \* the passes: [maxHops, maxCycles]
  Quotas,          \* DEFAULT_HOP_QUOTAS: [hops -> number]
  CycleCap,        \* the cycles kept
  Prices,          \* bound: the prices of pools
  Finders,         \* bound: the searches configured, of "dfs" and "bellman-ford"
  Unknown          \* bound: the pools that may be without a valid state

(* What is assumed of them. *)
CycleFinderConstants ==
  /\ RoutingPools \in Seq(DOMAIN PoolTokens)
  /\ \A p \in DOMAIN PoolTokens : PoolTokens[p] \in Seq(Range(PoolTokens[p]))
  /\ Passes # <<>> /\ Passes \in Seq(Range(Passes))
  /\ Range(FeeOf) \subseteq Nat /\ MajorBonus \in Nat /\ CycleCap \in Nat \ {0}
  /\ \A i \in DOMAIN Passes : Passes[i].maxHops \in 2..8 /\ Passes[i].maxCycles \in Nat \ {0}

VARIABLES
  finder,          \* routing.cycleFinder
  price,           \* [pool -> price]
  valid,           \* the pools with a state that is not invalid
  pass,            \* the pass, or Len(Passes) + 1
  start,           \* the position of the start token
  path,            \* the edges taken
  next,            \* at every token of the path, the edge to try next
  found,           \* the cycles of this pass
  all,             \* those of the passes before
  exceeded,        \* the budget of time is used up
  kept             \* [done, cycles]: what finalizeEnumeratedCycles returns

finderVars == <<finder, price, valid, pass, start, path, next, found, all, exceeded, kept>>

-----------------------------------------------------------------------------
(* The graph: the edges of a pool in both directions, and those that leave  *)
(* a token and have a state.                                                *)
EdgesOf(p) ==
  LET t == PoolTokens[p]
      Edge(i, j) == [pool |-> p, in |-> t[i], out |-> t[j], up |-> i < j]
  IN FlattenSeq([i \in DOMAIN t |->
       Kept([j \in DOMAIN t |-> Edge(i, j)], {j \in DOMAIN t : t[j] # t[i]})])
Edges == FlattenSeq([i \in DOMAIN RoutingPools |-> EdgesOf(RoutingPools[i])])

Routable == {i \in DOMAIN Edges : Edges[i].pool \in valid}
Adjacency(token) == Kept(Edges, {i \in Routable : Edges[i].in = token})

(* The tokens in the order of the edges; the major ones are started at      *)
(* first.                                                                   *)
TokenOrder ==
  Kept([i \in DOMAIN Edges |-> Edges[i].in],
       {i \in Routable : \A j \in Routable : Edges[j].in = Edges[i].in => i <= j})
StartTokens ==
  Kept(TokenOrder, {i \in DOMAIN TokenOrder : TokenOrder[i] \in Majors})
    \o Kept(TokenOrder, {i \in DOMAIN TokenOrder : TokenOrder[i] \notin Majors})

Weight(e) == FeeOf[e.pool] + (IF e.up THEN -price[e.pool] ELSE price[e.pool])
SumOver(edges, W(_)) == FoldLeft(LAMBDA sum, e : sum + W(e), 0, edges)
SpotWeight(cycle) == SumOver(cycle, Weight)
RouteKey(cycle) == {cycle[i].pool : i \in DOMAIN cycle}

CycleFinderInit ==
  /\ finder \in Finders /\ price \in [Range(RoutingPools) -> Prices]
  /\ valid \in {Range(RoutingPools) \ u : u \in SUBSET Unknown}
  /\ pass = 1 /\ start = 1 /\ path = <<>> /\ next = <<1>>
  /\ found = <<>> /\ all = <<>> /\ exceeded = FALSE /\ kept = [done |-> FALSE, cycles |-> <<>>]

-----------------------------------------------------------------------------
(* collectCyclesPrepared: the search, one edge at a time.                   *)
Searching == finder = "dfs" /\ pass <= Len(Passes) /\ ~exceeded /\ start <= Len(StartTokens)
Full == Len(found) >= Passes[pass].maxCycles
Token == IF path = <<>> THEN StartTokens[start] ELSE Last(path).out
Visited == {StartTokens[start]} \cup {path[i].out : i \in DOMAIN path}

(* Mutation: A pool already on the path is taken again.                     *)
AnyPool(e) == Len(path) < Passes[pass].maxHops
FreshPool(e) == e.pool \notin RouteKey(path)

Tried == Last(next) > Len(Adjacency(Token))
Advanced == [next EXCEPT ![Len(next)] = @ + 1]

(* The edge closes a cycle, is of no use, or is followed.                   *)
TryEdge ==
  /\ Searching /\ ~Full /\ ~Tried
  /\ LET e == Adjacency(Token)[Last(next)] IN
       IF FreshPool(e) /\ e.out = StartTokens[start] /\ path # <<>>
       THEN /\ found' = Append(found, Append(path, e))
            /\ next' = Advanced /\ UNCHANGED path
       ELSE IF FreshPool(e) /\ e.out \notin Visited /\ Len(path) + 1 < Passes[pass].maxHops
       THEN path' = Append(path, e) /\ next' = Append(Advanced, 1) /\ UNCHANGED found
       ELSE next' = Advanced /\ UNCHANGED <<path, found>>
  /\ UNCHANGED <<finder, price, valid, pass, start, all, exceeded, kept>>

(* Every edge of the token is tried: back to the token before, or to the    *)
(* next start token.                                                        *)
Backtrack ==
  /\ Searching /\ ~Full /\ Tried /\ path # <<>>
  /\ path' = Front(path) /\ next' = Front(next)
  /\ UNCHANGED <<finder, price, valid, pass, start, found, all, exceeded, kept>>

NextStart ==
  /\ Searching /\ ~Full /\ Tried /\ path = <<>>
  /\ start' = start + 1 /\ next' = <<1>>
  /\ UNCHANGED <<finder, price, valid, pass, path, found, all, exceeded, kept>>

(* findCyclesMultiPass: the pass is over, and the next one starts anew.     *)
NextPass ==
  /\ finder = "dfs" /\ pass <= Len(Passes) /\ (start > Len(StartTokens) \/ Full \/ exceeded)
  /\ all' = all \o found /\ found' = <<>> /\ path' = <<>> /\ start' = 1 /\ next' = <<1>>
  /\ pass' = IF exceeded THEN Len(Passes) + 1 ELSE pass + 1
  /\ UNCHANGED <<finder, price, valid, exceeded, kept>>

(* The budget of 10 s is used up.                                           *)
Exceed ==
  /\ Searching /\ exceeded' = TRUE
  /\ UNCHANGED <<finder, price, valid, pass, start, path, next, found, all, kept>>

-----------------------------------------------------------------------------
(* finalizeEnumeratedCycles.                                                *)
Bonus(cycle) == IF cycle[1].in \in Majors THEN MajorBonus ELSE 0
FeeScore(cycle) ==
  LET Fee(e) == FeeOf[e.pool] IN SumOver(cycle, Fee) + HopPenalty[Len(cycle)] - Bonus(cycle)
SpotScore(cycle) == SpotWeight(cycle) + HopPenalty[Len(cycle)] - Bonus(cycle)

(* dedupeScoredCycles: of the cycles over the same pools the first of those *)
(* with the best score, by fees alone, stays, at the place of the first.    *)
Deduped(cycles) ==
  LET Same(i) == {j \in DOMAIN cycles : RouteKey(cycles[j]) = RouteKey(cycles[i])}
      Best(i) == CHOOSE j \in Same(i) : \A k \in Same(i) :
                   \/ FeeScore(cycles[j]) < FeeScore(cycles[k])
                   \/ FeeScore(cycles[j]) = FeeScore(cycles[k]) /\ j <= k
      firsts == SelectSeq([i \in DOMAIN cycles |-> i], LAMBDA i : \A j \in Same(i) : i <= j) IN
  [n \in DOMAIN firsts |-> cycles[Best(firsts[n])]]

(* A stable sort by score.                                                  *)
Sorted(cycles) ==
  LET Before(i, j) == \/ SpotScore(cycles[i]) < SpotScore(cycles[j])
                      \/ SpotScore(cycles[i]) = SpotScore(cycles[j]) /\ i < j
      Rank(i) == Cardinality({j \in DOMAIN cycles : Before(j, i)}) + 1 IN
  [n \in DOMAIN cycles |-> cycles[CHOOSE i \in DOMAIN cycles : Rank(i) = n]]

OfHops(cycles, hops) == SelectSeq(cycles, LAMBDA c : Len(c) = hops)
QuotaSum == FoldFunction(LAMBDA a, b : a + b, 0, Quotas)
Quota(hops) ==
  IF QuotaSum > CycleCap THEN (Quotas[hops] * CycleCap) \div QuotaSum ELSE Quotas[hops]

Take(s, n) == SubSeq(s, 1, Min({n, Len(s)}))
(* applyHopStratifiedCap: first the quota of each length, then the best.    *)
Capped(cycles) ==
  LET quota == FoldLeft(LAMBDA s, h : s \o Take(OfHops(Sorted(cycles), h), Quota(h)),
                        <<>>, SetToSortSeq(DOMAIN Quotas, <))
      first == Take(quota, CycleCap)
      rest == SelectSeq(Sorted(cycles), LAMBDA c : c \notin Range(first)) IN
  IF Len(cycles) <= CycleCap THEN Sorted(cycles)
  ELSE Sorted(first \o Take(rest, CycleCap - Len(first)))

Finalize ==
  /\ pass > Len(Passes) /\ ~kept.done
  /\ kept' = [done |-> TRUE, cycles |-> Capped(Deduped(all))]
  /\ UNCHANGED <<finder, price, valid, pass, start, path, next, found, all, exceeded>>

-----------------------------------------------------------------------------
(* collectBellmanFordCycles.                                                *)
Tokens == UNION {Range(PoolTokens[p]) : p \in Range(RoutingPools)}
Far == 1000
NoEdge == [pool |-> "none", in |-> "none", out |-> "none", up |-> FALSE]

(* The edges, in the order of the adjacency.                                *)
WeightedEdges ==
  FlattenSeq([i \in DOMAIN TokenOrder |-> Adjacency(TokenOrder[i])])
Sources ==
  LET majors == SelectSeq(TokenOrder, LAMBDA t : t \in Majors) IN
  IF majors = <<>> THEN Take(TokenOrder, 1) ELSE majors

Relaxed(acc, e) ==
  IF acc.dist[e.in] < Far /\ acc.dist[e.in] + Weight(e) < acc.dist[e.out]
  THEN [acc EXCEPT !.dist[e.out] = acc.dist[e.in] + Weight(e), !.pred[e.out] = e]
  ELSE acc
Rounds(source, hops) ==
  FoldLeft(LAMBDA acc, i : FoldLeft(Relaxed, acc, WeightedEdges),
           [dist |-> [t \in Tokens |-> IF t = source THEN 0 ELSE Far],
            pred |-> [t \in Tokens |-> NoEdge]],
           [i \in 1..hops |-> i])

(* From u back along the predecessors, to the first token met twice.        *)
Repeated(pred, u) ==
  FoldLeft(LAMBDA acc, i : IF acc.at = "none" \/ acc.at \in acc.seen THEN acc
                           ELSE [at |-> pred[acc.at].in, seen |-> acc.seen \cup {acc.at}],
           [at |-> u, seen |-> {}], [i \in 1..(Cardinality(Tokens) + 1) |-> i]).at
(* The edges back from there, until it is met again.                        *)
Traced(pred, from, hops) ==
  FoldLeft(LAMBDA acc, i : IF acc.over \/ pred[acc.at] = NoEdge THEN acc
                           ELSE [at |-> pred[acc.at].in, edges |-> <<pred[acc.at]>> \o acc.edges,
                                 over |-> pred[acc.at].in = from],
           [at |-> from, edges |-> <<>>, over |-> FALSE], [i \in 1..(hops + 1) |-> i]).edges

(* The edges that would still shorten a distance each lead to a cycle; of   *)
(* those over the same pools the first is taken.                            *)
FoundFrom(source, hops, cycles) ==
  LET r == Rounds(source, hops)
      Shortens(e) == r.dist[e.in] < Far /\ r.dist[e.in] + Weight(e) < r.dist[e.out] IN
  FoldLeft(LAMBDA acc, e :
             LET from == Repeated(r.pred, e.in)
                 cycle == Traced(r.pred, from, hops) IN
             IF from = "none" \/ Len(cycle) \notin 2..hops THEN acc
             ELSE IF cycle[1].in # Last(cycle).out \/ \E c \in Range(acc) : RouteKey(c) = RouteKey(cycle)
             THEN acc ELSE Append(acc, cycle),
           cycles, SelectSeq(WeightedEdges, Shortens))
BellmanFord(hops) ==
  FoldLeft(LAMBDA cycles, source : FoundFrom(source, hops, cycles), <<>>, Sources)

BellmanFordPass ==
  /\ finder = "bellman-ford" /\ pass <= Len(Passes)
  /\ all' = all \o Take(BellmanFord(Passes[pass].maxHops), Passes[pass].maxCycles)
  /\ pass' = pass + 1
  /\ UNCHANGED <<finder, price, valid, start, path, next, found, exceeded, kept>>

CycleFinderNext ==
  TryEdge \/ Backtrack \/ NextStart \/ NextPass \/ Exceed \/ Finalize \/ BellmanFordPass

CycleFinderSpec == CycleFinderInit /\ [][CycleFinderNext]_finderVars

-----------------------------------------------------------------------------
CycleFinderTypeOK ==
  /\ price \in [Range(RoutingPools) -> Prices] /\ valid \subseteq Range(RoutingPools)
  /\ pass \in 1..(Len(Passes) + 1) /\ start \in Nat \ {0} /\ next \in Seq(Nat \ {0})
  /\ \A c \in Range(found \o all \o kept.cycles) \cup {path} : Range(c) \subseteq Range(Edges)
  /\ exceeded \in BOOLEAN /\ kept.done \in BOOLEAN

(* The reference: the cycles of 2 to n edges, from each start token.        *)
IsCycle(c) ==
  /\ \A i \in 1..(Len(c) - 1) : c[i].out = c[i + 1].in
  /\ Last(c).out = c[1].in
  /\ Cardinality({c[i].in : i \in DOMAIN c}) = Len(c)
  /\ RouteKey(c) \subseteq valid
IsSimple(c) == IsCycle(c) /\ Cardinality(RouteKey(c)) = Len(c)
SimpleCycles(n) == {c \in UNION {[1..k -> Range(Edges)] : k \in 2..n} : IsSimple(c)}
MaxHops == Max({Passes[i].maxHops : i \in DOMAIN Passes})

(* What a search returns is what it looks for.  Depth-first, these are      *)
(* cycles over distinct pools and tokens, also when it is cut short, and    *)
(* unless it is all that the passes allow; Bellman-Ford walks its           *)
(* predecessors back along cycles, of negative weight whatever was relaxed  *)
(* since.                                                                   *)
EveryCycleFound ==
  \/ /\ finder = "dfs"
     /\ \A c \in Range(found \o all) : IsSimple(c)
     /\ (kept.done /\ ~exceeded /\ \A i \in DOMAIN Passes : Len(all) < Passes[i].maxCycles) =>
          Range(all) = SimpleCycles(MaxHops)
  \/ finder = "bellman-ford" /\ \A c \in Range(all) : IsCycle(c) /\ SpotWeight(c) < 0
=============================================================================
