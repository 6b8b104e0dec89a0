------------------------------ MODULE AmountSearch ------------------------------
(***************************************************************************)
(* The amount to borrow for one cycle (evaluatePipeline,                    *)
(* src/src/pipeline/pipeline.ts): a closed form for cycles of constant      *)
(* product pools (src/src/core/math/uniswap_v2_solver.ts), probes and       *)
(* Brent's method (hybrid_solver.ts) for the others, and the profit after   *)
(* slippage, risk, flash loan fee and gas (src/src/core/assessment) that    *)
(* decides.  A hop of another protocol is a line with a cap, and how deep   *)
(* its pool is said to be is another matter.  Caps on the return of a cycle *)
(* and on the value of a hop, there against wrong rates of tokens, are left *)
(* out: one token is the numeraire.                                         *)
(***************************************************************************)
EXTENDS Integers, Sequences, FiniteSets, Folds, SequencesExt, FiniteSetsExt

CONSTANTS
  Bps,                        \* BPS_DENOM, 10000 in the code
  feeNumerator,               \* of a V2 pool, of Bps
  Cycles,                     \* bound: the hops [kind, in, out, depth] of cycles
  defaultCapacity,            \* of a cycle whose pools say nothing of their depth
  lowPart, highPart,          \* of the capacity: a 5000th and a tenth in the code
  lowOfHigh,                  \* a hundredth in the code
  minEconomic, maxFlashLoan,  \* one MATIC, and maxFlashLoanUsd
  slippageChoices,            \* bound: options.slippageBps
  defaultSlippageBps,         \* of computeProfit
  revertRiskBps, flashFeeBps, gasCost, minProfit,
  maxImpactBps,               \* maxPriceImpactThreshold
  maxIters,
  MaxLoss                     \* what rounding and the margin of the closed form may cost

(* What is assumed of them. *)
AmountSearchConstants ==
  /\ {lowPart, highPart, lowOfHigh} \subseteq Nat \ {0} /\ feeNumerator \in 1..(Bps - 1)
  /\ {defaultCapacity, minEconomic, maxFlashLoan} \subseteq Nat
  /\ {gasCost, minProfit, maxImpactBps, maxIters, MaxLoss} \subseteq Nat
  /\ slippageChoices \cup {defaultSlippageBps, revertRiskBps, flashFeeBps} \subseteq 0..Bps

VARIABLES
  hops, slippageBps,
  phase,                      \* "start", "brent", "final", "pruned" or "promoted"
  brent,                      \* the state of solveBrentOptimal
  bestAmount

vars == <<hops, slippageBps, phase, brent, bestAmount>>

NoBrent == [a |-> 0, b |-> 0, x |-> 0, w |-> 0, v |-> 0, d |-> 0, e |-> 0, iter |-> 0, cache |-> <<>>]

Init ==
  /\ hops \in Cycles /\ slippageBps \in slippageChoices
  /\ phase = "start" /\ brent = NoBrent /\ bestAmount = 0

-----------------------------------------------------------------------------
(* getDynamicSearchBounds: parts of the depth of the shallowest pool, as far *)
(* as that is known, between what pays for its gas and what may be borrowed. *)
(* The lower bound goes first, even past the capacity.                       *)
Depth(hop) == IF hop.kind = "V2" THEN hop.in ELSE hop.depth
Capacity ==
  LET known == {Depth(hop) : hop \in {h \in Range(hops) : Depth(h) > 0}}
  IN IF known = {} THEN defaultCapacity ELSE Min(known)

Bounds ==
  LET high == Min({Capacity \div highPart, maxFlashLoan})
      low == Max({Capacity \div lowPart, minEconomic, high \div lowOfHigh, 1})
  IN [low |-> low, high |-> Max({high, low + 1})]
Low == Bounds.low
High == Bounds.high

-----------------------------------------------------------------------------
(* Division that rounds towards zero.                                       *)
Quotient(n, d) == IF n >= 0 THEN n \div d ELSE -((-n) \div d)

(* getV2AmountOut.                                                          *)
V2AmountOut(x, hop) ==
  (x * feeNumerator * hop.out) \div (hop.in * Bps + x * feeNumerator)
HopOut(x, hop) ==
  IF hop.kind = "V2" THEN V2AmountOut(x, hop) ELSE Min({(x * hop.out) \div hop.in, hop.out})
(* simulateRoute.                                                           *)
RouteOut(x) == FoldLeft(HopOut, x, hops)
Gross(x) == RouteOut(x) - x

(* revertRiskBps: more for every hop after the second, 30% at most.         *)
RevertBps == Min({revertRiskBps + (Max({0, Len(hops) - 2}) * 2 * Bps) \div 100, (30 * Bps) \div 100})
(* computeProfitCore, in the numeraire.                                     *)
Net(x, slippage) ==
  LET gross == Gross(x)
      share(bps) == IF gross > 0 THEN (gross * bps) \div Bps ELSE 0 IN
  gross - share(slippage) - share(RevertBps) - (x * flashFeeBps) \div Bps - gasCost
Searched(x) == Net(x, slippageBps)

-----------------------------------------------------------------------------
(* bigintSqrt: the root, rounded down, that Newton's method ends with.      *)
Sqrt(v) == CHOOSE r \in 0..46339 : r * r <= v /\ v < (r + 1) * (r + 1)

(* solveV2Optimal: the hops composed to A x / (B + C x), after a margin of  *)
(* one basis point on the reserves.                                         *)
Margin(reserve) == (reserve * (Bps - 1)) \div Bps
(* Mutation: The composition forgets what passes through the second hop.    *)
ComposedOnlyLast(f, hop) ==
  LET b == (Margin(hop.in) * Bps) \div feeNumerator IN
  [A |-> Margin(hop.out) * f.A, B |-> b * f.B, C |-> f.A]
Composed(f, hop) ==
  LET b == (Margin(hop.in) * Bps) \div feeNumerator IN
  [A |-> Margin(hop.out) * f.A, B |-> b * f.B, C |-> b * f.C + f.A]
V2Optimal ==
  LET first == [A |-> Margin(hops[1].out), B |-> (Margin(hops[1].in) * Bps) \div feeNumerator, C |-> 1]
      f == FoldLeft(Composed, first, Tail(hops))
      root == Sqrt(f.A * f.B) IN
  IF root <= f.B THEN 0 ELSE (root - f.B) \div f.C

Clamped(x) == IF x > High THEN High ELSE IF x < Low THEN Low ELSE x

AllV2 == \A i \in DOMAIN hops : hops[i].kind = "V2"
SolveV2 ==
  /\ phase = "start" /\ AllV2
  /\ IF V2Optimal > 0 /\ Gross(Clamped(V2Optimal)) > 0
     THEN bestAmount' = Clamped(V2Optimal) /\ phase' = "final"
     ELSE phase' = "pruned" /\ UNCHANGED bestAmount
  /\ UNCHANGED <<hops, slippageBps, brent>>

-----------------------------------------------------------------------------
(* The other cycles: unless one of six amounts earns, the cycle is pruned.  *)
Probes ==
  {Low, High} \cup {x \in {Low + (High - Low) \div k : k \in {10, 5, 3, 2}} : Low < x /\ x < High}

(* cachedEvaluate.                                                          *)
Evaluated(cache, xs) == [x \in DOMAIN cache \cup xs |-> IF x \in DOMAIN cache THEN cache[x] ELSE Searched(x)]

(* solveBrentOptimal begins in the middle.                                  *)
Middle(a, b) == a + (b - a) \div 2
StartBrent ==
  /\ phase = "start" /\ ~AllV2
  /\ IF \E x \in Probes : Gross(x) > 0
     THEN /\ phase' = "brent"
          /\ LET m == Middle(Low, High) IN
              brent' = [NoBrent EXCEPT !.a = Low, !.b = High, !.x = m, !.w = m, !.v = m,
                                       !.cache = Evaluated(<<>>, {m})]
     ELSE phase' = "pruned" /\ UNCHANGED brent
  /\ UNCHANGED <<hops, slippageBps, bestAmount>>

Tolerance == Max({High \div 1000, 1})
BrentGoesOn == brent.iter < maxIters /\ brent.b - brent.a > Tolerance

(* The step: parabolic when that is acceptable, golden section otherwise.   *)
Step ==
  LET s == brent
      t1 == (s.x - s.w) * (s.cache[s.x] - s.cache[s.v])
      t2 == (s.x - s.v) * (s.cache[s.x] - s.cache[s.w])
      q0 == 2 * (t2 - t1)
      p0 == (s.x - s.v) * t2 - (s.x - s.w) * t1
      p == IF q0 > 0 THEN -p0 ELSE p0
      q == IF q0 > 0 THEN q0 ELSE -q0
      golden == IF s.x >= Middle(s.a, s.b) THEN s.a - s.x ELSE s.b - s.x IN
  IF /\ s.e > Tolerance /\ q > 0 /\ p > q * (s.a - s.x) /\ p < q * (s.b - s.x)
     /\ (IF p < 0 THEN -p ELSE p) < (q * s.e) \div 2
  THEN [e |-> s.d, d |-> Quotient(p, q)]
  ELSE [e |-> golden, d |-> Quotient(golden * 382, 1000)]

NextProbe(d) ==
  LET u == brent.x + d IN
  Clamped(IF u - brent.a < Tolerance THEN brent.a + Tolerance
          ELSE IF brent.b - u < Tolerance THEN brent.b - Tolerance ELSE u)

(* s after u, which it has in its cache.                                    *)
Advanced(s, u) ==
  LET f == s.cache
      right == [s EXCEPT !.a = IF u >= s.x THEN s.x ELSE @, !.b = IF u >= s.x THEN @ ELSE s.x]
      left == [s EXCEPT !.a = IF u < s.x THEN u ELSE @, !.b = IF u < s.x THEN @ ELSE u] IN
  IF f[u] >= f[s.x] THEN [right EXCEPT !.v = s.w, !.w = s.x, !.x = u]
  ELSE IF f[u] >= f[s.w] \/ s.w = s.x THEN [left EXCEPT !.v = s.w, !.w = u]
  ELSE IF f[u] >= f[s.v] \/ s.v \in {s.x, s.w} THEN [left EXCEPT !.v = u]
  ELSE left

BrentStep ==
  /\ phase = "brent" /\ BrentGoesOn
  /\ \E step \in {Step} : \E u \in {NextProbe(step.d)} :
       brent' = Advanced([brent EXCEPT !.d = step.d, !.e = step.e, !.iter = @ + 1,
                                       !.cache = Evaluated(@, {u})], u)
  /\ UNCHANGED <<hops, slippageBps, phase, bestAmount>>

(* The ends are compared at last.  evaluatePipeline takes the best of all    *)
(* amounts it has evaluated, which BestAmountChosen shows this one to be.   *)
BrentEnds ==
  /\ phase = "brent" /\ ~BrentGoesOn
  /\ brent' = [brent EXCEPT !.cache = Evaluated(@, {Low, High})]
  /\ LET f == brent'.cache IN
       bestAmount' = IF f[Low] > f[brent.x] /\ f[Low] >= f[High] THEN Low
                     ELSE IF f[High] > f[brent.x] /\ f[High] > f[Low] THEN High ELSE brent.x
  /\ phase' = "final"
  /\ UNCHANGED <<hops, slippageBps>>

-----------------------------------------------------------------------------
(* The last simulation: no hop moves its price too far, and computeProfit,  *)
(* which is not given the configured slippage, finds a profit.              *)
AmountAt(i) == FoldLeft(HopOut, bestAmount, SubSeq(hops, 1, i - 1))
ImpactOK(i) ==
  hops[i].kind = "V2" =>
    LET x == AmountAt(i) spot == hops[i].out * x realized == HopOut(x, hops[i]) * hops[i].in IN
    (spot - realized) * 100 <= ((maxImpactBps * 100) \div Bps) * spot
Final ==
  /\ phase = "final"
  /\ phase' = IF /\ \A i \in DOMAIN hops : ImpactOK(i)
                 /\ Net(bestAmount, defaultSlippageBps) >= minProfit
              THEN "promoted" ELSE "pruned"
  /\ UNCHANGED <<hops, slippageBps, brent, bestAmount>>

Next == SolveV2 \/ StartBrent \/ BrentStep \/ BrentEnds \/ Final

Spec == Init /\ [][Next]_vars

-----------------------------------------------------------------------------
AmountSearchTypeOK ==
  /\ hops \in Cycles /\ slippageBps \in slippageChoices
  /\ phase \in {"start", "brent", "final", "pruned", "promoted"}
  /\ bestAmount \in {0} \cup (Low..High) /\ DOMAIN brent.cache \subseteq Low..High
  /\ brent.iter \in 0..maxIters
  /\ 0 < Low /\ Low < High

(* The amount that is chosen earns the most.  The closed form for V2 pools  *)
(* loses at most MaxLoss to any other amount within the bounds; Brent's     *)
(* method gives the best of all it has tried, the ends of the range         *)
(* among them.                                                              *)
BestAmountChosen ==
  phase = "final" =>
    IF AllV2 THEN \A x \in Low..High : Gross(x) <= Gross(bestAmount) + MaxLoss
    ELSE \A x \in DOMAIN brent.cache : brent.cache[x] <= brent.cache[bestAmount]
=============================================================================
