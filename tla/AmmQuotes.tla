-------------------------------- MODULE AmmQuotes --------------------------------
(***************************************************************************)
(* What the bot expects a pool to pay (src/src/core/math): constant product *)
(* pools (uniswap_v2.ts), Curve's stable pools (curve.ts), Balancer's       *)
(* weighted pools (balancer.ts) and DODO's (dodo.ts), in integers, as       *)
(* simulateHop (src/src/pipeline/simulator.ts) asks.  Trade applies quotes  *)
(* to a pool one after another, the way the next pending transaction, the   *)
(* next hop or the next block finds it.  A pool has two tokens here.        *)
(***************************************************************************)
EXTENDS Integers, Sequences, FiniteSets, SequencesExt, FiniteSetsExt

CONSTANTS
  One,                        \* the unit of fixed-point numbers, 10^18 in the code
  APrecision,                 \* of Curve's amplification coefficient
  maxInRatio,                 \* MAX_IN_RATIO, of One
  expTail,                    \* exp stops after a term below it
  Pools,                      \* bound: pools, see AmmQuotesTypeOK
  Amounts, MaxTrades,         \* bounds: what is sold, and how often
  Iterations                  \* bound: of Newton's methods and of the series

(* What is assumed of them. *)
AmmQuotesConstants ==
  /\ One \in Nat \ {0} /\ APrecision \in Nat \ {0} /\ maxInRatio \in 1..One
  /\ expTail \in Nat /\ Iterations \in Nat \ {0} /\ MaxTrades \in Nat
  /\ Amounts \subseteq Nat \ {0}

VARIABLES
  pool,                       \* the pool, its balances included
  earned,                     \* of each token, what the trader got less what it gave
  trades

vars == <<pool, earned, trades>>

Init == pool \in Pools /\ earned = <<0, 0>> /\ trades = 0

Other(i) == 3 - i
CeilDiv(a, b) == (a + b - 1) \div b
(* The steps of a loop that ends after at most Iterations.                  *)
Loop == [i \in 1..Iterations |-> i]

-----------------------------------------------------------------------------
(* simulateV2Swap, the fee being out of One.                                *)
V2Out(p, i, x) ==
  LET paid == x * (One - p.fee) IN
  (paid * p.bal[Other(i)]) \div (p.bal[i] * One + paid)

-----------------------------------------------------------------------------
(* Newton's method until two steps differ by one at most.                   *)
Newton(StepFrom(_), start) ==
  LET Next1(s, i) ==
        LET t == s IN
        IF t.done THEN t
        ELSE LET n == StepFrom(t.x) IN [x |-> n, done |-> n - t.x \in -1..1] IN
  FoldLeft(Next1, [x |-> start, done |-> FALSE], Loop).x

(* toXp.                                                                    *)
Scaled(p, i) == (p.bal[i] * p.rates[i]) \div One
Ann(p) == p.A * 2

(* getD.                                                                    *)
Invariant(p) ==
  LET sum == Scaled(p, 1) + Scaled(p, 2)
      DP(d) == (((d * d) \div (Scaled(p, 1) * 2)) * d) \div (Scaled(p, 2) * 2)
      StepFrom(d) ==
        LET dp == DP(d) IN
        (((Ann(p) * sum) \div APrecision + dp * 2) * d)
          \div (((Ann(p) - APrecision) * d) \div APrecision + 3 * dp) IN
  Newton(StepFrom, sum)

(* getY: the other balance when one is x.                                   *)
BalanceAt(p, x, d) ==
  LET c == (((d * d) \div (x * 2)) * d * APrecision) \div (Ann(p) * 2)
      b == x + (d * APrecision) \div Ann(p)
      StepFrom(y) == (y * y + c) \div (2 * y + b - d) IN
  Newton(StepFrom, d)

(* Mutation: The unit that pays for rounding is not kept.                   *)
CurveOutRoundedUp(p, i, x) ==
  LET paid == Scaled(p, i) + (x * p.rates[i]) \div One
      dy == Scaled(p, Other(i)) - BalanceAt(p, paid, Invariant(p)) + 1 IN
  IF dy <= 0 THEN 0 ELSE ((dy - (dy * p.fee) \div One) * One) \div p.rates[Other(i)]

(* getCurveAmountOut: one unit of the output is left to rounding.           *)
CurveOut(p, i, x) ==
  LET paid == Scaled(p, i) + (x * p.rates[i]) \div One
      dy == Scaled(p, Other(i)) - BalanceAt(p, paid, Invariant(p)) - 1 IN
  IF dy <= 0 THEN 0 ELSE ((dy - (dy * p.fee) \div One) * One) \div p.rates[Other(i)]

-----------------------------------------------------------------------------
(* ln of a number of 1 to 2, and exp, by their series.                      *)
LnAboveOne(a) ==
  LET u == a - One
      Term(s, i) ==
        LET t == s IN
        IF t.term \div i = 0 THEN [t EXCEPT !.term = 0]
        ELSE [term |-> (t.term * u) \div One,
              sum |-> IF i % 2 = 1 THEN t.sum + t.term \div i ELSE t.sum - t.term \div i] IN
  FoldLeft(Term, [term |-> u, sum |-> 0], Loop).sum
Exp(x) ==
  LET Term(s, i) ==
        LET t == s IN
        IF t.term < expTail THEN t
        ELSE LET n == (t.term * x) \div (One * i) IN [term |-> n, sum |-> t.sum + n] IN
  FoldLeft(Term, [term |-> One, sum |-> One], Loop).sum

(* powDown, of a base of 1 at most: both end in a division by the inverse.  *)
Power(base, exponent) ==
  LET ln == LnAboveOne((One * One) \div base) IN
  IF base = One THEN One
  ELSE LET e == (exponent * ln) \div One IN
       IF e = 0 THEN One ELSE (One * One) \div Exp(e)

(* getBalancerAmountOut.                                                    *)
WeightedOut(p, i, x) ==
  LET paid == (x * (One - p.fee)) \div One
      base == (p.bal[i] * One) \div (p.bal[i] + paid)
      exponent == (p.weights[i] * One) \div p.weights[Other(i)] IN
  IF x > (p.bal[i] * maxInRatio) \div One THEN 0
  ELSE (p.bal[Other(i)] * (One - Power(base, exponent))) \div One

-----------------------------------------------------------------------------
(* DODO's pools: token 1 is the base and token 2 the quote.                 *)
MulFloor(a, b) == (a * b) \div One
DivCeil(a, b) == CeilDiv(a * One, b)
Root(v) == CHOOSE r \in 0..v : r * r <= v /\ v < (r + 1) * (r + 1)

(* generalIntegrate: what moving a reserve of target v0 from v1 down to v2  *)
(* costs at price i.                                                        *)
GeneralIntegrate(v0, v1, v2, i, k) ==
  LET penalty == MulFloor(k, (v0 * v0 * One) \div (v1 * v2)) IN
  IF k = 0 THEN (i * (v1 - v2)) \div One
  ELSE ((One - k + penalty) * i * (v1 - v2)) \div (One * One)

(* solveQuadraticFunctionForTrade: how far delta moves the reserve v1 whose *)
(* target is v0.                                                            *)
SolveQuadratic(v0, v1, delta, i, k) ==
  LET part == (k * v0 * v0) \div v1 + (i * delta) \div One
      whole == (One - k) * v1
      b == IF whole >= part THEN (whole - part) \div One ELSE (part - whole) \div One
      root == Root(b * b + MulFloor((One - k) * 4, MulFloor(k, v0) * v0))
      num == IF whole >= part THEN root + b ELSE root - b
      v2 == DivCeil(num, (One - k) * 2)
      temp == (i * delta * v1) \div (v0 * v0) IN
  IF k = 0 THEN Min({MulFloor(i, delta), v1})
  ELSE IF k = One THEN (v1 * temp) \div (temp + One)
  ELSE IF num <= 0 \/ v2 > v1 THEN 0 ELSE v1 - v2

(* getDodoGrossAmountOut, on the side that sells token s: "one" is the      *)
(* target ratio, "back" the state from which selling s leads back to it.    *)
DodoGross(p, s, x) ==
  LET o == Other(s)
      price == IF s = 1 THEN p.i ELSE (One * One) \div p.i
      toOne == p.target[s] - p.bal[s]
      received == p.bal[o] - p.target[o] IN
  IF p.bal = p.target THEN SolveQuadratic(p.target[o], p.target[o], x, price, p.k)
  ELSE IF toOne > 0 /\ received >= 0
  THEN IF x < toOne
       THEN Min({GeneralIntegrate(p.target[s], p.bal[s] + x, p.bal[s], price, p.k), received})
       ELSE IF x = toOne THEN received
       ELSE received + SolveQuadratic(p.target[o], p.target[o], x - toOne, price, p.k)
  ELSE SolveQuadratic(p.target[o], p.bal[o], x, price, p.k)

(* getDodoAmountOut.                                                        *)
DodoOut(p, s, x) ==
  LET gross == DodoGross(p, s, x) IN gross - MulFloor(gross, p.fee)

-----------------------------------------------------------------------------
(* simulateHop.                                                             *)
AmountOut(p, i, x) ==
  CASE p.kind = "V2" -> V2Out(p, i, x)
    [] p.kind = "CURVE" -> CurveOut(p, i, x)
    [] p.kind = "BALANCER" -> WeightedOut(p, i, x)
    [] p.kind = "DODO" -> DodoOut(p, i, x)

(* A trade gives the pool x of token i for what was quoted.                 *)
Trade ==
  \E i \in {1, 2}, x \in Amounts :
    LET out == AmountOut(pool, i, x) IN
    /\ trades < MaxTrades /\ out > 0 /\ out < pool.bal[Other(i)]
    /\ pool' = [pool EXCEPT !.bal[i] = @ + x, !.bal[Other(i)] = @ - out]
    /\ earned' = [earned EXCEPT ![i] = @ - x, ![Other(i)] = @ + out]
    /\ trades' = trades + 1

Next == Trade

Spec == Init /\ [][Next]_vars

-----------------------------------------------------------------------------
AmmQuotesTypeOK ==
  /\ pool.kind \in {"V2", "CURVE", "BALANCER", "DODO"}
  /\ pool.bal \in Seq(Nat \ {0}) /\ Len(pool.bal) = 2 /\ pool.fee \in 0..(One - 1)
  /\ earned \in Seq(Int) /\ Len(earned) = 2 /\ trades \in 0..MaxTrades

(* No sequence of quotes, whatever the rounding, lets a trader out with     *)
(* more of one token and no less of the other: a cycle through one pool     *)
(* never looks profitable.  (solveQuadraticFunctionForTrade rounds a        *)
(* dividend down, which may give a unit too much at each trade with DODO.)  *)
NothingForFree ==
  pool.kind # "DODO" => (earned[1] < 0 \/ earned[2] < 0 \/ earned = <<0, 0>>)

(* README: "Exact profit calculations for ... DODO vPMM".  At the target    *)
(* ratio the quote is, up to rounding, the largest amount whose cost by     *)
(* generalIntegrate the input pays.                                         *)
DodoQuotesIntegral ==
  (pool.kind = "DODO" /\ pool.bal = pool.target) =>
     \A x \in Amounts :
       LET cost(q) == GeneralIntegrate(pool.target[2], pool.target[2], pool.target[2] - q,
                                       (One * One) \div pool.i, pool.k)
           exact == Max({q \in 0..((pool.target[2] * 9) \div 10) : cost(q) <= x}) IN
       DodoGross(pool, 1, x) \in (exact - 3)..(exact + 3)
=============================================================================
