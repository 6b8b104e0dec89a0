-------------------------- MODULE ConcentratedLiquidity --------------------------
(***************************************************************************)
(* What the bot expects a Uniswap V3 or V4 pool to pay (simulateV3Swap in   *)
(* src/src/core/math/uniswap_v3.ts, uniswap_v4.ts, swap_math.ts,            *)
(* sqrt_price_math.ts): the walk from one initialized tick to the next,     *)
(* with the ticks of a window around the price when they are loaded and     *)
(* with none otherwise.  A trade moves the pool; the next refresh of its    *)
(* state forgets the ticks, and the tick fetcher loads a window again.      *)
(***************************************************************************)
EXTENDS Integers, Sequences, FiniteSets, SequencesExt, FiniteSetsExt

CONSTANTS
  Q,                          \* the unit of prices, 2^96 in the code
  One,                        \* the unit of fees, 10^6 in the code
  SqrtRatioAtTick,            \* bound: the square root of the price at each tick
  Pools,                      \* bound: pools, see ConcentratedLiquidityTypeOK
  Amounts, MaxTrades,         \* bounds: what is sold, and how often
  MaxTickMove,                \* MAX_CUMULATIVE_TICK_MOVE
  Window,                     \* how far from the tick ticks are loaded
  MaxSteps                    \* MAX_ITERATIONS

(* What is assumed of them. *)
ConcentratedLiquidityConstants ==
  /\ {Q, One, MaxSteps} \subseteq Nat \ {0} /\ {MaxTickMove, Window, MaxTrades} \subseteq Nat
  /\ Amounts \subseteq Nat \ {0}
  /\ \A s, t \in DOMAIN SqrtRatioAtTick : s < t => SqrtRatioAtTick[s] < SqrtRatioAtTick[t]

VARIABLES
  pool,                       \* of the chain: price, tick, liquidity, net of each tick, balances
  loaded,                     \* the initialized ticks the bot knows
  earned,                     \* of each token, what the trader got less what it gave
  trades

vars == <<pool, loaded, earned, trades>>

Init == pool \in Pools /\ loaded = {} /\ earned = <<0, 0>> /\ trades = 0

Ticks == DOMAIN SqrtRatioAtTick
MinTick == Min(Ticks)
MaxTick == Max(Ticks)
Initialized == DOMAIN pool.net
CeilDiv(a, b) == (a + b - 1) \div b

-----------------------------------------------------------------------------
(* getAmount0Delta and getAmount1Delta, between the prices a < b.           *)
Amount0(a, b, liquidity, up) ==
  IF up THEN CeilDiv(CeilDiv(liquidity * Q * (b - a), b), a)
  ELSE ((liquidity * Q * (b - a)) \div b) \div a
Amount1(a, b, liquidity, up) ==
  IF up THEN CeilDiv(liquidity * (b - a), Q) ELSE (liquidity * (b - a)) \div Q

(* getNextSqrtPriceFromInput: down when token 0 is sold, up for token 1.    *)
PriceAfterInput(price, liquidity, x, down) ==
  IF down THEN CeilDiv(liquidity * Q * price, liquidity * Q + x * price)
  ELSE price + (x * Q) \div liquidity

(* computeSwapStep, for an exact input.                                     *)
SwapStep(price, target, liquidity, left, fee, down) ==
  LET lessFee == (left * (One - fee)) \div One
      whole == IF down THEN Amount0(target, price, liquidity, TRUE)
               ELSE Amount1(price, target, liquidity, TRUE)
      reached == lessFee >= whole
      next == IF reached THEN target ELSE PriceAfterInput(price, liquidity, lessFee, down)
      in == IF reached THEN whole
            ELSE IF down THEN Amount0(next, price, liquidity, TRUE)
            ELSE Amount1(price, next, liquidity, TRUE) IN
  [price |-> next,
   spent |-> IF next = target THEN in + CeilDiv(in * fee, One - fee) ELSE left,
   out |-> IF down THEN Amount1(next, price, liquidity, FALSE)
           ELSE Amount0(price, next, liquidity, FALSE)]

-----------------------------------------------------------------------------
(* nextInitializedTickOptimized.                                            *)
Ahead(ticks, tick, down) == IF down THEN {t \in ticks : t <= tick} ELSE {t \in ticks : t > tick}
(* Without ticks the walk ends after tickStep ticks, within MaxTickMove.    *)
Synthetic(p, down) ==
  LET move == Min({p.tickStep, MaxTickMove}) IN
  IF down THEN Max({p.tick - move, MinTick}) ELSE Min({p.tick + move, MaxTick})
(* The tick that a step walks to, and its price within the limits.          *)
NextTick(p, ticks, tick, down) ==
  IF ticks = {} THEN Synthetic(p, down)
  ELSE IF down THEN Max(Ahead(ticks, tick, down)) ELSE Min(Ahead(ticks, tick, down))
Target(tick, down) ==
  IF down THEN Max({SqrtRatioAtTick[tick], SqrtRatioAtTick[MinTick] + 1})
  ELSE Min({SqrtRatioAtTick[tick], SqrtRatioAtTick[MaxTick] - 1})

(* getTickAtSqrtRatioInRange.                                               *)
TickAt(price, low, high) ==
  LET tick == Max({t \in Ticks : SqrtRatioAtTick[t] <= price}) IN Max({low, Min({high, tick})})

(* Mutation: Past the last loaded tick the walk goes on to the price limit. *)
ExhaustedNever(p, ticks, s, down) == FALSE
Exhausted(p, ticks, s, down) == ticks # {} /\ Ahead(ticks, s.tick, down) = {}

(* One turn of the loop of simulateV3Swap.                                  *)
Walk(p, ticks, s, down) ==
  IF s.stop \/ s.left = 0 THEN s
  ELSE IF Exhausted(p, ticks, s, down) THEN [s EXCEPT !.stop = TRUE, !.exhausted = TRUE]
  ELSE
  LET next == IF ticks # {} /\ Ahead(ticks, s.tick, down) = {}
              THEN (IF down THEN MinTick ELSE MaxTick) ELSE NextTick(p, ticks, s.tick, down)
      step == SwapStep(s.price, Target(next, down), s.liquidity, s.left, p.fee, down)
      after == [s EXCEPT !.price = step.price, !.left = @ - step.spent, !.out = @ + step.out]
      liquidity == IF next \notin ticks THEN 0
                   ELSE IF down THEN s.liquidity - p.net[next] ELSE s.liquidity + p.net[next] IN
  IF step.price # SqrtRatioAtTick[next]
  THEN [after EXCEPT !.stop = TRUE,
                     !.tick = IF down THEN TickAt(step.price, next, s.tick)
                              ELSE TickAt(step.price, s.tick, next - 1)]
  ELSE [after EXCEPT !.liquidity = liquidity, !.tick = IF down THEN next - 1 ELSE next,
                     !.stop = liquidity <= 0,
                     !.exhausted = ticks # {} /\ liquidity <= 0 /\ after.left > 0]

(* simulateV3Swap.                                                          *)
Simulate(p, ticks, x, down) ==
  LET start == [price |-> p.price, tick |-> p.tick, liquidity |-> p.liquidity, left |-> x,
                out |-> 0, stop |-> FALSE, exhausted |-> FALSE]
      Turn(s, i) == LET t == s IN Walk(p, ticks, t, down) IN
  IF p.liquidity <= 0 THEN [start EXCEPT !.stop = TRUE]
  ELSE FoldLeft(Turn, start, [i \in 1..MaxSteps |-> i])

(* simulateV4Swap: a pool with hooks, or one that would pay nothing, is     *)
(* rejected.                                                                *)
AmountOut(p, ticks, x, down) ==
  LET out == Simulate(p, ticks, x, down).out IN
  IF p.kind = "V4" /\ p.hooks THEN 0 ELSE Min({out, p.bal[IF down THEN 2 ELSE 1]})
Shallow(p, ticks, x, down) == ticks = {} \/ Simulate(p, ticks, x, down).exhausted

-----------------------------------------------------------------------------
(* The chain's pool, which knows all its ticks, trades at the same numbers; *)
(* its state is then fetched again, without ticks.                          *)
Sum(f) == FoldSet(LAMBDA t, s : s + f[t], 0, DOMAIN f)
Active(net, tick) == Sum([t \in {t \in DOMAIN net : t <= tick} |-> net[t]])
Trade ==
  \E down \in BOOLEAN, x \in Amounts :
    LET in == IF down THEN 1 ELSE 2
        s == Simulate(pool, Initialized, x, down) IN
    /\ trades < MaxTrades /\ AmountOut(pool, Initialized, x, down) > 0
    /\ pool' = [pool EXCEPT !.price = s.price, !.tick = s.tick,
                  !.liquidity = Active(pool.net, s.tick),
                  !.bal[in] = @ + x - s.left, !.bal[3 - in] = @ - s.out]
    /\ earned' = [earned EXCEPT ![in] = @ - (x - s.left), ![3 - in] = @ + s.out]
    /\ loaded' = {} /\ trades' = trades + 1

(* The tick fetcher loads the ticks within Window of the tick it has read.  *)
LoadTicks ==
  /\ loaded = {}
  /\ loaded' = {t \in Initialized : t - pool.tick \in -Window..Window}
  /\ UNCHANGED <<pool, earned, trades>>

Next == Trade \/ LoadTicks

Spec == Init /\ [][Next]_vars

-----------------------------------------------------------------------------
ConcentratedLiquidityTypeOK ==
  /\ pool.kind \in {"V3", "V4"} /\ pool.tick \in Ticks /\ pool.fee \in 0..(One - 1)
  /\ pool.price \in SqrtRatioAtTick[MinTick]..SqrtRatioAtTick[MaxTick]
  /\ pool.liquidity \in Nat /\ Initialized \subseteq Ticks /\ loaded \subseteq Initialized
  /\ earned \in Seq(Int) /\ Len(earned) = 2 /\ trades \in 0..MaxTrades

(* With a window of ticks around the price a quote never exceeds what the   *)
(* pool pays, and one that is not flagged shallow is exactly that.          *)
WindowNeverOverquotes ==
  loaded # {} =>
    \A down \in BOOLEAN, x \in Amounts :
      LET quote == AmountOut(pool, loaded, x, down) real == AmountOut(pool, Initialized, x, down) IN
      quote <= real /\ (Shallow(pool, loaded, x, down) \/ quote = real)
=============================================================================
