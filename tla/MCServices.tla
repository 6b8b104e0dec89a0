----------------------------- MODULE MCServices -----------------------------
(* The services and the algorithms around the execution path, each on a     *)
(* small instance of its own.  They share no state in this module: Init     *)
(* chooses one, whose variables are then x1, x2, ... in their order.  The   *)
(* mempool service, the calldata of routes and the cycle finder have their  *)
(* own variables: they are checked as they are proved.                      *)
EXTENDS MempoolService, RouteCalldata, CycleFinder, TLC

VARIABLES component, x1, x2, x3, x4, x5, x6, x7, x8, x9, x10, x11, x12

(* The small instances of the modules whose constants are functions.        *)
RatedTokens == [a |-> <<"x", "y">>, b |-> <<"w", "x">>, c |-> <<"m", "x", "y">>]
RatedKinds == [a |-> "v2", b |-> "v3", c |-> "curve"]
FinderPools == <<"p", "q", "r", "s">>
FinderTokens ==
  [p |-> <<"m", "x">>, q |-> <<"m", "x">>, r |-> <<"x", "y">>, s |-> <<"y", "m">>]
FinderFees == [p \in DOMAIN FinderTokens |-> 1]
FinderPasses == <<[maxHops |-> 2, maxCycles |-> 40], [maxHops |-> 3, maxCycles |-> 40]>>
FinderQuotas == [h \in 2..3 |-> 2]
FinderHopPenalty == <<0, 0, 0>>
V2Hops == [kind : {"V2"}, in : {60, 120, 200}, out : {60, 120, 200}]
OtherHops == [kind : {"other"}, in : {2, 3}, out : {4, 30}, depth : {0, 6, 150}]
TwoHopCycles == {<<h, g>> : h \in V2Hops, g \in V2Hops \cup OtherHops}
Balances == {<<100, 100>>, <<60, 150>>}
Dodo(bal, k) ==
  [kind |-> "DODO", bal |-> bal, target |-> <<100, 100>>, fee |-> 1, i |-> 1000, k |-> k]
QuotedPools ==
  [kind : {"V2"}, bal : Balances, fee : {1, 30}]
  \cup [kind : {"CURVE"}, bal : Balances, fee : {0, 30}, A : {60, 400},
        rates : {<<1000, 1000>>, <<2000, 1000>>}]
  \cup [kind : {"BALANCER"}, bal : Balances, fee : {0, 30},
        weights : {<<500, 500>>, <<800, 200>>}]
  \cup {Dodo(<<100, 100>>, k) : k \in {0, 100, 1000}}
  \cup {[Dodo(<<100, 100>>, k) EXCEPT !.i = 800] : k \in {0, 100, 1000}}
  \cup {Dodo(<<60, 140>>, 0), Dodo(<<60, 143>>, 100), Dodo(<<60, 167>>, 1000)}
MempoolKinds == ("a" :> "v2") @@ ("b" :> "v3") @@ ("c" :> "dodo")
HfHops == [c \in {"p", "q", "r"} |-> 4]
HfPools == ("p" :> {1, 4}) @@ ("q" :> {2, 4}) @@ ("r" :> {2, 3})
HfProfits == ("p" :> 3) @@ [c \in {"q", "r"} |-> 2]
RotatingLists ==
  {<<"s", "a", "b", "c", "d", "e", "f">>, <<"a", "b", "c", "d", "e", "f", "g", "h", "i", "j">>}
RotatingHops ==
  ("s" :> 2) @@ [c \in {"a", "b", "c", "d", "e", "f", "g", "h", "i", "j"} |-> 3]
RotatingPools == [c \in DOMAIN RotatingHops |-> IF c = "s" THEN {1} ELSE {2}]
Sale(kind, in, out, encodable) ==
  [kind |-> kind, in |-> in, out |-> out, encodable |-> encodable]
SaleKinds == {"V2", "V3", "KYBER", "DODO", "WOOFI", "CURVE", "BALANCER", "V4", "other"}
CalldataRoutes ==
  {<<Sale(k, 400, 600, TRUE), Sale(l, 300, 600, encodable)>> :
     k \in SaleKinds, l \in SaleKinds, encodable \in BOOLEAN}
  \cup {<<Sale("V2", 400, 600, TRUE), Sale(k, 300, 400, TRUE),
            Sale(l, 200, 300, TRUE)>> :
          k \in {"V2", "V3", "DODO"}, l \in {"V2", "V3", "V4"}}
SqrtRatios == [t \in -3..3 |-> <<42, 48, 56, 64, 74, 85, 98>>[t + 4]]
Positions ==
  {(-3 :> 120) @@ (3 :> -120),
   (-2 :> 150) @@ (-1 :> 60) @@ (1 :> -60) @@ (2 :> -150),
   (-1 :> 200) @@ (1 :> -120) @@ (2 :> -80)}
Ticked(kind, hooks, fee, step, net, liquidity) ==
  [kind |-> kind, hooks |-> hooks, price |-> 66, tick |-> 0, liquidity |-> liquidity,
   net |-> net, fee |-> fee, tickStep |-> step, bal |-> <<90, 90>>]
TickedPools ==
  {Ticked("V3", FALSE, fee, 1, net,
          IF -3 \in DOMAIN net THEN 120 ELSE IF -2 \in DOMAIN net THEN 210 ELSE 200) :
     fee \in {0, 30}, net \in Positions}
  \cup {Ticked("V4", hooks, 10, 4, (-3 :> 120) @@ (3 :> -120), 120) : hooks \in BOOLEAN}

CircuitBreaker == INSTANCE CircuitBreaker WITH
  Calls <- {"c1", "c2"}, failureThreshold <- 2, cooldown <- 2,
  halfOpenMaxSuccesses <- 2, MaxCount <- 4,
  state <- x1, failureCount <- x2, sinceFailure <- x3, consecutiveSuccesses <- x4,
  call <- x5, backendUp <- x6, hasuraOpen <- x7, indexerHealthy <- x8, current <- x9

TokenRates == INSTANCE TokenRates WITH
  Tokens <- {"w", "m", "x", "y"}, WMATIC <- "w", Majors <- {"m"}, MajorRate <- 2,
  Precision <- 1, MinValue <- 2, MaxRate <- 3, MaxRatio <- 1, MinLiquidity <- 2,
  PoolOrder <- <<"a", "b", "c">>, TokensOf <- RatedTokens, KindOf <- RatedKinds,
  Reserves <- {1, 2}, Quotes <- {2}, CycleSets <- {{"w", "x"}, {"m", "x", "y"}},
  FullRatesBelow <- 3, MaxRounds <- 4, MaxChanges <- 4,
  stateCache <- x1, cycleTokens <- x2, rates <- x3, ratesNeedFullRefresh <- x4,
  enrichTime <- x5, enrichKey <- x6, lfPhase <- x7, reorged <- x8, changes <- x9

AmountSearch == INSTANCE AmountSearch WITH
  Bps <- 10000, feeNumerator <- 9970, Cycles <- TwoHopCycles, defaultCapacity <- 120,
  lowPart <- 100, highPart <- 3, lowOfHigh <- 20, minEconomic <- 2,
  maxFlashLoan <- 60, slippageChoices <- {50, 1500}, defaultSlippageBps <- 50,
  revertRiskBps <- 500, flashFeeBps <- 5, gasCost <- 1, minProfit <- 1,
  maxImpactBps <- 4000, maxIters <- 8, MaxLoss <- 1,
  hops <- x1, slippageBps <- x2, phase <- x3, brent <- x4, bestAmount <- x5

AmmQuotes == INSTANCE AmmQuotes WITH
  One <- 1000, APrecision <- 100, maxInRatio <- 300, expTail <- 1,
  Pools <- QuotedPools, Amounts <- {1, 7, 20}, MaxTrades <- 3, Iterations <- 20,
  pool <- x1, earned <- x2, trades <- x3

HfTick == INSTANCE HfTick WITH
  Lists <- {<<"p", "q", "r">>}, Unrated <- {{}}, HopsOf <- HfHops, PoolsOf <- HfPools,
  KeyPools <- {4}, Earning <- {"p", "q", "r"}, SimCaps <- {3}, BucketShift <- 97,
  batchSize <- 2, dryRunConcurrency <- 2, cooldown <- 1, baseBackoff <- 1,
  maxBackoff <- 3, maxRecords <- 1, Ranked <- TRUE, ProfitOf <- HfProfits,
  GasCost <- 1, MaxTime <- 3, MaxTries <- 2,
  now <- x1, snapshot <- x2, filter <- x3, quarantine <- x4,
  recentRouteTimestamps <- x5, hfSimOffset <- x6, tick <- x7, turn <- x8,
  records <- x9, routeStats <- x10, oracleRateCache <- x11, tries <- x12

RotatingHfTick == INSTANCE HfTick WITH
  Lists <- RotatingLists, Unrated <- {{}, {"s"}}, HopsOf <- RotatingHops,
  PoolsOf <- RotatingPools, KeyPools <- {}, Earning <- {"s"}, SimCaps <- {2, 3},
  BucketShift <- 97, batchSize <- 2, dryRunConcurrency <- 1, cooldown <- 1,
  baseBackoff <- 1, maxBackoff <- 3, maxRecords <- 1, Ranked <- FALSE,
  ProfitOf <- [c \in {"s"} |-> 1], GasCost <- 1, MaxTime <- 1, MaxTries <- 1,
  now <- x1, snapshot <- x2, filter <- x3, quarantine <- x4,
  recentRouteTimestamps <- x5, hfSimOffset <- x6, tick <- x7, turn <- x8,
  records <- x9, routeStats <- x10, oracleRateCache <- x11, tries <- x12

ConcentratedLiquidity == INSTANCE ConcentratedLiquidity WITH
  Q <- 64, One <- 1000, SqrtRatioAtTick <- SqrtRatios, Pools <- TickedPools,
  Amounts <- {1, 9, 30, 60}, MaxTrades <- 3, MaxTickMove <- 2, Window <- 1,
  MaxSteps <- 8,
  pool <- x1, loaded <- x2, earned <- x3, trades <- x4

ASSUME ServicesAssumption ==
  /\ CircuitBreaker!CircuitBreakerConstants
  /\ TokenRates!TokenRatesConstants
  /\ AmountSearch!AmountSearchConstants
  /\ AmmQuotes!AmmQuotesConstants
  /\ HfTick!HfTickConstants
  /\ RotatingHfTick!HfTickConstants
  /\ ConcentratedLiquidity!ConcentratedLiquidityConstants
  /\ MempoolServiceConstants
  /\ RouteCalldataConstants
  /\ CycleFinderConstants

-----------------------------------------------------------------------------
(* The variables a component has no use for.                                *)
Unused12 == x12 = 0
Unused11 == x11 = 0 /\ Unused12
Unused10 == x10 = 0 /\ Unused11
Unused9 == x9 = 0 /\ Unused10
Unused8 == x8 = 0 /\ Unused9
Unused7 == x7 = 0 /\ Unused8
Unused6 == x6 = 0 /\ Unused7
Unused5 == x5 = 0 /\ Unused6
Unused4 == x4 = 0 /\ Unused5
Unused3 == x3 = 0 /\ Unused4
Unused2 == x2 = 0 /\ Unused3
Unused1 == x1 = 0 /\ Unused2

Kept12 == UNCHANGED x12
Kept11 == UNCHANGED <<x11, x12>>
Kept10 == UNCHANGED <<x10, x11, x12>>
Kept9 == UNCHANGED <<x9, x10, x11, x12>>
Kept8 == UNCHANGED <<x8, x9, x10, x11, x12>>
Kept7 == UNCHANGED <<x7, x8, x9, x10, x11, x12>>
Kept6 == UNCHANGED <<x6, x7, x8, x9, x10, x11, x12>>
Kept5 == UNCHANGED <<x5, x6, x7, x8, x9, x10, x11, x12>>
Kept4 == UNCHANGED <<x4, x5, x6, x7, x8, x9, x10, x11, x12>>
Kept3 == UNCHANGED <<x3, x4, x5, x6, x7, x8, x9, x10, x11, x12>>
Kept2 == UNCHANGED <<x2, x3, x4, x5, x6, x7, x8, x9, x10, x11, x12>>
Kept1 == UNCHANGED <<x1, x2, x3, x4, x5, x6, x7, x8, x9, x10, x11, x12>>

(* The candidate and the search that stay while another component takes its *)
(* steps.                                                                   *)
OneCandidate ==
  /\ route = CHOOSE r \in CandidateRoutes : TRUE
  /\ principal = CHOOSE p \in Principals : TRUE
  /\ slippage = CHOOSE s \in Slippages : TRUE
OneSearch ==
  /\ finder = CHOOSE f \in Finders : TRUE
  /\ price = CHOOSE p \in [Range(RoutingPools) -> Prices] : TRUE
  /\ valid = Range(RoutingPools)

Init ==
  /\ MempoolServiceInit
  /\ \/ component = "CircuitBreaker" /\ CircuitBreaker!Init /\ Unused10
     \/ component = "TokenRates" /\ TokenRates!Init /\ Unused10
     \/ component = "AmountSearch" /\ AmountSearch!Init /\ Unused6
     \/ component = "AmmQuotes" /\ AmmQuotes!Init /\ Unused4
     \/ component = "HfTick" /\ HfTick!Init
     \/ component = "RotatingHfTick" /\ RotatingHfTick!Init
     \/ component = "ConcentratedLiquidity" /\ ConcentratedLiquidity!Init /\ Unused5
     \/ component \in {"MempoolService", "RouteCalldata", "CycleFinder"} /\ Unused1
  /\ component # "RouteCalldata" => OneCandidate
  /\ component # "CycleFinder" => OneSearch
  /\ RouteCalldataInit
  /\ CycleFinderInit

Next ==
  /\ UNCHANGED component
  /\ \/ component = "CircuitBreaker" /\ CircuitBreaker!Next /\ Kept10
     \/ component = "TokenRates" /\ TokenRates!Next /\ Kept10
     \/ component = "AmountSearch" /\ AmountSearch!Next /\ Kept6
     \/ component = "AmmQuotes" /\ AmmQuotes!Next /\ Kept4
     \/ component = "HfTick" /\ HfTick!Next
     \/ component = "RotatingHfTick" /\ RotatingHfTick!Next
     \/ component = "ConcentratedLiquidity" /\ ConcentratedLiquidity!Next /\ Kept5
     \/ component = "MempoolService" /\ MempoolServiceNext /\ Kept1
     \/ component = "RouteCalldata" /\ RouteCalldataNext /\ Kept1
     \/ component = "CycleFinder" /\ CycleFinderNext /\ Kept1
  /\ component # "MempoolService" => UNCHANGED mempoolVars
  /\ component # "RouteCalldata" => UNCHANGED calldataVars
  /\ component # "CycleFinder" => UNCHANGED finderVars

vars ==
  <<component, x1, x2, x3, x4, x5, x6, x7, x8, x9, x10, x11, x12, mempoolVars,
    calldataVars, finderVars>>
Spec == Init /\ [][Next]_vars

-----------------------------------------------------------------------------
(* Every component keeps its types.                                         *)
TypeOK ==
  /\ component = "CircuitBreaker" => CircuitBreaker!CircuitBreakerTypeOK
  /\ component = "TokenRates" => TokenRates!TokenRatesTypeOK
  /\ component = "AmountSearch" => AmountSearch!AmountSearchTypeOK
  /\ component = "AmmQuotes" => AmmQuotes!AmmQuotesTypeOK
  /\ component = "HfTick" => HfTick!HfTickTypeOK
  /\ component = "RotatingHfTick" => RotatingHfTick!HfTickTypeOK
  /\ component = "ConcentratedLiquidity" => ConcentratedLiquidity!ConcentratedLiquidityTypeOK
  /\ MempoolServiceTypeOK
  /\ RouteCalldataTypeOK
  /\ CycleFinderTypeOK

(* An LF tick that computes rates leaves no pool that could still give one, *)
(* at the rates it has come to.                                             *)
RatesSpread == [][component = "TokenRates" => TokenRates!RatesSpread]_vars

(* The closed form for V2 pools is within MaxLoss of the best amount,       *)
(* Brent's method gives the best of what it tried.                          *)
BestAmountChosen ==
  component = "AmountSearch" => AmountSearch!BestAmountChosen

(* No sequence of V2, Curve and Balancer quotes takes a profit out of one   *)
(* pool.                                                                    *)
NothingForFree == component = "AmmQuotes" => AmmQuotes!NothingForFree

(* While a tick can rotate its cycles, all have been simulated once the     *)
(* caps of the ticks add up to their number.                                *)
RotationCovers == component = "RotatingHfTick" => RotatingHfTick!RotationCovers

(* Every candidate of a tick is in one group, no two of a group share a     *)
(* pool, and none cools down from an earlier tick.                          *)
GroupsSound ==
  /\ component = "HfTick" => HfTick!GroupsSound
  /\ component = "RotatingHfTick" => RotatingHfTick!GroupsSound

(* With a window of ticks simulateV3Swap never quotes more than the pool    *)
(* pays, and just that unless it says the quote is shallow.                 *)
WindowNeverOverquotes ==
  component = "ConcentratedLiquidity" => ConcentratedLiquidity!WindowNeverOverquotes
=============================================================================
