------------------------------ MODULE TokenRates ------------------------------
(***************************************************************************)
(* The value of tokens in MATIC: propagated from pool to pool               *)
(* (src/src/pipeline/rates.ts), held against the price oracle               *)
(* (src/src/services/oracle/price_oracle.ts), as the LF tick has it done    *)
(* (src/src/orchestrator/pass_lf.ts and pass_rates.ts), with a reorg that   *)
(* may come while the oracle is awaited.  Pools are their reserves: of V3   *)
(* and V4 pools, the ones their price and liquidity amount to; a pool       *)
(* without a state, or with an invalid one, has none.  A rate of 0 is no    *)
(* rate.                                                                    *)
(***************************************************************************)
EXTENDS Naturals, Sequences, FiniteSets, FiniteSetsExt, Functions, SequencesExt

CONSTANTS
  Tokens, WMATIC,
  Majors,          \* MAJOR_TOKEN_APPROX_RATES
  MajorRate,       \* the rate they are given
  Precision,       \* RATE_PRECISION
  MinValue,        \* what a pool must hold of the known token: 0.001 MATIC
  MaxRate,         \* 10^36
  MaxRatio,        \* of the reserves of a V2 pool: 10^12
  MinLiquidity,    \* minLiquidityV3, squared
  PoolOrder,       \* the pools in their order
  TokensOf,        \* of each pool, two or more
  KindOf,          \* of each pool: "v2", "v3" (or V4), "elastic", "curve" (or another)
  Reserves,        \* bound: of a pool in each of its tokens
  Quotes,          \* bound: rates the oracle has
  CycleSets,       \* bound: sets of tokens that cycles may have
  FullRatesBelow,  \* 500 in the code
  MaxRounds,       \* 15 in the code
  MaxChanges       \* bound: changes of the environment

NormalizedPools == Range(PoolOrder)

(* What is assumed of them. *)
TokenRatesConstants ==
  /\ WMATIC \in Tokens /\ Majors \subseteq Tokens \ {WMATIC}
  /\ TokensOf \in [NormalizedPools -> Seq(Tokens)]
  /\ KindOf \in [NormalizedPools -> {"v2", "v3", "elastic", "curve"}]
  /\ \A p \in NormalizedPools :
       /\ IsInjective(TokensOf[p])
       /\ IF KindOf[p] = "curve" THEN Len(TokensOf[p]) > 1 ELSE Len(TokensOf[p]) = 2
  /\ CycleSets \subseteq SUBSET Tokens
  /\ Reserves \union Quotes \subseteq Nat \ {0}
  /\ {Precision, MajorRate, MaxRounds, FullRatesBelow} \subseteq Nat \ {0}
  /\ {MinValue, MaxRate, MaxRatio, MinLiquidity, MaxChanges} \subseteq Nat

VARIABLES
  stateCache,      \* of each pool, the reserves in its tokens
  cycleTokens,     \* the tokens of cachedCycles
  rates,           \* cachedRates and tokenToMaticRates
  ratesNeedFullRefresh,
  enrichTime,      \* lastOracleEnrichTime: "never", "recent" or "due"
  enrichKey,       \* lastOracleEnrichTokenKey, already while the oracle is awaited
  lfPhase,         \* "idle", or what the tick awaits: "rates" or "price" of MATIC
  reorged,         \* history: a reorg since the last tick began: "no", or "between"
                   \* two ticks, or only "during" one
  changes          \* bound: changes of the environment so far

vars == <<stateCache, cycleTokens, rates, ratesNeedFullRefresh, enrichTime, enrichKey,
          lfPhase, reorged, changes>>

Unread == [p \in NormalizedPools |-> [k \in DOMAIN TokensOf[p] |-> 0]]
NoRates == [t \in Tokens |-> 0]

Init ==
  /\ stateCache = Unread /\ cycleTokens = {} /\ rates = NoRates
  /\ ratesNeedFullRefresh = FALSE /\ enrichTime = "never" /\ enrichKey = {}
  /\ lfPhase = "idle" /\ reorged = "no" /\ changes = 0

-----------------------------------------------------------------------------
(* The environment.                                                         *)

(* One more change.                                                         *)
Change == changes < MaxChanges /\ changes' = changes + 1

PoolChanges ==
  /\ Change
  /\ \E p \in NormalizedPools : \E res \in [DOMAIN TokensOf[p] -> Reserves] :
       stateCache' = [stateCache EXCEPT ![p] = res]
  /\ UNCHANGED <<cycleTokens, rates, ratesNeedFullRefresh, enrichTime, enrichKey, lfPhase,
                 reorged>>

(* An enumeration has found other cycles.                                   *)
CyclesFound ==
  /\ Change
  /\ cycleTokens' \in CycleSets
  /\ UNCHANGED <<stateCache, rates, ratesNeedFullRefresh, enrichTime, enrichKey, lfPhase,
                 reorged>>

EnrichInterval ==
  /\ Change /\ enrichTime = "recent" /\ enrichTime' = "due"
  /\ UNCHANGED <<stateCache, cycleTokens, rates, ratesNeedFullRefresh, enrichKey, lfPhase,
                 reorged>>

(* A reorg: pool states and cycles are dropped, and all rates are asked for. *)
Reorg ==
  /\ Change
  /\ stateCache' = Unread /\ cycleTokens' = {} /\ ratesNeedFullRefresh' = TRUE
  /\ reorged' = IF lfPhase = "idle" THEN "between" ELSE "during"
  /\ UNCHANGED <<rates, enrichTime, enrichKey, lfPhase>>

-----------------------------------------------------------------------------
(* computeMaticRates.                                                       *)

(* The first token of pool p with a rate; the others get theirs from it.    *)
Known(r, p) == {k \in DOMAIN TokensOf[p] : r[TokensOf[p][k]] > 0}
KnownIdx(r, p) == Min(Known(r, p))

(* What p holds of token k, in MATIC, and the rate it makes of token u.     *)
KnownValue(r, p, k) == (r[TokensOf[p][k]] * stateCache[p][k]) \div Precision
NewRate(r, p, k, u) ==
  IF stateCache[p][u] = 0 THEN 0
  ELSE (r[TokensOf[p][k]] * stateCache[p][k]) \div stateCache[p][u]

(* The rounds pass over a pool with too little liquidity, V3's or of the    *)
(* known token at the rate this has by then, and over a broken one.         *)
Propagates(r, p, k, u) ==
  /\ NewRate(r, p, k, u) \in 1..MaxRate
  /\ KnownValue(r, p, k) >= MinValue
  /\ KindOf[p] \in {"v3", "elastic"} =>
       stateCache[p][1] * stateCache[p][2] >= MinLiquidity
  /\ KindOf[p] = "v2" =>
       Max(Range(stateCache[p])) \div Min(Range(stateCache[p])) <= MaxRatio

(* The final sweep does not ask for that, but takes no other pools than     *)
(* these, and fills in no tokens but those of cycles.                       *)
Sweeps(r, focus, p, k, u) ==
  /\ TokensOf[p][u] \in focus /\ NewRate(r, p, k, u) > 0
  /\ \/ KindOf[p] = "v2"
     \/ KindOf[p] = "v3" /\ NewRate(r, p, k, u) < MaxRate

(* The tokens of p that could get a rate by it: none if none has one.       *)
Unrated(r, p) == {u \in DOMAIN TokensOf[p] \ Known(r, p) : Known(r, p) # {}}

(* Those of them that may have one, get it.                                 *)
Filled(r, p, allowed) ==
  LET rate == [t \in {TokensOf[p][u] : u \in allowed} |->
                 NewRate(r, p, KnownIdx(r, p), CHOOSE u \in allowed : TokensOf[p][u] = t)]
  IN [t \in Tokens |-> IF t \in DOMAIN rate THEN rate[t] ELSE r[t]]
Propagated(r, p) ==
  Filled(r, p, {u \in Unrated(r, p) : Propagates(r, p, KnownIdx(r, p), u)})

(* Pools that touch a focus token come first.                               *)
Ordered(focus) ==
  SelectSeq(PoolOrder, LAMBDA p : Range(TokensOf[p]) \intersect focus # {})
    \o SelectSeq(PoolOrder, LAMBDA p : Range(TokensOf[p]) \intersect focus = {})

Round(r, order) == FoldLeft(Propagated, r, order)

(* Mutation: One round over the pools.                                      *)
OneRound(r, order) == Round(r, order)
(* Rounds until nothing changes.                                            *)
Rounds(r, order) ==
  LET after[n \in 0..MaxRounds] == IF n = 0 THEN r ELSE Round(after[n - 1], order)
  IN after[MaxRounds]

Swept(r, focus) ==
  FoldLeft(LAMBDA acc, p :
             Filled(acc, p, {u \in Unrated(acc, p) : Sweeps(acc, focus, p, KnownIdx(acc, p), u)}),
           r, PoolOrder)

(* The rates before, those of WMATIC and the majors, and what follows.      *)
Seeded(r) ==
  [t \in Tokens |-> IF t = WMATIC THEN Precision ELSE IF t \in Majors THEN MajorRate ELSE r[t]]
Computed(r, focus) == Swept(Rounds(Seeded(r), Ordered(focus)), focus)

-----------------------------------------------------------------------------
(* The LF tick.                                                             *)

FewRates == Cardinality({t \in Tokens : rates[t] > 0}) < FullRatesBelow

(* Up to the first await: with cycles the rates are computed at every tick, *)
(* without only when they are asked for or few.                             *)
LfTick ==
  LET requested == ratesNeedFullRefresh \/ FewRates
  IN
  /\ lfPhase = "idle"
  /\ rates' = IF requested \/ cycleTokens # {} THEN Computed(rates, cycleTokens) ELSE rates
  /\ IF requested \/ enrichTime # "recent" \/ enrichKey # cycleTokens
     THEN lfPhase' = "rates" /\ enrichKey' = cycleTokens
     ELSE lfPhase' = "price" /\ UNCHANGED enrichKey
  /\ reorged' = "no"
  /\ UNCHANGED <<stateCache, cycleTokens, ratesNeedFullRefresh, enrichTime, changes>>

(* getTokenToMaticRate: a rate of the pools that differs from the oracle's  *)
(* is blocked.                                                              *)
OracleBacked(poolRate, quote) ==
  IF quote = 0 THEN poolRate ELSE IF poolRate \notin {0, quote} THEN 0 ELSE quote

(* The oracle has answered.                                                 *)
LfEnriched ==
  /\ lfPhase = "rates" /\ lfPhase' = "price"
  /\ \E quote \in [enrichKey \ {WMATIC} -> Quotes \union {0}] :
       rates' = [t \in Tokens |->
                   IF t \in DOMAIN quote THEN OracleBacked(rates[t], quote[t]) ELSE rates[t]]
  /\ enrichTime' = "recent"
  /\ UNCHANGED <<stateCache, cycleTokens, ratesNeedFullRefresh, enrichKey, reorged, changes>>

(* MATIC's price is there, at once if it is cached.  What a reorg asked for *)
(* meanwhile is overwritten.                                                *)
LfTickEnds ==
  /\ lfPhase = "price" /\ lfPhase' = "idle"
  /\ ratesNeedFullRefresh' = FALSE
  /\ UNCHANGED <<stateCache, cycleTokens, rates, enrichTime, enrichKey, reorged, changes>>

Next ==
  \/ PoolChanges \/ CyclesFound \/ EnrichInterval \/ Reorg
  \/ LfTick \/ LfEnriched \/ LfTickEnds

Spec == Init /\ [][Next]_vars

-----------------------------------------------------------------------------
TokenRatesTypeOK ==
  /\ \A p \in NormalizedPools :
       stateCache[p] \in [DOMAIN TokensOf[p] -> Reserves] \union {Unread[p]}
  /\ rates \in [Tokens -> Nat]
  /\ cycleTokens \subseteq Tokens /\ enrichKey \subseteq Tokens /\ ratesNeedFullRefresh \in BOOLEAN
  /\ enrichTime \in {"never", "recent", "due"} /\ lfPhase \in {"idle", "rates", "price"}
  /\ reorged \in {"no", "between", "during"}

(* An LF tick that has cycles, few rates, or a reorg since the last one     *)
(* ended (not during it: what that one asks for is lost), leaves no pool    *)
(* behind that could still give a rate: a token without one is in none that *)
(* has enough of its first rated token at the rate this has come to in the  *)
(* end, however late and in whichever round it came; and a token of cycles  *)
(* is in no V2 or V3 pool that links it to a rated one, however little      *)
(* there is in it.  Only tokens of cycles whose own rate is new may have    *)
(* pools left: the sweep that gave it to them has no second round.          *)
RatesSpread ==
  LfTick /\ (cycleTokens # {} \/ FewRates \/ reorged = "between") =>
    \A p \in {q \in NormalizedPools : Known(rates', q) # {}} :
      LET k == KnownIdx(rates', p)
          source == TokensOf[p][k]
      IN
      \/ source \in cycleTokens /\ Seeded(rates)[source] = 0
      \/ \A u \in DOMAIN TokensOf[p] \ Known(rates', p) :
           ~Propagates(rates', p, k, u) /\ ~Sweeps(rates', cycleTokens, p, k, u)
=============================================================================
