------------------------------- MODULE GasOracle -------------------------------
(***************************************************************************)
(* The gas oracle (src/src/services/execution/gas.ts): base fees are polled *)
(* and averaged, and the fee of a transaction (submit.ts) is twice their    *)
(* average, more than the fee of the block that is to include it one hopes. *)
(* Polls overlap when an answer takes longer than their interval.  The      *)
(* network changes its base fee by at most one eighth with every block.     *)
(***************************************************************************)
EXTENDS Integers, Sequences

CONSTANTS
  Fallback,       \* the base fee made up when the RPC fails: 30 gwei in the code
  InitialFee, MaxFee,          \* bound: the network's base fee
  emaPercent,     \* emaAlpha * 100: 30 in the code
  MaxInflight,    \* bound: polls not yet answered
  MaxAge          \* blocks a fee is used for after the block it was read at

(* What is assumed of them. *)
GasOracleConstants ==
  /\ {Fallback, InitialFee, MaxFee, MaxInflight, MaxAge} \subseteq Nat /\ InitialFee <= MaxFee
  /\ emaPercent \in 0..100 /\ MaxInflight > 0

(* What the margin of submit rests on: an average that follows by 30 per    *)
(* cent with every answer, fees used within two blocks, and fees that are   *)
(* large next to what integer division drops of them (in the code they are  *)
(* counted in wei).                                                         *)
FeeMarginConstants == emaPercent >= 30 /\ MaxAge <= 2 /\ InitialFee >= 68

VARIABLES
  networkFee,        \* the base fee of the next block
  polling,           \* "off", "starting" (its first refresh is awaited) or "on"
  inflight,          \* the answers under way: [fee, age]
  emaBaseFee,        \* 0 is null
  feeAge,            \* history: blocks since the last answer applied was read
  outage             \* history: an answer was made up, or came too late

oracleVars == <<networkFee, polling, inflight, emaBaseFee, feeAge, outage>>

GasOracleInit ==
  /\ networkFee = InitialFee /\ polling = "off" /\ inflight = <<>>
  /\ emaBaseFee = 0 /\ feeAge = 0 /\ outage = FALSE

Older(age) == IF age <= MaxAge THEN age + 1 ELSE age

(* A block: the base fee stays, rises by an eighth, or is back where it was. *)
Block ==
  /\ networkFee' \in {InitialFee, networkFee, networkFee + networkFee \div 8}
  /\ networkFee' <= MaxFee
  /\ feeAge' = Older(feeAge) /\ outage' = (outage \/ (emaBaseFee > 0 /\ feeAge = MaxAge))
  /\ inflight' = [i \in DOMAIN inflight |-> [inflight[i] EXCEPT !.age = Older(@)]]
  /\ UNCHANGED <<polling, emaBaseFee>>

(* start awaits a first refresh, then sets the timer; stop clears it.       *)
OracleStart ==
  /\ polling = "off" /\ inflight = <<>>
  /\ polling' = "starting" /\ inflight' = <<[fee |-> networkFee, age |-> 0]>>
  /\ UNCHANGED <<networkFee, emaBaseFee, feeAge, outage>>
OracleStop ==
  /\ polling = "on" /\ polling' = "off"
  /\ UNCHANGED <<networkFee, inflight, emaBaseFee, feeAge, outage>>
Poll ==
  /\ polling = "on" /\ Len(inflight) < MaxInflight
  /\ inflight' = Append(inflight, [fee |-> networkFee, age |-> 0])
  /\ UNCHANGED <<networkFee, polling, emaBaseFee, feeAge, outage>>

(* Mutation: The average follows no fee after the first.                    *)
AveragedOnce(fee) == IF emaBaseFee = 0 THEN fee ELSE emaBaseFee
(* The moving average, rounded down.                                        *)
Averaged(fee) ==
  IF emaBaseFee = 0 THEN fee ELSE (emaBaseFee * (100 - emaPercent) + fee * emaPercent) \div 100

Answered(i, fee) ==
  /\ emaBaseFee' = Averaged(fee) /\ feeAge' = inflight[i].age
  /\ inflight' = SubSeq(inflight, 1, i - 1) \o SubSeq(inflight, i + 1, Len(inflight))
  /\ polling' = IF polling = "starting" THEN "on" ELSE polling

(* A refresh ends, in any order.                                            *)
Refreshed ==
  /\ \E i \in DOMAIN inflight :
       Answered(i, inflight[i].fee) /\ outage' = (outage \/ inflight[i].age > MaxAge)
  /\ UNCHANGED networkFee

(* The RPC fails: the fetcher makes up a fee, and refresh never sees it.    *)
RefreshFailed ==
  /\ \E i \in DOMAIN inflight : Answered(i, Fallback)
  /\ outage' = TRUE /\ UNCHANGED networkFee

GasOracleNext ==
  \/ Block \/ OracleStart \/ OracleStop \/ Poll \/ Refreshed \/ RefreshFailed

GasOracleSpec == GasOracleInit /\ [][GasOracleNext]_oracleVars

-----------------------------------------------------------------------------
GasOracleTypeOK ==
  /\ networkFee \in 0..MaxFee /\ polling \in {"off", "starting", "on"}
  /\ inflight \in Seq([fee : 0..MaxFee, age : 0..(MaxAge + 1)]) /\ Len(inflight) <= MaxInflight
  /\ emaBaseFee \in Nat /\ feeAge \in 0..(MaxAge + 1) /\ outage \in BOOLEAN

(* submit: the least a transaction offers, twice the average.               *)
FeeOffered == 2 * emaBaseFee

(* A transaction offers at least the base fee of the next block, however    *)
(* fast that has risen and in whatever order the answers came, as long as   *)
(* no answer was made up and the last one is recent.                        *)
FeeCoversBase ==
  (emaBaseFee > 0 /\ ~outage) => FeeOffered >= networkFee
=============================================================================
