----------------------------- MODULE RouteCalldata -----------------------------
(* The transaction built for a candidate (services/execution/candidate.ts,   *)
(* builder.ts, calldata): the calls the executor contract makes with what it *)
(* borrows, hop after hop, and what becomes of them.  The contract makes the *)
(* calls in their order and is undone by the first that fails, or by too     *)
(* small a profit.  It is the one sol/script/ArbExecutor.s.sol deploys, of   *)
(* sol/src/ArbExecutor.huff.                                                 *)
(*                                                                           *)
(* Token i is what hop i sells; the last hop buys token 1.  The states the   *)
(* calls are built from are those of the simulation.                         *)
EXTENDS Integers, Sequences, FiniteSets

CONSTANTS
  Bps,                        \* BPS_DENOMINATOR
  transferBuffer,             \* of the transfers between hops: 100 in the code
  feeNumerator,               \* of a pool, of Bps
  CandidateRoutes,            \* bound: sequences of hops [kind, in, out, encodable]
  Principals,                 \* bound: what is borrowed
  Slippages,                  \* bound: slippageBps of the configuration
  Shortfalls,                 \* bound: how much less a pool pays, of Bps
  maxCalls,
  Costs,                      \* what the assessment deducts from the profit
  flashFee

Kinds == {"V2", "V3", "KYBER", "DODO", "WOOFI", "CURVE", "BALANCER", "V4", "other"}

(* What is assumed of them.                                                 *)
RouteCalldataConstants ==
  /\ CandidateRoutes \subseteq
       Seq([kind : Kinds, in : Nat \ {0}, out : Nat, encodable : BOOLEAN])
  /\ \A r \in CandidateRoutes : Len(r) > 1
  /\ Bps \in Nat \ {0} /\ feeNumerator \in 1..Bps
  /\ transferBuffer \in 0..Bps
  /\ Slippages \subseteq 0..(Bps - transferBuffer) /\ Shortfalls \subseteq 0..Bps
  /\ Principals \subseteq Nat \ {0} /\ {maxCalls, Costs, flashFee} \subseteq Nat

VARIABLES
  route, principal, slippage,
  phase,                      \* "candidate", "calls", then how it ended
  calls,                      \* what the contract is to do, hop by hop
  pc,                         \* the next of it: of which hop, and which of its calls
  held,                       \* of each token, what the contract has
  sent,                       \* to the pool of a hop, before its swap
  short                       \* of each hop done, by how much its pool fell short

calldataVars ==
  <<route, principal, slippage, phase, calls, pc, held, sent, short>>

RouteCalldataInit ==
  /\ route \in CandidateRoutes /\ principal \in Principals /\ slippage \in Slippages
  /\ phase = "candidate" /\ calls = <<>>
  /\ pc = [hop |-> 1, at |-> 1]
  /\ held = <<>> /\ sent = 0 /\ short = <<>>

Hops == DOMAIN route
(* The token a hop buys.                                                    *)
Bought(i) == IF i = Len(route) THEN 1 ELSE i + 1

-----------------------------------------------------------------------------
(* simulateHop: what the pool of a hop pays for x.                          *)
Quote(i, x) ==
  (x * feeNumerator * route[i].out) \div (route[i].in * Bps + x * feeNumerator)

(* hopAmounts of simulateRoute: what hop i is given, and after the last hop *)
(* what comes out.                                                          *)
HopAmount[i \in Nat] == IF i <= 1 THEN principal ELSE Quote(i - 1, HopAmount[i - 1])

(* slippageAdjustedAmountOut.                                               *)
Slipped(x, bps) == (x * (Bps - bps)) \div Bps

(* What a hop spends: after the first, less than was simulated by the       *)
(* slippage and a buffer.                                                   *)
Committed(i) ==
  IF i = 1 THEN principal ELSE Slipped(HopAmount[i], slippage + transferBuffer)

Simulated(i) == HopAmount[i + 1]

(* A V2 pair is asked for what it pays for the committed amount, the others *)
(* for what they were simulated to pay for the whole; V3 pools have a limit *)
(* of the price, DODO's and V4 pools none.                                  *)
MinOut(i) ==
  CASE route[i].kind = "V2" ->
         LET computed == Quote(i, Committed(i))
         IN  Slipped(IF computed > 0 THEN computed ELSE Simulated(i), slippage)
    [] route[i].kind \in {"WOOFI", "CURVE", "BALANCER"} -> Slipped(Simulated(i), slippage)
    [] OTHER -> 0

(* V2 pairs and DODO's pools are paid first, after the first hop with all   *)
(* there is, and then swap what they were paid; V3 and Kyber pools ask for  *)
(* what they take; the others take the committed amount, once that is       *)
(* approved.                                                                *)
Call(op, i) == [op |-> op, amount |-> Committed(i), min |-> MinOut(i)]

(* Mutation: V2 pairs are sent the committed amount, whichever the hop.     *)
encodeV2HopCommitted(i) == <<Call("transfer", i), Call("swapPaid", i)>>

encodeV2Hop(i) ==
  <<Call(IF i = 1 THEN "transfer" ELSE "transferAll", i), Call("swapPaid", i)>>
encodeDodoHop(i) ==
  <<Call(IF i = 1 THEN "transfer" ELSE "transferAll", i), Call("swapPaid", i)>>
encodeV3Hop(i) == <<Call("swap", i)>>
encodeApprovedHop(i) == <<Call("approve", i), Call("swap", i)>>

Encoded(i) ==
  CASE route[i].kind = "V2" -> encodeV2Hop(i)
    [] route[i].kind = "DODO" -> encodeDodoHop(i)
    [] route[i].kind \in {"V3", "KYBER"} -> encodeV3Hop(i)
    [] OTHER -> encodeApprovedHop(i)

(* A hop throws that nobody knows how to encode: of another protocol, a     *)
(* Balancer pool without its id, a V3 pool without a price.  So does an     *)
(* amount or a minimum of zero.                                             *)
Encodable(i) ==
  /\ route[i].kind # "other" /\ route[i].encodable
  /\ Committed(i) > 0
  /\ route[i].kind \in {"V2", "WOOFI", "CURVE", "BALANCER"} => MinOut(i) > 0
  /\ route[i].kind = "V3" => Simulated(i) > 0

(* buildExecutionCandidate: 90 % of the profit is asked for.                *)
minProfit ==
  LET profit == HopAmount[Len(route) + 1] - principal - flashFee - Costs
  IN IF profit > 0 THEN (profit * 90) \div 100 ELSE 0

(* What encodeRoute returns, and how many calls that are.                   *)
EncodedRoute == [i \in Hops |-> Encoded(i)]
Places(encoded) == UNION {{i} \X DOMAIN encoded[i] : i \in Hops}

(* buildArbTx.                                                              *)
BuildArbTx ==
  LET valid ==
        /\ HopAmount[Len(route) + 1] > 0
        /\ \A i \in Hops : Encodable(i)
        /\ Cardinality(Places(EncodedRoute)) <= maxCalls
  IN
  /\ phase = "candidate"
  /\ \/ ~valid /\ phase' = "refused" /\ UNCHANGED <<calls, held>>
     \/ /\ valid /\ phase' = "calls" /\ calls' = EncodedRoute
        /\ held' = [i \in Hops |-> IF i = 1 THEN principal ELSE 0]
  /\ UNCHANGED <<route, principal, slippage, pc, sent, short>>

-----------------------------------------------------------------------------
(* The contract and the pools.                                              *)
Reverts == phase' = "reverted" /\ UNCHANGED <<pc, held, sent, short>>
Done ==
  /\ pc' = IF pc.at < Len(calls[pc.hop]) THEN [pc EXCEPT !.at = @ + 1]
           ELSE [hop |-> pc.hop + 1, at |-> 1]
  /\ UNCHANGED phase
FellShort(d) == short' = Append(short, d)
Fails(d) == phase' = "reverted" /\ FellShort(d) /\ UNCHANGED <<pc, held, sent>>

NextCall == calls[pc.hop][pc.at]

(* The token's own transfer, which EXECUTE_CALLS calls.                     *)
Transfer ==
  LET i == pc.hop amount == NextCall.amount
  IN
  /\ NextCall.op = "transfer"
  /\ IF amount > held[i] THEN Reverts
     ELSE /\ Done /\ UNCHANGED short
          /\ held' = [held EXCEPT ![i] = @ - amount] /\ sent' = amount

(* TRANSFER_ALL lets the contract call itself.  It asks for a balance to    *)
(* send, but asks the recipient (the dup5 of line 152 finds `to` below      *)
(* staticcall's four arguments, and `token` below that): a pool, which has  *)
(* issued the contract no share of its own, says zero, and with a zero      *)
(* balance nothing is sent.                                                 *)
TransferAll ==
  /\ NextCall.op = "transferAll"
  /\ sent' = 0
  /\ Done /\ UNCHANGED <<held, short>>

(* A pair pays what it is asked for, if it can and was paid; DODO's pool    *)
(* all it can.                                                              *)
SwapPaid(d) ==
  LET i == pc.hop
      most == Slipped(Quote(i, sent), d)
      out == IF route[i].kind = "V2" THEN NextCall.min ELSE most
  IN
  /\ NextCall.op = "swapPaid"
  /\ IF out > most THEN Fails(d)
     ELSE Done /\ FellShort(d) /\ sent' = 0 /\ held' = [held EXCEPT ![Bought(i)] = @ + out]

(* SAFE_APPROVE_MAX_IF_NEEDED: there is no allowance, and the function it   *)
(* calls (0x095fc615) is not the token's approve, so that it fails, or does *)
(* nothing where a token's fallback takes any call.                         *)
Approve ==
  /\ NextCall.op = "approve"
  /\ \/ Reverts
     \/ Done /\ UNCHANGED <<held, sent, short>>

(* The others are to be paid in the course of their swap, and are not.  A   *)
(* V3 or Kyber pool is given a negative amount, which it reads as what it   *)
(* is to pay out; it then calls back for what that costs, and               *)
(* HANDLE_POOL_SWAP_CALLBACK sends neither token, for it does so if zero is *)
(* greater than the amount (0x00 gt, lines 678 and 685).  V4's LOCK_ACQUIRED *)
(* sends the pool manager nothing, and the rest have no allowance.          *)
SwapUnpaid == NextCall.op = "swap" /\ Reverts

(* EXECUTE_CALLS.                                                           *)
ExecuteCall ==
  /\ phase = "calls" /\ pc.hop <= Len(route)
  /\ Transfer \/ TransferAll \/ Approve \/ SwapUnpaid \/ \E d \in Shortfalls : SwapPaid(d)
  /\ UNCHANGED <<route, principal, slippage, calls>>

(* The loan is paid back, then ASSERT_PROFIT.                               *)
Repay ==
  /\ phase = "calls" /\ pc.hop > Len(route)
  /\ phase' = CASE held[1] < principal + flashFee -> "reverted"
                [] held[1] >= principal + flashFee + minProfit -> "settled"
                [] OTHER -> "unprofitable"
  /\ UNCHANGED <<route, principal, slippage, calls, pc, held, sent, short>>

RouteCalldataNext == BuildArbTx \/ ExecuteCall \/ Repay

RouteCalldataSpec == RouteCalldataInit /\ [][RouteCalldataNext]_calldataVars

-----------------------------------------------------------------------------
RouteCalldataTypeOK ==
  /\ phase \in {"candidate", "refused", "calls", "reverted", "unprofitable", "settled"}
  /\ pc.hop \in 1..(Len(route) + 1) /\ pc.at \in 1..2
  /\ phase \notin {"candidate", "refused"} =>
       /\ Cardinality(Places(calls)) <= maxCalls /\ held \in [Hops -> Nat]
       /\ pc.hop \in Hops => pc.at <= Len(calls[pc.hop])
  /\ sent \in Nat /\ Len(short) <= Len(route)

(* The calls that are encoded and the functions that the contract has do    *)
(* not fit: no transaction of a candidate settles.  Of its hops only the    *)
(* first can be paid, and only if it is through a V2 pair or a pool of      *)
(* DODO's; a later one of these gets nothing from transferAll, any other    *)
(* stops the transaction.                                                   *)
NoRouteSettles == phase # "settled"

(* What encodeRoute protects, "V2 chains", is executed when every pool pays *)
(* what was simulated.                                                      *)
V2ChainsExecute ==
  (\A i \in Hops : route[i].kind = "V2") /\ (\A i \in DOMAIN short : short[i] = 0) =>
    phase # "reverted"
=============================================================================
