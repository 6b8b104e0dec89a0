----------------------------- MODULE MCExecution -----------------------------
(***************************************************************************)
(* ExecutionService with small constants, in two configurations: without    *)
(* bundles, and with bundles whose inclusion waits may fail and that have   *)
(* no public fallback.  The constants of the configuration file are those   *)
(* of the first.                                                            *)
(***************************************************************************)
EXTENDS ExecutionService

VARIABLE mev  \* whether the configuration is the one with bundles

Bundling == INSTANCE ExecutionService WITH
  MaxNonce <- 2, MevEnabled <- TRUE, PublicBackrunFallback <- FALSE,
  InclusionMayFail <- TRUE

ConfiguredInit == Init /\ mev \in BOOLEAN

ConfiguredNext ==
  /\ UNCHANGED mev
  /\ (~mev /\ Next) \/ (mev /\ Bundling!Next)

(* Fairness is assumed of the second only.                                  *)
BundlingFairness ==
  /\ WF_vars(mev /\ Bundling!GroupStep)
  /\ \A t \in Ticks :
       WF_vars(mev /\ Bundling!TickStep(t)) /\ SF_vars(mev /\ Bundling!TickStart(t))

ConfiguredSpec ==
  /\ ConfiguredInit
  /\ [][ConfiguredNext]_<<vars, mev>>
  /\ BundlingFairness

-----------------------------------------------------------------------------
(* GroupFinishes where bundles are sent: a bundle that is rejected, times   *)
(* out or whose inclusion wait fails does not keep the HF pass.             *)
BundledGroupFinishes == mev => Bundling!GroupFinishes

(* StaleCancelled where bundles are sent: a nonce that a bundle left stale  *)
(* has a cancellation of it broadcast, or leaves the set by a named door.   *)
BundledStaleCancelled == mev => Bundling!StaleCancelled
=============================================================================
