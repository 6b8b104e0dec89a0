CONSTANTS
    Routes = {r1, r2}
    Ticks = {t1}
    Cancel = Cancel
    None = None
    MaxNonce = 3
    MaxStale = 2
    MaxFailures = 1
    MevEnabled = FALSE
    PublicBackrunFallback = TRUE
    InclusionMayFail = FALSE
SPECIFICATION ConfiguredSpec
\* The bound on nonces stops the bot, and an operator may.
CHECK_DEADLOCK FALSE
INVARIANTS
    InFlightRouteHeld
    InFlightNonceHeld
    NonceAccounted
    MinedTradeRecorded
    RouteTwiceOnlyIfGivenUp
PROPERTIES
    ManagerSpec
    BundledGroupFinishes
    BundledStaleCancelled
