CONSTANTS
    Routes = {r1, r2}
    Ticks = {t1}
    Cancel = Cancel
    None = None
    MaxNonce = 2
    MaxStale = 2
    MaxFailures = 3
    MevEnabled = TRUE
    PublicBackrunFallback = TRUE
    InclusionMayFail = TRUE
SPECIFICATION Spec
\* The bound on nonces stops the bot, and an operator may.
CHECK_DEADLOCK FALSE
INVARIANT ExternalNonceSettled
