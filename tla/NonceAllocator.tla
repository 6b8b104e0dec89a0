--------------------------- MODULE NonceAllocator ---------------------------
(***************************************************************************)
(* What the nonce manager of the execution service promises to its         *)
(* callers, without saying how it counts: a number is handed out at most    *)
(* once between two restarts (a restart re-reads the counter from the       *)
(* chain), and the counter never goes back except by a restart.             *)
(*                                                                         *)
(* It stands for the public face of src/src/services/execution/nonce.ts:   *)
(* getNextNonce hands out, initialize and resync restart, and confirmNonce  *)
(* may skip ahead.                                                          *)
(***************************************************************************)
EXTENDS Naturals

CONSTANTS
    MaxNonce,   \* bound of the model: the largest number handed out, a natural
    None        \* the counter before initialize(), not a number

VARIABLES
    next,       \* the number the next caller gets
    handed      \* the numbers handed out since the last restart

vars == <<next, handed>>

Init == next = None /\ handed = {}

\* The counter is read from the chain; what was handed out before is void.
Restart(c) ==
    /\ next' = c
    /\ handed' = {}

\* A caller takes the next number. It was not handed out since the restart.
HandOut ==
    /\ next # None
    /\ next \notin handed
    /\ handed' = handed \union {next}
    /\ next' = next + 1

\* A transaction numbered beyond the counter was confirmed (its number was
\* handed out before a restart): the counter moves past it.
SkipTo(c) ==
    /\ next # None
    /\ next < c
    /\ next' = c
    /\ UNCHANGED handed

Next ==
    \/ \E c \in 0..MaxNonce + 1 : Restart(c) \/ SkipTo(c)
    \/ HandOut

Spec == Init /\ [][Next]_vars

-----------------------------------------------------------------------------
\* Nothing at or above the counter has been handed out since the restart, so
\* the next number is fresh (getNextNonce never repeats itself).
HandedBelowNext == \A n \in handed : next # None /\ n < next

=============================================================================
