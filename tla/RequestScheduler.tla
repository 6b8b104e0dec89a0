--------------------------- MODULE RequestScheduler ---------------------------
(***************************************************************************)
(* The token bucket every RPC request goes through                          *)
(* (src/src/services/rpc/request_scheduler.ts), its use by the rate limited *)
(* transports of src/src/rpc/manager.ts, and the retries of                 *)
(* src/src/infra/rpc/retry.ts around a request.  Time is in ticks: a tick   *)
(* adds Refill units to the bucket and a token is TokenUnits of them.       *)
(***************************************************************************)
EXTENDS Integers, Sequences

CONSTANTS
  Requests,     \* the callers, each with one request at a time
  PriorityOf,   \* [Requests -> 0..2]: CRITICAL, HIGH, LOW
  TokenUnits, Refill,
  capacity,     \* in tokens
  maxAttempts,  \* 3 in the code
  MaxTime       \* bound on the clock

(* What is assumed of them. *)
RequestSchedulerConstants ==
  /\ PriorityOf \in [Requests -> 0..2]
  /\ {TokenUnits, Refill, capacity, maxAttempts} \subseteq Nat \ {0} /\ MaxTime \in Nat

VARIABLES
  now,
  tokens, lastRefill,   \* the bucket, in units, and the time it was filled up
  queues,               \* [0..2 -> Seq(Requests)]
  worker, wakeAt,       \* processQueue: "idle", "called" or "waiting" for its timer
  call,                 \* [Requests -> "idle", "queued", "running", "backoff", "done", "failed"]
  attempt,
  executed              \* history: what was executed, and when

schedulerVars == <<now, tokens, lastRefill, queues, worker, wakeAt, call, attempt, executed>>

Least(a, b) == IF a < b THEN a ELSE b
CeilDiv(a, b) == (a + b - 1) \div b

RequestSchedulerInit ==
  /\ now = 0 /\ tokens = capacity * TokenUnits /\ lastRefill = 0
  /\ queues = [p \in 0..2 |-> <<>>] /\ worker = "idle" /\ wakeAt = 0
  /\ call = [r \in Requests |-> "idle"] /\ attempt = [r \in Requests |-> 0]
  /\ executed = <<>>

(* refill.                                                                  *)
Filled == Least(capacity * TokenUnits, tokens + (now - lastRefill) * Refill)

(* Mutation: A request relies on the worker noticing it.                    *)
NotWoken == IF worker = "idle" /\ \A p \in 0..2 : queues[p] = <<>> THEN worker ELSE "called"
(* acquire calls the worker unless it is processing.                        *)
Woken == IF worker = "idle" THEN "called" ELSE worker

(* The first attempt of a caller, or the next after its delay.              *)
Acquire(r) ==
  /\ call[r] \in {"idle", "backoff"} /\ call' = [call EXCEPT ![r] = "queued"]
  /\ attempt' = [attempt EXCEPT ![r] = @ + 1]
  /\ queues' = [queues EXCEPT ![PriorityOf[r]] = Append(@, r)] /\ worker' = Woken
  /\ UNCHANGED <<now, tokens, lastRefill, wakeAt, executed>>

(* The requests in the order they run in, and how many have a token now.    *)
Waiting == queues[0] \o queues[1] \o queues[2]
Affordable == Least(Len(Waiting), Filled \div TokenUnits)

(* How many run of the queue of a priority, those before it going first.    *)
Before(p) == IF p = 0 THEN 0 ELSE Len(queues[0]) + IF p = 1 THEN 0 ELSE Len(queues[1])
Taken(p) == Least(Len(queues[p]), Affordable - Least(Affordable, Before(p)))

(* processQueue, called or at its timer, up to its next wait: requests run  *)
(* in order of priority as long as there are tokens.  (The one that finds   *)
(* none is put back in front of its queue.)                                 *)
ProcessQueue ==
  /\ worker = "called" \/ (worker = "waiting" /\ wakeAt <= now)
  /\ tokens' = Filled - Affordable * TokenUnits /\ lastRefill' = now
  /\ queues' = [p \in 0..2 |-> SubSeq(queues[p], Taken(p) + 1, Len(queues[p]))]
  /\ executed' =
       executed \o [i \in 1..Affordable |-> [request |-> Waiting[i], at |-> now]]
  /\ call' = [r \in Requests |->
       IF \E i \in 1..Affordable : Waiting[i] = r THEN "running" ELSE call[r]]
  /\ IF Affordable = Len(Waiting)
       THEN worker' = "idle" /\ wakeAt' = 0
       ELSE worker' = "waiting" /\ wakeAt' = now + CeilDiv(TokenUnits - tokens', Refill)
  /\ UNCHANGED <<now, attempt>>

Succeeds(r) ==
  /\ call[r] = "running" /\ call' = [call EXCEPT ![r] = "done"]
  /\ UNCHANGED <<now, tokens, lastRefill, queues, worker, wakeAt, attempt, executed>>

(* The request fails, with an error that may be tried again, or not.        *)
Fails(r) ==
  /\ call[r] = "running"
  /\ call' = [call EXCEPT ![r] = IF attempt[r] < maxAttempts THEN "backoff" ELSE "failed"]
  /\ UNCHANGED <<now, tokens, lastRefill, queues, worker, wakeAt, attempt, executed>>
FailsForGood(r) ==
  /\ call[r] = "running" /\ call' = [call EXCEPT ![r] = "failed"]
  /\ UNCHANGED <<now, tokens, lastRefill, queues, worker, wakeAt, attempt, executed>>

(* Another request of the same caller.                                      *)
AnotherRequest(r) ==
  /\ call[r] \in {"done", "failed"} /\ call' = [call EXCEPT ![r] = "idle"]
  /\ attempt' = [attempt EXCEPT ![r] = 0]
  /\ UNCHANGED <<now, tokens, lastRefill, queues, worker, wakeAt, executed>>

(* Timers are late by less than a tick.                                     *)
ClockTicks ==
  /\ now < MaxTime /\ worker # "called" /\ ~(worker = "waiting" /\ wakeAt <= now) /\ now' = now + 1
  /\ UNCHANGED <<tokens, lastRefill, queues, worker, wakeAt, call, attempt, executed>>

CallerStep(r) == Acquire(r) \/ Succeeds(r) \/ Fails(r) \/ FailsForGood(r) \/ AnotherRequest(r)
RequestSchedulerNext == ProcessQueue \/ ClockTicks \/ \E r \in Requests : CallerStep(r)

RequestSchedulerSpec == RequestSchedulerInit /\ [][RequestSchedulerNext]_schedulerVars

-----------------------------------------------------------------------------
RequestSchedulerTypeOK ==
  /\ now \in 0..MaxTime /\ lastRefill \in 0..now /\ tokens \in 0..(capacity * TokenUnits)
  /\ queues \in [0..2 -> Seq(Requests)]
  /\ \A p \in 0..2 : \A i \in DOMAIN queues[p] : PriorityOf[queues[p][i]] = p
  /\ worker \in {"idle", "called", "waiting"} /\ wakeAt \in 0..(MaxTime + TokenUnits)
  /\ attempt \in [Requests -> 0..maxAttempts]
  /\ call \in [Requests -> {"idle", "queued", "running", "backoff", "done", "failed"}]

(* In no stretch of time do more requests run than the bucket holds and is  *)
(* given meanwhile, although it is only filled up when the worker runs.     *)
RateBounded ==
  \A i, j \in DOMAIN executed :
    i <= j => (j - i + 1) * TokenUnits
              <= capacity * TokenUnits + (executed[j].at - executed[i].at) * Refill

(* No request is forgotten: one that waits has a worker that is to come.    *)
NoLostWakeup == (\E r \in Requests : call[r] = "queued") => worker # "idle"

(* Together: requests run no faster than they may, and none waits for good. *)
SchedulerSound == RateBounded /\ NoLostWakeup
=============================================================================
