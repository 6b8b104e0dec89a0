------------------------------ MODULE RpcProofs ------------------------------
(* What the bot has of its RPC endpoints and sockets: the scheduler of its  *)
(* requests (RequestScheduler), the fees it reads (GasOracle), the streams  *)
(* it listens to (Streams) and the states of pools it fetches               *)
(* (PoolStateFetch). Proved for every set of callers and priorities, every  *)
(* rate, capacity, fee and bound, and every list of pools: their types,     *)
(* that the scheduler keeps to its rate and serves every request, that the  *)
(* fee offered covers the next block's, that no stream falls silent, and    *)
(* that the ticks of a state are those of its price.                        *)
EXTENDS RequestScheduler, GasOracle, Streams, PoolStateFetch, SequenceTheorems,
        TLAPS

(* Every request that waits is in the queue of its priority.                  *)
QueuedSomewhere ==
  \A r \in Requests : call[r] = "queued" =>
    \E i \in 1..Len(queues[PriorityOf[r]]) : queues[PriorityOf[r]][i] = r

(* What ran since any request, and what the bucket still holds, is covered by *)
(* a full bucket at that request and what it was given since.                 *)
BucketCovers ==
  \A i \in DOMAIN executed :
    (Len(executed) - i + 1) * TokenUnits + tokens
      <= capacity * TokenUnits + (lastRefill - executed[i].at) * Refill

(* Requests ran at times up to the last refill.                               *)
ExecutedBefore ==
  executed \in Seq([request : Requests, at : 0..lastRefill])

(* A caller that is to try has an attempt left.                               *)
AttemptsLeft ==
  \A r \in Requests :
    /\ call[r] = "idle" => attempt[r] = 0
    /\ call[r] = "backoff" => attempt[r] < maxAttempts

IInv ==
  /\ RequestSchedulerTypeOK
  /\ AttemptsLeft
  /\ ExecutedBefore
  /\ QueuedSomewhere
  /\ worker = "idle" => \A p \in 0..2 : queues[p] = <<>>
  /\ BucketCovers
  /\ RateBounded

-----------------------------------------------------------------------------
(* Arithmetic.                                                                *)

LEMMA LeastOf ==
  ASSUME NEW a \in Nat, NEW b \in Nat
  PROVE  Least(a, b) \in Nat /\ Least(a, b) <= a /\ Least(a, b) <= b
         /\ (Least(a, b) = a \/ Least(a, b) = b)
BY DEF Least

LEMMA DivBounds ==
  ASSUME NEW a \in Nat, NEW b \in Nat \ {0}
  PROVE  a \div b \in Nat /\ (a \div b) * b <= a /\ a < (a \div b) * b + b
OBVIOUS

(* Rounding a quotient up does not make it more than was divided.             *)
LEMMA CeilDivBounds ==
  ASSUME NEW a \in Nat \ {0}, NEW b \in Nat \ {0}
  PROVE  CeilDiv(a, b) \in Nat /\ CeilDiv(a, b) <= a
<1> DEFINE q == (a + b - 1) \div b
<1>1. q \in Nat /\ q * b <= a + b - 1
  BY DivBounds
<1>2. CASE q >= a + 1
  <2>1. PICK d \in Nat : q = a + 1 + d
    <3>1. q - a - 1 \in Nat /\ q = a + 1 + (q - a - 1)
      BY <1>1, <1>2
    <3> QED
      BY <3>1
  <2>2. PICK e \in Nat : b = e + 1
    <3>1. b - 1 \in Nat /\ b = (b - 1) + 1
      OBVIOUS
    <3> QED
      BY <3>1
  <2> HIDE DEF q
  <2>3. q * b = (a * e + d * e) + (a + d) + (e + 1)
    BY <2>1, <2>2
  <2>4. a * e \in Nat /\ d * e \in Nat
    BY <2>1, <2>2
  <2> QED
    BY <1>1, <2>1, <2>2, <2>3, <2>4
<1>3. q <= a
  BY <1>1, <1>2
<1> QED
  BY <1>1, <1>3 DEF CeilDiv

(* A sequence without its first k elements.                                   *)
LEMMA RestOf ==
  ASSUME NEW S, NEW s \in Seq(S), NEW k \in 0..Len(s)
  PROVE  /\ SubSeq(s, k + 1, Len(s)) \in Seq(S)
         /\ Len(SubSeq(s, k + 1, Len(s))) = Len(s) - k
         /\ DOMAIN SubSeq(s, k + 1, Len(s)) = 1..(Len(s) - k)
         /\ \A i \in 1..(Len(s) - k) : SubSeq(s, k + 1, Len(s))[i] = s[k + i]
<1> DEFINE n == Len(s)
           rest == SubSeq(s, k + 1, n)
<1>1. n \in Nat /\ k \in Nat /\ k <= n
  OBVIOUS
<1>2. \A i \in (k + 1)..n : s[i] \in S
  BY <1>1
<1>3. k + 1 \in Int /\ n \in Int
  BY <1>1
<1> HIDE DEF n
<1>4. /\ rest \in Seq(S) /\ Len(rest) = (IF k + 1 <= n THEN n - (k + 1) + 1 ELSE 0)
      /\ \A i \in 1..(n - (k + 1) + 1) : rest[i] = s[(k + 1) + i - 1]
  BY <1>2, <1>3, SubSeqProperties
<1> HIDE DEF rest
<1>5. n - (k + 1) + 1 = n - k /\ (IF k + 1 <= n THEN n - (k + 1) + 1 ELSE 0) = n - k
  BY <1>1
<1>6. ASSUME NEW i \in 1..(n - k)
      PROVE  rest[i] = s[k + i]
  <2>1. (k + 1) + i - 1 = k + i
    BY <1>1
  <2> QED
    BY <1>4, <1>5, <2>1
<1>7. rest \in Seq(S) /\ Len(rest) = n - k /\ DOMAIN rest = 1..(n - k)
  BY <1>4, <1>5
<1> QED
  BY <1>6, <1>7 DEF rest, n

-----------------------------------------------------------------------------
(* What a run of the worker does.                                             *)

Types == RequestSchedulerConstants /\ RequestSchedulerTypeOK

(* The bucket never holds more than its capacity, nor than it was given.      *)
LEMMA FilledBounds ==
  ASSUME Types
  PROVE  /\ Filled \in 0..(capacity * TokenUnits)
         /\ Filled <= tokens + (now - lastRefill) * Refill
<1>1. capacity * TokenUnits \in Nat /\ (now - lastRefill) * Refill \in Nat /\ tokens \in Nat
  BY DEF Types, RequestSchedulerConstants, RequestSchedulerTypeOK
<1> DEFINE given == tokens + (now - lastRefill) * Refill
           full == capacity * TokenUnits
<1>2. given \in Nat /\ full \in Nat /\ Filled = Least(full, given)
  BY <1>1 DEF Filled
<1> HIDE DEF given, full
<1>3. Filled \in 0..full /\ Filled <= given
  BY <1>2, LeastOf
<1> QED
  BY <1>3 DEF given, full

(* Where the entries of two sequences, or three, are, one after the other.    *)
LEMMA ConcatEntries ==
  ASSUME NEW S, NEW s \in Seq(S), NEW t \in Seq(S)
  PROVE  /\ s \o t \in Seq(S) /\ Len(s \o t) = Len(s) + Len(t)
         /\ \A i \in 1..Len(s) : (s \o t)[i] = s[i]
         /\ \A i \in 1..Len(t) : (s \o t)[Len(s) + i] = t[i]
<1>1. \A i \in 1..Len(s) + Len(t) :
        (s \o t)[i] = IF i <= Len(s) THEN s[i] ELSE t[i - Len(s)]
  OBVIOUS
<1>2. \A i \in 1..Len(t) : ~(Len(s) + i <= Len(s)) /\ (Len(s) + i) - Len(s) = i
                          /\ Len(s) + i \in 1..Len(s) + Len(t)
  OBVIOUS
<1>3. Len(s) \in Nat /\ Len(t) \in Nat
  OBVIOUS
<1>4. \A i \in 1..Len(t) : (s \o t)[Len(s) + i] = t[i]
  BY ONLY <1>1, <1>2
<1>5. \A i \in 1..Len(s) : (s \o t)[i] = s[i]
  BY ONLY <1>1, <1>3
<1> QED
  BY <1>4, <1>5

LEMMA ThreeParts ==
  ASSUME NEW S, NEW a \in Seq(S), NEW b \in Seq(S), NEW c \in Seq(S),
         NEW w, w = a \o b \o c
  PROVE  /\ w \in Seq(S) /\ Len(w) = Len(a) + Len(b) + Len(c)
         /\ \A i \in 1..Len(a) : w[i] = a[i]
         /\ \A i \in 1..Len(b) : w[Len(a) + i] = b[i]
         /\ \A i \in 1..Len(c) : w[Len(a) + Len(b) + i] = c[i]
<1> DEFINE front == a \o b
<1>1. front \in Seq(S)
  BY ConcatEntries
<1>2. /\ Len(front) = Len(a) + Len(b)
      /\ \A i \in 1..Len(a) : front[i] = a[i]
      /\ \A i \in 1..Len(b) : front[Len(a) + i] = b[i]
  BY ConcatEntries
<1>3. w = front \o c
  OBVIOUS
<1> HIDE DEF front
<1>4. /\ w \in Seq(S) /\ Len(w) = Len(front) + Len(c)
      /\ \A i \in 1..Len(front) : w[i] = front[i]
      /\ \A i \in 1..Len(c) : w[Len(front) + i] = c[i]
  <2>1. /\ front \o c \in Seq(S) /\ Len(front \o c) = Len(front) + Len(c)
        /\ \A i \in 1..Len(front) : (front \o c)[i] = front[i]
        /\ \A i \in 1..Len(c) : (front \o c)[Len(front) + i] = c[i]
    BY <1>1, ConcatEntries
  <2> QED
    BY ONLY <1>3, <2>1
<1>5. Len(a) \in Nat /\ Len(b) \in Nat /\ Len(c) \in Nat
  OBVIOUS
<1>6. ASSUME NEW i \in 1..Len(a)
      PROVE  w[i] = a[i]
  <2>1. i \in 1..Len(front)
    BY ONLY <1>2, <1>5, <1>6
  <2> QED
    BY ONLY <1>2, <1>4, <2>1, <1>6
<1>7. ASSUME NEW i \in 1..Len(b)
      PROVE  w[Len(a) + i] = b[i]
  <2>1. Len(a) + i \in 1..Len(front)
    BY ONLY <1>2, <1>5, <1>7
  <2> QED
    BY ONLY <1>2, <1>4, <2>1, <1>7
<1> QED
  BY <1>2, <1>4, <1>6, <1>7

(* The waiting requests are the three queues, one after the other.            *)
LEMMA WaitingParts ==
  ASSUME Types
  PROVE  /\ Waiting \in Seq(Requests)
         /\ Len(Waiting) = Len(queues[0]) + Len(queues[1]) + Len(queues[2])
         /\ \A p \in 0..2 :
              /\ queues[p] \in Seq(Requests)
              /\ Before(p) \in Nat
              /\ Before(p) + Len(queues[p]) <= Len(Waiting)
              /\ \A i \in 1..Len(queues[p]) : Waiting[Before(p) + i] = queues[p][i]
<1> DEFINE a == queues[0]
           b == queues[1]
           c == queues[2]
           w == Waiting
           Part(p) ==
             /\ queues[p] \in Seq(Requests) /\ Before(p) \in Nat
             /\ Before(p) + Len(queues[p]) <= Len(Waiting)
             /\ \A i \in 1..Len(queues[p]) : Waiting[Before(p) + i] = queues[p][i]
<1>1. /\ a \in Seq(Requests) /\ b \in Seq(Requests) /\ c \in Seq(Requests)
      /\ w = a \o b \o c
      /\ Before(0) = 0 /\ Before(1) = Len(a) + 0 /\ Before(2) = Len(a) + Len(b)
  BY DEF Types, RequestSchedulerTypeOK, Waiting, Before
<1> HIDE DEF a, b, c, w
<1>2. /\ w \in Seq(Requests) /\ Len(w) = Len(a) + Len(b) + Len(c)
      /\ \A i \in 1..Len(a) : w[i] = a[i]
      /\ \A i \in 1..Len(b) : w[Len(a) + i] = b[i]
      /\ \A i \in 1..Len(c) : w[Len(a) + Len(b) + i] = c[i]
  BY <1>1, ThreeParts
<1>3. Len(a) \in Nat /\ Len(b) \in Nat /\ Len(c) \in Nat
  BY <1>1
<1>4. /\ Before(0) \in Nat /\ Before(0) + Len(a) <= Len(w)
      /\ Before(1) \in Nat /\ Before(1) + Len(b) <= Len(w)
      /\ Before(2) \in Nat /\ Before(2) + Len(c) <= Len(w)
  <2>1. Len(w) = Len(a) + Len(b) + Len(c)
    BY <1>2
  <2> QED
    BY ONLY <1>1, <1>3, <2>1
<1>5. /\ \A i \in 1..Len(a) : w[Before(0) + i] = a[i]
      /\ \A i \in 1..Len(b) : w[Before(1) + i] = b[i]
      /\ \A i \in 1..Len(c) : w[Before(2) + i] = c[i]
  <2>1. \A i \in 1..Len(a) : Before(0) + i = i
    BY <1>1
  <2>2. Before(1) = Len(a)
    BY <1>1, <1>3
  <2> QED
    BY <1>1, <1>2, <2>1, <2>2
<1>6. Part(0) /\ Part(1) /\ Part(2)
  BY <1>1, <1>4, <1>5 DEF a, b, c, w
<1>7. \A p \in 0..2 : Part(p)
  <2> HIDE DEF Part
  <2> QED
    BY <1>6
<1> QED
  BY <1>2, <1>7 DEF a, b, c, w

(* As many requests run as there are tokens for.                              *)
LEMMA AffordableBounds ==
  ASSUME Types
  PROVE  /\ Affordable \in Nat /\ Affordable <= Len(Waiting)
         /\ Affordable * TokenUnits <= Filled
         /\ Affordable # Len(Waiting) => Filled - Affordable * TokenUnits < TokenUnits
<1>1. Filled \in Nat /\ TokenUnits \in Nat \ {0} /\ Len(Waiting) \in Nat
  BY FilledBounds, WaitingParts DEF Types, RequestSchedulerConstants
<1> DEFINE d == Filled \div TokenUnits
<1>2. d \in Nat /\ d * TokenUnits <= Filled /\ Filled < d * TokenUnits + TokenUnits
  BY <1>1, DivBounds
<1>3. Affordable = Least(Len(Waiting), d)
  BY DEF Affordable
<1> HIDE DEF d
<1>4. Affordable \in Nat /\ Affordable <= Len(Waiting) /\ Affordable <= d
      /\ (Affordable = Len(Waiting) \/ Affordable = d)
  BY <1>1, <1>2, <1>3, LeastOf
<1>5. Affordable * TokenUnits <= d * TokenUnits
  <2>1. PICK e \in Nat : d = Affordable + e
    <3>1. d - Affordable \in Nat /\ d = Affordable + (d - Affordable)
      BY <1>2, <1>4
    <3> QED
      BY <3>1
  <2>2. d * TokenUnits = Affordable * TokenUnits + e * TokenUnits
    BY <1>1, <1>4, <2>1
  <2>3. e * TokenUnits \in Nat /\ Affordable * TokenUnits \in Nat
    BY <1>1, <1>4
  <2> QED
    BY <2>2, <2>3
<1>6. Affordable * TokenUnits \in Nat /\ d * TokenUnits \in Nat
  BY <1>1, <1>2, <1>4
<1> QED
  BY <1>1, <1>2, <1>4, <1>5, <1>6

(* What is taken from the front of a queue has run.                           *)
LEMMA TakenBounds ==
  ASSUME Types, NEW p \in 0..2
  PROVE  /\ Taken(p) \in 0..Len(queues[p])
         /\ \A i \in 1..Len(queues[p]) : i <= Taken(p) => Before(p) + i <= Affordable
         /\ \A i \in 1..Len(queues[p]) : Before(p) + i > Affordable => i > Taken(p)
         /\ Affordable = Len(Waiting) => Taken(p) = Len(queues[p])
<1>1. Affordable \in Nat /\ Before(p) \in Nat /\ Len(queues[p]) \in Nat /\ Len(Waiting) \in Nat
      /\ Before(p) + Len(queues[p]) <= Len(Waiting)
  BY AffordableBounds, WaitingParts
<1> QED
  BY <1>1 DEF Taken, Least

-----------------------------------------------------------------------------
(* The worker keeps the invariant.                                            *)

LEMMA ProcessQueueTypes ==
  ASSUME RequestSchedulerConstants, IInv, ProcessQueue
  PROVE  RequestSchedulerTypeOK'
<1> USE DEF RequestSchedulerConstants
<1>1. Types /\ RequestSchedulerTypeOK
  BY DEF Types, IInv
<1>2. now' = now /\ lastRefill' = now /\ attempt' = attempt
      /\ tokens' = Filled - Affordable * TokenUnits
  BY DEF ProcessQueue
<1>3. tokens' \in 0..(capacity * TokenUnits)
  <2>1. Affordable * TokenUnits \in Nat /\ capacity * TokenUnits \in Nat
    BY <1>1, AffordableBounds
  <2> QED
    BY <1>1, <1>2, <2>1, FilledBounds, AffordableBounds
<1>4. queues' \in [0..2 -> Seq(Requests)]
      /\ \A p \in 0..2 : \A i \in DOMAIN queues'[p] : PriorityOf[queues'[p][i]] = p
  <2>1. queues' = [p \in 0..2 |-> SubSeq(queues[p], Taken(p) + 1, Len(queues[p]))]
    BY DEF ProcessQueue
  <2>2. ASSUME NEW p \in 0..2
        PROVE  /\ queues'[p] \in Seq(Requests)
               /\ \A i \in DOMAIN queues'[p] : PriorityOf[queues'[p][i]] = p
    <3> DEFINE q == queues[p]
               k == Taken(p)
    <3>1. q \in Seq(Requests) /\ k \in 0..Len(q) /\ queues'[p] = SubSeq(q, k + 1, Len(q))
      BY <1>1, <2>1, TakenBounds, WaitingParts
    <3>2. \A i \in 1..Len(q) : PriorityOf[q[i]] = p
      <4>1. \A i \in DOMAIN queues[p] : PriorityOf[queues[p][i]] = p
        BY <1>1 DEF RequestSchedulerTypeOK
      <4>2. DOMAIN q = 1..Len(q)
        BY <3>1
      <4> QED
        BY <4>1, <4>2
    <3> HIDE DEF q, k
    <3>3. /\ queues'[p] \in Seq(Requests) /\ DOMAIN queues'[p] = 1..(Len(q) - k)
          /\ \A i \in 1..(Len(q) - k) : queues'[p][i] = q[k + i]
      BY <3>1, RestOf
    <3>4. \A i \in 1..(Len(q) - k) : k + i \in 1..Len(q)
      <4>1. Len(q) \in Nat /\ k \in Nat /\ k <= Len(q)
        BY <3>1
      <4> QED
        BY <4>1
    <3> QED
      BY <3>2, <3>3, <3>4
  <2> QED
    BY <2>1, <2>2
<1>5. worker' \in {"idle", "called", "waiting"} /\ wakeAt' \in 0..(MaxTime + TokenUnits)
  <2>1. CASE Affordable = Len(Waiting)
    <3>1. worker' = "idle" /\ wakeAt' = 0
      BY <2>1 DEF ProcessQueue
    <3>2. 0 \in 0..(MaxTime + TokenUnits)
      OBVIOUS
    <3> QED
      BY <3>1, <3>2
  <2>2. CASE Affordable # Len(Waiting)
    <3>1. TokenUnits - tokens' \in Nat \ {0} /\ TokenUnits - tokens' <= TokenUnits
      <4>1. Filled - Affordable * TokenUnits < TokenUnits
        BY <1>1, <2>2, AffordableBounds
      <4> QED
        BY <1>2, <1>3, <4>1
    <3>2. CeilDiv(TokenUnits - tokens', Refill) \in 0..TokenUnits
      BY <3>1, CeilDivBounds
    <3>3. worker' = "waiting" /\ wakeAt' = now + CeilDiv(TokenUnits - tokens', Refill)
      BY <2>2 DEF ProcessQueue
    <3>4. now \in 0..MaxTime /\ MaxTime \in Nat /\ TokenUnits \in Nat
      BY <1>1 DEF RequestSchedulerTypeOK
    <3> HIDE DEF RequestSchedulerConstants
    <3> QED
      BY <3>2, <3>3, <3>4
  <2> QED
    BY <2>1, <2>2
<1>6. call' \in [Requests -> {"idle", "queued", "running", "backoff", "done", "failed"}]
  BY <1>1 DEF RequestSchedulerTypeOK, ProcessQueue
<1>7. /\ now' \in 0..MaxTime /\ lastRefill' \in 0..now'
      /\ attempt' \in [Requests -> 0..maxAttempts]
  BY <1>1, <1>2 DEF RequestSchedulerTypeOK
<1> HIDE DEF RequestSchedulerConstants
<1> QED
  BY <1>3, <1>4, <1>5, <1>6, <1>7 DEF RequestSchedulerTypeOK

(* What has not run stays in its queue.                                       *)
LEMMA ProcessQueueWakes ==
  ASSUME RequestSchedulerConstants, IInv, ProcessQueue
  PROVE  QueuedSomewhere' /\ (worker' = "idle" => \A p \in 0..2 : queues'[p] = <<>>)
<1>1. Types
  BY DEF Types, IInv
<1>2. queues' = [p \in 0..2 |-> SubSeq(queues[p], Taken(p) + 1, Len(queues[p]))]
  BY DEF ProcessQueue
<1>3. ASSUME NEW r \in Requests, call'[r] = "queued"
      PROVE  \E i \in 1..Len(queues'[PriorityOf[r]]) : queues'[PriorityOf[r]][i] = r
  <2>1. call[r] = "queued" /\ ~\E i \in 1..Affordable : Waiting[i] = r
    BY <1>3 DEF ProcessQueue
  <2> DEFINE p == PriorityOf[r]
             q == queues[p]
             k == Taken(p)
  <2>2. p \in 0..2
    BY DEF RequestSchedulerConstants
  <2>3. PICK i \in 1..Len(q) : q[i] = r
    BY <2>1 DEF IInv, QueuedSomewhere
  <2>4. /\ q \in Seq(Requests) /\ k \in 0..Len(q) /\ Before(p) \in Nat /\ Affordable \in Nat
        /\ Waiting[Before(p) + i] = r
    BY <1>1, <2>2, <2>3, WaitingParts, TakenBounds, AffordableBounds
  <2>5. ~(Before(p) + i <= Affordable)
    BY <2>1, <2>3, <2>4
  <2>6. i > k
    <3>1. \A j \in 1..Len(q) : Before(p) + j > Affordable => j > k
      BY <1>1, <2>2, TakenBounds
    <3> HIDE DEF p, q, k
    <3>2. Before(p) + i > Affordable
      BY <2>4, <2>5
    <3> QED
      BY <3>1, <3>2
  <2>7. queues'[p] = SubSeq(q, k + 1, Len(q))
    BY <1>2, <2>2
  <2> HIDE DEF p, q, k
  <2>8. i - k \in 1..(Len(q) - k) /\ k + (i - k) = i
    <3>1. Len(q) \in Nat /\ k \in Nat /\ i \in Nat /\ i <= Len(q)
      BY <2>3, <2>4
    <3> QED
      BY <2>6, <3>1
  <2>9. \E m \in 1..Len(queues'[p]) : queues'[p][m] = r
    <3>1. /\ Len(queues'[p]) = Len(q) - k
          /\ \A m \in 1..(Len(q) - k) : queues'[p][m] = q[k + m]
      BY <2>4, <2>7, RestOf
    <3>2. queues'[p][i - k] = r
      BY <2>3, <2>8, <3>1
    <3> QED
      BY <2>8, <3>1, <3>2
  <2> QED
    BY <2>9 DEF p
<1>4. ASSUME worker' = "idle", NEW p \in 0..2
      PROVE  queues'[p] = <<>>
  <2>1. Affordable = Len(Waiting)
    BY <1>4 DEF ProcessQueue
  <2>2. queues[p] \in Seq(Requests) /\ Taken(p) = Len(queues[p])
    BY <1>1, <2>1, TakenBounds, WaitingParts
  <2>3. queues'[p] = SubSeq(queues[p], Len(queues[p]) + 1, Len(queues[p]))
    BY <1>2, <2>2
  <2> QED
    BY <2>2, <2>3
<1> QED
  BY <1>3, <1>4 DEF QueuedSomewhere

(* What ran, by its entries.                                                  *)
LEMMA ExecutedTypes ==
  ASSUME ExecutedBefore, lastRefill \in Nat
  PROVE  /\ Len(executed) \in Nat /\ DOMAIN executed = 1..Len(executed)
         /\ \A i \in 1..Len(executed) :
              executed[i].at \in Nat /\ executed[i].at <= lastRefill
<1> DEFINE Entries == [request : Requests, at : 0..lastRefill]
<1>1. executed \in Seq(Entries)
  BY DEF ExecutedBefore
<1>2. \A e \in Entries : e.at \in Nat /\ e.at <= lastRefill
  OBVIOUS
<1> HIDE DEF Entries
<1> QED
  BY <1>1, <1>2

(* What runs is added to what ran, at the present time.                       *)
LEMMA ExecutedAfter ==
  ASSUME RequestSchedulerConstants, IInv, ProcessQueue
  PROVE  /\ ExecutedBefore'
         /\ Len(executed') = Len(executed) + Affordable
         /\ \A i \in 1..Len(executed) : executed'[i] = executed[i]
         /\ \A i \in 1..Affordable : executed'[Len(executed) + i].at = now
<1> DEFINE Entries == [request : Requests, at : 0..now]
           Earlier == [request : Requests, at : 0..lastRefill]
           n == Affordable
           entry(i) == [request |-> Waiting[i], at |-> now]
           ran == [i \in 1..n |-> entry(i)]
           old == executed
<1>1. Types
  BY DEF Types, IInv
<1>2. now \in Nat /\ lastRefill \in 0..now
  BY <1>1 DEF Types, RequestSchedulerTypeOK, RequestSchedulerConstants
<1>3. n \in Nat
  BY <1>1, AffordableBounds
<1>4. ASSUME NEW i \in 1..n
      PROVE  Waiting[i] \in Requests
  <2>1. Waiting \in Seq(Requests) /\ i \in 1..Len(Waiting)
    <3> DEFINE w == Len(Waiting)
    <3>1. w \in Nat /\ n <= w
      BY <1>1, WaitingParts, AffordableBounds
    <3> HIDE DEF w, n
    <3>2. i \in 1..w
      BY <1>3, <3>1
    <3> QED
      BY <1>1, <3>2, WaitingParts DEF w
  <2> QED
    BY ONLY <2>1
<1>5. old \in Seq(Entries)
  <2>1. \A e \in Earlier : e \in Entries
    BY <1>2
  <2>2. old \in Seq(Earlier)
    BY DEF IInv, ExecutedBefore
  <2> HIDE DEF old, Earlier, Entries
  <2> QED
    BY <2>1, <2>2
<1>6. executed' = old \o ran /\ lastRefill' = now
  BY DEF ProcessQueue
<1>7. \A i \in 1..n : entry(i) \in Entries /\ entry(i).at = now
  BY <1>2, <1>4
<1> HIDE DEF Entries, old, n, entry
<1>8. ran \in Seq(Entries)
  BY <1>3, <1>7
<1>8a. Len(ran) = n /\ \A i \in 1..n : ran[i].at = now
  BY <1>3, <1>7
<1> HIDE DEF ran
<1>9. /\ old \o ran \in Seq(Entries) /\ Len(old \o ran) = Len(old) + Len(ran)
      /\ \A i \in 1..Len(old) : (old \o ran)[i] = old[i]
      /\ \A i \in 1..Len(ran) : (old \o ran)[Len(old) + i] = ran[i]
  BY ONLY <1>5, <1>8, ConcatEntries
<1>10. /\ executed' \in Seq(Entries) /\ Len(executed') = Len(old) + n
       /\ \A i \in 1..Len(old) : executed'[i] = old[i]
       /\ \A i \in 1..n : executed'[Len(old) + i].at = now
  BY ONLY <1>6, <1>8a, <1>9
<1> QED
  BY <1>6, <1>10 DEF Entries, old, n, ExecutedBefore

(* The arithmetic of a run: what is due since is added to both sides.         *)
LEMMA CoversAgain ==
  ASSUME NEW full \in Nat, NEW unit \in Nat, NEW rate \in Nat,
         NEW count \in Int, NEW n \in Nat, NEW at \in Nat, NEW last \in Nat, NEW time \in Nat,
         NEW held \in Nat, NEW filled \in Nat,
         count * unit + held <= full + (last - at) * rate,
         filled <= held + (time - last) * rate
  PROVE  (count + n) * unit + (filled - n * unit) <= full + (time - at) * rate
<1>1. (count + n) * unit + (filled - n * unit) = count * unit + filled
  OBVIOUS
<1>2. (time - at) * rate = (last - at) * rate + (time - last) * rate
  OBVIOUS
<1>3. /\ count * unit \in Int /\ (last - at) * rate \in Int
      /\ (time - last) * rate \in Int
  OBVIOUS
<1> QED
  BY <1>1, <1>2, <1>3

(* A run of the worker spends what it counts.                                 *)
LEMMA ProcessQueueCovers ==
  ASSUME RequestSchedulerConstants, IInv, ProcessQueue
  PROVE  BucketCovers'
<1> DEFINE n == Affordable
           l == Len(executed)
           full == capacity * TokenUnits
<1>1. Types
  BY DEF Types, IInv
<1>2. now \in Nat /\ lastRefill \in Nat /\ tokens \in Nat
      /\ TokenUnits \in Nat /\ Refill \in Nat /\ full \in Nat
  BY <1>1 DEF Types, RequestSchedulerTypeOK, RequestSchedulerConstants
<1>3. n \in Nat /\ Filled \in Nat /\ Filled <= full
      /\ Filled <= tokens + (now - lastRefill) * Refill
  BY <1>1, <1>2, AffordableBounds, FilledBounds
<1>4. l \in Nat /\ DOMAIN executed = 1..l
      /\ \A i \in 1..l : executed[i].at \in Nat
  BY <1>2, ExecutedTypes DEF IInv
<1>5. ExecutedBefore' /\ lastRefill' = now /\ tokens' = Filled - n * TokenUnits
  BY ExecutedAfter DEF ProcessQueue
<1>6. /\ Len(executed') = l + n
      /\ \A i \in 1..l : executed'[i] = executed[i]
      /\ \A i \in 1..n : executed'[l + i].at = now
  BY ExecutedAfter
<1>7. DOMAIN executed' = 1..l + n
  <2>1. executed' \in Seq([request : Requests, at : 0..now])
    BY <1>5 DEF ExecutedBefore
  <2> QED
    BY <1>6, <2>1
<1>8. \A i \in 1..l : (l - i + 1) * TokenUnits + tokens
                        <= full + (lastRefill - executed[i].at) * Refill
  BY <1>4 DEF IInv, BucketCovers
<1> HIDE DEF n, l, full
<1>9. ASSUME NEW i \in 1..l + n
      PROVE  (l + n - i + 1) * TokenUnits + (Filled - n * TokenUnits)
               <= full + (now - executed'[i].at) * Refill
  <2>1. CASE i <= l
    <3>1. i \in 1..l /\ l - i + 1 \in Int /\ l + n - i + 1 = (l - i + 1) + n
      BY <1>3, <1>4, <2>1
    <3>2. executed'[i] = executed[i] /\ executed[i].at \in Nat
      BY <1>4, <1>6, <3>1
    <3>3. (l - i + 1) * TokenUnits + tokens <= full + (lastRefill - executed[i].at) * Refill
      BY <1>8, <3>1
    <3>4. ((l - i + 1) + n) * TokenUnits + (Filled - n * TokenUnits)
            <= full + (now - executed[i].at) * Refill
      BY <1>2, <1>3, <3>1, <3>2, <3>3, CoversAgain
    <3> QED
      BY <3>1, <3>2, <3>4
  <2>2. CASE i > l
    <3>1. PICK k \in 1..n : i = l + k
      <4>1. i - l \in 1..n /\ i = l + (i - l)
        BY <1>3, <1>4, <2>2
      <4> QED
        BY <4>1
    <3>2. executed'[i].at = now
      BY <1>6, <3>1
    <3>3. PICK d \in Nat : k = d + 1
      <4>1. k - 1 \in Nat /\ k = (k - 1) + 1
        BY <1>3
      <4> QED
        BY <4>1
    <3>4. l + n - i + 1 = n - d
      BY <1>3, <1>4, <3>1, <3>3
    <3>5. (n - d) * TokenUnits + (Filled - n * TokenUnits) = Filled - d * TokenUnits
      BY <1>2, <1>3, <3>3
    <3>6. d * TokenUnits \in Nat /\ (now - now) * Refill = 0
      BY <1>2, <3>3
    <3> QED
      BY <1>2, <1>3, <3>2, <3>4, <3>5, <3>6
  <2> QED
    BY <1>3, <1>4, <2>1, <2>2
<1>10. ASSUME NEW i \in DOMAIN executed'
       PROVE  (Len(executed') - i + 1) * TokenUnits + tokens'
                <= capacity * TokenUnits + (lastRefill' - executed'[i].at) * Refill
  <2>1. i \in 1..l + n
    BY <1>7
  <2>2. Len(executed') = l + n /\ tokens' = Filled - n * TokenUnits /\ lastRefill' = now
        /\ capacity * TokenUnits = full
    BY <1>5, <1>6 DEF full
  <2> QED
    BY ONLY <1>2, <1>3, <1>4, <1>9, <2>1, <2>2
<1> QED
  BY <1>10 DEF BucketCovers

(* What the bucket covers bounds the rate: requests that ran together are     *)
(* among those that ran since the first of them.                              *)
LEMMA CoversFewer ==
  ASSUME NEW unit \in Nat, NEW count \in Int, NEW more \in Nat, NEW held \in Nat,
         NEW bound \in Int, (count + more) * unit + held <= bound
  PROVE  count * unit <= bound
<1>1. (count + more) * unit = count * unit + more * unit
  OBVIOUS
<1>2. more * unit \in Nat /\ count * unit \in Int
  OBVIOUS
<1> QED
  BY <1>1, <1>2

LEMMA ProcessQueueRate ==
  ASSUME RequestSchedulerConstants, IInv, ProcessQueue
  PROVE  RateBounded'
<1> DEFINE n == Affordable
           l == Len(executed)
           full == capacity * TokenUnits
<1>1. Types
  BY DEF Types, IInv
<1>2. now \in Nat /\ lastRefill \in Nat /\ TokenUnits \in Nat /\ Refill \in Nat
      /\ full \in Nat
  BY <1>1 DEF Types, RequestSchedulerTypeOK, RequestSchedulerConstants
<1>3. n \in Nat /\ l \in Nat /\ DOMAIN executed = 1..l
  BY <1>1, <1>2, AffordableBounds, ExecutedTypes DEF IInv
<1>4. lastRefill' = now /\ tokens' \in Nat
  <2>1. RequestSchedulerTypeOK'
    BY ProcessQueueTypes
  <2>2. capacity * TokenUnits \in Nat
    BY <1>2
  <2> QED
    BY <2>1, <2>2 DEF RequestSchedulerTypeOK, ProcessQueue
<1>5. /\ Len(executed') = l + n
      /\ \A i \in 1..l : executed'[i] = executed[i]
      /\ \A i \in 1..n : executed'[l + i].at = now
  BY ExecutedAfter
<1>6. DOMAIN executed' = 1..l + n /\ \A i \in 1..l + n : executed'[i].at \in Nat
  <2> DEFINE Entries == [request : Requests, at : 0..now]
  <2>1. executed' \in Seq(Entries)
    BY <1>4, ExecutedAfter DEF ExecutedBefore
  <2>2. \A e \in Entries : e.at \in Nat
    OBVIOUS
  <2> HIDE DEF n, l, Entries
  <2>3. DOMAIN executed' = 1..l + n
    BY <1>5, <2>1
  <2>4. \A i \in DOMAIN executed' : executed'[i] \in Entries
    BY <2>1
  <2> QED
    BY <2>2, <2>3, <2>4
<1>7. \A i, j \in 1..l : i <= j =>
        (j - i + 1) * TokenUnits <= full + (executed[j].at - executed[i].at) * Refill
  BY <1>3 DEF IInv, RateBounded
<1> DEFINE CoveredAt(last, at, i) ==
             (last - i + 1) * TokenUnits + tokens' <= full + (at - executed'[i].at) * Refill
<1>8. \A i \in 1..l + n : CoveredAt(l + n, now, i)
  <2>1. \A i \in DOMAIN executed' : CoveredAt(Len(executed'), lastRefill', i)
    BY ProcessQueueCovers DEF BucketCovers
  <2>2. Len(executed') = l + n /\ lastRefill' = now /\ DOMAIN executed' = 1..l + n
    BY <1>4, <1>5, <1>6
  <2> HIDE DEF n, l, full, CoveredAt
  <2> QED
    BY <2>1, <2>2
<1> HIDE DEF n, l, full
<1>9. ASSUME NEW i \in 1..l + n, NEW j \in 1..l + n, i <= j
      PROVE  (j - i + 1) * TokenUnits
               <= full + (executed'[j].at - executed'[i].at) * Refill
  <2>1. CASE j <= l
    <3>1. i \in 1..l /\ j \in 1..l
      BY <1>3, <1>9, <2>1
    <3>2. executed'[i] = executed[i] /\ executed'[j] = executed[j]
      BY <1>5, <3>1
    <3> QED
      BY <1>7, <1>9, <3>1, <3>2
  <2>2. CASE j > l
    <3>1. j - l \in 1..n /\ j = l + (j - l)
      BY <1>3, <2>2
    <3>2. executed'[j].at = now
      BY <1>5, <3>1
    <3>3. (now - executed'[i].at) * Refill \in Int
      BY <1>2, <1>6
    <3>4. (l + n) - j \in Nat /\ j - i + 1 \in Int
          /\ (l + n) - i + 1 = (j - i + 1) + ((l + n) - j)
      BY <1>3
    <3> DEFINE Fits(m) == m * TokenUnits + tokens' <= full + (now - executed'[i].at) * Refill
    <3>5. Fits((j - i + 1) + ((l + n) - j))
      <4>1. CoveredAt(l + n, now, i)
        BY <1>8
      <4>2. Fits((l + n) - i + 1)
        BY <4>1, Zenon
      <4> HIDE DEF Fits, CoveredAt
      <4> QED
        BY <3>4, <4>2
    <3>6. full + (now - executed'[i].at) * Refill \in Int
      BY <1>2, <3>3
    <3>7. (j - i + 1) * TokenUnits <= full + (now - executed'[i].at) * Refill
      BY <1>2, <1>4, <3>4, <3>5, <3>6, CoversFewer
    <3> QED
      BY <3>2, <3>7
  <2> QED
    BY <1>3, <2>1, <2>2
<1> QED
  BY <1>6, <1>9 DEF RateBounded, full

LEMMA ProcessQueueKeeps ==
  ASSUME RequestSchedulerConstants, IInv, ProcessQueue
  PROVE  IInv'
<1>1. AttemptsLeft'
  <2>1. attempt' = attempt /\ \A r \in Requests : call'[r] \in {"running", call[r]}
    BY DEF ProcessQueue
  <2> QED
    BY <2>1 DEF IInv, AttemptsLeft
<1> QED
  BY <1>1, ProcessQueueTypes, ProcessQueueWakes, ExecutedAfter, ProcessQueueCovers,
     ProcessQueueRate DEF IInv

-----------------------------------------------------------------------------
(* The other steps.                                                           *)

LEMMA InitKeeps ==
  ASSUME RequestSchedulerConstants, RequestSchedulerInit
  PROVE  IInv
<1> USE DEF RequestSchedulerConstants, RequestSchedulerInit
<1>1. capacity * TokenUnits \in Nat
  OBVIOUS
<1>2. RequestSchedulerTypeOK
  BY <1>1 DEF RequestSchedulerTypeOK
<1>3. ExecutedBefore /\ BucketCovers /\ RateBounded
  BY DEF ExecutedBefore, BucketCovers, RateBounded
<1>4. QueuedSomewhere /\ AttemptsLeft /\ \A p \in 0..2 : queues[p] = <<>>
  BY DEF QueuedSomewhere, AttemptsLeft
<1> QED
  BY <1>2, <1>3, <1>4 DEF IInv

(* A caller's request goes to the end of its queue.                           *)
LEMMA AcquireKeeps ==
  ASSUME RequestSchedulerConstants, IInv, NEW r \in Requests, Acquire(r)
  PROVE  IInv'
<1> USE DEF RequestSchedulerConstants
<1> DEFINE p == PriorityOf[r]
           q == queues[p]
<1>1. RequestSchedulerTypeOK /\ AttemptsLeft
  BY DEF IInv
<1>2. p \in 0..2 /\ q \in Seq(Requests) /\ queues \in [0..2 -> Seq(Requests)]
  BY <1>1 DEF RequestSchedulerTypeOK
<1>3. queues' = [queues EXCEPT ![p] = Append(q, r)]
  BY DEF Acquire
<1>4. queues'[p] = Append(q, r) /\ \A o \in 0..2 \ {p} : queues'[o] = queues[o]
      /\ queues' \in [0..2 -> Seq(Requests)]
  BY <1>2, <1>3
<1>5. /\ Len(Append(q, r)) = Len(q) + 1 /\ Append(q, r)[Len(q) + 1] = r /\ Len(q) \in Nat
      /\ \A i \in 1..Len(q) : Append(q, r)[i] = q[i]
      /\ DOMAIN Append(q, r) = 1..Len(q) + 1 /\ DOMAIN q = 1..Len(q)
  <2> HIDE DEF p, q
  <2> QED
    BY <1>2
<1>6. \A o \in 0..2 : \A i \in DOMAIN queues'[o] : PriorityOf[queues'[o][i]] = o
  <2>1. \A i \in DOMAIN q : PriorityOf[q[i]] = p
    BY <1>1, <1>2 DEF RequestSchedulerTypeOK
  <2>2. \A i \in 1..Len(q) + 1 : PriorityOf[Append(q, r)[i]] = p
    <3> SUFFICES ASSUME NEW i \in 1..Len(q) + 1
                 PROVE  PriorityOf[Append(q, r)[i]] = p
      OBVIOUS
    <3>1. i \in 1..Len(q) \/ i = Len(q) + 1
      BY <1>5
    <3> QED
      BY <1>5, <2>1, <3>1
  <2>3. ASSUME NEW o \in 0..2
        PROVE  \A i \in DOMAIN queues'[o] : PriorityOf[queues'[o][i]] = o
    <3>1. CASE o = p
      BY <1>4, <1>5, <2>2, <3>1
    <3>2. CASE o # p
      <4>1. queues'[o] = queues[o]
        BY <1>4, <3>2
      <4> QED
        BY <1>1, <4>1 DEF RequestSchedulerTypeOK
    <3> QED
      BY <3>1, <3>2
  <2> QED
    BY <2>3
<1>7. attempt' \in [Requests -> 0..maxAttempts] /\ AttemptsLeft'
  <2>1. attempt[r] \in Nat /\ attempt[r] < maxAttempts
    BY <1>1 DEF Acquire, AttemptsLeft, RequestSchedulerTypeOK
  <2>2. /\ attempt \in [Requests -> 0..maxAttempts] /\ maxAttempts \in Nat
        /\ attempt' = [attempt EXCEPT ![r] = @ + 1] /\ call' = [call EXCEPT ![r] = "queued"]
        /\ DOMAIN call = Requests
    BY <1>1 DEF Acquire, RequestSchedulerTypeOK
  <2> HIDE DEF RequestSchedulerConstants
  <2>3. attempt[r] + 1 \in 0..maxAttempts
    BY <2>1, <2>2
  <2>4. attempt' \in [Requests -> 0..maxAttempts]
    BY <2>2, <2>3
  <2>5. ASSUME NEW o \in Requests
        PROVE  /\ call'[o] = "idle" => attempt'[o] = 0
               /\ call'[o] = "backoff" => attempt'[o] < maxAttempts
    <3>1. CASE o = r
      BY <2>2, <3>1
    <3>2. CASE o # r
      <4>1. call'[o] = call[o] /\ attempt'[o] = attempt[o]
        BY <2>2, <3>2
      <4> QED
        BY <1>1, <4>1 DEF AttemptsLeft
    <3> QED
      BY <3>1, <3>2
  <2> QED
    BY <2>4, <2>5 DEF AttemptsLeft
<1>8. RequestSchedulerTypeOK'
  <2>1. UNCHANGED <<now, tokens, lastRefill, wakeAt>> /\ worker' \in {"called", worker}
        /\ call' = [call EXCEPT ![r] = "queued"]
    BY DEF Acquire, Woken
  <2>2. call' \in [Requests -> {"idle", "queued", "running", "backoff", "done", "failed"}]
        /\ worker' \in {"idle", "called", "waiting"}
    BY <1>1, <2>1 DEF RequestSchedulerTypeOK
  <2>3. /\ now' \in 0..MaxTime /\ lastRefill' \in 0..now'
        /\ tokens' \in 0..(capacity * TokenUnits) /\ wakeAt' \in 0..(MaxTime + TokenUnits)
    BY <1>1, <2>1 DEF RequestSchedulerTypeOK
  <2> HIDE DEF p, q, RequestSchedulerConstants
  <2> QED
    BY <1>4, <1>6, <1>7, <2>2, <2>3 DEF RequestSchedulerTypeOK
<1>9. QueuedSomewhere'
  <2> SUFFICES ASSUME NEW o \in Requests, call'[o] = "queued"
               PROVE  \E i \in 1..Len(queues'[PriorityOf[o]]) : queues'[PriorityOf[o]][i] = o
    BY DEF QueuedSomewhere
  <2>1. CASE o = r
    <3>1. Len(q) + 1 \in 1..Len(Append(q, r))
      BY <1>5
    <3> QED
      BY <1>4, <1>5, <2>1, <3>1
  <2>2. CASE o # r
    <3>1. call[o] = "queued"
      BY <1>1, <2>2 DEF Acquire, RequestSchedulerTypeOK
    <3>2. PICK i \in 1..Len(queues[PriorityOf[o]]) : queues[PriorityOf[o]][i] = o
      BY <3>1 DEF IInv, QueuedSomewhere
    <3>3. CASE PriorityOf[o] = p
      <4>1. i \in 1..Len(Append(q, r)) /\ Append(q, r)[i] = o
        BY <1>5, <3>2, <3>3
      <4> QED
        BY <1>4, <3>3, <4>1
    <3>4. CASE PriorityOf[o] # p
      <4>1. queues'[PriorityOf[o]] = queues[PriorityOf[o]]
        BY <1>4, <3>4
      <4> QED
        BY <3>2, <4>1
    <3> QED
      BY <3>3, <3>4
  <2> QED
    BY <2>1, <2>2
<1>10. worker' # "idle"
  BY DEF Acquire, Woken
<1>11. ExecutedBefore' /\ BucketCovers' /\ RateBounded'
  BY DEF Acquire, IInv, ExecutedBefore, BucketCovers, RateBounded
<1> QED
  BY <1>7, <1>8, <1>9, <1>10, <1>11 DEF IInv

(* An outcome takes a caller out of none of the queues.                       *)
LEMMA OutcomeKeeps ==
  ASSUME RequestSchedulerConstants, IInv, NEW r \in Requests,
         Succeeds(r) \/ Fails(r) \/ FailsForGood(r) \/ AnotherRequest(r)
  PROVE  IInv'
<1> USE DEF RequestSchedulerConstants
<1>1. /\ UNCHANGED <<now, tokens, lastRefill, queues, worker, wakeAt, executed>>
      /\ call' = [call EXCEPT ![r] = call'[r]]
      /\ call'[r] \in {"idle", "backoff", "done", "failed"}
      /\ call'[r] = "backoff" => attempt' = attempt /\ attempt[r] < maxAttempts
      /\ call'[r] = "idle" => attempt' = [attempt EXCEPT ![r] = 0]
      /\ call'[r] # "idle" => attempt' = attempt
  BY DEF IInv, RequestSchedulerTypeOK, Succeeds, Fails, FailsForGood, AnotherRequest
<1>2. RequestSchedulerTypeOK'
  <2>1. call' \in [Requests -> {"idle", "queued", "running", "backoff", "done", "failed"}]
    BY <1>1 DEF IInv, RequestSchedulerTypeOK
  <2>2. attempt' \in [Requests -> 0..maxAttempts]
    <3>1. 0 \in 0..maxAttempts /\ attempt \in [Requests -> 0..maxAttempts]
      BY DEF IInv, RequestSchedulerTypeOK
    <3>2. CASE attempt' = attempt
      BY <3>1, <3>2
    <3>3. CASE attempt' = [attempt EXCEPT ![r] = 0]
      BY <3>1, <3>3
    <3> QED
      BY <1>1, <3>2, <3>3
  <2> QED
    BY <1>1, <2>1, <2>2 DEF IInv, RequestSchedulerTypeOK
<1>3. AttemptsLeft'
  BY <1>1 DEF IInv, AttemptsLeft, RequestSchedulerTypeOK
<1>4. QueuedSomewhere'
  BY <1>1 DEF IInv, QueuedSomewhere, RequestSchedulerTypeOK
<1>5. ExecutedBefore' /\ BucketCovers' /\ RateBounded'
  BY <1>1 DEF IInv, ExecutedBefore, BucketCovers, RateBounded
<1> QED
  BY <1>1, <1>2, <1>3, <1>4, <1>5 DEF IInv

LEMMA ClockKeeps ==
  ASSUME RequestSchedulerConstants, IInv, ClockTicks
  PROVE  IInv'
<1>1. RequestSchedulerTypeOK'
  <2>1. /\ now' = now + 1 /\ now < MaxTime
        /\ UNCHANGED <<tokens, lastRefill, queues, worker, wakeAt, call, attempt>>
    BY DEF ClockTicks
  <2>2. now \in 0..MaxTime /\ lastRefill \in 0..now /\ MaxTime \in Nat
    BY DEF RequestSchedulerConstants, IInv, RequestSchedulerTypeOK
  <2>3. now' \in 0..MaxTime /\ lastRefill' \in 0..now'
    BY <2>1, <2>2
  <2>4. /\ tokens' \in 0..(capacity * TokenUnits) /\ wakeAt' \in 0..(MaxTime + TokenUnits)
        /\ worker' \in {"idle", "called", "waiting"}
    BY <2>1 DEF IInv, RequestSchedulerTypeOK
  <2>5. /\ queues' \in [0..2 -> Seq(Requests)]
        /\ \A p \in 0..2 : \A i \in DOMAIN queues'[p] : PriorityOf[queues'[p][i]] = p
        /\ attempt' \in [Requests -> 0..maxAttempts]
        /\ call' \in [Requests -> {"idle", "queued", "running", "backoff", "done", "failed"}]
    BY <2>1 DEF IInv, RequestSchedulerTypeOK
  <2> QED
    BY <2>3, <2>4, <2>5 DEF RequestSchedulerTypeOK
<1>2. ExecutedBefore' /\ BucketCovers' /\ RateBounded' /\ QueuedSomewhere' /\ AttemptsLeft'
  BY DEF IInv, ExecutedBefore, BucketCovers, RateBounded, QueuedSomewhere, AttemptsLeft,
     ClockTicks
<1> QED
  BY <1>1, <1>2 DEF IInv, ClockTicks

LEMMA StepKeeps ==
  ASSUME RequestSchedulerConstants, IInv, [RequestSchedulerNext]_schedulerVars
  PROVE  IInv'
<1>1. CASE UNCHANGED schedulerVars
  BY <1>1 DEF IInv, schedulerVars, RequestSchedulerTypeOK, ExecutedBefore, BucketCovers,
     RateBounded, QueuedSomewhere, AttemptsLeft
<1> QED
  BY <1>1, ProcessQueueKeeps, AcquireKeeps, OutcomeKeeps, ClockKeeps
     DEF RequestSchedulerNext, CallerStep

-----------------------------------------------------------------------------
(* The inductive invariant holds in every state.                              *)
THEOREM RequestSchedulerInvariant ==
  ASSUME RequestSchedulerConstants
  PROVE  RequestSchedulerSpec => []IInv
BY InitKeeps, StepKeeps, PTL DEF RequestSchedulerSpec

(* The variables have their types; in particular the bucket never holds less  *)
(* than nothing or more than its capacity, and every wait ends.               *)
THEOREM RequestSchedulerTyped ==
  ASSUME RequestSchedulerConstants
  PROVE  RequestSchedulerSpec => []RequestSchedulerTypeOK
<1>1. IInv => RequestSchedulerTypeOK
  BY DEF IInv
<1> QED
  BY <1>1, RequestSchedulerInvariant, PTL

(* In no stretch of time do more requests run than the bucket holds and is    *)
(* given meanwhile, and no request waits without a worker that is to come:    *)
(* acquire and processQueue of request_scheduler.ts.                          *)
THEOREM SchedulerAlwaysSound ==
  ASSUME RequestSchedulerConstants
  PROVE  RequestSchedulerSpec => []SchedulerSound
<1>1. ASSUME IInv
      PROVE  SchedulerSound
  <2>1. ASSUME NEW r \in Requests, call[r] = "queued", worker = "idle"
        PROVE  FALSE
    <3>1. PICK i \in 1..Len(queues[PriorityOf[r]]) : queues[PriorityOf[r]][i] = r
      BY <1>1, <2>1 DEF IInv, QueuedSomewhere
    <3>2. PriorityOf[r] \in 0..2
      BY DEF RequestSchedulerConstants
    <3>3. queues[PriorityOf[r]] = <<>>
      BY <1>1, <2>1, <3>2 DEF IInv
    <3> QED
      BY <3>1, <3>3
  <2> QED
    BY <1>1, <2>1 DEF IInv, SchedulerSound, NoLostWakeup
<1> QED
  BY <1>1, RequestSchedulerInvariant, PTL

-----------------------------------------------------------------------------
(* The gas oracle.                                                          *)
(* What the oracle's proofs assume.                                         *)
FeesAssumed == GasOracleConstants /\ FeeMarginConstants

(* The network's fee has risen by at most an eighth with every block since a*)
(* fee was read.                                                            *)
RisenFrom(fee, age) ==
  /\ age = 0 => networkFee <= fee
  /\ age = 1 => 8 * networkFee <= 9 * fee
  /\ age = 2 => 64 * networkFee <= 81 * fee

(* The average is at least two thirds of the fee of the block it was read at,*)
(* but for what integer division drops.                                     *)
Follows(ema, fee, age) ==
  /\ age = 0 => 100 * ema >= 67 * fee - 400
  /\ age = 1 => 900 * ema >= 536 * fee - 3600
  /\ age = 2 => 8100 * ema >= 4288 * fee - 32400

(* The gas oracle: what an answer under way has read is a fee the network's *)
(* has risen from, and the average follows the last answer applied.         *)
OracleIInv ==
  /\ GasOracleTypeOK
  /\ networkFee >= InitialFee
  /\ \A i \in DOMAIN inflight :
       /\ inflight[i].fee >= InitialFee
       /\ inflight[i].age <= MaxAge => RisenFrom(inflight[i].fee, inflight[i].age)
  /\ (emaBaseFee > 0 /\ ~outage) =>
       /\ emaBaseFee >= InitialFee /\ feeAge <= MaxAge
       /\ Follows(emaBaseFee, networkFee, feeAge)

(* The average is no less than the lower of the two, and near the newer by its*)
(* percentage.                                                              *)
LEMMA AverageBetween ==
  ASSUME NEW e \in Nat, NEW f \in Nat, NEW p \in 30..100
  PROVE  LET a == (e * (100 - p) + f * p) \div 100 IN
         /\ a \in Nat
         /\ a >= e \/ a >= f
         /\ a >= f \/ 100 * a >= 70 * e + 30 * f - 99
<1> DEFINE a == (e * (100 - p) + f * p) \div 100
<1>1. e * (100 - p) \in Nat /\ f * p \in Nat
  OBVIOUS
<1>2. a \in Nat /\ 100 * a <= e * (100 - p) + f * p /\ e * (100 - p) + f * p <= 100 * a + 99
  BY <1>1
<1>3. CASE e <= f
  <2>1. PICK d \in Nat : f = e + d
    BY <1>3
  <2>2. e * (100 - p) + f * p = 100 * e + d * p
    BY <2>1
  <2>3. d * p >= 30 * d
    OBVIOUS
  <2> HIDE DEF a
  <2> QED
    BY <1>2, <2>1, <2>2, <2>3
<1>4. CASE f < e
  <2>1. PICK d \in Nat : e = f + d
    BY <1>4
  <2>2. e * (100 - p) + f * p = 100 * f + d * (100 - p)
    BY <2>1
  <2>3. d * (100 - p) >= 0
    OBVIOUS
  <2> HIDE DEF a
  <2> QED
    BY <1>2, <2>1, <2>2, <2>3
<1> QED BY <1>2, <1>3, <1>4

(* An average that followed one answer follows the next one, however old it is.*)
LEMMA FollowsNewest ==
  ASSUME NEW e \in Nat, NEW f \in Nat, NEW x \in Nat,
         NEW a \in 0..2, NEW b \in 0..2, networkFee \in Nat,
         Follows(e, networkFee, a), RisenFrom(f, b),
         x >= f \/ 100 * x >= 70 * e + 30 * f - 99
  PROVE  Follows(x, networkFee, b)
<1>1. 8100 * e >= 4288 * networkFee - 32400
  BY DEF Follows
<1>2. CASE b = 0 BY <1>1, <1>2 DEF Follows, RisenFrom
<1>3. CASE b = 1 BY <1>1, <1>3 DEF Follows, RisenFrom
<1>4. CASE b = 2 BY <1>1, <1>4 DEF Follows, RisenFrom
<1> QED BY <1>2, <1>3, <1>4

(* What is left of a sequence without one of its elements.                  *)
LEMMA RestOfAnswers ==
  ASSUME NEW S, NEW s \in Seq(S), NEW i \in DOMAIN s
  PROVE  LET rest == SubSeq(s, 1, i - 1) \o SubSeq(s, i + 1, Len(s)) IN
         /\ rest \in Seq(S) /\ Len(rest) = Len(s) - 1
         /\ \A j \in DOMAIN rest : \E k \in DOMAIN s : rest[j] = s[k]
<1> DEFINE front == SubSeq(s, 1, i - 1)
           back == SubSeq(s, i + 1, Len(s))
<1>1. i \in 1..Len(s) /\ Len(s) \in Nat
  OBVIOUS
<1>2. front \in Seq(S) /\ Len(front) = i - 1 /\ \A j \in 1..(i - 1) : front[j] = s[j]
  BY <1>1
<1>3. back \in Seq(S) /\ Len(back) = Len(s) - i
      /\ \A j \in 1..(Len(s) - i) : back[j] = s[i + j]
  <2>1. i \in 0..Len(s)
    BY <1>1
  <2> QED
    BY <2>1, RestOf
<1> HIDE DEF front, back
<1>4. front \o back \in Seq(S) /\ Len(front \o back) = Len(s) - 1
  BY <1>1, <1>2, <1>3
<1>5. ASSUME NEW j \in DOMAIN (front \o back)
      PROVE  \E k \in DOMAIN s : (front \o back)[j] = s[k]
  <2>1. j \in 1..(Len(s) - 1)
    BY <1>4
  <2>2. CASE j <= i - 1
    <3>1. (front \o back)[j] = front[j]
      BY <1>1, <1>2, <1>3, <2>1, <2>2
    <3> QED
      BY <1>1, <1>2, <2>1, <2>2, <3>1
  <2>3. CASE j > i - 1
    <3>1. (front \o back)[j] = back[j - (i - 1)] /\ j - (i - 1) \in 1..(Len(s) - i)
      BY <1>1, <1>2, <1>3, <2>1, <2>3
    <3>2. back[j - (i - 1)] = s[i + (j - (i - 1))]
      BY <1>3, <3>1
    <3>3. i + (j - (i - 1)) = j + 1 /\ j + 1 \in 1..Len(s)
      BY <1>1, <2>1
    <3>4. j + 1 \in DOMAIN s
      BY <3>3
    <3> QED
      BY <3>1, <3>2, <3>3, <3>4
  <2> QED
    BY <1>1, <2>1, <2>2, <2>3
<1> QED
  BY <1>4, <1>5 DEF front, back

(* Two rises by an eighth.                                                  *)
LEMMA RisesAnEighth ==
  ASSUME NEW n \in Nat, NEW m \in Nat, NEW f \in Nat, 8 * m <= 9 * n
  PROVE  /\ n <= f => 8 * m <= 9 * f
         /\ 8 * n <= 9 * f => 64 * m <= 81 * f
OBVIOUS

(* No answer is under way at first.                                         *)
LEMMA OracleStarts ==
  ASSUME FeesAssumed, GasOracleInit
  PROVE  OracleIInv
<1>1. MaxFee \in Nat /\ InitialFee \in Nat /\ MaxAge \in Nat /\ MaxInflight \in Nat /\ InitialFee <= MaxFee
  BY DEF FeesAssumed, FeeMarginConstants, GasOracleConstants
<1>2. inflight = <<>> /\ networkFee = InitialFee /\ polling = "off" /\ emaBaseFee = 0
      /\ feeAge = 0 /\ outage = FALSE
  BY DEF GasOracleInit
<1>3. GasOracleTypeOK
  <2>1. inflight \in Seq([fee : 0..MaxFee, age : 0..(MaxAge + 1)]) /\ Len(inflight) <= MaxInflight
    BY <1>1, <1>2
  <2>2. networkFee \in 0..MaxFee /\ feeAge \in 0..(MaxAge + 1)
    BY <1>1, <1>2
  <2>3. polling \in {"off", "starting", "on"} /\ emaBaseFee \in Nat /\ outage \in BOOLEAN
    BY <1>2
  <2> QED
    BY <2>1, <2>2, <2>3 DEF GasOracleTypeOK
<1> QED
  BY <1>1, <1>2, <1>3 DEF OracleIInv

(* A block: every fee read is one block older.                              *)
LEMMA BlockKeeps ==
  ASSUME FeesAssumed, OracleIInv, Block
  PROVE  OracleIInv'
<1>1. /\ MaxFee \in Nat /\ InitialFee \in Nat /\ MaxAge \in 0..2 /\ MaxInflight \in Nat
      /\ networkFee \in Nat /\ feeAge \in 0..(MaxAge + 1) /\ emaBaseFee \in Nat
      /\ networkFee >= InitialFee
  BY DEF FeesAssumed, FeeMarginConstants, GasOracleConstants, OracleIInv, GasOracleTypeOK
<1>2. networkFee' \in 0..MaxFee /\ networkFee' >= InitialFee /\ 8 * networkFee' <= 9 * networkFee
  BY <1>1 DEF Block
<1>3. /\ UNCHANGED <<polling, emaBaseFee>> /\ feeAge' = Older(feeAge)
      /\ outage' = (outage \/ (emaBaseFee > 0 /\ feeAge = MaxAge))
      /\ inflight' = [i \in DOMAIN inflight |-> [inflight[i] EXCEPT !.age = Older(@)]]
  BY DEF Block
<1>4. \A age \in 0..(MaxAge + 1) : Older(age) \in 0..(MaxAge + 1)
  BY <1>1 DEF Older
<1> DEFINE Answer == [fee : 0..MaxFee, age : 0..(MaxAge + 1)]
<1>5. inflight \in Seq(Answer) /\ Len(inflight) <= MaxInflight
  BY DEF OracleIInv, GasOracleTypeOK
<1>0. \A i \in DOMAIN inflight :
        /\ inflight[i] \in Answer
        /\ inflight[i].fee \in 0..MaxFee /\ inflight[i].age \in 0..(MaxAge + 1)
  <2>1. \A i \in DOMAIN inflight : inflight[i] \in Answer
    <3> HIDE DEF Answer
    <3> QED BY <1>5
  <2> QED
    BY <2>1
<1>6. /\ inflight' \in Seq(Answer)
      /\ Len(inflight') = Len(inflight) /\ DOMAIN inflight' = DOMAIN inflight
      /\ \A i \in DOMAIN inflight :
           inflight'[i].fee = inflight[i].fee /\ inflight'[i].age = Older(inflight[i].age)
  <2>1. \A i \in DOMAIN inflight :
          /\ [inflight[i] EXCEPT !.age = Older(@)] \in Answer
          /\ [inflight[i] EXCEPT !.age = Older(@)].fee = inflight[i].fee
          /\ [inflight[i] EXCEPT !.age = Older(@)].age = Older(inflight[i].age)
    BY <1>0, <1>4
  <2> HIDE DEF Answer
  <2>2. DOMAIN inflight = 1..Len(inflight) /\ Len(inflight) \in Nat
    BY <1>5
  <2>3. inflight' = [i \in 1..Len(inflight) |-> [inflight[i] EXCEPT !.age = Older(@)]]
    BY <1>3, <2>2
  <2>4. inflight' \in Seq(Answer) /\ Len(inflight') = Len(inflight)
    BY <2>1, <2>2, <2>3
  <2>5. \A i \in DOMAIN inflight : inflight'[i] = [inflight[i] EXCEPT !.age = Older(@)]
    BY <2>2, <2>3
  <2>6. DOMAIN inflight' = DOMAIN inflight
    BY <2>2, <2>3
  <2>7. \A i \in DOMAIN inflight :
          inflight'[i].fee = inflight[i].fee /\ inflight'[i].age = Older(inflight[i].age)
    BY <2>1, <2>5
  <2> QED
    BY <2>4, <2>6, <2>7
<1>7. GasOracleTypeOK'
  BY <1>2, <1>3, <1>4, <1>5, <1>6 DEF OracleIInv, GasOracleTypeOK
<1>8. ASSUME NEW fee \in Nat, NEW age \in 0..(MaxAge + 1),
             age <= MaxAge => RisenFrom(fee, age), Older(age) <= MaxAge
      PROVE  /\ Older(age) = 0 => networkFee' <= fee
             /\ Older(age) = 1 => 8 * networkFee' <= 9 * fee
             /\ Older(age) = 2 => 64 * networkFee' <= 81 * fee
  <2>1. Older(age) = age + 1 /\ age < MaxAge
    BY <1>1, <1>8 DEF Older
  <2>2. RisenFrom(fee, age) /\ MaxAge <= 2
    BY <1>1, <1>8, <2>1
  <2>3. age = 0 \/ age = 1
    BY <1>1, <2>1
  <2>6. fee \in Nat /\ networkFee \in Nat /\ networkFee' \in Nat /\ 8 * networkFee' <= 9 * networkFee
    <3>1. fee \in Nat
      BY <1>8
    <3>2. networkFee \in Nat
      BY <1>1
    <3>3. networkFee' \in Nat
      BY <1>1, <1>2
    <3>4. 8 * networkFee' <= 9 * networkFee
      BY <1>2
    <3> QED BY <3>1, <3>2, <3>3, <3>4
  <2>4. CASE age = 0
    <3>1. networkFee <= fee /\ Older(age) = 1
      BY <2>1, <2>2, <2>4 DEF RisenFrom
    <3>2. 8 * networkFee' <= 9 * fee
      BY <2>6, <3>1, RisesAnEighth
    <3> QED
      BY <3>1, <3>2
  <2>5. CASE age = 1
    <3>1. 8 * networkFee <= 9 * fee /\ Older(age) = 2
      BY <2>1, <2>2, <2>5 DEF RisenFrom
    <3>2. 64 * networkFee' <= 81 * fee
      BY <2>6, <3>1, RisesAnEighth
    <3> QED
      BY <3>1, <3>2
  <2> QED
    BY <2>3, <2>4, <2>5
<1>9. ASSUME NEW i \in DOMAIN inflight'
      PROVE  /\ inflight'[i].fee >= InitialFee
             /\ inflight'[i].age <= MaxAge => RisenFrom(inflight[i].fee, inflight[i].age)'
  <2>1. i \in DOMAIN inflight
    BY <1>6
  <2>2. inflight[i].fee \in Nat /\ inflight[i].age \in 0..(MaxAge + 1)
    BY <1>0, <2>1
  <2>3. inflight[i].fee >= InitialFee
        /\ (inflight[i].age <= MaxAge => RisenFrom(inflight[i].fee, inflight[i].age))
    BY <2>1 DEF OracleIInv
  <2>4. inflight'[i].fee = inflight[i].fee /\ inflight'[i].age = Older(inflight[i].age)
    BY <1>6, <2>1
  <2> QED
    BY <1>8, <2>2, <2>3, <2>4 DEF RisenFrom
<1>10. ASSUME emaBaseFee' > 0, ~outage'
       PROVE  /\ emaBaseFee' >= InitialFee /\ feeAge' <= MaxAge
              /\ Follows(emaBaseFee, networkFee, feeAge)'
  <2>1. emaBaseFee > 0 /\ ~outage /\ feeAge # MaxAge
    BY <1>3, <1>10
  <2>2. emaBaseFee >= InitialFee /\ feeAge <= MaxAge /\ Follows(emaBaseFee, networkFee, feeAge)
    BY <2>1 DEF OracleIInv
  <2>3. feeAge' = feeAge + 1 /\ feeAge < MaxAge /\ (feeAge = 0 \/ feeAge = 1)
    BY <1>1, <1>3, <2>1, <2>2 DEF Older
  <2> QED
    BY <1>1, <1>2, <1>3, <2>2, <2>3 DEF Follows
<1>11. networkFee' >= InitialFee
  BY <1>2
<1> QED
  BY <1>7, <1>9, <1>10, <1>11 DEF OracleIInv

(* An answer that comes, real or made up.                                   *)
LEMMA AnswerKeeps ==
  ASSUME FeesAssumed, OracleIInv, NEW i \in DOMAIN inflight, NEW fee \in Nat,
         UNCHANGED networkFee, Answered(i, fee),
         outage' \in BOOLEAN, outage => outage',
         ~outage' => /\ fee = inflight[i].fee /\ inflight[i].age <= MaxAge
  PROVE  OracleIInv'
<1>1. /\ MaxFee \in Nat /\ InitialFee \in Nat /\ MaxAge \in 0..2 /\ MaxInflight \in Nat
      /\ networkFee \in 0..MaxFee /\ feeAge \in 0..(MaxAge + 1) /\ emaBaseFee \in Nat
      /\ networkFee >= InitialFee /\ emaPercent \in 30..100 /\ InitialFee >= 68
      /\ outage \in BOOLEAN /\ polling \in {"off", "starting", "on"}
  <2>1. {InitialFee, MaxFee, MaxInflight, MaxAge} \subseteq Nat /\ emaPercent \in 0..100
        /\ emaPercent >= 30 /\ MaxAge <= 2 /\ InitialFee >= 68
    BY DEF FeesAssumed, FeeMarginConstants, GasOracleConstants
  <2>2. networkFee \in 0..MaxFee /\ feeAge \in 0..(MaxAge + 1) /\ emaBaseFee \in Nat
        /\ networkFee >= InitialFee /\ outage \in BOOLEAN /\ polling \in {"off", "starting", "on"}
    BY DEF OracleIInv, GasOracleTypeOK
  <2> QED
    BY <2>1, <2>2
<1> DEFINE Answer == [fee : 0..MaxFee, age : 0..(MaxAge + 1)]
<1>2. inflight \in Seq(Answer) /\ Len(inflight) <= MaxInflight
  BY DEF OracleIInv, GasOracleTypeOK
<1>3. inflight[i].fee \in Nat /\ inflight[i].age \in 0..(MaxAge + 1)
  <2>1. inflight[i] \in Answer
    <3> HIDE DEF Answer
    <3> QED BY <1>2
  <2> QED BY <2>1
<1>4. /\ inflight' \in Seq(Answer) /\ Len(inflight') <= MaxInflight
      /\ \A j \in DOMAIN inflight' : \E k \in DOMAIN inflight : inflight'[j] = inflight[k]
  <2> HIDE DEF Answer
  <2>1. inflight' = SubSeq(inflight, 1, i - 1) \o SubSeq(inflight, i + 1, Len(inflight))
    BY DEF Answered
  <2>2. /\ inflight' \in Seq(Answer) /\ Len(inflight') = Len(inflight) - 1
        /\ \A j \in DOMAIN inflight' : \E k \in DOMAIN inflight : inflight'[j] = inflight[k]
    BY <1>2, <2>1, RestOfAnswers
  <2>3. Len(inflight) \in Nat
    BY <1>2
  <2> QED
    BY <1>1, <1>2, <2>2, <2>3
<1>5. emaBaseFee' \in Nat /\ feeAge' = inflight[i].age
      /\ polling' \in {"off", "starting", "on"}
  BY <1>1, AverageBetween DEF Answered, Averaged
<1>6. GasOracleTypeOK'
  BY <1>1, <1>3, <1>4, <1>5 DEF GasOracleTypeOK
<1>7. \A j \in DOMAIN inflight' :
        /\ inflight'[j].fee >= InitialFee
        /\ inflight'[j].age <= MaxAge => RisenFrom(inflight[j].fee, inflight[j].age)'
  <2>1. ASSUME NEW j \in DOMAIN inflight'
        PROVE  /\ inflight'[j].fee >= InitialFee
               /\ inflight'[j].age <= MaxAge => RisenFrom(inflight[j].fee, inflight[j].age)'
    <3>1. PICK k \in DOMAIN inflight : inflight'[j] = inflight[k]
      BY <1>4
    <3>2. inflight[k].fee >= InitialFee
          /\ (inflight[k].age <= MaxAge => RisenFrom(inflight[k].fee, inflight[k].age))
      BY DEF OracleIInv
    <3> QED
      BY <3>1, <3>2 DEF RisenFrom
  <2> QED
    BY <2>1
<1>8. ASSUME ~outage'
      PROVE  /\ emaBaseFee' >= InitialFee /\ feeAge' <= MaxAge
             /\ Follows(emaBaseFee, networkFee, feeAge)'
  <2>1. /\ ~outage /\ fee = inflight[i].fee /\ inflight[i].age <= MaxAge
        /\ fee >= InitialFee /\ RisenFrom(fee, inflight[i].age) /\ inflight[i].age \in 0..2
    BY <1>1, <1>3, <1>8 DEF OracleIInv
  <2>2. emaBaseFee' = Averaged(fee)
    BY DEF Answered
  <2>3. CASE emaBaseFee = 0
    <3>1. emaBaseFee' = fee
      BY <2>2, <2>3 DEF Averaged
    <3>2. Follows(emaBaseFee', networkFee, inflight[i].age)
      BY <1>1, <2>1, <3>1 DEF Follows, RisenFrom
    <3> QED
      BY <1>5, <2>1, <3>1, <3>2 DEF Follows
  <2>4. CASE emaBaseFee # 0
    <3>1. emaBaseFee >= InitialFee /\ feeAge \in 0..2 /\ Follows(emaBaseFee, networkFee, feeAge)
      BY <1>1, <2>1, <2>4 DEF OracleIInv
    <3>2. /\ emaBaseFee' >= emaBaseFee \/ emaBaseFee' >= fee
          /\ emaBaseFee' >= fee \/ 100 * emaBaseFee' >= 70 * emaBaseFee + 30 * fee - 99
      BY <1>1, <2>2, <2>4, AverageBetween DEF Averaged
    <3>3. Follows(emaBaseFee', networkFee, inflight[i].age)
      <4>1. networkFee \in Nat /\ emaBaseFee \in Nat /\ emaBaseFee' \in Nat
        BY <1>1, <1>5
      <4> QED
        BY <2>1, <3>1, <3>2, <4>1, FollowsNewest
    <3>4. emaBaseFee' >= InitialFee
      <4>1. emaBaseFee \in Nat /\ emaBaseFee' \in Nat /\ InitialFee \in Nat
        BY <1>1, <1>5
      <4> QED
        BY <2>1, <3>1, <3>2, <4>1
    <3>5. Follows(emaBaseFee, networkFee, feeAge)'
      BY <1>5, <3>3 DEF Follows
    <3> QED
      BY <1>5, <2>1, <3>4, <3>5
  <2> QED
    BY <2>3, <2>4
<1> QED
  BY <1>1, <1>6, <1>7, <1>8 DEF OracleIInv

(* The fee and the age of an answer under way.                              *)
LEMMA InflightTyped ==
  ASSUME FeesAssumed, OracleIInv, NEW i \in DOMAIN inflight
  PROVE  /\ inflight[i].fee \in 0..MaxFee /\ inflight[i].age \in 0..(MaxAge + 1)
         /\ inflight[i].fee \in Nat /\ inflight[i].age \in Nat
<1> DEFINE Answer == [fee : 0..MaxFee, age : 0..(MaxAge + 1)]
<1>1. inflight \in Seq(Answer)
  BY DEF OracleIInv, GasOracleTypeOK
<1>2. inflight[i] \in Answer
  <2> HIDE DEF Answer
  <2> QED BY <1>1
<1> QED
  BY <1>2

(* The first refresh of start, and those of its timer.                      *)
LEMMA AskKeeps ==
  ASSUME FeesAssumed, OracleIInv, OracleStart \/ Poll
  PROVE  OracleIInv'
<1> DEFINE Answer == [fee : 0..MaxFee, age : 0..(MaxAge + 1)]
           asked == [fee |-> networkFee, age |-> 0]
<1>1. /\ MaxAge \in Nat /\ MaxInflight \in Nat \ {0} /\ MaxFee \in Nat
      /\ networkFee \in 0..MaxFee /\ networkFee >= InitialFee
      /\ inflight \in Seq(Answer) /\ polling \in {"off", "starting", "on"}
  BY DEF FeesAssumed, FeeMarginConstants, GasOracleConstants, OracleIInv, GasOracleTypeOK
<1>2. asked \in Answer
  BY <1>1
<1>3. /\ polling' \in {"off", "starting", "on"} /\ Len(inflight) < MaxInflight
      /\ inflight' = Append(inflight, asked) /\ UNCHANGED <<networkFee, emaBaseFee, feeAge, outage>>
  <2>1. CASE OracleStart
    <3>1. inflight = <<>> /\ inflight' = <<asked>> /\ polling' = "starting"
      BY <2>1 DEF OracleStart
    <3>2. Append(inflight, asked) = <<asked>> /\ Len(inflight) = 0
      BY <3>1
    <3> HIDE DEF asked
    <3> QED
      BY <1>1, <2>1, <3>1, <3>2 DEF OracleStart
  <2>2. CASE Poll
    BY <1>1, <2>2 DEF Poll
  <2> QED
    BY <2>1, <2>2
<1> HIDE DEF Answer
<1>4. /\ inflight' \in Seq(Answer) /\ Len(inflight') <= MaxInflight
      /\ \A j \in DOMAIN inflight' :
           (j \in DOMAIN inflight /\ inflight'[j] = inflight[j]) \/ inflight'[j] = asked
  <2> HIDE DEF asked
  <2>1. Len(inflight) \in Nat /\ DOMAIN inflight = 1..Len(inflight)
    BY <1>1
  <2> QED
    BY <1>1, <1>2, <1>3, <2>1
<1>5. GasOracleTypeOK'
  BY <1>3, <1>4 DEF OracleIInv, GasOracleTypeOK, Answer
<1>6. ASSUME NEW j \in DOMAIN inflight'
      PROVE  /\ inflight'[j].fee >= InitialFee
             /\ inflight'[j].age <= MaxAge => RisenFrom(inflight[j].fee, inflight[j].age)'
  <2>1. CASE j \in DOMAIN inflight /\ inflight'[j] = inflight[j]
    BY <1>3, <2>1 DEF OracleIInv, RisenFrom
  <2>2. CASE inflight'[j] = asked
    <3>1. inflight'[j].fee = networkFee /\ inflight'[j].age = 0
      BY <2>2
    <3> QED
      BY <1>1, <1>3, <3>1 DEF RisenFrom
  <2> QED
    BY <1>4, <2>1, <2>2
<1> QED
  BY <1>3, <1>5, <1>6 DEF OracleIInv, Follows

(* Every step keeps the invariant.                                          *)
LEMMA OracleStep ==
  ASSUME FeesAssumed, OracleIInv, [GasOracleNext]_oracleVars
  PROVE  OracleIInv'
<1>1. CASE Block
  BY <1>1, BlockKeeps
<1>2. CASE OracleStart \/ Poll
  BY <1>2, AskKeeps
<1>3. CASE OracleStop
  <2>1. polling' = "off" /\ UNCHANGED <<networkFee, inflight, emaBaseFee, feeAge, outage>>
    BY <1>3 DEF OracleStop
  <2> QED
    BY <2>1 DEF OracleIInv, GasOracleTypeOK, RisenFrom, Follows
<1>5. CASE Refreshed
  <2>1. PICK i \in DOMAIN inflight : Answered(i, inflight[i].fee)
                                    /\ outage' = (outage \/ inflight[i].age > MaxAge)
    BY <1>5 DEF Refreshed
  <2>2. inflight[i].fee \in 0..MaxFee /\ inflight[i].age \in Nat /\ inflight[i].fee \in Nat
    BY InflightTyped
  <2>3. outage \in BOOLEAN /\ MaxAge \in Nat
    BY DEF OracleIInv, GasOracleTypeOK, FeesAssumed, FeeMarginConstants, GasOracleConstants
  <2>4. UNCHANGED networkFee
    BY <1>5 DEF Refreshed
  <2>5. outage' \in BOOLEAN /\ (outage => outage') /\ (~outage' => ~(inflight[i].age > MaxAge))
    BY <2>1
  <2>6. ~(inflight[i].age > MaxAge) => inflight[i].age <= MaxAge
    BY <2>2, <2>3
  <2> QED
    BY <2>1, <2>2, <2>4, <2>5, <2>6, AnswerKeeps
<1>6. CASE RefreshFailed
  <2>1. PICK i \in DOMAIN inflight : Answered(i, Fallback)
    BY <1>6 DEF RefreshFailed
  <2>2. Fallback \in Nat
    BY DEF FeesAssumed, FeeMarginConstants, GasOracleConstants
  <2>3. outage' = TRUE /\ UNCHANGED networkFee
    BY <1>6 DEF RefreshFailed
  <2> QED
    BY <2>1, <2>2, <2>3, AnswerKeeps
<1>7. CASE UNCHANGED oracleVars
  <2>1. UNCHANGED <<networkFee, polling, inflight, emaBaseFee, feeAge, outage>>
    BY <1>7 DEF oracleVars
  <2> QED
    BY <2>1 DEF OracleIInv, GasOracleTypeOK, RisenFrom, Follows
<1> QED
  BY <1>1, <1>2, <1>3, <1>5, <1>6, <1>7 DEF GasOracleNext

(* Twice an average that follows covers the fee of two blocks later: where the*)
(* slack of the division counts, the fee has at most doubled since the start.*)
LEMMA MarginCovers ==
  ASSUME NEW e \in Nat, NEW f \in Nat, NEW first \in Nat, NEW age \in 0..2,
         first >= 68, e >= first, f >= first,
         age = 0 => 100 * e >= 67 * f - 400,
         age = 1 => 900 * e >= 536 * f - 3600,
         age = 2 => 8100 * e >= 4288 * f - 32400
  PROVE  2 * e >= f
<1>1. CASE age = 0
  BY <1>1
<1>2. CASE age = 1
  BY <1>2
<1>3. CASE age = 2 /\ f <= 136
  BY <1>3
<1>4. CASE age = 2 /\ f > 136
  BY <1>4
<1> QED
  BY <1>1, <1>2, <1>3, <1>4

(* The invariant implies that what submit offers covers the base fee.       *)
LEMMA OracleCovers ==
  ASSUME FeesAssumed, OracleIInv
  PROVE  FeeCoversBase
<1>1. SUFFICES ASSUME emaBaseFee > 0, ~outage
      PROVE  2 * emaBaseFee >= networkFee
  BY DEF FeeCoversBase, FeeOffered
<1>2. /\ emaBaseFee >= InitialFee /\ feeAge <= MaxAge
      /\ Follows(emaBaseFee, networkFee, feeAge) /\ networkFee >= InitialFee
  BY <1>1 DEF OracleIInv
<1>3. emaBaseFee \in Nat /\ networkFee \in Nat /\ feeAge \in Nat
  BY <1>2 DEF OracleIInv, GasOracleTypeOK
<1>4. InitialFee \in Nat /\ InitialFee >= 68 /\ MaxAge <= 2 /\ MaxAge \in Nat
  BY DEF FeesAssumed, FeeMarginConstants, GasOracleConstants
<1>5. feeAge \in 0..2
  BY <1>2, <1>3, <1>4
<1> QED
  BY <1>2, <1>3, <1>4, <1>5, MarginCovers DEF Follows

(* The invariant of the gas oracle is inductive (gas.ts).                   *)
THEOREM GasOracleInvariant ==
  ASSUME GasOracleConstants, FeeMarginConstants
  PROVE  GasOracleSpec => []OracleIInv
<1>1. FeesAssumed
  BY DEF FeesAssumed
<1>2. OracleIInv /\ [GasOracleNext]_oracleVars => OracleIInv'
  BY <1>1, OracleStep
<1>3. GasOracleInit => OracleIInv
  BY <1>1, OracleStarts
<1> QED
  BY <1>2, <1>3, PTL DEF GasOracleSpec

(* The oracle keeps its types, however many polls overlap.                  *)
THEOREM GasOracleTyped ==
  ASSUME GasOracleConstants, FeeMarginConstants
  PROVE  GasOracleSpec => []GasOracleTypeOK
<1>1. OracleIInv => GasOracleTypeOK
  BY DEF OracleIInv
<1> QED
  BY <1>1, GasOracleInvariant, PTL

(* Twice the average covers the base fee of the next block (submit.ts), in  *)
(* whatever order overlapping polls are answered and however fast fees      *)
(* rise, as long as no answer was made up and none is used for longer than  *)
(* two blocks: for every fee, bound, and percentage of at least 30.         *)
THEOREM FeeAlwaysCovers ==
  ASSUME GasOracleConstants, FeeMarginConstants
  PROVE  GasOracleSpec => []FeeCoversBase
<1>1. OracleIInv => FeeCoversBase
  BY OracleCovers DEF FeesAssumed
<1> QED
  BY <1>1, GasOracleInvariant, PTL

-----------------------------------------------------------------------------
(* The streams.                                                             *)
(* The progress feed: no attempt to connect ends before the feed is on, and *)
(* only while it is on has it a socket or a timer, never a socket and a     *)
(* reconnect at once.                                                       *)
FeedIInv ==
  /\ ProgressFeedTypeOK
  /\ FeedNeverSilent
  /\ feed \in {"off", "seeding"} => ~everConnecting
  /\ feedSocket # "none" => feed = "on"
  /\ reconnect => feed = "on" /\ feedSocket = "none"
  /\ fallback => feed = "on"

(* The later of two blocks is a block.                                      *)
LEMMA LaterBlock ==
  ASSUME NEW n \in Nat, NEW a \in 0..n, NEW b \in 0..n
  PROVE  Max({a, b}) \in 0..n
BY DEF Max

(* Nothing runs at first.                                                   *)
LEMMA FeedStarts ==
  ASSUME ProgressFeedConstants, ProgressFeedInit PROVE FeedIInv
<1>1. query \in [Queries -> 0..NoAnswer]
  BY DEF ProgressFeedConstants, ProgressFeedInit, NoAnswer
<1>2. {everConnecting, fallback, reconnect, leaked} \subseteq BOOLEAN
  BY DEF ProgressFeedInit
<1>3. ProgressFeedTypeOK
  BY <1>1, <1>2 DEF ProgressFeedConstants, ProgressFeedInit, ProgressFeedTypeOK
<1> QED
  BY <1>3 DEF ProgressFeedInit, FeedIInv, FeedNeverSilent, stopped

(* Every step keeps the invariant: to lose a connection sets both timers, and*)
(* polling ends only when the next one is acknowledged.                     *)
LEMMA FeedStep ==
  ASSUME ProgressFeedConstants, FeedIInv, [ProgressFeedNext]_feedVars
  PROVE  FeedIInv'
<1> USE DEF ProgressFeedConstants, FeedIInv, ProgressFeedTypeOK, FeedNeverSilent, NoAnswer, stopped, connection, feedTimers
<1>1. CASE FeedStart BY <1>1 DEF FeedStart
<1>2. CASE Seeded
  <2>1. feed = "seeding" /\ feed' = "on" /\ ~everConnecting /\ UNCHANGED <<indexed, query, lastSynced, leaked>>
    BY <1>2 DEF Seeded
  <2>2. CASE feedSocket' = "connecting" /\ UNCHANGED <<everConnecting, fallback>> /\ reconnect' = FALSE
    BY <2>1, <2>2
  <2>3. CASE everConnecting' = TRUE /\ fallback' = TRUE /\ reconnect' = TRUE /\ UNCHANGED feedSocket
    BY <2>1, <2>3
  <2> QED
    BY <1>2, <2>2, <2>3 DEF Seeded, ConnectWebSocket
<1>3. CASE ReconnectTimerFires
  <2>1. feed = "on" /\ feedSocket = "none" /\ UNCHANGED <<indexed, feed, query, lastSynced, leaked>>
    BY <1>3 DEF ReconnectTimerFires
  <2>2. CASE feedSocket' = "connecting" /\ UNCHANGED <<everConnecting, fallback>> /\ reconnect' = FALSE
    BY <2>1, <2>2
  <2>3. CASE everConnecting' = TRUE /\ fallback' = TRUE /\ reconnect' = TRUE /\ UNCHANGED feedSocket
    BY <2>1, <2>3
  <2> QED
    BY <1>3, <2>2, <2>3 DEF ReconnectTimerFires, ConnectWebSocket
<1>4. CASE SocketOpens BY <1>4 DEF SocketOpens
<1>5. CASE Acknowledged BY <1>5 DEF Acknowledged
<1>6. CASE NextMessage BY <1>6, LaterBlock DEF NextMessage, UpdateSyncedBlock
<1>7. CASE ErrorMessage BY <1>7 DEF ErrorMessage
<1>8. CASE SocketCloses BY <1>8 DEF SocketCloses
<1>9. CASE FeedStop BY <1>9 DEF FeedStop
<1>10. CASE IndexerAdvances BY <1>10 DEF IndexerAdvances
<1>11. ASSUME NEW q \in Queries, AskProgress(q) PROVE FeedIInv'
  BY <1>11 DEF AskProgress
<1>12. ASSUME NEW q \in Queries, AnswerArrives(q) PROVE FeedIInv'
  BY <1>12, LaterBlock DEF AnswerArrives, UpdateSyncedBlock
<1>13. CASE UNCHANGED feedVars BY <1>13 DEF feedVars
<1> QED
  BY <1>1, <1>2, <1>3, <1>4, <1>5, <1>6, <1>7, <1>8, <1>9, <1>10, <1>11, <1>12, <1>13 DEF ProgressFeedNext

(* The invariant of the progress feed is inductive                          *)
(* (HasuraProgressSubscriber).                                              *)
THEOREM ProgressFeedInvariant ==
  ASSUME ProgressFeedConstants
  PROVE  ProgressFeedSpec => []FeedIInv
<1>1. FeedIInv /\ [ProgressFeedNext]_feedVars => FeedIInv'
  BY FeedStep
<1> QED
  BY <1>1, FeedStarts, PTL DEF ProgressFeedSpec

(* The subscription: every attempt counted since the last socket has a timer*)
(* that is still pending, so the limit of attempts is never met without one.*)
AttemptsHaveTimers == running => reconnectAttempts <= timers
SubscriberIInv == WebSocketSubscriberTypeOK /\ AttemptsHaveTimers /\ NeverGivesUp

(* To close a socket leaves it a socket that has yet to close.              *)
LEMMA CloseKeeps ==
  ASSUME WebSocketSubscriberTypeOK, NEW t \in Sockets
  PROVE  /\ Close(t) \in {"closed", "connecting", "open", "aborting", "closing"}
         /\ socket[t] # "closed" => Close(t) # "closed"
BY DEF WebSocketSubscriberTypeOK, Close

(* The subscriber does not run at first.                                    *)
LEMMA SubscriberStarts ==
  ASSUME WebSocketSubscriberConstants, WebSocketSubscriberInit
  PROVE  SubscriberIInv
<1>1. maxReconnects \in Nat /\ MaxTimers \in Nat /\ MaxQueue \in Nat
  BY DEF WebSocketSubscriberConstants
<1>2. WebSocketSubscriberTypeOK
  <2>1. socket \in [Sockets -> {"closed", "connecting", "open", "aborting", "closing"}]
    BY DEF WebSocketSubscriberInit
  <2>2. timers \in 0..MaxTimers /\ reconnectAttempts \in 0..maxReconnects /\ pendingTxQueue \in 0..MaxQueue
    BY <1>1 DEF WebSocketSubscriberInit
  <2>3. running \in BOOLEAN /\ ws \in Sockets \union {NoSocket} /\ subscribed \subseteq Sockets
    BY DEF WebSocketSubscriberInit
  <2> QED
    BY <2>1, <2>2, <2>3 DEF WebSocketSubscriberTypeOK
<1> QED
  BY <1>2 DEF WebSocketSubscriberInit, SubscriberIInv, AttemptsHaveTimers, NeverGivesUp

(* Every event of a socket and every timer keeps the invariant.             *)
LEMMA SubscriberStep ==
  ASSUME WebSocketSubscriberConstants, SubscriberIInv, [WebSocketSubscriberNext]_subscriberVars
  PROVE  SubscriberIInv'
<1> USE DEF WebSocketSubscriberConstants, SubscriberIInv, WebSocketSubscriberTypeOK,
           AttemptsHaveTimers, NeverGivesUp
<1>1. CASE SubscriberStart
  BY <1>1 DEF SubscriberStart, Connect
<1>2. CASE ReconnectFires
  BY <1>2 DEF ReconnectFires, Connect
<1>3. CASE SubscriberStop
  <2>1. socket' \in [Sockets -> {"closed", "connecting", "open", "aborting", "closing"}]
    BY <1>3, CloseKeeps DEF SubscriberStop
  <2>2. timers' \in 0..MaxTimers
    BY <1>3 DEF SubscriberStop
  <2> QED
    BY <1>3, <2>1, <2>2 DEF SubscriberStop
<1>4. CASE PendingTx
  BY <1>4 DEF PendingTx
<1>5. CASE ProcessTxQueue
  BY <1>5 DEF ProcessTxQueue
<1>6. ASSUME NEW s \in Sockets, Opens(s) PROVE SubscriberIInv'
  BY <1>6 DEF Opens
<1>7. ASSUME NEW s \in Sockets, Errors(s) PROVE SubscriberIInv'
  BY <1>7, CloseKeeps DEF Errors, ScheduleReconnect
<1>8. ASSUME NEW s \in Sockets, Closes(s) PROVE SubscriberIInv'
  BY <1>8 DEF Closes, ScheduleReconnect
<1>9. CASE UNCHANGED subscriberVars
  BY <1>9 DEF subscriberVars
<1> QED
  BY <1>1, <1>2, <1>3, <1>4, <1>5, <1>6, <1>7, <1>8, <1>9 DEF WebSocketSubscriberNext, SocketStep

(* The invariant of the subscription is inductive (WebSocketSubscriber).    *)
THEOREM SubscriberInvariant ==
  ASSUME WebSocketSubscriberConstants
  PROVE  WebSocketSubscriberSpec => []SubscriberIInv
<1>1. SubscriberIInv /\ [WebSocketSubscriberNext]_subscriberVars => SubscriberIInv'
  BY SubscriberStep
<1> QED
  BY <1>1, SubscriberStarts, PTL DEF WebSocketSubscriberSpec

(* Neither stream falls silent while it is wanted: the progress feed has a  *)
(* subscription or polls until it is stopped, and WebSocketSubscriber has a *)
(* socket that may open or close or a reconnect that is due, for every      *)
(* number of sockets, timers and queries and every limit of attempts.       *)
THEOREM StreamsNeverSilent ==
  ASSUME ProgressFeedConstants, WebSocketSubscriberConstants
  PROVE  ProgressFeedSpec /\ WebSocketSubscriberSpec => []NoStreamSilent
<1>1. FeedIInv /\ SubscriberIInv => NoStreamSilent
  BY DEF FeedIInv, SubscriberIInv, NoStreamSilent
<1> QED
  BY <1>1, ProgressFeedInvariant, SubscriberInvariant, PTL

(* Both streams keep their types.                                           *)
THEOREM StreamsTyped ==
  ASSUME ProgressFeedConstants, WebSocketSubscriberConstants
  PROVE  ProgressFeedSpec /\ WebSocketSubscriberSpec
           => [](ProgressFeedTypeOK /\ WebSocketSubscriberTypeOK)
<1>1. FeedIInv /\ SubscriberIInv => ProgressFeedTypeOK /\ WebSocketSubscriberTypeOK
  BY DEF FeedIInv, SubscriberIInv
<1> QED
  BY <1>1, ProgressFeedInvariant, SubscriberInvariant, PTL

-----------------------------------------------------------------------------
(* A state of a pool, as it is fetched and given its ticks.                   *)
States == [owner : Pools, price : 0..MaxPrice, ticks : SUBSET (0..MaxPrice)]
MaybeStates == States \cup {NoState, Invalid}

(* The ticks of a state are those around its price.                           *)
Covered(state) == Known(state) => state.ticks = {} \/ state.price \in state.ticks

FetchInv ==
  /\ price \in [Pools -> 0..MaxPrice]
  /\ stateCache \in [Pools -> MaybeStates] /\ graphState \in [Pools -> MaybeStates]
  /\ failedPools \in [Pools -> 0..InvalidAfter] /\ recent \in SUBSET Pools
  /\ DOMAIN tasks = Fetchers
  /\ \A f \in Fetchers :
       /\ tasks[f].batch \in SUBSET Pools
       /\ \A a \in tasks[f].answers : a.owner \in Pools /\ a.price \in 0..MaxPrice
  /\ tickTask # NoTask =>
       /\ tickTask.pool \in Pools /\ tickTask.state \in States /\ Known(tickTask.state)
  /\ faults \in 0..MaxFaults
  /\ \A p \in Pools : Covered(stateCache[p])

(* There are calls for every pool, and the first answer has to be there.      *)
LEMMA SomeCalls ==
  ASSUME NEW kind \in {"v2", "v3", "v4key", "dodo"}
  PROVE  1 \in 1..Required(kind) /\ 1 \in DOMAIN Hot(kind) /\ 1 \in DOMAIN All(kind)
<1>1. 1 \in 1..Required(kind)
  BY DEF Required
<1>2. /\ Hot(kind) \in Seq({"t", "w"}) /\ Len(Hot(kind)) \in Nat /\ Len(Hot(kind)) >= 1
  <2>1. CASE kind = "v2"
    <3>1. Hot(kind) = <<"t">>
      BY <2>1 DEF Hot
    <3>2. <<"t">> \in Seq({"t", "w"}) /\ Len(<<"t">>) = 1
      OBVIOUS
    <3> QED
      BY <3>1, <3>2
  <2>2. CASE kind = "v3"
    <3>1. Hot(kind) = <<"t", "w", "w", "w">>
      BY <2>2 DEF Hot
    <3>2. <<"t", "w", "w", "w">> \in Seq({"t", "w"}) /\ Len(<<"t", "w", "w", "w">>) = 4
      OBVIOUS
    <3> QED
      BY <3>1, <3>2
  <2>3. CASE kind = "v4key"
    <3>1. Hot(kind) = <<"t", "w", "w", "w", "w">>
      BY <2>3 DEF Hot
    <3>2. <<"t", "w", "w", "w", "w">> \in Seq({"t", "w"}) /\ Len(<<"t", "w", "w", "w", "w">>) = 5
      OBVIOUS
    <3> QED
      BY <3>1, <3>2
  <2>4. CASE kind = "dodo"
    <3>1. Hot(kind) = <<"w", "w", "w", "w", "w">>
      BY <2>4 DEF Hot
    <3>2. <<"w", "w", "w", "w", "w">> \in Seq({"t", "w"}) /\ Len(<<"w", "w", "w", "w", "w">>) = 5
      OBVIOUS
    <3> QED
      BY <3>1, <3>2
  <2> QED
    BY <2>1, <2>2, <2>3, <2>4
<1>3. Static(kind) \in Seq({"t", "w"}) /\ Len(Static(kind)) \in Nat
  <2>1. CASE kind = "dodo"
    <3>1. Static(kind) = <<"w", "w", "w", "w">>
      BY <2>1 DEF Static
    <3>2. <<"w", "w", "w", "w">> \in Seq({"t", "w"}) /\ Len(<<"w", "w", "w", "w">>) = 4
      OBVIOUS
    <3> QED
      BY <3>1, <3>2
  <2>2. CASE kind # "dodo"
    BY <2>2 DEF Static
  <2> QED
    BY <2>1, <2>2
<1> QED
  BY <1>1, <1>2, <1>3 DEF All

(* The fetch of a pool that is written is of a state there was.               *)
LEMMA WrittenState ==
  ASSUME PoolStateFetchConstants, FetchInv, NEW f \in Fetchers, NEW taken,
         taken = TakenAnswers(f), NEW p \in Updated(taken)
  PROVE  p \in Pools /\ taken[p][1].owner \in Pools /\ taken[p][1].price \in 0..MaxPrice
<1> DEFINE expected == [q \in tasks[f].batch |->
                          IF Known(stateCache[q]) THEN Hot(KindOf[q]) ELSE All(KindOf[q])]
           offset == Offset(expected, p)
<1>1. taken = [q \in tasks[f].batch |->
                 [j \in DOMAIN expected[q] |-> AnswerAt(f, Offset(expected, q) + j)]]
  BY DEF TakenAnswers
<1>2. p \in DOMAIN taken /\ ~AnswersFail(taken, p)
  BY DEF Updated, Reached
<1>3. p \in tasks[f].batch /\ p \in Pools
  BY <1>1, <1>2 DEF FetchInv
<1>4. KindOf[p] \in {"v2", "v3", "v4key", "dodo"}
  BY <1>3 DEF PoolStateFetchConstants
<1>5. 1 \in DOMAIN expected[p]
  BY <1>3, <1>4, SomeCalls
<1>6. taken[p] = [j \in DOMAIN expected[p] |-> AnswerAt(f, offset + j)]
  BY <1>1, <1>3
<1> HIDE DEF expected
<1>7. taken[p][1] = AnswerAt(f, offset + 1)
  BY <1>5, <1>6
<1>8. taken[p][1].success
  BY <1>2, <1>4, SomeCalls DEF AnswersFail
<1>9. AnswerAt(f, offset + 1) \in tasks[f].answers
  <2> DEFINE here == {a \in tasks[f].answers : a.at = offset + 1}
  <2>1. AnswerAt(f, offset + 1) = IF here = {} THEN Unanswered ELSE CHOOSE a \in here : TRUE
    BY DEF AnswerAt
  <2>2. here # {}
    BY <1>7, <1>8, <2>1 DEF Unanswered
  <2> QED
    BY <2>1, <2>2
<1> QED
  BY <1>3, <1>7, <1>9 DEF FetchInv

(* The calls of a fetch are answered for its pools.                           *)
LEMMA MulticallKeeps ==
  ASSUME PoolStateFetchConstants, FetchInv, NEW f \in Fetchers, NEW batch \in SUBSET Pools,
         Multicall(f, batch)
  PROVE  FetchInv'
<1>1. PICK failing \in SUBSET batch :
        /\ IF failing = {} THEN UNCHANGED faults ELSE Fault
        /\ tasks' = [tasks EXCEPT ![f] = [batch |-> batch, answers |-> Answers(batch, failing)]]
  BY DEF Multicall
<1>2. UNCHANGED <<price, stateCache, failedPools, recent, graphState, tickTask>>
  BY DEF Multicall
<1>3. faults' \in 0..MaxFaults
  BY <1>1 DEF Fault, FetchInv, PoolStateFetchConstants
<1>4. ASSUME NEW a \in Answers(batch, failing)
      PROVE  a.owner \in Pools /\ a.price \in 0..MaxPrice
  <2> DEFINE calls == [p \in batch |-> CallsFor(p)]
             of(p, offset) ==
               {[at |-> offset + j, owner |-> p, price |-> price[p], type |-> calls[p][j],
                 success |-> p \notin failing] : j \in DOMAIN calls[p]}
  <2>1. PICK p \in batch : a \in of(p, Offset(calls, p))
    BY DEF Answers
  <2>2. PICK j \in DOMAIN calls[p] :
          a = [at |-> Offset(calls, p) + j, owner |-> p, price |-> price[p],
               type |-> calls[p][j], success |-> p \notin failing]
    BY <2>1
  <2> HIDE DEF calls
  <2>3. a.owner = p /\ a.price = price[p]
    BY <2>2
  <2> QED
    BY <2>3 DEF FetchInv
<1>5. /\ DOMAIN tasks' = Fetchers
      /\ \A g \in Fetchers :
           /\ tasks'[g].batch \in SUBSET Pools
           /\ \A a \in tasks'[g].answers : a.owner \in Pools /\ a.price \in 0..MaxPrice
  BY <1>1, <1>4 DEF FetchInv
<1> QED
  BY <1>2, <1>3, <1>5 DEF FetchInv

(* A fetch that is over.                                                      *)
LEMMA TaskEnds ==
  ASSUME FetchInv, NEW f \in Fetchers, tasks' = [tasks EXCEPT ![f] = Idle]
  PROVE  /\ DOMAIN tasks' = Fetchers
         /\ \A g \in Fetchers :
              /\ tasks'[g].batch \in SUBSET Pools
              /\ \A a \in tasks'[g].answers : a.owner \in Pools /\ a.price \in 0..MaxPrice
<1>1. Idle.batch = {} /\ Idle.answers = {}
  BY DEF Idle
<1> QED
  BY <1>1 DEF FetchInv

(* The end of a fetch writes the states of the pools it fetched, without ticks.*)
LEMMA FetchEndsKeeps ==
  ASSUME PoolStateFetchConstants, FetchInv, NEW f \in Fetchers, FetchEnds(f)
  PROVE  FetchInv'
<1> DEFINE taken == TakenAnswers(f)
           updated == Updated(taken)
           failed == Failed(taken)
<1>1. /\ tasks' = [tasks EXCEPT ![f] = Idle]
      /\ stateCache' = StatesAfter(taken, updated, failed)
      /\ failedPools' = Counts(updated, failed)
      /\ recent' = recent \cup updated
      /\ graphState' =
           [p \in Pools |-> IF p \in updated THEN stateCache'[p] ELSE graphState[p]]
      /\ UNCHANGED <<price, tickTask, faults>>
  BY DEF FetchEnds
<1>2. ASSUME NEW p \in updated
      PROVE  p \in Pools /\ taken[p][1].owner \in Pools /\ taken[p][1].price \in 0..MaxPrice
  BY WrittenState
<1> HIDE DEF taken, updated, failed
<1>3. /\ stateCache \in [Pools -> MaybeStates] /\ graphState \in [Pools -> MaybeStates]
      /\ failedPools \in [Pools -> 0..InvalidAfter] /\ recent \in SUBSET Pools
      /\ InvalidAfter \in Nat \ {0} /\ \A p \in Pools : Covered(stateCache[p])
  BY DEF FetchInv, PoolStateFetchConstants
<1>4. ASSUME NEW p \in Pools
      PROVE  stateCache'[p] \in MaybeStates /\ Covered(stateCache'[p])
  <2>1. CASE p \in updated
    <3>1. stateCache'[p] = [owner |-> taken[p][1].owner, price |-> taken[p][1].price,
                            ticks |-> {}]
      BY <1>1, <2>1 DEF StatesAfter
    <3>2. stateCache'[p] \in States /\ stateCache'[p].ticks = {}
      BY <1>2, <2>1, <3>1 DEF States
    <3> QED
      BY <3>2 DEF MaybeStates, Covered
  <2>2. CASE p \notin updated
    <3>1. stateCache'[p] \in {Invalid, stateCache[p]}
      BY <1>1, <2>2 DEF StatesAfter
    <3> QED
      BY <1>3, <3>1 DEF MaybeStates, Covered, Known
  <2> QED
    BY <2>1, <2>2
<1>5. stateCache' \in [Pools -> MaybeStates]
  <2>1. stateCache' = [p \in Pools |-> stateCache'[p]]
    BY <1>1 DEF StatesAfter
  <2> QED
    BY <1>4, <2>1
<1>6. graphState' \in [Pools -> MaybeStates]
  BY <1>1, <1>3, <1>4
<1>7. failedPools' \in [Pools -> 0..InvalidAfter]
  BY <1>1, <1>3 DEF Counts
<1>8. recent' \in SUBSET Pools
  BY <1>1, <1>2, <1>3
<1>9. /\ DOMAIN tasks' = Fetchers
      /\ \A g \in Fetchers :
           /\ tasks'[g].batch \in SUBSET Pools
           /\ \A a \in tasks'[g].answers : a.owner \in Pools /\ a.price \in 0..MaxPrice
  BY <1>1, TaskEnds
<1>10. /\ price' \in [Pools -> 0..MaxPrice] /\ faults' \in 0..MaxFaults
       /\ tickTask' # NoTask =>
            tickTask'.pool \in Pools /\ tickTask'.state \in States /\ Known(tickTask'.state)
  BY <1>1 DEF FetchInv
<1> QED
  BY <1>4, <1>5, <1>6, <1>7, <1>8, <1>9, <1>10 DEF FetchInv

(* Ticks are written with the state they were read for.                       *)
LEMMA TickFetchKeeps ==
  ASSUME PoolStateFetchConstants, FetchInv,
         TickFetchEnds \/ TickFetchFails \/ \E p \in Pools : TickFetchBegins(p)
  PROVE  FetchInv'
<1>1. CASE TickFetchEnds
  <2> DEFINE new == WithTicks(tickTask)
  <2>1. /\ tickTask' = NoTask /\ stateCache' = [stateCache EXCEPT ![tickTask.pool] = new]
        /\ UNCHANGED <<price, failedPools, recent, graphState, tasks, faults>>
    BY <1>1 DEF TickFetchEnds
  <2>2. tickTask.pool \in Pools /\ tickTask.state \in States
    BY <1>1 DEF TickFetchEnds, FetchInv
  <2>3. new \in States /\ new.price \in new.ticks
    BY <2>2 DEF WithTicks, States
  <2> HIDE DEF new
  <2>4. /\ stateCache' \in [Pools -> MaybeStates]
        /\ \A p \in Pools : Covered(stateCache'[p])
    BY <2>1, <2>2, <2>3 DEF FetchInv, MaybeStates, Covered
  <2> QED
    BY <2>1, <2>4 DEF FetchInv
<1>2. CASE TickFetchFails
  <2>1. faults' \in 0..MaxFaults
    BY <1>2 DEF TickFetchFails, Fault, FetchInv, PoolStateFetchConstants
  <2> QED
    BY <1>2, <2>1 DEF TickFetchFails, FetchInv
<1>3. CASE \E p \in Pools : TickFetchBegins(p)
  <2>1. PICK p \in Pools : TickFetchBegins(p)
    BY <1>3
  <2>2. /\ Known(stateCache[p]) /\ tickTask' = [pool |-> p, state |-> stateCache[p]]
        /\ UNCHANGED <<price, stateCache, failedPools, recent, graphState, tasks, faults>>
    BY <2>1 DEF TickFetchBegins
  <2>3. stateCache[p] \in States
    BY <2>2 DEF FetchInv, MaybeStates, Known
  <2>4. tickTask'.pool \in Pools /\ tickTask'.state \in States /\ Known(tickTask'.state)
    BY <2>2, <2>3
  <2> QED
    BY <2>2, <2>4 DEF FetchInv
<1> QED
  BY <1>1, <1>2, <1>3

(* The chain, reorganisations and the time to live of what is known.          *)
LEMMA EnvironmentKeeps ==
  ASSUME PoolStateFetchConstants, FetchInv, NEW p \in Pools,
         Trade(p) \/ Reorg \/ StateExpires(p) \/ FailureExpires(p) \/ Stales(p)
  PROVE  FetchInv'
<1>1. NoState \in MaybeStates /\ Covered(NoState)
  BY DEF MaybeStates, Covered, Known
<1>2. 0 \in 0..InvalidAfter /\ (Fault => faults' \in 0..MaxFaults)
  BY DEF Fault, FetchInv, PoolStateFetchConstants
<1>3. CASE Trade(p)
  <2>1. price' \in [Pools -> 0..MaxPrice]
    BY <1>3 DEF Trade, FetchInv, PoolStateFetchConstants
  <2> QED
    BY <1>3, <2>1 DEF Trade, FetchInv
<1>4. CASE Reorg
  <2>1. /\ stateCache' = [q \in Pools |-> NoState] /\ graphState' = stateCache'
        /\ failedPools' = [q \in Pools |-> 0] /\ recent' = {}
        /\ UNCHANGED <<price, tasks, tickTask>> /\ faults' \in 0..MaxFaults
    BY <1>2, <1>4 DEF Reorg
  <2>2. /\ stateCache' \in [Pools -> MaybeStates] /\ graphState' \in [Pools -> MaybeStates]
        /\ failedPools' \in [Pools -> 0..InvalidAfter]
        /\ \A q \in Pools : Covered(stateCache'[q])
    BY <1>1, <1>2, <2>1
  <2> QED
    BY <2>1, <2>2 DEF FetchInv
<1>5. CASE StateExpires(p)
  <2>1. /\ stateCache' = [stateCache EXCEPT ![p] = NoState] /\ faults' \in 0..MaxFaults
        /\ UNCHANGED <<price, failedPools, recent, graphState, tasks, tickTask>>
    BY <1>2, <1>5 DEF StateExpires
  <2>2. /\ stateCache' \in [Pools -> MaybeStates]
        /\ \A q \in Pools : Covered(stateCache'[q])
    BY <1>1, <2>1 DEF FetchInv
  <2> QED
    BY <2>1, <2>2 DEF FetchInv
<1>6. CASE FailureExpires(p)
  BY <1>2, <1>6 DEF FailureExpires, FetchInv
<1>7. CASE Stales(p)
  BY <1>7 DEF Stales, FetchInv
<1> QED
  BY <1>3, <1>4, <1>5, <1>6, <1>7

(* Nothing is known of the pools at first.                                    *)
LEMMA PoolStateFetchStarts ==
  ASSUME PoolStateFetchConstants, PoolStateFetchInit
  PROVE  FetchInv
<1>1. Idle.batch = {} /\ Idle.answers = {}
  BY DEF Idle
<1>2. NoState \in MaybeStates /\ Covered(NoState)
  BY DEF MaybeStates, Covered, Known
<1>3. /\ price = [p \in Pools |-> 0] /\ stateCache = [p \in Pools |-> NoState]
      /\ graphState = [p \in Pools |-> NoState] /\ failedPools = [p \in Pools |-> 0]
      /\ recent = {} /\ tasks = [f \in Fetchers |-> Idle] /\ tickTask = NoTask /\ faults = 0
  BY DEF PoolStateFetchInit
<1>4. 0 \in 0..MaxPrice /\ 0 \in 0..InvalidAfter /\ 0 \in 0..MaxFaults
  BY DEF PoolStateFetchConstants
<1> QED
  BY <1>1, <1>2, <1>3, <1>4 DEF FetchInv

(* Every fetch, failure and change of the chain keeps the invariant.          *)
LEMMA PoolStateFetchStep ==
  ASSUME PoolStateFetchConstants, FetchInv, [PoolStateFetchNext]_fetchVars
  PROVE  FetchInv'
<1>1. ASSUME NEW p \in Pools,
             Trade(p) \/ StateExpires(p) \/ FailureExpires(p) \/ Stales(p)
      PROVE  FetchInv'
  BY <1>1, EnvironmentKeeps
<1>2. CASE Reorg
  <2>1. CASE Pools = {}
    BY <1>2, <2>1 DEF Reorg, FetchInv, PoolStateFetchConstants, Fault
  <2>2. CASE Pools # {}
    <3>1. PICK p \in Pools : TRUE
      BY <2>2
    <3> QED
      BY <1>2, EnvironmentKeeps
  <2> QED
    BY <2>1, <2>2
<1>3. CASE TickFetchEnds \/ TickFetchFails \/ \E p \in Pools : TickFetchBegins(p)
  BY <1>3, TickFetchKeeps
<1>4. CASE FetchForCycles
  <2>1. "lf" \in Fetchers
    BY DEF Fetchers
  <2>2. Missing \in SUBSET Pools
    BY DEF Missing, PoolStateFetchConstants
  <2> QED
    BY <1>4, <2>1, <2>2, MulticallKeeps DEF FetchForCycles
<1>5. ASSUME NEW f \in Fetchers, HeadRefresh(f) \/ FetchUncached(f)
      PROVE  FetchInv'
  BY <1>5, MulticallKeeps DEF HeadRefresh, FetchUncached
<1>6. ASSUME NEW f \in Fetchers, FetchEnds(f)
      PROVE  FetchInv'
  BY <1>6, FetchEndsKeeps
<1>7. ASSUME NEW f \in Fetchers, FetchThrows(f)
      PROVE  FetchInv'
  <2>1. /\ tasks' = [tasks EXCEPT ![f] = Idle] /\ Fault
        /\ UNCHANGED <<price, stateCache, failedPools, recent, graphState, tickTask>>
    BY <1>7 DEF FetchThrows
  <2>2. faults' \in 0..MaxFaults
    BY <2>1 DEF Fault, FetchInv, PoolStateFetchConstants
  <2>3. /\ DOMAIN tasks' = Fetchers
        /\ \A g \in Fetchers :
             /\ tasks'[g].batch \in SUBSET Pools
             /\ \A a \in tasks'[g].answers : a.owner \in Pools /\ a.price \in 0..MaxPrice
    BY <2>1, TaskEnds
  <2> QED
    BY <2>1, <2>2, <2>3 DEF FetchInv
<1>8. CASE UNCHANGED fetchVars
  BY <1>8 DEF fetchVars, FetchInv
<1> QED
  BY <1>1, <1>2, <1>3, <1>4, <1>5, <1>6, <1>7, <1>8 DEF PoolStateFetchNext

(* For every list of pools, whatever their kinds, and however many fetches    *)
(* overlap: the states are states of pools, with the ticks of their price.    *)
THEOREM PoolStateFetchInvariant ==
  ASSUME PoolStateFetchConstants
  PROVE  PoolStateFetchSpec => []FetchInv
<1>1. PoolStateFetchInit => FetchInv
  BY PoolStateFetchStarts
<1>2. FetchInv /\ [PoolStateFetchNext]_fetchVars => FetchInv'
  BY PoolStateFetchStep
<1> QED
  BY <1>1, <1>2, PTL DEF PoolStateFetchSpec

(* The types of PoolStateFetch.                                               *)
THEOREM PoolStateFetchTyped ==
  ASSUME PoolStateFetchConstants
  PROVE  PoolStateFetchSpec => []PoolStateFetchTypeOK
<1>1. FetchInv => PoolStateFetchTypeOK
  BY DEF FetchInv, PoolStateFetchTypeOK, MaybeStates, States, Known
<1> QED
  BY <1>1, PoolStateFetchInvariant, PTL

(* The ticks of a state are those around its own price, however fetches, tick *)
(* fetches and reorganisations overlap.                                       *)
THEOREM TicksAlwaysCover ==
  ASSUME PoolStateFetchConstants
  PROVE  PoolStateFetchSpec => []TicksCoverPrice
<1>1. FetchInv => TicksCoverPrice
  BY DEF FetchInv, TicksCoverPrice, Covered
<1> QED
  BY <1>1, PoolStateFetchInvariant, PTL
=============================================================================
