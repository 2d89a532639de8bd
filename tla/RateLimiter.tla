----------------------------- MODULE RateLimiter -----------------------------
(***************************************************************************)
(* The token buckets in front of the node's P2P port: one for each client  *)
(* address, made when it first asks, dropped when memory gets tight.       *)
(*                                                                         *)
(* Time is counted in steps in which a bucket gains rate tokens.           *)
(***************************************************************************)
EXTENDS Integers, FiniteSets

CONSTANTS
  IP,
  rate,          \* tokens refilled in one step of time
  burst,         \* bucket capacity
  rlMaxBuckets,
  MaxNow         \* bound of the model: time ends

ASSUME LimiterAssumption ==
  /\ rate \in Nat \ {0} /\ burst \in Nat \ {0}
  /\ rlMaxBuckets \in Nat
  /\ MaxNow \in Nat

VARIABLES
  now,
  b,        \* address -> its bucket, for those that have one
  ideal,    \* history: the buckets of a limiter that never drops one
  trimmed   \* history: addresses that lost a bucket still in use

limiterVars == <<now, b, ideal, trimmed>>

atMost(x, y) == IF x > y THEN y ELSE x

\* What a bucket holds at this moment.
refilled(tb) == atMost(tb.tokens + (now - tb.last) * rate, burst)

full == [tokens |-> burst, last |-> now]
held(ip) == IF ip \in DOMAIN b THEN refilled(b[ip]) ELSE burst

\* Seeded fault: a bucket that would allow the next request counts as idle.
idle_almost == {ip \in DOMAIN b : refilled(b[ip]) >= 1}

\* Buckets that are full again tell no more than a new one.
idle == {ip \in DOMAIN b : refilled(b[ip]) >= burst}

\* Seeded fault: the trim was left out.
gcLocked_idleOnly == {DOMAIN b \ idle}

\* What gcLocked may leave: idle buckets go; of the others as many as are above the cap.
gcLocked ==
  LET active == DOMAIN b \ idle
      excess == Cardinality(active) - rlMaxBuckets
  IN  IF excess <= 0 THEN {active}
      ELSE {active \ gone : gone \in {g \in SUBSET active : Cardinality(g) = excess}}

\* The buckets that remain when a request of the address comes.
remaining(ip) ==
  IF ip \in DOMAIN b \/ Cardinality(DOMAIN b) < rlMaxBuckets THEN {DOMAIN b} ELSE gcLocked

\* A bucket after a request: what it held, less one token if there was one.
spent(tokens) == [tokens |-> IF tokens < 1 THEN tokens ELSE tokens - 1, last |-> now]

allow(ip) ==
  /\ \E kept \in remaining(ip) :
       /\ b' = [i \in kept \cup {ip} |-> IF i = ip THEN spent(held(ip)) ELSE b[i]]
       /\ trimmed' = trimmed \cup ((DOMAIN b \ idle) \ kept)
  /\ ideal' = [ideal EXCEPT ![ip] = spent(refilled(@))]
  /\ UNCHANGED now

Pass == now < MaxNow /\ now' = now + 1 /\ UNCHANGED <<b, ideal, trimmed>>

LimiterInit ==
  /\ now = 0
  /\ b = [ip \in {} |-> full]
  /\ ideal = [ip \in IP |-> [tokens |-> burst, last |-> 0]]
  /\ trimmed = {}

LimiterNext == Pass \/ \E ip \in IP : allow(ip)

LimiterSpec == LimiterInit /\ [][LimiterNext]_limiterVars

-----------------------------------------------------------------------------
\* Dropping buckets loses no limit and makes none stricter: an address is allowed
\* exactly what it would be if every bucket were kept, and more only after its own
\* bucket was trimmed while in use.
NoLimitLost ==
  \A ip \in IP :
    /\ held(ip) >= refilled(ideal[ip])
    /\ ip \notin trimmed => held(ip) = refilled(ideal[ip])

\* Memory is bounded: the cap is met before a bucket is added, so there is one more.
BucketsBounded == Cardinality(DOMAIN b) <= rlMaxBuckets + 1
==============================================================================
