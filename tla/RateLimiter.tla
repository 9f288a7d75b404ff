------------------------------ MODULE RateLimiter ------------------------------
(***************************************************************************)
(* The sliding-window rate limiter of the monitor's REST API               *)
(* (packages/monitor/src/api/rateLimiter.ts).  The timestamps of a bucket  *)
(* are kept as positions in allowedAt, the times of the requests that were *)
(* allowed; a bucket that does not exist is an empty one.                  *)
(***************************************************************************)
EXTENDS ApiClients, Integers, Sequences, FiniteSets

CONSTANTS rateLimitMax,       \* RATE_LIMIT_MAX, 100 by default
          rateLimitWindowMs,  \* RATE_LIMIT_WINDOW_MS, 60_000 by default
          MaxTime             \* bound: the last instant

ASSUME RateAssumption ==
    /\ rateLimitMax \in Nat /\ rateLimitWindowMs \in Nat \ {0} /\ MaxTime \in Nat

VARIABLES now,        \* Date.now()
          bucket,     \* per client, the requests whose timestamps its bucket holds
          lastClean,  \* per client, the time of its last check
          allowedAt   \* history: the times of all its requests allowed in this run

rateVars == <<now, bucket, lastClean, allowedAt>>

RateTypeOK ==
    /\ now \in 0..MaxTime
    /\ lastClean \in [Client -> 0..MaxTime]
    /\ allowedAt \in [Client -> Seq(0..MaxTime)]
    /\ \A c \in Client : bucket[c] \subseteq DOMAIN allowedAt[c]

RateInit == /\ now = 0
            /\ bucket = [c \in Client |-> {}] /\ lastClean = [c \in Client |-> 0]
            /\ allowedAt = [c \in Client |-> <<>>]

\* The timestamps that check() leaves in the bucket of c.
Recent(c) == {i \in bucket[c] : allowedAt[c][i] > now - rateLimitWindowMs}

\* check() when the request is allowed, and when it is refused.
Allow(c) ==
    /\ Cardinality(Recent(c)) < rateLimitMax
    /\ allowedAt' = [allowedAt EXCEPT ![c] = Append(@, now)]
    /\ bucket' = [bucket EXCEPT ![c] = Recent(c) \cup {Len(allowedAt[c]) + 1}]
    /\ lastClean' = [lastClean EXCEPT ![c] = now]
    /\ UNCHANGED now
Refuse(c) ==
    /\ Cardinality(Recent(c)) >= rateLimitMax
    /\ bucket' = [bucket EXCEPT ![c] = Recent(c)]
    /\ lastClean' = [lastClean EXCEPT ![c] = now]
    /\ UNCHANGED <<now, allowedAt>>

\* cleanup() drops the buckets of clients that have long been silent.
Stale_Recent(c) == lastClean[c] < now
Stale(c) == lastClean[c] < now - 2 * rateLimitWindowMs
Cleanup ==
    /\ \E c \in Client : Stale(c) /\ bucket[c] # {}
    /\ bucket' = [c \in Client |-> IF Stale(c) THEN {} ELSE bucket[c]]
    /\ UNCHANGED <<now, lastClean, allowedAt>>

Tick == /\ now < MaxTime
        /\ now' = now + 1
        /\ UNCHANGED <<bucket, lastClean, allowedAt>>

\* No window of the given length holds more than rateLimitMax allowed requests,
\* although timestamps are dropped by each check and by the cleanup timer.
RateRespected ==
    \A c \in Client : \A i \in DOMAIN allowedAt[c] :
        i + rateLimitMax \in DOMAIN allowedAt[c]
            => allowedAt[c][i + rateLimitMax] - allowedAt[c][i] >= rateLimitWindowMs

=============================================================================
