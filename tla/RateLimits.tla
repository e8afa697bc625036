------------------------------ MODULE RateLimits ------------------------------
(***************************************************************************)
(* The fixed-window rate limiter (ThrottlerGuard) of one client and route: *)
(* a counter in Redis that the replicas share, and a bucket in each        *)
(* replica's memory for when Redis fails.  INCR and EXPIRE are two calls,  *)
(* and a replica can stop between them.                                    *)
(***************************************************************************)
EXTENDS Naturals, FiniteSets

CONSTANTS
  Replicas,
  Limit,      \* requests per window
  MaxHits     \* bound on requests

\* Assumed of the constants, by the module that gives them values.
BoundsAssumption == Limit \in Nat \ {0} /\ "redis" \notin Replicas

VARIABLES
  counter,   \* the Redis key's value, 0 without the key
  expires,   \* the key has a time to live
  bucket,    \* a replica's own count, 0 when its window has closed
  hit,       \* where the replica's request is
  served,    \* history: requests let through in the shared window, and in each replica's
  lost,      \* history: an EXPIRE that was never done
  hits

vars == <<counter, expires, bucket, hit, served, lost, hits>>

Init ==
  /\ counter = 0 /\ expires = FALSE
  /\ bucket = [r \in Replicas |-> 0]
  /\ hit = [r \in Replicas |-> "idle"]
  /\ served = [w \in Replicas \cup {"redis"} |-> 0]
  /\ lost = FALSE /\ hits = 0

\* redis.incr; the first request of a window sets its end.
Incr(r) ==
  /\ hit[r] = "idle" /\ hits < MaxHits
  /\ hits' = hits + 1
  /\ counter' = counter + 1
  /\ hit' = [hit EXCEPT ![r] = IF counter = 0 THEN "expire" ELSE "idle"]
  /\ served' = IF counter = 0 \/ counter' > Limit THEN served ELSE [served EXCEPT !["redis"] = @ + 1]
  /\ UNCHANGED <<expires, bucket, lost>>

\* Faulty variant: the window is not given an end.
ExpiresNever == FALSE

ExpiresSet == TRUE

\* redis.expire of the first request.
Expire(r) ==
  /\ hit[r] = "expire"
  /\ expires' = (counter > 0 /\ ExpiresSet)
  /\ served' = [served EXCEPT !["redis"] = @ + 1]
  /\ hit' = [hit EXCEPT ![r] = "idle"]
  /\ UNCHANGED <<counter, bucket, lost, hits>>

\* hitMemory: a new window, or one more in it.
HitMemory(r) ==
  /\ bucket' = [bucket EXCEPT ![r] = @ + 1]
  /\ served' = IF bucket[r] + 1 > Limit THEN served ELSE [served EXCEPT ![r] = @ + 1]

\* Redis fails: the request is counted in memory, "rather than failing open".
RedisFails(r) ==
  /\ \/ hit[r] = "idle" /\ hits < MaxHits /\ hits' = hits + 1 /\ lost' = lost
     \/ hit[r] = "expire" /\ hits' = hits /\ lost' = TRUE
  /\ HitMemory(r)
  /\ hit' = [hit EXCEPT ![r] = "idle"]
  /\ UNCHANGED <<counter, expires>>

\* redis.ttl of a later request fails: it is counted in the shared window and in memory, too.
TtlFails(r) ==
  /\ hit[r] = "idle" /\ hits < MaxHits /\ counter > 0
  /\ hits' = hits + 1
  /\ counter' = counter + 1
  /\ HitMemory(r)
  /\ UNCHANGED <<expires, hit, lost>>

\* The replica stops; its memory is gone.
Crash(r) ==
  /\ hits < MaxHits
  /\ lost' = (lost \/ hit[r] = "expire")
  /\ hit' = [hit EXCEPT ![r] = "idle"]
  /\ bucket' = [bucket EXCEPT ![r] = 0]
  /\ served' = [served EXCEPT ![r] = 0]
  /\ UNCHANGED <<counter, expires, hits>>

\* The key's time to live is over.
CloseWindow ==
  /\ expires
  /\ counter' = 0 /\ expires' = FALSE
  /\ served' = [served EXCEPT !["redis"] = 0]
  /\ UNCHANGED <<bucket, hit, lost, hits>>

\* resetAt has passed.
CloseBucket(r) ==
  /\ bucket[r] > 0
  /\ bucket' = [bucket EXCEPT ![r] = 0]
  /\ served' = [served EXCEPT ![r] = 0]
  /\ UNCHANGED <<counter, expires, hit, lost, hits>>

Next ==
  \/ \E r \in Replicas : Incr(r) \/ Expire(r) \/ RedisFails(r) \/ TtlFails(r) \/ Crash(r) \/ CloseBucket(r)
  \/ CloseWindow

Spec == Init /\ [][Next]_vars

\* No window lets more through than its limit, and a window that has begun will
\* end: the key has a time to live, or the request that opened it is about to set
\* one, unless Redis or the replica failed between INCR and EXPIRE.
LimitsSound ==
  /\ \A w \in DOMAIN served : served[w] <= Limit
  /\ counter > 0 => expires \/ lost \/ \E r \in Replicas : hit[r] = "expire"

-------------------------------------------------------------------------------
\* Types of the counters and of the requests in flight.
LimitTypes ==
  /\ counter \in Nat
  /\ bucket \in [Replicas -> Nat]
  /\ hit \in [Replicas -> {"idle", "expire"}]
  /\ served \in [Replicas \cup {"redis"} -> Nat]

\* One request at most is between INCR and EXPIRE: it opened the window, which has
\* no end yet.  Only a key that exists has a time to live.
OneOpener ==
  /\ expires => counter > 0
  /\ \A r \in Replicas : hit[r] = "expire" =>
       /\ counter > 0 /\ ~expires
       /\ \A q \in Replicas : hit[q] = "expire" => q = r

\* What the shared window let through, the opener's own pass included, is within
\* the counter and the limit.
SharedWithinCounter ==
  /\ served["redis"] <= counter /\ served["redis"] <= Limit
  /\ \A r \in Replicas : hit[r] = "expire" => served["redis"] < counter /\ served["redis"] < Limit

\* What a replica's own window let through is within its bucket and the limit.
LocalWithinBucket == \A r \in Replicas : served[r] <= bucket[r] /\ served[r] <= Limit

\* A window that has begun has an end, or somebody about to set it.
WindowEnds == counter > 0 => expires \/ lost \/ \E r \in Replicas : hit[r] = "expire"

\* The inductive invariant.
LimitsInv == LimitTypes /\ OneOpener /\ SharedWithinCounter /\ LocalWithinBucket /\ WindowEnds
===============================================================================
