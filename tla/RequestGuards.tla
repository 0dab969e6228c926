--------------------------- MODULE RequestGuards ---------------------------
(***************************************************************************)
(* The guards every public request passes before its handler, in their     *)
(* order: the in-memory rate limiter (rate-limit.guard.ts), then the       *)
(* request signature with its nonce table (request-signature.guard.ts).    *)
(* Neither awaits anything, so a request passes both in one step.  Both    *)
(* tables live in the memory of one server process.                        *)
(*                                                                         *)
(* A signing secret is configured for the product and version of every     *)
(* request; HMAC and canonical JSON are abstracted to whether the          *)
(* signature matches.                                                      *)
(***************************************************************************)
EXTENDS Integers, FiniteSets, Functions

CONSTANTS
    Key,         \* client address, method and route
    Nonce,       \* nonces clients use
    Stamp,       \* timestamps clients put on their requests
    None,        \* no answer yet, never accepted
    Limit,       \* PUBLIC_API_RATE_LIMIT_MAX
    RateWindow,  \* PUBLIC_API_RATE_LIMIT_WINDOW_MS
    Skew,        \* five minutes: how far a timestamp may be off
    Retention,   \* five minutes: how long a nonce is remembered
    MaxTime,     \* bound on the clock
    MaxHits      \* bound on the requests of a key in one window

ASSUME GuardAssumption ==
    /\ Limit \in Nat \ {0} /\ RateWindow \in Nat \ {0}
    /\ Skew \in Nat /\ Retention \in Nat \ {0}
    /\ MaxTime \in Nat /\ MaxHits \in Nat \ {0} /\ Stamp \subseteq Nat
    /\ None \notin Nat

VARIABLES
    now,      \* Date.now()
    buckets,  \* RateLimitService.buckets, a partial function on Key
    seen,     \* NonceReplayService.seen, a partial function on SignedRequest: expiry
    answer,   \* what the last request was answered, None once time has passed
    passes,   \* history: the requests of a key that passed the limiter in the last window
    last      \* history: when a signed request was last let through

vars == <<now, buckets, seen, answer, passes, last>>
-----------------------------------------------------------------------------
\* A nonce is remembered together with its timestamp.
SignedRequest == [stamp : Stamp, nonce : Nonce]

Put(f, x, v) == [y \in DOMAIN f \union {x} |-> IF y = x THEN v ELSE f[y]]

\* The buckets and nonces that have not expired; the rest is dropped at the next request.
Open == RestrictValues(buckets, LAMBDA bucket : bucket.resetAt > now)
Remembered == RestrictValues(seen, LAMBDA expiresAt : expiresAt > now)

\* RateLimitService.hit: the bucket of k is counted up, or opened.
Hit(k) ==
    IF k \in DOMAIN Open THEN [Open EXCEPT ![k].count = @ + 1]
    ELSE Put(Open, k, [count |-> 1, resetAt |-> now + RateWindow])

\* Fault: off by one.
FaultAllowed(k) == Hit(k)[k].count <= Limit + 1
Allowed(k) == Hit(k)[k].count <= Limit

Fresh(r) == now - r.stamp <= Skew /\ r.stamp - now <= Skew
-----------------------------------------------------------------------------
Limited(k) ==
    /\ ~Allowed(k)
    /\ buckets' = Hit(k)
    /\ answer' = [key |-> k, code |-> "RATE_LIMITED", request |-> None]
    /\ UNCHANGED <<now, seen, passes, last>>

\* No two passes of a key have the same bucket, known by its end, and the same
\* place in it.
PassLimiter(k) ==
    /\ Allowed(k)
    /\ buckets' = Hit(k)
    /\ passes' = [passes EXCEPT ![k] = @ \union
          {[at |-> now, resetAt |-> buckets'[k].resetAt, count |-> buckets'[k].count]}]
    /\ UNCHANGED now

\* Headers missing, timestamp off, or signature wrong: the nonce is not used up.
\* Fault: the nonce is stored before the signature is checked.
FaultUnsigned(k, r, genuine) ==
    /\ PassLimiter(k)
    /\ ~Fresh(r) \/ ~genuine
    /\ answer' = [key |-> k, code |-> "UNAUTHORIZED", request |-> r]
    /\ seen' = IF Fresh(r) THEN Put(Remembered, r, now + Retention) ELSE seen
    /\ UNCHANGED last

Unsigned(k, r, genuine) ==
    /\ PassLimiter(k)
    /\ ~Fresh(r) \/ ~genuine
    /\ answer' = [key |-> k, code |-> "UNAUTHORIZED", request |-> r]
    /\ UNCHANGED <<seen, last>>

Replayed(k, r) ==
    /\ PassLimiter(k)
    /\ Fresh(r)
    /\ r \in DOMAIN Remembered
    /\ seen' = Remembered
    /\ answer' = [key |-> k, code |-> "REPLAYED", request |-> r]
    /\ UNCHANGED last

\* Fault: the nonce is not stored.
FaultLetThrough(k, r) ==
    /\ PassLimiter(k)
    /\ Fresh(r)
    /\ r \notin DOMAIN Remembered
    /\ seen' = Remembered
    /\ last' = [last EXCEPT ![r] = now]
    /\ answer' = [key |-> k, code |-> "OK", request |-> r]

LetThrough(k, r) ==
    /\ PassLimiter(k)
    /\ Fresh(r)
    /\ r \notin DOMAIN Remembered
    /\ seen' = Put(Remembered, r, now + Retention)
    /\ last' = [last EXCEPT ![r] = now]
    /\ answer' = [key |-> k, code |-> "OK", request |-> r]

\* Bound on requests: a key sends MaxHits in one window at most.
Busy(k) == k \in DOMAIN Open /\ Open[k].count >= MaxHits

Arrive(k, r, genuine) ==
    /\ ~Busy(k)
    /\ \/ Limited(k)
       \/ Unsigned(k, r, genuine)
       \/ genuine /\ Replayed(k, r)
       \/ genuine /\ LetThrough(k, r)

TimePasses ==
    /\ now < MaxTime
    /\ now' = now + 1
    /\ answer' = None
    /\ passes' = [k \in Key |-> {pass \in passes[k] : pass.at > now' - RateWindow}]
    /\ UNCHANGED <<buckets, seen, last>>

\* The process ends and starts again with empty tables; history starts again too.
Restart ==
    /\ buckets' = <<>> /\ seen' = <<>>
    /\ answer' = None
    /\ passes' = [k \in Key |-> {}]
    /\ last' = [r \in SignedRequest |-> None]
    /\ UNCHANGED now

Init ==
    /\ now = 0 /\ buckets = <<>> /\ seen = <<>>
    /\ answer = None
    /\ passes = [k \in Key |-> {}]
    /\ last = [r \in SignedRequest |-> None]

Next ==
    \/ \E k \in Key, r \in SignedRequest, genuine \in BOOLEAN : Arrive(k, r, genuine)
    \/ TimePasses
    \/ Restart

Spec == Init /\ [][Next]_vars
-----------------------------------------------------------------------------
\* Both tables and every answer are ones the guards produce.
GuardTypeOK ==
    /\ now \in 0 .. MaxTime
    /\ DOMAIN buckets \subseteq Key
    /\ \A k \in DOMAIN buckets : buckets[k] \in [count : 1 .. MaxHits, resetAt : 1 .. MaxTime + RateWindow]
    /\ DOMAIN seen \subseteq SignedRequest
    /\ \A r \in DOMAIN seen : seen[r] \in 1 .. MaxTime + Retention
    /\ answer = None \/ answer \in
          [key : Key, code : {"OK", "RATE_LIMITED", "UNAUTHORIZED", "REPLAYED"}, request : SignedRequest \union {None}]
    /\ passes \in [Key -> SUBSET [at : 0 .. MaxTime, resetAt : 1 .. MaxTime + RateWindow, count : 1 .. Limit]]
    /\ last \in [SignedRequest -> 0 .. MaxTime \union {None}]

\* The windows are fixed, not sliding: in any stretch of one window's length a
\* key gets fewer than twice the limit through, where 03 deployment guide,
\* section 6, promises the limit itself.  And a key is refused only if the limit
\* has passed for it within the last window: refused requests do not keep it
\* out, nor do the requests of other keys.
RateBounded ==
    /\ \A k \in Key : Cardinality(passes[k]) < 2 * Limit
    /\ answer # None => (answer.code = "RATE_LIMITED" => Cardinality(passes[answer.key]) >= Limit)

\* A signed request is let through a second time only after Retention.
ReplayedOnlyLate ==
    [][\A k \in Key, r \in SignedRequest :
           LetThrough(k, r) /\ last[r] # None => now - last[r] >= Retention]_vars

\* Only a request that was let through before is refused as a replay.
NoFalseReplay ==
    answer # None => (answer.code = "REPLAYED" => last[answer.request] # None)
=============================================================================
