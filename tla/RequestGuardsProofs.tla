------------------------ MODULE RequestGuardsProofs ------------------------
(***************************************************************************)
(* The tables of RequestGuards, for every number of keys, nonces and       *)
(* timestamps, every limit and every window, alone and with the handlers   *)
(* and metrics of PublicApi around them.                                   *)
(***************************************************************************)
EXTENDS PublicApi, FiniteSetTheorems, TLAPS

\* What links the table to the history of requests let through.
Linked ==
    /\ now \in Nat
    /\ last \in [SignedRequest -> Nat \union {None}]
    /\ DOMAIN seen \subseteq SignedRequest
    /\ \A r \in DOMAIN seen : seen[r] \in Nat /\ last[r] # None
    /\ \A r \in SignedRequest : last[r] # None => last[r] <= now
    /\ \A r \in SignedRequest : last[r] # None /\ last[r] + Retention > now =>
          r \in DOMAIN seen /\ seen[r] >= last[r] + Retention

ReplayInv == Linked /\ NoFalseReplay

LEMMA RememberedFacts ==
    /\ DOMAIN Remembered = {r \in DOMAIN seen : seen[r] > now}
    /\ \A r \in DOMAIN Remembered : Remembered[r] = seen[r]
BY DEF Remembered, RestrictValues, RestrictDomain, Restrict

\* Dropping the expired entries loses nothing Linked speaks of.
LEMMA SweptLinked ==
    ASSUME Linked, seen' = Remembered, UNCHANGED <<now, last>>
    PROVE  Linked'
<1>1. ASSUME NEW r \in SignedRequest, last[r] # None, last[r] + Retention > now
      PROVE  r \in DOMAIN Remembered /\ Remembered[r] >= last[r] + Retention
  <2>1. r \in DOMAIN seen /\ seen[r] >= last[r] + Retention /\ seen[r] \in Nat /\ last[r] \in Nat /\ now \in Nat
    BY <1>1 DEF Linked
  <2>2. seen[r] > now
    BY <1>1, <2>1, GuardAssumption
  <2> QED BY <2>1, <2>2, RememberedFacts
<1> QED BY <1>1, RememberedFacts DEF Linked

LEMMA LetThroughLinked ==
    ASSUME Linked, NEW k \in Key, NEW r \in SignedRequest, LetThrough(k, r)
    PROVE  Linked'
<1>1. now' = now /\ last' = [last EXCEPT ![r] = now] /\ seen' = Put(Remembered, r, now + Retention)
  BY DEF LetThrough, PassLimiter
<1>2. last' \in [SignedRequest -> Nat \union {None}] /\ last'[r] = now
      /\ \A q \in SignedRequest : q # r => last'[q] = last[q]
  BY <1>1 DEF Linked
<1>3. /\ DOMAIN seen' = {q \in DOMAIN seen : seen[q] > now} \union {r}
      /\ seen'[r] = now + Retention
      /\ \A q \in DOMAIN seen : seen[q] > now /\ q # r => seen'[q] = seen[q]
  <2> DEFINE swept == Remembered
  <2>1. /\ DOMAIN swept = {q \in DOMAIN seen : seen[q] > now}
        /\ \A q \in DOMAIN swept : swept[q] = seen[q]
    BY RememberedFacts
  <2>2. seen' = Put(swept, r, now + Retention)
    BY <1>1
  <2> HIDE DEF swept
  <2>3. /\ DOMAIN seen' = DOMAIN swept \union {r}
        /\ seen'[r] = now + Retention
        /\ \A q \in DOMAIN swept : q # r => seen'[q] = swept[q]
    BY <2>2 DEF Put
  <2> QED BY <2>1, <2>3
<1> QED BY <1>1, <1>2, <1>3, GuardAssumption DEF Linked

LEMMA ReplayStep == ReplayInv /\ [Next]_vars => ReplayInv'
<1> SUFFICES ASSUME ReplayInv, [Next]_vars PROVE ReplayInv'
  OBVIOUS
<1> USE DEF ReplayInv
<1>1. ASSUME NEW k \in Key, NEW r \in SignedRequest, NEW genuine \in BOOLEAN, Arrive(k, r, genuine)
      PROVE  ReplayInv'
  <2>1. CASE Limited(k)
    BY <2>1 DEF Limited, Linked, NoFalseReplay
  <2>2. CASE Unsigned(k, r, genuine)
    BY <2>2 DEF Unsigned, PassLimiter, Linked, NoFalseReplay
  <2>3. CASE Replayed(k, r)
    <3>1. Linked'
      BY <2>3, SweptLinked DEF Replayed, PassLimiter
    <3>2. answer'.request = r /\ last'[r] # None
      BY <2>3, RememberedFacts DEF Replayed, Linked
    <3> QED BY <3>1, <3>2 DEF NoFalseReplay
  <2>4. CASE LetThrough(k, r)
    <3>1. answer'.code = "OK"
      BY <2>4 DEF LetThrough
    <3> QED BY <2>4, <3>1, LetThroughLinked DEF NoFalseReplay
  <2> QED BY <1>1, <2>1, <2>2, <2>3, <2>4 DEF Arrive
<1>2. CASE TimePasses
  <2>1. now' = now + 1 /\ answer' = None /\ UNCHANGED <<seen, last>>
    BY <1>2 DEF TimePasses
  <2>2. \A r \in SignedRequest : last[r] # None => last[r] \in Nat
    BY DEF Linked
  <2>3. Linked'
    BY <2>1, <2>2, GuardAssumption DEF Linked
  <2> QED BY <2>1, <2>3 DEF NoFalseReplay
<1>3. CASE Restart
  BY <1>3 DEF Restart, Linked, NoFalseReplay
<1>4. CASE UNCHANGED vars
  BY <1>4 DEF vars, Linked, NoFalseReplay
<1> QED BY <1>1, <1>2, <1>3, <1>4 DEF Next

LEMMA ReplayInvariant == Spec => []ReplayInv
<1>1. Init => ReplayInv
  BY DEF Init, ReplayInv, Linked, NoFalseReplay
<1> QED BY <1>1, ReplayStep, PTL DEF Spec

\* A request refused as a replay was let through before (NonceReplayService.use
\* finds only what it stored itself).
THEOREM RefusalsDeserved == Spec => []NoFalseReplay
<1>1. ReplayInv => NoFalseReplay
  BY DEF ReplayInv
<1> QED BY <1>1, ReplayInvariant, PTL

\* The same signed request passes the guard twice only if Retention lies
\* between: until then the nonce table still holds it.
THEOREM ReplaysApart == Spec => ReplayedOnlyLate
<1>1. ReplayInv /\ [Next]_vars =>
         [\A k \in Key, r \in SignedRequest :
              LetThrough(k, r) /\ last[r] # None => now - last[r] >= Retention]_vars
  <2> SUFFICES ASSUME ReplayInv, NEW k \in Key, NEW r \in SignedRequest, LetThrough(k, r), last[r] # None
               PROVE  now - last[r] >= Retention
    OBVIOUS
  <2>1. ~(r \in DOMAIN seen /\ seen[r] > now)
    BY RememberedFacts DEF LetThrough
  <2> QED BY <2>1, GuardAssumption DEF ReplayInv, Linked
<1> QED BY <1>1, ReplayInvariant, PTL DEF Spec, ReplayedOnlyLate
-----------------------------------------------------------------------------
LEMMA OpenFacts ==
    /\ DOMAIN Open = {k \in DOMAIN buckets : buckets[k].resetAt > now}
    /\ \A k \in DOMAIN Open : Open[k] = buckets[k]
BY DEF Open, RestrictValues, RestrictDomain, Restrict

\* A key that is not too busy is counted within the bound.
LEMMA HitTyped ==
    ASSUME GuardTypeOK, NEW k \in Key, ~Busy(k)
    PROVE  /\ DOMAIN Hit(k) \subseteq Key
           /\ \A x \in DOMAIN Hit(k) : Hit(k)[x] \in [count : 1 .. MaxHits, resetAt : 1 .. MaxTime + RateWindow]
<1> DEFINE open == Open
           Bucket == [count : 1 .. MaxHits, resetAt : 1 .. MaxTime + RateWindow]
<1>1. DOMAIN open \subseteq Key /\ \A x \in DOMAIN open : open[x] \in Bucket
  BY OpenFacts DEF GuardTypeOK
<1>2. k \in DOMAIN open => open[k].count < MaxHits
  BY <1>1, GuardAssumption DEF Busy
<1>3. Hit(k) = IF k \in DOMAIN open THEN [open EXCEPT ![k].count = @ + 1]
               ELSE Put(open, k, [count |-> 1, resetAt |-> now + RateWindow])
  BY DEF Hit
<1> HIDE DEF open
<1>4. CASE k \in DOMAIN open
  <2>1. Hit(k) = [open EXCEPT ![k] = [open[k] EXCEPT !.count = @ + 1]]
    BY <1>3, <1>4
  <2>2. [open[k] EXCEPT !.count = @ + 1] \in Bucket
    BY <1>1, <1>2, <1>4, GuardAssumption
  <2> QED BY <1>1, <1>4, <2>1, <2>2
<1>5. CASE k \notin DOMAIN open
  <2>1. [count |-> 1, resetAt |-> now + RateWindow] \in Bucket
    BY GuardAssumption DEF GuardTypeOK
  <2> QED BY <1>1, <1>3, <1>5, <2>1 DEF Put
<1> QED BY <1>4, <1>5

IsOpen(k) == k \in DOMAIN buckets /\ buckets[k].resetAt > now

LEMMA HitFacts ==
    ASSUME GuardTypeOK, NEW k \in Key
    PROVE  /\ k \in DOMAIN Hit(k)
           /\ IsOpen(k) => Hit(k)[k] = [count |-> buckets[k].count + 1, resetAt |-> buckets[k].resetAt]
           /\ ~IsOpen(k) => Hit(k)[k] = [count |-> 1, resetAt |-> now + RateWindow]
           /\ \A x \in DOMAIN Hit(k) : x # k => IsOpen(x) /\ Hit(k)[x] = buckets[x]
           /\ \A x \in DOMAIN buckets : IsOpen(x) => x \in DOMAIN Hit(k)
<1> DEFINE open == Open
<1>1. DOMAIN open = {x \in DOMAIN buckets : IsOpen(x)} /\ \A x \in DOMAIN open : open[x] = buckets[x]
  BY OpenFacts DEF IsOpen
<1>2. Hit(k) = IF k \in DOMAIN open THEN [open EXCEPT ![k].count = @ + 1]
               ELSE Put(open, k, [count |-> 1, resetAt |-> now + RateWindow])
  BY DEF Hit
<1>3. IsOpen(k) <=> k \in DOMAIN open
  BY <1>1 DEF IsOpen
<1> HIDE DEF open
<1>4. CASE k \in DOMAIN open
  <2>1. Hit(k) = [open EXCEPT ![k] = [open[k] EXCEPT !.count = @ + 1]]
    BY <1>2, <1>4
  <2>2. open[k] = buckets[k] /\ buckets[k] \in [count : 1 .. MaxHits, resetAt : 1 .. MaxTime + RateWindow]
    BY <1>1, <1>4 DEF GuardTypeOK
  <2>3. [open[k] EXCEPT !.count = @ + 1] = [count |-> buckets[k].count + 1, resetAt |-> buckets[k].resetAt]
    BY <2>2
  <2> QED BY <1>1, <1>3, <1>4, <2>1, <2>3
<1>5. CASE k \notin DOMAIN open
  <2>1. Hit(k) = Put(open, k, [count |-> 1, resetAt |-> now + RateWindow])
    BY <1>2, <1>5
  <2> QED BY <1>1, <1>3, <1>5, <2>1 DEF Put
<1> QED BY <1>4, <1>5

LEMMA TypeStep == GuardTypeOK /\ [Next]_vars => GuardTypeOK'
<1> SUFFICES ASSUME GuardTypeOK, [Next]_vars PROVE GuardTypeOK'
  OBVIOUS
<1> USE GuardAssumption
<1>1. ASSUME NEW k \in Key, NEW r \in SignedRequest, NEW genuine \in BOOLEAN, Arrive(k, r, genuine)
      PROVE  GuardTypeOK'
  <2> DEFINE hit == Hit(k)
  <2>1. DOMAIN hit \subseteq Key /\ \A x \in DOMAIN hit : hit[x] \in [count : 1 .. MaxHits, resetAt : 1 .. MaxTime + RateWindow]
    BY <1>1, HitTyped DEF Arrive
  <2>2. buckets' = hit /\ now' = now
    BY <1>1 DEF Arrive, Limited, Unsigned, Replayed, LetThrough, PassLimiter
  <2>6. passes' \in [Key -> SUBSET [at : 0 .. MaxTime, resetAt : 1 .. MaxTime + RateWindow, count : 1 .. Limit]]
    <3>1. CASE Limited(k)
      BY <3>1 DEF Limited, GuardTypeOK
    <3>2. CASE PassLimiter(k)
      <4>1. k \in DOMAIN hit
        BY HitFacts
      <4>2. hit[k].count \in 1 .. Limit /\ hit[k].resetAt \in 1 .. MaxTime + RateWindow
        BY <2>1, <3>2, <4>1 DEF PassLimiter, Allowed
      <4>3. passes' = [passes EXCEPT ![k] = passes[k] \union
                          {[at |-> now, resetAt |-> hit[k].resetAt, count |-> hit[k].count]}]
        BY <2>2, <3>2 DEF PassLimiter
      <4> HIDE DEF hit
      <4> QED BY <4>2, <4>3 DEF GuardTypeOK
    <3> QED BY <1>1, <3>1, <3>2 DEF Arrive, Unsigned, Replayed, LetThrough
  <2>3. answer' \in [key : Key, code : {"OK", "RATE_LIMITED", "UNAUTHORIZED", "REPLAYED"}, request : SignedRequest \union {None}]
    BY <1>1 DEF Arrive, Limited, Unsigned, Replayed, LetThrough
  <2>4. last' \in [SignedRequest -> 0 .. MaxTime \union {None}]
    BY <1>1 DEF Arrive, Limited, Unsigned, Replayed, LetThrough, PassLimiter, GuardTypeOK
  <2>5. DOMAIN seen' \subseteq SignedRequest /\ \A x \in DOMAIN seen' : seen'[x] \in 1 .. MaxTime + Retention
    <3> DEFINE kept == Remembered
    <3>1. DOMAIN kept \subseteq SignedRequest /\ \A x \in DOMAIN kept : kept[x] \in 1 .. MaxTime + Retention
      BY RememberedFacts DEF GuardTypeOK
    <3>2. seen' = seen \/ seen' = kept \/ seen' = Put(kept, r, now + Retention)
      BY <1>1 DEF Arrive, Limited, Unsigned, Replayed, LetThrough
    <3> HIDE DEF kept
    <3>3. now + Retention \in 1 .. MaxTime + Retention
      BY DEF GuardTypeOK
    <3> QED BY <3>1, <3>2, <3>3 DEF GuardTypeOK, Put
  <2> HIDE DEF hit
  <2> QED BY <2>1, <2>2, <2>3, <2>4, <2>5, <2>6 DEF GuardTypeOK
<1>2. CASE TimePasses
  BY <1>2 DEF TimePasses, GuardTypeOK
<1>3. CASE Restart
  BY <1>3 DEF Restart, GuardTypeOK
<1>4. CASE UNCHANGED vars
  BY <1>4 DEF vars, GuardTypeOK
<1> QED BY <1>1, <1>2, <1>3, <1>4 DEF Next

\* Buckets, nonces and answers are ones the guards produce (rate-limit.guard.ts,
\* request-signature.guard.ts).
THEOREM GuardTypeCorrect == Spec => []GuardTypeOK
<1>1. Init => GuardTypeOK
  BY GuardAssumption DEF Init, GuardTypeOK
<1> QED BY <1>1, TypeStep, PTL DEF Spec
-----------------------------------------------------------------------------
(* The rate limiter. *)

\* What the limiter remembers of a key against what it let through: the passes
\* of the open bucket are its first places, all of them, each once; those of an
\* earlier bucket ended a window before a later one does.
LimiterInv ==
    /\ \A k \in DOMAIN buckets : buckets[k].resetAt <= now + RateWindow
    /\ \A k \in Key : \A p \in passes[k] :
          /\ now - RateWindow < p.at /\ p.at <= now
          /\ p.resetAt - RateWindow <= p.at /\ p.at < p.resetAt
          /\ p.count = 1 => p.at = p.resetAt - RateWindow
          /\ p.resetAt > now => /\ k \in DOMAIN buckets
                                /\ buckets[k].resetAt = p.resetAt
                                /\ p.count <= buckets[k].count
    /\ \A k \in Key : \A p, q \in passes[k] :
          /\ p.resetAt = q.resetAt /\ p.count = q.count => p = q
          /\ p.resetAt < q.resetAt => p.resetAt <= q.resetAt - RateWindow
    /\ \A k \in DOMAIN buckets : buckets[k].resetAt > now =>
          \A n \in 1 .. Limit : n <= buckets[k].count =>
              \E p \in passes[k] : p.resetAt = buckets[k].resetAt /\ p.count = n

\* A request is allowed as long as the open bucket has places left.
LEMMA AllowedFacts ==
    ASSUME GuardTypeOK, NEW k \in Key
    PROVE  Allowed(k) <=> (IsOpen(k) => buckets[k].count < Limit)
<1>1. CASE IsOpen(k)
  <2>1. buckets[k].count \in Int
    BY <1>1 DEF IsOpen, GuardTypeOK
  <2>2. Hit(k)[k] = [count |-> buckets[k].count + 1, resetAt |-> buckets[k].resetAt]
    BY <1>1, HitFacts
  <2> QED BY <1>1, <2>1, <2>2, GuardAssumption DEF Allowed
<1>2. CASE ~IsOpen(k)
  <2>1. Hit(k)[k] = [count |-> 1, resetAt |-> now + RateWindow]
    BY <1>2, HitFacts
  <2> QED BY <1>2, <2>1, GuardAssumption DEF Allowed
<1> QED BY <1>1, <1>2

\* The types the arithmetic below needs.
LEMMA LimiterTypes ==
    ASSUME GuardTypeOK
    PROVE  /\ now \in Nat
           /\ \A k \in DOMAIN buckets : buckets[k].count \in Nat \ {0} /\ buckets[k].resetAt \in Nat
           /\ \A k \in Key : \A p \in passes[k] :
                 /\ p.at \in Nat /\ p.resetAt \in Nat /\ p.count \in 1 .. Limit
                 /\ p = [at |-> p.at, resetAt |-> p.resetAt, count |-> p.count]
<1>1. \A k \in DOMAIN buckets : buckets[k] \in [count : 1 .. MaxHits, resetAt : 1 .. MaxTime + RateWindow]
  BY DEF GuardTypeOK
<1>2. \A k \in Key : passes[k] \subseteq [at : 0 .. MaxTime, resetAt : 1 .. MaxTime + RateWindow, count : 1 .. Limit]
  BY DEF GuardTypeOK
<1> QED BY <1>1, <1>2, GuardAssumption DEF GuardTypeOK

\* A refused request takes no place.
LEMMA LimitedKeeps ==
    ASSUME GuardTypeOK, LimiterInv, NEW k \in Key, Limited(k)
    PROVE  LimiterInv'
<1>1. /\ now' = now /\ passes' = passes /\ DOMAIN buckets' = DOMAIN Hit(k)
      /\ IsOpen(k) /\ buckets[k].count >= Limit
      /\ buckets'[k] = [count |-> buckets[k].count + 1, resetAt |-> buckets[k].resetAt]
  <2>1. IsOpen(k) /\ buckets[k].count >= Limit
    BY AllowedFacts, LimiterTypes, GuardAssumption DEF Limited, IsOpen
  <2> QED BY <2>1, HitFacts DEF Limited
<1>2. /\ k \in DOMAIN buckets'
      /\ \A x \in DOMAIN buckets' : x # k => IsOpen(x) /\ buckets'[x] = buckets[x]
      /\ \A x \in DOMAIN buckets : IsOpen(x) => x \in DOMAIN buckets'
  BY HitFacts DEF Limited
<1>3. \A x \in DOMAIN buckets' : /\ x \in DOMAIN buckets /\ buckets'[x].resetAt = buckets[x].resetAt
                                 /\ buckets'[x].count = IF x = k THEN buckets[x].count + 1 ELSE buckets[x].count
  BY <1>1, <1>2 DEF IsOpen
<1>4. \A x \in DOMAIN buckets' : buckets'[x].resetAt <= now + RateWindow
  BY <1>3 DEF LimiterInv
<1>5. ASSUME NEW x \in Key, NEW p \in passes[x], p.resetAt > now
      PROVE  x \in DOMAIN buckets' /\ buckets'[x].resetAt = p.resetAt /\ p.count <= buckets'[x].count
  <2>1. x \in DOMAIN buckets /\ buckets[x].resetAt = p.resetAt /\ p.count <= buckets[x].count
    BY <1>5 DEF LimiterInv
  <2>2. x \in DOMAIN buckets'
    BY <1>2, <1>5, <2>1 DEF IsOpen
  <2> QED BY <1>3, <2>1, <2>2, LimiterTypes
<1>6. ASSUME NEW x \in DOMAIN buckets', buckets'[x].resetAt > now, NEW n \in 1 .. Limit, n <= buckets'[x].count
      PROVE  \E p \in passes[x] : p.resetAt = buckets'[x].resetAt /\ p.count = n
  <2>1. x \in DOMAIN buckets /\ buckets'[x].resetAt = buckets[x].resetAt
    BY <1>3
  <2>2. n <= buckets[x].count
    BY <1>1, <1>3, <1>6, <2>1, LimiterTypes, GuardAssumption
  <2> QED BY <1>6, <2>1, <2>2 DEF LimiterInv
<1> QED BY <1>1, <1>4, <1>5, <1>6 DEF LimiterInv

\* A request that passes takes the next place of the open bucket, or the first
\* of a new one.
LEMMA PassKeeps ==
    ASSUME GuardTypeOK, LimiterInv, NEW k \in Key, PassLimiter(k)
    PROVE  LimiterInv'
<1>1. now' = now /\ buckets' = Hit(k) /\ now \in Nat
  BY LimiterTypes DEF PassLimiter
<1>2. PICK R, C : R = buckets'[k].resetAt /\ C = buckets'[k].count
  OBVIOUS
<1>3. PICK new : new = [at |-> now, resetAt |-> R, count |-> C]
  OBVIOUS
<1>4. passes'[k] = passes[k] \union {new} /\ \A x \in Key : x # k => passes'[x] = passes[x]
  BY <1>2, <1>3 DEF PassLimiter, GuardTypeOK
<1>5. /\ k \in DOMAIN buckets'
      /\ \A x \in DOMAIN buckets' : x # k => IsOpen(x) /\ buckets'[x] = buckets[x]
      /\ \A x \in DOMAIN buckets : IsOpen(x) => x \in DOMAIN buckets'
  BY <1>1, HitFacts
<1>6. /\ IsOpen(k) => C = buckets[k].count + 1 /\ R = buckets[k].resetAt /\ C <= Limit
      /\ ~IsOpen(k) => C = 1 /\ R = now + RateWindow
  <2>1. CASE IsOpen(k)
    <3>1. buckets'[k] = [count |-> buckets[k].count + 1, resetAt |-> buckets[k].resetAt]
      BY <1>1, <2>1, HitFacts
    <3>2. buckets[k].count < Limit /\ buckets[k].count \in Nat
      BY <2>1, AllowedFacts, LimiterTypes DEF PassLimiter, IsOpen
    <3> QED BY <1>2, <2>1, <3>1, <3>2, GuardAssumption
  <2>2. CASE ~IsOpen(k)
    <3>1. buckets'[k] = [count |-> 1, resetAt |-> now + RateWindow]
      BY <1>1, <2>2, HitFacts
    <3> QED BY <1>2, <2>2, <3>1
  <2> QED BY <2>1, <2>2
<1>7. R \in Nat /\ C \in Nat /\ now < R /\ R - RateWindow <= now /\ (C = 1 => now = R - RateWindow)
  <2>1. CASE IsOpen(k)
    <3>1. R \in Nat /\ C \in Nat /\ now < R /\ R <= now + RateWindow /\ C # 1
      BY <1>6, <2>1, LimiterTypes DEF IsOpen, LimiterInv
    <3> QED BY <1>1, <3>1, GuardAssumption
  <2> QED BY <1>1, <1>6, <2>1, GuardAssumption
\* How the passes of k so far stand to the new one.
<1>8. ASSUME NEW p \in passes[k]
      PROVE  (p.resetAt = R /\ p.count < C) \/ p.resetAt <= R - RateWindow
  <2>1. p.resetAt \in Nat /\ p.count \in Nat
    BY LimiterTypes
  <2>2. CASE p.resetAt > now
    BY <1>6, <2>1, <2>2, LimiterTypes DEF LimiterInv, IsOpen
  <2>3. CASE p.resetAt <= now /\ ~IsOpen(k)
    BY <1>1, <1>6, <2>1, <2>3, GuardAssumption
  <2>4. CASE p.resetAt <= now /\ IsOpen(k)
    <3>1. PICK q \in passes[k] : q.resetAt = buckets[k].resetAt /\ q.count = 1
      BY <2>4, LimiterTypes, GuardAssumption DEF LimiterInv, IsOpen
    <3>2. p.resetAt < q.resetAt
      BY <2>1, <2>4, <3>1, <1>1, LimiterTypes DEF IsOpen
    <3> QED BY <1>6, <2>4, <3>1, <3>2 DEF LimiterInv
  <2> QED BY <1>1, <2>1, <2>2, <2>3, <2>4
<1>9. ASSUME NEW x \in DOMAIN buckets'
      PROVE  buckets'[x].resetAt <= now + RateWindow
  <2>1. CASE x = k
    BY <1>1, <1>2, <1>7, <2>1, GuardAssumption
  <2>2. CASE x # k
    BY <1>5, <2>2 DEF LimiterInv, IsOpen
  <2> QED BY <2>1, <2>2
<1>10. ASSUME NEW x \in Key, NEW p \in passes'[x]
       PROVE  /\ now - RateWindow < p.at /\ p.at <= now
              /\ p.resetAt - RateWindow <= p.at /\ p.at < p.resetAt
              /\ p.count = 1 => p.at = p.resetAt - RateWindow
              /\ p.resetAt > now => /\ x \in DOMAIN buckets'
                                    /\ buckets'[x].resetAt = p.resetAt
                                    /\ p.count <= buckets'[x].count
  <2>1. CASE x = k /\ p = new
    BY <1>1, <1>2, <1>3, <1>5, <1>7, <2>1, GuardAssumption
  <2>2. CASE p \in passes[x]
    <3>1. p.resetAt > now => /\ x \in DOMAIN buckets'
                             /\ buckets'[x].resetAt = p.resetAt
                             /\ p.count <= buckets'[x].count
      <4> SUFFICES ASSUME p.resetAt > now
                   PROVE  x \in DOMAIN buckets' /\ buckets'[x].resetAt = p.resetAt /\ p.count <= buckets'[x].count
        OBVIOUS
      <4>1. x \in DOMAIN buckets /\ buckets[x].resetAt = p.resetAt /\ p.count <= buckets[x].count
        BY <2>2 DEF LimiterInv
      <4>2. IsOpen(x)
        BY <4>1 DEF IsOpen
      <4>3. CASE x = k
        BY <1>2, <1>5, <1>6, <2>2, <4>1, <4>2, <4>3, LimiterTypes
      <4>4. CASE x # k
        BY <1>5, <4>1, <4>2, <4>4
      <4> QED BY <4>3, <4>4
    <3> QED BY <2>2, <3>1 DEF LimiterInv
  <2> QED BY <1>4, <2>1, <2>2
<1>11. ASSUME NEW x \in Key, NEW p \in passes'[x], NEW q \in passes'[x]
       PROVE  /\ p.resetAt = q.resetAt /\ p.count = q.count => p = q
              /\ p.resetAt < q.resetAt => p.resetAt <= q.resetAt - RateWindow
  <2>1. CASE p \in passes[x] /\ q \in passes[x]
    BY <2>1 DEF LimiterInv
  <2>2. CASE x = k /\ p = new /\ q = new
    BY <1>3, <1>7, <2>2
  <2>3. CASE x = k /\ p \in passes[k] /\ q = new
    BY <1>3, <1>7, <1>8, <2>3, LimiterTypes, GuardAssumption
  <2>4. CASE x = k /\ p = new /\ q \in passes[k]
    BY <1>3, <1>7, <1>8, <2>4, LimiterTypes, GuardAssumption
  <2> QED BY <1>4, <2>1, <2>2, <2>3, <2>4
<1>12. ASSUME NEW x \in DOMAIN buckets', buckets'[x].resetAt > now, NEW n \in 1 .. Limit, n <= buckets'[x].count
       PROVE  \E p \in passes'[x] : p.resetAt = buckets'[x].resetAt /\ p.count = n
  <2>1. CASE x # k
    <3>1. IsOpen(x) /\ buckets'[x] = buckets[x] /\ x \in Key
      BY <1>5, <2>1 DEF IsOpen, GuardTypeOK
    <3>2. \E p \in passes[x] : p.resetAt = buckets[x].resetAt /\ p.count = n
      BY <1>12, <3>1 DEF LimiterInv, IsOpen
    <3> QED BY <1>4, <2>1, <3>1, <3>2
  <2>2. CASE x = k /\ n = C
    BY <1>2, <1>3, <1>4, <2>2
  <2>3. CASE x = k /\ n # C
    <3>1. IsOpen(k) /\ n <= buckets[k].count
      BY <1>2, <1>6, <1>7, <1>12, <2>3, LimiterTypes DEF IsOpen
    <3>2. \E p \in passes[k] : p.resetAt = buckets[k].resetAt /\ p.count = n
      BY <3>1 DEF LimiterInv, IsOpen
    <3> QED BY <1>2, <1>4, <1>6, <2>3, <3>1, <3>2
  <2> QED BY <2>1, <2>2, <2>3
<1> QED BY <1>1, <1>9, <1>10, <1>11, <1>12 DEF LimiterInv

LEMMA LimiterStep == GuardTypeOK /\ LimiterInv /\ [Next]_vars => LimiterInv'
<1> SUFFICES ASSUME GuardTypeOK, LimiterInv, [Next]_vars PROVE LimiterInv'
  OBVIOUS
<1>1. ASSUME NEW k \in Key, NEW r \in SignedRequest, NEW genuine \in BOOLEAN, Arrive(k, r, genuine)
      PROVE  LimiterInv'
  BY <1>1, LimitedKeeps, PassKeeps DEF Arrive, Unsigned, Replayed, LetThrough
<1>2. CASE TimePasses
  <2>1. now' = now + 1 /\ buckets' = buckets /\ passes' = [k \in Key |-> {p \in passes[k] : p.at > now' - RateWindow}]
    BY <1>2 DEF TimePasses
  <2>2. \A k \in Key : \A p \in passes'[k] : p \in passes[k] /\ p.at > now' - RateWindow
    BY <2>1
  <2>3. \A k \in DOMAIN buckets' : buckets'[k].resetAt <= now' + RateWindow
    BY <2>1, LimiterTypes, GuardAssumption DEF LimiterInv
  <2>4. ASSUME NEW k \in Key, NEW p \in passes'[k]
        PROVE  /\ now' - RateWindow < p.at /\ p.at <= now'
               /\ p.resetAt - RateWindow <= p.at /\ p.at < p.resetAt
               /\ p.count = 1 => p.at = p.resetAt - RateWindow
               /\ p.resetAt > now' => /\ k \in DOMAIN buckets'
                                      /\ buckets'[k].resetAt = p.resetAt
                                      /\ p.count <= buckets'[k].count
    BY <2>1, <2>2, LimiterTypes, GuardAssumption DEF LimiterInv
  \* What the open bucket let through is younger than a window.
  <2>5. ASSUME NEW k \in DOMAIN buckets', buckets'[k].resetAt > now', NEW n \in 1 .. Limit, n <= buckets'[k].count
        PROVE  \E p \in passes'[k] : p.resetAt = buckets'[k].resetAt /\ p.count = n
    <3>1. k \in Key /\ buckets[k].resetAt > now
      BY <2>1, <2>5, LimiterTypes DEF GuardTypeOK
    <3>2. PICK p \in passes[k] : p.resetAt = buckets[k].resetAt /\ p.count = n
      BY <2>1, <2>5, <3>1 DEF LimiterInv
    <3>3. p.at > now' - RateWindow
      BY <2>1, <2>5, <3>1, <3>2, LimiterTypes, GuardAssumption DEF LimiterInv
    <3> QED BY <2>1, <3>1, <3>2, <3>3
  <2>6. \A k \in Key : \A p, q \in passes'[k] :
           /\ p.resetAt = q.resetAt /\ p.count = q.count => p = q
           /\ p.resetAt < q.resetAt => p.resetAt <= q.resetAt - RateWindow
    BY <2>2 DEF LimiterInv
  <2> QED BY <2>1, <2>3, <2>4, <2>5, <2>6 DEF LimiterInv
<1>3. CASE Restart
  BY <1>3 DEF Restart, LimiterInv
<1>4. CASE UNCHANGED vars
  BY <1>4 DEF vars, LimiterInv
<1> QED BY <1>1, <1>2, <1>3, <1>4 DEF Next

\* Fewer than twice the limit: the open bucket gives Limit places at most, and
\* the one before it has lost its first to time.
LEMMA PassesBounded ==
    ASSUME GuardTypeOK, LimiterInv, NEW k \in Key
    PROVE  IsFiniteSet(passes[k]) /\ Cardinality(passes[k]) \in Nat /\ Cardinality(passes[k]) < 2 * Limit
<1>1. \A p \in passes[k] : p.resetAt <= now => p.count # 1
  BY LimiterTypes, GuardAssumption DEF LimiterInv
<1>2. \A p, q \in passes[k] : p.resetAt <= now /\ q.resetAt <= now => p.resetAt = q.resetAt
  BY LimiterTypes, GuardAssumption DEF LimiterInv
<1>3. \A p, q \in passes[k] : p.resetAt > now /\ q.resetAt > now => p.resetAt = q.resetAt
  BY DEF LimiterInv
<1>4. PICK place : place = [p \in passes[k] |-> IF p.resetAt > now THEN p.count ELSE Limit + p.count - 1]
  OBVIOUS
<1>5. PICK top \in Nat : top = 2 * Limit - 1
  BY GuardAssumption
<1>6. \A p \in passes[k] : place[p] \in 1 .. top /\ (p.resetAt > now <=> place[p] <= Limit)
  BY <1>1, <1>4, <1>5, LimiterTypes, GuardAssumption
<1>7. ASSUME NEW p \in passes[k], NEW q \in passes[k], place[p] = place[q]
      PROVE  p = q
  <2>1. (p.resetAt > now <=> q.resetAt > now) /\ p.resetAt \in Nat /\ q.resetAt \in Nat /\ now \in Nat
    BY <1>6, <1>7, LimiterTypes
  <2>2. p.count = q.count
    BY <1>4, <1>7, <2>1, LimiterTypes, GuardAssumption
  <2>3. p.resetAt = q.resetAt
    BY <1>2, <1>3, <2>1
  <2> QED BY <2>2, <2>3 DEF LimiterInv
<1>8. place \in Injection(passes[k], 1 .. top)
  BY <1>4, <1>6, <1>7 DEF Injection, IsInjective
<1>9. IsFiniteSet(1 .. top) /\ Cardinality(1 .. top) = top
  BY <1>5, FS_Interval, GuardAssumption
<1>10. IsFiniteSet(passes[k]) /\ Cardinality(passes[k]) <= top
  BY <1>8, <1>9, FS_Injection
<1> QED BY <1>5, <1>10, FS_CardinalityType, GuardAssumption

\* Who is refused has used every place of the open bucket.
LEMMA LimitUsed ==
    ASSUME GuardTypeOK, LimiterInv, NEW k \in Key, ~Allowed(k)
    PROVE  Cardinality(passes[k]) >= Limit
<1>1. IsOpen(k) /\ buckets[k].count >= Limit
  BY AllowedFacts, LimiterTypes, GuardAssumption DEF IsOpen
<1>2. \A n \in 1 .. Limit : \E p \in passes[k] : p.count = n
  BY <1>1, LimiterTypes, GuardAssumption DEF LimiterInv, IsOpen
<1>3. PICK pass : pass = [n \in 1 .. Limit |-> CHOOSE p \in passes[k] : p.count = n]
  OBVIOUS
<1>4. \A n \in 1 .. Limit : pass[n] \in passes[k] /\ pass[n].count = n
  BY <1>2, <1>3
<1>5. pass \in Injection(1 .. Limit, passes[k])
  <2>1. pass \in [1 .. Limit -> passes[k]]
    BY <1>3, <1>4
  <2>2. \A m, n \in 1 .. Limit : pass[m] = pass[n] => m = n
    BY <1>4
  <2> QED BY <2>1, <2>2 DEF Injection, IsInjective
<1>6. Cardinality(1 .. Limit) = Limit
  BY FS_Interval, GuardAssumption
<1>7. Cardinality(1 .. Limit) <= Cardinality(passes[k])
  BY <1>5, PassesBounded, FS_Injection
<1> QED BY <1>6, <1>7, PassesBounded, GuardAssumption

RefusalsEarned ==
    answer # None => (answer.code = "RATE_LIMITED" => Cardinality(passes[answer.key]) >= Limit)

RateInv == GuardTypeOK /\ LimiterInv /\ RefusalsEarned

LEMMA RateStep == RateInv /\ [Next]_vars => RateInv'
<1> SUFFICES ASSUME RateInv, [Next]_vars PROVE RateInv'
  OBVIOUS
<1>1. GuardTypeOK' /\ LimiterInv'
  BY TypeStep, LimiterStep DEF RateInv
<1>2. GuardTypeOK /\ LimiterInv
  BY DEF RateInv
<1>3. ASSUME NEW k \in Key, NEW r \in SignedRequest, NEW genuine \in BOOLEAN, Arrive(k, r, genuine)
      PROVE  RefusalsEarned'
  <2>1. CASE Limited(k)
    <3>1. answer'.key = k /\ passes' = passes /\ ~Allowed(k)
      BY <2>1 DEF Limited
    <3> QED BY <1>2, <3>1, LimitUsed DEF RefusalsEarned
  <2>2. CASE Unsigned(k, r, genuine) \/ Replayed(k, r) \/ LetThrough(k, r)
    BY <2>2 DEF Unsigned, Replayed, LetThrough, RefusalsEarned
  <2> QED BY <1>3, <2>1, <2>2 DEF Arrive
<1>4. CASE TimePasses \/ Restart
  <2>1. answer' = None
    BY <1>4 DEF TimePasses, Restart
  <2>2. RefusalsEarned'
    BY <2>1 DEF RefusalsEarned
  <2> QED BY <1>1, <2>2 DEF RateInv
<1>5. CASE UNCHANGED vars
  <2>1. answer' = answer /\ passes' = passes
    BY <1>5 DEF vars
  <2>2. RefusalsEarned'
    BY <2>1 DEF RateInv, RefusalsEarned
  <2> QED BY <1>1, <2>2 DEF RateInv
<1> QED BY <1>1, <1>3, <1>4, <1>5 DEF Next, RateInv

\* In any stretch of one window's length the limiter lets fewer than twice the
\* limit of a key through, and it refuses a key only when the limit has passed
\* for it within the last window (rate-limit.guard.ts, RateLimitService.hit).
THEOREM RateHolds == Spec => []RateBounded
<1>1. Init => RateInv
  <2> SUFFICES ASSUME Init PROVE RateInv
    OBVIOUS
  <2>1. GuardTypeOK /\ LimiterInv
    BY GuardAssumption DEF Init, GuardTypeOK, LimiterInv
  <2> QED BY <2>1 DEF RateInv, RefusalsEarned, Init
<1>2. RateInv => RateBounded
  BY PassesBounded DEF RateInv, RefusalsEarned, RateBounded
<1> QED BY <1>1, <1>2, RateStep, PTL DEF Spec

-----------------------------------------------------------------------------
(* PublicApi is RequestGuards with handlers and metrics around it. *)

LEMMA ApiStepIsGuardStep == [ApiNext]_apiVars => [Next]_vars
<1> SUFFICES ASSUME [ApiNext]_apiVars PROVE [Next]_vars
  OBVIOUS
<1>1. ASSUME NEW k \in Key, NEW r \in SignedRequest, NEW genuine \in BOOLEAN, Request(k, r, genuine)
      PROVE  Next
  BY <1>1 DEF Request, Next
<1>2. ASSUME NEW i \in DOMAIN calls, NEW ending \in Ending, Respond(i, ending)
      PROVE  UNCHANGED vars
  BY <1>2 DEF Respond
<1>3. CASE ApiTime
  BY <1>3 DEF ApiTime, Next
<1>4. CASE ApiRestart
  BY <1>4 DEF ApiRestart, Next
<1>5. CASE UNCHANGED apiVars
  BY <1>5 DEF apiVars
<1> QED BY <1>1, <1>2, <1>3, <1>4, <1>5 DEF ApiNext

\* Handlers and metrics leave the guards as they are: a behaviour of the public
\* API is one of the guards (rate-limit.guard.ts, request-signature.guard.ts).
THEOREM ApiImplementsGuards == ApiSpec => Spec
<1>1. ApiInit => Init
  BY DEF ApiInit
<1> QED BY <1>1, ApiStepIsGuardStep, PTL DEF ApiSpec, Spec

\* So the guards keep what is proved of them around any handlers: refusals as a
\* replay are deserved, a request passes twice only with the retention time in
\* between, and the rate is bounded (request-signature.guard.ts,
\* NonceReplayService.use; rate-limit.guard.ts, RateLimitService.hit).
THEOREM ApiKeepsGuards == ApiSpec => []GuardTypeOK /\ []RateBounded /\ []NoFalseReplay /\ ReplayedOnlyLate
BY ApiImplementsGuards, GuardTypeCorrect, RateHolds, RefusalsDeserved, ReplaysApart, PTL
-----------------------------------------------------------------------------
(* The metrics. *)

CountInv ==
    /\ calls \in Seq(Handler)
    /\ metrics \in [Route -> [count : Nat, failures : Nat]]
    /\ MetricsCountServed

LEMMA ServedFinite ==
    ASSUME calls \in Seq(Handler)
    PROVE  /\ IsFiniteSet(Served) /\ Cardinality(Served) \in Nat
           /\ IsFiniteSet(Failed) /\ Cardinality(Failed) \in Nat
           /\ IsFiniteSet(Coded) /\ Cardinality(Coded) \in Nat
           /\ \A route : /\ IsFiniteSet(ServedOf(route))
                         /\ IsFiniteSet(ServedOf(route) \intersect Failed)
                         /\ Cardinality(ServedOf(route)) \in Nat
                         /\ Cardinality(ServedOf(route) \intersect Failed) \in Nat
<1>1. IsFiniteSet(DOMAIN calls)
  <2>1. DOMAIN calls = 1 .. Len(calls) /\ Len(calls) \in Nat
    OBVIOUS
  <2> QED BY <2>1, FS_Interval
<1>2. /\ Served \in SUBSET DOMAIN calls /\ Failed \in SUBSET DOMAIN calls /\ Coded \in SUBSET DOMAIN calls
      /\ \A route : /\ ServedOf(route) \in SUBSET DOMAIN calls
                    /\ ServedOf(route) \intersect Failed \in SUBSET DOMAIN calls
  BY DEF Served, Failed, Coded, ServedOf
<1>3. \A S \in SUBSET DOMAIN calls : IsFiniteSet(S) /\ Cardinality(S) \in Nat
  BY <1>1, FS_Subset, FS_CardinalityType
<1> QED BY <1>2, <1>3

LEMMA InitCounts == ApiInit => CountInv
<1> SUFFICES ASSUME ApiInit PROVE CountInv
  OBVIOUS
<1>1. calls = <<>> /\ calls \in Seq(Handler) /\ DOMAIN calls = {}
  BY DEF ApiInit
<1>2. Served = {} /\ Failed = {} /\ Coded = {} /\ \A route : ServedOf(route) = {}
  BY <1>1 DEF Served, Failed, Coded, ServedOf
<1>3. \A route : ServedOf(route) \intersect Failed = {}
  BY <1>2
<1> QED BY <1>1, <1>2, <1>3, FS_EmptySet DEF ApiInit, CountInv, MetricsCountServed, NoCalls

LEMMA RestartCounts == NothingServed => CountInv'
<1> SUFFICES ASSUME NothingServed PROVE CountInv'
  OBVIOUS
<1>1. calls' = <<>> /\ calls' \in Seq(Handler) /\ DOMAIN calls' = {}
  BY DEF NothingServed
<1>2. Served' = {} /\ Failed' = {} /\ Coded' = {} /\ \A route : ServedOf(route)' = {}
  BY <1>1 DEF Served, Failed, Coded, ServedOf
<1>3. \A route : (ServedOf(route) \intersect Failed)' = {}
  BY <1>2
<1> QED BY <1>1, <1>2, <1>3, FS_EmptySet DEF NothingServed, CountInv, MetricsCountServed, NoCalls

\* A handler that begins changes no count.
LEMMA RequestCounts ==
    ASSUME CountInv, NEW k \in Key, calls' = Append(calls, [route |-> RouteOf[k], ending |-> "running"]),
           UNCHANGED <<metrics, totals>>
    PROVE  CountInv'
<1>1. [route |-> RouteOf[k], ending |-> "running"] \in Handler
  BY RouteAssumption DEF Handler
<1>2. /\ calls' \in Seq(Handler) /\ DOMAIN calls' = DOMAIN calls \union {Len(calls) + 1}
      /\ Len(calls) + 1 \notin DOMAIN calls
      /\ calls'[Len(calls) + 1].ending = "running"
      /\ \A i \in DOMAIN calls : calls'[i] = calls[i]
  BY <1>1 DEF CountInv
<1>3. Served' = Served
  BY <1>2 DEF Served
<1>4. Failed' = Failed /\ Coded' = Coded /\ \A route : ServedOf(route)' = ServedOf(route)
  BY <1>2, <1>3 DEF Failed, Coded, ServedOf, Served
<1> QED BY <1>2, <1>3, <1>4 DEF CountInv, MetricsCountServed

LEMMA RespondCounts ==
    ASSUME CountInv, NEW i \in DOMAIN calls, NEW ending \in Ending, Respond(i, ending)
    PROVE  CountInv'
<1>0. PICK route : route = calls[i].route
  OBVIOUS
<1>1. /\ calls[i].ending = "running" /\ calls[i] \in Handler
      /\ calls' = [calls EXCEPT ![i].ending = ending]
      /\ metrics' = [metrics EXCEPT ![route] = Count(@, ending)]
      /\ totals' = [requests |-> Count(totals.requests, ending),
                    codes |-> totals.codes + IF ending = "CODED" THEN 1 ELSE 0]
  BY <1>0 DEF Respond, Record, CountInv
<1>2. route \in Route /\ ending # "running"
  BY <1>0, <1>1 DEF Handler, Ending
<1>3. /\ calls' \in Seq(Handler) /\ DOMAIN calls' = DOMAIN calls
      /\ calls'[i] = [route |-> route, ending |-> ending]
      /\ \A j \in DOMAIN calls : j # i => calls'[j] = calls[j]
  <2>1. PICK h : h = [route |-> route, ending |-> ending]
    OBVIOUS
  <2>2. h \in Handler
    BY <1>2, <2>1 DEF Handler
  <2>3. calls' = [calls EXCEPT ![i] = h]
    <3>1. calls' = [calls EXCEPT ![i] = [calls[i] EXCEPT !.ending = ending]]
      BY <1>1
    <3>2. [calls[i] EXCEPT !.ending = ending] = h
      BY <1>0, <1>1, <2>1 DEF Handler
    <3> QED BY <3>1, <3>2
  <2> QED BY <2>1, <2>2, <2>3 DEF CountInv
<1>4. Served' = Served \union {i} /\ i \notin Served
  BY <1>1, <1>2, <1>3 DEF Served
<1>5. /\ Failed' = IF ending = "OK" THEN Failed ELSE Failed \union {i}
      /\ Coded' = IF ending = "CODED" THEN Coded \union {i} ELSE Coded
      /\ i \notin Failed /\ i \notin Coded
  BY <1>3, <1>4 DEF Failed, Coded, Served
<1>6. /\ ServedOf(route)' = ServedOf(route) \union {i}
      /\ i \notin ServedOf(route)
      /\ \A other : other # route => ServedOf(other)' = ServedOf(other)
  BY <1>0, <1>3, <1>4 DEF ServedOf, Served
<1>7. /\ (ServedOf(route) \intersect Failed)' =
             IF ending = "OK" THEN ServedOf(route) \intersect Failed ELSE (ServedOf(route) \intersect Failed) \union {i}
      /\ \A other : other # route => (ServedOf(other) \intersect Failed)' = ServedOf(other) \intersect Failed
  <2>1. \A other : other # route => i \notin ServedOf(other)
    BY <1>0 DEF ServedOf
  <2> QED BY <1>5, <1>6, <2>1
<1>8. /\ Cardinality(Served') = Cardinality(Served) + 1
      /\ Cardinality(Failed') = Cardinality(Failed) + IF ending = "OK" THEN 0 ELSE 1
      /\ Cardinality(Coded') = Cardinality(Coded) + IF ending = "CODED" THEN 1 ELSE 0
      /\ Cardinality(ServedOf(route)') = Cardinality(ServedOf(route)) + 1
      /\ Cardinality((ServedOf(route) \intersect Failed)') =
             Cardinality(ServedOf(route) \intersect Failed) + IF ending = "OK" THEN 0 ELSE 1
  <2>1. \A S, T : IsFiniteSet(S) /\ T = S \union {i} /\ i \notin S => Cardinality(T) = Cardinality(S) + 1
    BY FS_AddElement
  <2>2. /\ IsFiniteSet(Served) /\ Cardinality(Served) \in Nat
        /\ IsFiniteSet(Failed) /\ Cardinality(Failed) \in Nat
        /\ IsFiniteSet(Coded) /\ Cardinality(Coded) \in Nat
        /\ IsFiniteSet(ServedOf(route)) /\ IsFiniteSet(ServedOf(route) \intersect Failed)
        /\ Cardinality(ServedOf(route) \intersect Failed) \in Nat
    BY ServedFinite DEF CountInv
  <2>3. Cardinality(Served') = Cardinality(Served) + 1 /\ Cardinality(ServedOf(route)') = Cardinality(ServedOf(route)) + 1
    BY <1>4, <1>6, <2>1, <2>2
  <2>4. Cardinality(Failed') = Cardinality(Failed) + IF ending = "OK" THEN 0 ELSE 1
    BY <1>5, <2>1, <2>2
  <2>5. Cardinality(Coded') = Cardinality(Coded) + IF ending = "CODED" THEN 1 ELSE 0
    BY <1>5, <2>1, <2>2
  <2>6. Cardinality((ServedOf(route) \intersect Failed)') =
             Cardinality(ServedOf(route) \intersect Failed) + IF ending = "OK" THEN 0 ELSE 1
    <3> DEFINE failed == ServedOf(route) \intersect Failed
    <3>1. IsFiniteSet(failed) /\ i \notin failed /\ Cardinality(failed) \in Nat
      BY <1>6, <2>2
    <3>2. failed' = IF ending = "OK" THEN failed ELSE failed \union {i}
      BY <1>7
    <3> HIDE DEF failed
    <3>3. Cardinality(failed') = Cardinality(failed) + IF ending = "OK" THEN 0 ELSE 1
      BY <2>1, <3>1, <3>2
    <3> QED BY <3>3 DEF failed
  <2> QED BY <2>3, <2>4, <2>5, <2>6
<1>9. \A metric \in [count : Nat, failures : Nat] :
         /\ Count(metric, ending) \in [count : Nat, failures : Nat]
         /\ Count(metric, ending) = [count |-> metric.count + 1,
                                     failures |-> metric.failures + IF ending = "OK" THEN 0 ELSE 1]
  BY DEF Count
<1>10. metrics' \in [Route -> [count : Nat, failures : Nat]]
  BY <1>1, <1>2, <1>9 DEF CountInv
<1>11. metrics'[route] =
          [count |-> Cardinality(ServedOf(route)'), failures |-> Cardinality((ServedOf(route) \intersect Failed)')]
  <2>1. metrics'[route] = Count(metrics[route], ending) /\ metrics[route] \in [count : Nat, failures : Nat]
    BY <1>1, <1>2 DEF CountInv
  <2>2. metrics[route] = [count |-> Cardinality(ServedOf(route)), failures |-> Cardinality(ServedOf(route) \intersect Failed)]
    BY <1>2 DEF CountInv, MetricsCountServed
  <2> QED BY <1>8, <1>9, <2>1, <2>2
<1>12. ASSUME NEW other \in Route
       PROVE  metrics'[other] =
          [count |-> Cardinality(ServedOf(other)'), failures |-> Cardinality((ServedOf(other) \intersect Failed)')]
  <2>1. CASE other = route
    BY <1>11, <2>1
  <2>2. CASE other # route
    <3>1. metrics'[other] = metrics[other]
      BY <1>1, <2>2 DEF CountInv
    <3>2. ServedOf(other)' = ServedOf(other) /\ (ServedOf(other) \intersect Failed)' = ServedOf(other) \intersect Failed
      BY <1>6, <1>7, <2>2
    <3> QED BY <3>1, <3>2 DEF CountInv, MetricsCountServed
  <2> QED BY <2>1, <2>2
<1>13. totals' = [requests |-> [count |-> Cardinality(Served'), failures |-> Cardinality(Failed')],
                  codes |-> Cardinality(Coded')]
  <2>1. totals = [requests |-> [count |-> Cardinality(Served), failures |-> Cardinality(Failed)],
                  codes |-> Cardinality(Coded)]
    BY DEF CountInv, MetricsCountServed
  <2>2. totals.requests \in [count : Nat, failures : Nat]
    BY <2>1, ServedFinite DEF CountInv
  <2> QED BY <1>1, <1>8, <1>9, <2>1, <2>2
<1> QED BY <1>3, <1>10, <1>12, <1>13 DEF CountInv, MetricsCountServed

LEMMA StepCounts == CountInv /\ [ApiNext]_apiVars => CountInv'
<1> SUFFICES ASSUME CountInv, [ApiNext]_apiVars PROVE CountInv'
  OBVIOUS
<1>1. ASSUME UNCHANGED <<metrics, totals, calls>> PROVE CountInv'
  BY <1>1 DEF CountInv, MetricsCountServed, Served, ServedOf, Failed, Coded
<1>2. ASSUME NEW k \in Key, NEW r \in SignedRequest, NEW genuine \in BOOLEAN, Request(k, r, genuine)
      PROVE  CountInv'
  BY <1>1, <1>2, RequestCounts DEF Request
<1>3. ASSUME NEW i \in DOMAIN calls, NEW ending \in Ending, Respond(i, ending)
      PROVE  CountInv'
  BY <1>3, RespondCounts
<1>4. CASE ApiTime
  BY <1>1, <1>4 DEF ApiTime
<1>5. CASE ApiRestart
  BY <1>5, RestartCounts DEF ApiRestart
<1>6. CASE UNCHANGED apiVars
  BY <1>1, <1>6 DEF apiVars
<1> QED BY <1>2, <1>3, <1>4, <1>5, <1>6 DEF ApiNext

\* The metrics count each request that got past the guards once, when its
\* handler has ended, for its route and in the totals, whatever its end and the
\* order of ends (metrics.interceptor.ts, MetricsService.record).
THEOREM ServedCounted == ApiSpec => []MetricsCountServed
<1>1. CountInv => MetricsCountServed
  BY DEF CountInv
<1> QED BY InitCounts, StepCounts, <1>1, PTL DEF ApiSpec
-----------------------------------------------------------------------------
(* The calls of the SDKs, a finite table. *)

LEMMA Ranks ==
    /\ Rank("appVersion") = 1 /\ Rank("device") = 2 /\ Rank("deviceCode") = 3 /\ Rank("deviceName") = 4
    /\ Rank("fingerprintHash") = 5 /\ Rank("hardwareSummary") = 6 /\ Rank("leaseToken") = 7
    /\ Rank("licenseKey") = 8 /\ Rank("osType") = 9 /\ Rank("osVersion") = 10
    /\ Rank("productCode") = 11 /\ Rank("runtime") = 12
BY DEF Rank

\* What the C++ client writes is what a sorting serialiser would.
LEMMA CppInOrder ==
    /\ Written(CppDevice) = InOrder(DeviceFields \union {"hardwareSummary"})
    /\ Written(CppBody("activate")) = InOrder({"productCode", "licenseKey", "device"})
    /\ Written(CppBody("verify")) = InOrder(LeaseFields)
    /\ Written(CppBody("heartbeat")) = InOrder(LeaseFields \union {"runtime"})
<1>1. Written(CppDevice) = InOrder(DeviceFields \union {"hardwareSummary"})
  <2> DEFINE names == CppDevice
  <2>1. DOMAIN names = 1 .. 7 /\ names = <<"appVersion", "deviceCode", "deviceName", "fingerprintHash", "hardwareSummary", "osType", "osVersion">>
    BY DEF CppDevice
  <2>2. ToSet(names) = {"appVersion", "deviceCode", "deviceName", "fingerprintHash", "hardwareSummary", "osType", "osVersion"}
    BY <2>1 DEF ToSet
  <2>3. Rank(names[1]) = 1 /\ Rank(names[2]) = 3 /\ Rank(names[3]) = 4 /\ Rank(names[4]) = 5 /\ Rank(names[5]) = 6 /\ Rank(names[6]) = 9 /\ Rank(names[7]) = 10
    BY <2>1, Ranks
  <2> HIDE DEF names
  <2> DEFINE sorted == \A i, j \in DOMAIN names : i < j => Rank(names[i]) < Rank(names[j])
  <2>4. sorted = TRUE
    BY <2>1, <2>3
  <2> HIDE DEF sorted
  <2>5. Written(CppDevice) = [fields |-> ToSet(names), sorted |-> sorted]
    BY DEF Written, names, sorted
  <2> QED BY <2>2, <2>4, <2>5 DEF InOrder, DeviceFields
<1>2. Written(CppBody("activate")) = InOrder({"productCode", "licenseKey", "device"})
  <2> DEFINE names == CppBody("activate")
  <2>1. DOMAIN names = 1 .. 3 /\ names = <<"device", "licenseKey", "productCode">>
    BY DEF CppBody
  <2>2. ToSet(names) = {"device", "licenseKey", "productCode"}
    BY <2>1 DEF ToSet
  <2>3. Rank(names[1]) = 2 /\ Rank(names[2]) = 8 /\ Rank(names[3]) = 11
    BY <2>1, Ranks
  <2> HIDE DEF names
  <2> DEFINE sorted == \A i, j \in DOMAIN names : i < j => Rank(names[i]) < Rank(names[j])
  <2>4. sorted = TRUE
    BY <2>1, <2>3
  <2> HIDE DEF sorted
  <2>5. Written(CppBody("activate")) = [fields |-> ToSet(names), sorted |-> sorted]
    BY DEF Written, names, sorted
  <2> QED BY <2>2, <2>4, <2>5 DEF InOrder
<1>3. Written(CppBody("verify")) = InOrder(LeaseFields)
  <2> DEFINE names == CppBody("verify")
  <2>1. DOMAIN names = 1 .. 4 /\ names = <<"appVersion", "deviceCode", "leaseToken", "productCode">>
    BY DEF CppBody
  <2>2. ToSet(names) = {"appVersion", "deviceCode", "leaseToken", "productCode"}
    BY <2>1 DEF ToSet
  <2>3. Rank(names[1]) = 1 /\ Rank(names[2]) = 3 /\ Rank(names[3]) = 7 /\ Rank(names[4]) = 11
    BY <2>1, Ranks
  <2> HIDE DEF names
  <2> DEFINE sorted == \A i, j \in DOMAIN names : i < j => Rank(names[i]) < Rank(names[j])
  <2>4. sorted = TRUE
    BY <2>1, <2>3
  <2> HIDE DEF sorted
  <2>5. Written(CppBody("verify")) = [fields |-> ToSet(names), sorted |-> sorted]
    BY DEF Written, names, sorted
  <2> QED BY <2>2, <2>4, <2>5 DEF InOrder, LeaseFields
<1>4. Written(CppBody("heartbeat")) = InOrder(LeaseFields \union {"runtime"})
  <2> DEFINE names == CppBody("heartbeat")
  <2>1. DOMAIN names = 1 .. 5 /\ names = <<"appVersion", "deviceCode", "leaseToken", "productCode", "runtime">>
    BY DEF CppBody
  <2>2. ToSet(names) = {"appVersion", "deviceCode", "leaseToken", "productCode", "runtime"}
    BY <2>1 DEF ToSet
  <2>3. Rank(names[1]) = 1 /\ Rank(names[2]) = 3 /\ Rank(names[3]) = 7 /\ Rank(names[4]) = 11 /\ Rank(names[5]) = 12
    BY <2>1, Ranks
  <2> HIDE DEF names
  <2> DEFINE sorted == \A i, j \in DOMAIN names : i < j => Rank(names[i]) < Rank(names[j])
  <2>4. sorted = TRUE
    BY <2>1, <2>3
  <2> HIDE DEF sorted
  <2>5. Written(CppBody("heartbeat")) = [fields |-> ToSet(names), sorted |-> sorted]
    BY DEF Written, names, sorted
  <2> QED BY <2>2, <2>4, <2>5 DEF InOrder, LeaseFields
<1> QED BY <1>1, <1>2, <1>3, <1>4

\* A call whose text a sorting serialiser would write, whose strings are spelled
\* as the server spells them where it is signed, and whose fields the DTOs and
\* the lookup of the secret need, is handled.
LEMMA HandledWhen ==
    ASSUME NEW signing \in {"off", "on"}, NEW sdk, NEW op \in Op, NEW t, NEW F, NEW D,
           SignedText(sdk, op, t).body = InOrder(F), SignedText(sdk, op, t).device = InOrder(D),
           SignedText(sdk, op, t) = [body |-> InOrder(F), device |-> InOrder(D),
                                     spelling |-> SignedText(sdk, op, t).spelling],
           SignedText(sdk, op, "plain").body = InOrder(F), SignedText(sdk, op, "plain").device = InOrder(D),
           signing = "on" => SignedText(sdk, op, t).spelling = JsSpelling(t),
           op = "policy" => F = {} /\ sdk = "electron",
           op # "policy" => "productCode" \in F /\ Required(op) \subseteq F,
           op = "activate" => DeviceFields \subseteq D,
           op \in {"verify", "heartbeat", "deactivate"} => "appVersion" \in F
    PROVE  Answer(signing, sdk, op, t) = "HANDLED"
<1>1. /\ Sent(sdk, op) = IF op = "policy" THEN {"productCode", "appVersion"} ELSE F
      /\ SentDevice(sdk, op) = IF op = "activate" THEN D ELSE {}
  BY DEF Sent, SentDevice, InOrder
<1>2. SecretFound(sdk, op)
  BY <1>1 DEF SecretFound, Op, DeviceFields
<1>3. Valid(sdk, op)
  BY <1>1 DEF Valid, Required
<1>4. signing = "on" => SignedText(sdk, op, t) = ServerText(sdk, op, t)
  <2> SUFFICES ASSUME signing = "on" PROVE SignedText(sdk, op, t) = ServerText(sdk, op, t)
    OBVIOUS
  <2>1. ServerText(sdk, op, t).body = InOrder(F) /\ InOrder(D).fields = D
    BY <1>1 DEF ServerText, InOrder
  <2>2. ServerText(sdk, op, t) = [body |-> InOrder(F), device |-> InOrder(D), spelling |-> JsSpelling(t)]
    BY <1>1, <2>1 DEF ServerText
  <2> QED BY <2>2
<1> QED BY <1>2, <1>3, <1>4 DEF Answer

LEMMA ElectronHandled ==
    ASSUME NEW signing \in {"off", "on"}, NEW op \in Op, NEW t \in Text
    PROVE  Answer(signing, "electron", op, t) = "HANDLED"
<1> DEFINE F == Fields("electron", op)
           D == DeviceFields \union {"hardwareSummary"}
<1>1. \A text : SignedText("electron", op, text) =
                   [body |-> InOrder(F), device |-> InOrder(D), spelling |-> JsSpelling(text)]
  BY DEF SignedText
<1>2. /\ op = "policy" => F = {}
      /\ op # "policy" => "productCode" \in F /\ Required(op) \subseteq F
      /\ op \in {"verify", "heartbeat", "deactivate"} => "appVersion" \in F
  BY DEF Fields, Required, LeaseFields, Op
<1>3. DeviceFields \subseteq D
  OBVIOUS
<1> HIDE DEF F, D
<1>5. /\ SignedText("electron", op, t).body = InOrder(F) /\ SignedText("electron", op, t).device = InOrder(D)
      /\ SignedText("electron", op, t) = [body |-> InOrder(F), device |-> InOrder(D),
                                          spelling |-> SignedText("electron", op, t).spelling]
      /\ SignedText("electron", op, "plain").body = InOrder(F)
      /\ SignedText("electron", op, "plain").device = InOrder(D)
      /\ SignedText("electron", op, t).spelling = JsSpelling(t)
  BY <1>1
<1> QED BY <1>2, <1>3, <1>5, HandledWhen

LEMMA CppHandled ==
    ASSUME NEW signing \in {"off", "on"}, NEW op \in {"activate", "verify", "heartbeat"}, NEW t \in Text
    PROVE  Answer(signing, "cpp", op, t) = "HANDLED"
<1> DEFINE F == CASE op = "activate" -> {"productCode", "licenseKey", "device"}
                  [] op = "verify" -> LeaseFields
                  [] op = "heartbeat" -> LeaseFields \union {"runtime"}
           D == DeviceFields \union {"hardwareSummary"}
<1>1. \A text : SignedText("cpp", op, text) =
                   [body |-> InOrder(F), device |-> InOrder(D), spelling |-> CppSpelling(text)]
  <2>1. Written(CppBody(op)) = InOrder(F) /\ Written(CppDevice) = InOrder(D)
    BY CppInOrder
  <2> HIDE DEF F, D
  <2> QED BY <2>1 DEF SignedText
<1>2. op \in Op /\ op # "policy" /\ "productCode" \in F /\ Required(op) \subseteq F
      /\ (op \in {"verify", "heartbeat", "deactivate"} => "appVersion" \in F)
  BY DEF Required, LeaseFields, Op
<1>3. DeviceFields \subseteq D
  OBVIOUS
<1>4. CppSpelling(t) = JsSpelling(t)
  BY DEF CppSpelling, JsSpelling
<1> HIDE DEF F, D
<1>5. /\ SignedText("cpp", op, t).body = InOrder(F) /\ SignedText("cpp", op, t).device = InOrder(D)
      /\ SignedText("cpp", op, t) = [body |-> InOrder(F), device |-> InOrder(D),
                                          spelling |-> SignedText("cpp", op, t).spelling]
      /\ SignedText("cpp", op, "plain").body = InOrder(F)
      /\ SignedText("cpp", op, "plain").device = InOrder(D)
      /\ SignedText("cpp", op, t).spelling = CppSpelling(t)
  BY <1>1
<1> QED BY <1>2, <1>3, <1>4, <1>5, HandledWhen

LEMMA DotnetHandled ==
    ASSUME NEW signing \in {"off", "on"}, NEW op \in {"activate", "verify", "heartbeat"}, NEW t \in Text,
           signing = "off" \/ t \in {"plain", "short"}
    PROVE  Answer(signing, "dotnet", op, t) = "HANDLED"
<1> DEFINE F == Fields("dotnet", op)
<1>1. \A text : SignedText("dotnet", op, text) =
                   [body |-> InOrder(F), device |-> InOrder(DeviceFields), spelling |-> DotnetSpelling(text)]
  BY DEF SignedText
<1>2. op \in Op /\ op # "policy" /\ "productCode" \in F /\ Required(op) \subseteq F
      /\ (op \in {"verify", "heartbeat", "deactivate"} => "appVersion" \in F)
  BY DEF Fields, Required, LeaseFields, Op
<1>3. signing = "on" => DotnetSpelling(t) = JsSpelling(t)
  BY DEF DotnetSpelling, JsSpelling
<1> HIDE DEF F
<1> QED BY <1>1, <1>2, <1>3, HandledWhen

\* Every call the SDKs are to make reaches its handler, whatever its text, when
\* limiter and nonce table have nothing against it (license-api-client.ts,
\* license_client.cpp, LicenseClient.cs against request-signature.guard.ts).
THEOREM SdksUnderstood == ApiSpec => []CallsUnderstood
<1>1. AllUnderstood
  <2> SUFFICES ASSUME NEW c \in Supported PROVE Answer(c.signing, c.sdk, c.op, c.text) = "HANDLED"
    BY DEF AllUnderstood, Understood, Supported
  <2>1. /\ c.signing \in {"off", "on"} /\ c.sdk \in Sdk /\ c.op \in Op /\ c.text \in Text
        /\ \/ c.sdk = "electron"
           \/ /\ c.op \in {"activate", "verify", "heartbeat"}
              /\ c.sdk = "cpp" \/ c.signing = "off" \/ c.text \in {"plain", "short"}
    BY DEF Supported, Call
  <2>2. CASE c.sdk = "electron"
    BY <2>1, <2>2, ElectronHandled
  <2>3. CASE c.sdk = "cpp"
    BY <2>1, <2>3, CppHandled
  <2>4. CASE c.sdk = "dotnet"
    BY <2>1, <2>4, DotnetHandled
  <2> QED BY <2>1, <2>2, <2>3, <2>4 DEF Sdk
<1>2. CallsUnderstood
  BY <1>1 DEF CallsUnderstood
<1> QED BY <1>2, PTL
=============================================================================
