------------------------- MODULE RateLimiterProofs -------------------------
(***************************************************************************)
(* AdmissionBounded for every number of clients, burst and rate.           *)
(***************************************************************************)
EXTENDS RateLimiter, TLAPS

\* What a bucket has left, minus the time it was filled up to, plus what it gave
\* out never exceeds what it started with: refilling at a time in the past takes
\* from the level exactly what the next refill will add.
Conserved ==
    \A c \in Clients :
        buckets[c] # NoBucket =>
            buckets[c].level - buckets[c].last + Unit * admitted[c]
                <= Unit * Burst - opened[c]

\* A bucket that does not exist has admitted nobody, and bucket times lie in the
\* past.
BucketsInPast ==
    \A c \in Clients :
        /\ buckets[c] = NoBucket => admitted[c] = 0
        /\ buckets[c] # NoBucket => buckets[c].last <= clock /\ opened[c] <= clock

LInv == LimiterTypeOK /\ BucketsInPast /\ Conserved /\ AdmissionBounded

\* The invariant holds before the first request.
LEMMA LimiterStarts == LimiterInit => LInv
  BY LimiterAssumption
     DEF LimiterInit, LInv, LimiterTypeOK, BucketsInPast, Conserved, AdmissionBounded

\* The refilled bucket (limiter.allow, up to the comparison): its type, and that
\* level minus time has not grown.
LEMMA RefillConserves ==
  ASSUME NEW old \in [level: Int, last: Nat], NEW now \in Nat, NEW b, b = Refilled(old, now)
  PROVE  /\ b = [level |-> b.level, last |-> now]
         /\ b.level \in Int
         /\ b.level - now <= old.level - old.last
  <1>1. Burst * Unit \in Int /\ old.level \in Int /\ old.last \in Nat
    BY LimiterAssumption
  <1> QED BY <1>1 DEF Refilled, Capped

\* Allow and Refuse for one client preserve the invariant.
LEMMA RequestKeeps ==
  ASSUME LInv, NEW c \in Clients, NEW now \in 0..clock, Allow(c, now) \/ Refuse(c, now)
  PROVE  LInv'
  <1> DEFINE b == BucketOf(c, now)
  <1> DEFINE old == IF buckets[c] = NoBucket THEN [level |-> Burst * Unit, last |-> now]
                                             ELSE buckets[c]
  <1> DEFINE start == IF buckets[c] = NoBucket THEN now ELSE opened[c]
  <1> USE LimiterAssumption
  <1>1. /\ clock \in Nat /\ now \in Nat /\ now <= clock /\ clock' = clock
        /\ opened[c] \in Nat /\ admitted[c] \in Nat
        /\ Burst * Unit \in Int /\ Unit * Burst = Burst * Unit
    BY DEF LInv, LimiterTypeOK, Allow, Refuse
  <1>2. /\ old \in [level: Int, last: Nat]
        /\ old.level \in Int /\ old.last \in Nat
        /\ start \in Nat /\ start <= clock
        /\ old.level - old.last + Unit * admitted[c] <= Unit * Burst - start
    <2>1. CASE buckets[c] = NoBucket
      BY <2>1, <1>1 DEF LInv, BucketsInPast
    <2>2. CASE buckets[c] # NoBucket
      BY <2>2, <1>1 DEF LInv, LimiterTypeOK, BucketsInPast, Conserved
    <2> QED BY <2>1, <2>2
  <1>3. b = Refilled(old, now)
    BY DEF BucketOf
  <1> HIDE DEF old, b
  <1>4. /\ b = [level |-> b.level, last |-> now]
        /\ b.level \in Int
        /\ b.level - now <= old.level - old.last
    BY <1>1, <1>2, <1>3, RefillConserves
  <1>5. opened' = [opened EXCEPT ![c] = start]
    BY DEF Allow, Refuse, start
  <1> HIDE DEF start
  <1>6. CASE Allow(c, now)
    <2>1. /\ b.level >= Unit
          /\ buckets' = [buckets EXCEPT ![c] = [level |-> b.level - Unit, last |-> now]]
          /\ admitted' = [admitted EXCEPT ![c] = @ + 1]
      <3>1. /\ b.level >= Unit
            /\ buckets' = [buckets EXCEPT ![c] = [level |-> b.level - Unit, last |-> b.last]]
            /\ admitted' = [admitted EXCEPT ![c] = @ + 1]
        BY <1>6 DEF Allow, b
      <3>2. b.last = now
        BY <1>4
      <3> QED BY <3>1, <3>2
    <2>2. [level |-> b.level - Unit, last |-> now] # NoBucket
      BY <1>1, <1>4
    <2>3. Unit * (admitted[c] + 1) = Unit * admitted[c] + Unit
      BY <1>1
    <2>4. Unit * admitted[c] \in Int /\ Unit * Burst \in Int /\ Unit \in Nat
      BY <1>1
    <2>5. b.level - Unit - now + Unit * (admitted[c] + 1) <= Unit * Burst - start
      <3>1. b.level - now + Unit * admitted[c] <= Unit * Burst - start
        BY <1>1, <1>2, <1>4, <2>4
      <3> QED BY <3>1, <1>1, <1>2, <1>4, <2>3, <2>4
    <2>6. Unit * (admitted[c] + 1) <= Unit * Burst + (clock - start)
      BY <2>1, <2>5, <2>3, <2>4, <1>1, <1>2, <1>4
    <2>7. LimiterTypeOK'
      BY <2>1, <2>2, <1>1, <1>2, <1>4, <1>5, <2>4 DEF LInv, LimiterTypeOK
    <2>8. BucketsInPast'
      BY <2>1, <2>2, <1>1, <1>2, <1>5 DEF LInv, LimiterTypeOK, BucketsInPast
    <2>9. Conserved'
      BY <2>1, <2>2, <2>5, <1>1, <1>2, <1>4, <1>5 DEF LInv, LimiterTypeOK, Conserved
    <2>10. AdmissionBounded'
      BY <2>1, <2>2, <2>6, <1>1, <1>2, <1>5 DEF LInv, LimiterTypeOK, AdmissionBounded
    <2> QED BY <2>7, <2>8, <2>9, <2>10 DEF LInv
  <1>7. CASE Refuse(c, now)
    <2>1. buckets' = [buckets EXCEPT ![c] = b] /\ admitted' = admitted
      BY <1>7 DEF Refuse, b
    <2>2. Unit * admitted[c] \in Int /\ Unit * Burst \in Int
      BY <1>1
    <2>3. b.level - now + Unit * admitted[c] <= Unit * Burst - start
      BY <1>1, <1>2, <1>4, <2>2
    <2>4. LimiterTypeOK'
      BY <2>1, <1>1, <1>2, <1>4, <1>5 DEF LInv, LimiterTypeOK
    <2>5. BucketsInPast'
      <3>1. b.last = now
        BY <1>4
      <3>2. buckets'[c] = NoBucket => FALSE
        BY <2>1, <1>4, <1>1 DEF LInv, LimiterTypeOK
      <3> QED BY <3>1, <3>2, <2>1, <1>1, <1>2, <1>5 DEF LInv, LimiterTypeOK, BucketsInPast
    <2>6. Conserved'
      BY <2>1, <2>3, <1>1, <1>2, <1>4, <1>5 DEF LInv, LimiterTypeOK, Conserved
    <2>7. AdmissionBounded'
      <3>1. Unit * admitted[c] <= Unit * Burst + (clock - start)
        <4>1. CASE buckets[c] = NoBucket
          <5>1. admitted[c] = 0 /\ Unit * 0 = 0 /\ Unit * Burst >= 0
            BY <4>1 DEF LInv, BucketsInPast
          <5> QED BY <5>1, <1>1, <1>2, <2>2
        <4>2. CASE buckets[c] # NoBucket
          <5>1. start = opened[c]
            BY <4>2 DEF start
          <5> QED BY <4>2, <5>1 DEF LInv, AdmissionBounded
        <4> QED BY <4>1, <4>2
      <3> QED BY <3>1, <2>1, <1>1, <1>2, <1>5 DEF LInv, LimiterTypeOK, AdmissionBounded
    <2> QED BY <2>4, <2>5, <2>6, <2>7 DEF LInv
  <1> QED BY <1>6, <1>7

\* The clock only moves forward.
LEMMA TickKeeps ==
  ASSUME LInv, Tick \/ UNCHANGED limiterVars
  PROVE  LInv'
  <1>1. /\ clock \in Nat /\ clock' \in Nat /\ clock <= clock'
        /\ buckets' = buckets /\ opened' = opened /\ admitted' = admitted
    BY DEF LInv, LimiterTypeOK, Tick, limiterVars
  <1>2. \A c \in Clients : /\ Unit * admitted[c] \in Int /\ Unit * Burst \in Int
                           /\ opened[c] \in Nat
    BY LimiterAssumption DEF LInv, LimiterTypeOK
  <1>3. LimiterTypeOK' /\ BucketsInPast' /\ Conserved'
    BY <1>1, <1>2 DEF LInv, LimiterTypeOK, BucketsInPast, Conserved
  <1>4. AdmissionBounded'
    BY <1>1, <1>2 DEF LInv, AdmissionBounded
  <1> QED BY <1>3, <1>4 DEF LInv

\* The rate limit holds whatever the order in which requests reach the mutex:
\* burst plus rate times elapsed time bounds what a client is admitted.
THEOREM RateIsLimited == LimiterSpec => []AdmissionBounded
  <1>1. LimiterInit => LInv
    BY LimiterStarts
  <1>2. LInv /\ [LimiterNext]_limiterVars => LInv'
    BY RequestKeeps, TickKeeps DEF LimiterNext
  <1>3. LInv => AdmissionBounded
    BY DEF LInv
  <1> QED BY <1>1, <1>2, <1>3, PTL DEF LimiterSpec
=============================================================================
