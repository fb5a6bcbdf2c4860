---------------------------- MODULE RateLimiter ----------------------------
(***************************************************************************)
(* The token bucket in front of the API routes registered as mutating      *)
(* (api/ratelimit.go).                                                     *)
(*                                                                         *)
(* Time is counted in ticks in which a bucket gains 1/Unit of a token, so  *)
(* that levels are integers: a request costs Unit.  allow reads the clock  *)
(* before it takes the mutex, so the time it works with may lie before the *)
(* bucket's last one, and the level may shrink.                            *)
(***************************************************************************)
EXTENDS Integers

CONSTANTS
    Clients,   \* keys of limiter.m: client addresses
    Burst,     \* limiter.burst
    Unit,      \* ticks in which one token is gained (1 / rps)
    MaxTick,   \* bound on the clock
    NoBucket

ASSUME LimiterAssumption == /\ Burst \in Nat \ {0} /\ Unit \in Nat \ {0}
                            /\ MaxTick \in Nat
                            /\ NoBucket \notin [level: Int, last: Nat]

VARIABLES
    clock,
    buckets,    \* limiter.m
    opened,     \* history: when a client's bucket was created
    admitted    \* history: requests admitted per client

limiterVars == <<clock, buckets, opened, admitted>>

LimiterTypeOK ==
    /\ clock \in Nat
    /\ buckets \in [Clients -> [level: Int, last: Nat] \cup {NoBucket}]
    /\ opened \in [Clients -> Nat]
    /\ admitted \in [Clients -> Nat]

LimiterInit ==
    /\ clock = 0
    /\ buckets = [c \in Clients |-> NoBucket]
    /\ opened = [c \in Clients |-> 0]
    /\ admitted = [c \in Clients |-> 0]

Capped(level) == IF level > Burst * Unit THEN Burst * Unit ELSE level

\* Mutant: a clock value before the bucket's last one counts as no time elapsed,
\* and is kept all the same.
RefilledClamped(b, now) ==
    [level |-> Capped(b.level + (IF now > b.last THEN now - b.last ELSE 0)), last |-> now]

\* The bucket after the refill, before anything is taken.
Refilled(b, now) == [level |-> Capped(b.level + (now - b.last)), last |-> now]

\* The bucket allow(c) works on, created full on first sight.
BucketOf(c, now) ==
    Refilled(IF buckets[c] = NoBucket THEN [level |-> Burst * Unit, last |-> now]
                                      ELSE buckets[c], now)

\* allow(c) with a clock value "now" read before the mutex was taken.
Allow(c, now) ==
    LET b == BucketOf(c, now) IN
    /\ b.level >= Unit
    /\ buckets' = [buckets EXCEPT ![c] = [level |-> b.level - Unit, last |-> b.last]]
    /\ admitted' = [admitted EXCEPT ![c] = @ + 1]
    /\ opened' = [opened EXCEPT ![c] = IF buckets[c] = NoBucket THEN now ELSE @]
    /\ UNCHANGED clock

Refuse(c, now) ==
    LET b == BucketOf(c, now) IN
    /\ b.level < Unit
    /\ buckets' = [buckets EXCEPT ![c] = b]
    /\ opened' = [opened EXCEPT ![c] = IF buckets[c] = NoBucket THEN now ELSE @]
    /\ UNCHANGED <<clock, admitted>>

Tick ==
    /\ clock < MaxTick
    /\ clock' = clock + 1
    /\ UNCHANGED <<buckets, opened, admitted>>

LimiterNext ==
    \/ Tick
    \/ \E c \in Clients, now \in 0..clock : Allow(c, now) \/ Refuse(c, now)

LimiterSpec == LimiterInit /\ [][LimiterNext]_limiterVars

\* A client is admitted at most Burst times plus once per Unit of time since its
\* first request, although requests may reach the mutex in another order than
\* they read the clock (limiter.allow).
AdmissionBounded ==
    \A c \in Clients :
        buckets[c] # NoBucket =>
            Unit * admitted[c] <= Unit * Burst + (clock - opened[c])
=============================================================================
