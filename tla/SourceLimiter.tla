--------------------------- MODULE SourceLimiter ---------------------------
(***************************************************************************)
(* The per-source limiter of the credential endpoint                       *)
(* (bridge/dataplane/ratelimit.go).  It keeps a bucket only for sources    *)
(* seen lately: a call of Allow first drops the buckets idle for longer    *)
(* than sourceIdleTTL, at most once per pruneInterval.  A bucket is filled *)
(* when it is used, from the time that passed since (golang.org/x/time).   *)
(* Time and levels have the units of TokenBuckets.                         *)
(***************************************************************************)
EXTENDS Integers

CONSTANTS
    Sources, Capacity, Cost,
    SourceIdleTTL,      \* sourceIdleTTL
    PruneInterval       \* pruneInterval

\* A burst of at least one token, which an idle bucket has filled up again by
\* the time it may be dropped.  The defaults (20 requests a second, a burst
\* of 100, ten minutes) are far from the limit.
ASSUME LimiterAssumption ==
    /\ Capacity \in Nat /\ Cost \in Nat /\ SourceIdleTTL \in Nat /\ PruneInterval \in Nat
    /\ 0 < Cost /\ Cost <= Capacity
    /\ Capacity <= SourceIdleTTL

VARIABLES
    now,        \* the clock
    sources,    \* the bucket of every source, or NoBucket
    lastPrune,  \* when idle buckets were dropped last
    verdict     \* every source's last answer

limiterVars == <<now, sources, lastPrune, verdict>>

\* last and seen are in 0..now, so no bucket looks like this one.
NoBucket == [tokens |-> 0, last |-> 0, seen |-> -1]

Bucket == [tokens: 0..Capacity, last: Nat, seen: Nat]

NewBucket(t) == [tokens |-> Capacity, last |-> t, seen |-> t]

\* rate.Limiter: the level at time t.
Advanced(b, t) == IF b.tokens + (t - b.last) < Capacity THEN b.tokens + (t - b.last) ELSE Capacity

\* Mutant: buckets are dropped by the age of the last admitted request.
pruneUsed(t) ==
    IF t - lastPrune > PruneInterval
    THEN [s \in Sources |-> IF t - sources[s].last >= PruneInterval THEN NoBucket ELSE sources[s]]
    ELSE sources

\* The buckets that are left once the idle ones are dropped.
prune(t) ==
    IF t - lastPrune > PruneInterval
    THEN [s \in Sources |-> IF t - sources[s].seen > SourceIdleTTL THEN NoBucket ELSE sources[s]]
    ELSE sources

\* Allow(s) answers ok and leaves these buckets.
Allow(s, ok) ==
    LET kept == prune(now)
        b == IF kept[s] = NoBucket THEN NewBucket(now) ELSE kept[s]
        level == Advanced(b, now)
    IN  /\ ok = (level >= Cost)
        /\ sources' = [kept EXCEPT ![s] =
                          IF ok THEN [tokens |-> level - Cost, last |-> now, seen |-> now]
                          ELSE [tokens |-> b.tokens, last |-> b.last, seen |-> now]]
        /\ lastPrune' = IF now - lastPrune > PruneInterval THEN now ELSE lastPrune
        /\ verdict' = [verdict EXCEPT ![s] = ok]

LimiterInit ==
    /\ now = 0
    /\ sources = [s \in Sources |-> NoBucket]
    /\ lastPrune = -1 - PruneInterval    \* the zero time
    /\ verdict = [s \in Sources |-> TRUE]

\* Time passes.
LimiterTick == now' = now + 1 /\ UNCHANGED <<sources, lastPrune, verdict>>

LimiterNext ==
    \/ LimiterTick
    \/ \E s \in Sources, ok \in BOOLEAN : Allow(s, ok) /\ UNCHANGED now

LimiterSpec == LimiterInit /\ [][LimiterNext]_limiterVars

\* A source without a bucket has a full one.
LevelOf(s) == IF sources[s] = NoBucket THEN Capacity ELSE Advanced(sources[s], now)

Buckets == INSTANCE TokenBuckets WITH level <- [s \in Sources |-> LevelOf(s)]

\* Dropping idle buckets and filling them late makes no difference to a
\* source: it is admitted and refused exactly as by token buckets that are
\* kept for good (Allow).
LimiterKeepsRate == Buckets!BucketsSpec
=============================================================================
