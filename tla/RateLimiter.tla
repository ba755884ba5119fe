----------------------------- MODULE RateLimiter -----------------------------
(***************************************************************************)
(* The two-tier rate limiter, crates/fwknox-ratelimit/src/limiter.rs, when *)
(* it is enabled (a disabled one passes everything and keeps no state).    *)
(* RateLimiter::check holds the mutex throughout, so each of its outcomes  *)
(* is one action.  Sources are SourceKeys: addresses after masking.        *)
(***************************************************************************)
EXTENDS TokenBucket, SourceKey, LruOrder, FiniteSets, FiniteSetsExt, Functions

CONSTANTS
    Sources,
    SourceRate, SourceBurst, \* rate_limit.per_source_rate_per_sec, per_source_burst
    GlobalRate, GlobalBurst, \* rate_limit.global_rate_per_sec, global_burst
    Capacity,                \* rate_limit.tracked_sources_capacity
    Threshold,               \* rate_limit.promotion_threshold
    CandidateTtl,            \* CANDIDATE_TTL, in ticks
    MaxTime, MaxChecks       \* bounds on the clock and on the calls of check

ASSUME RateLimiterAssumption ==
    /\ SourceRate \in Nat \ {0} /\ SourceBurst \in Nat /\ SourceBurst >= SourceRate
    /\ GlobalRate \in Nat \ {0} /\ GlobalBurst \in Nat /\ GlobalBurst >= GlobalRate
    /\ Capacity \in Nat \ {0} /\ Threshold \in Nat \ {0} /\ CandidateTtl \in Nat
    /\ MaxTime \in Nat /\ MaxChecks \in Nat

VARIABLES
    now,        \* the monotonic clock, in ticks
    tracked,    \* Inner.tracked: from hot sources to their buckets
    lru,        \* the keys of tracked, least recently used first
    candidates, \* Inner.candidates: from sources to [count, seen]
    global,     \* Inner.global
    stats,      \* Stats
    viaGlobal   \* history: packets the global bucket has let through

vars == <<now, tracked, lru, candidates, global, stats, viaGlobal>>

Empty == [k \in {} |-> 0]

Init ==
    /\ now = 0
    /\ tracked = Empty
    /\ lru = <<>>
    /\ candidates = Empty
    /\ global = NewBucket(GlobalBurst, 0)
    /\ stats = [allowed |-> 0, droppedPerSource |-> 0, droppedGlobal |-> 0,
                promotions |-> 0, evictions |-> 0]
    /\ viaGlobal = 0

Checks == stats.allowed + stats.droppedPerSource + stats.droppedGlobal

With(f, k, v) == [x \in DOMAIN f \cup {k} |-> IF x = k THEN v ELSE f[x]]
Without(f, S) == Restrict(f, DOMAIN f \ S)

\* Tier 1: get_mut makes the source the most recently used, and its own bucket
\* decides.
CheckTracked(k) ==
    /\ Checks < MaxChecks
    /\ k \in DOMAIN tracked
    /\ tracked' = [tracked EXCEPT ![k] = Consume(@, SourceRate, SourceBurst, now)]
    /\ lru' = Touch(lru, k)
    /\ stats' = IF CanConsume(tracked[k], SourceRate, SourceBurst, now)
                THEN [stats EXCEPT !.allowed = @ + 1]
                ELSE [stats EXCEPT !.droppedPerSource = @ + 1]
    /\ UNCHANGED <<now, candidates, global, viaGlobal>>

GlobalPasses == CanConsume(global, GlobalRate, GlobalBurst, now)

\* Mutant of CheckGlobalDrop: a dropped packet of a candidate counts.
CheckGlobalDropCounts(k) ==
    /\ Checks < MaxChecks
    /\ k \notin DOMAIN tracked
    /\ ~GlobalPasses
    /\ global' = Consume(global, GlobalRate, GlobalBurst, now)
    /\ stats' = [stats EXCEPT !.droppedGlobal = @ + 1]
    /\ candidates' = IF k \in DOMAIN candidates
                     THEN [candidates EXCEPT ![k].count = @ + 1] ELSE candidates
    /\ UNCHANGED <<now, tracked, lru, viaGlobal>>

\* Tier 2, global bucket empty: the packet is dropped and does not count toward
\* the source's promotion.
CheckGlobalDrop(k) ==
    /\ Checks < MaxChecks
    /\ k \notin DOMAIN tracked
    /\ ~GlobalPasses
    /\ global' = Consume(global, GlobalRate, GlobalBurst, now)
    /\ stats' = [stats EXCEPT !.droppedGlobal = @ + 1]
    /\ UNCHANGED <<now, tracked, lru, candidates, viaGlobal>>

\* sweep_expired_candidates
Sweep(c) == Restrict(c, {k \in DOMAIN c : now - c[k].seen < CandidateTtl})

\* Mutant of Swept: a full map makes room by dropping its oldest entries.
SweptOldest(k) ==
    IF k \notin DOMAIN candidates /\ Cardinality(DOMAIN candidates) >= Capacity
    THEN Restrict(candidates, {c \in DOMAIN candidates :
             \E d \in DOMAIN candidates : candidates[d].seen < candidates[c].seen})
    ELSE candidates

\* The candidates as a packet from k finds them: swept if k is new and the map
\* is full.
Swept(k) ==
    IF k \notin DOMAIN candidates /\ Cardinality(DOMAIN candidates) >= Capacity
    THEN Sweep(candidates) ELSE candidates

\* May k be counted: it is in the map, or there is room for it.
HasRoom(k) == k \in DOMAIN candidates \/ Cardinality(DOMAIN Swept(k)) < Capacity

NewCount(k) == IF k \in DOMAIN candidates THEN candidates[k].count + 1 ELSE 1

\* Tier 2, the global bucket passes the packet.
Admit(k) ==
    /\ Checks < MaxChecks
    /\ k \notin DOMAIN tracked
    /\ GlobalPasses
    /\ global' = Consume(global, GlobalRate, GlobalBurst, now)
    /\ viaGlobal' = viaGlobal + 1
    /\ UNCHANGED now

\* The map is full of live candidates: the packet passes uncounted.
CheckUncounted(k) ==
    /\ Admit(k)
    /\ ~HasRoom(k)
    /\ candidates' = Swept(k)
    /\ stats' = [stats EXCEPT !.allowed = @ + 1]
    /\ UNCHANGED <<tracked, lru>>

\* The packet counts toward promotion.
CheckCounted(k) ==
    /\ Admit(k)
    /\ HasRoom(k)
    /\ NewCount(k) < Threshold
    /\ candidates' = With(Swept(k), k, [count |-> NewCount(k), seen |-> now])
    /\ stats' = [stats EXCEPT !.allowed = @ + 1]
    /\ UNCHANGED <<tracked, lru>>

\* Mutant of CheckPromoted: the completed count stays in the map.
CheckPromotedKeepsCount(k) ==
    LET victims == IF Len(lru) >= Capacity THEN {Head(lru)} ELSE {}
    IN  /\ Admit(k)
        /\ HasRoom(k)
        /\ NewCount(k) >= Threshold
        /\ candidates' = With(Swept(k), k, [count |-> NewCount(k), seen |-> now])
        /\ tracked' = With(Without(tracked, victims), k, NewBucket(SourceBurst, now))
        /\ lru' = Append(IF victims = {} THEN lru ELSE Tail(lru), k)
        /\ stats' = [stats EXCEPT !.allowed = @ + 1, !.promotions = @ + 1,
                                  !.evictions = @ + Cardinality(victims)]

\* The packet completes the count: the source gets a bucket of its own, which
\* may push the least recently used one out.
CheckPromoted(k) ==
    LET victims == IF Len(lru) >= Capacity THEN {Head(lru)} ELSE {}
    IN  /\ Admit(k)
        /\ HasRoom(k)
        /\ NewCount(k) >= Threshold
        /\ candidates' = Without(Swept(k), {k})
        /\ tracked' = With(Without(tracked, victims), k, NewBucket(SourceBurst, now))
        /\ lru' = Append(IF victims = {} THEN lru ELSE Tail(lru), k)
        /\ stats' = [stats EXCEPT !.allowed = @ + 1, !.promotions = @ + 1,
                                  !.evictions = @ + Cardinality(victims)]

\* lock_recovering finds the mutex poisoned by a panic inside an earlier call:
\* Inner::reset discards everything but the statistics, and check goes on from
\* there, with a full global bucket and k unknown.
CheckAfterPoison(k) ==
    /\ Checks < MaxChecks
    /\ global' = Consume(Reprime(global, GlobalBurst, now), GlobalRate, GlobalBurst, now)
    /\ viaGlobal' = viaGlobal + 1
    /\ IF 1 >= Threshold
       THEN /\ candidates' = Empty
            /\ tracked' = With(Empty, k, NewBucket(SourceBurst, now))
            /\ lru' = <<k>>
            /\ stats' = [stats EXCEPT !.allowed = @ + 1, !.promotions = @ + 1]
       ELSE /\ candidates' = With(Empty, k, [count |-> 1, seen |-> now])
            /\ tracked' = Empty
            /\ lru' = <<>>
            /\ stats' = [stats EXCEPT !.allowed = @ + 1]
    /\ UNCHANGED now

Tick ==
    /\ now < MaxTime
    /\ now' = now + 1
    /\ UNCHANGED <<tracked, lru, candidates, global, stats, viaGlobal>>

\* History: observe all buckets from here on.
Observe ==
    /\ global' = OpenWindow(global, now)
    /\ tracked' = [k \in DOMAIN tracked |-> OpenWindow(tracked[k], now)]
    /\ UNCHANGED <<now, lru, candidates, stats, viaGlobal>>

Next ==
    \/ \E k \in Sources :
          CheckTracked(k) \/ CheckGlobalDrop(k) \/ CheckUncounted(k)
              \/ CheckCounted(k) \/ CheckPromoted(k) \/ CheckAfterPoison(k)
    \/ Tick \/ Observe

Spec == Init /\ [][Next]_vars

-----------------------------------------------------------------------------
(* Properties *)

\* The point of the limiter: in any window of time the global bucket lets
\* through at most its burst and its rate times the window, and one burst more
\* for every recovery from a poisoned lock in it (limiter.rs:186); the bucket of
\* a tracked source never more than its own since its promotion
\* (TokenBucket::consume).
RateBound ==
    /\ WithinRate(global, GlobalRate, GlobalBurst, now)
    /\ \A k \in DOMAIN tracked : WithinRate(tracked[k], SourceRate, SourceBurst, now)

\* Memory is bounded by tracked_sources_capacity, and a source is either
\* tracked, or a candidate short of promotion_threshold: check never leaves a
\* completed count in the map, nor a tracked source's old count.  The recency
\* list names the tracked sources, each once.
TiersDisjointAndBounded ==
    /\ Cardinality(DOMAIN tracked) <= Capacity
    /\ Range(lru) = DOMAIN tracked /\ Len(lru) = Cardinality(DOMAIN tracked)
    /\ Cardinality(DOMAIN candidates) <= Capacity
    /\ DOMAIN tracked \cap DOMAIN candidates = {}
    /\ \A k \in DOMAIN candidates : candidates[k].count \in 1..(Threshold - 1)

\* limiter.rs:261, "the load-bearing invariant": only traffic the global bucket
\* passed counts, so every promotion was paid for with promotion_threshold
\* global tokens, and no token pays twice.
PromotionsArePaid ==
    Threshold * stats.promotions + MapThenSumSet(LAMBDA k : candidates[k].count, DOMAIN candidates)
        <= viaGlobal

\* key.rs:9-13: whatever ipv6_prefix_len the limiter starts with, two addresses
\* are one source exactly if they are of one family and agree on the first
\* ipv6_prefix_len bits (all 32 for IPv4).  The prefix length never changes, so
\* the question is asked once, of the limiter that RateLimiter::new returns.
KeysFollowThePrefix == Init => \A prefix \in 1..128 : OneKeyPerPrefix(prefix)

\* A step in which every candidate keeps its count or has a reason to lose it.
KeepsCandidates ==
    \A k \in DOMAIN candidates :
        \/ k \in DOMAIN candidates' /\ candidates'[k].count >= candidates[k].count
        \/ k \in DOMAIN tracked'
        \/ now - candidates[k].seen >= CandidateTtl
        \/ \E s \in Sources : CheckAfterPoison(s)

\* H6, limiter.rs:21: a flood of other sources cannot take a candidate's count
\* away.  It leaves the map only by promotion, by CANDIDATE_TTL of silence, or
\* by the reset of a poisoned limiter, and never goes down.
CandidatesAreNotStarved == [][KeepsCandidates]_vars
=============================================================================
