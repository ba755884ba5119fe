----------------------------- MODULE ReplayStore -----------------------------
(***************************************************************************)
(* The data of the replay cache (crates/fwknox-replay): the in-memory LRU  *)
(* map of nonces to insertion seconds, and the cache file it is saved to.  *)
(*                                                                         *)
(* A cache is a record                                                     *)
(*   stamp  the map: a function from the cached nonces to Unix seconds,    *)
(*   order  the same nonces, least recently used first,                    *)
(*   cap    the capacity the LruCache was built with.                      *)
(* A file is a function from nonces to seconds: the line format and the    *)
(* hex codec of persist.rs are a bijection on such functions (a malformed  *)
(* file, which the program never writes, makes start-up fail).             *)
(***************************************************************************)
EXTENDS LruOrder, FiniteSets, Functions

\* DEFAULT_MAX_ENTRIES, the capacity of a cache that was loaded from a file.
CONSTANT DefaultMaxEntries

ASSUME DefaultMaxEntriesAssumption == DefaultMaxEntries \in Nat \ {0}

EmptyMap == [n \in {} |-> 0]

\* ReplayCache::with_capacity
WithCapacity(cap) == [stamp |-> EmptyMap, order |-> <<>>, cap |-> cap]

\* LruCache::contains does not touch the recency order.
Has(c, n) == n \in DOMAIN c.stamp

\* Mutant of Victims: a full cache takes one more entry.
VictimsOffByOne(c) == IF Len(c.order) > c.cap THEN {Head(c.order)} ELSE {}

\* What LruCache::put evicts when the key is new: the LRU entry of a full cache.
Victims(c) == IF Len(c.order) >= c.cap THEN {Head(c.order)} ELSE {}

\* LruCache::put of a key that is not in the cache.
Put(c, n, t) ==
    [stamp |-> [m \in (DOMAIN c.stamp \ Victims(c)) \cup {n} |->
                    IF m = n THEN t ELSE c.stamp[m]],
     order |-> Append(IF Victims(c) = {} THEN c.order ELSE Tail(c.order), n),
     cap   |-> c.cap]

\* LruCache::pop of every key of a set.
PopAll(c, gone) ==
    [stamp |-> Restrict(c.stamp, DOMAIN c.stamp \ gone),
     order |-> Detach(c.order, gone),
     cap   |-> c.cap]

SaturatingSub(a, b) == IF a >= b THEN a - b ELSE 0

\* Mutant of Stale: an entry of exactly maxAge seconds is pruned too.
StaleInclusive(c, now, maxAge) ==
    {n \in DOMAIN c.stamp : c.stamp[n] <= SaturatingSub(now, maxAge)}

\* The entries prune_older_than removes at second `now`.
Stale(c, now, maxAge) ==
    {n \in DOMAIN c.stamp : c.stamp[n] < SaturatingSub(now, maxAge)}

\* ReplayCache::load_from_file.  The file is read into a HashMap, whose
\* iteration order is arbitrary: any permutation of the entries may become the
\* recency order, and of more than DefaultMaxEntries any may be dropped.
LoadFromFile(file) ==
    {LET kept == SubSeq(perm, 1 + SaturatingSub(Len(perm), DefaultMaxEntries), Len(perm))
     IN  [stamp |-> Restrict(file, Range(kept)),
          order |-> kept,
          cap   |-> DefaultMaxEntries] :
        perm \in Bijection(1..Cardinality(DOMAIN file), DOMAIN file)}

\* What every cache the program builds satisfies: the recency order lists each
\* cached nonce once, and never more nonces than the capacity.
WellFormed(c) ==
    /\ Range(c.order) = DOMAIN c.stamp
    /\ Len(c.order) = Cardinality(DOMAIN c.stamp)
    /\ Len(c.order) <= c.cap
=============================================================================
