-------------------------- MODULE ReplayCacheProofs --------------------------
(***************************************************************************)
(* For every set of nonces, capacity, age and number of callers: the cache *)
(* is a well-formed LRU map.  For one caller, which is what fwknoxd has: a *)
(* nonce that was reported fresh is on disk and in memory until it is      *)
(* evicted, pruned or dropped by a reload.                                 *)
(***************************************************************************)
EXTENDS ReplayCache, OrderProofs

\* A map from nonces to seconds up to t, of finitely many entries.
IsMap(f, t) ==
    /\ IsFiniteSet(DOMAIN f)
    /\ DOMAIN f \subseteq Nonces
    /\ \A n \in DOMAIN f : f[n] \in 0..t

\* What every operation keeps of a cache.
IsCache(c, t) ==
    /\ Lists(c.order, DOMAIN c.stamp)
    /\ c.cap \in {MaxEntries, DefaultMaxEntries}
    /\ Len(c.order) <= c.cap
    /\ IsMap(c.stamp, t)

\* Both capacities are of NonZeroUsize.
LEMMA CapPositive == MaxEntries \in Nat \ {0} /\ DefaultMaxEntries \in Nat \ {0}
  BY ReplayCacheAssumption, DefaultMaxEntriesAssumption

\* A map that has forgotten some of its entries is still a map.
LEMMA SubMap ==
    ASSUME NEW f, NEW g, NEW t, IsMap(f, t), DOMAIN g \subseteq DOMAIN f,
           \A n \in DOMAIN g : g[n] = f[n]
    PROVE  IsMap(g, t)
  BY FS_Subset DEF IsMap

\* The empty map, and the cache that with_capacity makes of it.
LEMMA NewCache ==
    ASSUME NEW t \in Nat
    PROVE  /\ DOMAIN EmptyMap = {} /\ IsMap(EmptyMap, t)
           /\ DOMAIN WithCapacity(MaxEntries).stamp = {}
           /\ IsCache(WithCapacity(MaxEntries), t)
<1>1. DOMAIN EmptyMap = {}
  BY DEF EmptyMap
<1>2. IsMap(EmptyMap, t)
  BY <1>1, FS_EmptySet DEF IsMap
<1>3. /\ WithCapacity(MaxEntries).stamp = EmptyMap
      /\ WithCapacity(MaxEntries).order = <<>>
      /\ WithCapacity(MaxEntries).cap = MaxEntries
  BY DEF WithCapacity
<1>4. Len(<<>>) = 0
  OBVIOUS
<1> QED
  BY <1>1, <1>2, <1>3, <1>4, ListsEmpty, CapPositive DEF IsCache

\* LruCache::put of a new nonce.
LEMMA PutCache ==
    ASSUME NEW b \in Nat, NEW t \in 0..b, NEW c, IsCache(c, b), NEW n \in Nonces, ~Has(c, n)
    PROVE  /\ IsCache(Put(c, n, t), b)
           /\ DOMAIN Put(c, n, t).stamp = (DOMAIN c.stamp \ Victims(c)) \cup {n}
<1> DEFINE p == Put(c, n, t)
           D == DOMAIN c.stamp
           V == Victims(c)
           kept == IF V = {} THEN c.order ELSE Tail(c.order)
<1>1. /\ p.stamp = [m \in (D \ V) \cup {n} |-> IF m = n THEN t ELSE c.stamp[m]]
      /\ p.order = Append(kept, n)
      /\ p.cap = c.cap
  BY DEF Put
<1>2. n \notin D
  BY DEF Has
<1>3. Len(c.order) \in Nat /\ c.cap \in Nat \ {0} /\ Len(c.order) <= c.cap
  BY ListsLen, CapPositive DEF IsCache
<1>4. Lists(kept, D \ V) /\ Len(kept) < c.cap /\ Len(kept) \in Nat
  <2>1. CASE Len(c.order) >= c.cap
    <3>1. V = {Head(c.order)} /\ Len(c.order) > 0
      BY <1>3, <2>1 DEF Victims
    <3>2. Lists(Tail(c.order), D \ {Head(c.order)})
      BY <3>1, ListsTail DEF IsCache
    <3>3. Len(Tail(c.order)) = Len(c.order) - 1
      BY <1>3, <3>1 DEF IsCache, Lists
    <3>4. kept = Tail(c.order)
      BY <3>1
    <3> HIDE DEF V, D, kept
    <3>5. Lists(kept, D \ V)
      BY <3>1, <3>2, <3>4
    <3> QED
      BY <1>3, <3>1, <3>3, <3>4, <3>5
  <2>2. CASE ~(Len(c.order) >= c.cap)
    <3>1. V = {}
      BY <2>2 DEF Victims
    <3>2. D \ V = D
      BY <3>1
    <3> HIDE DEF V
    <3> QED
      BY <1>3, <2>2, <3>1, <3>2 DEF IsCache
  <2> QED
    BY <2>1, <2>2
<1> HIDE DEF V, p, kept
<1>5. DOMAIN p.stamp = (D \ V) \cup {n}
  BY <1>1
<1>6. Lists(p.order, DOMAIN p.stamp)
  BY <1>1, <1>2, <1>4, <1>5, ListsAppend
<1>7. Len(p.order) = Len(kept) + 1
  BY <1>1, <1>4 DEF Lists
<1>8. IsMap(p.stamp, b)
  <2>1. IsFiniteSet(D) /\ D \subseteq Nonces /\ \A m \in D : c.stamp[m] \in 0..b
    BY DEF IsCache, IsMap
  <2>2. IsFiniteSet((D \ V) \cup {n})
    BY <2>1, FS_Difference, FS_AddElement
  <2>3. \A m \in DOMAIN p.stamp : p.stamp[m] \in 0..b
    BY <1>1, <2>1
  <2> QED
    BY <1>5, <2>1, <2>2, <2>3 DEF IsMap
<1>9. Len(p.order) <= p.cap
  BY <1>1, <1>3, <1>4, <1>7
<1> QED
  BY <1>1, <1>5, <1>6, <1>8, <1>9 DEF IsCache, p, V

\* LruCache::pop of some nonces.
LEMMA PopCache ==
    ASSUME NEW t \in Nat, NEW c, IsCache(c, t), NEW gone
    PROVE  /\ IsCache(PopAll(c, gone), t)
           /\ DOMAIN PopAll(c, gone).stamp = DOMAIN c.stamp \ gone
<1> DEFINE p == PopAll(c, gone)
           D == DOMAIN c.stamp
<1>1. /\ p.stamp = [m \in D \ gone |-> c.stamp[m]]
      /\ p.order = Detach(c.order, gone)
      /\ p.cap = c.cap
  BY DEF PopAll, Restrict
<1> HIDE DEF p
<1>2. DOMAIN p.stamp = D \ gone /\ \A m \in DOMAIN p.stamp : p.stamp[m] = c.stamp[m]
  BY <1>1
<1>3. Lists(p.order, DOMAIN p.stamp)
  BY <1>1, <1>2, ListsDetach DEF IsCache
<1>4. IsMap(p.stamp, t)
  BY <1>2, SubMap DEF IsCache
<1>5. Len(p.order) <= p.cap
  <2>1. Cardinality(D \ gone) = Len(p.order) /\ Len(p.order) \in Nat
    BY <1>2, <1>3, ListsLen
  <2>2. IsFiniteSet(D) /\ Cardinality(D) = Len(c.order) /\ Len(c.order) \in Nat
    BY ListsLen DEF IsCache
  <2>3. Cardinality(D \ gone) <= Cardinality(D)
    BY <2>2, FS_Subset
  <2>4. c.cap \in Nat /\ Len(c.order) <= c.cap
    BY CapPositive DEF IsCache
  <2> QED
    BY <1>1, <2>1, <2>2, <2>3, <2>4
<1> QED
  BY <1>1, <1>2, <1>3, <1>4, <1>5 DEF IsCache, p

\* load_from_file: a part of the file, no larger than the default capacity.
LEMMA LoadCache ==
    ASSUME NEW t \in Nat, NEW f, IsMap(f, t), NEW c \in LoadFromFile(f)
    PROVE  IsCache(c, t) /\ DOMAIN c.stamp \subseteq DOMAIN f
<1> DEFINE k == Cardinality(DOMAIN f)
           kept(perm) == SubSeq(perm, 1 + SaturatingSub(Len(perm), DefaultMaxEntries), Len(perm))
<1>1. k \in Nat
  BY FS_CardinalityType DEF IsMap
<1>2. PICK perm \in Bijection(1..k, DOMAIN f) :
          c = [stamp |-> Restrict(f, Range(kept(perm))),
               order |-> kept(perm),
               cap   |-> DefaultMaxEntries]
  BY DEF LoadFromFile
<1>3. /\ perm \in [1..k -> DOMAIN f]
      /\ \A i, j \in 1..k : perm[i] = perm[j] => i = j
      /\ \A y \in DOMAIN f : \E i \in 1..k : perm[i] = y
  BY <1>2 DEF Bijection, Injection, IsInjective, Surjection
<1> DEFINE m == SaturatingSub(k, DefaultMaxEntries)
<1>4. m \in 0..k /\ k - m <= DefaultMaxEntries
  BY <1>1, CapPositive DEF SaturatingSub
<1> HIDE DEF k
<1>5. perm \in Seq(DOMAIN f) /\ Len(perm) = k /\ DOMAIN perm = 1..k
  BY <1>1, <1>3
<1>6. Lists(perm, DOMAIN f)
  <2>1. Range(perm) = DOMAIN f
    <3>1. Range(perm) = {perm[i] : i \in 1..k}
      BY <1>5 DEF Range
    <3>2. \A i \in 1..k : perm[i] \in DOMAIN f
      BY <1>3
    <3>3. \A y \in DOMAIN f : \E i \in 1..k : perm[i] = y
      BY <1>3
    <3> QED
      BY <3>1, <3>2, <3>3
  <2> QED
    BY <1>3, <1>5, <2>1 DEF Lists
<1>7. kept(perm) = SubSeq(perm, 1 + m, Len(perm))
  BY <1>5
<1> HIDE DEF m, kept
<1>8. /\ Lists(kept(perm), Range(kept(perm)))
      /\ Range(kept(perm)) \subseteq DOMAIN f
      /\ Len(kept(perm)) <= DefaultMaxEntries
  BY <1>4, <1>5, <1>6, <1>7, ListsSuffix
<1>9. /\ c.stamp = [n \in Range(kept(perm)) |-> f[n]]
      /\ c.order = kept(perm) /\ c.cap = DefaultMaxEntries
  BY <1>2 DEF Restrict
<1>10. DOMAIN c.stamp = Range(kept(perm)) /\ \A n \in DOMAIN c.stamp : c.stamp[n] = f[n]
  BY <1>9
<1>11. IsMap(c.stamp, t)
  BY <1>8, <1>10, SubMap
<1> QED
  BY <1>8, <1>9, <1>10, <1>11 DEF IsCache

-----------------------------------------------------------------------------
(* Any number of callers. *)

\* What a caller holds between two locks: the nonce it inserts, and the copy
\* of the map that it writes.
IsCall(r, t) ==
    /\ "op" \in DOMAIN r
    /\ r.op \in {"idle", "insert", "prune", "save", "rollback"}
    /\ r.op \in {"insert", "rollback"} => r.nonce \in Nonces
    /\ r.op = "insert" => "nonce" \in DOMAIN r
    /\ "snap" \in DOMAIN r => r.op \in {"insert", "prune", "save"} /\ IsMap(r.snap, t)

\* The inductive invariant that TypeOK needs: what a caller is about to write
\* is a map as well.
TypeInv ==
    /\ now \in 0..MaxTime
    /\ up \in BOOLEAN /\ exists \in BOOLEAN
    /\ IsCache(cache, MaxTime)
    /\ IsMap(file, MaxTime)
    /\ live \subseteq Nonces
    /\ DOMAIN call = Callers
    /\ \A t \in Callers : IsCall(call[t], MaxTime)

\* The clock's range is one of naturals.
LEMMA TimeNat == MaxTime \in Nat
  BY ReplayCacheAssumption

\* A caller's record changes, and those of the others do not.
LEMMA BusyCalls ==
    ASSUME TypeInv, NEW t \in Callers, NEW r, Busy(t, r), IsCall(r, MaxTime)
    PROVE  DOMAIN call' = Callers /\ \A u \in Callers : IsCall(call'[u], MaxTime)
<1>1. call' = [call EXCEPT ![t] = r] /\ DOMAIN call = Callers
  BY DEF Busy, TypeInv
<1>2. DOMAIN call' = Callers /\ call'[t] = r /\ \A u \in Callers : u # t => call'[u] = call[u]
  BY <1>1
<1> QED
  BY <1>2 DEF TypeInv

\* A caller that is done is idle.
LEMMA IdleCall == \A t : IsCall(Idle, t)
<1>1. Idle.op = "idle" /\ "op" \in DOMAIN Idle /\ "snap" \notin DOMAIN Idle
  BY DEF Idle
<1> QED
  BY <1>1 DEF IsCall

\* Every step of a caller preserves the invariant.
LEMMA CallerType ==
    ASSUME TypeInv, NEW t \in Callers, CallerStep(t)
    PROVE  TypeInv'
<1>0. now \in 0..MaxTime /\ MaxTime \in Nat /\ IsCache(cache, MaxTime) /\ IsMap(file, MaxTime) /\ live \subseteq Nonces /\ IsCall(call[t], MaxTime)
  BY TimeNat DEF TypeInv
<1>1. CASE \E n \in Nonces : CheckAndInsert(t, n)
  <2>1. PICK n \in Nonces : CheckAndInsert(t, n)
    BY <1>1
  <2>2. /\ ~Has(cache, n) /\ cache' = Put(cache, n, now) /\ live' \subseteq live
        /\ Busy(t, [op |-> "insert", nonce |-> n])
        /\ UNCHANGED <<now, up, file, exists>>
    BY <2>1 DEF CheckAndInsert
  <2>3. IsCall([op |-> "insert", nonce |-> n], MaxTime)
    BY DEF IsCall
  <2>4. IsCache(cache', MaxTime)
    BY <1>0, <2>2, PutCache
  <2>5. DOMAIN call' = Callers /\ \A u \in Callers : IsCall(call'[u], MaxTime)
    BY <2>2, <2>3, BusyCalls
  <2> QED
    BY <2>2, <2>4, <2>5 DEF TypeInv
<1>2. CASE PruneOlderThan(t)
  <2>1. /\ cache' = PopAll(cache, Stale(cache, now, MaxAge)) /\ live' \subseteq live
        /\ Busy(t, [op |-> "prune"])
        /\ UNCHANGED <<now, up, file, exists>>
    BY <1>2 DEF PruneOlderThan
  <2>2. IsCall([op |-> "prune"], MaxTime)
    BY DEF IsCall
  <2>3. IsCache(cache', MaxTime)
    BY <1>0, <2>1, PopCache
  <2>4. DOMAIN call' = Callers /\ \A u \in Callers : IsCall(call'[u], MaxTime)
    BY <2>1, <2>2, BusyCalls
  <2> QED
    BY <2>1, <2>3, <2>4 DEF TypeInv
<1>3. CASE SaveToFile(t)
  <2>1. Busy(t, [op |-> "save"]) /\ UNCHANGED <<now, up, cache, file, exists, live>>
    BY <1>3 DEF SaveToFile
  <2>2. IsCall([op |-> "save"], MaxTime)
    BY DEF IsCall
  <2>3. DOMAIN call' = Callers /\ \A u \in Callers : IsCall(call'[u], MaxTime)
    BY <2>1, <2>2, BusyCalls
  <2> QED
    BY <2>1, <2>3 DEF TypeInv
<1>4. CASE Snapshot(t)
  <2> DEFINE r == [f \in DOMAIN call[t] \cup {"snap"} |-> IF f = "snap" THEN cache.stamp ELSE call[t][f]]
  <2>1. /\ call[t].op \in {"insert", "prune", "save"} /\ "snap" \notin DOMAIN call[t]
        /\ Busy(t, r) /\ UNCHANGED <<now, up, cache, file, exists, live>>
    BY <1>4 DEF Snapshot
  <2>2. /\ DOMAIN r = DOMAIN call[t] \cup {"snap"} /\ r.snap = cache.stamp /\ r.op = call[t].op
        /\ r.op = "insert" => r.nonce = call[t].nonce
    BY <1>0, <2>1 DEF IsCall
  <2> HIDE DEF r
  <2>3. IsCall(r, MaxTime)
    BY <1>0, <2>1, <2>2 DEF IsCall, IsCache
  <2>4. DOMAIN call' = Callers /\ \A u \in Callers : IsCall(call'[u], MaxTime)
    BY <2>1, <2>3, BusyCalls
  <2> QED
    BY <2>1, <2>4 DEF TypeInv
<1>5. CASE WriteOk(t)
  <2>1. /\ "snap" \in DOMAIN call[t] /\ file' = call[t].snap /\ exists' = TRUE /\ Busy(t, Idle)
        /\ live' \subseteq live \cup (IF call[t].op = "insert" THEN {call[t].nonce} ELSE {})
        /\ UNCHANGED <<now, up, cache>>
    BY <1>5 DEF WriteOk
  <2>2. IsMap(file', MaxTime) /\ live' \subseteq Nonces
    BY <1>0, <2>1 DEF IsCall
  <2>3. DOMAIN call' = Callers /\ \A u \in Callers : IsCall(call'[u], MaxTime)
    BY <2>1, IdleCall, BusyCalls
  <2> QED
    BY <2>1, <2>2, <2>3 DEF TypeInv
<1>6. CASE WriteErr(t)
  <2> DEFINE r == IF call[t].op = "insert" THEN [op |-> "rollback", nonce |-> call[t].nonce] ELSE Idle
  <2>1. Busy(t, r) /\ UNCHANGED <<now, up, cache, file, exists, live>>
    BY <1>6 DEF WriteErr
  <2>2. IsCall(r, MaxTime)
    BY <1>0, IdleCall DEF IsCall
  <2>3. DOMAIN call' = Callers /\ \A u \in Callers : IsCall(call'[u], MaxTime)
    BY <2>1, <2>2, BusyCalls
  <2> QED
    BY <2>1, <2>3 DEF TypeInv
<1>7. CASE Rollback(t)
  <2>1. cache' = PopAll(cache, {call[t].nonce}) /\ Busy(t, Idle) /\ UNCHANGED <<now, up, file, exists, live>>
    BY <1>7 DEF Rollback
  <2>2. IsCache(cache', MaxTime)
    BY <1>0, <2>1, PopCache
  <2>3. DOMAIN call' = Callers /\ \A u \in Callers : IsCall(call'[u], MaxTime)
    BY <2>1, IdleCall, BusyCalls
  <2> QED
    BY <2>1, <2>2, <2>3 DEF TypeInv
<1> QED
  BY <1>1, <1>2, <1>3, <1>4, <1>5, <1>6, <1>7 DEF CallerStep

\* The invariant is inductive.
LEMMA NextType == TypeInv /\ [Next]_vars => TypeInv'
<1> SUFFICES ASSUME TypeInv, [Next]_vars PROVE TypeInv'
  OBVIOUS
<1>0. MaxTime \in Nat /\ IsMap(file, MaxTime)
  BY TimeNat DEF TypeInv
<1>1. CASE \E t \in Callers : CallerStep(t)
  BY <1>1, CallerType
<1>2. CASE Crash
  <2>1. /\ cache' = WithCapacity(MaxEntries) /\ call' = [t \in Callers |-> Idle] /\ up' = FALSE
        /\ UNCHANGED <<now, file, exists, live>>
    BY <1>2 DEF Crash
  <2>2. IsCache(cache', MaxTime)
    BY <1>0, <2>1, NewCache
  <2>3. DOMAIN call' = Callers /\ \A u \in Callers : IsCall(call'[u], MaxTime)
    BY <2>1, IdleCall
  <2> QED
    BY <2>1, <2>2, <2>3 DEF TypeInv
<1>3. CASE Restart
  <2>1. /\ up' = TRUE /\ live' \subseteq live /\ UNCHANGED <<now, file, exists, call>>
        /\ cache' \in LoadFromFile(file) \/ cache' = WithCapacity(MaxEntries)
    BY <1>3 DEF Restart
  <2>2. IsCache(cache', MaxTime)
    BY <1>0, <2>1, NewCache, LoadCache
  <2> QED
    BY <2>1, <2>2 DEF TypeInv
<1>4. CASE Tick
  BY <1>4 DEF Tick, TypeInv
<1>5. CASE UNCHANGED vars
  BY <1>5 DEF vars, TypeInv
<1> QED
  BY <1>1, <1>2, <1>3, <1>4, <1>5 DEF Next

\* A new cache is a map.
LEMMA InitType == Init => TypeInv
<1> SUFFICES ASSUME Init PROVE TypeInv
  OBVIOUS
<1>1. /\ now = 0 /\ up = TRUE /\ exists = FALSE /\ live = {} /\ file = EmptyMap
      /\ cache = WithCapacity(MaxEntries) /\ call = [t \in Callers |-> Idle]
  BY DEF Init
<1>2. MaxTime \in Nat /\ now \in 0..MaxTime
  BY <1>1, ReplayCacheAssumption
<1>3. IsCache(cache, MaxTime) /\ IsMap(file, MaxTime)
  BY <1>1, <1>2, NewCache
<1>4. DOMAIN call = Callers /\ \A u \in Callers : IsCall(call[u], MaxTime)
  BY <1>1, IdleCall
<1> QED
  BY <1>1, <1>2, <1>3, <1>4 DEF TypeInv

\* So the invariant holds of every behaviour.
LEMMA TypeInvariant == Spec => []TypeInv
  BY InitType, NextType, PTL DEF Spec

\* check_and_insert, prune_older_than, save_to_file and load_from_file, called by
\* any number of threads, with crashes, restarts and steps of the clock between
\* any two locks: the cache stays an LRU map that lists each nonce once, within
\* its capacity, and every stamp, in memory or in the file, is one of the clock's.
THEOREM CacheTypeOK == Spec => []TypeOK
<1>1. TypeInv => TypeOK
  <2> SUFFICES ASSUME TypeInv PROVE TypeOK
    OBVIOUS
  <2>1. Lists(cache.order, DOMAIN cache.stamp) /\ IsMap(cache.stamp, MaxTime) /\ IsMap(file, MaxTime)
    BY DEF TypeInv, IsCache
  <2>2. WellFormed(cache)
    <3>1. Range(cache.order) = DOMAIN cache.stamp
      BY <2>1 DEF Lists
    <3>2. Len(cache.order) = Cardinality(DOMAIN cache.stamp)
      BY <2>1, ListsLen
    <3> QED
      BY <3>1, <3>2 DEF WellFormed, TypeInv, IsCache
  <2>3. /\ cache.cap \in {MaxEntries, DefaultMaxEntries}
        /\ DOMAIN cache.stamp \cup DOMAIN file \cup live \subseteq Nonces
    BY <2>1 DEF TypeInv, IsCache, IsMap
  <2>4. /\ \A n \in DOMAIN cache.stamp : cache.stamp[n] \in 0..MaxTime
        /\ \A n \in DOMAIN file : file[n] \in 0..MaxTime
    BY <2>1 DEF IsMap
  <2>5. \A t \in Callers : call[t].op \in {"idle", "insert", "prune", "save", "rollback"}
    BY DEF TypeInv, IsCall
  <2> QED
    BY <2>2, <2>3, <2>4, <2>5 DEF TypeOK, TypeInv
<1> QED
  BY <1>1, TypeInvariant, PTL

-----------------------------------------------------------------------------
(* One caller: fwknoxd calls the cache from one thread. *)

OneCaller == \E c : Callers = {c}

\* The inductive invariant.  With one caller the map does not change between the
\* copy and the write, and a nonce that is being inserted, or rolled back, is
\* not one that was reported fresh.
DurableInv ==
    /\ TypeInv
    /\ DurableBeforeReturn
    /\ Remembered
    /\ ~exists => DOMAIN file = {}
    /\ \A t \in Callers :
          /\ ~up => call[t] = Idle
          /\ "snap" \in DOMAIN call[t] => call[t].snap = cache.stamp
          /\ call[t].op \in {"insert", "rollback"} => call[t].nonce \notin live

\* What DurableInv says of the caller, given what it and the state have become.
Sound(r) ==
    /\ ~up => r = Idle
    /\ "snap" \in DOMAIN r => r.snap = cache.stamp
    /\ r.op \in {"insert", "rollback"} => r.nonce \notin live

\* A thread that is in no call holds no snapshot.
LEMMA IdleSound == Idle.op = "idle" /\ "snap" \notin DOMAIN Idle
  BY DEF Idle

\* The invariant is inductive.
LEMMA NextDurable ==
    ASSUME OneCaller, DurableInv, [Next]_vars
    PROVE  DurableInv'
<1>1. PICK c : Callers = {c}
  BY DEF OneCaller
<1>2. TypeInv /\ TypeInv'
  BY NextType DEF DurableInv
<1>3. /\ now \in 0..MaxTime /\ MaxTime \in Nat /\ IsCache(cache, MaxTime) /\ IsMap(file, MaxTime) /\ IsCall(call[c], MaxTime)
      /\ DOMAIN call = {c} /\ DOMAIN call' = {c}
  BY <1>1, <1>2, TimeNat DEF TypeInv
<1>4. /\ live \subseteq DOMAIN file
      /\ up => live \subseteq DOMAIN cache.stamp
      /\ ~exists => DOMAIN file = {}
      /\ Sound(call[c])
  BY <1>1 DEF DurableInv, DurableBeforeReturn, Remembered, Sound
<1>5. SUFFICES /\ live' \subseteq DOMAIN file'
               /\ up' => live' \subseteq DOMAIN cache'.stamp
               /\ ~exists' => DOMAIN file' = {}
               /\ ~up' => call'[c] = Idle
               /\ "snap" \in DOMAIN call'[c] => call'[c].snap = cache'.stamp
               /\ call'[c].op \in {"insert", "rollback"} => call'[c].nonce \notin live'
  BY <1>1, <1>2 DEF DurableInv, DurableBeforeReturn, Remembered
<1>6. ASSUME NEW r, Busy(c, r) PROVE call'[c] = r
  BY <1>3, <1>6 DEF Busy
<1>7. CASE \E n \in Nonces : CheckAndInsert(c, n)
  <2>1. PICK n \in Nonces : CheckAndInsert(c, n)
    BY <1>7
  <2>2. /\ up /\ ~Has(cache, n) /\ cache' = Put(cache, n, now) /\ live' = live \ Victims(cache)
        /\ Busy(c, [op |-> "insert", nonce |-> n])
        /\ UNCHANGED <<now, up, file, exists>>
    BY <2>1 DEF CheckAndInsert
  <2>3. DOMAIN cache'.stamp = (DOMAIN cache.stamp \ Victims(cache)) \cup {n}
    BY <1>3, <2>2, PutCache
  <2>4. n \notin live
    BY <1>4, <2>2 DEF Has
  <2>5. call'[c] = [op |-> "insert", nonce |-> n]
    BY <1>6, <2>2
  <2> QED
    BY <1>4, <2>2, <2>3, <2>4, <2>5
<1>8. CASE PruneOlderThan(c)
  <2> DEFINE stale == Stale(cache, now, MaxAge)
  <2>1. /\ up /\ cache' = PopAll(cache, stale) /\ live' = live \ stale
        /\ Busy(c, [op |-> "prune"])
        /\ UNCHANGED <<now, up, file, exists>>
    BY <1>8 DEF PruneOlderThan
  <2> HIDE DEF stale
  <2>2. DOMAIN cache'.stamp = DOMAIN cache.stamp \ stale
    BY <1>3, <2>1, PopCache
  <2>3. call'[c] = [op |-> "prune"]
    BY <1>6, <2>1
  <2> QED
    BY <1>4, <2>1, <2>2, <2>3
<1>9. CASE SaveToFile(c)
  <2>1. up /\ Busy(c, [op |-> "save"]) /\ UNCHANGED <<now, up, cache, file, exists, live>>
    BY <1>9 DEF SaveToFile
  <2>2. call'[c] = [op |-> "save"]
    BY <1>6, <2>1
  <2> QED
    BY <1>4, <2>1, <2>2
<1>10. CASE Snapshot(c)
  <2> DEFINE r == [f \in DOMAIN call[c] \cup {"snap"} |-> IF f = "snap" THEN cache.stamp ELSE call[c][f]]
  <2>1. /\ call[c].op \in {"insert", "prune", "save"} /\ "snap" \notin DOMAIN call[c]
        /\ Busy(c, r) /\ UNCHANGED <<now, up, cache, file, exists, live>>
    BY <1>10 DEF Snapshot
  <2>2. /\ DOMAIN r = DOMAIN call[c] \cup {"snap"} /\ r.snap = cache.stamp /\ r.op = call[c].op
        /\ r.op = "insert" => r.nonce = call[c].nonce
    BY <1>3, <2>1 DEF IsCall
  <2>3. call'[c] = r
    BY <1>6, <2>1
  <2>4. up
    BY <1>4, <2>1, IdleSound DEF Sound
  <2> HIDE DEF r
  <2> QED
    BY <1>4, <2>1, <2>2, <2>3, <2>4 DEF Sound
<1>11. CASE WriteOk(c)
  <2>1. /\ "snap" \in DOMAIN call[c] /\ file' = call[c].snap /\ exists' = TRUE /\ Busy(c, Idle)
        /\ live' = IF call[c].op = "insert" /\ Has(cache, call[c].nonce)
                   THEN live \cup {call[c].nonce} ELSE live
        /\ UNCHANGED <<now, up, cache>>
    BY <1>11 DEF WriteOk
  <2>2. file' = cache.stamp /\ up
    BY <1>4, <2>1, IdleSound DEF Sound
  <2>3. call'[c] = Idle
    BY <1>6, <2>1
  <2>4. live' \subseteq DOMAIN cache.stamp
    BY <1>4, <2>1, <2>2 DEF Has
  <2> QED
    BY <2>1, <2>2, <2>3, <2>4, IdleSound
<1>12. CASE WriteErr(c)
  <2> DEFINE r == IF call[c].op = "insert" THEN [op |-> "rollback", nonce |-> call[c].nonce] ELSE Idle
  <2>1. "snap" \in DOMAIN call[c] /\ Busy(c, r) /\ UNCHANGED <<now, up, cache, file, exists, live>>
    BY <1>12 DEF WriteErr
  <2>2. call'[c] = r
    BY <1>6, <2>1
  <2>3. up
    BY <1>4, <2>1, IdleSound DEF Sound
  <2>4. "snap" \notin DOMAIN r /\ (r.op \in {"insert", "rollback"} => r.nonce \notin live)
    BY <1>4, IdleSound DEF Sound
  <2> HIDE DEF r
  <2> QED
    BY <1>4, <2>1, <2>2, <2>3, <2>4
<1>13. CASE Rollback(c)
  <2>1. /\ call[c].op = "rollback" /\ cache' = PopAll(cache, {call[c].nonce}) /\ Busy(c, Idle)
        /\ UNCHANGED <<now, up, file, exists, live>>
    BY <1>13 DEF Rollback
  <2>2. call'[c] = Idle
    BY <1>6, <2>1
  <2>3. DOMAIN cache'.stamp = DOMAIN cache.stamp \ {call[c].nonce}
    BY <1>3, <2>1, PopCache
  <2>4. call[c].nonce \notin live
    BY <1>4, <2>1 DEF Sound
  <2> QED
    BY <1>4, <2>1, <2>2, <2>3, <2>4, IdleSound
<1>14. CASE Crash
  <2>1. up' = FALSE /\ call'[c] = Idle /\ UNCHANGED <<now, file, exists, live>>
    BY <1>1, <1>14 DEF Crash
  <2> QED
    BY <1>4, <2>1, IdleSound
<1>15. CASE Restart
  <2>1. /\ ~up /\ up' = TRUE /\ UNCHANGED <<now, file, exists, call>>
        /\ exists => cache' \in LoadFromFile(file) /\ live' = live \ (DOMAIN file \ DOMAIN cache'.stamp)
        /\ ~exists => live' = live
    BY <1>15 DEF Restart
  <2>2. call'[c] = Idle
    BY <1>4, <2>1 DEF Sound
  <2>3. live' \subseteq live /\ live' \subseteq DOMAIN cache'.stamp
    BY <1>4, <2>1
  <2> QED
    BY <1>4, <2>1, <2>2, <2>3, IdleSound
<1>16. CASE Tick \/ UNCHANGED vars
  <2>1. UNCHANGED <<up, cache, file, exists, call, live>>
    BY <1>16 DEF Tick, vars
  <2> QED
    BY <1>4, <2>1 DEF Sound
<1> QED
  BY <1>1, <1>7, <1>8, <1>9, <1>10, <1>11, <1>12, <1>13, <1>14, <1>15, <1>16 DEF Next, CallerStep

\* So the invariant holds of every behaviour with one caller.
LEMMA DurableInvariant ==
    ASSUME OneCaller
    PROVE  Spec => []DurableInv
<1>1. Init => DurableInv
  <2> SUFFICES ASSUME Init PROVE DurableInv
    OBVIOUS
  <2>1. /\ up = TRUE /\ exists = FALSE /\ live = {} /\ file = EmptyMap
        /\ call = [t \in Callers |-> Idle]
    BY DEF Init
  <2>2. DOMAIN file = {}
    BY <2>1 DEF EmptyMap
  <2>3. \A t \in Callers : call[t] = Idle
    BY <2>1
  <2> QED
    BY <2>1, <2>2, <2>3, InitType, IdleSound DEF DurableInv, DurableBeforeReturn, Remembered
<1>2. DurableInv /\ [Next]_vars => DurableInv'
  BY NextDurable
<1> QED
  BY <1>1, <1>2, PTL DEF Spec

\* cache.rs:7, for the one thread of fwknoxd: a nonce that check_and_insert
\* reported fresh is in the cache file until it is evicted, pruned or dropped,
\* through failed writes, crashes and restarts at any point.
THEOREM InsertIsDurable ==
    ASSUME OneCaller
    PROVE  Spec => []DurableBeforeReturn
<1>1. DurableInv => DurableBeforeReturn
  BY DEF DurableInv
<1> QED
  BY <1>1, DurableInvariant, PTL

\* For the same thread: the nonce is in the memory of the running process, so
\* that its replay is refused; no rollback takes it away.
THEOREM InsertIsRemembered ==
    ASSUME OneCaller
    PROVE  Spec => []Remembered
<1>1. DurableInv => Remembered
  BY DEF DurableInv
<1> QED
  BY <1>1, DurableInvariant, PTL
=============================================================================
