----------------------------- MODULE ReplayCache -----------------------------
(***************************************************************************)
(* The operations of ReplayCache (crates/fwknox-replay/src/cache.rs) on    *)
(* one shared cache, at the grain of its mutex: check_and_insert and       *)
(* prune_older_than change the map under the lock, snapshot it under a     *)
(* second lock, write the file with no lock held, and an insert whose      *)
(* write failed takes the lock a third time to roll back.                  *)
(*                                                                         *)
(* Callers are the threads that share the cache: one in fwknoxd, any       *)
(* number for the type, which is documented as thread-safe.  The process   *)
(* may crash between any two steps and is restarted as fwknoxd starts up.  *)
(***************************************************************************)
EXTENDS ReplayStore

CONSTANTS Nonces,     \* the nonces of the packets that authenticate
          Callers,    \* threads calling into the cache
          MaxEntries, \* replay.max_entries
          MaxAge,     \* replay.max_age, in seconds
          MaxTime     \* bound on the wall clock

ASSUME ReplayCacheAssumption ==
    MaxEntries \in Nat \ {0} /\ MaxAge \in Nat /\ MaxTime \in Nat

VARIABLES
    now,    \* SystemTime::now() in seconds
    up,     \* is the process running
    cache,  \* ReplayCache.inner
    file,   \* the contents of the cache file
    exists, \* does the cache file exist
    call,   \* call[t]: what caller t is doing
    live    \* history: nonces reported fresh, and since then neither evicted,
            \* pruned nor dropped by a reload

vars == <<now, up, cache, file, exists, call, live>>

Idle == [op |-> "idle"]

Init ==
    /\ now = 0
    /\ up = TRUE
    /\ cache = WithCapacity(MaxEntries)
    /\ file = EmptyMap
    /\ exists = FALSE
    /\ call = [t \in Callers |-> Idle]
    /\ live = {}

Busy(t, r) == call' = [call EXCEPT ![t] = r]

\* The first critical section of check_and_insert, with the clock read before
\* it.  A nonce that is present is a replay and changes nothing, so only the
\* other branch is an action.
CheckAndInsert(t, n) ==
    /\ up
    /\ call[t].op = "idle"
    /\ ~Has(cache, n)
    /\ cache' = Put(cache, n, now)
    /\ live' = live \ Victims(cache)
    /\ Busy(t, [op |-> "insert", nonce |-> n])
    /\ UNCHANGED <<now, up, file, exists>>

\* The critical section of prune_older_than.  With nothing stale it returns
\* without saving, which changes nothing.
PruneOlderThan(t) ==
    LET stale == Stale(cache, now, MaxAge)
    IN  /\ up
        /\ call[t].op = "idle"
        /\ stale # {}
        /\ cache' = PopAll(cache, stale)
        /\ live' = live \ stale
        /\ Busy(t, [op |-> "prune"])
        /\ UNCHANGED <<now, up, file, exists>>

\* save_to_file as the daemon calls it on its way out.
SaveToFile(t) ==
    /\ up
    /\ call[t].op = "idle"
    /\ Busy(t, [op |-> "save"])
    /\ UNCHANGED <<now, up, cache, file, exists, live>>

\* The lock of save_to_file: the map is copied, then the lock is dropped.
Snapshot(t) ==
    /\ call[t].op \in {"insert", "prune", "save"}
    /\ "snap" \notin DOMAIN call[t]
    /\ Busy(t, [f \in DOMAIN call[t] \cup {"snap"} |->
                    IF f = "snap" THEN cache.stamp ELSE call[t][f]])
    /\ UNCHANGED <<now, up, cache, file, exists, live>>

\* write_cache_file succeeds: the temporary file is renamed over the old one.
\* An insert then returns Ok(true).
WriteOk(t) ==
    /\ "snap" \in DOMAIN call[t]
    /\ file' = call[t].snap
    /\ exists' = TRUE
    /\ Busy(t, Idle)
    /\ live' = IF call[t].op = "insert" /\ Has(cache, call[t].nonce)
               THEN live \cup {call[t].nonce}
               ELSE live
    /\ UNCHANGED <<now, up, cache>>

\* Mutant of WriteErr: the error is dropped, and an insert returns Ok(true).
WriteErrIgnored(t) ==
    /\ "snap" \in DOMAIN call[t]
    /\ Busy(t, Idle)
    /\ live' = IF call[t].op = "insert" THEN live \cup {call[t].nonce} ELSE live
    /\ UNCHANGED <<now, up, cache, file, exists>>

\* write_cache_file fails before the rename: the old file is untouched.  Only
\* an insert has something to undo.
WriteErr(t) ==
    /\ "snap" \in DOMAIN call[t]
    /\ Busy(t, IF call[t].op = "insert"
               THEN [op |-> "rollback", nonce |-> call[t].nonce]
               ELSE Idle)
    /\ UNCHANGED <<now, up, cache, file, exists, live>>

\* guard.pop(&nonce); check_and_insert returns Err.
Rollback(t) ==
    /\ call[t].op = "rollback"
    /\ cache' = PopAll(cache, {call[t].nonce})
    /\ Busy(t, Idle)
    /\ UNCHANGED <<now, up, file, exists, live>>

Crash ==
    /\ up
    /\ up' = FALSE
    /\ cache' = WithCapacity(MaxEntries)
    /\ call' = [t \in Callers |-> Idle]
    /\ UNCHANGED <<now, file, exists, live>>

\* Mutant of Restart: the cache always starts empty.
RestartEmpty ==
    /\ ~up
    /\ up' = TRUE
    /\ cache' = WithCapacity(MaxEntries)
    /\ UNCHANGED <<now, file, exists, call, live>>

\* real_main: a cache file that exists is loaded, otherwise the cache is new.
Restart ==
    /\ ~up
    /\ up' = TRUE
    /\ cache' \in IF exists THEN LoadFromFile(file) ELSE {WithCapacity(MaxEntries)}
    /\ live' = IF exists THEN live \ (DOMAIN file \ DOMAIN cache'.stamp) ELSE live
    /\ UNCHANGED <<now, file, exists, call>>

\* The wall clock advances, or NTP steps it forwards or backwards.
Tick ==
    /\ now' \in (0..MaxTime) \ {now}
    /\ UNCHANGED <<up, cache, file, exists, call, live>>

CallerStep(t) ==
    \/ \E n \in Nonces : CheckAndInsert(t, n)
    \/ PruneOlderThan(t)
    \/ SaveToFile(t)
    \/ Snapshot(t)
    \/ WriteOk(t)
    \/ WriteErr(t)
    \/ Rollback(t)

Next == (\E t \in Callers : CallerStep(t)) \/ Crash \/ Restart \/ Tick

Spec == Init /\ [][Next]_vars

-----------------------------------------------------------------------------
(* Properties *)

\* The cache is an LRU map within its capacity, and every stamp, in memory and
\* in the file, is a second the clock has shown (struct ReplayCache, LruCache).
TypeOK ==
    /\ now \in 0..MaxTime /\ up \in BOOLEAN /\ exists \in BOOLEAN
    /\ WellFormed(cache)
    /\ cache.cap \in {MaxEntries, DefaultMaxEntries}
    /\ DOMAIN cache.stamp \cup DOMAIN file \cup live \subseteq Nonces
    /\ \A n \in DOMAIN cache.stamp : cache.stamp[n] \in 0..MaxTime
    /\ \A n \in DOMAIN file : file[n] \in 0..MaxTime
    /\ \A t \in Callers : call[t].op \in {"idle", "insert", "prune", "save", "rollback"}

\* cache.rs:7 "makes every successful insert durable before the function
\* returns": a nonce reported fresh is in the file until it is evicted, pruned
\* or dropped, through failed writes, crashes and restarts.
DurableBeforeReturn == live \subseteq DOMAIN file

\* A nonce reported fresh stays in memory, so that its replay is refused, until
\* it is evicted, pruned or dropped.
Remembered == up => live \subseteq DOMAIN cache.stamp

=============================================================================
