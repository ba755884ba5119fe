------------------------------ MODULE DaemonCore ------------------------------
(***************************************************************************)
(* The state both forms of fwknoxd share, and the steps they share: from   *)
(* the replay check to the firewall rule, pruning, exit, crash, start, and *)
(* the environment (the kernel's rule timeouts and the wall clock).        *)
(* Modules SingleDaemon and PrivsepDaemon add how a datagram gets here.    *)
(*                                                                         *)
(* The network is the set Packets: any datagram may arrive at any moment,  *)
(* any number of times, or never.  The rate limiter (module RateLimiter)   *)
(* only ever drops a datagram, which the network may do as well.           *)
(*                                                                         *)
(* The wall clock is stepped by NTP and by operators.  It may jump forward *)
(* at will, and lags behind the highest value it ever showed by at most    *)
(* MaxStepBack seconds.  Every SystemTime::now() of the code is a read of  *)
(* `now` in an action of its own.                                          *)
(***************************************************************************)
EXTENDS Pipeline, ReplayStore

CONSTANTS
    MaxEntries,    \* replay.max_entries
    ReplayMaxAge,  \* replay.max_age, in seconds
    FlushAtInit,   \* daemon.flush_rules_at_init
    FlushAtExit,   \* daemon.flush_rules_at_exit
    MaxStepBack,   \* how far the wall clock may lag behind its highest value
    MaxQueueDelay, \* by how much the wall clock is expected to advance, ticking
                   \* or stepped, while a validated request waits for the
                   \* replay check
    MaxTime        \* bound on the wall clock

ASSUME DaemonCoreAssumption ==
    /\ MaxEntries \in Nat \ {0} /\ ReplayMaxAge \in Nat
    /\ FlushAtInit \in BOOLEAN /\ FlushAtExit \in BOOLEAN
    /\ MaxStepBack \in Nat /\ MaxQueueDelay \in Nat /\ MaxTime \in Nat

VARIABLES
    now,      \* the wall clock
    high,     \* history: the highest value the wall clock has shown
    pc,       \* the main process: "down", in its "loop", or on a packet at
              \* "replay" (the nonce is not looked up yet), "save" (inserted,
              \* not yet saved) or "open" (saved, rule not yet installed)
    cur,      \* the datagram it works on
    cache,    \* ReplayCache.inner
    file,     \* the cache file
    exists,   \* does the cache file exist
    rules,    \* the rules in the kernel, each with the datagram it was
              \* installed for, which is history
    installs  \* history: how many rules each nonce has installed since it was
              \* last excused; two stands for two or more

clock == <<now, high>>
store == <<cache, file, exists>>
kernel == <<rules, installs>>
coreVars == <<clock, pc, cur, store, kernel>>

NoPacket == [nonce |-> "none"]

CoreInit ==
    /\ now = 0 /\ high = 0
    /\ pc = "loop"
    /\ cur = NoPacket
    /\ cache = WithCapacity(MaxEntries)
    /\ file = EmptyMap
    /\ exists = FALSE
    /\ rules = {}
    /\ installs = [n \in Nonces |-> 0]

\* History: the nonces S may be granted anew, because the cache had no room for
\* them or was not asked in time.  What they installed before no longer counts.
Excuse(S) == installs' = [n \in Nonces |-> IF n \in S THEN 0 ELSE installs[n]]

\* The packet is dealt with, and the loop goes on.
Done == pc' = "loop" /\ cur' = NoPacket

\* Mutant of Insert: a nonce that is in the cache is accepted again.
InsertUnchecked(p, excused) ==
    /\ cache' = Put(cache, p.nonce, now)
    /\ Excuse(Victims(cache) \cup excused)
    /\ pc' = "save"
    /\ cur' = p
    /\ UNCHANGED <<clock, file, exists, rules>>

\* The locked part of check_and_insert, for a nonce that is not in the cache: a
\* full cache evicts its oldest entries.
Insert(p, excused) ==
    /\ ~Has(cache, p.nonce)
    /\ cache' = Put(cache, p.nonce, now)
    /\ Excuse(Victims(cache) \cup excused)
    /\ pc' = "save"
    /\ cur' = p
    /\ UNCHANGED <<clock, file, exists, rules>>

\* Mutant of SaveOk: check_and_insert returns without saving.
SaveSkipped ==
    /\ pc = "save"
    /\ pc' = "open"
    /\ UNCHANGED <<clock, cur, store, kernel>>

\* save_to_file inside check_and_insert, which then returns Ok(true).
SaveOk ==
    /\ pc = "save"
    /\ file' = cache.stamp
    /\ exists' = TRUE
    /\ pc' = "open"
    /\ UNCHANGED <<clock, cur, cache, kernel>>

\* Mutant of SaveErr: no rollback.
SaveErrKeepsEntry ==
    /\ pc = "save"
    /\ Done
    /\ UNCHANGED <<clock, store, kernel>>

\* The save failed: the entry is rolled back and the packet rejected.
SaveErr ==
    /\ pc = "save"
    /\ cache' = PopAll(cache, {cur.nonce})
    /\ Done
    /\ UNCHANGED <<clock, file, exists, kernel>>

\* open_access succeeds.
OpenAccess ==
    /\ pc = "open"
    /\ rules' = rules \cup {[rule |-> RuleFor(cur), by |-> cur]}
    /\ installs' = [installs EXCEPT ![cur.nonce] = IF @ < 2 THEN @ + 1 ELSE @]
    /\ Done
    /\ UNCHANGED <<clock, store>>

\* open_access fails, or is not reached: logged, and the nonce stays spent.
NoAccess ==
    /\ pc = "open"
    /\ Done
    /\ UNCHANGED <<clock, store, kernel>>

\* prune_older_than, which the loop calls every PRUNE_EVERY_TICKS ticks.  When
\* its save fails the in-memory eviction stands.
Prune ==
    LET stale == Stale(cache, now, ReplayMaxAge)
    IN  /\ pc = "loop"
        /\ stale # {}
        /\ cache' = PopAll(cache, stale)
        /\ \/ file' = cache'.stamp /\ exists' = TRUE
           \/ UNCHANGED <<file, exists>>
        /\ UNCHANGED <<clock, pc, cur, kernel>>

\* Mutant of Shutdown: the cache is dropped before it is saved.
ShutdownSavesEmpty ==
    /\ pc = "loop"
    /\ pc' = "down"
    /\ cur' = NoPacket
    /\ rules' \in IF FlushAtExit THEN {{}, rules} ELSE {rules}
    /\ cache' = WithCapacity(MaxEntries)
    /\ file' = cache'.stamp /\ exists' = TRUE
    /\ UNCHANGED <<clock, installs>>

\* The end of run: flush, save, return.  Neither failure stops the exit.
Shutdown ==
    /\ pc = "loop"
    /\ pc' = "down"
    /\ cur' = NoPacket
    /\ rules' \in IF FlushAtExit THEN {{}, rules} ELSE {rules}
    /\ \/ file' = cache.stamp /\ exists' = TRUE
       \/ UNCHANGED <<file, exists>>
    /\ cache' = WithCapacity(MaxEntries)
    /\ UNCHANGED <<clock, installs>>

\* SIGKILL, an abort: memory is gone, the kernel's rules and the file stay.
Crash ==
    /\ pc # "down"
    /\ pc' = "down"
    /\ cur' = NoPacket
    /\ cache' = WithCapacity(MaxEntries)
    /\ UNCHANGED <<clock, file, exists, kernel>>

\* real_main and the start of run: load the cache or make a new one, flush,
\* init.  load_from_file keeps no more than the default capacity.  flush reports
\* success whatever nft said.
Start ==
    /\ pc = "down"
    /\ pc' = "loop"
    /\ cache' \in IF exists THEN LoadFromFile(file) ELSE {WithCapacity(MaxEntries)}
    /\ Excuse(DOMAIN file \ DOMAIN cache'.stamp)
    /\ rules' \in IF FlushAtInit THEN {{}, rules} ELSE {rules}
    /\ UNCHANGED <<clock, cur, file, exists>>

\* firewall.init fails after the flush: run returns the error.
StartErr ==
    /\ pc = "down"
    /\ FlushAtInit
    /\ rules' = {}
    /\ UNCHANGED <<clock, pc, cur, store, installs>>

\* The kernel removes a rule whose timeout has run out.
Expire(r) ==
    /\ rules' = rules \ {r}
    /\ UNCHANGED <<clock, pc, cur, store, installs>>

\* The wall clock moves: it ticks, or is stepped forward or back.
Clock(t) ==
    /\ t # now
    /\ t + MaxStepBack >= high
    /\ now' = t
    /\ high' = IF t > high THEN t ELSE high
    /\ UNCHANGED <<pc, cur, store, kernel>>

-----------------------------------------------------------------------------
(* Properties *)

\* The clock, the program counter and the two copies of the cache have their
\* types, and a packet being worked on is one the network holds.
TypeOK ==
    /\ now \in Nat /\ high \in Nat /\ now <= high
    /\ pc \in {"down", "loop", "replay", "save", "open"}
    /\ pc \in {"replay", "save", "open"} => cur \in Packets
    /\ DOMAIN cache.stamp \subseteq Nonces
    /\ cache.stamp \in [DOMAIN cache.stamp -> Nat]
    /\ DOMAIN file \subseteq Nonces
    /\ file \in [DOMAIN file -> Nat]
    /\ exists \in BOOLEAN
    /\ installs \in [Nonces -> 0..2]

\* No copy of the packet with nonce n can pass validate_against_clock again and
\* reach the replay check, wherever the clock goes from here.
Expired(n) ==
    \A p \in Packets : p.nonce = n =>
        high - MaxStepBack - MaxQueueDelay - p.ts > MaxSpaPacketAge

\* What the configuration has to satisfy for pruning to be safe: an entry is
\* kept for as long as its packet may still reach the replay check.  One
\* MaxStepBack is for the clock between the timestamp check and the insert, the
\* other for the clock between the prune and the next timestamp check.
ConfigCoversWindow ==
    ReplayMaxAge >= MaxSpaPacketAge + MaxSkew + 2 * MaxStepBack + MaxQueueDelay

\* README.md:48, one-shot packets: a nonce installs a second rule only if it was
\* excused in between, that is, if a full cache evicted it, a reload had no room
\* for it, or the request came so late that the clock had moved by more than
\* MaxQueueDelay since it was validated.  Each further rule needs an excuse of
\* its own.  Holds through duplicates, clock steps, pruning, failed saves,
\* crashes and restarts (process_packet, handle_crypto_msg, check_and_insert,
\* prune_older_than, load_from_file).
OneShot == \A n \in Nonces : installs[n] <= 1

\* cache.rs:7, pipeline.rs:127 (C2): a nonce that opened the firewall is in the
\* file, and in the memory of a running daemon, until it is excused or can no
\* longer be accepted: a crash at any point cannot make it acceptable again.
GrantIsRemembered ==
    \A n \in Nonces : installs[n] > 0 =>
        \/ Expired(n)
        \/ n \in DOMAIN file /\ (pc # "down" => n \in DOMAIN cache.stamp)

\* cache.rs:82: outside check_and_insert no nonce is in memory only.
NothingOnlyInRam == pc # "save" => DOMAIN cache.stamp \subseteq DOMAIN file

Once == INSTANCE OnceOnly WITH open <- rules, used <- {n \in Nonces : installs[n] > 0}

\* process_packet and handle_crypto_msg implement the abstract specification,
\* although they make the checks in different orders.  A rule appears only in
\* the step that grants it to the datagram in hand: one made with the key of the
\* first stanza that has it, captured from an address on that stanza's allowlist,
\* for its ports, no longer than its timeout and max_fw_timeout, and with a nonce
\* not used before.  Nothing else, a start after a crash included, opens anything.
ImplementsOnceOnly == Once!Spec
=============================================================================
