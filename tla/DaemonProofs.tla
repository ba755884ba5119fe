----------------------------- MODULE DaemonProofs -----------------------------
(***************************************************************************)
(* The inductive invariant of the steps both daemons share and, for each   *)
(* of those steps, the proof that it preserves the invariant; then the     *)
(* theorems about the single-process daemon and about the daemon with      *)
(* privilege separation.  Both are one-shot for every set of packets,      *)
(* every policy, capacity and clock, provided the configuration covers the *)
(* window in which a packet is acceptable.                                 *)
(***************************************************************************)
EXTENDS SingleDaemon, PrivsepDaemon, OrderProofs

\* Every entry was stamped no earlier than its packet could first be accepted,
\* up to one backward step of the clock.
StampsCover(stamp) ==
    \A n \in DOMAIN stamp : \A p \in Packets :
        p.nonce = n => stamp[n] + MaxSkew + MaxStepBack >= p.ts

\* What is known of a packet about to be looked up: its nonce is in the cache if
\* it installed a rule and is not excused.
Admissible(p, excused) ==
    /\ p \in Packets
    /\ p.ts <= high + MaxSkew
    /\ installs[p.nonce] = 0 \/ p.nonce \in DOMAIN cache.stamp \cup excused

\* The packet between the insert and the end of open_access.
InFlight ==
    pc \in {"save", "open"} =>
        /\ cur.nonce \in DOMAIN cache.stamp
        /\ installs[cur.nonce] = 0
        /\ pc = "open" => cur.nonce \in DOMAIN file

\* While the insert is unsaved, its nonce is the only one in memory alone.
OnDisk ==
    /\ NothingOnlyInRam
    /\ pc = "save" => DOMAIN cache.stamp \subseteq DOMAIN file \cup {cur.nonce}

CoreInv ==
    /\ TypeOK
    /\ high <= now + MaxStepBack
    /\ StampsCover(cache.stamp)
    /\ StampsCover(file)
    /\ ~exists => DOMAIN file = {}
    /\ GrantIsRemembered
    /\ InFlight
    /\ OnDisk
    /\ OneShot

\* Every datagram's nonce is a nonce, and its timestamp an integer.
LEMMA PacketType == \A p \in Packets : p.nonce \in Nonces /\ p.ts \in Int
  BY PacketsAssumption DEF Nonces

\* WithCapacity: a new cache is empty.
LEMMA WithCapacityEmpty ==
    \A c : WithCapacity(c).stamp = EmptyMap /\ DOMAIN EmptyMap = {}
  BY DEF WithCapacity, EmptyMap

\* The empty map is a function to seconds.
LEMMA EmptyMapType == DOMAIN EmptyMap = {} /\ EmptyMap \in [{} -> Nat]
  BY DEF EmptyMap

\* LruCache::put adds the nonce with its stamp, drops the victims, and leaves
\* the other entries alone.
LEMMA PutStamp ==
    ASSUME NEW c, NEW n, NEW t
    PROVE  /\ DOMAIN Put(c, n, t).stamp = (DOMAIN c.stamp \ Victims(c)) \cup {n}
           /\ Put(c, n, t).stamp[n] = t
           /\ \A m \in DOMAIN c.stamp \ Victims(c) :
                 m # n => Put(c, n, t).stamp[m] = c.stamp[m]
           /\ Put(c, n, t).stamp \in [DOMAIN Put(c, n, t).stamp -> {t} \cup {c.stamp[m] : m \in DOMAIN c.stamp}]
  BY DEF Put

\* load_from_file: what is loaded is part of what the file holds.
LEMMA LoadStamp ==
    ASSUME NEW f, IsFiniteSet(DOMAIN f), NEW c \in LoadFromFile(f)
    PROVE  /\ DOMAIN c.stamp \subseteq DOMAIN f
           /\ c.stamp = [m \in DOMAIN c.stamp |-> f[m]]
<1> DEFINE k == Cardinality(DOMAIN f)
           kept(perm) == SubSeq(perm, 1 + SaturatingSub(Len(perm), DefaultMaxEntries), Len(perm))
<1>1. k \in Nat
  BY FS_CardinalityType
<1>2. PICK perm \in Bijection(1..k, DOMAIN f) :
          c = [stamp |-> Restrict(f, Range(kept(perm))),
               order |-> kept(perm),
               cap   |-> DefaultMaxEntries]
  BY DEF LoadFromFile
<1>3. perm \in [1..k -> DOMAIN f]
  BY <1>2 DEF Bijection, Injection
<1>4. perm \in Seq(DOMAIN f) /\ Len(perm) = k
  BY <1>1, <1>3
<1>5. SaturatingSub(k, DefaultMaxEntries) \in 0..k
  BY <1>1, DefaultMaxEntriesAssumption DEF SaturatingSub
<1> HIDE DEF k
<1>6. kept(perm) \in Seq(DOMAIN f)
  BY <1>1, <1>4, <1>5
<1> HIDE DEF kept
<1>7. Range(kept(perm)) \subseteq DOMAIN f
  BY <1>6 DEF Range
<1> QED
  BY <1>2, <1>7 DEF Restrict

\* There are finitely many nonces.
LEMMA NoncesFinite == IsFiniteSet(Nonces)
<1> DEFINE nonceOf == [p \in Packets |-> p.nonce]
<1>1. nonceOf \in Surjection(Packets, Nonces)
  BY DEF Nonces, Surjection
<1> QED
  BY <1>1, PacketsAssumption, FS_Surjection

-----------------------------------------------------------------------------
(* Every shared step preserves TypeOK, whatever the configuration. *)

\* The daemon starts with an empty cache and no file.
LEMMA InitType == CoreInit => TypeOK
<1> SUFFICES ASSUME CoreInit PROVE TypeOK
  OBVIOUS
<1>1. cache.stamp = EmptyMap /\ file = EmptyMap
  BY WithCapacityEmpty DEF CoreInit
<1>2. DOMAIN cache.stamp = {} /\ cache.stamp \in [DOMAIN cache.stamp -> Nat]
  BY <1>1, EmptyMapType, Zenon
<1>3. DOMAIN file = {} /\ file \in [DOMAIN file -> Nat]
  BY <1>1, EmptyMapType, Zenon
<1>4. exists \in BOOLEAN
  BY Zenon DEF CoreInit
<1>5. installs \in [Nonces -> 0..2]
  BY DEF CoreInit
<1> QED
  BY <1>2, <1>3, <1>4, <1>5 DEF CoreInit, TypeOK

\* Excusing nonces sets their counts to zero and leaves the others alone.
LEMMA ExcuseCounts ==
    ASSUME TypeOK, NEW S, Excuse(S)
    PROVE  /\ installs' \in [Nonces -> 0..2]
           /\ \A n \in Nonces : installs'[n] = IF n \in S THEN 0 ELSE installs[n]
BY DEF Excuse, TypeOK

\* check_and_insert of a datagram the network holds.
LEMMA InsertType ==
    ASSUME TypeOK, NEW p \in Packets, NEW E, Insert(p, E)
    PROVE  TypeOK'
<1>1. p.nonce \in Nonces
  BY PacketType
<1>2. /\ DOMAIN cache'.stamp = (DOMAIN cache.stamp \ Victims(cache)) \cup {p.nonce}
      /\ cache'.stamp \in [DOMAIN cache'.stamp -> {now} \cup {cache.stamp[m] : m \in DOMAIN cache.stamp}]
  BY PutStamp DEF Insert
<1>3. installs' \in [Nonces -> 0..2]
  BY ExcuseCounts DEF Insert
<1> QED
  BY <1>1, <1>2, <1>3 DEF TypeOK, Insert, clock

\* The two outcomes of the save.
LEMMA SaveType ==
    ASSUME TypeOK, SaveOk \/ SaveErr
    PROVE  TypeOK'
<1>1. CASE SaveOk
  BY <1>1 DEF SaveOk, TypeOK, clock, kernel
<1>2. CASE SaveErr
  <2>1. cache'.stamp = [m \in DOMAIN cache.stamp \ {cur.nonce} |-> cache.stamp[m]]
    BY <1>2 DEF SaveErr, PopAll, Restrict
  <2> QED
    BY <1>2, <2>1 DEF SaveErr, Done, TypeOK, clock, kernel
<1> QED
  BY <1>1, <1>2

\* The two outcomes of open_access: one more rule counts for the nonce.
LEMMA AccessType ==
    ASSUME TypeOK, OpenAccess \/ NoAccess
    PROVE  /\ TypeOK'
           /\ OpenAccess => /\ cur.nonce \in Nonces
                            /\ \A n \in Nonces : n # cur.nonce => installs'[n] = installs[n]
                            /\ installs[cur.nonce] = 0 => installs'[cur.nonce] = 1
<1>1. CASE OpenAccess
  <2>1. cur.nonce \in Nonces
    BY <1>1, PacketType DEF TypeOK, OpenAccess
  <2>2. /\ installs' \in [Nonces -> 0..2]
        /\ \A n \in Nonces : n # cur.nonce => installs'[n] = installs[n]
        /\ installs[cur.nonce] = 0 => installs'[cur.nonce] = 1
    BY <1>1, <2>1 DEF TypeOK, OpenAccess
  <2>3. TypeOK'
    BY <1>1, <2>2 DEF OpenAccess, Done, clock, store, TypeOK
  <2> QED
    BY <2>1, <2>2, <2>3
<1>2. CASE NoAccess /\ ~OpenAccess
  BY <1>2 DEF NoAccess, Done, clock, store, kernel, TypeOK
<1> QED
  BY <1>1, <1>2

\* prune_older_than, with or without its save.
LEMMA PruneType ==
    ASSUME TypeOK, Prune
    PROVE  /\ TypeOK'
           /\ cache'.stamp = [m \in DOMAIN cache.stamp \ Stale(cache, now, ReplayMaxAge) |-> cache.stamp[m]]
           /\ pc = "loop" /\ pc' = "loop"
           /\ UNCHANGED <<now, high, cur, rules, installs>>
           /\ (file' = cache'.stamp /\ exists' = TRUE) \/ UNCHANGED <<file, exists>>
<1> DEFINE stale == Stale(cache, now, ReplayMaxAge)
<1>1. cache' = PopAll(cache, stale)
  BY DEF Prune
<1>2. /\ pc = "loop" /\ pc' = "loop"
      /\ UNCHANGED <<now, high, cur, rules, installs>>
      /\ (file' = cache'.stamp /\ exists' = TRUE) \/ UNCHANGED <<file, exists>>
  BY DEF Prune, clock, kernel
<1> HIDE DEF stale
<1>3. cache'.stamp = [m \in DOMAIN cache.stamp \ stale |-> cache.stamp[m]]
  BY <1>1 DEF PopAll, Restrict
<1>4. exists' \in BOOLEAN
  BY <1>2, Zenon DEF TypeOK
<1>5. TypeOK'
  BY <1>2, <1>3, <1>4 DEF TypeOK
<1> QED
  BY <1>2, <1>3, <1>5 DEF stale

\* The ends of the process: memory is gone.
LEMMA EndType ==
    ASSUME TypeOK, Shutdown \/ Crash
    PROVE  /\ TypeOK'
           /\ pc' = "down" /\ DOMAIN cache'.stamp = {}
           /\ UNCHANGED <<now, high, installs>>
           /\ rules' \subseteq rules
<1>1. cache'.stamp = EmptyMap
  BY WithCapacityEmpty DEF Shutdown, Crash
<1>2. /\ pc' = "down" /\ UNCHANGED <<now, high, installs>>
      /\ (file' = cache.stamp /\ exists' = TRUE) \/ UNCHANGED <<file, exists>>
      /\ rules' \subseteq rules
  BY DEF Shutdown, Crash, clock, kernel
<1>3. exists' \in BOOLEAN
  BY <1>2, Zenon DEF TypeOK
<1>4. DOMAIN cache'.stamp = {} /\ cache'.stamp \in [DOMAIN cache'.stamp -> Nat]
  BY <1>1, EmptyMapType, Zenon
<1>5. TypeOK'
  BY <1>2, <1>3, <1>4 DEF TypeOK
<1> QED
  BY <1>2, <1>4, <1>5

\* A start loads what the file has, up to the default capacity.
LEMMA StartType ==
    ASSUME TypeOK, Start
    PROVE  /\ TypeOK'
           /\ DOMAIN cache'.stamp \subseteq DOMAIN file
           /\ \A m \in DOMAIN cache'.stamp : cache'.stamp[m] = file[m]
           /\ pc' = "loop" /\ UNCHANGED <<now, high, file, exists>>
           /\ rules' \subseteq rules
           /\ \A n \in Nonces : installs'[n] =
                 IF n \in DOMAIN file \ DOMAIN cache'.stamp THEN 0 ELSE installs[n]
<1>1. /\ pc' = "loop" /\ UNCHANGED <<now, high, file, exists>> /\ rules' \subseteq rules
      /\ Excuse(DOMAIN file \ DOMAIN cache'.stamp)
  BY DEF Start, clock
<1>2. /\ DOMAIN cache'.stamp \subseteq DOMAIN file
      /\ cache'.stamp = [m \in DOMAIN cache'.stamp |-> file[m]]
  <2>1. CASE exists
    <3>1. cache' \in LoadFromFile(file)
      BY <2>1 DEF Start
    <3>2. IsFiniteSet(DOMAIN file)
      BY NoncesFinite, FS_Subset DEF TypeOK
    <3> QED
      BY <3>1, <3>2, LoadStamp
  <2>2. CASE ~exists
    BY <2>2, WithCapacityEmpty DEF Start, EmptyMap
  <2> QED
    BY <2>1, <2>2
<1>3. \A m \in DOMAIN cache'.stamp : cache'.stamp[m] = file[m]
  BY <1>2
<1>4. /\ installs' \in [Nonces -> 0..2]
      /\ \A n \in Nonces : installs'[n] =
            IF n \in DOMAIN file \ DOMAIN cache'.stamp THEN 0 ELSE installs[n]
  BY <1>1, ExcuseCounts
<1>5. TypeOK'
  BY <1>1, <1>2, <1>4 DEF TypeOK
<1> QED
  BY <1>1, <1>2, <1>3, <1>4, <1>5

\* Steps that change only the kernel's rules.
LEMMA RulesType ==
    ASSUME TypeOK, StartErr \/ \E r \in rules : Expire(r)
    PROVE  /\ TypeOK'
           /\ UNCHANGED <<now, high, pc, cur, cache, file, exists, installs>>
           /\ rules' \subseteq rules
<1>1. /\ UNCHANGED <<now, high, pc, cur, cache, file, exists, installs>>
      /\ rules' \subseteq rules
  BY DEF StartErr, Expire, clock, store
<1> QED
  BY <1>1 DEF TypeOK

\* The clock moves.
LEMMA ClockType ==
    ASSUME TypeOK, NEW t \in 0..MaxTime, Clock(t)
    PROVE  /\ TypeOK'
           /\ now' \in Nat /\ high' \in Nat /\ now' <= high' /\ high <= high'
           /\ high' <= now' + MaxStepBack
           /\ UNCHANGED <<pc, cur, cache, file, exists, rules, installs>>
<1> USE DaemonCoreAssumption
<1>1. /\ now' \in Nat /\ high' \in Nat /\ now' <= high' /\ high <= high'
      /\ high' <= now' + MaxStepBack
  BY DEF Clock, TypeOK
<1>2. UNCHANGED <<pc, cur, cache, file, exists, rules, installs>>
  BY DEF Clock, store, kernel
<1>3. TypeOK'
  BY <1>1, <1>2 DEF TypeOK
<1> QED
  BY <1>1, <1>2, <1>3

\* Steps that leave everything alone.
LEMMA StutterType == TypeOK /\ UNCHANGED coreVars => TypeOK'
  BY DEF coreVars, clock, store, kernel, TypeOK

-----------------------------------------------------------------------------
(* Every shared step preserves CoreInv. *)

\* The daemon starts with nothing granted and nothing remembered.
LEMMA InitCore == CoreInit => CoreInv
<1> SUFFICES ASSUME CoreInit PROVE CoreInv
  OBVIOUS
<1>1. cache.stamp = EmptyMap /\ file = EmptyMap
  BY WithCapacityEmpty DEF CoreInit
<1>2. StampsCover(cache.stamp) /\ StampsCover(file) /\ OnDisk /\ InFlight
  BY <1>1, EmptyMapType DEF CoreInit, StampsCover, InFlight, OnDisk, NothingOnlyInRam
<1>3. GrantIsRemembered /\ OneShot
  BY DEF CoreInit, GrantIsRemembered, OneShot
<1> QED
  BY <1>1, <1>2, <1>3, InitType, EmptyMapType, DaemonCoreAssumption DEF CoreInit, CoreInv

\* Steps that leave clock, cache and history alone.
LEMMA StutterCore == CoreInv /\ UNCHANGED coreVars => CoreInv'
  BY DEF coreVars, clock, store, kernel, CoreInv, TypeOK, StampsCover,
         GrantIsRemembered, Expired, InFlight, OnDisk, NothingOnlyInRam, OneShot

\* check_and_insert of a packet whose timestamp was checked: the stamp is at
\* most one backward step older than the clock that checked it.
LEMMA InsertCore ==
    ASSUME CoreInv, NEW p, NEW E, E \subseteq {p.nonce}, Admissible(p, E),
           pc \in {"loop", "replay"}, Insert(p, E)
    PROVE  CoreInv'
<1> USE DaemonCoreAssumption, WindowAssumption
<1>1. p \in Packets /\ p.nonce \in Nonces /\ p.ts \in Int
  BY PacketType DEF Admissible
<1>2. /\ DOMAIN cache'.stamp = (DOMAIN cache.stamp \ Victims(cache)) \cup {p.nonce}
      /\ cache'.stamp[p.nonce] = now
      /\ \A m \in DOMAIN cache.stamp \ Victims(cache) :
            m # p.nonce => cache'.stamp[m] = cache.stamp[m]
  BY PutStamp DEF Insert
<1>3. TypeOK'
  BY <1>1, InsertType DEF CoreInv
<1>4. StampsCover(cache.stamp)'
  <2> SUFFICES ASSUME NEW n \in DOMAIN cache'.stamp, NEW q \in Packets, q.nonce = n
               PROVE  cache'.stamp[n] + MaxSkew + MaxStepBack >= q.ts
    BY DEF StampsCover
  <2>1. CASE n = p.nonce
    <3>1. q.ts = p.ts
      BY <1>1, <2>1, PacketsAssumption
    <3>2. cache'.stamp[n] = now
      BY <1>2, <2>1
    <3>3. p.ts <= high + MaxSkew /\ high <= now + MaxStepBack /\ now \in Nat /\ high \in Nat
      BY DEF CoreInv, TypeOK, Admissible
    <3> QED
      BY <1>1, <3>1, <3>2, <3>3
  <2>2. CASE n # p.nonce
    BY <1>2, <2>2 DEF CoreInv, StampsCover
  <2> QED
    BY <2>1, <2>2
<1>5. \A n \in Nonces : installs'[n] = IF n \in Victims(cache) \cup E THEN 0 ELSE installs[n]
  BY ExcuseCounts DEF Insert, CoreInv
<1>6. installs'[p.nonce] = 0
  BY <1>1, <1>5 DEF Admissible, Insert, Has
<1>7. GrantIsRemembered'
  <2> SUFFICES ASSUME NEW n \in Nonces, installs'[n] > 0, ~Expired(n)'
               PROVE  n \in DOMAIN file' /\ n \in DOMAIN cache'.stamp
    BY DEF GrantIsRemembered
  <2>1. installs[n] > 0 /\ n \notin Victims(cache)
    BY <1>5
  <2>2. ~Expired(n)
    BY DEF Insert, Expired, clock
  <2> QED
    BY <1>2, <2>1, <2>2 DEF CoreInv, GrantIsRemembered, Insert
<1>8. InFlight'
  BY <1>2, <1>6 DEF InFlight, Insert
<1>9. OnDisk'
  BY <1>2 DEF CoreInv, OnDisk, NothingOnlyInRam, Insert
<1>10. OneShot'
  BY <1>5 DEF CoreInv, OneShot
<1> QED
  BY <1>3, <1>4, <1>7, <1>8, <1>9, <1>10 DEF CoreInv, StampsCover, Insert, clock

\* A successful save: the file becomes the map.
LEMMA SaveOkCore ==
    ASSUME CoreInv, SaveOk
    PROVE  CoreInv'
<1>1. TypeOK'
  BY SaveType DEF CoreInv
<1> QED
  BY <1>1 DEF SaveOk, clock, kernel, CoreInv, StampsCover, GrantIsRemembered, Expired,
         InFlight, OnDisk, NothingOnlyInRam, OneShot

\* A failed save: only the nonce in flight, which has no grant, is rolled back.
LEMMA SaveErrCore ==
    ASSUME CoreInv, SaveErr
    PROVE  CoreInv'
<1>1. /\ DOMAIN cache'.stamp = DOMAIN cache.stamp \ {cur.nonce}
      /\ \A m \in DOMAIN cache.stamp \ {cur.nonce} : cache'.stamp[m] = cache.stamp[m]
  BY DEF SaveErr, PopAll, Restrict
<1>2. TypeOK'
  BY SaveType DEF CoreInv
<1>3. GrantIsRemembered'
  <2> SUFFICES ASSUME NEW n \in Nonces, installs'[n] > 0, ~Expired(n)'
               PROVE  n \in DOMAIN file' /\ n \in DOMAIN cache'.stamp
    BY DEF GrantIsRemembered
  <2>1. installs[n] > 0 /\ ~Expired(n)
    BY DEF SaveErr, Expired, clock, kernel
  <2>2. n # cur.nonce
    BY <2>1 DEF CoreInv, InFlight, SaveErr
  <2> QED
    BY <1>1, <2>1, <2>2 DEF CoreInv, GrantIsRemembered, SaveErr
<1> QED
  BY <1>1, <1>2, <1>3 DEF SaveErr, Done, clock, kernel, CoreInv, StampsCover,
         InFlight, OnDisk, NothingOnlyInRam, OneShot

\* open_access: the nonce is in memory and on disk, and had no grant that counts.
LEMMA OpenAccessCore ==
    ASSUME CoreInv, OpenAccess
    PROVE  CoreInv'
<1>1. /\ TypeOK' /\ cur.nonce \in Nonces
      /\ \A n \in Nonces : n # cur.nonce => installs'[n] = installs[n]
      /\ installs[cur.nonce] = 0 => installs'[cur.nonce] = 1
  BY AccessType DEF CoreInv
<1>2. installs'[cur.nonce] = 1
  BY <1>1 DEF OpenAccess, CoreInv, InFlight
<1>3. GrantIsRemembered' /\ OneShot'
  BY <1>1, <1>2 DEF OpenAccess, Done, clock, store, CoreInv, GrantIsRemembered, Expired,
         OneShot, InFlight
<1> QED
  BY <1>1, <1>3 DEF OpenAccess, Done, clock, store, CoreInv, StampsCover,
         InFlight, OnDisk, NothingOnlyInRam

\* No rule: nothing but the program counter changes.
LEMMA NoAccessCore ==
    ASSUME CoreInv, NoAccess
    PROVE  CoreInv'
  BY DEF NoAccess, Done, clock, store, kernel, CoreInv, TypeOK, StampsCover,
         GrantIsRemembered, Expired, InFlight, OnDisk, NothingOnlyInRam, OneShot

\* prune_older_than removes only entries whose packet has expired: this is where
\* the configuration matters.
LEMMA PruneCore ==
    ASSUME ConfigCoversWindow, CoreInv, Prune
    PROVE  CoreInv'
<1> USE DaemonCoreAssumption, WindowAssumption
<1> DEFINE stale == Stale(cache, now, ReplayMaxAge)
<1>1. /\ TypeOK'
      /\ cache'.stamp = [m \in DOMAIN cache.stamp \ stale |-> cache.stamp[m]]
      /\ pc = "loop" /\ pc' = "loop"
      /\ UNCHANGED <<now, high, cur, rules, installs>>
      /\ (file' = cache'.stamp /\ exists' = TRUE) \/ UNCHANGED <<file, exists>>
  BY PruneType DEF CoreInv
<1>2. \A n \in stale : Expired(n)
  <2> SUFFICES ASSUME NEW n \in stale, NEW p \in Packets, p.nonce = n
               PROVE  high - MaxStepBack - MaxQueueDelay - p.ts > MaxSpaPacketAge
    BY DEF Expired
  <2>1. n \in DOMAIN cache.stamp /\ cache.stamp[n] \in Nat /\ cache.stamp[n] < SaturatingSub(now, ReplayMaxAge)
    BY DEF Stale, CoreInv, TypeOK
  <2>2. cache.stamp[n] + MaxSkew + MaxStepBack >= p.ts /\ now \in Nat /\ high \in Nat /\ now <= high
    BY <2>1 DEF CoreInv, StampsCover, TypeOK
  <2>3. cache.stamp[n] + ReplayMaxAge < now
    BY <2>1, <2>2 DEF SaturatingSub
  <2>4. p.ts \in Int
    BY PacketType
  <2> QED
    BY <2>1, <2>2, <2>3, <2>4 DEF ConfigCoversWindow
<1> HIDE DEF stale
<1>3. /\ DOMAIN cache'.stamp = DOMAIN cache.stamp \ stale
      /\ \A m \in DOMAIN cache'.stamp : cache'.stamp[m] = cache.stamp[m]
  BY <1>1
<1>4. GrantIsRemembered'
  <2> SUFFICES ASSUME NEW n \in Nonces, installs'[n] > 0, ~Expired(n)'
               PROVE  n \in DOMAIN file' /\ n \in DOMAIN cache'.stamp
    BY DEF GrantIsRemembered
  <2>1. installs[n] > 0 /\ ~Expired(n)
    BY <1>1 DEF Expired
  <2> QED
    BY <1>1, <1>2, <1>3, <2>1 DEF CoreInv, GrantIsRemembered
<1>5. StampsCover(cache.stamp)' /\ StampsCover(file)'
  BY <1>1, <1>3 DEF CoreInv, StampsCover
<1>6. InFlight' /\ OnDisk'
  BY <1>1, <1>3 DEF CoreInv, InFlight, OnDisk, NothingOnlyInRam
<1> QED
  BY <1>1, <1>4, <1>5, <1>6 DEF CoreInv, OneShot

\* A clean exit or a crash: whether or not a last save works, the file has every
\* grant.
LEMMA EndCore ==
    ASSUME CoreInv, Shutdown \/ Crash
    PROVE  CoreInv'
<1>1. TypeOK' /\ pc' = "down" /\ DOMAIN cache'.stamp = {} /\ UNCHANGED <<now, high, installs>>
  BY EndType DEF CoreInv
<1>2. \/ pc = "loop" /\ file' = cache.stamp /\ exists' = TRUE
      \/ UNCHANGED <<file, exists>>
  BY DEF Shutdown, Crash
<1>3. GrantIsRemembered'
  BY <1>1, <1>2 DEF CoreInv, GrantIsRemembered, Expired
<1>4. StampsCover(cache.stamp)' /\ StampsCover(file)' /\ OnDisk' /\ InFlight'
  BY <1>1, <1>2 DEF CoreInv, StampsCover, OnDisk, NothingOnlyInRam, InFlight
<1> QED
  BY <1>1, <1>2, <1>3, <1>4 DEF CoreInv, OneShot

\* A start knows every grant the file has, or excuses it.
LEMMA StartCore ==
    ASSUME CoreInv, Start
    PROVE  CoreInv'
<1>1. /\ TypeOK'
      /\ DOMAIN cache'.stamp \subseteq DOMAIN file
      /\ \A m \in DOMAIN cache'.stamp : cache'.stamp[m] = file[m]
      /\ pc' = "loop" /\ UNCHANGED <<now, high, file, exists>>
      /\ \A n \in Nonces : installs'[n] =
            IF n \in DOMAIN file \ DOMAIN cache'.stamp THEN 0 ELSE installs[n]
  BY StartType DEF CoreInv
<1>2. GrantIsRemembered' /\ OneShot'
  BY <1>1 DEF CoreInv, GrantIsRemembered, Expired, OneShot
<1>3. StampsCover(cache.stamp)' /\ StampsCover(file)'
  BY <1>1 DEF CoreInv, StampsCover
<1>4. InFlight' /\ OnDisk'
  BY <1>1 DEF InFlight, OnDisk, NothingOnlyInRam
<1> QED
  BY <1>1, <1>2, <1>3, <1>4 DEF CoreInv

\* Steps that change only the kernel's rules.
LEMMA RulesCore ==
    ASSUME CoreInv, StartErr \/ \E r \in rules : Expire(r)
    PROVE  CoreInv'
<1>1. TypeOK' /\ UNCHANGED <<now, high, pc, cur, cache, file, exists, installs>>
  BY RulesType DEF CoreInv
<1> QED
  BY <1>1 DEF CoreInv, StampsCover, GrantIsRemembered, Expired, InFlight,
       OnDisk, NothingOnlyInRam, OneShot

\* The clock moves: what has expired stays expired, because `high` only grows.
LEMMA ClockCore ==
    ASSUME CoreInv, NEW t \in 0..MaxTime, Clock(t)
    PROVE  CoreInv'
<1> USE DaemonCoreAssumption, WindowAssumption
<1>1. /\ TypeOK'
      /\ high' \in Nat /\ high <= high' /\ high' <= now' + MaxStepBack
      /\ UNCHANGED <<pc, cur, cache, file, exists, installs>>
  BY ClockType DEF CoreInv
<1>2. \A n \in Nonces : Expired(n) => Expired(n)'
  <2> SUFFICES ASSUME NEW n \in Nonces, Expired(n), NEW p \in Packets, p.nonce = n
               PROVE  high' - MaxStepBack - MaxQueueDelay - p.ts > MaxSpaPacketAge
    BY DEF Expired
  <2>1. high - MaxStepBack - MaxQueueDelay - p.ts > MaxSpaPacketAge /\ p.ts \in Int /\ high \in Nat
    BY PacketType DEF Expired, CoreInv, TypeOK
  <2> QED
    BY <1>1, <2>1
<1>3. GrantIsRemembered'
  BY <1>1, <1>2 DEF CoreInv, GrantIsRemembered
<1> QED
  BY <1>1, <1>3 DEF CoreInv, StampsCover, InFlight, OnDisk, NothingOnlyInRam, OneShot

-----------------------------------------------------------------------------
(* The policy *)

\* match_packet: the stanza that matches is the first with the key the packet was
\* made with.
LEMMA MatchedStanza ==
    ASSUME NEW p \in Packets, Matched(p)
    PROVE  /\ Stanza(p) \in DOMAIN Access
           /\ Once!Governs(Stanza(p), p)
           /\ p.form = "ok"
<1>1. Stops(p) # {} /\ ParsePacket(p, Stanza(p)) = "ok"
  BY DEF Matched
<1>2. Stops(p) \subseteq DOMAIN Access /\ Stops(p) \subseteq Nat
  BY AccessAssumption DEF Stops
<1>3. Stanza(p) \in Stops(p) /\ \A j \in Stops(p) : Stanza(p) <= j
  <2>1. \E i \in Stops(p) : \A j \in Stops(p) : i <= j
    BY <1>1, <1>2, LeastNumber
  <2> QED
    BY <2>1 DEF Stanza
<1>4. p.form \in {"ok", "badsize", "corrupt"}
  BY PacketsAssumption
<1>5. p.key = Access[Stanza(p)].key /\ p.form = "ok"
  BY <1>1, <1>4 DEF ParsePacket
<1>6. \A j \in DOMAIN Access : Access[j].key = p.key => j \in Stops(p)
  BY <1>5 DEF Stops, ParsePacket
<1>7. Once!Governs(Stanza(p), p)
  BY <1>3, <1>5, <1>6 DEF Once!Governs
<1> QED
  BY <1>2, <1>3, <1>5, <1>7

\* What the checks before open_access let through.
Allowed == {p \in Packets : Matched(p) /\ PolicyAllows(p)}

\* The rule of a packet that matched and that the policy allows is permitted.
LEMMA AllowedIsPermitted ==
    ASSUME NEW p \in Allowed
    PROVE  Once!Permitted(RuleFor(p), p)
<1> DEFINE i == Stanza(p)
           asked == IF Access[i].fwTimeout = Unset THEN DefaultFwTimeout ELSE Access[i].fwTimeout
<1>0. p \in Packets /\ Matched(p) /\ PolicyAllows(p)
  BY DEF Allowed
<1>1. i \in DOMAIN Access /\ Once!Governs(i, p) /\ p.form = "ok"
  BY <1>0, MatchedStanza
<1>2. /\ p.kind = "access"
      /\ Access[i].requireSourceMatch => p.source = p.from
      /\ p.from \in Access[i].sources
      /\ p.ports \subseteq Access[i].openPorts
  BY <1>0 DEF PolicyAllows
<1>3. asked \in Int /\ (Access[i].fwTimeout >= 0 => asked = Access[i].fwTimeout)
  <2>1. Access[i].fwTimeout \in Nat \cup {-1}
    BY <1>1, AccessAssumption DEF Unset
  <2> QED
    BY <2>1, WindowAssumption DEF Unset
<1>4. RuleFor(p) = [source |-> p.source, ports |-> p.ports,
                    timeout |-> ClampTimeout(asked, MaxFwTimeout)]
  BY DEF RuleFor
<1> HIDE DEF i, asked
<1>5. ClampTimeout(asked, MaxFwTimeout) <= MaxFwTimeout /\ ClampTimeout(asked, MaxFwTimeout) <= asked
  BY <1>3, WindowAssumption DEF ClampTimeout
<1>6. /\ RuleFor(p).source = p.source /\ RuleFor(p).ports = p.ports
      /\ RuleFor(p).timeout <= MaxFwTimeout
      /\ Access[i].fwTimeout >= 0 => RuleFor(p).timeout <= Access[i].fwTimeout
  BY <1>3, <1>4, <1>5
<1> QED
  BY <1>1, <1>2, <1>6 DEF Once!Permitted

Used == {n \in Nonces : installs[n] > 0}

\* open_access for a packet the policy allows is a grant.
LEMMA OpenAccessGrants ==
    ASSUME CoreInv, OpenAccess, cur \in Allowed
    PROVE  Once!Grant
<1> DEFINE g == [rule |-> RuleFor(cur), by |-> cur]
<1>1. /\ cur.nonce \in Nonces
      /\ \A n \in Nonces : n # cur.nonce => installs'[n] = installs[n]
      /\ installs[cur.nonce] = 0 /\ installs'[cur.nonce] = 1
  BY AccessType DEF CoreInv, InFlight, OpenAccess
<1>2. Used' = Used \cup {cur.nonce} /\ cur.nonce \notin Used
  BY <1>1 DEF Used
<1>3. rules' = rules \cup {g} /\ g \in rules' /\ g.by = cur /\ g.rule = RuleFor(cur)
  BY DEF OpenAccess
<1>4. cur \in Packets /\ Once!Permitted(RuleFor(cur), cur)
  BY AllowedIsPermitted DEF Allowed
<1> HIDE DEF g
<1> QED
  BY <1>2, <1>3, <1>4 DEF Once!Grant, Used

\* Steps that only take rules away and excuse nonces.
LEMMA LapseStep ==
    ASSUME rules' \subseteq rules, \A n \in Nonces : installs'[n] \in {0, installs[n]}
    PROVE  Once!Lapse
BY DEF Once!Lapse

-----------------------------------------------------------------------------
(* The single-process daemon. *)

\* Between the timestamp check and the replay check nothing prunes: the daemon
\* is a single thread, so what the cache knew at the first it knows at the
\* second, whatever the clock did meanwhile.
SingleInv ==
    /\ CoreInv
    /\ pc = "replay" => Admissible(cur, {})
    /\ pc \in {"replay", "save", "open"} => Matched(cur)

\* A packet that passes the timestamp check has not expired, so the cache knows
\* of every grant it ever had.
LEMMA FreshIsAdmissible ==
    ASSUME CoreInv, pc # "down", NEW p \in Packets, ValidateAgainstClock(p, now)
    PROVE  Admissible(p, {})
<1> USE DaemonCoreAssumption, WindowAssumption
<1>1. p.nonce \in Nonces /\ p.ts \in Int
  BY PacketType
<1>2. now \in Nat /\ high \in Nat /\ now <= high /\ high <= now + MaxStepBack
  BY DEF CoreInv, TypeOK
<1>3. now - p.ts >= -MaxSkew /\ now - p.ts <= MaxSpaPacketAge
  BY DEF ValidateAgainstClock
<1>4. p.ts <= high + MaxSkew
  BY <1>1, <1>2, <1>3
<1>5. ~Expired(p.nonce)
  <2>1. ~(high - MaxStepBack - MaxQueueDelay - p.ts > MaxSpaPacketAge)
    BY <1>1, <1>2, <1>3
  <2> QED
    BY <2>1 DEF Expired
<1>6. installs[p.nonce] = 0 \/ installs[p.nonce] > 0
  <2>1. installs[p.nonce] \in 0..2
    BY <1>1 DEF CoreInv, TypeOK
  <2> QED
    BY <2>1
<1> QED
  BY <1>1, <1>4, <1>5, <1>6 DEF Admissible, CoreInv, GrantIsRemembered

\* The invariant is inductive, and every step is one of the abstract
\* specification's.
LEMMA NextSingleInv ==
    ASSUME ConfigCoversWindow, SingleInv, [SingleNext]_coreVars
    PROVE  SingleInv' /\ (Once!Next \/ UNCHANGED <<rules, Used>>)
<1>1. CoreInv /\ TypeOK
  BY DEF SingleInv, CoreInv
<1>2. CASE \E p \in Packets : Receive(p)
  <2>1. PICK p \in Packets : Receive(p)
    BY <1>2
  <2>2. /\ pc = "loop" /\ pc' = "replay" /\ cur' = p /\ Matched(p)
        /\ UNCHANGED <<now, high, cache, file, exists, rules, installs>>
    BY <2>1 DEF Receive, clock, store, kernel
  <2>3. Admissible(p, {})
    BY <1>1, <2>1, <2>2, FreshIsAdmissible DEF Receive
  <2>4. CoreInv'
    BY <1>1, <2>2 DEF CoreInv, TypeOK, StampsCover, GrantIsRemembered, Expired, InFlight,
         OnDisk, NothingOnlyInRam, OneShot
  <2> QED
    BY <2>2, <2>3, <2>4 DEF SingleInv, Admissible, Used
<1>3. CASE SingleReplay
  <2>1. /\ pc = "replay" /\ pc' = "loop"
        /\ UNCHANGED <<now, high, cache, file, exists, rules, installs>>
    BY <1>3 DEF SingleReplay, Done, clock, store, kernel
  <2> QED
    BY <1>1, <2>1 DEF SingleInv, CoreInv, TypeOK, StampsCover, GrantIsRemembered, Expired, InFlight,
         OnDisk, NothingOnlyInRam, OneShot, Used
<1>4. CASE SingleInsert
  <2>1. /\ pc = "replay" /\ Insert(cur, {}) /\ pc' = "save" /\ cur' = cur /\ rules' = rules
        /\ \A n \in Nonces : installs'[n] \in {0, installs[n]}
    BY <1>1, <1>4, ExcuseCounts DEF SingleInsert, Insert
  <2>2. CoreInv'
    BY <1>1, <2>1, InsertCore DEF SingleInv
  <2>3. Once!Next
    BY <2>1, LapseStep DEF Once!Next
  <2> QED
    BY <2>1, <2>2, <2>3 DEF SingleInv
<1>5. CASE SaveOk
  BY <1>1, <1>5, SaveOkCore DEF SingleInv, SaveOk, kernel, Used
<1>6. CASE SaveErr
  BY <1>1, <1>6, SaveErrCore DEF SingleInv, SaveErr, Done, kernel, Used
<1>7. CASE Install
  <2>1. OpenAccess /\ pc = "open" /\ pc' = "loop" /\ PolicyAllows(cur)
    BY <1>7 DEF Install, OpenAccess, Done
  <2>2. cur \in Allowed
    BY <1>1, <2>1 DEF Allowed, SingleInv, TypeOK
  <2>3. Once!Next
    BY <1>1, <2>1, <2>2, OpenAccessGrants DEF Once!Next
  <2> QED
    BY <1>1, <2>1, <2>3, OpenAccessCore DEF SingleInv
<1>8. CASE NoAccess
  BY <1>1, <1>8, NoAccessCore DEF SingleInv, NoAccess, Done, kernel, Used
<1>9. CASE Prune
  <2>1. pc' = "loop" /\ UNCHANGED <<rules, installs>>
    BY <1>9 DEF Prune, kernel
  <2> QED
    BY <1>1, <1>9, <2>1, PruneCore DEF SingleInv, Used
<1>10. CASE Shutdown \/ Crash
  <2>1. pc' = "down" /\ rules' \subseteq rules /\ installs' = installs
    BY <1>1, <1>10, EndType
  <2>2. Once!Next
    BY <2>1, LapseStep DEF Once!Next
  <2> QED
    BY <1>1, <1>10, <2>1, <2>2, EndCore DEF SingleInv
<1>11. CASE Start
  <2>1. pc' = "loop" /\ rules' \subseteq rules /\ \A n \in Nonces : installs'[n] \in {0, installs[n]}
    BY <1>1, <1>11, StartType
  <2>2. Once!Next
    BY <2>1, LapseStep DEF Once!Next
  <2> QED
    BY <1>1, <1>11, <2>1, <2>2, StartCore DEF SingleInv
<1>12. CASE StartErr \/ \E r \in rules : Expire(r)
  <2>1. UNCHANGED <<now, high, pc, cur, cache, installs>> /\ rules' \subseteq rules
    BY <1>1, <1>12, RulesType
  <2>2. CoreInv'
    BY <1>1, <1>12, RulesCore
  <2>3. Once!Next
    BY <2>1, LapseStep DEF Once!Next
  <2> QED
    BY <2>1, <2>2, <2>3 DEF SingleInv, Admissible
<1>13. CASE \E t \in 0..MaxTime : Clock(t)
  <2>1. PICK t \in 0..MaxTime : Clock(t)
    BY <1>13
  <2>2. CoreInv'
    BY <1>1, <2>1, ClockCore
  <2>3. UNCHANGED <<pc, cur, cache, rules, installs>> /\ high' \in Nat /\ high <= high'
    BY <1>1, <2>1, ClockType
  <2>4. ASSUME pc = "replay" PROVE cur.ts <= high' + MaxSkew
    <3>1. cur \in Packets /\ cur.ts <= high + MaxSkew
      BY <2>4 DEF SingleInv, Admissible
    <3>2. high \in Nat
      BY <1>1 DEF TypeOK
    <3> QED
      BY <2>3, <3>1, <3>2, PacketType, WindowAssumption
  <2> QED
    BY <2>2, <2>3, <2>4 DEF SingleInv, Admissible, Used
<1>14. CASE UNCHANGED coreVars
  <2>1. CoreInv'
    BY <1>1, <1>14, StutterCore
  <2> QED
    BY <1>14, <2>1 DEF SingleInv, Admissible, coreVars, clock, store, kernel, Used
<1> QED
  BY <1>2, <1>3, <1>4, <1>5, <1>6, <1>7, <1>8, <1>9, <1>10, <1>11, <1>12, <1>13, <1>14 DEF SingleNext

\* The invariant holds throughout.
LEMMA SingleInvariant ==
    ASSUME ConfigCoversWindow
    PROVE  SingleSpec => []SingleInv
<1>1. CoreInit => SingleInv
  BY InitCore DEF CoreInit, SingleInv
<1>2. SingleInv /\ [SingleNext]_coreVars => SingleInv'
  BY NextSingleInv
<1> QED
  BY <1>1, <1>2, PTL DEF SingleSpec

\* Type correctness of the single-process daemon, for every configuration: the
\* packet that process_packet works on is one the network holds, and memory and
\* file map nonces to seconds.
THEOREM SingleTypeOK == SingleSpec => []TypeOK
<1>1. ASSUME TypeOK, [SingleNext]_coreVars
      PROVE  TypeOK'
  <2>1. CASE \E p \in Packets : Receive(p)
    BY <1>1, <2>1 DEF Receive, TypeOK, clock, store, kernel
  <2>2. CASE SingleReplay
    BY <1>1, <2>2 DEF SingleReplay, Done, TypeOK, clock, store, kernel
  <2>3. CASE SingleInsert
    <3>1. cur \in Packets /\ Insert(cur, {})
      BY <1>1, <2>3 DEF SingleInsert, TypeOK
    <3> QED
      BY <1>1, <3>1, InsertType
  <2>4. CASE SaveOk \/ SaveErr
    BY <1>1, <2>4, SaveType
  <2>5. CASE Install \/ NoAccess
    BY <1>1, <2>5, AccessType DEF Install
  <2>6. CASE Prune
    BY <1>1, <2>6, PruneType
  <2>7. CASE Shutdown \/ Crash
    BY <1>1, <2>7, EndType
  <2>8. CASE Start
    BY <1>1, <2>8, StartType
  <2>9. CASE StartErr \/ \E r \in rules : Expire(r)
    BY <1>1, <2>9, RulesType
  <2>10. CASE \E t \in 0..MaxTime : Clock(t)
    BY <1>1, <2>10, ClockType
  <2>11. CASE UNCHANGED coreVars
    BY <1>1, <2>11, StutterType
  <2> QED
    BY <1>1, <2>1, <2>2, <2>3, <2>4, <2>5, <2>6, <2>7, <2>8, <2>9, <2>10, <2>11 DEF SingleNext
<1> QED
  BY <1>1, InitType, PTL DEF SingleSpec

\* run and process_packet install at most one rule for a nonce between two
\* evictions of it, whatever is duplicated, delayed, pruned, lost to a failed
\* save, a crash or a restart, and wherever the clock steps.
THEOREM SingleOneShot ==
    ASSUME ConfigCoversWindow
    PROVE  SingleSpec => []OneShot
<1>1. SingleInv => OneShot
  BY DEF SingleInv, CoreInv
<1> QED
  BY <1>1, SingleInvariant, PTL

\* C2: a nonce that opened the firewall stays on disk and in memory until it is
\* evicted or can no longer be accepted.
THEOREM SingleGrantIsRemembered ==
    ASSUME ConfigCoversWindow
    PROVE  SingleSpec => []GrantIsRemembered
<1>1. SingleInv => GrantIsRemembered
  BY DEF SingleInv, CoreInv
<1> QED
  BY <1>1, SingleInvariant, PTL

\* Outside check_and_insert no nonce is in memory only.
THEOREM SingleNothingOnlyInRam ==
    ASSUME ConfigCoversWindow
    PROVE  SingleSpec => []NothingOnlyInRam
<1>1. SingleInv => NothingOnlyInRam
  BY DEF SingleInv, CoreInv, OnDisk
<1> QED
  BY <1>1, SingleInvariant, PTL

\* process_packet implements OnceOnly: through failed flushes, crashes and
\* restarts, a rule appears only in a step that grants it to a datagram the policy
\* permits and whose nonce is unused.
THEOREM SingleImplementsOnceOnly ==
    ASSUME ConfigCoversWindow
    PROVE  SingleSpec => ImplementsOnceOnly
<1>1. CoreInit => Once!Init
  BY DEF CoreInit, Once!Init
<1>2. SingleInv /\ [SingleNext]_coreVars => [Once!Next]_<<rules, Used>>
  BY NextSingleInv
<1> QED
  BY <1>1, <1>2, SingleInvariant, PTL DEF SingleSpec, ImplementsOnceOnly, Once!Spec, Once!vars, Used

-----------------------------------------------------------------------------
(* The daemon with privilege separation.  Here the timestamp check and the *)
(* replay check are in different processes, and the parent may prune while *)
(* a validated request waits, so the time a request may wait is part of    *)
(* what the configuration has to cover.                                    *)

\* A request in the queue is for a packet the policy allows, and was in its
\* window when it was validated.
Valid(r) ==
    /\ r.pkt \in Allowed
    /\ r.pkt.ts <= high + MaxSkew
    /\ r.at <= r.pkt.ts + MaxSpaPacketAge + MaxStepBack

Requests == [pkt : Packets, at : Nat]

QueueInv ==
    /\ queue \in Seq(Requests)
    /\ \A i \in 1..Len(queue) : Valid(queue[i])

PrivsepInv ==
    /\ CoreInv
    /\ pc # "replay"
    /\ pc \in {"save", "open"} => cur \in Allowed
    /\ QueueInv

Excused(r) == IF Overdue(r) THEN {r.pkt.nonce} ELSE {}

\* A request that is not overdue has not expired, so the cache knows of every
\* grant its packet ever had; one that is overdue is excused.
LEMMA ValidIsAdmissible ==
    ASSUME CoreInv, pc # "down", NEW r \in Requests, Valid(r)
    PROVE  Admissible(r.pkt, Excused(r))
<1> USE DaemonCoreAssumption, WindowAssumption
<1>1. r.pkt \in Packets /\ r.at \in Nat /\ r.pkt.nonce \in Nonces /\ r.pkt.ts \in Int
  BY PacketType DEF Requests
<1>2. high \in Nat
  BY DEF CoreInv, TypeOK
<1>3. CASE Overdue(r)
  BY <1>1, <1>3 DEF Valid, Admissible, Excused
<1>4. CASE ~Overdue(r)
  <2>1. ~(high - MaxStepBack - MaxQueueDelay - r.pkt.ts > MaxSpaPacketAge)
    BY <1>1, <1>2, <1>4 DEF Valid, Overdue
  <2>2. ~Expired(r.pkt.nonce)
    BY <1>1, <2>1 DEF Expired
  <2>3. installs[r.pkt.nonce] \in 0..2
    BY <1>1 DEF CoreInv, TypeOK
  <2>4. installs[r.pkt.nonce] = 0 \/ installs[r.pkt.nonce] > 0
    BY <2>3
  <2> QED
    BY <1>1, <2>2, <2>4 DEF Valid, Admissible, CoreInv, GrantIsRemembered
<1> QED
  BY <1>3, <1>4

\* Taking a request leaves the others as they were.
LEMMA TailQueue ==
    ASSUME QueueInv, queue # <<>>, queue' = Tail(queue), UNCHANGED high
    PROVE  /\ QueueInv'
           /\ Head(queue) \in Requests /\ Valid(Head(queue))
<1>1. Head(queue) = queue[1] /\ 1 \in 1..Len(queue) /\ Head(queue) \in Requests
  BY DEF QueueInv
<1>2. queue' \in Seq(Requests) /\ Len(queue') = Len(queue) - 1
  BY DEF QueueInv
<1>3. \A i \in 1..Len(queue') : queue'[i] = queue[i + 1] /\ i + 1 \in 1..Len(queue)
  BY <1>2 DEF QueueInv
<1>4. ASSUME NEW i \in 1..Len(queue') PROVE Valid(queue[i])'
  BY <1>3 DEF QueueInv, Valid
<1>5. QueueInv'
  BY <1>2, <1>4 DEF QueueInv
<1> QED
  BY <1>1, <1>5 DEF QueueInv

\* Steps that leave the queue and the highest clock value alone.
LEMMA SameQueue ==
    ASSUME QueueInv, UNCHANGED <<queue, high>>
    PROVE  QueueInv'
  BY DEF QueueInv, Valid

\* The invariant is inductive, and every step is one of the abstract
\* specification's.
LEMMA NextPrivsepInv ==
    ASSUME ConfigCoversWindow, PrivsepInv, [PrivsepNext]_privsepVars
    PROVE  PrivsepInv' /\ (Once!Next \/ UNCHANGED <<rules, Used>>)
<1> USE DaemonCoreAssumption, WindowAssumption
<1>1. CoreInv /\ QueueInv /\ pc # "replay" /\ TypeOK
  BY DEF PrivsepInv, CoreInv
<1>2. now \in Nat /\ high \in Nat /\ now <= high /\ high <= now + MaxStepBack
  BY <1>1 DEF CoreInv, TypeOK
<1>3. CASE \E p \in Packets : Validate(p)
  <2>1. PICK p \in Packets : Validate(p)
    BY <1>3
  <2>2. CoreInv' /\ UNCHANGED <<pc, cur, high, rules, installs>>
    BY <1>1, <2>1, StutterCore DEF Validate, coreVars, clock, kernel
  <2> DEFINE r == [pkt |-> p, at |-> high]
  <2>3. r \in Requests /\ queue' = Append(queue, r)
    BY <1>2, <2>1 DEF Validate, Requests
  <2>4. Valid(r)
    <3>1. now - p.ts >= -MaxSkew /\ now - p.ts <= MaxSpaPacketAge /\ p.ts \in Int
      BY <2>1, PacketType DEF Validate, ValidateAgainstClock
    <3>2. p \in Allowed
      BY <2>1 DEF Validate, Allowed
    <3> QED
      BY <1>2, <3>1, <3>2 DEF Valid
  <2> HIDE DEF r
  <2>5. queue' \in Seq(Requests) /\ Len(queue') = Len(queue) + 1
    BY <1>1, <2>3 DEF QueueInv
  <2>6. \A i \in 1..Len(queue') : Valid(queue'[i])
    BY <1>1, <2>3, <2>4, <2>5 DEF QueueInv
  <2>7. QueueInv'
    BY <2>2, <2>5, <2>6 DEF QueueInv, Valid
  <2> QED
    BY <1>1, <2>2, <2>7 DEF PrivsepInv, Used
<1>4. CASE Replay
  <2>1. CoreInv' /\ UNCHANGED <<pc, cur, high, rules, installs>>
    BY <1>1, <1>4, StutterCore DEF Replay, coreVars, clock, kernel
  <2>2. QueueInv'
    BY <1>1, <1>4, <2>1, TailQueue DEF Replay
  <2> QED
    BY <1>1, <2>1, <2>2 DEF PrivsepInv, Used
<1>5. CASE CheckAndInsert
  <2> DEFINE r == Head(queue)
  <2>1. pc = "loop" /\ queue # <<>> /\ queue' = Tail(queue) /\ Insert(r.pkt, Excused(r))
    BY <1>5 DEF CheckAndInsert, Excused
  <2>2. /\ UNCHANGED <<high, rules>> /\ pc' = "save" /\ cur' = r.pkt
        /\ \A n \in Nonces : installs'[n] \in {0, installs[n]}
    BY <1>1, <2>1, ExcuseCounts DEF Insert, clock
  <2>3. QueueInv' /\ r \in Requests /\ Valid(r)
    BY <1>1, <2>1, <2>2, TailQueue
  <2> HIDE DEF r
  <2>4. Admissible(r.pkt, Excused(r)) /\ Excused(r) \subseteq {r.pkt.nonce}
    BY <1>1, <2>1, <2>3, ValidIsAdmissible DEF Excused
  <2>5. CoreInv'
    BY <1>1, <2>1, <2>4, InsertCore
  <2>6. Once!Next
    BY <2>2, LapseStep DEF Once!Next
  <2> QED
    BY <2>2, <2>3, <2>5, <2>6 DEF PrivsepInv, Valid
<1>6. CASE ParentStep
  <2>1. CoreInv'
    BY <1>1, <1>6, SaveOkCore, SaveErrCore, OpenAccessCore, NoAccessCore, PruneCore DEF ParentStep
  <2>2. UNCHANGED <<queue, high>> /\ (pc' = "loop" \/ (pc = "save" /\ pc' = "open" /\ cur' = cur))
    BY <1>1, <1>6 DEF ParentStep, SaveOk, SaveErr, OpenAccess, NoAccess, Prune, Done, clock
  <2>3. Once!Next \/ UNCHANGED <<rules, Used>>
    <3>1. CASE OpenAccess
      BY <1>1, <3>1, OpenAccessGrants DEF PrivsepInv, OpenAccess, Once!Next
    <3>2. CASE ~OpenAccess
      BY <1>6, <3>2 DEF ParentStep, SaveOk, SaveErr, NoAccess, Prune, kernel, Used
    <3> QED
      BY <3>1, <3>2
  <2> QED
    BY <1>1, <2>1, <2>2, <2>3, SameQueue DEF PrivsepInv
<1>7. CASE Stop
  <2>1. CoreInv' /\ pc' = "down" /\ queue' = <<>> /\ rules' \subseteq rules /\ installs' = installs
    BY <1>1, <1>7, EndCore, EndType DEF Stop
  <2>2. Once!Next
    BY <2>1, LapseStep DEF Once!Next
  <2> QED
    BY <2>1, <2>2 DEF PrivsepInv, QueueInv
<1>8. CASE Boot \/ \E r \in rules : Expire(r) /\ UNCHANGED queue
  <2>1. CoreInv'
    BY <1>1, <1>8, StartCore, RulesCore DEF Boot
  <2>2. /\ UNCHANGED <<queue, high>> /\ rules' \subseteq rules
        /\ pc' = "loop" \/ UNCHANGED <<pc, cur>>
        /\ \A n \in Nonces : installs'[n] \in {0, installs[n]}
    BY <1>1, <1>8, StartType, RulesType DEF Boot
  <2>3. Once!Next
    BY <2>2, LapseStep DEF Once!Next
  <2> QED
    BY <1>1, <2>1, <2>2, <2>3, SameQueue DEF PrivsepInv
<1>9. CASE \E t \in 0..MaxTime : Clock(t) /\ UNCHANGED queue
  <2>1. PICK t \in 0..MaxTime : Clock(t) /\ UNCHANGED queue
    BY <1>9
  <2>2. CoreInv' /\ UNCHANGED <<pc, cur, queue, rules, installs>> /\ high' \in Nat /\ high <= high'
    BY <1>1, <2>1, ClockCore, ClockType
  <2>3. ASSUME NEW i \in 1..Len(queue) PROVE Valid(queue[i])'
    <3>1. queue[i] \in Requests /\ Valid(queue[i])
      BY <1>1 DEF QueueInv
    <3>2. queue[i].pkt.ts \in Int
      BY <3>1, PacketType DEF Requests
    <3> QED
      BY <1>2, <2>2, <3>1, <3>2 DEF Valid
  <2> QED
    BY <1>1, <2>2, <2>3 DEF PrivsepInv, QueueInv, Used
<1>10. CASE UNCHANGED privsepVars
  <2>1. CoreInv' /\ UNCHANGED <<pc, cur, queue, high, rules, installs>>
    BY <1>1, <1>10, StutterCore DEF privsepVars, coreVars, clock, kernel
  <2> QED
    BY <1>1, <2>1, SameQueue DEF PrivsepInv, Used
<1> QED
  BY <1>3, <1>4, <1>5, <1>6, <1>7, <1>8, <1>9, <1>10 DEF PrivsepNext

\* The invariant holds throughout.
LEMMA PrivsepInvariant ==
    ASSUME ConfigCoversWindow
    PROVE  PrivsepSpec => []PrivsepInv
<1>1. PrivsepInit => PrivsepInv
  BY InitCore DEF PrivsepInit, CoreInit, PrivsepInv, QueueInv
<1>2. PrivsepInv /\ [PrivsepNext]_privsepVars => PrivsepInv'
  BY NextPrivsepInv
<1> QED
  BY <1>1, <1>2, PTL DEF PrivsepSpec

\* validate_capture_msg, the socket and handle_crypto_msg together install at
\* most one rule for a nonce between two evictions of it, unless a request for it
\* is overdue when the parent takes it.
THEOREM PrivsepOneShot ==
    ASSUME ConfigCoversWindow
    PROVE  PrivsepSpec => []OneShot
<1>1. PrivsepInv => OneShot
  BY DEF PrivsepInv, CoreInv
<1> QED
  BY <1>1, PrivsepInvariant, PTL

\* C2 in the parent: a nonce that opened the firewall stays on disk and in
\* memory until it is excused or can no longer be accepted.
THEOREM PrivsepGrantIsRemembered ==
    ASSUME ConfigCoversWindow
    PROVE  PrivsepSpec => []GrantIsRemembered
<1>1. PrivsepInv => GrantIsRemembered
  BY DEF PrivsepInv, CoreInv
<1> QED
  BY <1>1, PrivsepInvariant, PTL

\* The three processes together implement OnceOnly.  handle_crypto_msg opens what
\* the crypto worker asks for without a look at the policy, and yet a rule appears
\* only in a step that grants it to a datagram the policy permits.
THEOREM PrivsepImplementsOnceOnly ==
    ASSUME ConfigCoversWindow
    PROVE  PrivsepSpec => ImplementsOnceOnly
<1>1. PrivsepInit => Once!Init
  BY DEF PrivsepInit, CoreInit, Once!Init
<1>2. PrivsepInv /\ [PrivsepNext]_privsepVars => [Once!Next]_<<rules, Used>>
  BY NextPrivsepInv
<1> QED
  BY <1>1, <1>2, PrivsepInvariant, PTL DEF PrivsepSpec, ImplementsOnceOnly, Once!Spec, Once!vars, Used

-----------------------------------------------------------------------------
(* What holds of the privilege-separated daemon in every configuration. *)

AllowedRequests == [pkt : Allowed, at : Nat]

\* Types, and what is behind the crypto worker came through it: the requests in
\* the socket and the packet in the parent.
WorkerInv ==
    /\ TypeOK
    /\ pc # "replay"
    /\ queue \in Seq(AllowedRequests)

\* Every step preserves it, and spends only nonces of packets the policy allows.
LEMMA NextWorkerInv ==
    ASSUME WorkerInv, [PrivsepNext]_privsepVars
    PROVE  WorkerInv' /\ (SpendsAllowed \/ UNCHANGED privsepVars)
<1>0. TypeOK /\ pc # "replay" /\ queue \in Seq(AllowedRequests) /\ high \in Nat
  BY DEF WorkerInv, TypeOK
<1>1. CASE \E p \in Packets : Validate(p)
  <2>1. PICK p \in Packets : Validate(p)
    BY <1>1
  <2>2. p \in Allowed /\ queue' = Append(queue, [pkt |-> p, at |-> high])
    BY <2>1 DEF Validate, Allowed
  <2>3. [pkt |-> p, at |-> high] \in AllowedRequests
    BY <1>0, <2>2 DEF AllowedRequests
  <2>4. queue' \in Seq(AllowedRequests)
    BY <1>0, <2>2, <2>3
  <2>5. TypeOK' /\ UNCHANGED <<pc, cache>>
    BY <1>0, <2>1, StutterType DEF Validate, coreVars, store
  <2> QED
    BY <1>0, <2>4, <2>5 DEF WorkerInv, SpendsAllowed
<1>2. CASE Replay
  <2>1. queue' = Tail(queue) /\ queue # <<>> /\ TypeOK' /\ UNCHANGED <<pc, cache>>
    BY <1>0, <1>2, StutterType DEF Replay, coreVars, store
  <2>2. queue' \in Seq(AllowedRequests)
    BY <1>0, <2>1
  <2> QED
    BY <1>0, <2>1, <2>2 DEF WorkerInv, SpendsAllowed
<1>3. CASE CheckAndInsert
  <2> DEFINE r == Head(queue)
  <2>1. queue # <<>> /\ queue' = Tail(queue) /\ Insert(r.pkt, Excused(r))
    BY <1>3 DEF CheckAndInsert, Excused
  <2>2. queue' \in Seq(AllowedRequests) /\ r \in AllowedRequests
    BY <1>0, <2>1
  <2> HIDE DEF r
  <2>3. r.pkt \in Packets /\ Matched(r.pkt) /\ PolicyAllows(r.pkt)
    BY <2>2 DEF AllowedRequests, Allowed
  <2>4. TypeOK' /\ pc' = "save" /\ cur' = r.pkt
    BY <1>0, <2>1, <2>3, InsertType DEF Insert
  <2>5. DOMAIN cache'.stamp \subseteq DOMAIN cache.stamp \cup {r.pkt.nonce}
    BY <2>1, PutStamp DEF Insert
  <2> QED
    BY <2>2, <2>3, <2>4, <2>5 DEF WorkerInv, SpendsAllowed
<1>4. CASE ParentStep
  <2>1. UNCHANGED queue /\ pc' # "replay"
    BY <1>0, <1>4 DEF ParentStep, SaveOk, SaveErr, OpenAccess, NoAccess, Prune, Done
  <2>2. TypeOK'
    BY <1>0, <1>4, SaveType, AccessType, PruneType DEF ParentStep
  <2>3. cache' = cache \/ \E gone : cache' = PopAll(cache, gone)
    BY <1>4 DEF ParentStep, SaveOk, SaveErr, OpenAccess, NoAccess, Prune, store
  <2>4. ASSUME NEW gone PROVE DOMAIN PopAll(cache, gone).stamp \subseteq DOMAIN cache.stamp
    BY DEF PopAll, Restrict
  <2>5. DOMAIN cache'.stamp \subseteq DOMAIN cache.stamp
    BY <2>3, <2>4
  <2> QED
    BY <1>0, <2>1, <2>2, <2>5 DEF WorkerInv, SpendsAllowed
<1>5. CASE Stop
  <2>1. TypeOK' /\ pc' = "down" /\ DOMAIN cache'.stamp = {} /\ queue' = <<>>
    BY <1>0, <1>5, EndType DEF Stop
  <2> QED
    BY <2>1 DEF WorkerInv, SpendsAllowed
<1>6. CASE Boot
  <2>1. TypeOK' /\ UNCHANGED queue /\ pc' \in {"down", "loop"}
    BY <1>0, <1>6, StartType, RulesType DEF Boot, StartErr
  <2>2. pc = "down"
    BY <1>6 DEF Boot, Start, StartErr
  <2> QED
    BY <1>0, <2>1, <2>2 DEF WorkerInv, SpendsAllowed
<1>7. CASE \/ \E r \in rules : Expire(r) /\ UNCHANGED queue
           \/ \E t \in 0..MaxTime : Clock(t) /\ UNCHANGED queue
  <2>1. TypeOK' /\ UNCHANGED <<pc, cache, queue>>
    BY <1>0, <1>7, RulesType, ClockType
  <2> QED
    BY <1>0, <2>1 DEF WorkerInv, SpendsAllowed
<1>8. CASE UNCHANGED privsepVars
  <2>1. TypeOK' /\ UNCHANGED <<pc, queue>>
    BY <1>0, <1>8, StutterType DEF privsepVars, coreVars
  <2> QED
    BY <1>0, <1>8, <2>1 DEF WorkerInv
<1> QED
  BY <1>1, <1>2, <1>3, <1>4, <1>5, <1>6, <1>7, <1>8 DEF PrivsepNext

\* So the invariant holds of every behaviour.
LEMMA WorkerInvariant == PrivsepSpec => []WorkerInv
<1>1. PrivsepInit => WorkerInv
  BY InitType DEF PrivsepInit, CoreInit, WorkerInv
<1>2. WorkerInv /\ [PrivsepNext]_privsepVars => WorkerInv'
  BY NextWorkerInv
<1> QED
  BY <1>1, <1>2, PTL DEF PrivsepSpec

\* Type correctness of the privilege-separated daemon, for every configuration.
THEOREM PrivsepTypeOK == PrivsepSpec => []TypeOK
<1>1. WorkerInv => TypeOK
  BY DEF WorkerInv
<1> QED
  BY <1>1, WorkerInvariant, PTL

\* In every configuration, handle_crypto_msg spends a nonce only on a datagram
\* that the policy allows: a copy that validate_capture_msg turns away spends
\* nothing.
THEOREM PrivsepOnlyAllowedSpend == PrivsepSpec => OnlyAllowedSpend
<1>1. WorkerInv /\ [PrivsepNext]_privsepVars => [SpendsAllowed]_privsepVars
  BY NextWorkerInv
<1> QED
  BY <1>1, WorkerInvariant, PTL DEF PrivsepSpec, OnlyAllowedSpend
=============================================================================
