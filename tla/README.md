# fwknox in TLA+

A model of `fwknoxd`, the daemon that opens a firewall for the sender of one
authenticated UDP datagram (single packet authorization, SPA), and of `fwknox`,
the client that sends it. The modules are
translated from the Rust source under `src/`; comments name the function each
action stands for, and the `map` of `PROJECT.json` names its lines.

## 1. The system and its parts

A datagram takes this path:

    client -> network -> capture -> rate limiter -> stanza match (HMAC, decrypt)
            -> timestamp -> replay cache -> policy -> firewall rule (kernel)

`fwknoxd` runs it in one of two forms. With privilege separation off, one
process does everything, one datagram at a time (`run.rs`, `pipeline.rs`). With
it on, there are three (`privsep_run.rs`, `workers.rs`): the capture worker
reads and rate-limits, the crypto worker matches, checks the timestamp and the
policy, and the parent does the replay check and the firewall. They are joined
by two datagram socket pairs with bounded queues. In this form the policy comes
*before* the replay check, in the other *after* it. Before any of that the daemon
reads its configuration, binds its socket and puts itself into a sandbox
(`bin/fwknoxd.rs`, `fwknox-sandbox`).

| Part | Source (`src/crates/`) | Modules | State |
|---|---|---|---|
| Replay cache and its file | `fwknox-replay` | `LruOrder`, `ReplayStore`, `ReplayCache` | modelled |
| Decisions about a datagram | `fwknox-daemon/src/{matcher,pipeline,validate}.rs`, `fwknox-proto/src/validate.rs` | `Pipeline` | modelled |
| Single-process daemon | `fwknox-daemon/src/run.rs`, `bin/fwknoxd.rs` | `DaemonCore`, `SingleDaemon` | modelled |
| Privilege-separated data path | `fwknox-daemon/src/{privsep_run,validate}.rs` | `DaemonCore`, `PrivsepDaemon` | modelled |
| Process supervision | `privsep_run.rs`, `shutdown.rs`, `fwknox-privsep` | `Supervisor` | partly |
| Start-up and sandbox | `bin/fwknoxd.rs`, `bin/fwknoxd-mock.rs`, `fwknox-sandbox` | `Startup` | modelled; of the notifications, READY only |
| Configuration and its validation | `fwknox-config` | `Config`, `Client` | modelled |
| Client | `fwknox-client` | `Client` | modelled |
| Capture | `fwknox-capture`, `fwknox-privsep/src/workers.rs` | `Knock` | modelled |
| Rate limiter | `fwknox-ratelimit` | `LruOrder`, `TokenBucket`, `RateLimiter` | modelled |
| One-shot promise | README of the repository, line 48 | `OnceOnly` (abstract) | modelled |
| Wire format and cryptography | `fwknox-proto` | `Wire`; by outcome in `Pipeline` | modelled, with ideal cryptography |
| Firewall backend (nftables) | `fwknox-firewall` | `Firewall`; its rules alone in `DaemonCore` | modelled |
| Source keys (IPv6 masking) | `fwknox-ratelimit/src/key.rs` | `SourceKey` | modelled |

## 2. The modules

**LruOrder** is the recency order of an `LruCache` (crate `lru`), which the replay
cache and the rate limiter keep their keys in: a sequence, least recently used
first. `Detach` takes keys out of it, `Touch` moves one to its end.

**ReplayStore** holds the data of the replay cache as pure operators: a cache is
a record of the map from nonces to seconds, the recency order and the capacity;
a file is a map. `Put`, `PopAll`, `Stale` and `LoadFromFile` are what
`LruCache::put`, `pop`, the filter of `prune_older_than` and `load_from_file`
compute. A reload reads the file into a `HashMap`, so `LoadFromFile` is the set
of all orders that may come out. The text format is a bijection and is left out.

**ReplayCache** is the type by itself, called by any number of threads. Each
critical section is an action, and so are the snapshot and the write, which
happen outside the lock, and the rollback after a failed write. The wall clock
may be stepped to any value between any two of them. `live` is a history
variable: the nonces reported fresh and not forgotten since.

**Pipeline** has the decisions: `ParsePacket` by outcome, `Matched` (the first
stanza whose HMAC verifies decides), `ValidateAgainstClock`, `PolicyAllows`,
`ClampTimeout`, `RuleFor`. Cryptography is ideal: a packet verifies under the
key it was built with and no other.

**DaemonCore** has the state both daemons share (clock, program counter, cache,
file, kernel rules) and the steps from the insert on: `Insert`, `SaveOk`,
`SaveErr`, `OpenAccess`, `NoAccess`, `Prune`, `Shutdown`, `Crash`, `Start`,
`StartErr`, and the environment's `Expire` and `Clock`. A crash may come between
any two. `installs` is a history variable: how many rules a nonce has installed
since it was last *excused* (`Excuse`), which it is when a full cache evicts it,
when a reload has no room for it, or when its request comes to the replay check
so late that the clock has moved by more than `MaxQueueDelay` since it was
validated. `rules` keeps with each rule the datagram it was installed for.

**SingleDaemon** adds `Receive`, `SingleReplay`, `SingleInsert`, `Install` in the
order of `process_packet`. **PrivsepDaemon** adds the crypto worker's `Validate`
and the socket `queue` to the parent, which replays and installs. How long a
request waits there is not bounded. The rate
limiter is not composed in: it only drops datagrams, and in these models any
datagram may fail to arrive.

**OnceOnly** is the abstract specification: a rule is opened for a datagram that
the access policy permits and whose nonce is unused, and in no other way. It says
what is permitted by quantifiers over stanzas (`Governs`, `Permitted`) and uses
none of `Pipeline`'s operators. Both daemons implement it (`ImplementsOnceOnly`,
with the rules for `open` and the nonces with `installs` above zero for `used`):
they make the checks in different orders and, in one of them, in different
processes, and the only nonces they forget before their packets expire are those
that are excused.

**Supervisor** models the lives of the three processes: forks, the closing of
socket ends, the moments at which handlers come into force (that of SIGCHLD may
fail to, `chld`), the workers' loops, the two bounded sockets, SIGCHLD of workers
and of nft children (`SpawnsNft`), reaping, a start that fails, shutdown, and the
death of any process at any point. Messages are counted only. `cause` and `nft`
are history: why a worker ended, and whether an nft process did.

**TokenBucket** is `bucket.rs` in integers: with time in ticks of 1/`Unit`
second and tokens in units of 1/`Unit`, the `f64` arithmetic is exact. `since`,
`passed` and `fills` are history: a window, what the bucket let through in it, and
how often it was full because it was new or reset.
**RateLimiter** is `RateLimiter::check`, one action for each outcome of the two
tiers, since it holds the mutex throughout. `Observe` opens a window at any
moment, so that `RateBound` speaks of all windows. `CheckAfterPoison` is the
recovery of a poisoned lock, which a library user can reach; in `fwknoxd` a
panic ends the process first. It refills the global bucket (`Reprime`) in the
middle of the windows that are open.

**Firewall** is `nftables.rs` with the kernel it drives: `InitBackend`,
`OpenAccess`, `RemoveRule`, `Flush`, a `Restart` without a flush, and `Tick`, at
which the kernel drops expired elements. A batch is applied as a whole or not at
all. Time is finer than a second, since a timeout is cut to whole seconds, and to
`MaxSecs`, which stands for the largest `u32` (`TimeoutSecs`); one of zero is none
(`Expiry`). What the kernel does with an element that is added twice depends on
its version, so both are allowed. `owed` and `brief` are history: until when each
element may be open, and which were granted for less than a second. The daemon
never calls `remove_rule`; it is modelled as part of the backend's interface.

**Config** says which `fwknoxd.toml` files `load_daemon_config` accepts, and the
values a file gets that leaves something out. A file is a record with the
sections of the source. TOML syntax, base64 and the text of durations are
booleans or numbers; every length limit and every test of `validate` is there.

**Startup** is `real_main` of both binaries, step by step: load, backend, bind,
replay cache, sandbox, limiter, firewall, forks, handlers, READY. The sandbox is
at the grain of one capability (`drop_all_except` meets them in the order of a
`HashSet`) and of one system call (`setgroups`, `setgid`, `setuid`), with the five
capability sets of Linux. The kernel's rules for them (`MaySetGroups`,
`AfterSetUid`, `AfterExec` ...) are external. Each worker then goes through its
handlers, panic hook, Landlock and seccomp to its loop; `Calls` kills a worker
that makes a call outside its filter, and `LoopSyscalls` differs between the two
(`recvfrom` in one, `recvmsg` in the other). A step that fails ends the start,
and `why` says in which call; one step may have several that can fail.

**Wire** is the packet: `BuildPacket`, and `ParseError`, which has the tests of
`parse_packet` in their order. A ciphertext or an HMAC is a record of what went
into it. `InWindow` is `validate_against_clock` in wrapping arithmetic of width
`2 * Half`. **Client** is what a command line, a `fwknox.toml` and `$USER` make
the client put into a packet, or why it sends none.

**Knock** composes `Client`, `Wire` and `Config` with the capture: a client
sends, other programs send packets of any form, the network loses, repeats,
delays and damages them and puts bytes behind them (`tail`), the daemon receives
(with its cached read timeout, in either mode), matches and decides. It also has an instance of `Pipeline`, the view that
`DaemonCore`, `SingleDaemon` and `PrivsepDaemon` have of a packet: `PipelineAgrees`
says that this view loses nothing.

**SourceKey** is `key.rs` on octets, with a definition on bits to compare it to.
It has no state; `RateLimiter` states the comparison, `KeysFollowThePrefix`.

The `MC*` modules give the constants values for TLC; the `*Proofs` modules hold
the theorems (`DaemonProofs` those of both daemons, `OrderProofs` the facts about
recency orders and sums that others use). Operators introduced as "Mutant of X"
are plausible bugs in X. They are part of no specification; putting one in place
of X breaks the property that `PROJECT.json` lists with it.

## 3. The runs

Runs that pass:

| Run | Question | Bounds, and why they are enough |
|---|---|---|
| `replay_single` | Is a nonce reported fresh on disk, and refused, until it is evicted, pruned or dropped? (`DurableBeforeReturn`, `Remembered`) | four nonces, capacity 3, 2 after a reload: eviction at insert, and loss at reload; a clock that is stepped either way; `MaxAge` 1 of its seconds: pruning between any two steps |
| `single` | Does the daemon implement `OnceOnly`; is a grant remembered as long as it must be (`GrantIsRemembered`) and granted once (`OneShot`); is nothing in memory only (`NothingOnlyInRam`)? | eight datagrams that take every branch, each in any number of copies: two of one packet from two addresses, twice, an allowed address that is not the rule's, a forbidden port, a corrupt and a wrongly sized packet, another message variant; capacity 1, 2 after a reload, so that inserts evict; the tightest `replay.max_age` that `ConfigCoversWindow` allows; clock steps back of one second; five seconds, so that a nonce is inserted, pruned and expires |
| `privsep` | The same but for `NothingOnlyInRam`, and is a nonce spent only on an allowed copy (`OnlyAllowedSpend`)? | the same datagrams; capacity 1, 2 after a reload; a socket for two requests, where one may wait for ever, and is excused after a second; six seconds |
| `supervisor` | Does every end of a process have a root cause (`EndsHaveARoot`)? Does the parent notice every worker's end (`WorkerEndStopsParent`) and leave no process behind, when it exits (`ExitLeavesNoWorker`) and when it fails to start (`FailedStartEndsWorkers`)? Does a sender notice a dead receiver (`SendersNoticeTheDead`)? Is there only one way for a shutdown to hang (`ShutdownEndsOrWedges`)? | sockets of two datagrams: empty, partly full and full; nft children |
| `rate_limiter` | Does any window exceed the rate by more than a burst for each reset? Are the maps bounded and disjoint, promotions paid for, and candidates safe from a flood? Are two addresses one source exactly if they share the prefix? | three sources, places for two in each tier, threshold 2, half-second ticks: both tiers full, expiry, eviction, promotion; seven calls. `KeysFollowThePrefix`, about `SourceKey`, is asked of the initial state only, as a key depends on no other: all 128 prefix lengths, and pairs of addresses that differ in two bits around the end of the prefix and anywhere else |
| `firewall` | Is a port closed when its longest grant ends (`ClosesInTime`), and is a backend that takes itself for initialized ready (`ReadyWhenInitialized`)? | two rules that share a port, one of them longer than `MaxSecs`; two for another source with a fraction of a second, one of them with nothing else; one for IPv6; half-second ticks, eight of them: elements expire and are granted again; two copies of the lookup rule |
| `startup` | Does a daemon that comes up have the sandbox it was asked for (`SandboxHolds`, `KeptCapsSurvive`) and confined workers that no filter kills (`WorkersFailClosed`, `FilterKillsNoWorker`)? Is READY true (`ReadyMeansServing`)? Does every start end (`StartSettles`)? | five capabilities: the kept one, the three that change what others can do, one that `bind` needs; all orders. Seven credentials: root with all and with the unit's bounding set, a user with an ambient, a file, every and no capability, and the daemon's own user with every one. All eight combinations of sandbox, privsep and Landlock, and 31 files that differ from the default in a value at or past a limit. Two `keep_caps`, since `apply` is a library function: fwknoxd's own, with which root's start always fails at `setgroups`, and a larger one, which fwknoxd never passes, with which it gets through. So what `KeptCapsSurvive` says of a start by root, the steps after `SetGroups` included, is about `apply` and not about fwknoxd as it is |
| `knock` | Is what the daemon acts on what was sent (`ActsOnWhatWasSent`), is every client heard (`HearsEveryClient`), the age check exact (`ClockIsExact`) and `Pipeline` right (`PipelineAgrees`)? Does the receive loop come round (`LoopComesRound`)? | one datagram at a time, of which the network may keep copies: the decisions up to the replay cache remember nothing. 14 command lines that use and leave out each argument, packets of other programs that pass or fail each test of `parse_packet`, one of the full 1500 bytes among them, damage in each field, one byte behind any packet (`MaxTail`); two stanzas with different keys and policies; timestamps of four bits (`Half` is 8), at the ends of the range and around the window |

Runs that find a disagreement between the code and what the repository says of
it (`findings` in `PROJECT.json` quotes the lines):

| Run | Property | What happens |
|---|---|---|
| `supervisor_nft` | `StopsOnlyOnCause` | the end of an `nft` child raises the SIGCHLD that stands for a worker's death, and the daemon shuts down |
| `supervisor_wedge` | `ShutdownEnds` | the parent waits for a worker that waits for room in the parent's own socket |
| `startup_root` | `RootCanDropPrivileges` | `drop_all_except` takes CAP_SETGID away, and `setgroups` in `drop_to` then fails: started by root with the default configuration, the daemon does not come up |
| `knock_readme` | `ReadmeKnockOpens` | the README's command lines leave the source to `"auto"`, which the client sends as 127.0.0.1; the example stanza requires it to be the packet's own source, and the packet is denied |

Deadlock checking is off for `Supervisor`, where all processes may have ended,
for `Startup`, where a start may have failed, and for `Knock`, where a capture
worker may have exited and nothing more be sent. `MaxTime`, `MaxChecks`,
`QueueLimit`, `MaxLookups`, `MaxSent`, `MaxTail` and the cap of `installs` at two
are the only bounds on state; the theorems are proved for all values of the first
six. One byte behind a packet stands for any number of them, as a datagram either
fits into the buffer or does not.
In `RateLimiter` the sources, and in `replay_single` the nonces, are
interchangeable and are declared symmetric (`rate_limiter` checks one action
property, `CandidatesAreNotStarved`, quantified over all sources, and no
liveness, so symmetry is sound there).

### Fairness

`Supervisor`, `Startup` and `Knock` have liveness properties. `Supervisor`
assumes weak fairness of the parent's steps, and of each worker's own steps. The scheduler justifies it: each
process is a loop that always has a next step, `recv` has a timeout of a fraction
of a second on every socket and returns, and a `send` that has room, or whose
peer is gone, returns. A `send` without room is *not* enabled, which is how the
wedge arises. Nothing is assumed of traffic, panics, signals or kills.

`Startup` assumes weak fairness of the daemon's own steps, `DaemonNext`: they are
system calls that return. `Knock` assumes it of the daemon's steps, which include
`RecvNothing`, the passing of a read timeout, but only if a timeout is set on the
socket. It is not assumed that a datagram arrives, that time passes or that a
receive fails.

### Further observations

Reading the code against its comments showed more disagreements, to which no
run is given; the models follow the code in each case.

- `cache.rs:7` and `:42` promise durable inserts and thread safety. With two
  callers of `check_and_insert`, the older of two snapshots can be renamed last,
  and a nonce reported fresh is missing from the file: `ReplayCache` with two
  `Callers` violates `DurableBeforeReturn`. `fwknoxd` has one caller, and no run
  has two.
- `cache.rs:16` calls a forward step of the clock safe. With a `replay.max_age`
  that has no slack for it, a nonce is pruned during the step, and its packet
  accepted after the correction: `SingleDaemon` without `ConfigCoversWindow`
  violates `OneShot`. The theorems say how much slack suffices.
- `privsep_run.rs:243` expects systemd's `Restart=on-failure` to bring the daemon
  back after a worker's death. `run_parent_loop` returns `Ok(())` (line 329) and
  the exit status is 0, which is no failure.
- `nftables.rs:445` takes "rule not found" to mean that no element is there. If
  one element of a handle is gone, the whole delete fails, is reported as not
  found (line 438), and leaves the others open until their timeout.
- `cache.rs:6` speaks of the least recently used nonce; after a reload the order
  is that of a `HashMap` (`cache.rs:172`). `LoadFromFile` allows every order.
- `load_from_file` uses `DEFAULT_MAX_ENTRIES`, not `replay.max_entries`
  (`cache.rs:169`). The models do too, and runs use two different values.
- `validate_durations` (`fwknox-config/src/daemon.rs:497`) does not require
  `replay.max_age` to cover the packet age and the skew: an accepted file may
  violate `ConfigCoversWindow`, which the theorems assume, and need.
- A SIGTERM before `install_handlers` (`privsep_run.rs:236`) kills the parent with
  its workers running: nothing is flushed, saved or signalled (`Stop`). The workers
  find out with their next send, as after a SIGKILL.
- A panic hook that aborts runs before `catch_unwind` (`workers.rs:147`): a panic
  in the validator ends the crypto worker (`CryptoPanic`), where the comment says
  it is swallowed.
- SIGTERM during `recv` is EINTR, which the loops take for a failure
  (`workers.rs:93`): a worker's exit status is then 1 (`RecvInterrupted`).
- `workers.rs:8` says the loops return when the peer closes. A datagram socket
  does not report that to a reader: an orphan with nothing to send polls on.
  `SendersNoticeTheDead` states the half that does hold.
- `limiter.rs:86` says the sweep is called on every candidate insertion; it is
  called when the map is full (`limiter.rs:282`).
- `validate_durations` claims every duration that bounds a rule's lifetime
  (`fwknox-config/src/daemon.rs:493`) but does not look at a stanza's
  `fw_timeout`. One below a second is cut to zero by `as_secs`
  (`nftables.rs:372`), which nft takes for an element without timeout: the port
  stays open until a flush. `ClosesInTime` names it as the one exception.
- A stanza's `max_fw_timeout` and `require_username` are parsed and never read;
  `Pipeline` clamps by the daemon's `max_fw_timeout`, as the code does.
- nft lists an element that has a timeout as an `elem` object. All elements of
  `open_access` have one, and `handle_has_present_elements` skips that form
  (`nftables.rs:195`), so the query it is meant for finds nothing. "Could not
  process rule" (`nftables.rs:133`) precedes every error of the kernel, not only
  a missing element. So the error that `remove_rule` returns says little, and
  `Firewall` leaves it out.
- `init` appends the lookup rule again when it runs without a flush that took
  effect. That is harmless, and counted in `lookups`.
- `apply.rs:12` and `privdrop.rs:5` want the firewall initialized before the
  sandbox; `run` initializes it after (`InitFirewall`), so that a sandbox under
  which nft cannot work fails the start and not the first knock. With Landlock on,
  or the capability from the file rather than ambient, `fwknoxd` always fails so.
- `capabilities.rs:5-8` drops from the bounding set too. Once CAP_SETPCAP has had
  its round it can drop no more there: CAP_SETPCAP itself and all that the
  `HashSet` yields after it stay. The other four sets are emptied
  (`SandboxHolds`).
- A `setuid` away from root clears the ambient set. Had `drop_to` succeeded, the
  nft child would have no CAP_NET_ADMIN, and the start would fail at `init`: in
  `startup`, where it succeeds with the larger `keep_caps`, it does.
- The repository's README (line 203) says the workers drop all capabilities.
  `apply_worker_sandbox` drops none; a worker has what the parent kept.
- `fwknoxd-mock.rs:6` says it is `fwknoxd` but for the backend. It has no sandbox
  step.
- The client's `-t` and `fw_timeout` travel in the packet, and no daemon code
  reads `client_timeout`; `fwknox-config/src/daemon.rs:134` and the README say
  they count. A `-t` beyond 32 bits is replaced by the server's `fw_timeout`
  without a word (`fwknox-client/src/packet.rs:35`).
- A username that `encode` accepts may be one that `decode` refuses;
  `HearsEveryClient` excepts it.
- `PacketTooLong` in `build_packet` cannot happen: a payload has at most 1024
  bytes and the rest 64. `HearsEveryClient` includes it.
- `UdpCapture` drops a datagram that is too long; the capture worker passes on
  its first 1500 bytes (`workers.rs:60`). They fail the HMAC, unless the packet has
  1500 bytes itself: what is behind it then goes unnoticed, and unused.
  `ActsOnWhatWasSent` says that this is the only case. No client's packet is so long.
- `validate_against_clock` subtracts two `i64` (`validate.rs:24`). A release build
  wraps, and `ClockIsExact` shows that harmless; a debug build would panic.
- The client binds 0.0.0.0 (`send.rs:12`) and so has no IPv6 destinations.
- On kernels that keep the expiry of an element that is added again, a second
  grant ends with the first. `ClosesInTime` is an upper bound only.

## 4. What is proved

TLAPS checks these for every value of the constants that satisfies the named
assumptions: non-zero capacities, natural durations, finitely many datagrams,
copies of a nonce carrying one timestamp because the HMAC covers both, stanzas
numbered and with a timeout or none (`AccessAssumption`, `StanzasAssumption`),
timestamps in the range of an `i64` of any width (`TimestampAssumption`),
credentials that the kernel allows (`StartupAssumption`), files with unsigned
numbers (`FilesAssumption`), payloads that have a length (`LengthAssumption`), and
other programs' packets that end in their own tag or in none (`OthersAssumption`:
nobody signs one packet and sends another with that tag for the network to
repair). TLC evaluates each of them on the instances of the runs. Three theorems
have a hypothesis of their own, which the table gives. In the table `Spec` is the
component's specification: `SingleSpec` and `PrivsepSpec` for the daemons.

| Theorem | Statement |
|---|---|
| `SingleOneShot`, `PrivsepOneShot` | `Spec => []OneShot` |
| `SingleGrantIsRemembered`, `PrivsepGrantIsRemembered` | `Spec => []GrantIsRemembered` |
| `SingleNothingOnlyInRam` | `Spec => []NothingOnlyInRam` |
| `SingleImplementsOnceOnly`, `PrivsepImplementsOnceOnly` | `Spec => ImplementsOnceOnly` |
| `CacheTypeOK` | `Spec => []TypeOK` of `ReplayCache`, for any number of callers |
| `InsertIsDurable`, `InsertIsRemembered` | `Spec => []DurableBeforeReturn`, `Spec => []Remembered`, if there is one caller |
| `SingleTypeOK`, `PrivsepTypeOK` | `Spec => []TypeOK` |
| `PrivsepOnlyAllowedSpend` | `Spec => OnlyAllowedSpend` |
| `SupervisorExitLeavesNoWorker` | `Spec => []ExitLeavesNoWorker` |
| `SupervisorEndsHaveARoot` | `Spec => []EndsHaveARoot` |
| `StartupSandboxHolds` | `Spec => []SandboxHolds` |
| `StartupKeptCapsSurvive` | `Spec => []KeptCapsSurvive`, if `StartsPrepared` |
| `StartupWorkersFailClosed`, `StartupFilterKillsNoWorker` | `Spec => []WorkersFailClosed`, `Spec => []FilterKillsNoWorker` |
| `StartupReadyMeansServing` | `Spec => []ReadyMeansServing` |
| `KnockActsOnWhatWasSent` | `Spec => []ActsOnWhatWasSent` |
| `KnockHearsEveryClient` | `Spec => []HearsEveryClient` |
| `KnockPipelineAgrees` | `Spec => []PipelineAgrees` |
| `KnockClockIsExact` | `Spec => []ClockIsExact` |
| `LimiterRateBound` | `Spec => []RateBound` |
| `LimiterTiersDisjointAndBounded` | `Spec => []TiersDisjointAndBounded` |
| `LimiterPromotionsArePaid` | `Spec => []PromotionsArePaid` |
| `OneKeyPerPrefixAlways` | for all addresses and prefix lengths, one key exactly if one prefix |
| `LimiterCandidatesAreNotStarved` | `Spec => CandidatesAreNotStarved` |
| `FirewallClosesInTime` | `Spec => []ClosesInTime` |
| `FirewallReadyWhenInitialized` | `Spec => []ReadyWhenInitialized` |

The theorems about the daemons, except `SingleTypeOK`, `PrivsepTypeOK` and
`PrivsepOnlyAllowedSpend`, assume `ConfigCoversWindow`:

    ReplayMaxAge >= MaxSpaPacketAge + MaxSkew + 2 * MaxStepBack + MaxQueueDelay

that is, a nonce is kept for as long as its packet may be accepted. One
`MaxStepBack` is for a step of the clock between the timestamp check and the
insert, the other for a step between a prune and the next timestamp check.
`MaxQueueDelay` is by how much the clock is expected to move while a validated
request waits in the socket. Nothing in the code enforces it (the parent polls ten
times a second), and the model does not either: a request that comes later is
looked up all the same, may find its nonce pruned and install a second rule, and
is excused for it.

**The argument for one-shot.** `OneShot` is not inductive: a state in which a
nonce was granted and is not in the cache satisfies it, and the next copy breaks
it. `CoreInv` in `DaemonProofs` adds
- `GrantIsRemembered`: a granted nonce is in the file, and in memory while the
  daemon runs, unless it was excused or has expired;
- `StampsCover`, for memory and file: a stamp is not much older than its packet's
  timestamp, so an entry that is old enough to prune has expired;
- `OnDisk`: memory holds nothing that the file does not, except the nonce being
  saved, so that a crash forgets nothing else;
- `InFlight`: the packet between insert and rule is in the cache, on disk before
  the rule is opened, and not granted before;
- the bound on the clock's lag.

Each shared action preserves it (one lemma each). For the single process it is
joined by what is known of the packet between the timestamp check and the replay
check; for privsep by `QueueInv`, the same for every request in the socket
(`ValidIsAdmissible`: a request that is not overdue has not expired).

**The argument for the refinement.** Only `OpenAccess` opens a rule, several steps
after the decision, so the invariants carry the decision along: the packet in hand
between replay check and rule, or every request in the socket, is `Allowed`.
`AllowedIsPermitted` shows that what `Matched` and `PolicyAllows` find by a search
for the first stanza is what `OnceOnly` permits by quantifiers; that the stanza
found is one of those configured needs the least number of a set
(`MatchedStanza`). By `InFlight` the nonce is unused, so the step is a `Grant`
(`OpenAccessGrants`). All others only drop rules and excuse nonces, which is
`Lapse` (`LapseStep`). For `PrivsepOnlyAllowedSpend` no more is needed than that
the requests in the socket are allowed (`WorkerInv`), so it holds without
`ConfigCoversWindow`.

**The argument for the replay cache.** What `LruCache` does to its order is a
recursive function; `DetachRest` in `OrderProofs` shows by induction on the length
that what is left lists exactly the keys that are left, each once (`Lists`). From
that the cache is a map within its capacity after every insert, eviction, prune
and reload, whoever calls it (`TypeInv`). `DurableInv` is for one caller: the map
does not change between the snapshot and the write, so the snapshot still is the
map when it becomes the file; and a nonce on its way in, or out again after a
failed write, is none that was reported fresh. With two callers the first of
these fails, and so does the theorem (section 3, further observations).

**The argument for the rate.** `RateBound` is not inductive either, as it says
nothing of the tokens still in the bucket. `Conserves` does: tokens held and
packets passed together stay within a full bucket for each time it was filled anew
and the inflow up to the last refill. `Refill`, `Consume` and `Reprime` keep it,
and it implies the bound at any later time. `LimiterCandidatesAreNotStarved` goes through the outcomes of `check`:
only the sweep removes entries of other sources, and only expired ones.
`TierInv` says with `Lists` that the recency order is that of the tracked sources,
so that its length is their number and the eviction makes room for the promotion.
`PaidInv` is `PromotionsArePaid` with `TierInv`: a count grows only with
`viaGlobal`, and a promotion turns a count of `Threshold` into one promotion. The
sum over the candidates is a fold over a set in an order that `CHOOSE` fixes;
`SumAnyFirst` shows that the order does not matter.

**The argument for the keys.** A prefix is whole octets and the first bits of
one more. `KeepTopIsAgree` shows of two octets that `keep_top` makes them equal
exactly if these bits are equal (`Cut` is the number they make, one bit at a
time), `AgreeByOctets` puts the octets together. The run compares chosen pairs of
addresses (`KeysFollowThePrefix`), the theorem all of them.

**The argument for the firewall.** `ClosesInTime` and `ReadyWhenInitialized` are
inductive once the types of the two maps are added. The work is in `OpenInv`: by
`TimeoutSecsBounds` the kernel's expiry, if it is not zero, lies after now and not
after the end of the grant, and each element has either that expiry or its old
one. All other actions
only drop elements or leave them alone (`FewerInv`).

**The argument for supervision.** `ExitLeavesNoWorker` becomes inductive with
what the parent knows at each step of its shutdown: from `termCrypto` on the
capture worker is gone, and at the end the crypto worker too (`WorkersInPlace`).
`EndsHaveARoot` is not inductive: a worker also ends because another has, because
it was sent a SIGTERM or because the parent is on its way out. `LinksHaveARoot`
says that each of these links has a root cause in turn, and `RootKept` that a root
cause is never lost. The step that matters is `CaptureSend`: a reader that is
missing has died, and was not merely forked too late or closed too early, which
`WorkersInPlace` says of every state of the parent. nft children count as a cause;
that they should not is what `supervisor_nft` shows.

**The argument for the start.** `SandboxInv` says what holds in the middle: while
capabilities are dropped, everything held is to be kept or still to be visited,
in whatever order. `WorkerInv` says that the hook is there before the filter and
the filter after every call that it forbids; the rest is the inclusion of the
loops' and the hook's system calls in the list (`FilterAllows`). `ReadyInv` says
what is in place at each step, for the two orders of the two modes. `KeptInv` says
that no capability to be kept is on the list of those to be dropped, and that
root, whose effective set `setuid` clears, comes to the next layer only through
the step that raises it again. A daemon that is started as its own user changes
nothing, and has what it was given: `StartsPrepared` asks that it was given what
is to be kept, and asks nothing of any other start. Without it the statement is
false: such a start comes up without the capability it never had.

**The argument for the knock.** `WireInv` says of all that is in the network or
received: it was sent, or no stanza reads it (`Broken`), and what is received with
bytes behind it is broken or filled the buffer (`TailShows`). Damage and
truncation keep it, since a tag is equal to another only if key and message are (`TagTellsApart`),
and since bytes that were not sealed hold no payload; the fresh nonce is no
`JunkNonce` because it counts the finitely many packets sent. `Made` says what
clients send: `MadeIsRead` takes it through every test of `parse_packet` under the
key of its tag, and the first stanza at which `match_packet` stops has that key. A
decision may be older than the sending that the property compares it with, so
`LastInv` says that it depends on the bytes alone. `PipelineAgrees` compares two
definitions, stanza by stanza (`ParseAgrees`, `PolicyAgrees`); the behaviour only
has to supply that packets come from `Hosts`.

**The argument for the clock.** The subtraction leaves the range only for a packet
that is far too old; the wrapped age is then far below zero, which is too far in
the future: `MaxTime + MaxSkew < Half` keeps it outside the window on that side
(`WrapIsHarmless`). `StampInv` carries the range of timestamps from
sender to decision, through damage and truncation.

**Induction.** The provers cannot instantiate an induction theorem that takes an
operator. `Induction` and `SmallestSet` in `OrderProofs` take a set instead (a set
of numbers with 0 and with each number's successor; a family of finite sets, of
which one is smallest), and follow from the well-founded order of the numbers.

**Only model-checked:** all liveness properties, that is `WorkerEndStopsParent`,
`ShutdownEndsOrWedges`, `FailedStartEndsWorkers` and `SendersNoticeTheDead` of
`Supervisor`, `StartSettles` and `LoopComesRound`: TLAPS has no support for
fairness in this version. Every other property of a passing run is a theorem, or,
`KeysFollowThePrefix`, an instance of one. In turn the type invariants of
`PrivsepDaemon` and `Supervisor` are left to the proofs, whose inductive invariants
contain them.

## 5. What is not modelled

- The inside of AES-GCM, HMAC and HKDF, which are ideal, and the bytes of
  MessagePack, TOML, base64 and the cache file. A payload has a length and the
  two properties of its username that are tested.
- Loss of the page cache: a file that was renamed stays, though the result of
  the directory's `fsync` is ignored (`persist.rs:97`). Only processes crash.
- A malformed cache file, which the program never writes: start-up fails.
- `f64` rounding in the token bucket, and the throttling of log lines.
- An administrator who deletes the daemon's table, and other users of nftables.
  `MockBackend`, a test double.
- Pids and their reuse.
- Which error `remove_rule` makes of a batch that failed.
- The bounding set after CAP_SETPCAP is gone is modelled, but no property is
  about it: what stays in it depends on the order of a `HashSet`.
- WATCHDOG=1 and STOPPING=1, log output, and `--generate-key`, which prints.
- Landlock's treatment of single paths: a domain is full, partial or none.

## 6. What remains

1. *Model.* `Firewall` composed with the daemons: the rule set of `DaemonCore`
   as what its elements implement. `Supervisor` composed with the data path, so
   that messages in flight have content when a process dies.
2. *Prove.* That the daemons' steps on the cache are those of `ReplayCache` with
   one caller; the theorems of the parts together, once they are composed.
