------------------------------- MODULE Startup -------------------------------
(***************************************************************************)
(* How a daemon starts: real_main of crates/fwknox-daemon/src/bin/         *)
(* fwknoxd.rs and fwknoxd-mock.rs, the sandbox it puts on itself           *)
(* (crates/fwknox-sandbox: apply.rs, capabilities.rs, privdrop.rs,         *)
(* landlock.rs), and the one that privsep_run.rs puts on each worker       *)
(* (apply_worker_sandbox, seccomp.rs, panic.rs).                           *)
(*                                                                         *)
(* The kernel's rules for credentials (capabilities(7), setgroups(2),      *)
(* setuid(2), execve(2)) are external.  A step that fails ends the process *)
(* with the error; `why` keeps the step.                                   *)
(***************************************************************************)
EXTENDS Config, FiniteSets

CONSTANTS
    Files,      \* the configuration files a daemon may be started with
    Starts,     \* the credentials it may be started with
    Binaries,   \* of "fwknoxd" and "fwknoxd-mock"
    Caps,       \* caps::all()
    Keeps       \* the keep_caps that apply may be called with: fwknoxd says
                \* CAP_NET_ADMIN, and apply is a library function

VARIABLES
    binary,     \* the program that was started
    keep,       \* SandboxConfig.keep_caps
    pc,         \* the step the process is at
    why,        \* the step that failed, or "none"
    config,     \* the file, and from "backend" on the configuration
    cred,       \* the credentials of the process
    toDrop,     \* the capabilities drop_all_except has still to visit
    abi,        \* what this kernel does of a Landlock ruleset
    landlock,   \* what Landlock enforces on the process
    socket,     \* the UDP socket is bound
    table,      \* the firewall backend is initialized
    handlers,   \* the shutdown handlers are installed
    notified,   \* systemd has been told READY=1
    workers     \* the two children

vars == <<binary, keep, pc, why, config, cred, toDrop, abi, landlock, socket, table,
          handlers, notified, workers>>

\* What the daemon's own start leaves alone.
given == <<binary, keep, config, abi>>

CAP_NET_ADMIN == "CAP_NET_ADMIN"
Workers == {"capture", "crypto"}
Unborn == [pc |-> "none", hook |-> FALSE, landlock |-> "none", filter |-> FALSE]

\* The credentials of a process, as far as the sandbox changes them.
Credentials ==
    [uid : STRING, gid : STRING, groups : SUBSET STRING,
     effective : SUBSET Caps, permitted : SUBSET Caps, inheritable : SUBSET Caps,
     ambient : SUBSET Caps, bounding : SUBSET Caps]

ASSUME StartupAssumption ==
    /\ \A k \in Keeps : k \subseteq Caps
    /\ Starts \subseteq Credentials
    /\ \A c \in Starts :
          c.effective \subseteq c.permitted /\ c.ambient \subseteq c.permitted \cap c.inheritable

\* The names of a file are texts.
ASSUME FilesAssumption ==
    \A f \in Files : f.daemon.run_user \in STRING /\ f.daemon.run_group \in STRING

Init ==
    /\ binary \in Binaries /\ config \in Files /\ cred \in Starts /\ keep \in Keeps
    /\ abi \in {"full", "partial", "none"}
    /\ pc = "load" /\ why = "none"
    /\ toDrop = {} /\ landlock = "none"
    /\ socket = FALSE /\ table = FALSE /\ handlers = FALSE /\ notified = FALSE
    /\ workers = [w \in Workers |-> Unborn]

\* The process goes from one step to the next, or returns the error.
Go(from, to) == pc = from /\ pc' = to /\ why' = why
FailOf(from, call) == pc = from /\ pc' = "failed" /\ why' = call
Fail(from) == FailOf(from, from)

-----------------------------------------------------------------------------
(* The kernel *)

\* setgroups(2) needs CAP_SETGID.  So do setgid(2) and setuid(2) with theirs,
\* unless the process has the id already.
MaySetGroups(c) == "CAP_SETGID" \in c.effective
MaySetGid(c, gid) == "CAP_SETGID" \in c.effective \/ c.gid = gid
MaySetUid(c, uid) == "CAP_SETUID" \in c.effective \/ c.uid = uid

\* setuid(2).  Leaving uid 0 clears the effective and the ambient set, and the
\* permitted set too unless keepcaps is on.
AfterSetUid(c, uid, keepcaps) ==
    IF c.uid # "root" \/ uid = "root" THEN [c EXCEPT !.uid = uid]
    ELSE [c EXCEPT !.uid = uid, !.effective = {}, !.ambient = {},
                   !.permitted = IF keepcaps THEN @ ELSE {}]

\* What a child has permitted after execve(2) of a file without capabilities.
AfterExec(c) == IF c.uid = "root" THEN c.inheritable \cup c.bounding ELSE c.ambient

\* The backend runs nft, which has to be executed and to change the tables.
NftWorks == landlock = "none" /\ CAP_NET_ADMIN \in AfterExec(cred)

-----------------------------------------------------------------------------
(* real_main, up to the sandbox *)

LoadConfig ==
    /\ IF LoadDaemonConfig(config) THEN Go("load", "backend") ELSE Fail("load")
    /\ UNCHANGED <<given, cred, toDrop, landlock, socket, table, handlers, notified, workers>>

\* fwknoxd-mock always takes its MockBackend.
MakeBackend ==
    /\ IF binary = "fwknoxd-mock" \/ config.daemon.firewall_backend = "nftables"
       THEN Go("backend", "bind") ELSE Fail("backend")
    /\ UNCHANGED <<given, cred, toDrop, landlock, socket, table, handlers, notified, workers>>

\* A port below 1024 takes CAP_NET_BIND_SERVICE (port 0 lets the kernel choose).
\* The address may be in use.
Bind ==
    /\ \/ /\ config.daemon.listen_port \in 1..1023
                => "CAP_NET_BIND_SERVICE" \in cred.effective
          /\ Go("bind", "replay") /\ socket' = TRUE
       \/ Fail("bind") /\ socket' = FALSE
    /\ UNCHANGED <<given, cred, toDrop, landlock, table, handlers, notified, workers>>

\* The cache file is loaded if it exists; ReplayCache models what is loaded.
\* Only fwknoxd goes on to the sandbox.
MakeReplayCache ==
    /\ \/ Go("replay", IF binary = "fwknoxd" /\ config.daemon.enable_sandbox
                       THEN "capabilities" ELSE "limiter")
       \/ Fail("replay")
    /\ toDrop' = IF pc' = "capabilities" THEN Caps \ keep ELSE {}
    /\ UNCHANGED <<given, cred, landlock, socket, table, handlers, notified, workers>>

-----------------------------------------------------------------------------
(* apply_sandbox, and apply *)

\* Mutant of DropCapability: the permitted set is left alone.
DropEffectiveOnly(c) ==
    /\ pc = "capabilities" /\ c \in toDrop
    /\ toDrop' = toDrop \ {c}
    /\ cred' = [cred EXCEPT !.effective = @ \ {c}, !.inheritable = @ \ {c},
                            !.ambient = @ \ {c}]
    /\ UNCHANGED <<given, pc, why, landlock, socket, table, handlers, notified, workers>>

\* Mutant of DropCapability: a round is repeated until the bounding set has let go.
DropUntilUnbound(c) ==
    /\ pc = "capabilities" /\ c \in toDrop
    /\ LET trimmed == [cred EXCEPT !.effective = @ \ {c}, !.permitted = @ \ {c},
                                   !.inheritable = @ \ {c}, !.ambient = @ \ {c}]
       IN  cred' = [trimmed EXCEPT
                        !.bounding = IF "CAP_SETPCAP" \in trimmed.effective
                                     THEN @ \ {c} ELSE @]
    /\ toDrop' = toDrop \ ({c} \ cred'.bounding)
    /\ UNCHANGED <<given, pc, why, landlock, socket, table, handlers, notified, workers>>

\* One round of drop_all_except, which meets the capabilities in the order of a
\* HashSet.  Only the bounding set takes a capability to change, CAP_SETPCAP in
\* the effective set, which is gone once its own round has begun.
DropCapability(c) ==
    /\ pc = "capabilities" /\ c \in toDrop
    /\ toDrop' = toDrop \ {c}
    /\ LET trimmed == [cred EXCEPT !.effective = @ \ {c}, !.permitted = @ \ {c},
                                   !.inheritable = @ \ {c}, !.ambient = @ \ {c}]
       IN  cred' = [trimmed EXCEPT
                        !.bounding = IF "CAP_SETPCAP" \in trimmed.effective
                                     THEN @ \ {c} ELSE @]
    /\ UNCHANGED <<given, pc, why, landlock, socket, table, handlers, notified, workers>>

\* The end of drop_all_except: the effective set is read once more, which may
\* fail, and if a kept capability is missing there is only a warning.
\* apply_sandbox has a drop_to only for uid 0.
Dropped ==
    /\ toDrop = {}
    /\ \/ Go("capabilities", IF cred.uid = "root" THEN "resolve" ELSE "landlock")
       \/ Fail("capabilities")
    /\ UNCHANGED <<given, cred, toDrop, landlock, socket, table, handlers, notified, workers>>

\* resolve_user and resolve_group look the names up, which may fail.
Resolve ==
    /\ Go("resolve", "setgroups") \/ Fail("resolve")
    /\ UNCHANGED <<given, cred, toDrop, landlock, socket, table, handlers, notified, workers>>

SetGroups ==
    /\ IF MaySetGroups(cred)
       THEN Go("setgroups", "setgid")
            /\ cred' = [cred EXCEPT !.groups = {config.daemon.run_group}]
       ELSE Fail("setgroups") /\ cred' = cred
    /\ UNCHANGED <<given, toDrop, landlock, socket, table, handlers, notified, workers>>

SetGid ==
    /\ IF MaySetGid(cred, config.daemon.run_group)
       THEN Go("setgid", "setuid")
            /\ cred' = [cred EXCEPT !.gid = config.daemon.run_group]
       ELSE Fail("setgid") /\ cred' = cred
    /\ UNCHANGED <<given, toDrop, landlock, socket, table, handlers, notified, workers>>

\* Mutant of RaiseEffective: nothing is raised again.
RaiseNothing ==
    /\ Go("raise", "landlock")
    /\ UNCHANGED <<given, cred, toDrop, landlock, socket, table, handlers, notified, workers>>

\* set_keepcaps(true), setuid, set_keepcaps(false).  Where the securebits are
\* locked the first or the last may fail, the last with the user changed.
SetUid ==
    /\ \/ FailOf("setuid", "keepcaps") /\ cred' = cred
       \/ /\ ~MaySetUid(cred, config.daemon.run_user)
          /\ Fail("setuid") /\ cred' = cred
       \/ /\ MaySetUid(cred, config.daemon.run_user)
          /\ cred' = AfterSetUid(cred, config.daemon.run_user, TRUE)
          /\ Go("setuid", "raise") \/ FailOf("setuid", "keepcaps")
    /\ UNCHANGED <<given, toDrop, landlock, socket, table, handlers, notified, workers>>

\* raise_effective reads the permitted set, which may fail, and looks there first.
RaiseEffective ==
    /\ \/ FailOf("raise", "capabilities") /\ cred' = cred
       \/ /\ ~(keep \subseteq cred.permitted)
          /\ Fail("raise") /\ cred' = cred
       \/ /\ keep \subseteq cred.permitted
          /\ Go("raise", "landlock")
          /\ cred' = [cred EXCEPT !.effective = @ \cup keep]
    /\ UNCHANGED <<given, toDrop, landlock, socket, table, handlers, notified, workers>>

\* Mutant of ClassifyStatus: partial enforcement always passes.
ClassifyStatusLax(status, policyIsEmpty) == status # "none"

\* classify_status: is what the kernel enforces enough for the policy?
ClassifyStatus(status, policyIsEmpty) ==
    status = "full" \/ (status = "partial" /\ ~policyIsEmpty)

\* The last layer of apply, if it is asked for.  landlock::apply opens the
\* directory of the cache, which may fail, and restricts the process before it
\* looks at the status.
ApplyLandlock ==
    /\ \/ ~config.daemon.landlock_enabled
          /\ Go("landlock", "limiter") /\ UNCHANGED landlock
       \/ config.daemon.landlock_enabled
          /\ Fail("landlock") /\ UNCHANGED landlock
       \/ config.daemon.landlock_enabled
          /\ landlock' = abi
          /\ IF ClassifyStatus(abi, FALSE)
             THEN Go("landlock", "limiter") ELSE Fail("landlock")
    /\ UNCHANGED <<given, cred, toDrop, socket, table, handlers, notified, workers>>

-----------------------------------------------------------------------------
(* real_main after the sandbox, and run *)

\* The limiter is made, and the mode chosen.  One process installs its handlers
\* before run, the parent of two only after it has forked them.
MakeLimiter ==
    /\ Go("limiter", IF config.daemon.enable_privsep THEN "init" ELSE "handlers")
    /\ UNCHANGED <<given, cred, toDrop, landlock, socket, table, handlers, notified, workers>>

\* The flush that may come first never fails the start.  MockBackend::init does
\* not fail.
InitFirewall ==
    /\ \/ /\ binary = "fwknoxd-mock" \/ NftWorks
          /\ Go("init", IF config.daemon.enable_privsep THEN "fork_capture" ELSE "ready")
          /\ table' = TRUE
       \/ binary = "fwknoxd" /\ Fail("init") /\ table' = FALSE
    /\ UNCHANGED <<given, cred, toDrop, landlock, socket, handlers, notified, workers>>

\* A child starts with the parent's credentials and Landlock domain.
Fork(w, from, to) ==
    /\ \/ Go(from, to)
          /\ workers' = [workers EXCEPT ![w] = [Unborn EXCEPT !.pc = "handlers",
                                                              !.landlock = landlock]]
       \/ Fail(from) /\ UNCHANGED workers
    /\ UNCHANGED <<given, cred, toDrop, landlock, socket, table, handlers, notified>>

ForkCapture == Fork("capture", "fork_capture", "fork_crypto")

\* Mutant of ForkCrypto: the parent is ready as soon as it has its workers.
ForkCryptoReady == Fork("crypto", "fork_crypto", "ready")

ForkCrypto == Fork("crypto", "fork_crypto", "handlers")

\* install_handlers.  In run_parent_loop set_read_timeout follows, and may fail.
InstallHandlers ==
    /\ \/ /\ Go("handlers", IF config.daemon.enable_privsep THEN "ready" ELSE "init")
          /\ handlers' = TRUE
       \/ Fail("handlers") /\ handlers' = FALSE
       \/ /\ config.daemon.enable_privsep
          /\ FailOf("handlers", "timeout") /\ handlers' = TRUE
    /\ UNCHANGED <<given, cred, toDrop, landlock, socket, table, notified, workers>>

\* An sd_notify that fails is ignored.
NotifyReady ==
    /\ Go("ready", "running")
    /\ notified' \in {config.daemon.enable_systemd, FALSE}
    /\ UNCHANGED <<given, cred, toDrop, landlock, socket, table, handlers, workers>>

-----------------------------------------------------------------------------
(* A worker, from its fork to its loop *)

\* worker_syscall_list
WorkerSyscallList ==
    {"read", "write", "recvfrom", "sendto", "recvmsg", "sendmsg", "close", "fcntl",
     "setsockopt", "getsockopt", "ppoll", "epoll_pwait", "epoll_ctl",
     "epoll_create1", "brk", "mmap", "munmap", "mprotect", "madvise", "mremap",
     "futex", "clock_gettime", "clock_nanosleep", "nanosleep", "rt_sigaction",
     "rt_sigprocmask", "rt_sigreturn", "sigaltstack", "getpid", "gettid", "tgkill",
     "getrandom", "rseq", "set_robust_list", "set_tid_address", "restart_syscall",
     "exit", "exit_group"}

\* The system calls behind run_capture_worker and run_crypto_worker: the timeout
\* of the socket, the test of the signal mask, recv_from (by recvfrom) or recv_msg
\* (by recvmsg), send_msg, the clock, the allocator, locks and hash maps, stderr,
\* the return from a signal handler, and exit.
LoopSyscalls(w) ==
    {"setsockopt", IF w = "capture" THEN "recvfrom" ELSE "recvmsg", "sendto",
     "clock_gettime", "brk", "mmap", "munmap", "mremap", "madvise", "futex",
     "getrandom", "write", "rt_sigprocmask", "rt_sigreturn", "restart_syscall",
     "sigaltstack", "exit_group"}

\* Those of a panic.  The hook writes and aborts; Rust's own looks up symbols.
PanicSyscalls(hook) ==
    {"write", "rt_sigprocmask", "getpid", "gettid", "tgkill"} \cup
    IF hook THEN {} ELSE {"readlink", "open", "pread64"}

\* Worker w at a step makes these calls, and goes on to another step, or a call
\* is outside the filter and the kernel kills it (SeccompAction::KillProcess).
Calls(w, from, syscalls, next) ==
    /\ workers[w].pc = from
    /\ workers' = [workers EXCEPT ![w] =
                      IF @.filter /\ ~(syscalls \subseteq WorkerSyscallList)
                      THEN [@ EXCEPT !.pc = "sigsys"] ELSE next]
    /\ UNCHANGED <<given, pc, why, cred, toDrop, landlock, socket, table, handlers, notified>>

WorkerHandlers(w) ==
    \E to \in {"hook", "exited"} :
        Calls(w, "handlers", {"rt_sigaction", "rt_sigprocmask"},
              [workers[w] EXCEPT !.pc = to])

\* Mutant of WorkerHook: a worker keeps Rust's panic hook.
WorkerHookMissing(w) ==
    Calls(w, "hook", {}, [workers[w] EXCEPT !.pc = "landlock"])

\* install_worker_panic_hook
WorkerHook(w) ==
    Calls(w, "hook", {}, [workers[w] EXCEPT !.pc = "landlock", !.hook = TRUE])

\* The first half of apply_worker_sandbox, with a policy that allows nothing.
WorkerLandlock(w) ==
    \E to \in {"seccomp", "exited"} :
        /\ to = "seccomp" => ClassifyStatus(abi, TRUE)
        /\ Calls(w, "landlock",
                 {"landlock_create_ruleset", "landlock_restrict_self", "prctl"},
                 [workers[w] EXCEPT !.pc = to, !.landlock = abi])

\* Its second half, install_worker_filter.
WorkerSeccomp(w) ==
    \/ Calls(w, "seccomp", {"prctl", "seccomp"},
             [workers[w] EXCEPT !.pc = "loop", !.filter = TRUE])
    \/ Calls(w, "seccomp", {"prctl", "seccomp"}, [workers[w] EXCEPT !.pc = "exited"])

\* The worker is at work, returns (on SIGTERM or an error) or panics.
WorkerLoop(w) ==
    \/ \E to \in {"loop", "exited"} :
          Calls(w, "loop", LoopSyscalls(w), [workers[w] EXCEPT !.pc = to])
    \/ Calls(w, "loop", PanicSyscalls(workers[w].hook),
             [workers[w] EXCEPT !.pc = "aborted"])

-----------------------------------------------------------------------------
DaemonNext ==
    \/ LoadConfig \/ MakeBackend \/ Bind \/ MakeReplayCache
    \/ (\E c \in Caps : DropCapability(c)) \/ Dropped
    \/ Resolve \/ SetGroups \/ SetGid \/ SetUid \/ RaiseEffective \/ ApplyLandlock
    \/ MakeLimiter \/ InitFirewall \/ ForkCapture \/ ForkCrypto
    \/ InstallHandlers \/ NotifyReady

WorkerNext(w) ==
    \/ WorkerHandlers(w) \/ WorkerHook(w) \/ WorkerLandlock(w) \/ WorkerSeccomp(w)
    \/ WorkerLoop(w)

Next == DaemonNext \/ \E w \in Workers : WorkerNext(w)

\* A process that can take its next step takes it.
Spec == Init /\ [][Next]_vars /\ WF_vars(DaemonNext)
-----------------------------------------------------------------------------
(* Properties *)

\* apply.rs:58-67: a fwknoxd that gets as far as its firewall with the sandbox
\* on is not root (unless it was told to be), holds no capability but those to be
\* kept in any set it can act with or pass on, and has the Landlock rules if they
\* were asked for, whatever order the capabilities were dropped in and whichever
\* layers could fail.
SandboxHolds ==
    pc \in {"init", "fork_capture", "fork_crypto", "handlers", "ready", "running"}
        /\ binary = "fwknoxd" /\ config.daemon.enable_sandbox
    => /\ config.daemon.run_user # "root" => cred.uid # "root"
       /\ cred.effective \cup cred.permitted \cup cred.inheritable \cup cred.ambient
            \subseteq keep
       /\ config.daemon.landlock_enabled => landlock # "none"

\* tests/privdrop_caps.rs:5: what is to be kept survives the change of user, in
\* the effective set, though setuid clears that set.
KeptCapsSurvive ==
    pc \in {"landlock", "limiter", "init", "fork_capture", "fork_crypto", "handlers",
           "ready", "running"}
        /\ binary = "fwknoxd" /\ config.daemon.enable_sandbox
        /\ cred.uid = config.daemon.run_user
    => keep \subseteq cred.effective

\* notify.rs:8: systemd is told READY=1 only by a daemon that has its socket, its
\* table, its handlers and, with privsep, has forked both workers, though the two
\* modes do these steps in different orders.  (A worker may have ended again by
\* then: Supervisor's WorkerEndStopsParent.)
ReadyMeansServing ==
    notified => /\ socket /\ table /\ handlers
                /\ config.daemon.enable_privsep =>
                      \A w \in Workers : workers[w].pc # "none"

\* apply.rs:127-130: a worker that works has no access to files and is behind its
\* filter; if the kernel enforces less, it has exited.
WorkersFailClosed ==
    \A w \in Workers :
        workers[w].pc = "loop" =>
            workers[w].landlock = "full" /\ workers[w].filter

\* seccomp.rs:61, panic.rs:5-9: no worker is killed by its own filter.  All that
\* the filter forbids is done before it, the panic hook that makes no forbidden
\* call is there by then, and the allowlist has what each worker's loop and exit
\* call, which is not the same for both.
FilterKillsNoWorker == \A w \in Workers : workers[w].pc # "sigsys"

\* A start comes to an end: the daemon runs, or has returned an error.
StartSettles == <>(pc \in {"running", "failed"})

\* tests/privdrop_caps.rs:69: apply(), called by root to keep CAP_NET_ADMIN and
\* drop to another user, succeeds.
RootCanDropPrivileges == why \notin {"setgroups", "setgid", "setuid", "raise"}
=============================================================================
