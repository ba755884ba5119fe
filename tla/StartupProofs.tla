---------------------------- MODULE StartupProofs ----------------------------
(***************************************************************************)
(* What a start leaves behind, for every configuration file, every set of  *)
(* credentials and capabilities to start with, and every kernel.  Each     *)
(* invariant says what is known of the process at each of its steps.       *)
(***************************************************************************)
EXTENDS Startup, TLAPS

Sandboxed == binary = "fwknoxd" /\ config.daemon.enable_sandbox

\* What a process can act with or pass on.
Held(c) == c.effective \cup c.permitted \cup c.inheritable \cup c.ambient

AfterSandbox ==
    {"limiter", "init", "fork_capture", "fork_crypto", "handlers", "ready", "running"}

GivenInv ==
    /\ cred \in Credentials /\ keep \subseteq Caps /\ toDrop \subseteq Caps
    /\ config \in Files /\ abi \in {"full", "partial", "none"}

\* While capabilities are dropped, what is held is to be kept or to be visited.
SandboxInv ==
    /\ pc = "capabilities" => Held(cred) \subseteq keep \cup toDrop
    /\ \/ pc \in {"resolve", "setgroups", "setgid", "setuid", "raise", "landlock"}
       \/ Sandboxed /\ pc \in AfterSandbox
       => Held(cred) \subseteq keep
    /\ \/ pc \in {"raise", "landlock"}
       \/ Sandboxed /\ pc \in AfterSandbox
       => (config.daemon.run_user # "root" => cred.uid # "root")
    /\ Sandboxed /\ pc \in AfterSandbox /\ config.daemon.landlock_enabled
       => landlock # "none"

-----------------------------------------------------------------------------
(* The sandbox *)

\* A process starts with what the constants say.
LEMMA InitGiven == Init => GivenInv /\ SandboxInv
  BY StartupAssumption DEF Init, GivenInv, SandboxInv, Sandboxed, AfterSandbox

\* Every step leaves credentials that a process can have.
LEMMA NextGiven == GivenInv /\ [Next]_vars => GivenInv'
<1> SUFFICES ASSUME GivenInv, [Next]_vars PROVE GivenInv'
  OBVIOUS
<1> USE DEF GivenInv
<1>1. ASSUME NEW c \in Caps, DropCapability(c) PROVE GivenInv'
  BY <1>1 DEF DropCapability, Credentials, given
<1>2. CASE SetGroups
  BY <1>2, FilesAssumption DEF SetGroups, Credentials, Go, Fail, FailOf, given
<1>3. CASE SetGid
  BY <1>3, FilesAssumption DEF SetGid, Credentials, Go, Fail, FailOf, given
<1>4. CASE SetUid
  <2>1. config.daemon.run_user \in STRING
    BY FilesAssumption
  <2>2. ASSUME NEW uid \in STRING PROVE AfterSetUid(cred, uid, TRUE) \in Credentials
    <3>1. [cred EXCEPT !.uid = uid] \in Credentials
      BY <2>2 DEF Credentials
    <3>2. [cred EXCEPT !.uid = uid, !.effective = {}, !.ambient = {},
                       !.permitted = cred.permitted] \in Credentials
      BY <2>2 DEF Credentials
    <3> QED
      BY <3>1, <3>2 DEF AfterSetUid
  <2>3. /\ cred' \in {AfterSetUid(cred, config.daemon.run_user, TRUE), cred}
        /\ UNCHANGED <<keep, toDrop, config, abi>>
    BY <1>4 DEF SetUid, given
  <2> QED
    BY <2>1, <2>2, <2>3
<1>5. CASE RaiseEffective
  BY <1>5 DEF RaiseEffective, Credentials, Go, Fail, FailOf, given
<1>6. CASE MakeReplayCache
  BY <1>6 DEF MakeReplayCache, Go, Fail, FailOf, given
<1>7. CASE LoadConfig \/ MakeBackend \/ Bind \/ Dropped \/ Resolve \/ ApplyLandlock
  BY <1>7 DEF LoadConfig, MakeBackend, Bind, Dropped, Resolve, ApplyLandlock, given
<1>8. CASE MakeLimiter \/ InitFirewall \/ ForkCapture \/ ForkCrypto
           \/ InstallHandlers \/ NotifyReady
  BY <1>8 DEF MakeLimiter, InitFirewall, ForkCapture, ForkCrypto, Fork, InstallHandlers,
              NotifyReady, given
<1>9. ASSUME NEW w \in Workers, WorkerNext(w) PROVE GivenInv'
  BY <1>9 DEF WorkerNext, WorkerHandlers, WorkerHook, WorkerLandlock, WorkerSeccomp,
              WorkerLoop, Calls, given
<1>10. CASE UNCHANGED vars
  BY <1>10 DEF vars
<1> QED
  BY <1>1, <1>2, <1>3, <1>4, <1>5, <1>6, <1>7, <1>8, <1>9, <1>10 DEF Next, DaemonNext

\* Every step of apply(), in every order, keeps the invariant.
LEMMA NextSandbox == GivenInv /\ SandboxInv /\ [Next]_vars => SandboxInv'
<1> SUFFICES ASSUME GivenInv, SandboxInv, [Next]_vars PROVE SandboxInv'
  OBVIOUS
<1> USE DEF SandboxInv, Sandboxed, AfterSandbox, Go, Fail, FailOf, given
<1>1. ASSUME NEW c \in Caps, DropCapability(c) PROVE SandboxInv'
  <2>1. Held(cred') = Held(cred) \ {c}
    BY <1>1 DEF DropCapability, Held, GivenInv, Credentials
  <2> QED
    BY <1>1, <2>1 DEF DropCapability
<1>2. CASE SetGroups
  <2>1. Held(cred') = Held(cred) /\ cred'.uid = cred.uid
    BY <1>2 DEF SetGroups, Held, GivenInv, Credentials
  <2> QED
    BY <1>2, <2>1 DEF SetGroups
<1>3. CASE SetGid
  <2>1. Held(cred') = Held(cred) /\ cred'.uid = cred.uid
    BY <1>3 DEF SetGid, Held, GivenInv, Credentials
  <2> QED
    BY <1>3, <2>1 DEF SetGid
<1>4. CASE SetUid
  <2>1. Held(cred') \subseteq Held(cred)
    <3>1. cred \in Credentials
      BY DEF GivenInv
    <3>2. ASSUME NEW uid PROVE Held(AfterSetUid(cred, uid, TRUE)) \subseteq Held(cred)
      <4>1. Held([cred EXCEPT !.uid = uid]) = Held(cred)
        BY <3>1 DEF Held, Credentials
      <4>2. Held([cred EXCEPT !.uid = uid, !.effective = {}, !.ambient = {},
                              !.permitted = cred.permitted]) \subseteq Held(cred)
        BY <3>1 DEF Held, Credentials
      <4> QED
        BY <4>1, <4>2 DEF AfterSetUid
    <3>3. cred' \in {AfterSetUid(cred, config.daemon.run_user, TRUE), cred}
      BY <1>4 DEF SetUid
    <3> QED
      BY <3>2, <3>3
  <2>2. pc' = "raise" => cred'.uid = config.daemon.run_user
    BY <1>4 DEF SetUid, AfterSetUid, GivenInv, Credentials
  <2> QED
    BY <1>4, <2>1, <2>2 DEF SetUid
<1>5. CASE RaiseEffective
  <2>1. Held(cred') \subseteq Held(cred) \cup keep /\ cred'.uid = cred.uid
    BY <1>5 DEF RaiseEffective, Held, GivenInv, Credentials
  <2> QED
    BY <1>5, <2>1 DEF RaiseEffective
<1>6. CASE MakeReplayCache
  <2>1. Held(cred) \subseteq Caps
    BY DEF Held, GivenInv, Credentials
  <2> QED
    BY <1>6, <2>1 DEF MakeReplayCache
<1>7. CASE Dropped
  BY <1>7 DEF Dropped
<1>8. CASE ApplyLandlock
  BY <1>8 DEF ApplyLandlock, ClassifyStatus
<1>9. CASE LoadConfig \/ MakeBackend \/ Bind \/ Resolve
  BY <1>9 DEF LoadConfig, MakeBackend, Bind, Resolve
<1>10. CASE MakeLimiter \/ InitFirewall \/ InstallHandlers \/ NotifyReady
  BY <1>10 DEF MakeLimiter, InitFirewall, InstallHandlers, NotifyReady
<1>11. CASE ForkCapture \/ ForkCrypto
  BY <1>11 DEF ForkCapture, ForkCrypto, Fork
<1>12. ASSUME NEW w \in Workers, WorkerNext(w) PROVE SandboxInv'
  BY <1>12 DEF WorkerNext, WorkerHandlers, WorkerHook, WorkerLandlock, WorkerSeccomp,
               WorkerLoop, Calls
<1>13. CASE UNCHANGED vars
  BY <1>13 DEF vars
<1> QED
  BY <1>1, <1>2, <1>3, <1>4, <1>5, <1>6, <1>7, <1>8, <1>9, <1>10, <1>11, <1>12, <1>13
  DEF Next, DaemonNext

\* apply(): a daemon that comes as far as its firewall with the sandbox on has
\* given up every capability that is not to be kept, and root, whatever it was
\* started with and in whatever order drop_all_except visits the capabilities.
THEOREM StartupSandboxHolds == Spec => []SandboxHolds
<1>1. SandboxInv => SandboxHolds
  BY DEF SandboxInv, SandboxHolds, Sandboxed, AfterSandbox, Held
<1> QED
  BY <1>1, InitGiven, NextGiven, NextSandbox, PTL DEF Spec

-----------------------------------------------------------------------------
(* What is kept *)

\* A daemon that is started as the user it would change to keeps what it has: it
\* has to have been given the capabilities.  Nothing is asked of any other start.
StartsPrepared ==
    \A c \in Starts, f \in Files, k \in Keeps :
        c.uid # "root" /\ c.uid = f.daemon.run_user => k \subseteq c.effective

\* No capability to be kept is visited by drop_all_except, and root, whose
\* effective set setuid will clear, does not pass by "raise".
KeptInv ==
    /\ pc = "load" => toDrop = {}
    /\ toDrop \cap keep = {}
    /\ \/ pc \in {"load", "backend", "bind", "replay", "capabilities"} /\ cred.uid # "root"
       \/ pc = "landlock"
       \/ Sandboxed /\ pc \in AfterSandbox
       => (cred.uid = config.daemon.run_user => keep \subseteq cred.effective)

\* The steps of apply() and of real_main keep KeptInv.
LEMMA NextKept == GivenInv /\ KeptInv /\ [Next]_vars => KeptInv'
<1> SUFFICES ASSUME GivenInv, KeptInv, [Next]_vars PROVE KeptInv'
  OBVIOUS
<1> USE DEF KeptInv, Sandboxed, AfterSandbox, Go, Fail, FailOf, given
<1>1. ASSUME NEW c \in Caps, DropCapability(c) PROVE KeptInv'
  <2>1. cred'.effective = cred.effective \ {c} /\ cred'.uid = cred.uid
    BY <1>1 DEF DropCapability, GivenInv, Credentials
  <2> QED
    BY <1>1, <2>1 DEF DropCapability
<1>2. CASE SetGroups \/ SetGid
  BY <1>2 DEF SetGroups, SetGid
<1>3. CASE SetUid
  BY <1>3 DEF SetUid
<1>4. CASE RaiseEffective
  <2>1. pc' = "landlock" => keep \subseteq cred'.effective
    BY <1>4 DEF RaiseEffective, GivenInv, Credentials
  <2> QED
    BY <1>4, <2>1 DEF RaiseEffective
<1>5. CASE MakeReplayCache
  BY <1>5 DEF MakeReplayCache
<1>6. CASE Dropped
  BY <1>6 DEF Dropped
<1>7. CASE ApplyLandlock
  BY <1>7 DEF ApplyLandlock
<1>8. CASE LoadConfig \/ MakeBackend \/ Bind \/ Resolve
  BY <1>8 DEF LoadConfig, MakeBackend, Bind, Resolve
<1>9. CASE MakeLimiter \/ InitFirewall \/ InstallHandlers \/ NotifyReady
  BY <1>9 DEF MakeLimiter, InitFirewall, InstallHandlers, NotifyReady
<1>10. CASE ForkCapture \/ ForkCrypto
  BY <1>10 DEF ForkCapture, ForkCrypto, Fork
<1>11. ASSUME NEW w \in Workers, WorkerNext(w) PROVE KeptInv'
  BY <1>11 DEF WorkerNext, WorkerHandlers, WorkerHook, WorkerLandlock, WorkerSeccomp,
               WorkerLoop, Calls
<1>12. CASE UNCHANGED vars
  BY <1>12 DEF vars
<1> QED
  BY <1>1, <1>2, <1>3, <1>4, <1>5, <1>6, <1>7, <1>8, <1>9, <1>10, <1>11, <1>12
  DEF Next, DaemonNext

\* tests/privdrop_caps.rs: what apply() is to keep is in the effective set of the
\* user the daemon runs as, though setuid clears that set and drop_all_except
\* goes through every other capability in any order.
THEOREM StartupKeptCapsSurvive ==
    ASSUME StartsPrepared
    PROVE  Spec => []KeptCapsSurvive
<1>1. Init => KeptInv
  BY DEF Init, KeptInv, StartsPrepared, Sandboxed, AfterSandbox
<1>2. KeptInv => KeptCapsSurvive
  BY DEF KeptInv, KeptCapsSurvive, Sandboxed, AfterSandbox
<1> QED
  BY <1>1, <1>2, InitGiven, NextGiven, NextKept, PTL DEF Spec

-----------------------------------------------------------------------------
(* The workers *)

WorkerStates ==
    [pc : {"none", "handlers", "hook", "landlock", "seccomp", "loop", "exited", "aborted"},
     hook : BOOLEAN, landlock : {"none", "partial", "full"}, filter : BOOLEAN]

\* The hook comes before the filter, and the filter after all that it forbids.
WorkerInv ==
    /\ landlock \in {"none", "partial", "full"}
    /\ workers \in [Workers -> WorkerStates]
    /\ \A w \in Workers :
          /\ workers[w].filter => workers[w].pc \in {"loop", "exited", "aborted"}
          /\ workers[w].pc \in {"landlock", "seccomp", "loop"} => workers[w].hook
          /\ workers[w].pc \in {"seccomp", "loop"} => workers[w].landlock = "full"
          /\ workers[w].pc = "loop" => workers[w].filter

\* The allowlist has the system calls of the loops and of a panic under the hook.
LEMMA FilterAllows ==
    /\ \A w \in Workers : LoopSyscalls(w) \subseteq WorkerSyscallList
    /\ PanicSyscalls(TRUE) \subseteq WorkerSyscallList
  BY DEF LoopSyscalls, PanicSyscalls, WorkerSyscallList

\* A step of one worker that obeys the filter puts it into the given state.
LEMMA CallsStep ==
    ASSUME WorkerInv, NEW w \in Workers, NEW from, NEW S, NEW next \in WorkerStates,
           Calls(w, from, S, next),
           workers[w].filter => S \subseteq WorkerSyscallList,
           next.filter => next.pc \in {"loop", "exited", "aborted"},
           next.pc \in {"landlock", "seccomp", "loop"} => next.hook,
           next.pc \in {"seccomp", "loop"} => next.landlock = "full",
           next.pc = "loop" => next.filter
    PROVE  WorkerInv'
<1>1. workers' = [workers EXCEPT ![w] = next]
  BY DEF Calls
<1>2. landlock' = landlock
  BY DEF Calls
<1> QED
  BY <1>1, <1>2 DEF WorkerInv

\* Every step of a worker keeps the invariant.
LEMMA WorkerStep ==
    ASSUME WorkerInv, GivenInv, NEW w \in Workers, WorkerNext(w)
    PROVE  WorkerInv'
<1> DEFINE s == workers[w]
<1>1. s \in WorkerStates
  BY DEF WorkerInv
<1>2. CASE WorkerHandlers(w)
  <2>1. PICK to \in {"hook", "exited"} :
            Calls(w, "handlers", {"rt_sigaction", "rt_sigprocmask"}, [s EXCEPT !.pc = to])
    BY <1>2 DEF WorkerHandlers
  <2>2. s.pc = "handlers" /\ ~s.filter
    BY <2>1 DEF Calls, WorkerInv
  <2>3. [s EXCEPT !.pc = to] \in WorkerStates /\ ~[s EXCEPT !.pc = to].filter
        /\ [s EXCEPT !.pc = to].pc = to
    BY <1>1, <2>2 DEF WorkerStates
  <2> QED
    BY <2>1, <2>2, <2>3, CallsStep
<1>3. CASE WorkerHook(w)
  <2> DEFINE next == [s EXCEPT !.pc = "landlock", !.hook = TRUE]
  <2>1. Calls(w, "hook", {}, next)
    BY <1>3 DEF WorkerHook
  <2>2. s.pc = "hook" /\ ~s.filter
    BY <2>1 DEF Calls, WorkerInv
  <2>3. next \in WorkerStates /\ ~next.filter /\ next.pc = "landlock" /\ next.hook
    BY <1>1, <2>2 DEF WorkerStates
  <2> HIDE DEF next
  <2> QED
    BY <2>1, <2>2, <2>3, CallsStep
<1>4. CASE WorkerLandlock(w)
  <2>1. PICK to \in {"seccomp", "exited"} :
            /\ to = "seccomp" => ClassifyStatus(abi, TRUE)
            /\ Calls(w, "landlock",
                     {"landlock_create_ruleset", "landlock_restrict_self", "prctl"},
                     [s EXCEPT !.pc = to, !.landlock = abi])
    BY <1>4 DEF WorkerLandlock
  <2> DEFINE next == [s EXCEPT !.pc = to, !.landlock = abi]
  <2>2. s.pc = "landlock" /\ ~s.filter /\ s.hook
    BY <2>1 DEF Calls, WorkerInv
  <2>3. next \in WorkerStates /\ ~next.filter /\ next.pc = to /\ next.hook
        /\ next.landlock = abi
    BY <1>1, <2>2 DEF WorkerStates, GivenInv
  <2>4. to = "seccomp" => abi = "full"
    BY <2>1 DEF ClassifyStatus
  <2>5. Calls(w, "landlock",
              {"landlock_create_ruleset", "landlock_restrict_self", "prctl"}, next)
    BY <2>1
  <2> HIDE DEF next
  <2> QED
    BY <2>1, <2>2, <2>3, <2>4, <2>5, CallsStep
<1>5. CASE WorkerSeccomp(w)
  <2>1. s.pc = "seccomp" /\ ~s.filter /\ s.hook /\ s.landlock = "full"
    BY <1>5 DEF WorkerSeccomp, Calls, WorkerInv
  <2>2. CASE Calls(w, "seccomp", {"prctl", "seccomp"}, [s EXCEPT !.pc = "loop", !.filter = TRUE])
    <3> DEFINE next == [s EXCEPT !.pc = "loop", !.filter = TRUE]
    <3>1. next \in WorkerStates /\ next.filter /\ next.pc = "loop" /\ next.hook
          /\ next.landlock = "full"
      BY <1>1, <2>1 DEF WorkerStates
    <3>2. Calls(w, "seccomp", {"prctl", "seccomp"}, next)
      BY <2>2
    <3> HIDE DEF next
    <3> QED
      BY <3>1, <3>2, <2>1, CallsStep
  <2>3. CASE Calls(w, "seccomp", {"prctl", "seccomp"}, [s EXCEPT !.pc = "exited"])
    <3> DEFINE next == [s EXCEPT !.pc = "exited"]
    <3>1. next \in WorkerStates /\ ~next.filter /\ next.pc = "exited"
      BY <1>1, <2>1 DEF WorkerStates
    <3>2. Calls(w, "seccomp", {"prctl", "seccomp"}, next)
      BY <2>3
    <3> HIDE DEF next
    <3> QED
      BY <3>1, <3>2, <2>1, CallsStep
  <2> QED
    BY <1>5, <2>2, <2>3 DEF WorkerSeccomp
<1>6. CASE WorkerLoop(w)
  <2>1. s.pc = "loop" /\ s.filter /\ s.hook /\ s.landlock = "full"
    BY <1>6 DEF WorkerLoop, Calls, WorkerInv
  <2>2. ASSUME NEW to \in {"loop", "exited"},
               Calls(w, "loop", LoopSyscalls(w), [s EXCEPT !.pc = to])
        PROVE  WorkerInv'
    <3> DEFINE next == [s EXCEPT !.pc = to]
    <3>1. next \in WorkerStates /\ next.pc = to /\ next.hook /\ next.landlock = "full"
          /\ next.filter
      BY <1>1, <2>1 DEF WorkerStates
    <3>2. Calls(w, "loop", LoopSyscalls(w), next)
      BY <2>2
    <3> HIDE DEF next
    <3> QED
      BY <3>1, <3>2, FilterAllows, CallsStep
  <2>3. CASE Calls(w, "loop", PanicSyscalls(s.hook), [s EXCEPT !.pc = "aborted"])
    <3> DEFINE next == [s EXCEPT !.pc = "aborted"]
    <3>1. next \in WorkerStates /\ next.pc = "aborted"
      BY <1>1 DEF WorkerStates
    <3>2. s.hook = TRUE
      BY <2>1, <1>1 DEF WorkerStates
    <3>3. Calls(w, "loop", PanicSyscalls(TRUE), next)
      BY <2>3, <3>2
    <3> HIDE DEF next
    <3> QED
      BY <3>1, <3>3, FilterAllows, CallsStep
  <2> QED
    BY <1>6, <2>2, <2>3 DEF WorkerLoop
<1> QED
  BY <1>2, <1>3, <1>4, <1>5, <1>6 DEF WorkerNext

\* And so does every step of the parent.
LEMMA NextWorkers == GivenInv /\ WorkerInv /\ [Next]_vars => WorkerInv'
<1> SUFFICES ASSUME GivenInv, WorkerInv, [Next]_vars PROVE WorkerInv'
  OBVIOUS
<1>1. ASSUME UNCHANGED <<landlock, workers>> PROVE WorkerInv'
  BY <1>1 DEF WorkerInv
<1>2. CASE LoadConfig \/ MakeBackend \/ Bind \/ MakeReplayCache \/ Dropped
           \/ \E c \in Caps : DropCapability(c)
  BY <1>1, <1>2 DEF LoadConfig, MakeBackend, Bind, MakeReplayCache, Dropped, DropCapability
<1>3. CASE Resolve \/ SetGroups \/ SetGid \/ SetUid \/ RaiseEffective
  BY <1>1, <1>3 DEF Resolve, SetGroups, SetGid, SetUid, RaiseEffective
<1>4. CASE ApplyLandlock
  BY <1>4 DEF ApplyLandlock, WorkerInv, GivenInv
<1>5. CASE MakeLimiter \/ InitFirewall \/ InstallHandlers \/ NotifyReady
  BY <1>1, <1>5 DEF MakeLimiter, InitFirewall, InstallHandlers, NotifyReady
<1>6. ASSUME NEW w \in Workers, NEW from, NEW to, Fork(w, from, to) PROVE WorkerInv'
  <2> DEFINE born == [Unborn EXCEPT !.pc = "handlers", !.landlock = landlock]
  <2>1. born \in WorkerStates /\ ~born.filter /\ born.pc = "handlers"
    BY DEF Unborn, WorkerStates, WorkerInv
  <2>2. landlock' = landlock
        /\ (workers' = workers \/ workers' = [workers EXCEPT ![w] = born])
    BY <1>6 DEF Fork
  <2> HIDE DEF born
  <2> QED
    BY <2>1, <2>2 DEF WorkerInv
<1>7. CASE ForkCapture \/ ForkCrypto
  BY <1>6, <1>7 DEF ForkCapture, ForkCrypto, Workers
<1>8. CASE \E w \in Workers : WorkerNext(w)
  BY <1>8, WorkerStep
<1>9. CASE UNCHANGED vars
  BY <1>1, <1>9 DEF vars
<1> QED
  BY <1>2, <1>3, <1>4, <1>5, <1>7, <1>8, <1>9 DEF Next, DaemonNext

\* No worker is born yet.
LEMMA InitWorkers == Init => WorkerInv
  BY DEF Init, WorkerInv, WorkerStates, Unborn

\* apply_worker_sandbox: a worker in its loop has no files and is behind its
\* filter, on every kernel.
THEOREM StartupWorkersFailClosed == Spec => []WorkersFailClosed
<1>1. WorkerInv => WorkersFailClosed
  BY DEF WorkerInv, WorkersFailClosed
<1> QED
  BY <1>1, InitGiven, NextGiven, InitWorkers, NextWorkers, PTL DEF Spec

\* seccomp.rs and panic.rs: the filter forbids nothing that a worker does under
\* it: recvfrom in the one, recvmsg in the other, what a panic calls under the
\* hook, and none of what comes before the filter.
THEOREM StartupFilterKillsNoWorker == Spec => []FilterKillsNoWorker
<1>1. WorkerInv => FilterKillsNoWorker
  BY DEF WorkerInv, WorkerStates, FilterKillsNoWorker
<1> QED
  BY <1>1, InitGiven, NextGiven, InitWorkers, NextWorkers, PTL DEF Spec

-----------------------------------------------------------------------------
(* Readiness *)

\* What is in place at each step; the two modes do these steps in different
\* orders.
ReadyInv ==
    /\ pc \notin {"load", "backend", "bind", "failed"} => socket
    /\ pc \in {"fork_capture", "fork_crypto", "ready", "running"} => table
    /\ pc = "handlers" /\ config.daemon.enable_privsep => table
    /\ pc \in {"ready", "running"} => handlers
    /\ pc = "init" /\ ~config.daemon.enable_privsep => handlers
    /\ pc = "fork_crypto" => workers["capture"].pc # "none"
    /\ pc \in {"handlers", "ready", "running"} /\ config.daemon.enable_privsep =>
          workers["capture"].pc # "none" /\ workers["crypto"].pc # "none"
    /\ notified => pc = "running"

\* A worker that was born stays so.
LEMMA WorkersStayBorn ==
    ASSUME WorkerInv, NEW w \in Workers, WorkerNext(w)
    PROVE  \A v \in Workers : workers[v].pc # "none" => workers'[v].pc # "none"
<1>1. workers \in [Workers -> WorkerStates]
  BY DEF WorkerInv
<1> DEFINE s == workers[w]
<1>2. ASSUME NEW next \in WorkerStates, NEW from, NEW S, Calls(w, from, S, next),
             next.pc # "none"
      PROVE  \A v \in Workers : workers[v].pc # "none" => workers'[v].pc # "none"
  <2>1. workers' = [workers EXCEPT ![w] = next]
        \/ workers' = [workers EXCEPT ![w] = [s EXCEPT !.pc = "sigsys"]]
    BY <1>2 DEF Calls
  <2>2. [s EXCEPT !.pc = "sigsys"].pc = "sigsys"
    BY <1>1 DEF WorkerStates
  <2> QED
    BY <1>1, <1>2, <2>1, <2>2
<1>3. CASE WorkerHandlers(w)
  <2>1. PICK to \in {"hook", "exited"} :
            Calls(w, "handlers", {"rt_sigaction", "rt_sigprocmask"}, [s EXCEPT !.pc = to])
    BY <1>3 DEF WorkerHandlers
  <2>2. [s EXCEPT !.pc = to] \in WorkerStates /\ [s EXCEPT !.pc = to].pc = to
    BY <1>1 DEF WorkerStates
  <2> QED
    BY <1>2, <2>1, <2>2
<1>4. CASE WorkerHook(w)
  <2>1. [s EXCEPT !.pc = "landlock", !.hook = TRUE] \in WorkerStates
        /\ [s EXCEPT !.pc = "landlock", !.hook = TRUE].pc = "landlock"
    BY <1>1 DEF WorkerStates
  <2> QED
    BY <1>2, <1>4, <2>1 DEF WorkerHook
<1>5. CASE WorkerLandlock(w)
  <2>1. PICK to \in {"seccomp", "exited"} :
            workers' = [workers EXCEPT ![w] = [s EXCEPT !.pc = to, !.landlock = abi]]
            \/ workers' = [workers EXCEPT ![w] = [s EXCEPT !.pc = "sigsys"]]
    BY <1>5 DEF WorkerLandlock, Calls
  <2>2. [s EXCEPT !.pc = "sigsys"].pc = "sigsys"
        /\ [s EXCEPT !.pc = to, !.landlock = abi].pc = to
    BY <1>1 DEF WorkerStates
  <2> QED
    BY <1>1, <2>1, <2>2
<1>6. CASE WorkerSeccomp(w)
  <2>1. [s EXCEPT !.pc = "loop", !.filter = TRUE] \in WorkerStates
        /\ [s EXCEPT !.pc = "loop", !.filter = TRUE].pc = "loop"
    BY <1>1 DEF WorkerStates
  <2>2. [s EXCEPT !.pc = "exited"] \in WorkerStates /\ [s EXCEPT !.pc = "exited"].pc = "exited"
    BY <1>1 DEF WorkerStates
  <2> QED
    BY <1>2, <1>6, <2>1, <2>2 DEF WorkerSeccomp
<1>7. CASE WorkerLoop(w)
  <2>1. s.pc = "loop"
    BY <1>7 DEF WorkerLoop, Calls
  <2>2. \A to \in {"loop", "exited", "aborted"} :
            [s EXCEPT !.pc = to] \in WorkerStates /\ [s EXCEPT !.pc = to].pc = to
    BY <1>1 DEF WorkerStates
  <2> QED
    BY <1>1, <1>2, <1>7, <2>1, <2>2 DEF WorkerLoop
<1> QED
  BY <1>3, <1>4, <1>5, <1>6, <1>7 DEF WorkerNext

\* A fork that succeeds bears its worker and leaves the other.
LEMMA ForkBears ==
    ASSUME WorkerInv, NEW w \in Workers, NEW from, NEW to, to # "failed", Fork(w, from, to)
    PROVE  /\ \A v \in Workers : workers[v].pc # "none" => workers'[v].pc # "none"
           /\ pc' = to => workers'[w].pc # "none"
<1>1. [Unborn EXCEPT !.pc = "handlers", !.landlock = landlock].pc = "handlers"
  BY DEF Unborn
<1> QED
  BY <1>1 DEF Fork, Go, Fail, FailOf, WorkerInv

\* Every step, in either mode's order, keeps the invariant.
LEMMA NextReady == WorkerInv /\ ReadyInv /\ [Next]_vars => ReadyInv'
<1> SUFFICES ASSUME WorkerInv, ReadyInv, [Next]_vars PROVE ReadyInv'
  OBVIOUS
<1> USE DEF ReadyInv, Go, Fail, FailOf, given
<1>1. CASE LoadConfig \/ MakeBackend
  BY <1>1 DEF LoadConfig, MakeBackend
<1>2. CASE Bind
  BY <1>2 DEF Bind
<1>13. CASE MakeReplayCache
  BY <1>13 DEF MakeReplayCache
<1>14. CASE Dropped \/ \E c \in Caps : DropCapability(c)
  <2>1. /\ UNCHANGED <<config, socket, table, handlers, notified, workers>>
        /\ pc = "capabilities" /\ pc' \in {"capabilities", "resolve", "landlock", "failed"}
    BY <1>14 DEF Dropped, DropCapability
  <2> QED
    BY <2>1
<1>3. CASE Resolve \/ SetGroups \/ SetGid \/ SetUid \/ RaiseEffective
  <2>1. /\ UNCHANGED <<config, socket, table, handlers, notified, workers>>
        /\ pc \in {"resolve", "setgroups", "setgid", "setuid", "raise"}
        /\ pc' \in {"setgroups", "setgid", "setuid", "raise", "landlock", "failed"}
    BY <1>3 DEF Resolve, SetGroups, SetGid, SetUid, RaiseEffective
  <2> QED
    BY <2>1
<1>8. CASE ApplyLandlock
  BY <1>8 DEF ApplyLandlock
<1>9. CASE MakeLimiter
  BY <1>9 DEF MakeLimiter
<1>10. CASE InitFirewall
  BY <1>10 DEF InitFirewall
<1>11. CASE InstallHandlers
  BY <1>11 DEF InstallHandlers
<1>12. CASE NotifyReady
  BY <1>12 DEF NotifyReady
<1>4. CASE ForkCapture
  <2>1. "capture" \in Workers
    BY DEF Workers
  <2>2. pc' = "fork_crypto" => workers'["capture"].pc # "none"
    BY <1>4, <2>1, ForkBears DEF ForkCapture
  <2> QED
    BY <1>4, <2>2 DEF ForkCapture, Fork
<1>5. CASE ForkCrypto
  <2>1. "capture" \in Workers /\ "crypto" \in Workers
    BY DEF Workers
  <2>2. pc' = "handlers" => workers'["crypto"].pc # "none" /\ workers'["capture"].pc # "none"
    BY <1>5, <2>1, ForkBears DEF ForkCrypto, Fork
  <2> QED
    BY <1>5, <2>2 DEF ForkCrypto, Fork
<1>6. ASSUME NEW w \in Workers, WorkerNext(w) PROVE ReadyInv'
  <2>1. UNCHANGED <<config, pc, socket, table, handlers, notified>>
    BY <1>6 DEF WorkerNext, WorkerHandlers, WorkerHook, WorkerLandlock, WorkerSeccomp,
                WorkerLoop, Calls
  <2>2. \A v \in Workers : workers[v].pc # "none" => workers'[v].pc # "none"
    BY <1>6, WorkersStayBorn
  <2> QED
    BY <2>1, <2>2 DEF Workers
<1>7. CASE UNCHANGED vars
  BY <1>7 DEF vars
<1> QED
  BY <1>1, <1>2, <1>3, <1>4, <1>5, <1>6, <1>7, <1>8, <1>9, <1>10, <1>11, <1>12,
     <1>13, <1>14 DEF Next, DaemonNext

\* notify.rs: READY=1 is sent only when socket, table, handlers and, with
\* privsep, both workers are there, in either mode's order of steps.
THEOREM StartupReadyMeansServing == Spec => []ReadyMeansServing
<1>1. Init => ReadyInv
  BY DEF Init, ReadyInv
<1>2. ReadyInv => ReadyMeansServing
  BY DEF ReadyInv, ReadyMeansServing, Workers
<1> QED
  BY <1>1, <1>2, InitGiven, NextGiven, InitWorkers, NextWorkers, NextReady, PTL DEF Spec
=============================================================================
