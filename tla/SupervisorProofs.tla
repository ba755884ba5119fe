--------------------------- MODULE SupervisorProofs ---------------------------
(***************************************************************************)
(* The safety of the three processes, for sockets of every size and with   *)
(* or without nft: a parent that exits leaves nobody behind, and three     *)
(* healthy processes never bring one another down.                         *)
(***************************************************************************)
EXTENDS Supervisor, TLAPS

States == {"unborn", "init", "poll", "recv", "send", "zombie", "gone"}
Causes == {"none", "clean", "term", "eintr", "recv", "send", "sandbox", "panic", "killed"}
Roots == {"killed", "panic", "sandbox", "recv"}

Stopping == parent \in {"waitCapture", "termCrypto", "waitCrypto", "exited"}

\* Where the workers are when the parent is at a given place.  Before the first
\* fork there is no capture worker, before the second no crypto worker; the
\* parent gets past each wait only when the worker is reaped; a worker that has
\* ended has a cause, and one that has not has none.
WorkersInPlace ==
    /\ parent = "boot" => worker["capture"] = "unborn"
    /\ parent \in {"boot", "forked"} => worker["crypto"] = "unborn"
    /\ worker["crypto"] = "unborn" => parent \in {"boot", "forked", "failed", "killed"}
    /\ parent \in {"termCrypto", "waitCrypto", "exited"} => worker["capture"] = "gone"
    /\ parent = "exited" => worker["crypto"] = "gone"
    /\ \A w \in Workers : worker[w] \in {"zombie", "gone"} <=> cause[w] # "none"

\* Whatever passes an end on from one process to another has a root cause: the
\* flag, a SIGTERM for a worker, the end of a worker, the parent's way out.
LinksHaveARoot ==
    flag \/ Stopping \/ (\E w \in Workers : term[w] \/ cause[w] # "none") => RootCause

IndInv == TypeOK /\ WorkersInPlace /\ LinksHaveARoot

\* A root cause is never lost: no step takes back a request, revives the parent
\* or changes why a worker ended.
LEMMA RootKept ==
    ASSUME RootCause,
           asked => asked', nft => nft',
           parent \in {"failed", "killed"} => parent' = parent,
           \A w \in Workers : cause[w] # "none" => cause'[w] = cause[w]
    PROVE  RootCause'
BY DEF RootCause

\* A worker ends, for a reason of its own or for one that has a root.
LEMMA EndInv ==
    ASSUME IndInv, NEW w \in Workers, NEW why \in Causes \ {"none"},
           Alive(w), End(w, why), why \in Roots \/ RootCause,
           UNCHANGED <<parent, term, asks>>,
           toCrypto' \in 0..QueueLimit, UNCHANGED toParent
    PROVE  IndInv'
<1>1. /\ worker' \in [Workers -> States] /\ cause' \in [Workers -> Causes]
      /\ worker'[w] \in {"zombie", "gone"} /\ cause'[w] = why
      /\ \A v \in Workers \ {w} : worker'[v] = worker[v] /\ cause'[v] = cause[v]
  BY DEF IndInv, TypeOK, End, States, Causes
<1>2. flag' \in BOOLEAN
  BY Zenon DEF End
<1>3. TypeOK'
  BY <1>1, <1>2 DEF IndInv, TypeOK, States, Causes, asks
<1>4. WorkersInPlace'
  BY <1>1 DEF IndInv, WorkersInPlace, Alive, Workers
<1>5. RootCause'
  <2>1. CASE why \in Roots
    BY <1>1, <2>1 DEF RootCause, Roots
  <2>2. CASE RootCause
    <3>1. \A v \in Workers : cause[v] # "none" => cause'[v] = cause[v]
      BY <1>1 DEF IndInv, WorkersInPlace, Alive
    <3> QED
      BY <2>2, <3>1, RootKept DEF asks
  <2> QED
    BY <2>1, <2>2
<1> QED
  BY <1>3, <1>4, <1>5 DEF IndInv, LinksHaveARoot

\* A worker that goes on changes nothing that the invariant speaks of.
LEMMA GotoInv ==
    ASSUME IndInv, NEW w \in Workers, NEW s \in {"poll", "recv", "send"},
           Alive(w), Goto(w, s),
           UNCHANGED <<parent, term, asks>>,
           toCrypto' \in 0..QueueLimit, toParent' \in 0..QueueLimit
    PROVE  IndInv'
<1>1. /\ worker' \in [Workers -> States]
      /\ worker'[w] = s /\ \A v \in Workers \ {w} : worker'[v] = worker[v]
      /\ UNCHANGED <<flag, cause>>
  BY DEF IndInv, TypeOK, Goto, States
<1>2. TypeOK'
  BY <1>1 DEF IndInv, TypeOK, States, asks
<1>3. WorkersInPlace'
  BY <1>1 DEF IndInv, WorkersInPlace, Workers, Alive
<1>4. LinksHaveARoot'
  BY <1>1 DEF IndInv, LinksHaveARoot, RootCause, Stopping, asks
<1> QED
  BY <1>2, <1>3, <1>4 DEF IndInv

\* What SIGTERM, and the parent's end, may do to the workers.
LEMMA TerminatedStep ==
    ASSUME TypeOK, NEW W, Terminated(W)
    PROVE  /\ worker' \in [Workers -> States] /\ cause' \in [Workers -> Causes]
           /\ term' \in [Workers -> BOOLEAN]
           /\ \A w \in Workers :
                 \/ worker'[w] = worker[w] /\ cause'[w] = cause[w] /\ worker[w] # "zombie"
                 \/ /\ worker[w] \in {"init", "zombie"}
                    /\ worker'[w] = IF ParentAlive' THEN "zombie" ELSE "gone"
                    /\ cause'[w] = IF worker[w] = "init" THEN "term" ELSE cause[w]
<1>1. \A w \in Workers : worker[w] \in States /\ cause[w] \in Causes /\ term[w] \in BOOLEAN
  BY DEF TypeOK, States, Causes
<1>2. /\ worker' \in [Workers -> States] /\ cause' \in [Workers -> Causes]
      /\ \A w \in Workers :
            \/ worker'[w] = worker[w] /\ cause'[w] = cause[w] /\ worker[w] # "zombie"
            \/ /\ worker[w] \in {"init", "zombie"}
               /\ worker'[w] = IF ParentAlive' THEN "zombie" ELSE "gone"
               /\ cause'[w] = IF worker[w] = "init" THEN "term" ELSE cause[w]
  BY <1>1 DEF Terminated, States, Causes
<1>3. term' \in [Workers -> BOOLEAN]
  BY <1>1 DEF Terminated, Alive
<1> QED
  BY <1>2, <1>3

\* The parent moves on, dies or signals workers, and has not waited for them.
\* Each of these steps has a root cause, or is one.
LEMMA TerminatedInv ==
    ASSUME IndInv, NEW W, Terminated(W), UNCHANGED <<sockets, chld, nft>>,
           \/ parent = "loop" /\ parent' = "waitCapture" /\ flag
           \/ parent = "termCrypto" /\ parent' = "waitCrypto"
           \/ ParentAlive /\ parent' \in {"failed", "killed"}
           \/ parent' = parent /\ HandlesTerm /\ asked',
           asked' \in BOOLEAN, asked => asked', flag' \in BOOLEAN
    PROVE  IndInv'
<1> DEFINE moved(w) ==
              \/ worker'[w] = worker[w] /\ cause'[w] = cause[w] /\ worker[w] # "zombie"
              \/ /\ worker[w] \in {"init", "zombie"}
                 /\ worker'[w] = IF ParentAlive' THEN "zombie" ELSE "gone"
                 /\ cause'[w] = IF worker[w] = "init" THEN "term" ELSE cause[w]
<1>1. /\ worker' \in [Workers -> States] /\ cause' \in [Workers -> Causes]
      /\ term' \in [Workers -> BOOLEAN]
      /\ moved("capture") /\ moved("crypto")
  BY TerminatedStep DEF IndInv, Workers
<1>2. parent' # "boot" /\ parent' # "forked" /\ parent' # "exited"
  BY DEF HandlesTerm, ParentAlive
<1>3. TypeOK'
  BY <1>1 DEF IndInv, TypeOK, States, Causes, sockets
<1>4. WorkersInPlace'
  <2>1. \A w \in Workers : worker'[w] \in {"zombie", "gone"} <=> cause'[w] # "none"
    BY <1>1 DEF IndInv, WorkersInPlace, Workers
  <2>2. worker'["crypto"] = "unborn" => parent' \in {"boot", "forked", "failed", "killed"}
    BY <1>1 DEF IndInv, WorkersInPlace
  <2>3. parent' \in {"termCrypto", "waitCrypto", "exited"} => worker'["capture"] = "gone"
    BY <1>1, <1>2 DEF IndInv, WorkersInPlace
  <2> QED
    BY <1>2, <2>1, <2>2, <2>3 DEF WorkersInPlace
<1>5. RootCause'
  <2>1. CASE parent' \in {"failed", "killed"} \/ asked'
    BY <2>1 DEF RootCause
  <2>2. CASE parent \in {"loop", "termCrypto"} /\ (parent = "loop" => flag)
    <3>1. RootCause
      BY <2>2 DEF IndInv, LinksHaveARoot, Stopping
    <3>2. \A w \in Workers : cause[w] # "none" => cause'[w] = cause[w]
      BY <1>1 DEF IndInv, WorkersInPlace, Workers
    <3> QED
      BY <2>2, <3>1, <3>2, RootKept
  <2> QED
    BY <2>1, <2>2
<1> QED
  BY <1>3, <1>4, <1>5 DEF IndInv, LinksHaveARoot

\* The steps of a worker.
LEMMA WorkersInv ==
    ASSUME IndInv,
           \/ \E w \in Workers : WorkerStep(w) \/ RecvFails(w) \/ Kill(w)
           \/ CaptureRecv \/ CaptureSend \/ CryptoRecv \/ CryptoPanic \/ CryptoSend
    PROVE  IndInv'
<1>0. toCrypto \in 0..QueueLimit /\ toParent \in 0..QueueLimit /\ QueueLimit \in Nat
  BY SupervisorAssumption DEF IndInv, TypeOK
<1>1. ASSUME NEW w \in Workers, WorkerStep(w) \/ RecvFails(w) \/ Kill(w) PROVE IndInv'
  <2>1. Alive(w) /\ UNCHANGED <<parent, term, asks, toCrypto, toParent>>
    BY <1>1 DEF WorkerStep, WorkerInit, Poll, RecvTimeout, RecvInterrupted, RecvFails, Kill,
                Alive, sockets
  <2>2. \/ \E why \in Roots : End(w, why)
        \/ term[w] /\ \E why \in {"clean", "eintr"} : End(w, why)
        \/ \E s \in {"poll", "recv", "send"} : Goto(w, s)
    BY <1>1 DEF WorkerStep, WorkerInit, Poll, RecvTimeout, RecvInterrupted, RecvFails, Kill, Roots
  <2>3. term[w] => RootCause
    BY DEF IndInv, LinksHaveARoot
  <2>4. Roots \subseteq Causes \ {"none"} /\ {"clean", "eintr"} \subseteq Causes \ {"none"}
    BY DEF Roots, Causes
  <2>5. CASE \E why \in Roots : End(w, why)
    BY <1>0, <2>1, <2>4, <2>5, EndInv
  <2>6. CASE term[w] /\ \E why \in {"clean", "eintr"} : End(w, why)
    BY <1>0, <2>1, <2>3, <2>4, <2>6, EndInv
  <2>7. CASE \E s \in {"poll", "recv", "send"} : Goto(w, s)
    BY <1>0, <2>1, <2>7, GotoInv
  <2> QED
    BY <2>2, <2>5, <2>6, <2>7
<1>2. CASE CaptureRecv
  BY <1>0, <1>2, GotoInv DEF CaptureRecv, Alive, Workers, sockets
<1>3. CASE CryptoRecv
  <2>1. toCrypto' \in 0..QueueLimit
    BY <1>0, <1>3 DEF CryptoRecv
  <2> QED
    BY <1>0, <1>3, <2>1, GotoInv DEF CryptoRecv, Alive, Workers
<1>4. CASE CryptoPanic
  <2>1. toCrypto' \in 0..QueueLimit
    BY <1>0, <1>4 DEF CryptoPanic
  <2> QED
    BY <1>4, <2>1, EndInv DEF CryptoPanic, Alive, Workers, Causes, Roots
<1>5. CASE CaptureSend
  <2>1. CASE CryptoReads
    <3>1. toCrypto' \in 0..QueueLimit
      BY <1>0, <1>5, <2>1 DEF CaptureSend
    <3> QED
      BY <1>0, <1>5, <2>1, <3>1, GotoInv DEF CaptureSend, Alive, Workers
  <2>2. CASE ~CryptoReads
    <3>1. /\ worker["capture"] = "send" /\ End("capture", "send")
          /\ UNCHANGED <<parent, term, toCrypto, toParent, asks>>
          /\ ~Alive("crypto") /\ parent \notin {"forked", "closing"}
      BY <1>5, <2>2 DEF CaptureSend, CryptoReads
    \* The crypto worker has ended, or was never forked because the parent failed.
    <3>2. RootCause
      <4>1. worker["crypto"] \in {"unborn", "zombie", "gone"} /\ parent # "boot"
        BY <3>1 DEF IndInv, TypeOK, WorkersInPlace, Alive, Workers
      <4>2. CASE worker["crypto"] = "unborn"
        BY <3>1, <4>1, <4>2 DEF IndInv, WorkersInPlace, RootCause
      <4>3. CASE worker["crypto"] \in {"zombie", "gone"}
        BY <4>3 DEF IndInv, WorkersInPlace, LinksHaveARoot, Workers
      <4> QED
        BY <4>1, <4>2, <4>3
    <3> QED
      BY <1>0, <3>1, <3>2, EndInv DEF Alive, Workers, Causes
  <2> QED
    BY <2>1, <2>2
<1>6. CASE CryptoSend
  <2>1. CASE ParentAlive
    <3>1. toParent' \in 0..QueueLimit
      BY <1>0, <1>6, <2>1 DEF CryptoSend
    <3> QED
      BY <1>0, <1>6, <2>1, <3>1, GotoInv DEF CryptoSend, Alive, Workers
  <2>2. CASE ~ParentAlive
    <3>1. /\ worker["crypto"] = "send" /\ End("crypto", "send")
          /\ UNCHANGED <<parent, term, toCrypto, toParent, asks>>
      BY <1>6, <2>2 DEF CryptoSend
    <3>2. RootCause
      BY <2>2 DEF IndInv, LinksHaveARoot, Stopping, RootCause, ParentAlive
    <3> QED
      BY <1>0, <3>1, <3>2, EndInv DEF Alive, Workers, Causes
  <2> QED
    BY <2>1, <2>2
<1> QED
  BY <1>1, <1>2, <1>3, <1>4, <1>5, <1>6

\* The steps of the parent and of its environment.
LEMMA ParentInv ==
    ASSUME IndInv,
           ParentStep \/ KillParent \/ \E W \in {{}, Workers} : Stop(W)
    PROVE  IndInv'
<1>0. TypeOK
  BY DEF IndInv
<1>1. ASSUME ForkCapture \/ ForkCrypto PROVE IndInv'
  <2>1. PICK w \in Workers :
           /\ worker' = [worker EXCEPT ![w] = "init"]
           /\ UNCHANGED <<flag, cause, term, toCrypto, toParent, asks>>
           /\ \/ w = "capture" /\ parent = "boot" /\ parent' = "forked"
              \/ w = "crypto" /\ parent = "forked" /\ parent' = "closing"
    BY <1>1 DEF ForkCapture, ForkCrypto, Goto, Workers, sockets
  <2>2. /\ worker' \in [Workers -> States] /\ worker'[w] = "init"
        /\ \A v \in Workers \ {w} : worker'[v] = worker[v]
    BY <1>0, <2>1 DEF TypeOK, States
  <2>3. TypeOK'
    BY <1>0, <2>1, <2>2 DEF TypeOK, States, asks
  <2>4. WorkersInPlace'
    BY <2>1, <2>2 DEF IndInv, WorkersInPlace, Workers
  <2>5. LinksHaveARoot'
    BY <2>1 DEF IndInv, LinksHaveARoot, Stopping, RootCause, asks
  <2> QED
    BY <2>3, <2>4, <2>5 DEF IndInv
<1>2. ASSUME DropReader \/ Arm \/ WatchChildren \/ ParentRecv \/ HandleMsg PROVE IndInv'
  <2>1. /\ UNCHANGED <<worker, term, cause, asked, toCrypto>>
        /\ parent \in {"closing", "both", "armed", "loop", "handle"}
        /\ parent' \in {"both", "armed", "loop", "handle", "reap"}
        /\ \/ UNCHANGED <<flag, nft>>
           \/ flag' = TRUE /\ nft' = TRUE
    BY <1>2 DEF DropReader, Arm, WatchChildren, ParentRecv, HandleMsg, workers, sockets, asks
  <2>2. toParent' \in 0..QueueLimit
    BY <1>0, <1>2, SupervisorAssumption
       DEF TypeOK, DropReader, Arm, WatchChildren, ParentRecv, HandleMsg, sockets
  <2>3. chld' \in BOOLEAN
    <3>1. chld' = chld \/ chld' \in BOOLEAN
      BY <1>2 DEF DropReader, Arm, WatchChildren, ParentRecv, HandleMsg, asks
    <3> QED
      BY <1>0, <3>1, Zenon DEF TypeOK
  <2>4. TypeOK'
    BY <1>0, <2>1, <2>2, <2>3 DEF TypeOK
  <2>5. WorkersInPlace'
    BY <2>1 DEF IndInv, WorkersInPlace
  <2>6. LinksHaveARoot'
    BY <2>1 DEF IndInv, LinksHaveARoot, Stopping, RootCause
  <2> QED
    BY <2>4, <2>5, <2>6 DEF IndInv
<1>3. ASSUME TryReap \/ WaitCapture \/ WaitCrypto PROVE IndInv'
  <2>1. UNCHANGED <<term, cause, asks, toCrypto, toParent>>
    BY <1>3 DEF TryReap, WaitCapture, WaitCrypto, sockets
  <2>2. \A w \in Workers :
           \/ worker'[w] = worker[w]
           \/ worker[w] \in {"zombie", "gone"} /\ worker'[w] = "gone"
    BY <1>0, <1>3 DEF TypeOK, TryReap, WaitCapture, WaitCrypto
  <2>3. worker' \in [Workers -> States]
    BY <1>0, <1>3 DEF TypeOK, States, TryReap, WaitCapture, WaitCrypto
  <2>4. /\ \/ parent = "reap" /\ parent' = "loop"
           \/ parent = "waitCapture" /\ parent' = "termCrypto" /\ worker'["capture"] = "gone"
           \/ parent = "waitCrypto" /\ parent' = "exited" /\ worker'["crypto"] = "gone"
        /\ \/ flag' = flag
           \/ flag' = TRUE /\ \E w \in Workers : worker[w] = "zombie"
    BY <1>0, <1>3 DEF TypeOK, Workers, TryReap, WaitCapture, WaitCrypto
  <2>5. TypeOK'
    BY <1>0, <2>1, <2>3, <2>4 DEF TypeOK, States, asks
  <2>6. WorkersInPlace'
    BY <2>1, <2>2, <2>4 DEF IndInv, WorkersInPlace, Workers
  <2>7. LinksHaveARoot'
    <3>1. RootCause => RootCause'
      BY <2>1, <2>4 DEF RootCause, asks
    <3>2. (\E w \in Workers : worker[w] = "zombie") => RootCause
      BY DEF IndInv, WorkersInPlace, LinksHaveARoot
    <3> QED
      BY <2>1, <2>4, <3>1, <3>2 DEF IndInv, LinksHaveARoot, Stopping
  <2> QED
    BY <2>5, <2>6, <2>7 DEF IndInv
<1>4. ASSUME StartFails \/ TermCapture \/ TermCrypto \/ KillParent PROVE IndInv'
  <2>1. /\ \E W : Terminated(W)
        /\ UNCHANGED <<flag, sockets, chld, asked, nft>>
        /\ \/ parent = "loop" /\ parent' = "waitCapture" /\ flag
           \/ parent = "termCrypto" /\ parent' = "waitCrypto"
           \/ ParentAlive /\ parent' \in {"failed", "killed"}
    BY <1>4 DEF StartFails, TermCapture, TermCrypto, KillParent, ParentAlive, asks
  <2> QED
    BY <1>0, <2>1, TerminatedInv DEF TypeOK
<1>5. ASSUME NEW W, Stop(W) PROVE IndInv'
  <2>1. /\ Terminated(W) /\ UNCHANGED <<sockets, chld, nft>> /\ asked' = TRUE
        /\ \/ parent' = parent /\ HandlesTerm /\ flag' = TRUE
           \/ ParentAlive /\ parent' = "killed" /\ flag' = flag
    BY <1>5 DEF Stop
  <2>2. flag' \in BOOLEAN
    BY <1>0, <2>1 DEF TypeOK
  <2> QED
    BY <2>1, <2>2, TerminatedInv
<1> QED
  BY <1>1, <1>2, <1>3, <1>4, <1>5 DEF ParentStep

\* So the invariant holds of every behaviour.
LEMMA SupervisorInvariant == Spec => []IndInv
<1>1. Init => IndInv
  <2> SUFFICES ASSUME Init PROVE IndInv
    OBVIOUS
  <2>1. TypeOK
    <3>1. /\ term \in [Workers -> BOOLEAN]
          /\ flag \in BOOLEAN /\ asked \in BOOLEAN /\ chld \in BOOLEAN /\ nft \in BOOLEAN
      BY Zenon DEF Init
    <3>2. 0 \in 0..QueueLimit
      BY SupervisorAssumption
    <3>3. toCrypto \in 0..QueueLimit /\ toParent \in 0..QueueLimit
      BY <3>2 DEF Init
    <3> QED
      BY <3>1, <3>3 DEF Init, TypeOK
  <2>2. \A w \in Workers : worker[w] = "unborn" /\ cause[w] = "none" /\ ~term[w]
    BY DEF Init
  <2>3. parent = "boot" /\ flag = FALSE
    BY DEF Init
  <2> QED
    BY <2>1, <2>2, <2>3 DEF IndInv, WorkersInPlace, LinksHaveARoot, Stopping, Workers
<1>2. IndInv /\ [Next]_vars => IndInv'
  <2>1. IndInv /\ UNCHANGED vars => IndInv'
    BY DEF vars, workers, sockets, asks, IndInv, TypeOK, WorkersInPlace, LinksHaveARoot,
           RootCause, Stopping
  <2> QED
    BY <2>1, WorkersInv, ParentInv DEF Next
<1> QED
  BY <1>1, <1>2, PTL DEF Spec

\* terminate_and_wait, for both workers and wherever signals and deaths fall:
\* when run returns Ok, no process and no zombie is left.
THEOREM SupervisorExitLeavesNoWorker == Spec => []ExitLeavesNoWorker
<1>1. IndInv => ExitLeavesNoWorker
  BY DEF IndInv, WorkersInPlace, ExitLeavesNoWorker, Workers
<1> QED
  BY <1>1, SupervisorInvariant, PTL

\* run and the workers' loops, for every order of forks, closes, signals and sends:
\* the flag rises, and a process ends, only when someone asked the daemon to stop,
\* an nft process ended, the parent failed or died, or a worker was killed,
\* panicked, could not start or could not receive.
THEOREM SupervisorEndsHaveARoot == Spec => []EndsHaveARoot
<1>1. IndInv => EndsHaveARoot
  BY DEF IndInv, LinksHaveARoot, EndsHaveARoot, Stopping, ParentAlive, RootCause
<1> QED
  BY <1>1, SupervisorInvariant, PTL
=============================================================================
