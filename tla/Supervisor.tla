------------------------------ MODULE Supervisor ------------------------------
(***************************************************************************)
(* The lives of the three processes of the privilege-separated daemon:     *)
(* privsep_run.rs forks the capture and the crypto worker, watches them    *)
(* and takes them down; workers.rs runs their loops; fork.rs signals and   *)
(* reaps.  They are joined by two bounded datagram sockets, capture to     *)
(* crypto and crypto to parent.  A message is counted, not described: what *)
(* it makes the parent do is module PrivsepDaemon.                         *)
(*                                                                         *)
(* A worker is "unborn", in "init" (forked, signal handlers not installed, *)
(* so SIGTERM kills it), at "poll" (about to test is_shutdown), in "recv", *)
(* in "send", a "zombie", or "gone" (reaped).  A blocked send is restarted *)
(* after a signal (signal-hook registers with SA_RESTART); a recv on a     *)
(* socket with a timeout is not, and fails with EINTR.                     *)
(***************************************************************************)
EXTENDS Naturals

CONSTANTS
    QueueLimit, \* datagrams a socket holds before its sender blocks
    SpawnsNft   \* open_access runs nft as a child process (NftablesBackend),
                \* or not (MockBackend)

ASSUME SupervisorAssumption == QueueLimit \in Nat \ {0} /\ SpawnsNft \in BOOLEAN

Workers == {"capture", "crypto"}

VARIABLES
    parent,  \* where the parent is, see TypeOK
    flag,    \* the parent's ShutdownSignal
    chld,    \* the parent's SIGCHLD handler is registered
    worker,  \* worker[w]: the state of worker w
    term,    \* term[w]: worker w's ShutdownSignal
    toCrypto, toParent, \* datagrams in the two sockets
    asked,   \* history: someone asked the daemon to stop
    nft,     \* history: the end of an nft process has raised SIGCHLD
    cause    \* cause[w]: history: why worker w ended

workers == <<worker, term, cause>>
sockets == <<toCrypto, toParent>>
asks == <<chld, asked, nft>>
vars == <<parent, flag, workers, sockets, asks>>

Init ==
    /\ parent = "boot"
    /\ flag = FALSE /\ chld = FALSE
    /\ worker = [w \in Workers |-> "unborn"]
    /\ term = [w \in Workers |-> FALSE]
    /\ toCrypto = 0 /\ toParent = 0
    /\ asked = FALSE /\ nft = FALSE
    /\ cause = [w \in Workers |-> "none"]

Alive(w) == worker[w] \in {"init", "poll", "recv", "send"}
ParentAlive == parent \notin {"exited", "failed", "killed"}

\* The parent has handlers for SIGTERM and SIGINT from "armed" on.
HandlesTerm == ParentAlive /\ parent \notin {"boot", "forked", "closing", "both"}

\* Worker w ends: the kernel sends SIGCHLD to the parent.  If the parent is
\* gone, init reaps the worker.
End(w, why) ==
    /\ worker' = [worker EXCEPT ![w] = IF ParentAlive THEN "zombie" ELSE "gone"]
    /\ cause' = [cause EXCEPT ![w] = why]
    /\ flag' = (flag \/ (chld /\ ParentAlive))

Goto(w, s) ==
    /\ worker' = [worker EXCEPT ![w] = s]
    /\ UNCHANGED <<flag, cause>>

\* What SIGTERM does to the workers W: without handlers a worker dies of it.
\* Written for steps in which the parent may go as well, and init reaps.
Terminated(W) ==
    LET dead(w) == worker[w] = "zombie" \/ (w \in W /\ worker[w] = "init")
    IN  /\ worker' = [w \in Workers |->
               IF ~dead(w) THEN worker[w] ELSE IF ParentAlive' THEN "zombie" ELSE "gone"]
        /\ cause' = [w \in Workers |->
               IF dead(w) /\ worker[w] = "init" THEN "term" ELSE cause[w]]
        /\ term' = [w \in Workers |-> term[w] \/ (w \in W /\ Alive(w))]

-----------------------------------------------------------------------------
(* The workers *)

\* install_handlers, apply_worker_sandbox and set_read_timeout: any may fail.
WorkerInit(w) ==
    /\ worker[w] = "init"
    /\ Goto(w, "poll") \/ End(w, "sandbox")
    /\ UNCHANGED <<parent, term, sockets, asks>>

\* Mutant of Poll: is_shutdown is not tested.
PollIgnoresTerm(w) ==
    /\ worker[w] = "poll"
    /\ Goto(w, "recv")
    /\ UNCHANGED <<parent, term, sockets, asks>>

\* The test at the top of both loops.
Poll(w) ==
    /\ worker[w] = "poll"
    /\ IF term[w] THEN End(w, "clean") ELSE Goto(w, "recv")
    /\ UNCHANGED <<parent, term, sockets, asks>>

\* recv returns with a timeout.
RecvTimeout(w) ==
    /\ worker[w] = "recv"
    /\ w = "crypto" => toCrypto = 0
    /\ Goto(w, "poll")
    /\ UNCHANGED <<parent, term, sockets, asks>>

\* SIGTERM finds the worker in recv, which fails with EINTR: the loop returns
\* the error and the worker exits with status 1.
RecvInterrupted(w) ==
    /\ worker[w] = "recv"
    /\ term[w]
    /\ End(w, "eintr")
    /\ UNCHANGED <<parent, term, sockets, asks>>

\* recv fails for another reason, or what it returns cannot be decoded: the loop
\* returns the error.
RecvFails(w) ==
    /\ worker[w] = "recv"
    /\ End(w, "recv")
    /\ UNCHANGED <<parent, term, sockets, asks>>

\* run_capture_worker: a datagram the rate limiter passes is to be sent on.
CaptureRecv ==
    /\ worker["capture"] = "recv"
    /\ Goto("capture", "send")
    /\ UNCHANGED <<parent, term, sockets, asks>>

\* Mutant of CryptoReads: the parent closes its copy before the second fork.
CryptoReadsAlone == Alive("crypto")

\* The reading end is open in the crypto worker, and in the parent until it has
\* forked that worker and dropped its own copy.
CryptoReads == Alive("crypto") \/ parent \in {"forked", "closing"}

CaptureSend ==
    /\ worker["capture"] = "send"
    /\ IF CryptoReads
       THEN /\ toCrypto < QueueLimit
            /\ toCrypto' = toCrypto + 1
            /\ Goto("capture", "poll")
       ELSE /\ End("capture", "send")
            /\ UNCHANGED toCrypto
    /\ UNCHANGED <<parent, term, toParent, asks>>

\* run_crypto_worker: a message is validated, and the reply is to be sent on.
CryptoRecv ==
    /\ worker["crypto"] = "recv"
    /\ toCrypto > 0
    /\ toCrypto' = toCrypto - 1
    /\ Goto("crypto", "send")
    /\ UNCHANGED <<parent, term, toParent, asks>>

\* The validator panics: the panic hook aborts the process before catch_unwind
\* can see the panic.
CryptoPanic ==
    /\ worker["crypto"] = "recv"
    /\ toCrypto > 0
    /\ toCrypto' = toCrypto - 1
    /\ End("crypto", "panic")
    /\ UNCHANGED <<parent, term, toParent, asks>>

\* Mutant of CryptoSend: a failing send is retried like one without room.
CryptoSendRetries ==
    /\ worker["crypto"] = "send"
    /\ ParentAlive /\ toParent < QueueLimit
    /\ toParent' = toParent + 1
    /\ Goto("crypto", "poll")
    /\ UNCHANGED <<parent, term, toCrypto, asks>>

CryptoSend ==
    /\ worker["crypto"] = "send"
    /\ IF ParentAlive
       THEN /\ toParent < QueueLimit
            /\ toParent' = toParent + 1
            /\ Goto("crypto", "poll")
       ELSE /\ End("crypto", "send")
            /\ UNCHANGED toParent
    /\ UNCHANGED <<parent, term, toCrypto, asks>>

-----------------------------------------------------------------------------
(* The parent *)

\* run: fork the capture worker.
ForkCapture ==
    /\ parent = "boot"
    /\ parent' = "forked"
    /\ Goto("capture", "init")
    /\ UNCHANGED <<term, sockets, asks>>

\* run_parent_after_capture_fork: fork the crypto worker.
ForkCrypto ==
    /\ parent = "forked"
    /\ parent' = "closing"
    /\ Goto("crypto", "init")
    /\ UNCHANGED <<term, sockets, asks>>

\* The parent drops its copies of the workers' ends, crypto_reader among them.
DropReader ==
    /\ parent = "closing"
    /\ parent' = "both"
    /\ UNCHANGED <<flag, workers, sockets, asks>>

\* Mutant of StartFails: ForkedWorker has no Drop.
StartFailsQuietly ==
    /\ parent \in {"boot", "forked", "both", "armed"}
    /\ parent' = "failed"
    /\ Terminated({})
    /\ UNCHANGED <<flag, sockets, asks>>

\* A fork fails, or install_handlers does, or set_read_timeout after it: run
\* returns the error, and ForkedWorker::drop sends SIGTERM to the workers there
\* are.
StartFails ==
    /\ parent \in {"boot", "forked", "both", "armed"}
    /\ parent' = "failed"
    /\ Terminated(Workers)
    /\ UNCHANGED <<flag, sockets, asks>>

\* run_parent_loop: install_handlers, ...
Arm ==
    /\ parent = "both"
    /\ parent' = "armed"
    /\ UNCHANGED <<flag, workers, sockets, asks>>

\* ... then the SIGCHLD handler, without which the parent goes on if it cannot be
\* registered.  A worker that ended before has left no trace in the flag.
WatchChildren ==
    /\ parent = "armed"
    /\ parent' = "loop"
    /\ chld' \in BOOLEAN
    /\ UNCHANGED <<flag, workers, sockets, asked, nft>>

\* The loop's condition, and recv_msg with its timeout.
ParentRecv ==
    /\ parent = "loop" /\ ~flag
    /\ IF toParent > 0
       THEN toParent' = toParent - 1 /\ parent' = "handle"
       ELSE UNCHANGED toParent /\ parent' = "reap"
    /\ UNCHANGED <<flag, workers, toCrypto, asks>>

\* handle_crypto_msg.  When it opens access through nft, the end of the nft
\* process is a SIGCHLD too.
HandleMsg ==
    /\ parent = "handle"
    /\ parent' = "reap"
    /\ \/ SpawnsNft /\ chld /\ flag' = TRUE /\ nft' = TRUE
       \/ UNCHANGED <<flag, nft>>
    /\ UNCHANGED <<workers, sockets, chld, asked>>

\* Mutant of TryReap: the parent trusts the SIGCHLD handler alone.
TryReapNothing ==
    /\ parent = "reap"
    /\ parent' = "loop"
    /\ UNCHANGED <<flag, workers, sockets, asks>>

\* try_reap_any_child: waitpid(-1, WNOHANG), once per iteration.
TryReap ==
    /\ parent = "reap"
    /\ parent' = "loop"
    /\ IF \E w \in Workers : worker[w] = "zombie"
       THEN \E w \in Workers :
                /\ worker[w] = "zombie"
                /\ worker' = [worker EXCEPT ![w] = "gone"]
                /\ flag' = TRUE
       ELSE UNCHANGED <<worker, flag>>
    /\ UNCHANGED <<term, cause, sockets, asks>>

\* Out of the loop: terminate_and_wait sends SIGTERM to the capture worker, ...
TermCapture ==
    /\ parent = "loop" /\ flag
    /\ parent' = "waitCapture"
    /\ Terminated({"capture"})
    /\ UNCHANGED <<flag, sockets, asks>>

\* Mutant of WaitCapture: the worker is signalled but not waited for.
WaitCaptureNot ==
    /\ parent = "waitCapture"
    /\ parent' = "termCrypto"
    /\ UNCHANGED <<flag, workers, sockets, asks>>

\* ... and waits for its end (a worker that is reaped already is ECHILD).  Then
\* the crypto worker is signalled ...
WaitCapture ==
    /\ parent = "waitCapture"
    /\ worker["capture"] \in {"zombie", "gone"}
    /\ worker' = [worker EXCEPT !["capture"] = "gone"]
    /\ parent' = "termCrypto"
    /\ UNCHANGED <<flag, term, cause, sockets, asks>>

TermCrypto ==
    /\ parent = "termCrypto"
    /\ parent' = "waitCrypto"
    /\ Terminated({"crypto"})
    /\ UNCHANGED <<flag, sockets, asks>>

\* ... and reaped; flush, save_to_file, and run returns Ok, whatever ended the
\* workers: the process exits with status 0.
WaitCrypto ==
    /\ parent = "waitCrypto"
    /\ worker["crypto"] \in {"zombie", "gone"}
    /\ worker' = [worker EXCEPT !["crypto"] = "gone"]
    /\ parent' = "exited"
    /\ UNCHANGED <<flag, term, cause, sockets, asks>>

-----------------------------------------------------------------------------
(* The environment *)

\* SIGTERM or SIGINT for the parent alone, or for every process of the service
\* (systemd, a terminal).  A parent without handlers dies of it.
Stop(W) ==
    /\ ParentAlive
    /\ ~asked
    /\ asked' = TRUE
    /\ IF HandlesTerm
       THEN flag' = TRUE /\ UNCHANGED parent
       ELSE parent' = "killed" /\ UNCHANGED flag
    /\ Terminated(W)
    /\ UNCHANGED <<sockets, chld, nft>>

\* A worker is killed: SIGKILL, the OOM killer, a system call seccomp forbids.
Kill(w) ==
    /\ Alive(w)
    /\ End(w, "killed")
    /\ UNCHANGED <<parent, term, sockets, asks>>

\* The parent is killed.
KillParent ==
    /\ ParentAlive
    /\ parent' = "killed"
    /\ Terminated({})
    /\ UNCHANGED <<flag, sockets, asks>>

WorkerStep(w) ==
    WorkerInit(w) \/ Poll(w) \/ RecvTimeout(w) \/ RecvInterrupted(w)

ParentStep ==
    \/ ForkCapture \/ ForkCrypto \/ DropReader \/ StartFails \/ Arm \/ WatchChildren
    \/ ParentRecv \/ HandleMsg \/ TryReap \/ TermCapture \/ WaitCapture \/ TermCrypto \/ WaitCrypto

Next ==
    \/ \E w \in Workers : WorkerStep(w) \/ RecvFails(w) \/ Kill(w)
    \/ CaptureRecv \/ CaptureSend \/ CryptoRecv \/ CryptoPanic \/ CryptoSend
    \/ ParentStep
    \/ \E W \in {{}, Workers} : Stop(W)
    \/ KillParent

\* Every process that can take a step is scheduled: recv with a timeout returns,
\* and a send with room succeeds.  Nothing is assumed of the traffic, of panics,
\* of errors or of signals.
Fairness ==
    /\ WF_vars(ParentStep)
    /\ WF_vars(WorkerStep("capture") \/ CaptureSend)
    /\ WF_vars(WorkerStep("crypto") \/ CryptoRecv \/ CryptoSend)

Spec == Init /\ [][Next]_vars /\ Fairness

-----------------------------------------------------------------------------
(* Properties *)

\* States have their types, and no socket holds more than its limit.
TypeOK ==
    /\ parent \in {"boot", "forked", "closing", "both", "armed", "loop", "handle", "reap",
                   "waitCapture", "termCrypto", "waitCrypto", "exited", "failed", "killed"}
    /\ worker \in [Workers -> {"unborn", "init", "poll", "recv", "send", "zombie", "gone"}]
    /\ term \in [Workers -> BOOLEAN]
    /\ toCrypto \in 0..QueueLimit /\ toParent \in 0..QueueLimit
    /\ flag \in BOOLEAN /\ chld \in BOOLEAN /\ asked \in BOOLEAN /\ nft \in BOOLEAN
    /\ cause \in [Workers -> {"none", "clean", "term", "eintr", "recv", "send", "sandbox",
                              "panic", "killed"}]

\* privsep_run.rs:242: the parent stops because it was asked to, or because "either
\* worker dies", and for no other reason.
StopsOnlyOnCause == flag => asked \/ \E w \in Workers : cause[w] # "none"

\* What comes from outside the three processes' handling of one another: a
\* request to stop, the end of an nft process, the parent's own failure or death,
\* and a worker that is killed, panics, cannot start or cannot receive.
RootCause ==
    \/ asked \/ nft
    \/ parent \in {"failed", "killed"}
    \/ \E w \in Workers : cause[w] \in {"killed", "panic", "sandbox", "recv"}

\* run, run_capture_worker, run_crypto_worker: three healthy processes never bring
\* one another down.  Whenever the shutdown flag is up, or any of the three has
\* ended, there is a root cause: no process mistakes the order of the forks, of
\* the closing of socket ends or of the signals for the death of another.
EndsHaveARoot ==
    flag \/ ~ParentAlive \/ (\E w \in Workers : cause[w] # "none") => RootCause

\* fork.rs:80: when run returns an error on the way up, whichever of its steps
\* failed, every worker there is comes to its end.
FailedStartEndsWorkers == \A w \in Workers : parent = "failed" ~> ~Alive(w)

\* workers.rs:72, 158: a worker that has something to send to a process that is
\* gone ends.  It is the only way an orphan learns of the death, because a
\* datagram socket does not tell a reader that its peer is gone.
SendersNoticeTheDead ==
    /\ worker["crypto"] = "send" /\ ~ParentAlive ~> ~Alive("crypto")
    /\ worker["capture"] = "send" /\ ~CryptoReads ~> ~Alive("capture")

\* privsep_run.rs:44: when run returns Ok, both workers are reaped: no process and
\* no zombie is left.
ExitLeavesNoWorker == parent = "exited" => \A w \in Workers : worker[w] = "gone"

ShuttingDown == parent \in {"waitCapture", "termCrypto", "waitCrypto"} \/ ~ParentAlive

\* The end of a worker makes the parent shut down, even when its SIGCHLD came
\* before there was a handler (try_reap_any_child).
WorkerEndStopsParent ==
    \A w \in Workers : worker[w] = "zombie" ~> ShuttingDown

\* The crypto worker waits for room in a socket nobody reads any more, and the
\* parent waits for the crypto worker, or for the capture worker, which waits
\* for the crypto worker.
Wedged ==
    /\ worker["crypto"] = "send" /\ toParent = QueueLimit
    /\ \/ parent = "waitCrypto"
       \/ parent = "waitCapture" /\ worker["capture"] = "send" /\ toCrypto = QueueLimit

\* Once the shutdown flag is set the parent gets to its end, unless it wedges:
\* there is no other way for run_parent_loop to hang.
ShutdownEndsOrWedges == flag ~> (~ParentAlive \/ Wedged)

\* privsep_run.rs:44: run "returns when a shutdown signal has been fully handled".
ShutdownEnds == flag ~> ~ParentAlive
=============================================================================
