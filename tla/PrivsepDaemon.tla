---------------------------- MODULE PrivsepDaemon ----------------------------
(***************************************************************************)
(* fwknoxd with privilege separation on, the path of a packet: the crypto  *)
(* worker matches it, checks its timestamp and the policy                  *)
(* (validate_capture_msg), and sends a ValidRequest through a datagram     *)
(* socket to the parent, which does the replay check and opens the         *)
(* firewall (handle_crypto_msg).  The processes' lives are module          *)
(* Supervisor; here all of them come and go together.                      *)
(*                                                                         *)
(* The queue from the capture worker to the crypto worker comes before     *)
(* every check, so it is one more place where the network may delay a      *)
(* datagram.  NoMatch and Rejected messages carry nothing to act on.       *)
(***************************************************************************)
EXTENDS DaemonCore

CONSTANT QueueLimit  \* datagrams the socket to the parent holds

ASSUME QueueLimitAssumption == QueueLimit \in Nat \ {0}

\* ValidRequest messages on their way to the parent: the packet, and the
\* highest value of the clock when the worker validated it.
VARIABLE queue

privsepVars == <<coreVars, queue>>

PrivsepInit == CoreInit /\ queue = <<>>

\* Mutant of Validate: the policy is left to the parent, after the replay check.
ValidateWithoutPolicy(p) ==
    /\ pc # "down"
    /\ Len(queue) < QueueLimit
    /\ Matched(p)
    /\ ValidateAgainstClock(p, now)
    /\ queue' = Append(queue, [pkt |-> p, at |-> high])
    /\ UNCHANGED coreVars

\* validate_capture_msg and send_msg in the crypto worker: a full socket makes
\* the worker wait.
Validate(p) ==
    /\ pc # "down"
    /\ Len(queue) < QueueLimit
    /\ Matched(p)
    /\ ValidateAgainstClock(p, now)
    /\ PolicyAllows(p)
    /\ queue' = Append(queue, [pkt |-> p, at |-> high])
    /\ UNCHANGED coreVars

\* handle_crypto_msg, the replay check: the nonce is in the cache, ...
Replay ==
    /\ pc = "loop"
    /\ queue # <<>>
    /\ Has(cache, Head(queue).pkt.nonce)
    /\ queue' = Tail(queue)
    /\ UNCHANGED coreVars

\* The clock moved by more than was expected while the request waited.
Overdue(r) == high > r.at + MaxQueueDelay

\* ... or it is not.  The parent does not look at the timestamp again.
CheckAndInsert ==
    /\ pc = "loop"
    /\ queue # <<>>
    /\ LET r == Head(queue)
       IN  Insert(r.pkt, IF Overdue(r) THEN {r.pkt.nonce} ELSE {})
    /\ queue' = Tail(queue)

\* What follows in handle_crypto_msg, and the rest of the parent's loop.
ParentStep ==
    /\ SaveOk \/ SaveErr \/ OpenAccess \/ NoAccess \/ Prune
    /\ UNCHANGED queue

\* The workers die with the parent, and what they had in flight with them.
Stop ==
    /\ Shutdown \/ Crash
    /\ queue' = <<>>

Boot ==
    /\ Start \/ StartErr
    /\ UNCHANGED queue

PrivsepNext ==
    \/ \E p \in Packets : Validate(p)
    \/ Replay \/ CheckAndInsert \/ ParentStep \/ Stop \/ Boot
    \/ \E r \in rules : Expire(r) /\ UNCHANGED queue
    \/ \E t \in 0..MaxTime : Clock(t) /\ UNCHANGED queue

PrivsepSpec == PrivsepInit /\ [][PrivsepNext]_privsepVars

-----------------------------------------------------------------------------
(* Properties *)

\* A step in which a nonce is spent only by a datagram that the policy allows.
SpendsAllowed ==
    \A n \in DOMAIN cache'.stamp \ DOMAIN cache.stamp :
        pc = "down" \/ (cur'.nonce = n /\ Matched(cur') /\ PolicyAllows(cur'))

\* Only ValidRequest messages reach the replay check.  Whenever a running daemon
\* spends a nonce, the very datagram it spends it on is one the policy allows: a
\* copy that was rejected for the address it came from leaves the nonce to the
\* copy that is allowed.
OnlyAllowedSpend == [][SpendsAllowed]_privsepVars
=============================================================================
