----------------------------- MODULE SingleDaemon -----------------------------
(***************************************************************************)
(* fwknoxd with privilege separation off: the loop of run.rs takes one     *)
(* datagram at a time through process_packet, whose order is timestamp,    *)
(* replay cache, policy, firewall.                                         *)
(***************************************************************************)
EXTENDS DaemonCore

\* Mutant of Receive: the datagram is not handed on.
ReceiveEmptyHanded(p) ==
    /\ pc = "loop"
    /\ Matched(p)
    /\ ValidateAgainstClock(p, now)
    /\ pc' = "replay"
    /\ UNCHANGED <<clock, cur, store, kernel>>

\* Steps 1 and 2 of process_packet.  A datagram that does not match, or whose
\* timestamp is out of range, is logged and changes nothing.
Receive(p) ==
    /\ pc = "loop"
    /\ Matched(p)
    /\ ValidateAgainstClock(p, now)
    /\ pc' = "replay"
    /\ cur' = p
    /\ UNCHANGED <<clock, store, kernel>>

\* Step 3 finds the nonce in the cache: ProcessResult::Replay.
SingleReplay ==
    /\ pc = "replay"
    /\ Has(cache, cur.nonce)
    /\ Done
    /\ UNCHANGED <<clock, store, kernel>>

\* Step 3 for a nonce that is not in the cache.
SingleInsert == pc = "replay" /\ Insert(cur, {})

\* Steps 4 to 6: a packet the policy allows gets its rule.  One it does not
\* allow has spent its nonce in step 3.
Install == OpenAccess /\ PolicyAllows(cur)

SingleNext ==
    \/ \E p \in Packets : Receive(p)
    \/ SingleReplay \/ SingleInsert \/ SaveOk \/ SaveErr \/ Install \/ NoAccess
    \/ Prune \/ Shutdown \/ Crash \/ Start \/ StartErr
    \/ \E r \in rules : Expire(r)
    \/ \E t \in 0..MaxTime : Clock(t)

SingleSpec == CoreInit /\ [][SingleNext]_coreVars
=============================================================================
