------------------------------- MODULE OnceOnly -------------------------------
(***************************************************************************)
(* What single packet authorization promises, with the daemon left out:    *)
(* a rule is opened for a datagram that the access policy permits, whose   *)
(* nonce was not used before.  Datagrams and stanzas are the records of    *)
(* module Pipeline, whose operators this module does not use: it says what *)
(* is permitted, not how the daemon finds out.                             *)
(***************************************************************************)
EXTENDS Integers

CONSTANTS Packets, Access, MaxFwTimeout

VARIABLES open, \* the open rules, each with the datagram it was opened for
          used  \* nonces that were granted and are not forgotten

vars == <<open, used>>

\* Stanza i is the first one with the key the datagram was made with.
Governs(i, p) ==
    /\ Access[i].key = p.key
    /\ \A j \in DOMAIN Access : Access[j].key = p.key => i <= j

\* The policy permits rule r for datagram p.
Permitted(r, p) ==
    /\ p.form = "ok" /\ p.kind = "access"
    /\ r.source = p.source /\ r.ports = p.ports
    /\ r.timeout <= MaxFwTimeout
    /\ \E i \in DOMAIN Access :
          /\ Governs(i, p)
          /\ p.from \in Access[i].sources
          /\ Access[i].requireSourceMatch => r.source = p.from
          /\ r.ports \subseteq Access[i].openPorts
          /\ Access[i].fwTimeout >= 0 => r.timeout <= Access[i].fwTimeout

Init == open = {} /\ used = {}

Grant ==
    \E g \in open' :
        /\ g.by \in Packets /\ g.by.nonce \notin used
        /\ Permitted(g.rule, g.by)
        /\ open' = open \cup {g}
        /\ used' = used \cup {g.by.nonce}

\* Rules end and nonces are forgotten, and nothing is granted in that step.
Lapse ==
    /\ open' \subseteq open
    /\ used' \subseteq used

Next == Grant \/ Lapse

Spec == Init /\ [][Next]_vars
=============================================================================
