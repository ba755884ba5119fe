------------------------------- MODULE Pipeline -------------------------------
(***************************************************************************)
(* What the daemon decides about one SPA datagram: matcher.rs,             *)
(* pipeline.rs and validate.rs of crates/fwknox-daemon, and                *)
(* validate_against_clock of crates/fwknox-proto.  Pure operators, shared  *)
(* by the single-process and the privilege-separated daemon.               *)
(*                                                                         *)
(* A datagram is a record                                                  *)
(*   nonce, ts      the payload's nonce and timestamp                      *)
(*   key            the master key it was built with                       *)
(*   form           "ok", "badsize" (outside the size limits, which are    *)
(*                  tested before the HMAC) or "corrupt" (fails a test     *)
(*                  made after the HMAC)                                   *)
(*   kind           "access", or "other" for the NAT and command variants  *)
(*   source, ports  what the payload asks to open, and for whom            *)
(*   from           the address the datagram was captured from             *)
(***************************************************************************)
EXTENDS Integers, Sequences, FiniteSets

CONSTANTS
    Packets,          \* the datagrams that may arrive
    Access,           \* config.access: the sequence of access stanzas
    MaxSpaPacketAge,  \* daemon.max_spa_packet_age, in seconds
    MaxSkew,          \* DEFAULT_MAX_SKEW_SECS
    DefaultFwTimeout, \* daemon.default_fw_timeout
    MaxFwTimeout      \* daemon.max_fw_timeout

\* A stanza whose fw_timeout is None.
Unset == -1

\* The HMAC covers nonce and timestamp, so datagrams with one nonce are copies
\* of one packet, and carry one timestamp.  A nonce is 16 bytes.
ASSUME PacketsAssumption ==
    /\ IsFiniteSet(Packets)
    /\ \A p \in Packets : p.ts \in Int /\ p.form \in {"ok", "badsize", "corrupt"}
    /\ \A p, q \in Packets : p.nonce = q.nonce => p.ts = q.ts

ASSUME WindowAssumption ==
    /\ MaxSpaPacketAge \in Nat /\ MaxSkew \in Nat
    /\ DefaultFwTimeout \in Nat /\ MaxFwTimeout \in Nat

ASSUME AccessAssumption ==
    /\ DOMAIN Access \subseteq Nat
    /\ \A i \in DOMAIN Access : Access[i].fwTimeout \in Nat \cup {Unset}

Nonces == {p.nonce : p \in Packets}

\* parse_packet of `p` under stanza i: its outcome.
ParsePacket(p, i) ==
    CASE p.form = "badsize"        -> "rejected"
      [] p.form # "badsize" /\ p.key # Access[i].key -> "hmac_failed"
      [] p.form = "corrupt" /\ p.key = Access[i].key -> "rejected"
      [] OTHER                     -> "ok"

\* The stanzas at which match_packet stops; it takes the first one.
Stops(p) == {i \in DOMAIN Access : ParsePacket(p, i) # "hmac_failed"}

Stanza(p) == CHOOSE i \in Stops(p) : \A j \in Stops(p) : i <= j

\* match_packet returns MatchResult::Matched.
Matched(p) == Stops(p) # {} /\ ParsePacket(p, Stanza(p)) = "ok"

\* validate_against_clock
ValidateAgainstClock(p, now) ==
    /\ now - p.ts >= -MaxSkew
    /\ now - p.ts <= MaxSpaPacketAge

\* Mutant of PolicyAllows: the ports are not compared with the stanza's.
PolicyIgnoresPorts(p) ==
    LET stanza == Access[Stanza(p)]
    IN  /\ p.kind = "access"
        /\ stanza.requireSourceMatch => p.source = p.from
        /\ p.from \in stanza.sources

\* Mutant of PolicyAllows: the allowlist is tested against the payload's address.
PolicyTrustsPayload(p) ==
    LET stanza == Access[Stanza(p)]
    IN  /\ p.kind = "access"
        /\ stanza.requireSourceMatch => p.source = p.from
        /\ p.source \in stanza.sources
        /\ p.ports \subseteq stanza.openPorts

\* Steps 4 and 5 of process_packet, which validate_capture_msg repeats: the
\* message variant, require_source_match, the allowlist (tested against the
\* captured address, not the one in the payload), and the ports.
PolicyAllows(p) ==
    LET stanza == Access[Stanza(p)]
    IN  /\ p.kind = "access"
        /\ stanza.requireSourceMatch => p.source = p.from
        /\ p.from \in stanza.sources
        /\ p.ports \subseteq stanza.openPorts

\* clamp_timeout
ClampTimeout(requested, max) == IF requested > max THEN max ELSE requested

\* The AccessRule of step 6, built for the address in the payload.
RuleFor(p) ==
    LET stanza == Access[Stanza(p)]
        timeout == IF stanza.fwTimeout = Unset THEN DefaultFwTimeout ELSE stanza.fwTimeout
    IN  [source  |-> p.source,
         ports   |-> p.ports,
         timeout |-> ClampTimeout(timeout, MaxFwTimeout)]
=============================================================================
