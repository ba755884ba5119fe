------------------------------- MODULE Config -------------------------------
(***************************************************************************)
(* What crates/fwknox-config makes of the file fwknoxd.toml: which files   *)
(* load_daemon_config accepts, with which values.                          *)
(*                                                                         *)
(* A file is a record with the sections of the source, as the text gives   *)
(* them, and `readable` and `syntax` (TOML, and no unknown field).         *)
(* Durations are in milliseconds.  A list is a record of its length and    *)
(* the set of its items: only these two are ever looked at.                *)
(***************************************************************************)
EXTENDS Integers, Sequences

MaxSourcesPerStanza == 1024
MaxPortsPerStanza == 1024
MaxAccessStanzas == 256

\* An Option that is None.
None == -1

Second == 1000

DefaultDaemonSection ==
    [listen_port |-> 62201, firewall_backend |-> "nftables",
     run_user |-> "fwknox", run_group |-> "fwknox",
     max_spa_packet_age |-> 120 * Second,
     flush_rules_at_init |-> TRUE, flush_rules_at_exit |-> TRUE,
     default_fw_timeout |-> 30 * Second, max_fw_timeout |-> 300 * Second,
     enable_systemd |-> TRUE, enable_sandbox |-> TRUE, enable_privsep |-> TRUE,
     landlock_enabled |-> FALSE]

DefaultReplaySection ==
    [cache_path |-> [absolute |-> TRUE, components |-> {"dir", "file"}],
     max_age |-> 86400 * Second, max_entries |-> 10000]

DefaultRateLimitSection ==
    [enabled |-> TRUE,
     per_source_rate_per_sec |-> 10, per_source_burst |-> 20,
     tracked_sources_capacity |-> 1024,
     global_rate_per_sec |-> 500, global_burst |-> 1000,
     promotion_threshold |-> 5, ipv6_prefix_len |-> 64]

\* An [[access]] stanza that names only what it must; the rest is serde's
\* defaults.
AccessStanza(name, source, ports, key) ==
    [name |-> name, source |-> source, open_ports |-> ports, master_key |-> key,
     fw_timeout |-> None, max_fw_timeout |-> None,
     require_source_match |-> TRUE, require_username |-> None,
     enable_nat |-> FALSE, nat_destination |-> None,
     enable_cmd_exec |-> FALSE, expiration_date |-> None]

-----------------------------------------------------------------------------
(* shared.rs *)

\* SourceSpec::from_str, which trims, ignores the case of "any", and tries a
\* network before an address.
SourceSpecParses(spec) == spec.kind \in {"any", "cidr", "single"}

\* SourceSpec::matches; `addrs` are the addresses of the network, or the one.
Matches(spec, ip) == spec.kind = "any" \/ ip \in spec.addrs

\* parse_port_proto.  Words without a slash have no protocol it knows.
ParsesPortProto(words) == words.proto \in {"tcp", "udp"} /\ words.port \in 1..65535

\* PortProtoList::deserialize
PortProtoListParses(list) ==
    list.len <= MaxPortsPerStanza /\ \A words \in list.items : ParsesPortProto(words)

\* Base64Key::deserialize, of a text that decodes to `bytes` bytes.
Base64KeyParses(key) == key.bytes = 32

IsAllZero(key) == key.value = "zero"

-----------------------------------------------------------------------------
(* daemon.rs *)

\* BoundedSources::deserialize
BoundedSourcesParses(list) ==
    list.len <= MaxSourcesPerStanza /\ \A spec \in list.items : SourceSpecParses(spec)

\* What serde refuses, in a stanza and in a file (BoundedAccess::deserialize).
StanzaParses(stanza) ==
    /\ BoundedSourcesParses(stanza.source)
    /\ PortProtoListParses(stanza.open_ports)
    /\ Base64KeyParses(stanza.master_key)

Parses(file) ==
    /\ file.syntax
    /\ file.daemon.listen_port \in 0..65535
    /\ Len(file.access) <= MaxAccessStanzas
    /\ \A i \in DOMAIN file.access : StanzaParses(file.access[i])

\* The tests of DaemonConfig::validate on one stanza.
ValidStanza(stanza) ==
    /\ stanza.open_ports.len > 0
    /\ ~(stanza.enable_nat /\ stanza.nat_destination = None)
    /\ ~IsAllZero(stanza.master_key)
    /\ stanza.expiration_date = None
    /\ ~stanza.enable_nat
    /\ ~stanza.enable_cmd_exec

\* validate_durations
ValidateDurations(config) ==
    \A d \in {config.daemon.default_fw_timeout, config.daemon.max_fw_timeout,
              config.daemon.max_spa_packet_age, config.replay.max_age} :
        d > 0 /\ d <= 7 * 86400 * Second

\* validate_replay_cache_path
ValidateReplayCachePath(path) == path.absolute /\ ".." \notin path.components

\* The tests on an enabled rate limiter.
ValidateRateLimit(rl) ==
    /\ rl.per_source_rate_per_sec >= 1 /\ rl.global_rate_per_sec >= 1
    /\ rl.per_source_burst >= rl.per_source_rate_per_sec
    /\ rl.global_burst >= rl.global_rate_per_sec
    /\ rl.tracked_sources_capacity # 0 /\ rl.promotion_threshold # 0
    /\ rl.ipv6_prefix_len \in 1..128

\* DaemonConfig::validate.  It stops at the first test that fails; which one is
\* only seen in the message.
Validate(config) ==
    /\ config.access # <<>>
    /\ \A i, j \in DOMAIN config.access :
          config.access[i].name = config.access[j].name => i = j
    /\ \A i \in DOMAIN config.access : ValidStanza(config.access[i])
    /\ ValidateDurations(config)
    /\ config.daemon.default_fw_timeout <= config.daemon.max_fw_timeout
    /\ ValidateReplayCachePath(config.replay.cache_path)
    /\ config.rate_limit.enabled => ValidateRateLimit(config.rate_limit)

\* load_daemon_config returns Ok.
LoadDaemonConfig(file) == file.readable /\ Parses(file) /\ Validate(file)
=============================================================================
