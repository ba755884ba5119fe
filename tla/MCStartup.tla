------------------------------ MODULE MCStartup ------------------------------
(***************************************************************************)
(* Startup for TLC: five capabilities, seven ways to be started, and the   *)
(* default configuration with one or two of its values changed.            *)
(***************************************************************************)
EXTENDS Startup

MCCaps == {"CAP_NET_ADMIN", "CAP_SETUID", "CAP_SETGID", "CAP_SETPCAP",
           "CAP_NET_BIND_SERVICE"}

Cred(uid, permitted, ambient, bounding) ==
    [uid |-> uid, gid |-> uid, groups |-> {uid},
     effective |-> permitted, permitted |-> permitted, inheritable |-> ambient,
     ambient |-> ambient, bounding |-> bounding]

\* Root, and root in the bounding set of dist/fwknoxd.service.
Root == Cred("root", MCCaps, {}, MCCaps)
ServiceRoot == Cred("root", {CAP_NET_ADMIN}, {CAP_NET_ADMIN}, {CAP_NET_ADMIN})

\* A user with an ambient capability, with one from the file, with all of them,
\* and with none; and the daemon's own user, with all of them.
MCStarts ==
    {Root, ServiceRoot,
     Cred("user", {CAP_NET_ADMIN}, {CAP_NET_ADMIN}, MCCaps),
     Cred("user", {CAP_NET_ADMIN}, {}, MCCaps),
     Cred("user", MCCaps, MCCaps, MCCaps),
     Cred("user", {}, {}, MCCaps),
     Cred("fwknox", MCCaps, MCCaps, MCCaps)}

RootStart == {Root}

FwknoxdKeeps == {CAP_NET_ADMIN}
MCKeeps == {FwknoxdKeeps, {CAP_NET_ADMIN, "CAP_SETUID", "CAP_SETGID"}}
OnlyFwknoxdKeeps == {FwknoxdKeeps}

Stanza ==
    AccessStanza("home", [len |-> 1, items |-> {[kind |-> "any"]}],
                 [len |-> 1, items |-> {[proto |-> "tcp", port |-> 22]}],
                 [bytes |-> 32, value |-> "secret"])

DefaultFile ==
    [readable |-> TRUE, syntax |-> TRUE, daemon |-> DefaultDaemonSection,
     replay |-> DefaultReplaySection, rate_limit |-> DefaultRateLimitSection,
     access |-> <<Stanza>>]

\* Every way to run that the file can choose.
Modes ==
    {[DefaultFile EXCEPT !.daemon.enable_sandbox = s, !.daemon.enable_privsep = p,
                         !.daemon.landlock_enabled = l] :
        s, p, l \in BOOLEAN}

Strange ==
    {[DefaultFile EXCEPT !.readable = FALSE], [DefaultFile EXCEPT !.syntax = FALSE],
     [DefaultFile EXCEPT !.daemon.run_user = "root"],
     [DefaultFile EXCEPT !.daemon.listen_port = 80],
     [DefaultFile EXCEPT !.daemon.listen_port = 65536],
     [DefaultFile EXCEPT !.daemon.firewall_backend = "iptables"],
     [DefaultFile EXCEPT !.daemon.enable_systemd = FALSE],
     [DefaultFile EXCEPT !.daemon.max_spa_packet_age = 0],
     [DefaultFile EXCEPT !.daemon.max_spa_packet_age = 7 * 86400 * Second + 1],
     [DefaultFile EXCEPT !.daemon.default_fw_timeout = 301 * Second],
     [DefaultFile EXCEPT !.daemon.default_fw_timeout = 0],
     [DefaultFile EXCEPT !.replay.max_entries = 0],
     [DefaultFile EXCEPT !.replay.cache_path.absolute = FALSE],
     [DefaultFile EXCEPT !.replay.cache_path.components = {"..", "file"}],
     [DefaultFile EXCEPT !.rate_limit.per_source_burst = 9],
     [DefaultFile EXCEPT !.rate_limit.global_rate_per_sec = 0],
     [DefaultFile EXCEPT !.rate_limit.tracked_sources_capacity = 0],
     [DefaultFile EXCEPT !.rate_limit.ipv6_prefix_len = 129],
     [DefaultFile EXCEPT !.rate_limit.enabled = FALSE,
                         !.rate_limit.global_rate_per_sec = 0],
     [DefaultFile EXCEPT !.access = <<>>],
     [DefaultFile EXCEPT !.access = <<Stanza, Stanza>>],
     [DefaultFile EXCEPT !.access = [i \in 1..257 |-> [Stanza EXCEPT !.name = i]]]}
    \cup
    {[DefaultFile EXCEPT !.access = <<s>>] :
        s \in {[Stanza EXCEPT !.source.items = {[kind |-> "words"]}],
               [Stanza EXCEPT !.source.len = 1025],
               [Stanza EXCEPT !.source = [len |-> 0, items |-> {}]],
               [Stanza EXCEPT !.open_ports = [len |-> 0, items |-> {}]],
               [Stanza EXCEPT !.open_ports.items = {[proto |-> "tcp", port |-> 0]}],
               [Stanza EXCEPT !.master_key.bytes = 31],
               [Stanza EXCEPT !.master_key.value = "zero"],
               [Stanza EXCEPT !.enable_nat = TRUE, !.nat_destination = 1],
               [Stanza EXCEPT !.enable_cmd_exec = TRUE]}}

MCFiles == Modes \cup Strange
DefaultOnly == {DefaultFile}
=============================================================================
