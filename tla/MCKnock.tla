------------------------------- MODULE MCKnock -------------------------------
(***************************************************************************)
(* Knock for TLC: two stanzas with different keys, command lines that use  *)
(* and leave out each argument, and packets of other programs that fail    *)
(* each test of parse_packet, or none.                                     *)
(***************************************************************************)
EXTENDS Knock

MCHosts == {"h1", "h2"}
Ssh == [proto |-> "tcp", port |-> 22]
Dns == [proto |-> "udp", port |-> 53]
\* More ports than fit into a payload.
Crowd == {[proto |-> "tcp", port |-> p] : p \in 1..3}

MCEncodedLen(payload) == IF payload.ports = Crowd THEN 1500 ELSE 1024

K(value) == [bytes |-> 32, value |-> value]

\* config/fwknoxd.toml.example, and a second stanza.
MCDaemonFile ==
    [readable |-> TRUE, syntax |-> TRUE,
     daemon |-> [DefaultDaemonSection EXCEPT !.max_spa_packet_age = 2 * Second],
     replay |-> DefaultReplaySection, rate_limit |-> DefaultRateLimitSection,
     access |->
        <<AccessStanza("ssh-from-anywhere", [len |-> 1, items |-> {[kind |-> "any"]}],
                       [len |-> 1, items |-> {Ssh}], K("k1")),
          [AccessStanza("dns", [len |-> 1, items |-> {[kind |-> "single", addrs |-> {"h1"}]}],
                        [len |-> 1, items |-> {Dns}], K("k2"))
             EXCEPT !.require_source_match = FALSE]>>]

\* The fwknox.toml of the README, and a second server.
Ports(items) == [len |-> Cardinality(items), items |-> items]
MCClientFile ==
    [readable |-> TRUE, syntax |-> TRUE,
     servers |-> <<[ServerEntry("home", "server", Ports({Ssh}), K("k1"))
                       EXCEPT !.fw_timeout = {30 * Second}],
                   [ServerEntry("dns", "server", Ports({Dns}), K("k2"))
                       EXCEPT !.source_ip = "h2"]>>]

\* fwknox -n home, and the same on the command line.
ByName == [NoArguments EXCEPT !.name = {"home"}]
ByArguments ==
    [NoArguments EXCEPT !.destination = {"server"}, !.access = {{Ssh}}, !.timeout = {30},
                        !.master_key_base64 = {K("k1")}]
ReadmeLines == {ByName, ByArguments}

MCCommandLines ==
    {[ByName EXCEPT !.source_ip = {"h1"}],
     [ByName EXCEPT !.name = {"dns"}],
     [ByName EXCEPT !.name = {"nowhere"}],
     [ByName EXCEPT !.access = {Crowd}],
     [ByName EXCEPT !.access = {{}}],
     [ByName EXCEPT !.access = {{[proto |-> "words", port |-> 0]}}],
     [ByName EXCEPT !.source_ip = {"words"}],
     [ByName EXCEPT !.test = TRUE],
     [ByName EXCEPT !.port = {1}],
     [NoArguments EXCEPT !.generate_key = TRUE],
     NoArguments,
     [ByArguments EXCEPT !.master_key_base64 = {[bytes |-> 31, value |-> "k1"]}],
     [ByArguments EXCEPT !.master_key_base64 = {K("k3")}],
     [ByArguments EXCEPT !.username = {"long"}, !.timeout = {1000}]}

\* A payload of another program, and its packet.
Other(kind, time) ==
    [nonce |-> 100, timestamp |-> time, username |-> "ok", kind |-> kind,
     source_ip |-> "h1", ports |-> {Ssh}, client_timeout |-> {}]
Version(v, payload) ==
    Packet([HeaderFor(payload) EXCEPT !.version = v], payload, 1024, "k1", 100)
Flags(flags) ==
    LET payload == Other("access", 0)
    IN  Packet([HeaderFor(payload) EXCEPT !.flags = flags], payload, 1024, "k1", 100)
Noise(size) ==
    [header |-> [version |-> 1, flags |-> {}, payload_len |-> 0], nonce |-> 100,
     body |-> Junk, mac |-> Junk, size |-> size]

\* decode has no limit on the length: a packet of MAX_PACKET_LEN bytes.
Full ==
    LET payload == Other("access", 0)
        room == MAX_PACKET_LEN - MIN_PACKET_LEN
    IN  Packet([HeaderFor(payload) EXCEPT !.payload_len = room + TAG_LEN],
               payload, room, "k1", 100)

MCOthers ==
    {BuildPacket(Other("access", ts), "k2", 100) : ts \in {-Half, -1, Half - 1}}
    \cup {BuildPacket(Other("nat", 0), "k1", 100), BuildPacket(Other("command", 0), "k1", 100)}
    \cup {Version(2, Other("access", 0))}
    \cup {Flags({"RESERVED"}), Flags({"NAT"}), Flags({"ASYMMETRIC"})}
    \cup {Packet([HeaderFor(Other("access", 0)) EXCEPT !.payload_len = @ + 1],
                 Other("access", 0), 1024, "k1", 100),
          Packet([version |-> 1, flags |-> {}, payload_len |-> 20], NoPayload, 4, "k1", 100)}
    \cup {Noise(10), Noise(64), Noise(2000)}
    \cup {Full}
=============================================================================
