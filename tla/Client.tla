------------------------------- MODULE Client -------------------------------
(***************************************************************************)
(* The client, crates/fwknox-client, and its part of crates/fwknox-config: *)
(* what a command line and a fwknox.toml make it send.                     *)
(*                                                                         *)
(* An Option is a set of at most one element.  A command line is a record  *)
(* of them under the names of cli.rs, and the booleans test and            *)
(* generate_key.  Texts that do not parse are "words".                     *)
(***************************************************************************)
EXTENDS Config, Wire

CONSTANTS
    Loopback,   \* 127.0.0.1
    U32Max      \* 2^32 - 1

\* Option::or_else
OrElse(a, b) == IF a # {} THEN a ELSE b

\* The value of an Option that is not None.
Unwrap(option) == CHOOSE v \in option : TRUE

NoArguments ==
    [name |-> {}, destination |-> {}, port |-> {}, access |-> {}, source_ip |-> {},
     username |-> {}, timeout |-> {}, master_key_base64 |-> {},
     test |-> FALSE, generate_key |-> FALSE]

-----------------------------------------------------------------------------
(* client.rs *)

\* A [[server]] entry that names only what it must.
ServerEntry(name, destination, access, key) ==
    [name |-> name, destination |-> destination, port |-> 62201, access |-> access,
     master_key_base64 |-> key, fw_timeout |-> {}, source_ip |-> "auto"]

\* load_client_config: what serde and ClientConfig::validate refuse.
LoadClientConfig(file) ==
    /\ file.readable /\ file.syntax
    /\ \A i, j \in DOMAIN file.servers :
          file.servers[i].name = file.servers[j].name => i = j
    /\ \A i \in DOMAIN file.servers :
          /\ PortProtoListParses(file.servers[i].access)
          /\ Base64KeyParses(file.servers[i].master_key_base64)
          /\ file.servers[i].access.len > 0
          /\ file.servers[i].destination # "blank"
          /\ file.servers[i].port # 0

\* find_server, of no name or of one.
FindServer(file, name) ==
    {file.servers[i] : i \in {j \in DOMAIN file.servers : file.servers[j].name \in name}}

-----------------------------------------------------------------------------
(* bin/fwknox.rs and packet.rs, each for the server entry or none *)

\* load_server_entry fails.
NoSuchServer(cli, file) ==
    cli.name # {} /\ (~LoadClientConfig(file) \/ FindServer(file, cli.name) = {})

ResolveDestination(cli, server) ==
    OrElse(cli.destination, {s.destination : s \in server})

ResolvePort(cli, server) == OrElse(cli.port, OrElse({s.port : s \in server}, {62201}))

\* resolve_master_key, with decode_master_key for the one on the command line.
ResolveMasterKey(cli, server) ==
    IF cli.master_key_base64 # {}
    THEN {key.value : key \in {k \in cli.master_key_base64 : Base64KeyParses(k)}}
    ELSE {s.master_key_base64.value : s \in server}

\* resolve_ports, with parse_access_string: every word has to parse, and there
\* has to be one.
ResolvePorts(cli, server) ==
    IF cli.access # {}
    THEN {ports \in cli.access : ports # {} /\ \A words \in ports : ParsesPortProto(words)}
    ELSE {s.access.items : s \in server}

\* resolve_source_ip.  "auto" is passed over.
ResolveSourceIp(cli, server) ==
    {ip \in OrElse(cli.source_ip,
                   OrElse({s.source_ip : s \in {t \in server : t.source_ip # "auto"}},
                          {Loopback})) : ip # "words"}

\* client_timeout, in seconds: a number that is no u32 counts as none given.
ResolveTimeout(cli, server) ==
    OrElse({t \in cli.timeout : t <= U32Max},
           {d \div Second : d \in {e \in UNION {s.fw_timeout : s \in server} :
                                      e \div Second <= U32Max}})

\* The payload of build_spa_packet, at a time and with a fresh nonce.  Without
\* an argument the user is $USER, whatever that holds.
Payload(cli, server, user, now, nonce) ==
    [nonce |-> nonce, timestamp |-> now,
     username |-> Unwrap(OrElse(cli.username, {user})),
     kind |-> "access", source_ip |-> Unwrap(ResolveSourceIp(cli, server)),
     ports |-> Unwrap(ResolvePorts(cli, server)),
     client_timeout |-> ResolveTimeout(cli, server)]

\* The command line gives all that real_main needs to build a packet, to send
\* it (or print it, for a test).
Resolves(cli, file) ==
    LET server == FindServer(file, cli.name)
    IN  /\ ~cli.generate_key
        /\ ~NoSuchServer(cli, file)
        /\ ResolveDestination(cli, server) # {}
        /\ ResolveMasterKey(cli, server) # {}
        /\ ResolvePorts(cli, server) # {}
        /\ ResolveSourceIp(cli, server) # {}
=============================================================================
