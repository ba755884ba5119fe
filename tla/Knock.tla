-------------------------------- MODULE Knock --------------------------------
(***************************************************************************)
(* A knock from end to end: the client builds a packet and sends it, the   *)
(* network loses, repeats, delays or damages it, the daemon captures it    *)
(* (crates/fwknox-capture/src/udp.rs, or run_capture_worker with privsep), *)
(* finds its stanza, and decides.  Client, Wire and Config say what each   *)
(* side does; Pipeline, the view that the daemon modules have of a packet, *)
(* is checked against them.  Rate limit and replay cache are left to the   *)
(* modules of their own.                                                   *)
(***************************************************************************)
EXTENDS Client, FiniteSets

CONSTANTS
    Hosts,          \* the addresses packets come from
    CommandLines,   \* what users type
    Users,          \* what $USER may hold
    ClientFile,     \* the fwknox.toml of every user
    DaemonFile,     \* the fwknoxd.toml of the server
    ServerName,     \* the destination that is the server
    Others,         \* packets that come from other programs than this client
    ClientClocks,   \* the times that clients' clocks may show
    MaxSkew,        \* DEFAULT_MAX_SKEW_SECS
    MaxTime,        \* bound on the daemon's clock
    MaxSent,        \* bound on the datagrams that are sent
    MaxTail         \* bound on the bytes that are appended to a packet

\* The daemon runs with an accepted file, in a time that an i64 can count.
ASSUME KnockAssumption ==
    /\ LoadDaemonConfig(DaemonFile)
    /\ MaxSkew \in Nat /\ MaxTime \in Nat /\ MaxTime + MaxSkew < Half
    /\ MaxSent \in Nat /\ MaxTail \in Nat

VARIABLES
    mode,     \* "single", or "privsep" with a capture worker
    now,      \* the daemon's clock
    sent,     \* history: the datagrams sent, by a "client" or "other" programs
    net,      \* the datagrams in the network and in the socket's queue: a packet,
              \* where it comes from, and the number of bytes behind it
    capture,  \* what receives them: pc, the socket's read timeout, and the cached
              \* last_timeout
    got,      \* the datagram received and not yet decided, if any
    last      \* the last decision, until the next datagram is received

vars == <<mode, now, sent, net, capture, got, last>>

Stanzas == DaemonFile.access
MaxAge == DaemonFile.daemon.max_spa_packet_age \div Second
Key(i) == Stanzas[i].master_key.value

I64 == -Half .. Half - 1

\* The stanzas are a list.  "none" stands for no key, below.
ASSUME StanzasAssumption ==
    /\ \E n \in 1..MaxAccessStanzas : DOMAIN Stanzas = 1..n
    /\ \A i \in DOMAIN Stanzas : Key(i) # "none"

\* The week that validate_durations allows is far from the end of the range.
ASSUME TimestampAssumption ==
    /\ MaxAge \in Nat /\ MaxAge < Half
    /\ ClientClocks \subseteq I64

\* What clients may put into a packet has a length.
ASSUME LengthAssumption ==
    \A cli \in CommandLines, user \in Users, time \in ClientClocks, n \in 0..MaxSent :
        Resolves(cli, ClientFile) =>
            EncodedLen(Payload(cli, FindServer(ClientFile, cli.name), user, time, n)) \in Nat

\* The bytes of a packet of at least MIN_PACKET_LEN; shorter ones have these
\* parts too, and nobody looks at them.
IsPacket(w) ==
    /\ DOMAIN w = {"header", "nonce", "body", "mac", "size"}
    /\ DOMAIN w.header = {"version", "flags", "payload_len"}
    /\ w.header.version \in Nat /\ w.header.payload_len \in Nat
    /\ w.nonce \in Nat /\ w.size \in Nat

\* What other programs send.  A packet that carries a payload carries an i64 for
\* its timestamp, and the last bytes are the packet's own tag, under whichever
\* key, or no tag at all.
ASSUME OthersAssumption ==
    \A w \in Others :
        /\ IsPacket(w)
        /\ w.body.plain = NoPayload \/ w.body.plain.timestamp \in I64
        /\ w.mac = Junk \/ w.mac = Sign(w.mac.key, Signed(w))

\* A stanza as Pipeline sees it.
PolicyOf(stanza) ==
    [key |-> stanza.master_key.value,
     sources |-> {ip \in Hosts : \E spec \in stanza.source.items : Matches(spec, ip)},
     requireSourceMatch |-> stanza.require_source_match,
     openPorts |-> stanza.open_ports.items,
     fwTimeout |-> stanza.fw_timeout]

P == INSTANCE Pipeline WITH
         Packets <- {}, Access <- [i \in DOMAIN Stanzas |-> PolicyOf(Stanzas[i])],
         MaxSpaPacketAge <- MaxAge,
         DefaultFwTimeout <- DaemonFile.daemon.default_fw_timeout,
         MaxFwTimeout <- DaemonFile.daemon.max_fw_timeout

LOOP_TICK == 1

Init ==
    /\ mode \in {"single", "privsep"}
    /\ now = 0
    /\ sent = {} /\ net = {} /\ got = {} /\ last = {}
    /\ capture = [pc |-> "start", timeout |-> {}, cached |-> {}]

-----------------------------------------------------------------------------
(* The client *)

\* real_main sends a packet.  In every other case, it prints or fails.
Send(host, cli, user, time) ==
    LET server  == FindServer(ClientFile, cli.name)
        payload == Payload(cli, server, user, time, Cardinality(sent))
        wire    == BuildPacket(payload, Unwrap(ResolveMasterKey(cli, server)),
                               Cardinality(sent))
    IN  /\ Cardinality(sent) < MaxSent
        /\ Resolves(cli, ClientFile)
        /\ Encodes(payload)
        /\ ~cli.test
        /\ sent' = sent \cup {[wire |-> wire, from |-> host, by |-> "client"]}
        /\ net' = IF /\ Unwrap(ResolveDestination(cli, server)) = ServerName
                     /\ Unwrap(ResolvePort(cli, server)) = DaemonFile.daemon.listen_port
                  THEN net \cup {[wire |-> wire, from |-> host, tail |-> 0]} ELSE net
        /\ UNCHANGED <<mode, now, capture, got, last>>

-----------------------------------------------------------------------------
(* The network *)

Sent == {s.wire : s \in sent}
SentByClients == {s.wire : s \in {t \in sent : t.by = "client"}}

\* Another program sends a datagram to the daemon's port.
Stray(wire, host) ==
    /\ Cardinality(sent) < MaxSent
    /\ sent' = sent \cup {[wire |-> wire, from |-> host, by |-> "other"]}
    /\ net' = net \cup {[wire |-> wire, from |-> host, tail |-> 0]}
    /\ UNCHANGED <<mode, now, capture, got, last>>

Lose(d) ==
    /\ net' = net \ {d}
    /\ UNCHANGED <<mode, now, sent, capture, got, last>>

\* The packets that damage may make of a packet, in each of its parts.
Damaged(p) ==
    {[p EXCEPT !.header.version = @ + 1],
     [p EXCEPT !.header.flags = (@ \ {"CLIENT_TIMEOUT"}) \cup ({"CLIENT_TIMEOUT"} \ @)],
     [p EXCEPT !.header.payload_len = @ + 1],
     [p EXCEPT !.nonce = JunkNonce], [p EXCEPT !.body = Junk], [p EXCEPT !.mac = Junk],
     [p EXCEPT !.body = Junk, !.mac = Junk, !.size = MIN_PACKET_LEN - 1]}

Damage(d) ==
    /\ d.wire \in Sent
    /\ net' \in {(net \ {d}) \cup {[d EXCEPT !.wire = w]} : w \in Damaged(d.wire)}
    /\ UNCHANGED <<mode, now, sent, capture, got, last>>

\* Bytes are added behind a packet.
Lengthen(d) ==
    /\ d.wire \in Sent /\ d.tail = 0
    /\ net' \in {(net \ {d}) \cup {[d EXCEPT !.tail = n]} : n \in 1..MaxTail}
    /\ UNCHANGED <<mode, now, sent, capture, got, last>>

-----------------------------------------------------------------------------
(* The capture *)

\* Mutant of SetTimeout: recv_timeout notes the timeout before it sets it.
SetTimeoutNotedFirst ==
    /\ mode = "single" /\ capture.pc = "start"
    /\ \/ capture' = [pc |-> "recv", timeout |-> {LOOP_TICK}, cached |-> {LOOP_TICK}]
       \/ capture' = [capture EXCEPT !.cached = {LOOP_TICK}]
       \/ capture.cached = {LOOP_TICK} /\ capture' = [capture EXCEPT !.pc = "recv"]
    /\ UNCHANGED <<mode, now, sent, net, got, last>>

\* The beginning of recv_timeout.  When the system call fails, run warns and
\* calls it again.
SetTimeout ==
    /\ mode = "single" /\ capture.pc = "start"
    /\ capture' = [pc |-> "recv", timeout |-> {LOOP_TICK}, cached |-> {LOOP_TICK}]
    /\ UNCHANGED <<mode, now, sent, net, got, last>>

\* A capture worker sets its timeout once, and exits when that fails.
SetTimeoutOnce ==
    /\ mode = "privsep" /\ capture.pc = "start"
    /\ capture' \in {[capture EXCEPT !.pc = "recv", !.timeout = {LOOP_TICK}],
                     [capture EXCEPT !.pc = "down"]}
    /\ UNCHANGED <<mode, now, sent, net, got, last>>

\* The next round: recv_timeout finds the timeout in its cache.
Again ==
    /\ capture.pc = "next"
    /\ capture' = [capture EXCEPT !.pc =
                      IF mode = "single" /\ capture.cached # {LOOP_TICK}
                      THEN "start" ELSE "recv"]
    /\ UNCHANGED <<mode, now, sent, net, got, last>>

Length(d) == d.wire.size + d.tail

\* recv_from into a buffer of MAX_PACKET_LEN bytes drops the rest.  What it leaves
\* is the packet again if the packet fills the buffer, and other bytes otherwise,
\* since the tag is looked for at the end.
Cut(d) ==
    LET len == IF Length(d) > MAX_PACKET_LEN THEN MAX_PACKET_LEN ELSE Length(d)
    IN  IF len = d.wire.size THEN d.wire
        ELSE [d.wire EXCEPT !.body = Junk, !.mac = Junk, !.size = len]

\* Mutant of Recv: recv_timeout, too, passes on what did fit.
RecvCutShort(d) ==
    /\ capture.pc = "recv" /\ d \in net
    /\ net' \in {net, net \ {d}}
    /\ capture' = [capture EXCEPT !.pc = "decide"] /\ got' = {[d EXCEPT !.wire = Cut(d)]}
    /\ last' = {}
    /\ UNCHANGED <<mode, now, sent>>

\* A datagram is received.  recvmsg_with_trunc notices one that does not fit, and
\* recv_timeout returns None; the capture worker passes on what did fit.  The
\* network may have a copy.
Recv(d) ==
    /\ capture.pc = "recv" /\ d \in net
    /\ net' \in {net, net \ {d}}
    /\ IF mode = "single" /\ Length(d) > MAX_PACKET_LEN
       THEN capture' = [capture EXCEPT !.pc = "next"] /\ got' = {}
       ELSE capture' = [capture EXCEPT !.pc = "decide"] /\ got' = {[d EXCEPT !.wire = Cut(d)]}
    /\ last' = {}
    /\ UNCHANGED <<mode, now, sent>>

\* The read timeout passes.
RecvNothing ==
    /\ capture.pc = "recv" /\ capture.timeout # {}
    /\ capture' = [capture EXCEPT !.pc = "next"]
    /\ UNCHANGED <<mode, now, sent, net, got, last>>

\* Any other error: run goes on, a capture worker exits.
RecvErr ==
    /\ capture.pc = "recv"
    /\ capture' = [capture EXCEPT !.pc = IF mode = "single" THEN "next" ELSE "down"]
    /\ UNCHANGED <<mode, now, sent, net, got, last>>

-----------------------------------------------------------------------------
(* The decision *)

\* The stanzas at which match_packet stops.
Stops(p) == {i \in DOMAIN Stanzas : ParseError(p, Key(i)) # "hmac_failed"}

First(S) == CHOOSE i \in S : \A j \in S : i <= j

\* Steps 4 and 5 of process_packet, under one stanza.
Permits(stanza, payload, from) ==
    /\ payload.kind = "access"
    /\ stanza.require_source_match => payload.source_ip = from
    /\ \E spec \in stanza.source.items : Matches(spec, from)
    /\ payload.ports \subseteq stanza.open_ports.items

\* process_packet, or validate_capture_msg, up to the replay cache.
Verdict(d) ==
    LET i == First(Stops(d.wire))
        payload == d.wire.body.plain
    IN  IF Stops(d.wire) = {} THEN "no_match"
        ELSE IF ParseError(d.wire, Key(i)) # "none" THEN "rejected"
        ELSE IF ~InWindow(now, payload.timestamp, MaxAge, MaxSkew) THEN "stale"
        ELSE IF ~Permits(Stanzas[i], payload, d.from) THEN "denied"
        ELSE "open"

Decide(d) ==
    /\ capture.pc = "decide" /\ d \in got
    /\ last' = {[datagram |-> d, at |-> now, verdict |-> Verdict(d)]}
    /\ got' = {}
    /\ capture' = [capture EXCEPT !.pc = "next"]
    /\ UNCHANGED <<mode, now, sent, net>>

Tick ==
    /\ now < MaxTime
    /\ now' = now + 1
    /\ UNCHANGED <<mode, sent, net, capture, got, last>>

-----------------------------------------------------------------------------
Daemon ==
    \/ SetTimeout \/ SetTimeoutOnce \/ Again \/ RecvNothing
    \/ \E d \in net : Recv(d)
    \/ \E d \in got : Decide(d)

World ==
    \/ Tick \/ RecvErr
    \/ \E host \in Hosts, cli \in CommandLines, user \in Users, time \in ClientClocks :
          Send(host, cli, user, time)
    \/ \E wire \in Others, host \in Hosts : Stray(wire, host)
    \/ \E d \in net : Lose(d) \/ Damage(d) \/ Lengthen(d)

Next == Daemon \/ World

\* The daemon's process is scheduled, and a read timeout passes.  Nothing says
\* that a receive ever fails.
Spec == Init /\ [][Next]_vars /\ WF_vars(Daemon)

-----------------------------------------------------------------------------
(* Properties *)

\* The key a packet was signed with, among those of the stanzas.
SignedWith(p) ==
    {k \in {Key(i) : i \in DOMAIN Stanzas} : p.mac = Sign(Derive(k, "hmac"), Signed(p))}

\* A datagram as Pipeline sees it.
Abstract(d) ==
    LET p == d.wire
        good == SignedWith(p) # {} /\ HeaderError(p.header) = "none"
                  /\ OpenError(p, Unwrap(SignedWith(p))) = "none"
        plain == p.body.plain
    IN  [nonce |-> IF good THEN plain.nonce ELSE 0,
         ts |-> IF good THEN plain.timestamp ELSE 0,
         key |-> IF SignedWith(p) = {} THEN "none" ELSE Unwrap(SignedWith(p)),
         form |-> IF p.size < MIN_PACKET_LEN \/ p.size > MAX_PACKET_LEN THEN "badsize"
                  ELSE IF good THEN "ok" ELSE "corrupt",
         kind |-> IF good /\ plain.kind = "access" THEN "access" ELSE "other",
         source |-> IF good THEN plain.source_ip ELSE Loopback,
         ports |-> IF good THEN plain.ports ELSE {},
         from |-> d.from]

\* What packet.rs and matcher.rs promise together: the daemon acts on a datagram
\* only if its packet is, to the last bit, one that a holder of the stanza's key
\* made.  Damage in any part is noticed, and so are bytes behind the packet: in
\* both modes, except that a capture worker (workers.rs:60) loses, and does not
\* notice, those behind a packet that fills its buffer to the last byte.
ActsOnWhatWasSent ==
    \A v \in last :
        v.verdict \in {"stale", "denied", "open"} =>
            /\ v.datagram.wire \in Sent
            /\ Key(First(Stops(v.datagram.wire))) \in SignedWith(v.datagram.wire)
            /\ v.datagram.tail > 0 =>
                  mode = "privsep" /\ v.datagram.wire.size = MAX_PACKET_LEN

\* What build_packet makes, parse_packet reads: a packet that arrives as a client
\* sent it is matched under its key, whatever arguments it was made from, unless
\* the username is one that decode refuses and encode does not.  And whatever a
\* client sends fits into a packet (packet.rs:65).
HearsEveryClient ==
    /\ \A w \in SentByClients : w.size \in MIN_PACKET_LEN..MAX_PACKET_LEN
    /\ \A v \in last :
           v.datagram.wire \in SentByClients /\ SignedWith(v.datagram.wire) # {}
               /\ v.datagram.wire.body.plain.username = "ok"
           => v.verdict \notin {"no_match", "rejected"}

\* Pipeline, on which the daemon modules are built, has each outcome of
\* parse_packet right, under every stanza, and the policy as well, for all that
\* may arrive.
PipelineAgrees ==
    \A d \in {v.datagram : v \in last} :
        /\ \A i \in DOMAIN Stanzas :
              P!ParsePacket(Abstract(d), i) =
                  LET e == ParseError(d.wire, Key(i))
                  IN  IF e = "none" THEN "ok"
                      ELSE IF e = "hmac_failed" THEN "hmac_failed" ELSE "rejected"
        /\ P!Matched(Abstract(d)) =>
              (P!PolicyAllows(Abstract(d)) <=>
                  Permits(Stanzas[First(Stops(d.wire))], d.wire.body.plain, d.from))

\* Though validate_against_clock subtracts an i64 that any holder of the key may
\* choose, a packet passes exactly if its true age is inside the window.
ClockIsExact ==
    \A v \in last :
        v.verdict \in {"stale", "denied", "open"} =>
            (v.verdict # "stale" <=>
                LET ts == v.datagram.wire.body.plain.timestamp
                IN  v.at <= ts + MaxAge /\ ts <= v.at + MaxSkew)

\* The loop comes round, to look at the shutdown flag, even if nothing arrives
\* and even if the read timeout could not be set at first; or the worker exits.
LoopComesRound == []<>(capture.pc \in {"start", "next", "down"})

\* README.md:142-157, config/fwknoxd.toml.example:84: the command lines of the
\* README open the port for the host that sent the packet, if it arrives in time.
ReadmeKnockOpens ==
    \A v \in last :
        v.datagram.wire \in SentByClients /\ v.verdict # "stale" => v.verdict = "open"
=============================================================================
