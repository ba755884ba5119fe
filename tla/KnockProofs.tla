----------------------------- MODULE KnockProofs -----------------------------
(***************************************************************************)
(* For every configuration, every command line and every packet that other *)
(* programs may send: what the daemon may rely on in a packet it accepts,  *)
(* that it accepts what clients make, that the wrap-around of the          *)
(* timestamp's subtraction never shows, and that Pipeline tells the same   *)
(* packets apart as Wire does.                                             *)
(***************************************************************************)
EXTENDS Knock, OrderProofs

\* A packet that parse_packet accepts holds a payload.
LEMMA ParseAccepts ==
    ASSUME NEW p, NEW master, ParseError(p, master) = "none"
    PROVE  p.body.plain # NoPayload
<1>1. OpenError(p, master) = "none"
  BY DEF ParseError
<1>2. DecodeError(p.body.plain) = "none"
  BY <1>1 DEF OpenError
<1> QED
  BY <1>2 DEF DecodeError

\* Verdict is past parse_packet exactly if the first stanza that does not fail
\* the HMAC accepts the packet; then the window decides between "stale" and the
\* rest.
LEMMA VerdictParsed ==
    ASSUME NEW d, Verdict(d) \in {"stale", "denied", "open"}
    PROVE  /\ ParseError(d.wire, Key(First(Stops(d.wire)))) = "none"
           /\ Verdict(d) # "stale" <=>
                 InWindow(now, d.wire.body.plain.timestamp, MaxAge, MaxSkew)
BY DEF Verdict

-----------------------------------------------------------------------------
\* The steps that touch the decision: a datagram is received, or decided.
LEMMA LastStep ==
    ASSUME [Next]_vars
    PROVE  \/ last' = last
           \/ last' = {}
           \/ \E d \in got : last' = {[datagram |-> d, at |-> now, verdict |-> Verdict(d)]}
<1>1. CASE Daemon
  BY <1>1 DEF Daemon, SetTimeout, SetTimeoutOnce, Again, RecvNothing, Recv, Decide
<1>2. CASE World
  BY <1>2 DEF World, Tick, RecvErr, Send, Stray, Lose, Damage, Lengthen
<1>3. CASE UNCHANGED vars
  BY <1>3 DEF vars
<1> QED
  BY <1>1, <1>2, <1>3 DEF Next

-----------------------------------------------------------------------------
(* The timestamp *)

\* The bytes of a payload hold an i64.
Stamped(w) ==
    /\ "body" \in DOMAIN w
    /\ w.body.plain = NoPayload \/ w.body.plain.timestamp \in I64

\* All that is on its way to a decision.  The daemon's clock is in its range.
StampInv ==
    /\ now \in 0..MaxTime
    /\ \A s \in sent : Stamped(s.wire)
    /\ \A d \in net \cup got : "wire" \in DOMAIN d /\ Stamped(d.wire)

\* The wrapped difference is outside the window when the true one is beyond the
\* range, and is the true one otherwise.
LEMMA WrapIsHarmless ==
    ASSUME NEW at \in 0..MaxTime, NEW ts \in I64
    PROVE  InWindow(at, ts, MaxAge, MaxSkew) <=> at <= ts + MaxAge /\ ts <= at + MaxSkew
BY KnockAssumption, TimestampAssumption, HalfAssumption DEF InWindow, WrappingSub, I64

\* What build_packet makes holds the timestamp of its payload.
LEMMA PacketStamped ==
    ASSUME NEW header, NEW plain, NEW len, NEW master, NEW nonce,
           plain.timestamp \in I64
    PROVE  Stamped(Packet(header, plain, len, master, nonce))
BY DEF Stamped, Packet, Seal

\* Damage leaves a payload as it was or makes it unreadable.
LEMMA DamagedStamped ==
    ASSUME NEW p, Stamped(p), NEW w \in Damaged(p)
    PROVE  Stamped(w)
<1>1. NoPayload = Junk.plain
  BY DEF Junk
<1>2. "body" \in DOMAIN p /\ "body" \in DOMAIN w
  BY DEF Damaged, Stamped
<1>3. w.body = p.body \/ w.body = Junk
  BY <1>2 DEF Damaged
<1> QED
  BY <1>1, <1>2, <1>3 DEF Stamped

\* So does a receive buffer that is too short.
LEMMA CutStamped ==
    ASSUME NEW d, Stamped(d.wire)
    PROVE  Stamped(Cut(d))
<1>1. NoPayload = Junk.plain
  BY DEF Junk
<1>2. Cut(d).body = d.wire.body \/ Cut(d).body = Junk
  BY DEF Cut, Stamped
<1>3. "body" \in DOMAIN Cut(d)
  BY DEF Cut, Stamped
<1> QED
  BY <1>1, <1>2, <1>3 DEF Stamped

\* Every step keeps the timestamps in range.
LEMMA NextStamp ==
    ASSUME StampInv, [Next]_vars
    PROVE  StampInv'
<1>1. ASSUME NEW host \in Hosts, NEW cli \in CommandLines, NEW user \in Users,
             NEW time \in ClientClocks, Send(host, cli, user, time)
      PROVE  StampInv'
  <2> DEFINE payload == Payload(cli, FindServer(ClientFile, cli.name), user, time,
                                Cardinality(sent))
             wire == BuildPacket(payload,
                                 Unwrap(ResolveMasterKey(cli, FindServer(ClientFile, cli.name))),
                                 Cardinality(sent))
  <2>1. payload.timestamp = time /\ time \in I64
    BY TimestampAssumption DEF Payload
  <2>2. Stamped(wire)
    BY <2>1, PacketStamped DEF BuildPacket
  <2>3. /\ sent' = sent \cup {[wire |-> wire, from |-> host, by |-> "client"]}
        /\ net' \in {net, net \cup {[wire |-> wire, from |-> host, tail |-> 0]}}
        /\ UNCHANGED <<now, got>>
    BY <1>1 DEF Send
  <2> HIDE DEF wire
  <2> QED
    BY <2>2, <2>3 DEF StampInv
<1>2. ASSUME NEW wire \in Others, NEW host \in Hosts, Stray(wire, host)
      PROVE  StampInv'
  <2>1. Stamped(wire)
    BY OthersAssumption DEF Stamped, IsPacket
  <2> QED
    BY <1>2, <2>1 DEF Stray, StampInv
<1>3. ASSUME NEW d \in net, Lose(d)
      PROVE  StampInv'
  BY <1>3 DEF Lose, StampInv
<1>4. ASSUME NEW d \in net, Damage(d)
      PROVE  StampInv'
  <2>1. PICK w \in Damaged(d.wire) : net' = (net \ {d}) \cup {[d EXCEPT !.wire = w]}
    BY <1>4 DEF Damage
  <2>2. "wire" \in DOMAIN d /\ Stamped(w)
    BY DamagedStamped DEF StampInv
  <2>3. [d EXCEPT !.wire = w].wire = w /\ "wire" \in DOMAIN [d EXCEPT !.wire = w]
    BY <2>2
  <2>4. UNCHANGED <<now, sent, got>>
    BY <1>4 DEF Damage
  <2> QED
    BY <2>1, <2>2, <2>3, <2>4 DEF StampInv
<1>10. ASSUME NEW d \in net, Lengthen(d)
       PROVE  StampInv'
  <2>1. PICK n \in 1..MaxTail : net' = (net \ {d}) \cup {[d EXCEPT !.tail = n]}
    BY <1>10 DEF Lengthen
  <2> DEFINE e == [d EXCEPT !.tail = n]
  <2>2. "wire" \in DOMAIN d /\ Stamped(d.wire)
    BY DEF StampInv
  <2>3. e.wire = d.wire /\ "wire" \in DOMAIN e
    BY <2>2
  <2>4. UNCHANGED <<now, sent, got>>
    BY <1>10 DEF Lengthen
  <2>5. net' = (net \ {d}) \cup {e}
    BY <2>1
  <2> HIDE DEF e
  <2> QED
    BY <2>2, <2>3, <2>4, <2>5 DEF StampInv
<1>5. ASSUME NEW d \in net, Recv(d)
      PROVE  StampInv'
  <2> DEFINE e == [d EXCEPT !.wire = Cut(d)]
  <2>1. "wire" \in DOMAIN d /\ Stamped(Cut(d))
    BY CutStamped DEF StampInv
  <2>2. e.wire = Cut(d) /\ "wire" \in DOMAIN e
    BY <2>1
  <2>3. net' \in {net, net \ {d}} /\ got' \in {{}, {e}} /\ UNCHANGED <<now, sent>>
    BY <1>5 DEF Recv
  <2> HIDE DEF e
  <2> QED
    BY <2>1, <2>2, <2>3 DEF StampInv
<1>6. CASE Tick
  BY <1>6, KnockAssumption DEF Tick, StampInv
<1>7. CASE SetTimeout \/ SetTimeoutOnce \/ Again \/ RecvNothing \/ RecvErr
  <2>1. UNCHANGED <<now, sent, net, got>>
    BY <1>7 DEF SetTimeout, SetTimeoutOnce, Again, RecvNothing, RecvErr
  <2> QED
    BY <2>1 DEF StampInv
<1>8. ASSUME NEW d \in got, Decide(d)
      PROVE  StampInv'
  BY <1>8 DEF Decide, StampInv
<1>9. CASE UNCHANGED vars
  BY <1>9 DEF vars, StampInv
<1> QED
  BY <1>1, <1>2, <1>3, <1>4, <1>5, <1>6, <1>7, <1>8, <1>9, <1>10 DEF Next, Daemon, World

\* ClockIsExact: validate_against_clock subtracts an i64 that any holder of the
\* key chooses, and yet for every such number, every window below 2^63 and every
\* time that leaves room for the skew, it accepts exactly the packets whose true
\* age is in the window.
THEOREM KnockClockIsExact == Spec => []ClockIsExact
<1>1. Init => StampInv /\ ClockIsExact
  BY KnockAssumption DEF Init, StampInv, ClockIsExact
<1>2. StampInv /\ ClockIsExact /\ [Next]_vars => StampInv' /\ ClockIsExact'
  <2> SUFFICES ASSUME StampInv, ClockIsExact, [Next]_vars
               PROVE  ClockIsExact'
    BY NextStamp
  <2> SUFFICES ASSUME NEW v \in last', v.verdict \in {"stale", "denied", "open"}
               PROVE  v.verdict # "stale" <=>
                         LET ts == v.datagram.wire.body.plain.timestamp
                         IN  v.at <= ts + MaxAge /\ ts <= v.at + MaxSkew
    BY DEF ClockIsExact
  <2>1. CASE last' = last
    BY <2>1 DEF ClockIsExact
  <2>2. CASE last' = {}
    BY <2>2
  <2>3. CASE \E d \in got : last' = {[datagram |-> d, at |-> now, verdict |-> Verdict(d)]}
    <3>1. PICK d \in got : last' = {[datagram |-> d, at |-> now, verdict |-> Verdict(d)]}
      BY <2>3
    <3>2. v.datagram = d /\ v.verdict = Verdict(d) /\ v.at = now
      BY <3>1
    <3>3. /\ ParseError(d.wire, Key(First(Stops(d.wire)))) = "none"
          /\ Verdict(d) # "stale" <=>
                InWindow(now, d.wire.body.plain.timestamp, MaxAge, MaxSkew)
      BY <3>2, VerdictParsed
    <3>4. d.wire.body.plain # NoPayload
      BY <3>3, ParseAccepts
    <3>5. d.wire.body.plain.timestamp \in I64 /\ now \in 0..MaxTime
      BY <3>4 DEF StampInv, Stamped
    <3> QED
      BY <3>2, <3>3, <3>5, WrapIsHarmless
  <2> QED
    BY <2>1, <2>2, <2>3, LastStep
<1> QED
  BY <1>1, <1>2, PTL DEF Spec

-----------------------------------------------------------------------------
(* What was sent, and what arrives *)

\* match_packet has a first stanza to stop at, if it stops at all.
LEMMA FirstStop ==
    ASSUME NEW S, S \subseteq DOMAIN Stanzas, S # {}
    PROVE  First(S) \in S
<1>1. S \subseteq Nat
  <2>1. PICK n \in 1..MaxAccessStanzas : DOMAIN Stanzas = 1..n
    BY StanzasAssumption
  <2> QED
    BY <2>1
<1>2. \E i \in S : \A j \in S : i <= j
  BY <1>1, LeastNumber
<1> QED
  BY <1>2 DEF First

\* match_packet returns Matched.
Accepted(w) == Stops(w) # {} /\ ParseError(w, Key(First(Stops(w)))) = "none"

\* No stanza reads the packet.
Broken(w) == \A i \in DOMAIN Stanzas : ParseError(w, Key(i)) # "none"

\* A packet carries its own tag, or none.
Tagged(w) == w.mac = Junk \/ w.mac = Sign(w.mac.key, Signed(w))

\* What build_packet makes of a client's payload.
Made(w) ==
    /\ w = BuildPacket(w.body.plain, w.mac.key[1], w.nonce)
    /\ w.size \in MIN_PACKET_LEN..MAX_PACKET_LEN /\ EncodedLen(w.body.plain) \in Nat
    /\ w.body.plain # NoPayload /\ w.body.plain.kind = "access"

\* A datagram on its way holds what was sent, or no stanza reads it.
OnTheWay(d) ==
    /\ DOMAIN d = {"wire", "from", "tail"} /\ d.from \in Hosts /\ d.tail \in Nat
    /\ "body" \in DOMAIN d.wire
    /\ d.wire \in Sent \/ Broken(d.wire)

\* A packet with bytes behind it is not read, or it filled a worker's buffer.
TailShows(d) ==
    d.tail > 0 => Broken(d.wire) \/ (mode = "privsep" /\ d.wire.size = MAX_PACKET_LEN)

\* What arrives is what was sent, or no stanza reads it, and what is received shows
\* that there was more; a decision keeps to that, and says no_match or rejected of
\* nothing that match_packet matches.
WireInv ==
    /\ mode \in {"single", "privsep"}
    /\ IsFiniteSet(sent)
    /\ \A s \in sent : IsPacket(s.wire) /\ Tagged(s.wire) /\ (s.by = "client" => Made(s.wire))
    /\ \A d \in net \cup got : OnTheWay(d)
    /\ \A d \in got : TailShows(d)

LastInv ==
    \A v \in last :
        /\ v.datagram.from \in Hosts
        /\ v.verdict \in {"stale", "denied", "open"} <=> Accepted(v.datagram.wire)
        /\ v.verdict \in {"stale", "denied", "open"} => v.datagram.wire \in Sent
        /\ TailShows(v.datagram)

\* Verdict goes on to the clock exactly if match_packet returns Matched.
LEMMA VerdictAccepts ==
    ASSUME NEW d
    PROVE  Verdict(d) \in {"stale", "denied", "open"} <=> Accepted(d.wire)
BY DEF Verdict, Accepted

\* A packet that some stanza accepts is not broken.
LEMMA AcceptedNotBroken ==
    ASSUME NEW w, Accepted(w)
    PROVE  ~Broken(w)
<1>1. Stops(w) \subseteq DOMAIN Stanzas /\ Stops(w) # {}
  BY DEF Stops, Accepted
<1>2. First(Stops(w)) \in DOMAIN Stanzas
  BY <1>1, FirstStop
<1> QED
  BY <1>2 DEF Accepted, Broken

\* Bytes that nothing sealed hold no payload.
LEMMA JunkBodyIsBroken ==
    ASSUME NEW w, w.body = Junk
    PROVE  Broken(w)
<1>1. w.body.plain = NoPayload
  BY DEF Junk
<1>2. DecodeError(w.body.plain) = "payload_decode"
  BY <1>1 DEF DecodeError
<1>3. ASSUME NEW master PROVE OpenError(w, master) # "none"
  BY <1>2 DEF OpenError
<1>4. ASSUME NEW master PROVE ParseError(w, master) # "none"
  BY <1>3 DEF ParseError
<1> QED
  BY <1>4 DEF Broken

\* The HMAC is over these bytes, or the packet is not read.
LEMMA ForeignTagIsBroken ==
    ASSUME NEW w, \A k : w.mac # Sign(k, Signed(w))
    PROVE  Broken(w)
<1>1. ASSUME NEW master PROVE ParseError(w, master) # "none"
  BY DEF ParseError
<1> QED
  BY <1>1 DEF Broken

\* The tag of one packet is not that of a packet with other bytes.
LEMMA TagTellsApart ==
    ASSUME NEW p, NEW w, Tagged(p), w.mac = p.mac, Signed(w) # Signed(p)
    PROVE  \A k : w.mac # Sign(k, Signed(w))
<1>1. CASE p.mac = Junk
  <2>1. ASSUME NEW k, NEW m PROVE Junk # Sign(k, m)
    <3>1. DOMAIN Junk = {"plain"} /\ DOMAIN Sign(k, m) = {"key", "message"}
      BY DEF Junk, Sign
    <3>2. "key" \notin {"plain"}
      OBVIOUS
    <3> QED
      BY <3>1, <3>2
  <2> QED
    BY <1>1, <2>1
<1>2. CASE p.mac = Sign(p.mac.key, Signed(p))
  <2>1. ASSUME NEW k, NEW l, NEW m, NEW n, Sign(k, m) = Sign(l, n) PROVE m = n
    BY <2>1 DEF Sign
  <2> QED
    BY <1>2, <2>1
<1> QED
  BY <1>1, <1>2 DEF Tagged

\* Damage in any part of a packet shows.
LEMMA DamagedIsBroken ==
    ASSUME NEW p, IsPacket(p), Tagged(p), NEW w \in Damaged(p)
    PROVE  Broken(w) /\ "body" \in DOMAIN w
<1>1. DOMAIN p = {"header", "nonce", "body", "mac", "size"}
      /\ DOMAIN p.header = {"version", "flags", "payload_len"}
      /\ p.header.version \in Nat /\ p.header.payload_len \in Nat /\ p.nonce \in Nat
  BY DEF IsPacket
<1>2. ASSUME w.mac = p.mac, Signed(w) # Signed(p) PROVE Broken(w)
  BY <1>2, TagTellsApart, ForeignTagIsBroken
<1>3. ASSUME w.header # p.header \/ w.nonce # p.nonce PROVE Signed(w) # Signed(p)
  BY <1>3 DEF Signed
<1>4. CASE w = [p EXCEPT !.header.version = @ + 1]
  <2>1. w.header.version = p.header.version + 1 /\ w.mac = p.mac /\ "body" \in DOMAIN w
    BY <1>1, <1>4
  <2>2. w.header # p.header
    BY <1>1, <2>1
  <2> QED
    BY <1>2, <1>3, <2>1, <2>2
<1>5. CASE w = [p EXCEPT !.header.flags =
                    (@ \ {"CLIENT_TIMEOUT"}) \cup ({"CLIENT_TIMEOUT"} \ @)]
  <2>1. /\ w.header.flags = (p.header.flags \ {"CLIENT_TIMEOUT"})
                              \cup ({"CLIENT_TIMEOUT"} \ p.header.flags)
        /\ w.mac = p.mac /\ "body" \in DOMAIN w
    BY <1>1, <1>5
  <2>2. "CLIENT_TIMEOUT" \in w.header.flags <=> "CLIENT_TIMEOUT" \notin p.header.flags
    BY <2>1
  <2>3. w.header # p.header
    BY <2>2
  <2> QED
    BY <1>2, <1>3, <2>1, <2>3
<1>6. CASE w = [p EXCEPT !.header.payload_len = @ + 1]
  <2>1. w.header.payload_len = p.header.payload_len + 1 /\ w.mac = p.mac
        /\ "body" \in DOMAIN w
    BY <1>1, <1>6
  <2>2. w.header # p.header
    BY <1>1, <2>1
  <2> QED
    BY <1>2, <1>3, <2>1, <2>2
<1>7. CASE w = [p EXCEPT !.nonce = JunkNonce]
  <2>1. w.nonce = -1 /\ w.mac = p.mac /\ "body" \in DOMAIN w
    BY <1>1, <1>7 DEF JunkNonce
  <2> QED
    BY <1>1, <1>2, <1>3, <2>1
<1>8. CASE w = [p EXCEPT !.mac = Junk]
  <2>1. w.mac = Junk /\ "body" \in DOMAIN w
    BY <1>1, <1>8
  <2>2. ASSUME NEW k, NEW m PROVE Junk # Sign(k, m)
    <3>1. DOMAIN Junk = {"plain"} /\ DOMAIN Sign(k, m) = {"key", "message"}
      BY DEF Junk, Sign
    <3>2. "key" \notin {"plain"}
      OBVIOUS
    <3> QED
      BY <3>1, <3>2
  <2> QED
    BY <2>1, <2>2, ForeignTagIsBroken
<1>9. CASE w \in {[p EXCEPT !.body = Junk],
                  [p EXCEPT !.body = Junk, !.mac = Junk, !.size = MIN_PACKET_LEN - 1]}
  <2>1. w.body = Junk /\ "body" \in DOMAIN w
    BY <1>1, <1>9
  <2> QED
    BY <2>1, JunkBodyIsBroken
<1> QED
  BY <1>4, <1>5, <1>6, <1>7, <1>8, <1>9 DEF Damaged

\* A receive buffer that is too short leaves the packet, or nothing that is read.
LEMMA CutIsBroken ==
    ASSUME NEW d, "body" \in DOMAIN d.wire
    PROVE  (Cut(d) = d.wire \/ Broken(Cut(d))) /\ "body" \in DOMAIN Cut(d)
<1>1. ASSUME NEW n, NEW c, c = [d.wire EXCEPT !.body = Junk, !.mac = Junk, !.size = n]
      PROVE  c.body = Junk /\ "body" \in DOMAIN c
  BY <1>1
<1>2. Cut(d) = d.wire \/ \E n : Cut(d) = [d.wire EXCEPT !.body = Junk, !.mac = Junk, !.size = n]
  BY Zenon DEF Cut
<1>3. Cut(d) = d.wire \/ (Cut(d).body = Junk /\ "body" \in DOMAIN Cut(d))
  BY <1>1, <1>2
<1> QED
  BY <1>3, JunkBodyIsBroken

\* The packet is left of a longer datagram only if it fills the buffer.
LEMMA CutOffTail ==
    ASSUME NEW d, "body" \in DOMAIN d.wire, d.wire.size \in Nat, d.tail \in Nat, d.tail > 0
    PROVE  \/ Broken(Cut(d))
           \/ Cut(d) = d.wire /\ Length(d) > MAX_PACKET_LEN /\ d.wire.size = MAX_PACKET_LEN
<1> DEFINE len == IF Length(d) > MAX_PACKET_LEN THEN MAX_PACKET_LEN ELSE Length(d)
<1>1. CASE len = d.wire.size
  <2>1. Length(d) > MAX_PACKET_LEN /\ d.wire.size = MAX_PACKET_LEN
    BY <1>1 DEF Length, MAX_PACKET_LEN
  <2> QED
    BY <1>1, <2>1 DEF Cut
<1>2. CASE len # d.wire.size
  <2> DEFINE c == [d.wire EXCEPT !.body = Junk, !.mac = Junk, !.size = len]
  <2>1. Cut(d) = c
    BY <1>2 DEF Cut
  <2> HIDE DEF len
  <2>2. c.body = Junk
    OBVIOUS
  <2> HIDE DEF c
  <2> QED
    BY <2>1, <2>2, JunkBodyIsBroken
<1> QED
  BY <1>1, <1>2

\* build_packet puts a tag on what it makes, which fits into a packet.
LEMMA BuiltIsMade ==
    ASSUME NEW payload, NEW master, NEW nonce \in Nat,
           EncodedLen(payload) \in Nat, Encodes(payload),
           payload # NoPayload, payload.kind = "access"
    PROVE  LET w == BuildPacket(payload, master, nonce)
           IN  IsPacket(w) /\ Tagged(w) /\ Made(w)
<1> DEFINE header == HeaderFor(payload)
           body == Seal(Derive(master, "enc"), nonce, header, payload)
           w == BuildPacket(payload, master, nonce)
<1>1. /\ DOMAIN w = {"header", "nonce", "body", "mac", "size"}
      /\ w.header = header /\ w.nonce = nonce /\ w.body = body
      /\ w.mac = Sign(Derive(master, "hmac"), <<header, nonce, body>>)
      /\ w.size = HEADER_LEN + NONCE_LEN + EncodedLen(payload) + TAG_LEN + HMAC_LEN
  BY DEF BuildPacket, Packet
<1>2. body.plain = payload
  BY DEF Seal
<1>3. w.mac = Sign(w.mac.key, Signed(w)) /\ w.mac.key = Derive(master, "hmac")
  BY <1>1 DEF Sign, Signed
<1>4. w.mac.key[1] = master
  BY <1>3 DEF Derive
<1>5. EncodedLen(payload) <= 1024
  BY DEF Encodes, MAX_ENCODED_LEN
<1>6. w.size \in MIN_PACKET_LEN..MAX_PACKET_LEN /\ w.size \in Nat
  BY <1>1, <1>5 DEF HEADER_LEN, NONCE_LEN, TAG_LEN, HMAC_LEN, MIN_PACKET_LEN, MAX_PACKET_LEN
<1>7. /\ DOMAIN header = {"version", "flags", "payload_len"}
      /\ header.version \in Nat /\ header.payload_len \in Nat
  BY DEF HeaderFor, PROTO_VERSION, TAG_LEN
<1>8. w = BuildPacket(w.body.plain, w.mac.key[1], w.nonce)
  BY <1>1, <1>2, <1>4
<1> HIDE DEF header, body, w
<1>9. IsPacket(w)
  BY <1>1, <1>6, <1>7 DEF IsPacket
<1>10. Tagged(w) /\ Made(w)
  BY <1>1, <1>2, <1>3, <1>6, <1>8 DEF Tagged, Made
<1> QED
  BY <1>9, <1>10 DEF w

\* What is sent, by whoever and wherever to, keeps the invariant.
LEMMA MoreSent ==
    ASSUME WireInv, NEW w, NEW host \in Hosts, NEW by,
           IsPacket(w), Tagged(w), by = "client" => Made(w),
           sent' = sent \cup {[wire |-> w, from |-> host, by |-> by]},
           net' \in {net, net \cup {[wire |-> w, from |-> host, tail |-> 0]}},
           got' = got, mode' = mode
    PROVE  WireInv'
<1> DEFINE s == [wire |-> w, from |-> host, by |-> by]
           e == [wire |-> w, from |-> host, tail |-> 0]
<1>1. /\ s.wire = w /\ s.by = by /\ e.wire = w /\ e.from = host
      /\ e.tail \in Nat /\ DOMAIN e = {"wire", "from", "tail"}
  OBVIOUS
<1>2. sent' = sent \cup {s} /\ net' \in {net, net \cup {e}}
  OBVIOUS
<1> HIDE DEF s, e
<1>3. IsFiniteSet(sent')
  BY <1>2, FS_AddElement DEF WireInv
<1>4. \A t \in sent' : IsPacket(t.wire) /\ Tagged(t.wire) /\ (t.by = "client" => Made(t.wire))
  BY <1>1, <1>2 DEF WireInv
<1>5. w \in Sent' /\ Sent \subseteq Sent'
  BY <1>1, <1>2 DEF Sent
<1>6. "body" \in DOMAIN w
  BY DEF IsPacket
<1>7. ASSUME NEW d \in net' \cup got'
      PROVE  OnTheWay(d)'
  <2>1. CASE d = e
    BY <1>1, <1>5, <1>6, <2>1 DEF OnTheWay
  <2>2. CASE d \in net \cup got
    BY <1>5, <2>2 DEF WireInv, OnTheWay, Broken
  <2> QED
    BY <1>2, <2>1, <2>2
<1>8. ASSUME NEW d \in got'
      PROVE  TailShows(d)'
  BY <1>8 DEF WireInv, TailShows, Broken
<1> QED
  BY <1>3, <1>4, <1>7, <1>8 DEF WireInv

\* What is left or changed on its way keeps it, if nobody reads what changed.
LEMMA OnItsWay ==
    ASSUME WireInv, sent' = sent, mode' = mode,
           \A d \in net' \cup got' : d \in net \cup got \/ OnTheWay(d),
           \A d \in got' : d \in got \/ TailShows(d)
    PROVE  WireInv'
<1>1. Sent' = Sent
  BY DEF Sent
<1>2. \A d : OnTheWay(d)' <=> OnTheWay(d)
  BY <1>1 DEF OnTheWay, Broken
<1>3. \A d : TailShows(d)' <=> TailShows(d)
  BY DEF TailShows, Broken
<1>4. (\A d \in net \cup got : OnTheWay(d)) /\ \A d \in got : TailShows(d)
  BY DEF WireInv
<1>5. (\A d \in net' \cup got' : OnTheWay(d)') /\ \A d \in got' : TailShows(d)'
  BY <1>2, <1>3, <1>4
<1> QED
  BY <1>5 DEF WireInv

\* Every step of a client, of another program, of the network and of the daemon
\* keeps the invariant.
LEMMA NextWire ==
    ASSUME WireInv, [Next]_vars
    PROVE  WireInv'
<1>1. ASSUME NEW host \in Hosts, NEW cli \in CommandLines, NEW user \in Users,
             NEW time \in ClientClocks, Send(host, cli, user, time)
      PROVE  WireInv'
  <2> DEFINE server == FindServer(ClientFile, cli.name)
             payload == Payload(cli, server, user, time, Cardinality(sent))
             master == Unwrap(ResolveMasterKey(cli, server))
             wire == BuildPacket(payload, master, Cardinality(sent))
  <2>1. /\ Cardinality(sent) < MaxSent /\ Resolves(cli, ClientFile) /\ Encodes(payload)
        /\ sent' = sent \cup {[wire |-> wire, from |-> host, by |-> "client"]}
        /\ net' \in {net, net \cup {[wire |-> wire, from |-> host, tail |-> 0]}}
        /\ got' = got /\ mode' = mode
    BY <1>1 DEF Send
  <2>2. Cardinality(sent) \in Nat
    BY FS_CardinalityType DEF WireInv
  <2>3. Cardinality(sent) \in 0..MaxSent
    BY <2>1, <2>2, KnockAssumption
  <2>4. EncodedLen(payload) \in Nat
    BY <2>1, <2>3, LengthAssumption
  <2>5. payload.kind = "access" /\ payload # NoPayload
    <3>1. payload.kind = "access" /\ "kind" \in DOMAIN payload
      BY DEF Payload
    <3>2. "kind" \notin DOMAIN NoPayload
      BY DEF NoPayload
    <3> QED
      BY <3>1, <3>2
  <2> HIDE DEF payload, master
  <2>6. IsPacket(wire) /\ Tagged(wire) /\ Made(wire)
    BY <2>1, <2>2, <2>4, <2>5, BuiltIsMade
  <2> HIDE DEF wire
  <2> QED
    BY <2>1, <2>6, MoreSent
<1>2. ASSUME NEW wire \in Others, NEW host \in Hosts, Stray(wire, host)
      PROVE  WireInv'
  <2>1. IsPacket(wire) /\ Tagged(wire)
    BY OthersAssumption DEF Tagged
  <2>2. /\ sent' = sent \cup {[wire |-> wire, from |-> host, by |-> "other"]}
        /\ net' \in {net, net \cup {[wire |-> wire, from |-> host, tail |-> 0]}}
        /\ got' = got /\ mode' = mode
    BY <1>2 DEF Stray
  <2> DEFINE by == "other"
  <2>3. by = "client" => Made(wire)
    OBVIOUS
  <2>4. sent' = sent \cup {[wire |-> wire, from |-> host, by |-> by]}
    BY <2>2
  <2> HIDE DEF by
  <2> QED
    BY <2>1, <2>2, <2>3, <2>4, MoreSent
<1>3. ASSUME NEW d \in net, Lose(d)
      PROVE  WireInv'
  BY <1>3, OnItsWay DEF Lose
<1>4. ASSUME NEW d \in net, Damage(d)
      PROVE  WireInv'
  <2>1. PICK w \in Damaged(d.wire) : net' = (net \ {d}) \cup {[d EXCEPT !.wire = w]}
    BY <1>4 DEF Damage
  <2>2. d.wire \in Sent /\ sent' = sent /\ got' = got /\ mode' = mode
    BY <1>4 DEF Damage
  <2>3. IsPacket(d.wire) /\ Tagged(d.wire)
    BY <2>2 DEF Sent, WireInv
  <2>4. Broken(w) /\ "body" \in DOMAIN w
    BY <2>3, DamagedIsBroken
  <2> DEFINE e == [d EXCEPT !.wire = w]
  <2>5. DOMAIN d = {"wire", "from", "tail"} /\ d.from \in Hosts /\ d.tail \in Nat
    BY DEF WireInv, OnTheWay
  <2>6. e.wire = w /\ e.from = d.from /\ e.tail = d.tail /\ DOMAIN e = {"wire", "from", "tail"}
    BY <2>5
  <2>7. net' = (net \ {d}) \cup {e}
    BY <2>1
  <2> HIDE DEF e
  <2>8. OnTheWay(e)
    BY <2>4, <2>5, <2>6 DEF OnTheWay
  <2> QED
    BY <2>2, <2>7, <2>8, OnItsWay
<1>9. ASSUME NEW d \in net, Lengthen(d)
      PROVE  WireInv'
  <2>1. PICK n \in 1..MaxTail : net' = (net \ {d}) \cup {[d EXCEPT !.tail = n]}
    BY <1>9 DEF Lengthen
  <2>2. sent' = sent /\ got' = got /\ mode' = mode
    BY <1>9 DEF Lengthen
  <2> DEFINE e == [d EXCEPT !.tail = n]
  <2>3. OnTheWay(d) /\ DOMAIN d = {"wire", "from", "tail"}
    BY DEF WireInv, OnTheWay
  <2>4. e.wire = d.wire /\ e.from = d.from /\ e.tail = n /\ DOMAIN e = DOMAIN d
    BY <2>3
  <2>5. n \in Nat
    BY KnockAssumption
  <2>6. net' = (net \ {d}) \cup {e}
    BY <2>1
  <2> HIDE DEF e
  <2>7. OnTheWay(e)
    BY <2>3, <2>4, <2>5 DEF OnTheWay
  <2> QED
    BY <2>2, <2>6, <2>7, OnItsWay
<1>5. ASSUME NEW d \in net, Recv(d)
      PROVE  WireInv'
  <2> DEFINE e == [d EXCEPT !.wire = Cut(d)]
  <2>1. /\ DOMAIN d = {"wire", "from", "tail"} /\ d.from \in Hosts /\ d.tail \in Nat
        /\ "body" \in DOMAIN d.wire
        /\ d.wire \in Sent \/ Broken(d.wire)
    BY DEF WireInv, OnTheWay
  <2>2. e.wire = Cut(d) /\ e.from = d.from /\ e.tail = d.tail /\ DOMAIN e = {"wire", "from", "tail"}
    BY <2>1
  <2>3. /\ net' \in {net, net \ {d}} /\ sent' = sent /\ mode' = mode
        /\ got' = {} \/ (got' = {e} /\ ~(mode = "single" /\ Length(d) > MAX_PACKET_LEN))
    BY <1>5 DEF Recv
  <2> HIDE DEF e
  <2>4. OnTheWay(e)
    BY <2>1, <2>2, CutIsBroken DEF OnTheWay
  <2>5. ASSUME got' = {e} PROVE TailShows(e)
    <3>1. CASE d.wire \in Sent
      <4>1. d.wire.size \in Nat
        BY <3>1 DEF Sent, WireInv, IsPacket
      <4>2. d.tail > 0 => Broken(e.wire) \/ (e.wire = d.wire /\ Length(d) > MAX_PACKET_LEN
                                                /\ d.wire.size = MAX_PACKET_LEN)
        BY <2>1, <2>2, <4>1, CutOffTail
      <4>3. mode \in {"single", "privsep"}
        BY DEF WireInv
      <4>4. ~(mode = "single" /\ Length(d) > MAX_PACKET_LEN)
        BY <2>3, <2>5
      <4> QED
        BY <2>2, <4>2, <4>3, <4>4 DEF TailShows
    <3>2. CASE Broken(d.wire)
      BY <2>1, <2>2, <3>2, CutIsBroken DEF TailShows
    <3> QED
      BY <2>1, <3>1, <3>2
  <2> QED
    BY <2>3, <2>4, <2>5, OnItsWay
<1>6. CASE SetTimeout \/ SetTimeoutOnce \/ Again \/ RecvNothing \/ RecvErr \/ Tick
  <2>1. UNCHANGED <<mode, sent, net, got>>
    BY <1>6 DEF SetTimeout, SetTimeoutOnce, Again, RecvNothing, RecvErr, Tick
  <2> QED
    BY <2>1, OnItsWay
<1>7. ASSUME NEW d \in got, Decide(d)
      PROVE  WireInv'
  BY <1>7, OnItsWay DEF Decide
<1>8. CASE UNCHANGED vars
  BY <1>8, OnItsWay DEF vars
<1> QED
  BY <1>1, <1>2, <1>3, <1>4, <1>5, <1>6, <1>7, <1>8, <1>9, Zenon DEF Next, Daemon, World

\* Nothing that was sent is forgotten, and the mode is that of the start.
LEMMA SentGrows ==
    ASSUME [Next]_vars
    PROVE  Sent \subseteq Sent' /\ mode' = mode
<1>1. sent \subseteq sent' /\ mode' = mode
  <2>1. CASE Daemon
    BY <2>1 DEF Daemon, SetTimeout, SetTimeoutOnce, Again, RecvNothing, Recv, Decide
  <2>2. CASE World
    BY <2>2 DEF World, Tick, RecvErr, Send, Stray, Lose, Damage, Lengthen
  <2>3. CASE UNCHANGED vars
    BY <2>3 DEF vars
  <2> QED
    BY <2>1, <2>2, <2>3 DEF Next
<1> QED
  BY <1>1 DEF Sent

\* And so does every decision.
LEMMA NextLast ==
    ASSUME WireInv, LastInv, [Next]_vars
    PROVE  LastInv'
<1> SUFFICES ASSUME NEW v \in last'
             PROVE  /\ v.datagram.from \in Hosts
                    /\ v.verdict \in {"stale", "denied", "open"} <=> Accepted(v.datagram.wire)
                    /\ v.verdict \in {"stale", "denied", "open"} => v.datagram.wire \in Sent'
                    /\ TailShows(v.datagram)
  BY SentGrows DEF LastInv, Accepted, Stops, TailShows, Broken
<1>1. CASE last' = last
  BY <1>1, SentGrows DEF LastInv
<1>2. CASE last' = {}
  BY <1>2
<1>3. CASE \E d \in got : last' = {[datagram |-> d, at |-> now, verdict |-> Verdict(d)]}
  <2>1. PICK d \in got : last' = {[datagram |-> d, at |-> now, verdict |-> Verdict(d)]}
    BY <1>3
  <2>2. v.datagram = d /\ v.verdict = Verdict(d)
    BY <2>1
  <2>3. d.from \in Hosts /\ (d.wire \in Sent \/ Broken(d.wire)) /\ TailShows(d)
    BY DEF WireInv, OnTheWay
  <2>4. Verdict(d) \in {"stale", "denied", "open"} <=> Accepted(d.wire)
    BY VerdictAccepts
  <2>5. Accepted(d.wire) => d.wire \in Sent'
    BY <2>3, AcceptedNotBroken, SentGrows
  <2> QED
    BY <2>2, <2>3, <2>4, <2>5
<1> QED
  BY <1>1, <1>2, <1>3, LastStep

\* The invariant holds of every behaviour.
LEMMA WireInvariant == Spec => [](WireInv /\ LastInv)
<1>1. Init => WireInv /\ LastInv
  BY FS_EmptySet DEF Init, WireInv, LastInv
<1> QED
  BY <1>1, NextWire, NextLast, PTL DEF Spec

\* packet.rs and matcher.rs: the daemon goes on with a datagram only if its packet
\* is, to the last bit, one that was sent, under a stanza whose key its tag was
\* made with, whatever the network did to it, and if nothing was behind the packet;
\* or it is a capture worker's, whose buffer the packet filled (workers.rs:60).
THEOREM KnockActsOnWhatWasSent == Spec => []ActsOnWhatWasSent
<1>1. LastInv => ActsOnWhatWasSent
  <2> SUFFICES ASSUME LastInv, NEW v \in last, v.verdict \in {"stale", "denied", "open"}
               PROVE  /\ v.datagram.wire \in Sent
                      /\ Key(First(Stops(v.datagram.wire))) \in SignedWith(v.datagram.wire)
                      /\ v.datagram.tail > 0 =>
                            mode = "privsep" /\ v.datagram.wire.size = MAX_PACKET_LEN
    BY DEF ActsOnWhatWasSent
  <2> DEFINE w == v.datagram.wire
             i == First(Stops(w))
  <2>1. w \in Sent /\ Accepted(w)
    BY DEF LastInv
  <2>2. Stops(w) # {} /\ ParseError(w, Key(i)) = "none" /\ Stops(w) \subseteq DOMAIN Stanzas
    BY <2>1 DEF Accepted, Stops
  <2>3. i \in DOMAIN Stanzas
    BY <2>2, FirstStop
  <2>4. w.mac = Sign(Derive(Key(i), "hmac"), Signed(w))
    BY <2>2 DEF ParseError
  <2>5. Key(i) \in SignedWith(w)
    BY <2>3, <2>4 DEF SignedWith
  <2>6. TailShows(v.datagram) /\ ~Broken(w)
    BY <2>1, AcceptedNotBroken DEF LastInv
  <2> QED
    BY <2>1, <2>5, <2>6 DEF TailShows
<1> QED
  BY <1>1, WireInvariant, PTL

-----------------------------------------------------------------------------
(* What clients make *)

\* What build_packet made passes the first two tests of parse_packet.
LEMMA MadeFits ==
    ASSUME NEW w, Made(w)
    PROVE  ~(w.size < MIN_PACKET_LEN) /\ ~(w.size > MAX_PACKET_LEN)
<1> DEFINE n == w.size
<1>1. n \in MIN_PACKET_LEN..MAX_PACKET_LEN
  BY DEF Made
<1> HIDE DEF n
<1>2. ~(n < MIN_PACKET_LEN) /\ ~(n > MAX_PACKET_LEN)
  BY <1>1 DEF MIN_PACKET_LEN, MAX_PACKET_LEN, HEADER_LEN, NONCE_LEN, TAG_LEN, HMAC_LEN
<1> QED
  BY <1>2 DEF n

\* parse_packet reads what build_packet made, under the key of the tag.
LEMMA MadeIsRead ==
    ASSUME NEW w, Made(w), w.body.plain.username = "ok", NEW k,
           w.mac = Sign(Derive(k, "hmac"), Signed(w))
    PROVE  ParseError(w, k) = "none"
<1> DEFINE payload == w.body.plain
           m == w.mac.key[1]
           len == EncodedLen(payload)
<1>1. w = BuildPacket(payload, m, w.nonce)
  BY DEF Made
<1>2. k = m
  BY DEF Sign, Derive
<1>3. /\ w.header = HeaderFor(payload)
      /\ w.body = Seal(Derive(m, "enc"), w.nonce, w.header, payload)
      /\ w.size = HEADER_LEN + NONCE_LEN + len + TAG_LEN + HMAC_LEN
  BY <1>1 DEF BuildPacket, Packet
<1> HIDE DEF payload, m
<1>4. /\ w.header.version = PROTO_VERSION /\ w.header.flags = DeriveFlags(payload)
      /\ w.header.payload_len = len + TAG_LEN
  BY <1>3 DEF HeaderFor
<1>5. payload.kind = "access" /\ payload # NoPayload /\ payload.username = "ok"
  BY DEF Made, payload
<1>6. DeriveFlags(payload) \subseteq ALL_DEFINED
  BY <1>5 DEF DeriveFlags, ALL_DEFINED
<1>7. HeaderError(w.header) = "none"
  BY <1>4, <1>6 DEF HeaderError
<1>8. DecodeError(payload) = "none"
  BY <1>5 DEF DecodeError
<1>9. w.size - HEADER_LEN - NONCE_LEN - HMAC_LEN = w.header.payload_len
  <2>1. len \in Nat
    BY DEF Made, payload
  <2> HIDE DEF len
  <2> QED
    BY <2>1, <1>3, <1>4 DEF HEADER_LEN, NONCE_LEN, TAG_LEN, HMAC_LEN
<1>10. Opens(Derive(k, "enc"), w.nonce, w.header, w.body)
  BY <1>2, <1>3 DEF Opens, payload
<1>11. OpenError(w, k) = "none"
  BY <1>4, <1>8, <1>9, <1>10 DEF OpenError, payload
<1>12. ~(w.size < MIN_PACKET_LEN) /\ ~(w.size > MAX_PACKET_LEN)
  BY MadeFits
<1> QED
  BY <1>7, <1>11, <1>12 DEF ParseError

\* The first stanza at which match_packet stops on it accepts it.
LEMMA MadeIsAccepted ==
    ASSUME NEW w, Made(w), w.body.plain.username = "ok", SignedWith(w) # {}
    PROVE  Accepted(w)
<1>1. PICK i \in DOMAIN Stanzas : w.mac = Sign(Derive(Key(i), "hmac"), Signed(w))
  BY DEF SignedWith
<1>2. ParseError(w, Key(i)) = "none"
  BY <1>1, MadeIsRead
<1>3. i \in Stops(w) /\ Stops(w) \subseteq DOMAIN Stanzas
  BY <1>2 DEF Stops
<1> DEFINE j == First(Stops(w))
<1>4. j \in Stops(w)
  BY <1>3, FirstStop
<1>5. ParseError(w, Key(j)) # "hmac_failed"
  BY <1>4 DEF Stops
<1>6. ~(w.size < MIN_PACKET_LEN) /\ ~(w.size > MAX_PACKET_LEN)
  BY MadeFits
<1>7. w.mac = Sign(Derive(Key(j), "hmac"), Signed(w))
  BY <1>5, <1>6 DEF ParseError
<1>8. ParseError(w, Key(j)) = "none"
  BY <1>7, MadeIsRead
<1> QED
  BY <1>3, <1>8 DEF Accepted

\* What build_packet makes of any command line and any fwknox.toml fits into a
\* packet, and arrives at the daemon's policy if its key is that of a stanza,
\* however many stanzas with other keys come before.
THEOREM KnockHearsEveryClient == Spec => []HearsEveryClient
<1>1. WireInv /\ LastInv => HearsEveryClient
  <2> SUFFICES ASSUME WireInv, LastInv PROVE HearsEveryClient
    OBVIOUS
  <2>1. \A w \in SentByClients : Made(w)
    BY DEF SentByClients, WireInv
  <2>2. \A w \in SentByClients : w.size \in MIN_PACKET_LEN..MAX_PACKET_LEN
    BY <2>1 DEF Made
  <2>3. ASSUME NEW v \in last, v.datagram.wire \in SentByClients,
               SignedWith(v.datagram.wire) # {}, v.datagram.wire.body.plain.username = "ok"
        PROVE  v.verdict \notin {"no_match", "rejected"}
    <3>1. Accepted(v.datagram.wire)
      BY <2>1, <2>3, MadeIsAccepted
    <3>2. v.verdict \in {"stale", "denied", "open"}
      BY <3>1 DEF LastInv
    <3> QED
      BY <3>2
  <2> QED
    BY <2>2, <2>3, Zenon DEF HearsEveryClient
<1> QED
  BY <1>1, WireInvariant, PTL

-----------------------------------------------------------------------------
(* Pipeline *)

\* The outcome of parse_packet as Pipeline has it.
Outcome(e) ==
    IF e = "none" THEN "ok" ELSE IF e = "hmac_failed" THEN "hmac_failed" ELSE "rejected"

\* No error after the HMAC is that of the HMAC.
LEMMA LaterErrors ==
    ASSUME NEW p, NEW k
    PROVE  HeaderError(p.header) # "hmac_failed" /\ OpenError(p, k) # "hmac_failed"
BY DEF HeaderError, OpenError, DecodeError

\* A tag is under one key at most.
LEMMA OneSigner ==
    ASSUME NEW p, NEW i \in DOMAIN Stanzas,
           p.mac = Sign(Derive(Key(i), "hmac"), Signed(p))
    PROVE  SignedWith(p) # {} /\ Unwrap(SignedWith(p)) = Key(i)
<1>1. Key(i) \in SignedWith(p)
  BY DEF SignedWith
<1>2. ASSUME NEW k \in SignedWith(p) PROVE k = Key(i)
  <2>1. Sign(Derive(k, "hmac"), Signed(p)) = Sign(Derive(Key(i), "hmac"), Signed(p))
    BY Zenon DEF SignedWith
  <2> QED
    BY <2>1 DEF Sign, Derive
<1> QED
  BY <1>1, <1>2 DEF Unwrap

\* A datagram that is read under stanza i, as Pipeline sees it.
Good(p) ==
    SignedWith(p) # {} /\ HeaderError(p.header) = "none"
        /\ OpenError(p, Unwrap(SignedWith(p))) = "none"

\* The fields of the view.
LEMMA AbstractFields ==
    ASSUME NEW d
    PROVE  /\ Abstract(d).key = IF SignedWith(d.wire) = {} THEN "none"
                                ELSE Unwrap(SignedWith(d.wire))
           /\ Abstract(d).form = IF d.wire.size < MIN_PACKET_LEN \/ d.wire.size > MAX_PACKET_LEN
                                 THEN "badsize" ELSE IF Good(d.wire) THEN "ok" ELSE "corrupt"
           /\ Abstract(d).from = d.from
           /\ Good(d.wire) =>
                 /\ Abstract(d).kind = "access" <=> d.wire.body.plain.kind = "access"
                 /\ Abstract(d).source = d.wire.body.plain.source_ip
                 /\ Abstract(d).ports = d.wire.body.plain.ports
BY Zenon DEF Abstract, Good

\* parse_packet under one stanza.
LEMMA ParseAgrees ==
    ASSUME NEW d, NEW i \in DOMAIN Stanzas
    PROVE  P!ParsePacket(Abstract(d), i) = Outcome(ParseError(d.wire, Key(i)))
<1> DEFINE p == d.wire
           a == Abstract(d)
           out == P!ParsePacket(a, i)
           bad == p.size < MIN_PACKET_LEN \/ p.size > MAX_PACKET_LEN
           mine == p.mac = Sign(Derive(Key(i), "hmac"), Signed(p))
<1>1. out = CASE a.form = "badsize" -> "rejected"
              [] a.form # "badsize" /\ a.key # Key(i) -> "hmac_failed"
              [] a.form = "corrupt" /\ a.key = Key(i) -> "rejected"
              [] OTHER -> "ok"
  BY DEF P!ParsePacket, PolicyOf, Key
<1>2. mine => SignedWith(p) # {} /\ Unwrap(SignedWith(p)) = Key(i)
  BY OneSigner
<1>3. a.key = Key(i) <=> mine
  <2>1. mine => a.key = Key(i)
    BY <1>2, AbstractFields, Zenon
  <2>2. ASSUME a.key = Key(i) PROVE mine
    <3>1. SignedWith(p) # {} /\ Unwrap(SignedWith(p)) = Key(i)
      BY <2>2, AbstractFields, StanzasAssumption
    <3>2. Unwrap(SignedWith(p)) \in SignedWith(p)
      BY <3>1 DEF Unwrap
    <3> QED
      BY <3>1, <3>2 DEF SignedWith
  <2> QED
    BY <2>1, <2>2, Zenon
<1>4. mine => (Good(p) <=> HeaderError(p.header) = "none" /\ OpenError(p, Key(i)) = "none")
  BY <1>2 DEF Good
<1>5. a.form = IF bad THEN "badsize" ELSE IF Good(p) THEN "ok" ELSE "corrupt"
  BY AbstractFields, Zenon
<1>6. ParseError(p, Key(i)) =
        IF p.size < MIN_PACKET_LEN THEN "packet_too_short"
        ELSE IF p.size > MAX_PACKET_LEN THEN "packet_too_long"
        ELSE IF ~mine THEN "hmac_failed"
        ELSE IF HeaderError(p.header) # "none" THEN HeaderError(p.header)
        ELSE OpenError(p, Key(i))
  BY DEF ParseError
<1>7. HeaderError(p.header) # "hmac_failed" /\ OpenError(p, Key(i)) # "hmac_failed"
  BY LaterErrors
<1> HIDE DEF p, a, out, mine
<1>8. CASE bad
  BY <1>1, <1>5, <1>6, <1>8 DEF Outcome, out, p, a
<1>9. CASE ~bad /\ ~mine
  BY <1>1, <1>3, <1>5, <1>6, <1>9 DEF Outcome, out, p, a
<1>10. CASE ~bad /\ mine
  BY <1>1, <1>3, <1>4, <1>5, <1>6, <1>7, <1>10, SMTT(30) DEF Outcome, out, p, a
<1> QED
  BY <1>8, <1>9, <1>10

\* Steps 4 and 5 of process_packet, under the stanza that match_packet stops at.
LEMMA PolicyAgrees ==
    ASSUME NEW d, d.from \in Hosts, P!Matched(Abstract(d))
    PROVE  P!PolicyAllows(Abstract(d)) <=>
              Permits(Stanzas[First(Stops(d.wire))], d.wire.body.plain, d.from)
<1> DEFINE a == Abstract(d)
           i == First(Stops(d.wire))
<1>1. P!Stops(a) = Stops(d.wire)
  <2>1. \A j \in DOMAIN Stanzas :
            P!ParsePacket(a, j) # "hmac_failed" <=> ParseError(d.wire, Key(j)) # "hmac_failed"
    BY ParseAgrees DEF Outcome
  <2> QED
    BY <2>1 DEF P!Stops, Stops
<1>2. P!Stanza(a) = i
  BY <1>1 DEF P!Stanza, First
<1>3. Stops(d.wire) # {} /\ P!ParsePacket(a, i) = "ok"
  BY <1>1, <1>2 DEF P!Matched
<1>4. i \in DOMAIN Stanzas
  BY <1>3, FirstStop DEF Stops
<1>5. ParseError(d.wire, Key(i)) = "none"
  BY <1>3, <1>4, ParseAgrees, SMTT(30) DEF Outcome
<1>6. /\ d.wire.mac = Sign(Derive(Key(i), "hmac"), Signed(d.wire))
      /\ HeaderError(d.wire.header) = "none" /\ OpenError(d.wire, Key(i)) = "none"
  BY <1>5 DEF ParseError
<1>7. Good(d.wire)
  BY <1>4, <1>6, OneSigner, SMTT(30) DEF Good
<1>8. /\ a.kind = "access" <=> d.wire.body.plain.kind = "access"
      /\ a.source = d.wire.body.plain.source_ip
      /\ a.ports = d.wire.body.plain.ports
      /\ a.from = d.from
  BY <1>7, AbstractFields, Zenon
<1> HIDE DEF a, i
<1>9. P!PolicyAllows(a) <=>
        /\ a.kind = "access"
        /\ PolicyOf(Stanzas[i]).requireSourceMatch => a.source = a.from
        /\ a.from \in PolicyOf(Stanzas[i]).sources
        /\ a.ports \subseteq PolicyOf(Stanzas[i]).openPorts
  BY <1>2, <1>4, SMTT(30) DEF P!PolicyAllows
<1>10. /\ PolicyOf(Stanzas[i]).requireSourceMatch = Stanzas[i].require_source_match
       /\ d.from \in PolicyOf(Stanzas[i]).sources
             <=> \E spec \in Stanzas[i].source.items : Matches(spec, d.from)
       /\ PolicyOf(Stanzas[i]).openPorts = Stanzas[i].open_ports.items
  BY Zenon DEF PolicyOf
<1> QED
  BY <1>8, <1>9, <1>10, Zenon DEF Permits, a, i

\* Pipeline, from which the two daemons are built, sees in any datagram that may
\* arrive, sent by whomever and damaged in whichever part, exactly what
\* parse_packet and the policy of process_packet see in its bytes.
THEOREM KnockPipelineAgrees == Spec => []PipelineAgrees
<1>1. LastInv => PipelineAgrees
  <2> SUFFICES ASSUME LastInv, NEW d \in {v.datagram : v \in last}
               PROVE  /\ \A i \in DOMAIN Stanzas :
                            P!ParsePacket(Abstract(d), i) = Outcome(ParseError(d.wire, Key(i)))
                      /\ P!Matched(Abstract(d)) =>
                            (P!PolicyAllows(Abstract(d)) <=>
                                Permits(Stanzas[First(Stops(d.wire))], d.wire.body.plain, d.from))
    BY DEF PipelineAgrees, Outcome
  <2>1. d.from \in Hosts
    BY DEF LastInv
  <2> QED
    BY <2>1, ParseAgrees, PolicyAgrees, Zenon
<1> QED
  BY <1>1, WireInvariant, PTL
=============================================================================
