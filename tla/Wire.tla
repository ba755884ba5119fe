-------------------------------- MODULE Wire --------------------------------
(***************************************************************************)
(* The SPA packet of crates/fwknox-proto: how build_packet makes one from  *)
(* a payload and a master key, and which ones parse_packet accepts.        *)
(*                                                                         *)
(* Cryptography is ideal: a ciphertext or an HMAC is a record of what went *)
(* into it, which nobody makes without the key, and which equals another   *)
(* only if all of that is equal.  Junk stands for any other bytes.  A      *)
(* packet on the wire is a record                                          *)
(*   header   version, flags (the set of its bits) and payload_len         *)
(*   nonce    of the AEAD                                                  *)
(*   body     the ciphertext with its tag                                  *)
(*   mac      the last 32 bytes                                            *)
(*   size     its length in bytes                                          *)
(* and a payload is one of nonce, timestamp, username ("ok", "long" or     *)
(* "control"), kind, source_ip, ports and client_timeout ({} for None).    *)
(***************************************************************************)
EXTENDS Integers

CONSTANTS
    EncodedLen(_),  \* the length of a payload as MessagePack
    Half            \* 2^63: timestamps are i64

ASSUME HalfAssumption == Half \in Nat \ {0}

HEADER_LEN == 4
NONCE_LEN == 12
TAG_LEN == 16
HMAC_LEN == 32
MAX_PACKET_LEN == 1500
MIN_PACKET_LEN == HEADER_LEN + NONCE_LEN + TAG_LEN + HMAC_LEN
MAX_ENCODED_LEN == 1024
PROTO_VERSION == 1

ALL_DEFINED == {"NAT", "CLIENT_TIMEOUT", "COMMAND", "ASYMMETRIC"}

\* A text that is no MessagePack of a payload; bytes that nothing sealed or signed.
NoPayload == [text |-> "junk"]
Junk == [plain |-> NoPayload]
JunkNonce == -1

-----------------------------------------------------------------------------
(* kdf.rs, aead.rs, hmac.rs *)

Derive(master, purpose) == <<master, purpose>>

Seal(key, nonce, aad, plain) == [key |-> key, nonce |-> nonce, aad |-> aad, plain |-> plain]

\* The text that was sealed, if it was sealed with all of these.
Opens(key, nonce, aad, body) == body = Seal(key, nonce, aad, body.plain)

Sign(key, message) == [key |-> key, message |-> message]

-----------------------------------------------------------------------------
(* packet.rs, header.rs, payload.rs *)

\* derive_flags
DeriveFlags(payload) ==
    (CASE payload.kind = "access"               -> {}
       [] payload.kind \in {"nat", "local_nat"} -> {"NAT"}
       [] payload.kind = "command"              -> {"COMMAND"})
    \cup IF payload.client_timeout = {} THEN {} ELSE {"CLIENT_TIMEOUT"}

\* What the HMAC covers: everything before it.
Signed(p) == <<p.header, p.nonce, p.body>>

\* The packet with this header around a text of this length.
Packet(header, plain, len, master, nonce) ==
    LET body == Seal(Derive(master, "enc"), nonce, header, plain)
    IN  [header |-> header, nonce |-> nonce, body |-> body,
         mac |-> Sign(Derive(master, "hmac"), <<header, nonce, body>>),
         size |-> HEADER_LEN + NONCE_LEN + len + TAG_LEN + HMAC_LEN]

\* Mutant of HeaderFor: the length is that of the text without the tag.
HeaderForText(payload) ==
    [version |-> PROTO_VERSION, flags |-> DeriveFlags(payload),
     payload_len |-> EncodedLen(payload)]

HeaderFor(payload) ==
    [version |-> PROTO_VERSION, flags |-> DeriveFlags(payload),
     payload_len |-> EncodedLen(payload) + TAG_LEN]

\* build_packet succeeds if SpaPayload::encode does; the packet then fits.
Encodes(payload) == EncodedLen(payload) <= MAX_ENCODED_LEN

BuildPacket(payload, master, nonce) ==
    Packet(HeaderFor(payload), payload, EncodedLen(payload), master, nonce)

\* Header::decode
HeaderError(header) ==
    IF header.version # PROTO_VERSION THEN "unsupported_version"
    ELSE IF ~(header.flags \subseteq ALL_DEFINED) THEN "reserved_flag"
    ELSE "none"

\* SpaPayload::decode with validate_structure.
DecodeError(plain) ==
    IF plain = NoPayload THEN "payload_decode"
    ELSE IF plain.username # "ok" THEN "invalid_username"
    ELSE "none"

\* What parse_packet does of a packet after HMAC and header.
OpenError(p, master) ==
    IF p.size - HEADER_LEN - NONCE_LEN - HMAC_LEN # p.header.payload_len
    THEN "payload_len_mismatch"
    ELSE IF ~Opens(Derive(master, "enc"), p.nonce, p.header, p.body) THEN "aead_failed"
    ELSE IF DecodeError(p.body.plain) # "none" THEN DecodeError(p.body.plain)
    ELSE IF p.header.flags # DeriveFlags(p.body.plain) THEN "flag_mismatch"
    ELSE "none"

\* Mutant of ParseError: the header is decoded before the tag is verified.
ParseErrorHeaderFirst(p, master) ==
    IF p.size < MIN_PACKET_LEN THEN "packet_too_short"
    ELSE IF p.size > MAX_PACKET_LEN THEN "packet_too_long"
    ELSE IF HeaderError(p.header) # "none" THEN HeaderError(p.header)
    ELSE IF p.mac # Sign(Derive(master, "hmac"), Signed(p)) THEN "hmac_failed"
    ELSE OpenError(p, master)

\* parse_packet: its error, or "none" and the payload is p.body.plain.
ParseError(p, master) ==
    IF p.size < MIN_PACKET_LEN THEN "packet_too_short"
    ELSE IF p.size > MAX_PACKET_LEN THEN "packet_too_long"
    ELSE IF p.mac # Sign(Derive(master, "hmac"), Signed(p)) THEN "hmac_failed"
    ELSE IF HeaderError(p.header) # "none" THEN HeaderError(p.header)
    ELSE OpenError(p, master)

-----------------------------------------------------------------------------
(* validate.rs *)

\* An i64 difference in a release build, which wraps.
WrappingSub(a, b) ==
    LET d == a - b
    IN  IF d >= Half THEN d - 2 * Half ELSE IF d < -Half THEN d + 2 * Half ELSE d

\* Mutant of InWindow: the difference is taken the other way round.
InWindowSwapped(now, ts, maxAge, maxSkew) ==
    LET delta == WrappingSub(ts, now)
    IN  ~(delta < -maxSkew) /\ ~(delta > maxAge)

\* validate_against_clock
InWindow(now, ts, maxAge, maxSkew) ==
    LET delta == WrappingSub(now, ts)
    IN  ~(delta < -maxSkew) /\ ~(delta > maxAge)
=============================================================================
