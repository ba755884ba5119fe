------------------------------ MODULE SourceKey ------------------------------
(***************************************************************************)
(* What the rate limiter takes for one source,                             *)
(* crates/fwknox-ratelimit/src/key.rs.  An address is a record of its      *)
(* family and its octets, most significant first.                          *)
(***************************************************************************)
EXTENDS Integers

\* SourceKey::from_ipv4
FromIpv4(ip) ==
    [discriminator |-> "V4", bytes |-> [i \in 1..16 |-> IF i <= 4 THEN ip.octets[i] ELSE 0]]

Clamp(n, low, high) == IF n < low THEN low ELSE IF n > high THEN high ELSE n

\* byte & (0xFF << (8 - bits)), for 0 < bits < 8.
KeepTop(byte, bits) == byte - (byte % 2^(8 - bits))

\* Mutant of FromIpv6Masked: the octet that the prefix ends in is cleared.
FromIpv6WholeOctets(ip, prefix_len) ==
    LET full_bytes == Clamp(prefix_len, 1, 128) \div 8
    IN  [discriminator |-> "V6",
         bytes |-> [i \in 1..16 |-> IF i <= full_bytes THEN ip.octets[i] ELSE 0]]

\* SourceKey::from_ipv6_masked
FromIpv6Masked(ip, prefix_len) ==
    LET full_bytes == Clamp(prefix_len, 1, 128) \div 8
        remaining_bits == Clamp(prefix_len, 1, 128) % 8
    IN  [discriminator |-> "V6",
         bytes |-> [i \in 1..16 |->
                       IF i <= full_bytes THEN ip.octets[i]
                       ELSE IF i = full_bytes + 1 /\ remaining_bits > 0
                       THEN KeepTop(ip.octets[i], remaining_bits)
                       ELSE 0]]

\* SourceKey::from_ip
FromIp(ip, ipv6_prefix_len) ==
    IF ip.family = "v4" THEN FromIpv4(ip) ELSE FromIpv6Masked(ip, ipv6_prefix_len)

-----------------------------------------------------------------------------
(* Reference *)

\* Bit n of an address, from 0 for the most significant.
Bit(ip, n) == (ip.octets[(n \div 8) + 1] \div 2^(7 - (n % 8))) % 2

\* The bits that tell sources apart: all 32, or the prefix.
Significant(ip, prefix) == IF ip.family = "v4" THEN 0..31 ELSE 0..(prefix - 1)

\* The addresses there are: std's IpAddr.
Octets(n) == [1..n -> 0..255]
Address == [family : {"v4"}, octets : Octets(4)] \cup [family : {"v6"}, octets : Octets(16)]

\* Two addresses are of one family and agree on the significant bits.
SamePrefix(a, b, prefix) ==
    /\ a.family = b.family
    /\ \A n \in Significant(a, prefix) : Bit(a, n) = Bit(b, n)

\* The address with every bit like fill, except bit n.
OneOff(family, fill, n) ==
    LET flipped == IF fill = 0 THEN 2^(7 - (n % 8)) ELSE 255 - 2^(7 - (n % 8))
    IN  [family |-> family,
         octets |-> [i \in 1..(IF family = "v4" THEN 4 ELSE 16) |->
                        IF i = (n \div 8) + 1 THEN flipped ELSE fill]]

\* With this prefix length, two addresses have one key exactly if they have one
\* prefix: for addresses that differ in two bits, anywhere or around the end of
\* the prefix, and across the families.
OneKeyPerPrefix(prefix) ==
    \A fill \in {0, 255} :
        LET near == (prefix - 2)..(prefix + 1)
            ips == {OneOff("v4", fill, n) : n \in 0..31}
                     \cup {OneOff("v6", fill, n) : n \in 0..127}
            some == {OneOff("v4", fill, n) : n \in {0, 31}}
                      \cup {OneOff("v6", fill, n) : n \in near \cap 0..127}
        IN  \A a \in some, b \in ips :
                FromIp(a, prefix) = FromIp(b, prefix) <=> SamePrefix(a, b, prefix)
=============================================================================
