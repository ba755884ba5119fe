-------------------------- MODULE RateLimiterProofs --------------------------
(***************************************************************************)
(* For every rate, burst, capacity, threshold and set of sources: the      *)
(* buckets never exceed their rate over any window, and no flood takes a   *)
(* candidate's count away.                                                 *)
(***************************************************************************)
EXTENDS RateLimiter, OrderProofs

-----------------------------------------------------------------------------
(* What the limiter takes for one source. *)

\* The powers of two that an octet needs.
LEMMA Powers ==
    /\ 2^0 = 1 /\ 2^1 = 2 /\ 2^2 = 4 /\ 2^3 = 8
    /\ 2^4 = 16 /\ 2^5 = 32 /\ 2^6 = 64 /\ 2^7 = 128 /\ 2^8 = 256
OBVIOUS

\* Bit j of an octet, from 0 for the most significant.
OctetBit(a, j) == (a \div 2^(7 - j)) % 2

\* Two octets agree on their first r bits.
Agree(a, b, r) == \A j \in 0..(r - 1) : OctetBit(a, j) = OctetBit(b, j)

\* The bits of an octet, one by one.
LEMMA Bits ==
    ASSUME NEW a \in 0..255
    PROVE  /\ OctetBit(a, 0) = (a \div 128) % 2 /\ OctetBit(a, 1) = (a \div 64) % 2
           /\ OctetBit(a, 2) = (a \div 32) % 2 /\ OctetBit(a, 3) = (a \div 16) % 2
           /\ OctetBit(a, 4) = (a \div 8) % 2 /\ OctetBit(a, 5) = (a \div 4) % 2
           /\ OctetBit(a, 6) = (a \div 2) % 2 /\ OctetBit(a, 7) = a % 2
<1>1. /\ 7 - 0 = 7 /\ 7 - 1 = 6 /\ 7 - 2 = 5 /\ 7 - 3 = 4
      /\ 7 - 4 = 3 /\ 7 - 5 = 2 /\ 7 - 6 = 1 /\ 7 - 7 = 0
  OBVIOUS
<1>2. /\ OctetBit(a, 0) = (a \div 128) % 2 /\ OctetBit(a, 1) = (a \div 64) % 2
      /\ OctetBit(a, 2) = (a \div 32) % 2 /\ OctetBit(a, 3) = (a \div 16) % 2
      /\ OctetBit(a, 4) = (a \div 8) % 2 /\ OctetBit(a, 5) = (a \div 4) % 2
      /\ OctetBit(a, 6) = (a \div 2) % 2 /\ OctetBit(a, 7) = (a \div 1) % 2
  BY <1>1, Powers DEF OctetBit
<1>3. a \div 1 = a
  OBVIOUS
<1> QED
  BY <1>2, <1>3

\* A bit is 0 or 1.
LEMMA BitValues ==
    ASSUME NEW a \in 0..255
    PROVE  \A j \in 0..7 : OctetBit(a, j) \in 0..1
<1>1. \A x \in Int : x % 2 \in 0..1
  OBVIOUS
<1>2. /\ a \div 128 \in Int /\ a \div 64 \in Int /\ a \div 32 \in Int /\ a \div 16 \in Int
      /\ a \div 8 \in Int /\ a \div 4 \in Int /\ a \div 2 \in Int /\ a \in Int
  OBVIOUS
<1>3. /\ OctetBit(a, 0) \in 0..1 /\ OctetBit(a, 1) \in 0..1 /\ OctetBit(a, 2) \in 0..1
      /\ OctetBit(a, 3) \in 0..1 /\ OctetBit(a, 4) \in 0..1 /\ OctetBit(a, 5) \in 0..1
      /\ OctetBit(a, 6) \in 0..1 /\ OctetBit(a, 7) \in 0..1
  BY <1>1, <1>2, Bits
<1>4. \A j \in 0..7 : j = 0 \/ j = 1 \/ j = 2 \/ j = 3 \/ j = 4 \/ j = 5 \/ j = 6 \/ j = 7
  OBVIOUS
<1> QED
  BY <1>3, <1>4, Zenon

\* The number that the first r bits of an octet make.
Cut(a, r) == a \div 2^(8 - r)

\* The cuts of an octet, one by one.
LEMMA Cuts ==
    ASSUME NEW a \in 0..255
    PROVE  /\ Cut(a, 0) = 0 /\ Cut(a, 1) = a \div 128 /\ Cut(a, 2) = a \div 64
           /\ Cut(a, 3) = a \div 32 /\ Cut(a, 4) = a \div 16 /\ Cut(a, 5) = a \div 8
           /\ Cut(a, 6) = a \div 4 /\ Cut(a, 7) = a \div 2 /\ Cut(a, 8) = a
<1>1. /\ 8 - 0 = 8 /\ 8 - 1 = 7 /\ 8 - 2 = 6 /\ 8 - 3 = 5 /\ 8 - 4 = 4
      /\ 8 - 5 = 3 /\ 8 - 6 = 2 /\ 8 - 7 = 1 /\ 8 - 8 = 0
  OBVIOUS
<1>2. /\ Cut(a, 0) = a \div 256 /\ Cut(a, 1) = a \div 128 /\ Cut(a, 2) = a \div 64
      /\ Cut(a, 3) = a \div 32 /\ Cut(a, 4) = a \div 16 /\ Cut(a, 5) = a \div 8
      /\ Cut(a, 6) = a \div 4 /\ Cut(a, 7) = a \div 2 /\ Cut(a, 8) = a \div 1
  BY <1>1, Powers DEF Cut
<1>3. a \div 256 = 0 /\ a \div 1 = a
  OBVIOUS
<1> QED
  BY <1>2, <1>3

\* Cutting an octet one place further down adds one bit.
LEMMA CutStep ==
    ASSUME NEW a \in 0..255
    PROVE  \A r \in 0..7 : Cut(a, r) \in Int /\ Cut(a, r + 1) = 2 * Cut(a, r) + OctetBit(a, r)
<1> DEFINE Step(r) == Cut(a, r) \in Int /\ Cut(a, r + 1) = 2 * Cut(a, r) + OctetBit(a, r)
<1>1. Step(0)
  <2>1. 0 \in Int /\ a \div 128 = 2 * (0) + ((a \div 128) % 2)
    OBVIOUS
  <2>2. Cut(a, 0) = 0 /\ Cut(a, 0 + 1) = a \div 128 /\ OctetBit(a, 0) = (a \div 128) % 2
    BY Cuts, Bits
  <2> QED
    BY <2>1, <2>2
<1>2. Step(1)
  <2>1. a \div 128 \in Int /\ a \div 64 = 2 * (a \div 128) + ((a \div 64) % 2)
    OBVIOUS
  <2>2. Cut(a, 1) = a \div 128 /\ Cut(a, 1 + 1) = a \div 64 /\ OctetBit(a, 1) = (a \div 64) % 2
    BY Cuts, Bits
  <2> QED
    BY <2>1, <2>2
<1>3. Step(2)
  <2>1. a \div 64 \in Int /\ a \div 32 = 2 * (a \div 64) + ((a \div 32) % 2)
    OBVIOUS
  <2>2. Cut(a, 2) = a \div 64 /\ Cut(a, 2 + 1) = a \div 32 /\ OctetBit(a, 2) = (a \div 32) % 2
    BY Cuts, Bits
  <2> QED
    BY <2>1, <2>2
<1>4. Step(3)
  <2>1. a \div 32 \in Int /\ a \div 16 = 2 * (a \div 32) + ((a \div 16) % 2)
    OBVIOUS
  <2>2. Cut(a, 3) = a \div 32 /\ Cut(a, 3 + 1) = a \div 16 /\ OctetBit(a, 3) = (a \div 16) % 2
    BY Cuts, Bits
  <2> QED
    BY <2>1, <2>2
<1>5. Step(4)
  <2>1. a \div 16 \in Int /\ a \div 8 = 2 * (a \div 16) + ((a \div 8) % 2)
    OBVIOUS
  <2>2. Cut(a, 4) = a \div 16 /\ Cut(a, 4 + 1) = a \div 8 /\ OctetBit(a, 4) = (a \div 8) % 2
    BY Cuts, Bits
  <2> QED
    BY <2>1, <2>2
<1>6. Step(5)
  <2>1. a \div 8 \in Int /\ a \div 4 = 2 * (a \div 8) + ((a \div 4) % 2)
    OBVIOUS
  <2>2. Cut(a, 5) = a \div 8 /\ Cut(a, 5 + 1) = a \div 4 /\ OctetBit(a, 5) = (a \div 4) % 2
    BY Cuts, Bits
  <2> QED
    BY <2>1, <2>2
<1>7. Step(6)
  <2>1. a \div 4 \in Int /\ a \div 2 = 2 * (a \div 4) + ((a \div 2) % 2)
    OBVIOUS
  <2>2. Cut(a, 6) = a \div 4 /\ Cut(a, 6 + 1) = a \div 2 /\ OctetBit(a, 6) = (a \div 2) % 2
    BY Cuts, Bits
  <2> QED
    BY <2>1, <2>2
<1>8. Step(7)
  <2>1. a \div 2 \in Int /\ a = 2 * (a \div 2) + (a % 2)
    OBVIOUS
  <2>2. Cut(a, 7) = a \div 2 /\ Cut(a, 7 + 1) = a /\ OctetBit(a, 7) = a % 2
    BY Cuts, Bits
  <2> QED
    BY <2>1, <2>2
<1>9. \A r \in 0..7 : r = 0 \/ r = 1 \/ r = 2 \/ r = 3 \/ r = 4 \/ r = 5 \/ r = 6 \/ r = 7
  OBVIOUS
<1> HIDE DEF Step
<1>10. \A r \in 0..7 : Step(r)
  BY <1>1, <1>2, <1>3, <1>4, <1>5, <1>6, <1>7, <1>8, <1>9
<1> QED
  BY <1>10 DEF Step

\* Twice a number and a bit: the sum has both.
LEMMA DoubleAndBit ==
    ASSUME NEW x \in Int, NEW y \in Int, NEW p \in 0..1, NEW q \in 0..1
    PROVE  2 * x + p = 2 * y + q <=> x = y /\ p = q
OBVIOUS

\* Octets agree on their first r bits exactly if they are equal cut after them.
LEMMA AgreeIsCut ==
    ASSUME NEW a \in 0..255, NEW b \in 0..255
    PROVE  \A r \in 0..8 : Agree(a, b, r) <=> Cut(a, r) = Cut(b, r)
<1> DEFINE good == {r \in 0..8 : Agree(a, b, r) <=> Cut(a, r) = Cut(b, r)}
<1>1. 0 \in good
  BY Cuts DEF Agree
<1>2. ASSUME NEW r \in Nat, r < 8, r \in good PROVE r + 1 \in good
  <2>1. r \in 0..7 /\ r + 1 \in 0..8 /\ (Agree(a, b, r) <=> Cut(a, r) = Cut(b, r))
    BY <1>2
  <2>2. Agree(a, b, r + 1) <=> Agree(a, b, r) /\ OctetBit(a, r) = OctetBit(b, r)
    BY <2>1 DEF Agree
  <2>3. /\ Cut(a, r) \in Int /\ Cut(a, r + 1) = 2 * Cut(a, r) + OctetBit(a, r)
        /\ Cut(b, r) \in Int /\ Cut(b, r + 1) = 2 * Cut(b, r) + OctetBit(b, r)
    BY <2>1, CutStep, Zenon
  <2>4. OctetBit(a, r) \in 0..1 /\ OctetBit(b, r) \in 0..1
    BY <2>1, BitValues, Zenon
  <2>6. Cut(a, r + 1) = Cut(b, r + 1) <=> Cut(a, r) = Cut(b, r) /\ OctetBit(a, r) = OctetBit(b, r)
    BY <2>3, <2>4, DoubleAndBit
  <2> QED
    BY <2>1, <2>2, <2>6
<1>3. \A r \in 0..8 : r \in good
  <2>1. \A r \in Nat : r < 8 /\ r \in good => r + 1 \in good
    BY <1>2
  <2> HIDE DEF good
  <2> QED
    BY <1>1, <2>1, Induction
<1> QED
  BY <1>3

\* What from_ipv6_masked keeps of the octet that the prefix ends in: equal for
\* two octets that agree on the bits kept.
LEMMA KeepTopIsAgree ==
    ASSUME NEW a \in 0..255, NEW b \in 0..255
    PROVE  \A r \in 1..7 : KeepTop(a, r) = KeepTop(b, r) <=> Agree(a, b, r)
<1> DEFINE Same(r) == KeepTop(a, r) = KeepTop(b, r) <=> Cut(a, r) = Cut(b, r)
<1>1. /\ 8 - 1 = 7 /\ 8 - 2 = 6 /\ 8 - 3 = 5 /\ 8 - 4 = 4
      /\ 8 - 5 = 3 /\ 8 - 6 = 2 /\ 8 - 7 = 1
  OBVIOUS
<1>2. Same(1)
  <2>1. KeepTop(a, 1) = a - (a % 128) /\ KeepTop(b, 1) = b - (b % 128)
    BY <1>1, Powers DEF KeepTop
  <2>2. a - (a % 128) = b - (b % 128) <=> a \div 128 = b \div 128
    OBVIOUS
  <2>3. Cut(a, 1) = a \div 128 /\ Cut(b, 1) = b \div 128
    BY Cuts
  <2> QED
    BY <2>1, <2>2, <2>3
<1>3. Same(2)
  <2>1. KeepTop(a, 2) = a - (a % 64) /\ KeepTop(b, 2) = b - (b % 64)
    BY <1>1, Powers DEF KeepTop
  <2>2. a - (a % 64) = b - (b % 64) <=> a \div 64 = b \div 64
    OBVIOUS
  <2>3. Cut(a, 2) = a \div 64 /\ Cut(b, 2) = b \div 64
    BY Cuts
  <2> QED
    BY <2>1, <2>2, <2>3
<1>4. Same(3)
  <2>1. KeepTop(a, 3) = a - (a % 32) /\ KeepTop(b, 3) = b - (b % 32)
    BY <1>1, Powers DEF KeepTop
  <2>2. a - (a % 32) = b - (b % 32) <=> a \div 32 = b \div 32
    OBVIOUS
  <2>3. Cut(a, 3) = a \div 32 /\ Cut(b, 3) = b \div 32
    BY Cuts
  <2> QED
    BY <2>1, <2>2, <2>3
<1>5. Same(4)
  <2>1. KeepTop(a, 4) = a - (a % 16) /\ KeepTop(b, 4) = b - (b % 16)
    BY <1>1, Powers DEF KeepTop
  <2>2. a - (a % 16) = b - (b % 16) <=> a \div 16 = b \div 16
    OBVIOUS
  <2>3. Cut(a, 4) = a \div 16 /\ Cut(b, 4) = b \div 16
    BY Cuts
  <2> QED
    BY <2>1, <2>2, <2>3
<1>6. Same(5)
  <2>1. KeepTop(a, 5) = a - (a % 8) /\ KeepTop(b, 5) = b - (b % 8)
    BY <1>1, Powers DEF KeepTop
  <2>2. a - (a % 8) = b - (b % 8) <=> a \div 8 = b \div 8
    OBVIOUS
  <2>3. Cut(a, 5) = a \div 8 /\ Cut(b, 5) = b \div 8
    BY Cuts
  <2> QED
    BY <2>1, <2>2, <2>3
<1>7. Same(6)
  <2>1. KeepTop(a, 6) = a - (a % 4) /\ KeepTop(b, 6) = b - (b % 4)
    BY <1>1, Powers DEF KeepTop
  <2>2. a - (a % 4) = b - (b % 4) <=> a \div 4 = b \div 4
    OBVIOUS
  <2>3. Cut(a, 6) = a \div 4 /\ Cut(b, 6) = b \div 4
    BY Cuts
  <2> QED
    BY <2>1, <2>2, <2>3
<1>8. Same(7)
  <2>1. KeepTop(a, 7) = a - (a % 2) /\ KeepTop(b, 7) = b - (b % 2)
    BY <1>1, Powers DEF KeepTop
  <2>2. a - (a % 2) = b - (b % 2) <=> a \div 2 = b \div 2
    OBVIOUS
  <2>3. Cut(a, 7) = a \div 2 /\ Cut(b, 7) = b \div 2
    BY Cuts, Zenon
  <2> QED
    BY <2>1, <2>2, <2>3
<1>9. \A r \in 1..7 : r = 1 \/ r = 2 \/ r = 3 \/ r = 4 \/ r = 5 \/ r = 6 \/ r = 7
  OBVIOUS
<1> HIDE DEF Same
<1>10. \A r \in 1..7 : Same(r)
  BY <1>2, <1>3, <1>4, <1>5, <1>6, <1>7, <1>8, <1>9
<1>11. \A r \in 1..7 : Agree(a, b, r) <=> Cut(a, r) = Cut(b, r)
  <2>1. \A r \in 1..7 : r \in 0..8
    OBVIOUS
  <2> QED
    BY <2>1, AgreeIsCut, Zenon
<1> QED
  BY <1>10, <1>11, Zenon DEF Same

\* Octets that agree on all eight bits are equal.
LEMMA AgreeOnAll ==
    ASSUME NEW a \in 0..255, NEW b \in 0..255
    PROVE  (\A j \in 0..7 : OctetBit(a, j) = OctetBit(b, j)) <=> a = b
<1>1. 8 \in 0..8 /\ 8 - 1 = 7
  OBVIOUS
<1>2. Agree(a, b, 8) <=> Cut(a, 8) = Cut(b, 8)
  BY <1>1, AgreeIsCut, Zenon
<1>3. Cut(a, 8) = a /\ Cut(b, 8) = b
  BY Cuts, Zenon
<1> QED
  BY <1>1, <1>2, <1>3, Zenon DEF Agree

\* The octet of an address that holds bit n, and the place of the bit in it.
LEMMA Places ==
    /\ \A n \in 0..127 : n \div 8 \in 0..15 /\ n % 8 \in 0..7 /\ n = 8 * (n \div 8) + (n % 8)
    /\ \A i \in 0..15, j \in 0..7 : 8 * i + j \in 0..127 /\ (8 * i + j) \div 8 = i /\ (8 * i + j) % 8 = j
OBVIOUS

\* The bits of an address are the bits of its octets.
LEMMA BitIsOctetBit ==
    ASSUME NEW ip, NEW i \in 0..15, NEW j \in 0..7
    PROVE  Bit(ip, 8 * i + j) = OctetBit(ip.octets[i + 1], j)
BY Places DEF Bit, OctetBit

\* Two addresses agree on the bits of octet i, from 0, that lie in the first p.
AgreeInOctet(a, b, p, i) ==
    \A j \in 0..7 : 8 * i + j < p => OctetBit(a.octets[i + 1], j) = OctetBit(b.octets[i + 1], j)

\* Two addresses agree on the first so many bits exactly if their octets agree
\* on the bits that lie in them.
LEMMA AgreeByOctets ==
    ASSUME NEW a, NEW b, NEW p \in 1..128
    PROVE  (\A n \in 0..(p - 1) : Bit(a, n) = Bit(b, n))
             <=> \A i \in 0..15 : AgreeInOctet(a, b, p, i)
<1>1. ASSUME \A n \in 0..(p - 1) : Bit(a, n) = Bit(b, n), NEW i \in 0..15, NEW j \in 0..7, 8 * i + j < p
      PROVE  OctetBit(a.octets[i + 1], j) = OctetBit(b.octets[i + 1], j)
  <2>1. 8 * i + j \in 0..(p - 1)
    BY <1>1
  <2>2. Bit(a, 8 * i + j) = Bit(b, 8 * i + j)
    BY <1>1, <2>1
  <2> QED
    BY <2>2, BitIsOctetBit
<1>2. ASSUME \A i \in 0..15 : AgreeInOctet(a, b, p, i), NEW n \in 0..(p - 1)
      PROVE  Bit(a, n) = Bit(b, n)
  <2>1. PICK i \in 0..15, j \in 0..7 : n = 8 * i + j
    <3>1. n \in 0..127
      OBVIOUS
    <3> QED
      BY <3>1, Places
  <2>2. OctetBit(a.octets[i + 1], j) = OctetBit(b.octets[i + 1], j)
    BY <1>2, <2>1 DEF AgreeInOctet
  <2> QED
    BY <2>1, <2>2, BitIsOctetBit
<1> QED
  BY <1>1, <1>2 DEF AgreeInOctet

\* What from_ipv6_masked keeps of octet i, from 0.
Kept(ip, p, i) ==
    IF i < p \div 8 THEN ip.octets[i + 1]
    ELSE IF i = p \div 8 /\ p % 8 > 0 THEN KeepTop(ip.octets[i + 1], p % 8)
    ELSE 0

\* One octet: what is kept is equal exactly if the bits inside the prefix are.
LEMMA KeptAgrees ==
    ASSUME NEW a, NEW b, a.octets \in Octets(16), b.octets \in Octets(16),
           NEW p \in 1..128, NEW i \in 0..15
    PROVE  Kept(a, p, i) = Kept(b, p, i) <=> AgreeInOctet(a, b, p, i)
<1> DEFINE x == a.octets[i + 1]
           y == b.octets[i + 1]
           full == p \div 8
           rem == p % 8
<1>1. x \in 0..255 /\ y \in 0..255
  <2>1. i + 1 \in 1..16
    OBVIOUS
  <2> HIDE DEF full, rem
  <2> QED
    BY <2>1, Zenon DEF Octets
<1>7. AgreeInOctet(a, b, p, i) <=> \A j \in 0..7 : 8 * i + j < p => OctetBit(x, j) = OctetBit(y, j)
  BY Zenon DEF AgreeInOctet
<1>2. full \in 0..16 /\ rem \in 0..7 /\ p = 8 * full + rem
  OBVIOUS
<1>3. /\ Kept(a, p, i) = IF i < full THEN x ELSE IF i = full /\ rem > 0 THEN KeepTop(x, rem) ELSE 0
      /\ Kept(b, p, i) = IF i < full THEN y ELSE IF i = full /\ rem > 0 THEN KeepTop(y, rem) ELSE 0
  BY DEF Kept
<1> HIDE DEF x, y, full, rem
<1>4. CASE i < full
  <2>1. \A j \in 0..7 : 8 * i + j < p
    BY <1>2, <1>4
  <2>2. (\A j \in 0..7 : OctetBit(x, j) = OctetBit(y, j)) <=> x = y
    BY <1>1, AgreeOnAll, Zenon
  <2> QED
    BY <1>3, <1>4, <1>7, <2>1, <2>2
<1>5. CASE i = full /\ rem > 0
  <2>1. \A j \in 0..7 : 8 * i + j < p <=> j \in 0..(rem - 1)
    BY <1>2, <1>5
  <2>2. rem \in 1..7 /\ 0..(rem - 1) \subseteq 0..7 /\ ~(i < full)
    BY <1>2, <1>5
  <2>3. KeepTop(x, rem) = KeepTop(y, rem) <=> Agree(x, y, rem)
    BY <1>1, <2>2, KeepTopIsAgree, Zenon
  <2>4. Agree(x, y, rem) <=> \A j \in 0..7 : 8 * i + j < p => OctetBit(x, j) = OctetBit(y, j)
    BY <2>1, <2>2 DEF Agree
  <2> QED
    BY <1>3, <1>5, <1>7, <2>2, <2>3, <2>4
<1>6. CASE ~(i < full) /\ ~(i = full /\ rem > 0)
  <2>1. \A j \in 0..7 : ~(8 * i + j < p)
    BY <1>2, <1>6
  <2> QED
    BY <1>3, <1>6, <1>7, <2>1
<1> QED
  BY <1>4, <1>5, <1>6

\* SourceKey::from_ipv6_masked: one key exactly if the prefixes are equal.
LEMMA Ipv6Keys ==
    ASSUME NEW a, NEW b, a.octets \in Octets(16), b.octets \in Octets(16), NEW p \in 1..128
    PROVE  FromIpv6Masked(a, p) = FromIpv6Masked(b, p)
             <=> \A n \in 0..(p - 1) : Bit(a, n) = Bit(b, n)
<1> DEFINE Bytes(ip) == [i \in 1..16 |-> Kept(ip, p, i - 1)]
<1>1. Clamp(p, 1, 128) = p
  BY DEF Clamp
<1>2. \A ip : FromIpv6Masked(ip, p) = [discriminator |-> "V6", bytes |-> Bytes(ip)]
  <2> SUFFICES ASSUME NEW ip PROVE FromIpv6Masked(ip, p) = [discriminator |-> "V6", bytes |-> Bytes(ip)]
    OBVIOUS
  <2> DEFINE Byte(i) == IF i <= p \div 8 THEN ip.octets[i]
                        ELSE IF i = (p \div 8) + 1 /\ p % 8 > 0 THEN KeepTop(ip.octets[i], p % 8)
                        ELSE 0
  <2>1. FromIpv6Masked(ip, p) = [discriminator |-> "V6", bytes |-> [i \in 1..16 |-> Byte(i)]]
    BY <1>1 DEF FromIpv6Masked
  <2>2. \A i \in 1..16 : Byte(i) = Kept(ip, p, i - 1)
    <3>1. \A i \in 1..16 : /\ i <= p \div 8 <=> i - 1 < p \div 8
                           /\ i = (p \div 8) + 1 <=> i - 1 = p \div 8
                           /\ (i - 1) + 1 = i
      <4>1. p \div 8 \in Nat
        OBVIOUS
      <4> DEFINE q == p \div 8
      <4> HIDE DEF q
      <4>2. \A i \in 1..16 : (i <= q <=> i - 1 < q) /\ (i = q + 1 <=> i - 1 = q) /\ (i - 1) + 1 = i
        BY <4>1 DEF q
      <4> QED
        BY <4>2 DEF q
    <3> QED
      BY <3>1, Zenon DEF Kept
  <2> HIDE DEF Byte
  <2>3. [i \in 1..16 |-> Byte(i)] = Bytes(ip)
    BY <2>2
  <2> QED
    BY <2>1, <2>3
<1>3. FromIpv6Masked(a, p) = FromIpv6Masked(b, p) <=> Bytes(a) = Bytes(b)
  <2> HIDE DEF Bytes
  <2>1. \A x, y : [discriminator |-> "V6", bytes |-> x] = [discriminator |-> "V6", bytes |-> y] <=> x = y
    OBVIOUS
  <2> QED
    BY <1>2, <2>1
<1>4. Bytes(a) = Bytes(b) <=> \A i \in 0..15 : Kept(a, p, i) = Kept(b, p, i)
  <2>1. Bytes(a) = Bytes(b) <=> \A i \in 1..16 : Kept(a, p, i - 1) = Kept(b, p, i - 1)
    OBVIOUS
  <2>2. \A i \in 1..16 : i - 1 \in 0..15
    OBVIOUS
  <2>3. \A i \in 0..15 : i + 1 \in 1..16 /\ (i + 1) - 1 = i
    OBVIOUS
  <2> QED
    BY <2>1, <2>2, <2>3, Zenon
<1>5. (\A i \in 0..15 : Kept(a, p, i) = Kept(b, p, i))
        <=> \A i \in 0..15 : AgreeInOctet(a, b, p, i)
  BY KeptAgrees, Zenon
<1>6. (\A n \in 0..(p - 1) : Bit(a, n) = Bit(b, n))
        <=> \A i \in 0..15 : AgreeInOctet(a, b, p, i)
  BY AgreeByOctets, Zenon
<1> QED
  BY <1>3, <1>4, <1>5, <1>6, Zenon

\* SourceKey::from_ipv4: one key exactly if all 32 bits are equal.
LEMMA Ipv4Keys ==
    ASSUME NEW a, NEW b, a.octets \in Octets(4), b.octets \in Octets(4)
    PROVE  FromIpv4(a) = FromIpv4(b) <=> \A n \in 0..31 : Bit(a, n) = Bit(b, n)
<1> DEFINE x == a.octets
           y == b.octets
<1>3. (\A i \in 1..4 : x[i] = y[i]) <=> \A i \in 0..3 : x[i + 1] = y[i + 1]
  <2>1. /\ \A i \in 1..4 : i - 1 \in 0..3 /\ (i - 1) + 1 = i
        /\ \A i \in 0..3 : i + 1 \in 1..4
    OBVIOUS
  <2> HIDE DEF x, y
  <2>2. (\A i \in 1..4 : x[i] = y[i]) => \A i \in 0..3 : x[i + 1] = y[i + 1]
    BY <2>1, Zenon
  <2>3. (\A i \in 0..3 : x[i + 1] = y[i + 1]) => \A i \in 1..4 : x[i] = y[i]
    BY <2>1, Zenon
  <2> QED
    BY <2>2, <2>3, Zenon
<1>4. FromIpv4(a) = FromIpv4(b) <=> \A i \in 1..4 : x[i] = y[i]
  <2> DEFINE Bytes(o) == [i \in 1..16 |-> IF i <= 4 THEN o[i] ELSE 0]
  <2>1. FromIpv4(a) = FromIpv4(b) <=> Bytes(x) = Bytes(y)
    <3>1. \A u, v : [discriminator |-> "V4", bytes |-> u] = [discriminator |-> "V4", bytes |-> v] <=> u = v
      OBVIOUS
    <3> QED
      BY <3>1, Zenon DEF FromIpv4
  <2> HIDE DEF x, y
  <2>2. Bytes(x) = Bytes(y) <=> \A i \in 1..16 : (IF i <= 4 THEN x[i] ELSE 0) = (IF i <= 4 THEN y[i] ELSE 0)
    BY Zenon
  <2>3. (\A i \in 1..16 : (IF i <= 4 THEN x[i] ELSE 0) = (IF i <= 4 THEN y[i] ELSE 0)) <=> \A i \in 1..4 : x[i] = y[i]
    <3>1. \A i \in 1..16 : i <= 4 <=> i \in 1..4
      OBVIOUS
    <3>2. \A i \in 1..4 : i \in 1..16
      OBVIOUS
    <3> QED
      BY <3>1, <3>2, Zenon
  <2> QED
    BY <2>1, <2>2, <2>3, Zenon
<1>6. (\A n \in 0..31 : Bit(a, n) = Bit(b, n))
        <=> \A i \in 0..15 : AgreeInOctet(a, b, 32, i)
  <2>1. 32 \in 1..128 /\ 32 - 1 = 31
    OBVIOUS
  <2> QED
    <3>1. (\A n \in 0..(32 - 1) : Bit(a, n) = Bit(b, n)) <=> \A i \in 0..15 : AgreeInOctet(a, b, 32, i)
      BY <2>1, AgreeByOctets, Zenon
    <3> QED
      BY <2>1, <3>1, Zenon
<1>7. \A i \in 0..15 : AgreeInOctet(a, b, 32, i) <=> (i \in 0..3 => x[i + 1] = y[i + 1])
  <2> SUFFICES ASSUME NEW i \in 0..15
               PROVE  AgreeInOctet(a, b, 32, i) <=> (i \in 0..3 => x[i + 1] = y[i + 1])
    OBVIOUS
  <2>1. CASE i \in 0..3
    <3>1. \A j \in 0..7 : 8 * i + j < 32
      BY <2>1
    <3>2. x[i + 1] \in 0..255 /\ y[i + 1] \in 0..255
      <4>1. i + 1 \in 1..4
        BY <2>1
      <4> QED
        BY <4>1, Zenon DEF Octets
    <3>3. AgreeInOctet(a, b, 32, i) <=> \A j \in 0..7 : OctetBit(x[i + 1], j) = OctetBit(y[i + 1], j)
      BY <3>1 DEF AgreeInOctet
    <3> DEFINE u == x[i + 1]
               v == y[i + 1]
    <3> HIDE DEF u, v
    <3>6. u \in 0..255 /\ v \in 0..255
      BY <3>2, Zenon DEF u, v
    <3>4. (\A j \in 0..7 : OctetBit(u, j) = OctetBit(v, j)) <=> u = v
      BY <3>6, AgreeOnAll, Zenon
    <3> QED
      BY <2>1, <3>3, <3>4 DEF u, v
  <2>2. CASE i \notin 0..3
    <3>1. \A j \in 0..7 : ~(8 * i + j < 32)
      BY <2>2
    <3> QED
      BY <2>2, <3>1 DEF AgreeInOctet
  <2> QED
    BY <2>1, <2>2
<1> HIDE DEF x, y
<1>8. (\A i \in 0..15 : AgreeInOctet(a, b, 32, i)) <=> \A i \in 0..3 : x[i + 1] = y[i + 1]
  BY <1>7
<1> QED
  BY <1>3, <1>4, <1>6, <1>8, Zenon

\* key.rs:9-13, for all pairs of addresses and every ipv6_prefix_len that
\* validation lets through: SourceKey::from_ip maps two addresses to one source
\* exactly if they are of one family and agree on every bit of the prefix.
THEOREM OneKeyPerPrefixAlways ==
    \A a, b \in Address : \A prefix \in 1..128 :
        FromIp(a, prefix) = FromIp(b, prefix) <=> SamePrefix(a, b, prefix)
<1> SUFFICES ASSUME NEW a \in Address, NEW b \in Address, NEW prefix \in 1..128
             PROVE  FromIp(a, prefix) = FromIp(b, prefix) <=> SamePrefix(a, b, prefix)
  OBVIOUS
<1>1. \A ip \in Address : \/ ip.family = "v4" /\ ip.octets \in Octets(4)
                          \/ ip.family = "v6" /\ ip.octets \in Octets(16)
  BY DEF Address
<1>2. CASE a.family = "v4" /\ b.family = "v4"
  <2>1. a.octets \in Octets(4) /\ b.octets \in Octets(4)
    BY <1>1, <1>2
  <2> QED
    <3>1. FromIp(a, prefix) = FromIpv4(a) /\ FromIp(b, prefix) = FromIpv4(b)
      BY <1>2 DEF FromIp
    <3>2. SamePrefix(a, b, prefix) <=> \A n \in 0..31 : Bit(a, n) = Bit(b, n)
      BY <1>2 DEF SamePrefix, Significant
    <3>3. FromIpv4(a) = FromIpv4(b) <=> \A n \in 0..31 : Bit(a, n) = Bit(b, n)
      BY <2>1, Ipv4Keys, Zenon
    <3> QED
      BY <3>1, <3>2, <3>3
<1>3. CASE a.family = "v6" /\ b.family = "v6"
  <2>1. a.octets \in Octets(16) /\ b.octets \in Octets(16)
    BY <1>1, <1>3
  <2> QED
    <3>1. FromIp(a, prefix) = FromIpv6Masked(a, prefix) /\ FromIp(b, prefix) = FromIpv6Masked(b, prefix)
      BY <1>3 DEF FromIp
    <3>2. SamePrefix(a, b, prefix) <=> \A n \in 0..(prefix - 1) : Bit(a, n) = Bit(b, n)
      BY <1>3 DEF SamePrefix, Significant
    <3>3. FromIpv6Masked(a, prefix) = FromIpv6Masked(b, prefix)
            <=> \A n \in 0..(prefix - 1) : Bit(a, n) = Bit(b, n)
      BY <2>1, Ipv6Keys, Zenon
    <3> QED
      BY <3>1, <3>2, <3>3
<1>4. CASE a.family # b.family
  <2>1. \A x, y : FromIpv4(x) # FromIpv6Masked(y, prefix)
    <3>1. \A x, y : FromIpv4(x).discriminator = "V4" /\ FromIpv6Masked(y, prefix).discriminator = "V6"
      BY DEF FromIpv4, FromIpv6Masked
    <3> QED
      BY <3>1
  <2> QED
    BY <1>1, <1>4, <2>1 DEF FromIp, SamePrefix
<1> QED
  BY <1>1, <1>2, <1>3, <1>4

-----------------------------------------------------------------------------
(* The buckets. *)

\* What a bucket keeps: what it holds and what it has passed together never
\* exceed what it was filled with and the inflow up to its last refill.  A window that
\* was opened after the last refill has seen no packet yet.
Conserves(b, rate, burst, t) ==
    /\ b \in Bucket
    /\ b.tokens <= Unit * burst
    /\ b.last <= t
    /\ b.since <= t
    /\ b.since <= b.last =>
          b.tokens + Unit * b.passed <= b.fills * (Unit * burst) + (b.last - b.since) * rate
    /\ b.last < b.since => b.passed = 0

\* The inductive invariant.
IndInv ==
    /\ now \in Nat
    /\ Conserves(global, GlobalRate, GlobalBurst, now)
    /\ \A k \in DOMAIN tracked : Conserves(tracked[k], SourceRate, SourceBurst, now)
    /\ \A k \in DOMAIN candidates : candidates[k] \in [count : Nat, seen : Nat]

\* Products of naturals, for the linear solver.
LEMMA Products ==
    ASSUME NEW a \in Nat, NEW b \in Nat
    PROVE  a * b \in Nat /\ a * (b + 1) = a * b + a
OBVIOUS

\* A bucket fresh from TokenBucket::new conserves.
LEMMA NewConserves ==
    ASSUME NEW rate \in Nat, NEW burst \in Nat, NEW t \in Nat
    PROVE  Conserves(NewBucket(burst, t), rate, burst, t)
<1>1. Unit \in Nat /\ Unit * burst \in Nat
  BY UnitAssumption, Products
<1>2. Unit * 0 = 0 /\ (t - t) * rate = 0
  BY UnitAssumption
<1>3. 1 * (Unit * burst) = Unit * burst
  BY <1>1
<1> QED
  BY <1>1, <1>2, <1>3 DEF Conserves, NewBucket, Bucket

\* What a bucket was filled with is at least one full bucket.
LEMMA Filled ==
    ASSUME NEW n \in Nat \ {0}, NEW full \in Nat
    PROVE  n * full \in Nat /\ full <= n * full /\ (n + 1) * full = n * full + full
<1>1. n - 1 \in Nat /\ (n - 1) * full \in Nat /\ n * full = (n - 1) * full + full
  OBVIOUS
<1>2. (n + 1) * full = n * full + full
  OBVIOUS
<1> QED
  BY <1>1, <1>2

\* TokenBucket::refill keeps the bucket conserving, and up to date.
LEMMA RefillConserves ==
    ASSUME NEW rate \in Nat, NEW burst \in Nat, NEW t \in Nat, NEW b,
           Conserves(b, rate, burst, t)
    PROVE  /\ Conserves(Refill(b, rate, burst, t), rate, burst, t)
           /\ Refill(b, rate, burst, t).last = t
<1> DEFINE r == Refill(b, rate, burst, t)
           full == Unit * burst
           inflow == (t - b.last) * rate
           before == (b.last - b.since) * rate
           filled == b.fills * full
<1>1. full \in Nat
  BY UnitAssumption, Products
<1>2. /\ b \in Bucket /\ b.tokens \in Nat /\ b.last \in Nat /\ b.since \in Nat /\ b.passed \in Nat
      /\ b.fills \in Nat \ {0}
  BY DEF Conserves, Bucket
<1>10. filled \in Nat /\ full <= filled
  BY <1>1, <1>2, Filled
<1>3. b.last <= t /\ b.since <= t /\ t - b.last \in Nat /\ t - b.since \in Nat
  BY <1>2 DEF Conserves
<1>4. inflow \in Nat
  BY <1>3, Products
<1>5. Unit * b.passed \in Nat
  BY <1>2, UnitAssumption, Products
<1>6. /\ r \in Bucket
      /\ r.tokens = IF b.tokens + inflow < full THEN b.tokens + inflow ELSE full
      /\ r.last = t /\ r.since = b.since /\ r.passed = b.passed /\ r.fills = b.fills
  <2> DEFINE level == IF b.tokens + inflow < full THEN b.tokens + inflow ELSE full
  <2>1. r = [b EXCEPT !.tokens = level, !.last = t]
    BY DEF Refill
  <2>2. level \in Nat
    <3> HIDE DEF inflow, full
    <3> QED BY <1>1, <1>2, <1>4
  <2> HIDE DEF level, r
  <2>3. /\ r \in Bucket /\ r.tokens = level /\ r.last = t /\ r.since = b.since
        /\ r.passed = b.passed /\ r.fills = b.fills
    BY <2>1, <2>2, <1>2 DEF Bucket
  <2> QED
    BY <2>3 DEF level
<1>7. (t - b.since) * rate \in Nat
  BY <1>3, Products
<1>8. r.tokens + Unit * r.passed <= filled + (t - b.since) * rate
  <2>1. CASE b.since <= b.last
    <3>1. before + inflow = (t - b.since) * rate
      BY <1>2
    <3>2. before \in Int
      BY <1>2
    <3>3. b.tokens + Unit * b.passed <= filled + before
      BY <2>1 DEF Conserves
    <3>4. r.tokens <= b.tokens + inflow /\ r.tokens \in Nat
      <4> HIDE DEF r, inflow, full
      <4> QED BY <1>1, <1>2, <1>4, <1>6
    <3> HIDE DEF r, inflow, full, before, filled
    <3> QED
      BY <3>1, <3>2, <3>3, <3>4, <1>1, <1>2, <1>4, <1>5, <1>6, <1>7, <1>10
  <2>2. CASE b.last < b.since
    <3>1. b.passed = 0 /\ Unit * b.passed = 0
      BY <2>2, UnitAssumption DEF Conserves
    <3> HIDE DEF r, inflow, full, filled
    <3> QED
      BY <3>1, <1>1, <1>2, <1>4, <1>6, <1>7, <1>10
  <2> QED
    BY <2>1, <2>2, <1>2
<1> HIDE DEF r, inflow, before
<1>9. r.tokens <= full /\ t <= t
  BY <1>1, <1>2, <1>4, <1>6
<1> QED
  <2>1. Conserves(r, rate, burst, t)
    <3>1. r.since <= r.last /\ ~(r.last < r.since) /\ r.last <= t /\ r.since <= t
      BY <1>2, <1>3, <1>6
    <3> QED
      BY <3>1, <1>6, <1>8, <1>9 DEF Conserves
  <2> QED
    BY <2>1, <1>6 DEF r

\* TokenBucket::consume pays for every packet it passes.
LEMMA ConsumeConserves ==
    ASSUME NEW rate \in Nat, NEW burst \in Nat, NEW t \in Nat, NEW b,
           Conserves(b, rate, burst, t)
    PROVE  Conserves(Consume(b, rate, burst, t), rate, burst, t)
<1> DEFINE r == Refill(b, rate, burst, t)
           c == [r EXCEPT !.tokens = @ - Unit, !.passed = @ + 1]
<1>1. Conserves(r, rate, burst, t) /\ r.last = t
  BY RefillConserves
<1> HIDE DEF r
<1>2. CASE ~(r.tokens >= Unit)
  BY <1>1, <1>2 DEF Consume, r
<1>3. CASE r.tokens >= Unit
  <2>1. /\ r \in Bucket /\ r.tokens \in Nat /\ r.passed \in Nat /\ r.since \in Nat /\ r.since <= t
        /\ r.fills \in Nat \ {0}
    BY <1>1 DEF Conserves, Bucket
  <2>2. /\ c \in Bucket /\ c.tokens = r.tokens - Unit /\ c.passed = r.passed + 1
        /\ c.last = r.last /\ c.since = r.since /\ c.fills = r.fills
    <3>1. r.tokens - Unit \in Nat /\ r.passed + 1 \in Nat
      BY <2>1, <1>3, UnitAssumption
    <3> QED
      BY <2>1, <3>1 DEF Bucket
  <2>3. Unit * c.passed = Unit * r.passed + Unit /\ Unit * r.passed \in Nat
    BY <2>1, <2>2, UnitAssumption, Products
  <2>4. Unit * burst \in Nat /\ (t - r.since) * rate \in Nat
    BY <2>1, UnitAssumption, Products
  <2>5. r.tokens + Unit * r.passed <= r.fills * (Unit * burst) + (t - r.since) * rate
    BY <1>1, <2>1 DEF Conserves
  <2>6. c.tokens + Unit * c.passed = r.tokens + Unit * r.passed
    BY <2>1, <2>2, <2>3, UnitAssumption
  <2>7. c.tokens <= Unit * burst
    BY <1>1, <2>1, <2>2, <2>4, UnitAssumption DEF Conserves
  <2> HIDE DEF c
  <2>8. Conserves(c, rate, burst, t)
    BY <1>1, <2>1, <2>2, <2>5, <2>6, <2>7 DEF Conserves
  <2> QED
    BY <2>8, <1>3 DEF Consume, r, c
<1> QED
  BY <1>2, <1>3

\* A bucket that conserves stays within its rate, in whichever window it is
\* observed.
LEMMA ConservesWithinRate ==
    ASSUME NEW rate \in Nat, NEW burst \in Nat, NEW t \in Nat, NEW b,
           Conserves(b, rate, burst, t)
    PROVE  WithinRate(b, rate, burst, t)
<1>1. /\ b.tokens \in Nat /\ b.last \in Nat /\ b.since \in Nat /\ b.passed \in Nat
      /\ b.fills \in Nat \ {0} /\ b.last <= t /\ b.since <= t
  BY DEF Conserves, Bucket
<1>2. b.fills * (Unit * burst) \in Nat /\ Unit * b.passed \in Nat
  BY <1>1, UnitAssumption, Products, Filled
<1>3. t - b.since \in Nat /\ (t - b.since) * rate \in Nat
  BY <1>1, Products
<1>4. CASE b.since <= b.last
  <2>1. b.tokens + Unit * b.passed <= b.fills * (Unit * burst) + (b.last - b.since) * rate
    BY <1>4 DEF Conserves
  <2>2. t - b.last \in Nat /\ (t - b.last) * rate \in Nat
    BY <1>1, Products
  <2>3. (t - b.since) * rate = (b.last - b.since) * rate + (t - b.last) * rate
    BY <1>1
  <2>4. b.last - b.since \in Nat /\ (b.last - b.since) * rate \in Nat
    BY <1>1, <1>4, Products
  <2> QED
    BY <1>1, <1>2, <2>1, <2>2, <2>3, <2>4 DEF WithinRate
<1>5. CASE b.last < b.since
  <2>1. b.passed = 0 /\ Unit * b.passed = 0
    BY <1>5, UnitAssumption DEF Conserves
  <2> QED
    BY <2>1, <1>2, <1>3 DEF WithinRate
<1> QED
  BY <1>1, <1>4, <1>5

\* A window may be opened at any time.
LEMMA OpenConserves ==
    ASSUME NEW rate \in Nat, NEW burst \in Nat, NEW t \in Nat, NEW b,
           Conserves(b, rate, burst, t)
    PROVE  Conserves(OpenWindow(b, t), rate, burst, t)
<1> DEFINE w == OpenWindow(b, t)
<1>1. b \in Bucket /\ b.tokens \in Nat /\ b.last \in Nat /\ b.last <= t /\ b.tokens <= Unit * burst
  BY DEF Conserves, Bucket
<1>2. /\ w \in Bucket /\ w.tokens = b.tokens /\ w.last = b.last /\ w.since = t
      /\ w.passed = 0 /\ w.fills = 1
  <2>1. w = [b EXCEPT !.since = t, !.passed = 0, !.fills = 1]
    BY DEF OpenWindow
  <2>2. 0 \in Nat /\ 1 \in Nat \ {0}
    OBVIOUS
  <2> HIDE DEF w
  <2> QED
    BY <1>1, <2>1, <2>2 DEF Bucket
<1> HIDE DEF w
<1>3. Unit * w.passed = 0 /\ Unit * burst \in Nat /\ w.fills * (Unit * burst) = Unit * burst
  BY <1>2, UnitAssumption, Products
<1>4. w.since <= w.last => (w.last - w.since) * rate = 0
  <2>1. w.since <= w.last => w.last - w.since = 0
    BY <1>1, <1>2
  <2> QED
    BY <2>1
<1>5. w.since <= w.last =>
          w.tokens + Unit * w.passed <= w.fills * (Unit * burst) + (w.last - w.since) * rate
  BY <1>1, <1>2, <1>3, <1>4
<1>6. w.last <= t /\ w.since <= t
  BY <1>1, <1>2
<1>7. Conserves(w, rate, burst, t)
  BY <1>1, <1>2, <1>5, <1>6 DEF Conserves
<1> QED
  BY <1>7 DEF w

\* A new bucket in the place of one that conserves: what the window has passed
\* was within the rate, and the new bucket brings its own tokens.
LEMMA ReprimeConserves ==
    ASSUME NEW rate \in Nat, NEW burst \in Nat, NEW t \in Nat, NEW b,
           Conserves(b, rate, burst, t)
    PROVE  Conserves(Reprime(b, burst, t), rate, burst, t)
<1> DEFINE n == Reprime(b, burst, t)
           full == Unit * burst
<1>1. b.since \in Nat /\ b.passed \in Nat /\ b.fills \in Nat \ {0} /\ b.since <= t
  BY DEF Conserves, Bucket
<1>2. full \in Nat /\ Unit * b.passed \in Nat /\ (t - b.since) * rate \in Nat
  BY <1>1, UnitAssumption, Products
<1>3. b.fills * full \in Nat /\ (b.fills + 1) * full = b.fills * full + full
  BY <1>1, <1>2, Filled
<1>4. Unit * b.passed <= b.fills * full + (t - b.since) * rate
  BY ConservesWithinRate DEF WithinRate
<1>5. /\ n \in Bucket /\ n.tokens = full /\ n.last = t /\ n.since = b.since
      /\ n.passed = b.passed /\ n.fills = b.fills + 1
  <2> DEFINE new == NewBucket(burst, t)
  <2>1. n = [new EXCEPT !.since = b.since, !.passed = b.passed, !.fills = b.fills + 1]
    BY DEF Reprime
  <2>2. new \in Bucket /\ new.tokens = full /\ new.last = t
    BY NewConserves DEF Conserves, NewBucket
  <2>3. b.fills + 1 \in Nat \ {0}
    BY <1>1
  <2> HIDE DEF full, n, new
  <2> QED
    BY <1>1, <1>2, <2>1, <2>2, <2>3 DEF Bucket
<1> HIDE DEF n, full
<1>6. n.tokens + Unit * n.passed <= n.fills * full + (n.last - n.since) * rate
  BY <1>2, <1>3, <1>4, <1>5
<1>7. n.last <= t /\ n.since <= t /\ ~(n.last < n.since) /\ n.tokens <= full
  BY <1>1, <1>2, <1>5
<1> QED
  BY <1>5, <1>6, <1>7 DEF Conserves, n, full

\* Time alone changes nothing a bucket conserves.
LEMMA TimeConserves ==
    ASSUME NEW rate \in Nat, NEW burst \in Nat, NEW t \in Nat, NEW b,
           Conserves(b, rate, burst, t)
    PROVE  Conserves(b, rate, burst, t + 1)
<1>1. b.last \in Nat /\ b.since \in Nat /\ b.last <= t /\ b.since <= t
  BY DEF Conserves, Bucket
<1>2. b.last <= t + 1 /\ b.since <= t + 1
  BY <1>1
<1> QED
  BY <1>2 DEF Conserves

\* The rates and bursts are naturals.
LEMMA Rates ==
    /\ SourceRate \in Nat /\ SourceBurst \in Nat
    /\ GlobalRate \in Nat /\ GlobalBurst \in Nat
BY RateLimiterAssumption

\* The sweep and the full-map rule only ever leave old candidates out.
LEMMA SweptCandidates ==
    ASSUME NEW k
    PROVE  /\ DOMAIN Swept(k) \subseteq DOMAIN candidates
           /\ \A x \in DOMAIN Swept(k) : Swept(k)[x] = candidates[x]
           /\ \A x \in DOMAIN candidates \ DOMAIN Swept(k) :
                 ~(now - candidates[x].seen < CandidateTtl)
BY DEF Swept, Sweep, Restrict

\* A call that finds the source without a bucket and passes it keeps the
\* global bucket conserving and the clock where it is.
LEMMA AdmitGlobal ==
    ASSUME IndInv, NEW k, Admit(k)
    PROVE  now' = now /\ Conserves(global', GlobalRate, GlobalBurst, now)
BY ConsumeConserves, Rates DEF Admit, IndInv

\* How the count of a candidate that is bumped compares with its old count.
LEMMA NewCountType ==
    ASSUME IndInv, NEW k
    PROVE  /\ NewCount(k) \in Nat
           /\ k \in DOMAIN candidates => NewCount(k) >= candidates[k].count
BY DEF NewCount, IndInv

\* IndInv holds initially.
LEMMA InitInv == Init => IndInv
BY NewConserves, Rates DEF Init, IndInv, Empty

\* Every step keeps IndInv.
LEMMA NextInv == IndInv /\ [Next]_vars => IndInv'
<1> SUFFICES ASSUME IndInv, [Next]_vars PROVE IndInv'
  OBVIOUS
<1>1. ASSUME NEW k \in Sources, CheckTracked(k) PROVE IndInv'
  <2>1. Conserves(Consume(tracked[k], SourceRate, SourceBurst, now), SourceRate, SourceBurst, now)
    BY <1>1, ConsumeConserves, Rates DEF CheckTracked, IndInv
  <2> QED
    BY <1>1, <2>1 DEF CheckTracked, IndInv
<1>2. ASSUME NEW k \in Sources, CheckGlobalDrop(k) PROVE IndInv'
  <2>1. Conserves(Consume(global, GlobalRate, GlobalBurst, now), GlobalRate, GlobalBurst, now)
    BY ConsumeConserves, Rates DEF IndInv
  <2> QED
    BY <1>2, <2>1 DEF CheckGlobalDrop, IndInv
<1>3. ASSUME NEW k \in Sources, CheckUncounted(k) PROVE IndInv'
  <2>1. now' = now /\ Conserves(global', GlobalRate, GlobalBurst, now)
    BY <1>3, AdmitGlobal DEF CheckUncounted
  <2>2. candidates' = Swept(k) /\ UNCHANGED tracked
    BY <1>3 DEF CheckUncounted
  <2> QED
    BY <2>1, <2>2, SweptCandidates DEF IndInv
<1>4. ASSUME NEW k \in Sources, CheckCounted(k) PROVE IndInv'
  <2>1. now' = now /\ Conserves(global', GlobalRate, GlobalBurst, now)
    BY <1>4, AdmitGlobal DEF CheckCounted
  <2>2. candidates' = With(Swept(k), k, [count |-> NewCount(k), seen |-> now]) /\ UNCHANGED tracked
    BY <1>4 DEF CheckCounted
  <2>3. \A x \in DOMAIN candidates' : candidates'[x] \in [count : Nat, seen : Nat]
    BY <2>2, SweptCandidates, NewCountType DEF With, IndInv
  <2> QED
    BY <2>1, <2>2, <2>3 DEF IndInv
<1>5. ASSUME NEW k \in Sources, CheckPromoted(k) PROVE IndInv'
  <2>1. now' = now /\ Conserves(global', GlobalRate, GlobalBurst, now)
    BY <1>5, AdmitGlobal DEF CheckPromoted
  <2>2. candidates' = Without(Swept(k), {k})
    BY <1>5 DEF CheckPromoted
  <2>3. \A x \in DOMAIN candidates' : candidates'[x] \in [count : Nat, seen : Nat]
    BY <2>2, SweptCandidates DEF Without, Restrict, IndInv
  <2>4. PICK victims : tracked' = With(Without(tracked, victims), k, NewBucket(SourceBurst, now))
    BY <1>5 DEF CheckPromoted
  <2>5. Conserves(NewBucket(SourceBurst, now), SourceRate, SourceBurst, now)
    BY NewConserves, Rates DEF IndInv
  <2>6. \A x \in DOMAIN tracked' : Conserves(tracked'[x], SourceRate, SourceBurst, now)
    BY <2>4, <2>5 DEF With, Without, Restrict, IndInv
  <2> QED
    BY <2>1, <2>3, <2>6 DEF IndInv
<1>6. ASSUME NEW k \in Sources, CheckAfterPoison(k) PROVE IndInv'
  <2>1. /\ Conserves(NewBucket(SourceBurst, now), SourceRate, SourceBurst, now)
        /\ Conserves(Reprime(global, GlobalBurst, now), GlobalRate, GlobalBurst, now)
    BY NewConserves, ReprimeConserves, Rates DEF IndInv
  <2>2. now' = now /\ Conserves(global', GlobalRate, GlobalBurst, now)
    BY <1>6, <2>1, ConsumeConserves, Rates DEF CheckAfterPoison, IndInv
  <2>3. \A x \in DOMAIN tracked' : Conserves(tracked'[x], SourceRate, SourceBurst, now)
    BY <1>6, <2>1 DEF CheckAfterPoison, With, Empty
  <2>4. \A x \in DOMAIN candidates' : candidates'[x] \in [count : Nat, seen : Nat]
    BY <1>6 DEF CheckAfterPoison, With, Empty, IndInv
  <2> QED
    BY <2>2, <2>3, <2>4 DEF IndInv
<1>7. CASE Tick
  <2>1. Conserves(global, GlobalRate, GlobalBurst, now + 1)
    BY TimeConserves, Rates DEF IndInv
  <2>2. \A k \in DOMAIN tracked : Conserves(tracked[k], SourceRate, SourceBurst, now + 1)
    BY TimeConserves, Rates DEF IndInv
  <2> QED
    BY <1>7, <2>1, <2>2 DEF Tick, IndInv
<1>8. CASE Observe
  <2>1. Conserves(OpenWindow(global, now), GlobalRate, GlobalBurst, now)
    BY OpenConserves, Rates DEF IndInv
  <2>2. \A k \in DOMAIN tracked :
           Conserves(OpenWindow(tracked[k], now), SourceRate, SourceBurst, now)
    BY OpenConserves, Rates DEF IndInv
  <2> QED
    BY <1>8, <2>1, <2>2 DEF Observe, IndInv
<1>9. CASE UNCHANGED vars
  BY <1>9 DEF vars, IndInv
<1> QED
  BY <1>1, <1>2, <1>3, <1>4, <1>5, <1>6, <1>7, <1>8, <1>9 DEF Next

\* RateBound, for all rates, bursts and capacities: no window of time sees more
\* packets pass a bucket than its rate times the window and its burst, which a
\* recovery of the lock (limiter.rs:186) grants the global bucket once more.
THEOREM LimiterRateBound == Spec => []RateBound
<1>1. IndInv => RateBound
  BY ConservesWithinRate, Rates DEF IndInv, RateBound
<1> QED
  BY InitInv, NextInv, <1>1, PTL DEF Spec

\* The step form of CandidatesAreNotStarved.
LEMMA NotStarvedStep ==
    ASSUME IndInv, Next, NEW c \in DOMAIN candidates
    PROVE  \/ c \in DOMAIN candidates' /\ candidates'[c].count >= candidates[c].count
           \/ c \in DOMAIN tracked'
           \/ now - candidates[c].seen >= CandidateTtl
           \/ \E s \in Sources : CheckAfterPoison(s)
<1> DEFINE Stays == c \in DOMAIN candidates' /\ candidates'[c].count >= candidates[c].count
           Quiet == now - candidates[c].seen >= CandidateTtl
<1>1. candidates[c].count \in Nat /\ candidates[c].seen \in Nat /\ now \in Nat
  BY DEF IndInv
<1>2. UNCHANGED candidates => Stays
  BY <1>1
<1>3. ASSUME NEW k PROVE c \in DOMAIN Swept(k) \/ Quiet
  BY <1>1, SweptCandidates, RateLimiterAssumption
<1>4. ASSUME NEW k \in Sources, CheckUncounted(k) PROVE Stays \/ Quiet
  <2>1. candidates' = Swept(k)
    BY <1>4 DEF CheckUncounted
  <2> QED
    BY <2>1, <1>1, <1>3, SweptCandidates
<1>5. ASSUME NEW k \in Sources, CheckCounted(k) PROVE Stays \/ Quiet
  <2>1. candidates' = With(Swept(k), k, [count |-> NewCount(k), seen |-> now])
    BY <1>5 DEF CheckCounted
  <2>2. CASE c = k
    BY <2>1, <2>2, NewCountType DEF With
  <2>3. CASE c # k
    BY <2>1, <2>3, <1>1, <1>3, SweptCandidates DEF With
  <2> QED
    BY <2>2, <2>3
<1>6. ASSUME NEW k \in Sources, CheckPromoted(k) PROVE Stays \/ Quiet \/ c \in DOMAIN tracked'
  <2>1. candidates' = Without(Swept(k), {k})
    BY <1>6 DEF CheckPromoted
  <2>2. k \in DOMAIN tracked'
    BY <1>6 DEF CheckPromoted, With
  <2>3. CASE c = k
    BY <2>2, <2>3
  <2>4. CASE c # k
    BY <2>1, <2>4, <1>1, <1>3, SweptCandidates DEF Without, Restrict
  <2> QED
    BY <2>3, <2>4
<1> QED
  BY <1>2, <1>4, <1>5, <1>6 DEF Next, CheckTracked, CheckGlobalDrop, Tick, Observe

\* CandidatesAreNotStarved (H6), for all sets of sources: whatever other sources
\* send, a candidate loses its count only by promotion, silence or poisoning.
THEOREM LimiterCandidatesAreNotStarved == Spec => CandidatesAreNotStarved
<1>1. IndInv /\ [Next]_vars => [KeepsCandidates]_vars
  BY NotStarvedStep DEF KeepsCandidates
<1> QED
  BY InitInv, NextInv, <1>1, PTL DEF Spec, CandidatesAreNotStarved

-----------------------------------------------------------------------------
(* The two tiers. *)

\* The inductive invariant: the recency list lists the tracked sources.
TierInv ==
    /\ Lists(lru, DOMAIN tracked) /\ Len(lru) <= Capacity
    /\ IsFiniteSet(DOMAIN candidates) /\ Cardinality(DOMAIN candidates) <= Capacity
    /\ DOMAIN tracked \cap DOMAIN candidates = {}
    /\ \A k \in DOMAIN candidates : candidates[k].count \in 1..(Threshold - 1)

\* The capacity and the threshold are positive.
LEMMA Sizes == Capacity \in Nat \ {0} /\ Threshold \in Nat \ {0}
BY RateLimiterAssumption

\* Candidates that are left out take no room.
LEMMA SweptTier ==
    ASSUME TierInv, NEW k
    PROVE  /\ IsFiniteSet(DOMAIN Swept(k)) /\ Cardinality(DOMAIN Swept(k)) \in Nat
           /\ Cardinality(DOMAIN Swept(k)) <= Capacity
           /\ HasRoom(k) => \/ k \in DOMAIN Swept(k)
                            \/ Cardinality(DOMAIN Swept(k)) < Capacity
           /\ k \in DOMAIN candidates => Swept(k) = candidates
<1>1. DOMAIN Swept(k) \subseteq DOMAIN candidates
  BY SweptCandidates
<1>2. /\ IsFiniteSet(DOMAIN candidates) /\ Cardinality(DOMAIN candidates) <= Capacity
      /\ Cardinality(DOMAIN candidates) \in Nat
  BY FS_CardinalityType DEF TierInv
<1>3. /\ IsFiniteSet(DOMAIN Swept(k))
      /\ Cardinality(DOMAIN Swept(k)) <= Cardinality(DOMAIN candidates)
  BY <1>1, <1>2, FS_Subset
<1>4. Cardinality(DOMAIN Swept(k)) \in Nat
  BY <1>3, FS_CardinalityType
<1>5. k \in DOMAIN candidates => Swept(k) = candidates
  BY DEF Swept
<1> QED
  BY <1>2, <1>3, <1>4, <1>5, Sizes DEF HasRoom

\* The map after the packet was counted.
LEMMA CountedTier ==
    ASSUME TierInv, NEW k, k \notin DOMAIN tracked, HasRoom(k), NewCount(k) < Threshold,
           NEW c, c = With(Swept(k), k, [count |-> NewCount(k), seen |-> now])
    PROVE  /\ IsFiniteSet(DOMAIN c) /\ Cardinality(DOMAIN c) <= Capacity
           /\ DOMAIN tracked \cap DOMAIN c = {}
           /\ \A x \in DOMAIN c : c[x].count \in 1..(Threshold - 1)
<1>1. DOMAIN c = DOMAIN Swept(k) \cup {k}
  BY DEF With
<1>2. c[k].count = NewCount(k) /\ \A x \in DOMAIN Swept(k) : x # k => c[x] = candidates[x]
  BY SweptCandidates DEF With
<1>3. /\ IsFiniteSet(DOMAIN c)
      /\ Cardinality(DOMAIN c) = IF k \in DOMAIN Swept(k) THEN Cardinality(DOMAIN Swept(k))
                                 ELSE Cardinality(DOMAIN Swept(k)) + 1
  BY <1>1, SweptTier, FS_AddElement
<1>4. Cardinality(DOMAIN c) <= Capacity
  BY <1>3, SweptTier, Sizes
<1>5. DOMAIN tracked \cap DOMAIN c = {}
  BY <1>1, SweptCandidates DEF TierInv
<1>6. NewCount(k) \in 1..(Threshold - 1)
  <2>1. k \in DOMAIN candidates => candidates[k].count \in 1..(Threshold - 1)
    BY DEF TierInv
  <2> QED
    BY <2>1, Sizes DEF NewCount
<1>7. \A x \in DOMAIN c : c[x].count \in 1..(Threshold - 1)
  BY <1>1, <1>2, <1>6, SweptCandidates DEF TierInv
<1> QED
  BY <1>3, <1>4, <1>5, <1>7

\* The tracked sources after a promotion: the least recently used one makes room.
LEMMA PromotedTier ==
    ASSUME TierInv, NEW k, k \notin DOMAIN tracked, CheckPromoted(k)
    PROVE  /\ Lists(lru', DOMAIN tracked') /\ Len(lru') <= Capacity
           /\ DOMAIN tracked' \subseteq DOMAIN tracked \cup {k}
<1> DEFINE victims == IF Len(lru) >= Capacity THEN {Head(lru)} ELSE {}
           kept == IF victims = {} THEN lru ELSE Tail(lru)
           D == DOMAIN tracked
<1>1. /\ tracked' = With(Without(tracked, victims), k, NewBucket(SourceBurst, now))
      /\ lru' = Append(kept, k)
  BY DEF CheckPromoted
<1>2. DOMAIN tracked' = (D \ victims) \cup {k}
  BY <1>1 DEF With, Without, Restrict
<1>3. Len(lru) \in Nat /\ Len(lru) <= Capacity /\ Lists(lru, D) /\ lru \in Seq(D)
  BY ListsLen DEF TierInv, Lists
<1>4. Lists(kept, D \ victims) /\ Len(kept) < Capacity /\ Len(kept) \in Nat
  <2>1. CASE Len(lru) >= Capacity
    <3>1. victims = {Head(lru)} /\ Len(lru) > 0
      BY <1>3, <2>1, Sizes
    <3>2. Lists(Tail(lru), D \ {Head(lru)})
      BY <1>3, <3>1, ListsTail
    <3>3. Len(Tail(lru)) = Len(lru) - 1
      BY <1>3, <3>1
    <3>4. kept = Tail(lru)
      BY <3>1
    <3> HIDE DEF victims, D, kept
    <3>5. Lists(kept, D \ victims)
      BY <3>1, <3>2, <3>4
    <3> QED
      BY <1>3, <3>1, <3>3, <3>4, <3>5, Sizes
  <2>2. CASE ~(Len(lru) >= Capacity)
    <3>1. victims = {}
      BY <2>2
    <3>2. D \ victims = D
      BY <3>1
    <3> HIDE DEF victims
    <3> QED
      BY <1>3, <2>2, <3>1, <3>2, Sizes
  <2> QED
    BY <2>1, <2>2
<1> HIDE DEF victims, kept
<1>5. Lists(lru', DOMAIN tracked')
  BY <1>1, <1>2, <1>4, ListsAppend
<1>6. Len(lru') = Len(kept) + 1
  BY <1>1, <1>4 DEF Lists
<1> QED
  BY <1>2, <1>4, <1>5, <1>6, Sizes

\* The invariant is inductive.
LEMMA NextTier == TierInv /\ [Next]_vars => TierInv'
<1> SUFFICES ASSUME TierInv, [Next]_vars PROVE TierInv'
  OBVIOUS
<1>1. ASSUME NEW k \in Sources, CheckTracked(k) PROVE TierInv'
  <2>1. k \in DOMAIN tracked /\ DOMAIN tracked' = DOMAIN tracked /\ lru' = Touch(lru, k) /\ candidates' = candidates
    BY <1>1 DEF CheckTracked
  <2>2. Lists(lru', DOMAIN tracked') /\ Lists(lru, DOMAIN tracked)
    BY <2>1, ListsTouch DEF TierInv
  <2>3. Len(lru') = Len(lru)
    BY <2>1, <2>2, ListsLen
  <2> QED
    BY <2>1, <2>2, <2>3 DEF TierInv
<1>2. ASSUME NEW k \in Sources, CheckGlobalDrop(k) PROVE TierInv'
  BY <1>2 DEF CheckGlobalDrop, TierInv
<1>3. ASSUME NEW k \in Sources, CheckUncounted(k) PROVE TierInv'
  <2>1. candidates' = Swept(k) /\ UNCHANGED <<tracked, lru>>
    BY <1>3 DEF CheckUncounted
  <2>2. \A x \in DOMAIN Swept(k) : Swept(k)[x].count \in 1..(Threshold - 1)
    BY SweptCandidates DEF TierInv
  <2> QED
    BY <2>1, <2>2, SweptTier, SweptCandidates DEF TierInv
<1>4. ASSUME NEW k \in Sources, CheckCounted(k) PROVE TierInv'
  <2>1. /\ k \notin DOMAIN tracked /\ HasRoom(k) /\ NewCount(k) < Threshold
        /\ candidates' = With(Swept(k), k, [count |-> NewCount(k), seen |-> now])
        /\ UNCHANGED <<tracked, lru>>
    BY <1>4 DEF CheckCounted, Admit
  <2>2. /\ IsFiniteSet(DOMAIN candidates') /\ Cardinality(DOMAIN candidates') <= Capacity
        /\ DOMAIN tracked \cap DOMAIN candidates' = {}
        /\ \A x \in DOMAIN candidates' : candidates'[x].count \in 1..(Threshold - 1)
    BY <2>1, CountedTier
  <2> QED
    BY <2>1, <2>2 DEF TierInv
<1>5. ASSUME NEW k \in Sources, CheckPromoted(k) PROVE TierInv'
  <2>1. k \notin DOMAIN tracked /\ candidates' = Without(Swept(k), {k})
    BY <1>5 DEF CheckPromoted, Admit
  <2>2. DOMAIN candidates' = DOMAIN Swept(k) \ {k} /\ \A x \in DOMAIN candidates' : candidates'[x] = candidates[x]
    BY <2>1, SweptCandidates DEF Without, Restrict
  <2>3. IsFiniteSet(DOMAIN candidates') /\ Cardinality(DOMAIN candidates') <= Capacity
    <3>1. /\ IsFiniteSet(DOMAIN candidates')
          /\ Cardinality(DOMAIN candidates') <= Cardinality(DOMAIN Swept(k))
      BY <2>2, SweptTier, FS_Subset
    <3>2. Cardinality(DOMAIN candidates') \in Nat
      BY <3>1, FS_CardinalityType
    <3> QED
      BY <3>1, <3>2, SweptTier, Sizes
  <2>4. \A x \in DOMAIN candidates' : candidates'[x].count \in 1..(Threshold - 1)
    BY <2>2, SweptCandidates DEF TierInv
  <2>5. /\ Lists(lru', DOMAIN tracked') /\ Len(lru') <= Capacity
        /\ DOMAIN tracked' \subseteq DOMAIN tracked \cup {k}
    BY <1>5, <2>1, PromotedTier
  <2>6. DOMAIN tracked' \cap DOMAIN candidates' = {}
    BY <2>2, <2>5, SweptCandidates DEF TierInv
  <2> QED
    BY <2>3, <2>4, <2>5, <2>6 DEF TierInv
<1>6. ASSUME NEW k \in Sources, CheckAfterPoison(k) PROVE TierInv'
  <2>1. DOMAIN Empty = {} /\ \A v : DOMAIN With(Empty, k, v) = {k} /\ With(Empty, k, v)[k] = v
    BY DEF Empty, With
  <2>2. IsFiniteSet({}) /\ Cardinality({}) = 0 /\ IsFiniteSet({k}) /\ Cardinality({k}) = 1
    BY FS_EmptySet, FS_Singleton
  <2>3. CASE 1 >= Threshold
    <3>1. candidates' = Empty /\ lru' = <<k>> /\ tracked' = With(Empty, k, NewBucket(SourceBurst, now))
      BY <1>6, <2>3 DEF CheckAfterPoison
    <3>2. Append(<<>>, k) = <<k>> /\ {} \cup {k} = {k} /\ Len(<<k>>) = 1
      OBVIOUS
    <3>3. Lists(<<k>>, {k})
      BY <3>2, ListsEmpty, ListsAppend
    <3>4. DOMAIN candidates' = {} /\ DOMAIN tracked' = {k}
      BY <2>1, <3>1
    <3> QED
      BY <2>2, <3>1, <3>2, <3>3, <3>4, Sizes DEF TierInv
  <2>4. CASE ~(1 >= Threshold)
    <3>1. candidates' = With(Empty, k, [count |-> 1, seen |-> now]) /\ lru' = <<>> /\ tracked' = Empty
      BY <1>6, <2>4 DEF CheckAfterPoison
    <3>2. DOMAIN candidates' = {k} /\ DOMAIN tracked' = {} /\ candidates'[k].count = 1
      BY <2>1, <3>1
    <3>3. Len(<<>>) = 0
      OBVIOUS
    <3> QED
      BY <2>2, <2>4, <3>1, <3>2, <3>3, ListsEmpty, Sizes DEF TierInv
  <2> QED
    BY <2>3, <2>4
<1>7. CASE Tick \/ UNCHANGED vars
  BY <1>7 DEF Tick, vars, TierInv
<1>8. CASE Observe
  <2>1. DOMAIN tracked' = DOMAIN tracked /\ UNCHANGED <<lru, candidates>>
    BY <1>8 DEF Observe
  <2> QED
    BY <2>1 DEF TierInv
<1> QED
  BY <1>1, <1>2, <1>3, <1>4, <1>5, <1>6, <1>7, <1>8 DEF Next

\* So the invariant holds of every behaviour.
LEMMA TierInvariant == Spec => []TierInv
<1>1. Init => TierInv
  <2> SUFFICES ASSUME Init PROVE TierInv
    OBVIOUS
  <2>1. lru = <<>> /\ DOMAIN tracked = {} /\ DOMAIN candidates = {}
    BY DEF Init, Empty
  <2>2. Len(<<>>) = 0
    OBVIOUS
  <2> QED
    BY <2>1, <2>2, ListsEmpty, FS_EmptySet, Sizes DEF TierInv
<1> QED
  BY <1>1, NextTier, PTL DEF Spec

\* RateLimiter::check, whatever the sources send and whenever a panic poisons
\* the mutex: neither tier outgrows tracked_sources_capacity, no source is in
\* both, no completed count stays behind, and the recency list names each tracked
\* source once, so that an eviction always finds the least recently used one.
THEOREM LimiterTiersDisjointAndBounded == Spec => []TiersDisjointAndBounded
<1>1. TierInv => TiersDisjointAndBounded
  <2> SUFFICES ASSUME TierInv PROVE TiersDisjointAndBounded
    OBVIOUS
  <2>1. Lists(lru, DOMAIN tracked) /\ Len(lru) = Cardinality(DOMAIN tracked)
    BY ListsLen DEF TierInv
  <2>2. Range(lru) = DOMAIN tracked
    BY <2>1 DEF Lists
  <2> QED
    BY <2>1, <2>2 DEF TierInv, TiersDisjointAndBounded
<1> QED
  BY <1>1, TierInvariant, PTL

-----------------------------------------------------------------------------
(* What a promotion costs. *)

Stats == [allowed : Nat, droppedPerSource : Nat, droppedGlobal : Nat,
          promotions : Nat, evictions : Nat]

\* The inductive invariant: the tiers, and PromotionsArePaid itself.
PaidInv ==
    /\ TierInv
    /\ stats \in Stats /\ viaGlobal \in Nat
    /\ Threshold * stats.promotions + CountSum(candidates, DOMAIN candidates) <= viaGlobal

\* What check does to the statistics.
LEMMA StatsSteps ==
    ASSUME stats \in Stats
    PROVE  /\ [stats EXCEPT !.allowed = @ + 1] \in Stats
           /\ [stats EXCEPT !.allowed = @ + 1].promotions = stats.promotions
           /\ [stats EXCEPT !.droppedPerSource = @ + 1] \in Stats
           /\ [stats EXCEPT !.droppedPerSource = @ + 1].promotions = stats.promotions
           /\ [stats EXCEPT !.droppedGlobal = @ + 1] \in Stats
           /\ [stats EXCEPT !.droppedGlobal = @ + 1].promotions = stats.promotions
BY DEF Stats

\* And those of a promotion, with or without an eviction.
LEMMA PromotedStats ==
    ASSUME stats \in Stats
    PROVE  /\ [stats EXCEPT !.allowed = @ + 1, !.promotions = @ + 1] \in Stats
           /\ [stats EXCEPT !.allowed = @ + 1, !.promotions = @ + 1].promotions = stats.promotions + 1
           /\ \A e \in Nat :
                 /\ [stats EXCEPT !.allowed = @ + 1, !.promotions = @ + 1, !.evictions = @ + e] \in Stats
                 /\ [stats EXCEPT !.allowed = @ + 1, !.promotions = @ + 1, !.evictions = @ + e].promotions
                      = stats.promotions + 1
<1> DEFINE one == [stats EXCEPT !.allowed = @ + 1]
           two == [one EXCEPT !.promotions = stats.promotions + 1]
           three(e) == [two EXCEPT !.evictions = stats.evictions + e]
<1>1. one \in Stats /\ stats.promotions \in Nat /\ stats.evictions \in Nat
  BY DEF Stats
<1>2. [stats EXCEPT !.allowed = @ + 1, !.promotions = @ + 1] = two
  OBVIOUS
<1>3. \A e : [stats EXCEPT !.allowed = @ + 1, !.promotions = @ + 1, !.evictions = @ + e] = three(e)
  OBVIOUS
<1> HIDE DEF one
<1>4. two \in Stats /\ two.promotions = stats.promotions + 1
  BY <1>1 DEF Stats
<1> HIDE DEF two
<1>5. \A e \in Nat : three(e) \in Stats /\ three(e).promotions = stats.promotions + 1
  BY <1>1, <1>4 DEF Stats
<1> HIDE DEF three
<1> QED
  BY <1>2, <1>3, <1>4, <1>5

\* What the counts add up to.
Counted == CountSum(candidates, DOMAIN candidates)

\* sweep_expired_candidates takes counts away and adds none.
LEMMA SweptSum ==
    ASSUME TierInv, NEW k
    PROVE  /\ Counts(candidates, DOMAIN candidates) /\ Counts(Swept(k), DOMAIN Swept(k))
           /\ CountSum(Swept(k), DOMAIN Swept(k)) \in Nat /\ Counted \in Nat
           /\ CountSum(Swept(k), DOMAIN Swept(k)) <= Counted
<1> DEFINE D == DOMAIN candidates
           S == DOMAIN Swept(k)
<1>1. IsFiniteSet(D) /\ IsFiniteSet(S) /\ S \in SUBSET D /\ \A x \in S : Swept(k)[x] = candidates[x]
  BY SweptTier, SweptCandidates DEF TierInv
<1>2. \A x \in D : candidates[x].count \in Nat
  BY Sizes DEF TierInv
<1>3. Counts(candidates, D) /\ Counts(Swept(k), S)
  BY <1>1, <1>2 DEF Counts
<1> HIDE DEF D, S
<1>4. CountSum(Swept(k), S) = CountSum(candidates, S)
  BY <1>1, CountSumSame
<1>5. CountSum(candidates, S) <= CountSum(candidates, D)
  BY <1>1, <1>3, CountSumSubset
<1>6. CountSum(candidates, D) \in Nat /\ CountSum(Swept(k), S) \in Nat
  BY <1>3, CountSumFacts
<1> QED
  BY <1>3, <1>4, <1>5, <1>6 DEF D, S, Counted

\* The counts without the one of k, and what k's own count takes from the sum.
LEMMA WithoutSum ==
    ASSUME TierInv, NEW k
    PROVE  /\ CountSum(Swept(k), DOMAIN Swept(k) \ {k}) \in Nat /\ NewCount(k) \in Nat
           /\ CountSum(Swept(k), DOMAIN Swept(k) \ {k}) + NewCount(k) <= Counted + 1
<1> DEFINE S == DOMAIN Swept(k)
           rest == CountSum(Swept(k), S \ {k})
<1>1. Counts(Swept(k), S) /\ CountSum(Swept(k), S) \in Nat /\ Counted \in Nat /\ CountSum(Swept(k), S) <= Counted
  BY SweptSum
<1>2. Counts(Swept(k), S \ {k})
  BY <1>1, FS_Subset DEF Counts
<1>3. rest \in Nat
  BY <1>2, CountSumFacts
<1>4. CASE k \in DOMAIN candidates
  <2>1. Swept(k) = candidates /\ k \in S /\ NewCount(k) = Swept(k)[k].count + 1
    BY <1>4 DEF Swept, NewCount
  <2> HIDE DEF S
  <2>2. CountSum(Swept(k), S) = Swept(k)[k].count + CountSum(Swept(k), S \ {k}) /\ Swept(k)[k].count \in Nat
    BY <1>1, <2>1, CountSumFacts DEF Counts
  <2>3. CountSum(Swept(k), S) = Swept(k)[k].count + rest
    BY <2>2
  <2> HIDE DEF rest
  <2>4. rest + NewCount(k) <= Counted + 1 /\ NewCount(k) \in Nat
    BY <1>1, <1>3, <2>1, <2>2, <2>3
  <2> QED
    BY <1>3, <2>4 DEF rest, S
<1>5. CASE k \notin DOMAIN candidates
  <2>1. NewCount(k) = 1
    BY <1>5 DEF NewCount
  <2>2. S \ {k} = S
    BY <1>5, SweptCandidates
  <2>3. rest = CountSum(Swept(k), S)
    BY <2>2
  <2> HIDE DEF S, rest
  <2>4. rest + NewCount(k) <= Counted + 1 /\ NewCount(k) \in Nat
    BY <1>1, <1>3, <2>1, <2>3
  <2> QED
    BY <1>3, <2>4 DEF rest, S
<1> QED
  BY <1>4, <1>5

\* A packet that counts adds one to the sum, or less when others expire.
LEMMA CountedSum ==
    ASSUME TierInv, NEW k, candidates' = With(Swept(k), k, [count |-> NewCount(k), seen |-> now])
    PROVE  Counted' \in Nat /\ Counted' <= Counted + 1
<1> DEFINE S == DOMAIN Swept(k)
           rest == CountSum(Swept(k), S \ {k})
           D == DOMAIN candidates'
<1>1. IsFiniteSet(S) /\ D = S \cup {k} /\ D \ {k} = S \ {k}
  BY SweptTier DEF With
<1>2. candidates'[k].count = NewCount(k) /\ \A x \in S \ {k} : candidates'[x] = Swept(k)[x]
  BY DEF With
<1>3. rest \in Nat /\ NewCount(k) \in Nat /\ rest + NewCount(k) <= Counted + 1
  BY WithoutSum
<1>4. Counts(candidates', D)
  <2>1. Counts(Swept(k), S)
    BY SweptSum
  <2>2. IsFiniteSet(D)
    BY <1>1, FS_AddElement
  <2>3. \A x \in D : candidates'[x].count \in Nat
    BY <1>1, <1>2, <1>3, <2>1 DEF Counts
  <2> QED
    BY <2>2, <2>3 DEF Counts
<1>5. IsFiniteSet(S \ {k})
  BY <1>1, FS_Subset
<1> HIDE DEF D, S
<1>6. CountSum(candidates', D) = candidates'[k].count + CountSum(candidates', D \ {k})
  BY <1>1, <1>4, CountSumFacts
<1>7. CountSum(candidates', S \ {k}) = CountSum(Swept(k), S \ {k})
  BY <1>2, <1>5, CountSumSame
<1>8. CountSum(candidates', D) = NewCount(k) + rest
  BY <1>1, <1>2, <1>6, <1>7
<1>9. Counted' = CountSum(candidates', D)
  BY DEF D, Counted
<1>10. Counted \in Nat
  BY SweptSum
<1> HIDE DEF rest
<1> QED
  BY <1>3, <1>8, <1>9, <1>10

\* A promotion takes promotion_threshold out of the sum, less the packet's own.
LEMMA PromotedSum ==
    ASSUME TierInv, NEW k, candidates' = Without(Swept(k), {k}), NewCount(k) >= Threshold
    PROVE  Counted' \in Nat /\ Counted' + Threshold <= Counted + 1
<1> DEFINE S == DOMAIN Swept(k)
           rest == CountSum(Swept(k), S \ {k})
           D == DOMAIN candidates'
<1>1. D = S \ {k} /\ \A x \in D : candidates'[x] = Swept(k)[x]
  BY DEF Without, Restrict
<1>2. IsFiniteSet(D)
  BY <1>1, SweptTier, FS_Subset
<1>3. CountSum(candidates', D) = CountSum(Swept(k), D)
  <2> HIDE DEF D
  <2> QED
    BY <1>1, <1>2, CountSumSame
<1>4. Counted' = rest
  BY <1>1, <1>3 DEF Counted
<1>5. rest \in Nat /\ NewCount(k) \in Nat /\ rest + NewCount(k) <= Counted + 1 /\ Counted \in Nat
  BY WithoutSum, SweptSum
<1> HIDE DEF rest
<1> QED
  BY <1>4, <1>5, Sizes

\* The invariant is inductive.
LEMMA NextPaid == PaidInv /\ [Next]_vars => PaidInv'
<1> SUFFICES ASSUME PaidInv, [Next]_vars PROVE PaidInv'
  OBVIOUS
<1> DEFINE p == stats.promotions
           Paid(n, sum, via) == Threshold * n + sum <= via
<1>1. TierInv /\ TierInv' /\ stats \in Stats /\ viaGlobal \in Nat /\ p \in Nat
  BY NextTier DEF PaidInv, Stats
<1>2. Counted \in Nat
  BY <1>1, SweptSum
<1>3. Threshold * p \in Nat /\ Threshold * (p + 1) = Threshold * p + Threshold /\ Threshold \in Nat \ {0}
  BY <1>1, Sizes, Products
<1>4. Paid(p, Counted, viaGlobal)
  BY DEF PaidInv, Counted
<1>5. ASSUME stats' \in Stats, viaGlobal' \in Nat, Paid(stats'.promotions, Counted', viaGlobal')
      PROVE  PaidInv'
  BY <1>1, <1>5 DEF PaidInv, Counted
<1>6. ASSUME stats' \in Stats, stats'.promotions = p, Counted' = Counted, viaGlobal' = viaGlobal
      PROVE  PaidInv'
  <2>1. Paid(stats'.promotions, Counted', viaGlobal')
    BY <1>4, <1>6
  <2> QED
    BY <1>1, <1>5, <1>6, <2>1
<1>7. ASSUME stats' \in Stats, stats'.promotions = p, Counted' \in Nat, Counted' <= Counted + 1,
             viaGlobal' = viaGlobal + 1
      PROVE  PaidInv'
  <2> DEFINE cost == Threshold * p
  <2>1. cost \in Nat /\ cost + Counted <= viaGlobal
    BY <1>3, <1>4
  <2> HIDE DEF cost
  <2>3. cost + Counted' <= viaGlobal'
    <3>1. \A t, x, y, v \in Nat : t + x <= v /\ y <= x + 1 => t + y <= v + 1
      OBVIOUS
    <3> QED
      BY <1>1, <1>2, <1>7, <2>1, <3>1
  <2>2. Paid(stats'.promotions, Counted', viaGlobal') /\ viaGlobal' \in Nat
    BY <1>1, <1>7, <2>3 DEF cost
  <2> QED
    BY <1>5, <1>7, <2>2
<1>8. ASSUME stats' \in Stats, stats'.promotions = p + 1, Counted' \in Nat,
             Counted' + Threshold <= Counted + 1, viaGlobal' = viaGlobal + 1
      PROVE  PaidInv'
  <2> DEFINE cost == Threshold * p
             more == Threshold * (p + 1)
  <2>1. cost \in Nat /\ cost + Counted <= viaGlobal /\ more = cost + Threshold
    BY <1>3, <1>4
  <2> HIDE DEF cost, more
  <2>3. more + Counted' <= viaGlobal'
    <3>1. \A t, q, x, y, v \in Nat : t + x <= v /\ y + q <= x + 1 => (t + q) + y <= v + 1
      OBVIOUS
    <3> QED
      BY <1>1, <1>2, <1>3, <1>8, <2>1, <3>1
  <2>2. Paid(stats'.promotions, Counted', viaGlobal') /\ viaGlobal' \in Nat
    BY <1>1, <1>8, <2>3 DEF more
  <2> QED
    BY <1>5, <1>8, <2>2
<1> HIDE DEF p, Paid
<1>9. /\ [stats EXCEPT !.allowed = @ + 1] \in Stats
      /\ [stats EXCEPT !.allowed = @ + 1].promotions = p
      /\ [stats EXCEPT !.droppedPerSource = @ + 1] \in Stats
      /\ [stats EXCEPT !.droppedPerSource = @ + 1].promotions = p
      /\ [stats EXCEPT !.droppedGlobal = @ + 1] \in Stats
      /\ [stats EXCEPT !.droppedGlobal = @ + 1].promotions = p
  BY <1>1, StatsSteps DEF p
<1>10. /\ [stats EXCEPT !.allowed = @ + 1, !.promotions = @ + 1] \in Stats
       /\ [stats EXCEPT !.allowed = @ + 1, !.promotions = @ + 1].promotions = p + 1
       /\ \A e \in Nat :
             /\ [stats EXCEPT !.allowed = @ + 1, !.promotions = @ + 1, !.evictions = @ + e] \in Stats
             /\ [stats EXCEPT !.allowed = @ + 1, !.promotions = @ + 1, !.evictions = @ + e].promotions = p + 1
  BY <1>1, PromotedStats DEF p
<1>11. ASSUME NEW k \in Sources, CheckTracked(k) PROVE PaidInv'
  <2>1. candidates' = candidates /\ viaGlobal' = viaGlobal
    BY <1>11 DEF CheckTracked
  <2>2. stats' \in Stats /\ stats'.promotions = p
    BY <1>9, <1>11, Zenon DEF CheckTracked
  <2>3. Counted' = Counted
    BY <2>1 DEF Counted
  <2> QED
    BY <1>6, <2>1, <2>2, <2>3
<1>12. ASSUME NEW k \in Sources, CheckGlobalDrop(k) PROVE PaidInv'
  <2>1. candidates' = candidates /\ viaGlobal' = viaGlobal
    BY <1>12 DEF CheckGlobalDrop
  <2>2. stats' \in Stats /\ stats'.promotions = p
    BY <1>9, <1>12, Zenon DEF CheckGlobalDrop
  <2>3. Counted' = Counted
    BY <2>1 DEF Counted
  <2> QED
    BY <1>6, <2>1, <2>2, <2>3
<1>13. ASSUME NEW k \in Sources, CheckUncounted(k) PROVE PaidInv'
  <2>1. candidates' = Swept(k) /\ viaGlobal' = viaGlobal + 1
    BY <1>13 DEF CheckUncounted, Admit
  <2>2. stats' \in Stats /\ stats'.promotions = p
    BY <1>9, <1>13, Zenon DEF CheckUncounted
  <2>3. Counted' = CountSum(Swept(k), DOMAIN Swept(k))
    BY <2>1 DEF Counted
  <2>4. Counted' \in Nat /\ Counted' <= Counted + 1
    BY <1>1, <1>2, <2>3, SweptSum
  <2> QED
    BY <1>7, <2>1, <2>2, <2>4
<1>14. ASSUME NEW k \in Sources, CheckCounted(k) PROVE PaidInv'
  <2>1. candidates' = With(Swept(k), k, [count |-> NewCount(k), seen |-> now]) /\ viaGlobal' = viaGlobal + 1
    BY <1>14 DEF CheckCounted, Admit
  <2>2. stats' \in Stats /\ stats'.promotions = p
    BY <1>9, <1>14, Zenon DEF CheckCounted
  <2>3. Counted' \in Nat /\ Counted' <= Counted + 1
    BY <1>1, <2>1, CountedSum
  <2> QED
    BY <1>7, <2>1, <2>2, <2>3
<1>15. ASSUME NEW k \in Sources, CheckPromoted(k) PROVE PaidInv'
  <2> DEFINE victims == IF Len(lru) >= Capacity THEN {Head(lru)} ELSE {}
  <2>1. /\ candidates' = Without(Swept(k), {k}) /\ NewCount(k) >= Threshold
        /\ viaGlobal' = viaGlobal + 1
    BY <1>15 DEF CheckPromoted, Admit
  <2>2. stats' = [stats EXCEPT !.allowed = @ + 1, !.promotions = @ + 1, !.evictions = @ + Cardinality(victims)]
    BY <1>15, Zenon DEF CheckPromoted
  <2>3. Cardinality(victims) \in Nat
    <3>1. Cardinality({Head(lru)}) = 1 /\ Cardinality({}) = 0
      BY FS_EmptySet, FS_Singleton
    <3> QED
      BY <3>1
  <2> HIDE DEF victims
  <2>4. stats' \in Stats /\ stats'.promotions = p + 1
    BY <1>10, <2>2, <2>3, Zenon
  <2>5. Counted' \in Nat /\ Counted' + Threshold <= Counted + 1
    BY <1>1, <2>1, PromotedSum
  <2> QED
    BY <1>8, <2>1, <2>4, <2>5
<1>16. ASSUME NEW k \in Sources, CheckAfterPoison(k) PROVE PaidInv'
  <2>1. viaGlobal' = viaGlobal + 1
    BY <1>16 DEF CheckAfterPoison
  <2>2. CASE 1 >= Threshold
    <3>1. candidates' = Empty
      BY <1>16, <2>2, Zenon DEF CheckAfterPoison
    <3>2. stats' \in Stats /\ stats'.promotions = p + 1
      BY <1>10, <1>16, <2>2, Zenon DEF CheckAfterPoison
    <3>3. DOMAIN candidates' = {} /\ Counts(candidates', {})
      BY <3>1, FS_EmptySet DEF Empty, Counts
    <3>4. Counted' = 0
      BY <3>3, CountSumFacts DEF Counted
    <3>5. Counted' \in Nat /\ Counted' + Threshold <= Counted + 1
      BY <1>2, <1>3, <2>2, <3>4
    <3> QED
      BY <1>8, <2>1, <3>2, <3>5
  <2>3. CASE ~(1 >= Threshold)
    <3>1. candidates' = With(Empty, k, [count |-> 1, seen |-> now])
      BY <1>16, <2>3, Zenon DEF CheckAfterPoison
    <3>2. stats' \in Stats /\ stats'.promotions = p
      BY <1>9, <1>16, <2>3, Zenon DEF CheckAfterPoison
    <3>3. DOMAIN candidates' = {k} /\ candidates'[k].count = 1
      BY <3>1 DEF With, Empty
    <3>8. IsFiniteSet({k}) /\ IsFiniteSet({})
      BY FS_Singleton, FS_EmptySet
    <3>4. Counts(candidates', {k}) /\ Counts(candidates', {}) /\ {k} \ {k} = {}
      BY <3>3, <3>8 DEF Counts
    <3>5. CountSum(candidates', {}) = 0
      BY <3>4, CountSumFacts
    <3>6. CountSum(candidates', {k}) = candidates'[k].count + CountSum(candidates', {k} \ {k})
      BY <3>4, CountSumFacts
    <3>7. Counted' = 1
      BY <3>3, <3>4, <3>5, <3>6 DEF Counted
    <3> QED
      BY <1>2, <1>7, <2>1, <3>2, <3>7
  <2> QED
    BY <2>2, <2>3
<1>17. CASE Tick \/ Observe \/ UNCHANGED vars
  <2>1. UNCHANGED <<candidates, stats, viaGlobal>>
    BY <1>17 DEF Tick, Observe, vars
  <2>2. stats' \in Stats /\ stats'.promotions = p /\ Counted' = Counted
    BY <1>1, <2>1 DEF p, Counted
  <2> QED
    BY <1>6, <2>1, <2>2
<1> QED
  BY <1>11, <1>12, <1>13, <1>14, <1>15, <1>16, <1>17 DEF Next

\* limiter.rs:261, for every capacity, threshold and traffic: the packets that
\* the global bucket has passed are enough for promotion_threshold each to every
\* promotion and one each to every count still in the candidate map.
THEOREM LimiterPromotionsArePaid == Spec => []PromotionsArePaid
<1>1. Init => PaidInv
  <2> SUFFICES ASSUME Init PROVE PaidInv
    OBVIOUS
  <2>1. TierInv
    <3>1. lru = <<>> /\ DOMAIN tracked = {} /\ DOMAIN candidates = {}
      BY DEF Init, Empty
    <3>2. Len(<<>>) = 0
      OBVIOUS
    <3> QED
      BY <3>1, <3>2, ListsEmpty, FS_EmptySet, Sizes DEF TierInv
  <2>2. DOMAIN candidates = {} /\ stats \in Stats /\ stats.promotions = 0 /\ viaGlobal = 0
    BY DEF Init, Empty, Stats
  <2>3. Counts(candidates, {})
    BY FS_EmptySet DEF Counts
  <2>4. CountSum(candidates, DOMAIN candidates) = 0
    BY <2>2, <2>3, CountSumFacts
  <2>5. Threshold * 0 = 0
    BY Sizes
  <2> QED
    BY <2>1, <2>2, <2>4, <2>5 DEF PaidInv
<1>2. PaidInv => PromotionsArePaid
  BY DEF PaidInv, CountSum, PromotionsArePaid
<1> QED
  BY <1>1, <1>2, NextPaid, PTL DEF Spec

=============================================================================
