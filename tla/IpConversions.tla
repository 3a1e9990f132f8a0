---------------------------- MODULE IpConversions ----------------------------
(***************************************************************************)
(* The conversions of Net/Ip.hpp and Net/Net.hpp that decide who gets a    *)
(* frame and whether it is accepted: addresses between MAC and IPv6, and   *)
(* the checksum over the pseudo header and the payload.  Addresses and     *)
(* payloads are sequences of bytes.                                        *)
(***************************************************************************)
EXTENDS Integers, Sequences, SequencesExt, FiniteSetsExt

Byte == 0..255
MacAddress == [1..6 -> Byte]
Ipv6Address == [1..16 -> Byte]

NoMac == <<>>                   \* the address could not be resolved
NoAddress == <<>>               \* the MAC address has no address in IPv6

Zeros(n) == [i \in 1..n |-> 0]

-----------------------------------------------------------------------------
(* Addresses.                                                              *)

(* x ^ 0x02: the universal/local bit of a MAC address.                     *)
FlipUniversal(x) == IF (x \div 2) % 2 = 0 THEN x + 2 ELSE x - 2

IsMulticastMac(mac) == mac[1] = 51 /\ mac[2] = 51

(* Multicast addresses FF00::/12 with the last four bytes, and the EUI-64  *)
(* link-local address of a station.  Other group addresses have none.      *)
macToIpv6(mac) ==
    IF IsMulticastMac(mac)
    THEN <<255>> \o Zeros(11) \o SubSeq(mac, 3, 6)
    ELSE IF mac[1] % 2 = 0
         THEN <<254, 128>> \o Zeros(6) \o <<FlipUniversal(mac[1])>>
              \o SubSeq(mac, 2, 3) \o <<255, 254>> \o SubSeq(mac, 4, 6)
         ELSE NoAddress

IsMulticast(address) == address[1] = 255 /\ address[2] < 16

(* A link-local address that was made from a MAC address.                  *)
IsDerived(address) ==
    /\ address[1] = 254 /\ address[2] = 128
    /\ \A i \in 3..8 : address[i] = 0
    /\ address[12] = 255 /\ address[13] = 254

ipv6ToMac(address) ==
    IF IsMulticast(address) THEN <<51, 51>> \o SubSeq(address, 13, 16)
    ELSE IF IsDerived(address)
         THEN <<FlipUniversal(address[9])>> \o SubSeq(address, 10, 11)
              \o SubSeq(address, 14, 16)
         ELSE NoMac

-----------------------------------------------------------------------------
(* The checksum.                                                           *)

(* The 16 bit words of a block as the little-endian processor reads them;  *)
(* an odd last byte counts as the low byte of a word.                      *)
SumOfWords(bytes) ==
    LET Word(k) ==
            bytes[2 * k - 1] + (IF 2 * k <= Len(bytes) THEN 256 * bytes[2 * k] ELSE 0)
    IN  MapThenSumSet(Word, 1..((Len(bytes) + 1) \div 2))

FoldedNever(accumulator) == accumulator % 65536

(* The carries out of the low 16 bits are added to it until there are none *)
(* (the accumulator has 32 bits: twice is enough).                         *)
Folded(accumulator) ==
    LET Once(x) == (x \div 65536) + (x % 65536)
    IN  Once(Once(accumulator))

(* The field of the length has 32 bits, and the 16 bits of payloadLength   *)
(* are swapped before they are widened: they come first.                   *)
PseudoHeader(source, destination, length, protocol) ==
    source \o destination
        \o <<length \div 256, length % 256, 0, 0, 0, 0, 0, protocol>>

payloadChecksumAlone(source, destination, protocol, payload) ==
    65535 - Folded(SumOfWords(payload))

(* IpChecksumGenerator over the pseudo header and the payload.             *)
payloadChecksum(source, destination, protocol, payload) ==
    65535 - Folded(SumOfWords(
        PseudoHeader(source, destination, Len(payload), protocol))
        + SumOfWords(payload))

(* prepareTransmit(): the two bytes from `at` on, which are 0, get the     *)
(* checksum of the packet.                                                 *)
WithChecksum(packet, at) ==
    LET checksum == payloadChecksum(packet.source, packet.destination,
                                    packet.nextHeader, packet.payload)
    IN  [packet EXCEPT !.payload[at] = checksum % 256,
                       !.payload[at + 1] = checksum \div 256]

(* The check before a payload is passed on.                                *)
ChecksumFits(packet) ==
    payloadChecksum(packet.source, packet.destination, packet.nextHeader,
                    packet.payload) = 0

-----------------------------------------------------------------------------
(* What the other side of the wire does with the checksum (RFC 1071): the  *)
(* words, high byte first and padded with a zero byte, add up to a         *)
(* multiple of 2^16 - 1.  There the length comes last in its field.        *)
PeerPseudoHeader(source, destination, length, protocol) ==
    source \o destination
        \o <<0, 0, length \div 256, length % 256, 0, 0, 0, protocol>>

PeerAddsUp(packet) ==
    LET bytes == PeerPseudoHeader(packet.source, packet.destination,
                                  Len(packet.payload), packet.nextHeader)
                 \o packet.payload
        Value(i) == IF i % 2 = 1 THEN 256 * bytes[i] ELSE bytes[i]
    IN  MapThenSumSet(Value, DOMAIN bytes) % 65535 = 0

(* A UDP datagram whose checksum field is 0 says that it has none.         *)
WithoutChecksum(packet) ==
    packet.nextHeader = 17 /\ packet.payload[7] = 0 /\ packet.payload[8] = 0

(* That is for IPv4 alone: over IPv6 the datagram is discarded (RFC 8200,  *)
(* 8.1).                                                                   *)
PeerAccepts(packet) == PeerAddsUp(packet) /\ ~WithoutChecksum(packet)

(* So a station sends 65535 for a checksum of UDP that comes out as 0.     *)
PeerWithChecksum(packet, at) ==
    LET completed == WithChecksum(packet, at)
    IN  IF WithoutChecksum(completed)
        THEN [completed EXCEPT !.payload[7] = 255, !.payload[8] = 255]
        ELSE completed
=============================================================================
