------------------------------ MODULE Ipv6Stack ------------------------------
(***************************************************************************)
(* What happens between the EMAC driver and the handlers of ICMPv6 and     *)
(* UDP: a received frame is checked and dispatched (Net/Net.hpp), a        *)
(* neighbor solicitation, an echo request or a datagram to the echo port   *)
(* is answered (Net/Icmp.hpp, Net/Udp.hpp), and the answer is sent to the  *)
(* MAC address the neighbor cache has for its destination, or to the one   *)
(* in the IPv6 address (Net/Ip.hpp).  The cache is emptied when the link   *)
(* is lost.  Everything runs in the main loop: a handler is one step.      *)
(*                                                                         *)
(* An answer carries no memory from before but what createFrame() returns: *)
(* the payload of an echo reply is never written and is what the buffer    *)
(* held before.                                                            *)
(***************************************************************************)
EXTENDS IpConversions

CONSTANTS
    Entries,        \* neighborCacheEntryCount: 8
    CounterSpace,   \* usageCounter is kept modulo this: 2^16
    OwnMac,         \* the MAC address of eth0
    AddressesOf,    \* the stations on the link: MAC |-> set of IPv6 addresses
    SourcePort,     \* the two bytes of the port that datagrams come from
    Residue         \* what a byte of an old transmit buffer may hold

ASSUME StackAssumption ==
    /\ Entries \in Nat \ {0}
    /\ CounterSpace \in Nat \ {0, 1}
    /\ OwnMac \in MacAddress /\ OwnMac[1] % 2 = 0
    /\ \A mac \in DOMAIN AddressesOf :
        mac \in MacAddress /\ AddressesOf[mac] \subseteq Ipv6Address
    /\ SourcePort \in Byte \X Byte
    /\ Residue \subseteq Byte

PeerMac == DOMAIN AddressesOf
PeerAddress == UNION { AddressesOf[mac] : mac \in PeerMac }

VARIABLES
    neighborCache,  \* the entries in use or vacant
    linkStatus,     \* the link as poll() saw it last
    announced,      \* the MAC each address announced last since the link was lost
    exchange,       \* the station that asked and what it was answered last
    intact          \* the last packet taken was as it had been sent

stackVars == <<neighborCache, linkStatus, announced, exchange, intact>>

Entry == 1..Entries

ipv6LinkLocalAddress == macToIpv6(OwnMac)
AllNodes == <<255, 2>> \o Zeros(13) \o <<1>>

(* Nothing was sent.                                                       *)
Nothing == [asker |-> NoMac, destination |-> Zeros(16), sent |-> {}]

-----------------------------------------------------------------------------
(* The neighbor cache.                                                     *)

Vacated == [ipv6Address |-> Zeros(16), macAddress |-> Zeros(6), usageCounter |-> 0]

InvalidatedFirst(cache) == [cache EXCEPT ![1] = Vacated]

(* invalidateNeighborCache()                                               *)
Invalidated(cache) == [e \in Entry |-> Vacated]

Matches(cache, address) ==
    { e \in Entry : cache[e].usageCounter > 0 /\ cache[e].ipv6Address = address }

UsedBeyond(cache, address) ==
    [e \in Entry |->
        IF e \in Matches(cache, address)
        THEN [cache[e] EXCEPT !.usageCounter = @ + 1] ELSE cache[e]]

(* findNeighbor() counts the use ...                                       *)
Used(cache, address) ==
    [e \in Entry |->
        IF e \in Matches(cache, address)
        THEN [cache[e] EXCEPT !.usageCounter = (@ + 1) % CounterSpace]
        ELSE cache[e]]

(* ... and returns the last match.                                         *)
Found(cache, address) == Max(Matches(cache, address))

(* The first of the entries with the lowest counter.                       *)
LeastUsed(cache) ==
    Min({ e \in Entry : \A other \in Entry :
            cache[e].usageCounter <= cache[other].usageCounter })

AddedStale(cache, mac, address) ==
    IF Matches(cache, address) # {} THEN Used(cache, address)
    ELSE [cache EXCEPT ![LeastUsed(cache)] =
            [ipv6Address |-> address, macAddress |-> mac, usageCounter |-> 1]]

(* addNeighbor()                                                           *)
Added(cache, mac, address) ==
    IF Matches(cache, address) # {}
    THEN [Used(cache, address) EXCEPT ![Found(cache, address)].macAddress = mac]
    ELSE [cache EXCEPT ![LeastUsed(cache)] =
            [ipv6Address |-> address, macAddress |-> mac, usageCounter |-> 1]]

(* transmitIpPacket(): the MAC address a packet for this address goes to,  *)
(* or none, and then it is not sent.                                       *)
Resolved(cache, address) ==
    IF Matches(cache, address) # {}
    THEN cache[Found(cache, address)].macAddress
    ELSE ipv6ToMac(address)

-----------------------------------------------------------------------------
(* Packets.                                                                *)

Packet(destination, nextHeader, payload) ==
    [source |-> ipv6LinkLocalAddress, destination |-> destination,
     nextHeader |-> nextHeader, payload |-> payload]

(* NeighborAdvertisement::transmit() with the solicited flag and without.  *)
Advertisement(destination, target, flags) ==
    WithChecksum(Packet(destination, 58,
        <<136, 0, 0, 0, flags, 0, 0, 0>> \o target \o <<2, 1>> \o OwnMac), 3)

(* EchoReply::transmit(): identifier and sequence number of the request,   *)
(* and behind them what the buffer held.                                   *)
EchoReply(request, residue) ==
    WithChecksum(Packet(request.source, 58,
        <<129, 0, 0, 0>> \o SubSeq(request.payload, 5, 8)
        \o [i \in 1..(Len(request.payload) - 8) |-> residue]), 3)

(* Udp::received(): the datagram with its ports exchanged.                 *)
UdpEcho(request) ==
    LET datagram == request.payload IN
    WithChecksum(Packet(request.source, 17,
        SubSeq(datagram, 3, 4) \o SubSeq(datagram, 1, 2) \o SubSeq(datagram, 5, 6)
        \o <<0, 0>> \o SubSeq(datagram, 9, Len(datagram))), 7)

UdpPort(request) == 256 * request.payload[3] + request.payload[4]

(* A solicitation for the address of this interface.                       *)
Solicits(request) ==
    /\ request.nextHeader = 58 /\ request.payload[1] = 135
    /\ SubSeq(request.payload, 9, 24) = ipv6LinkLocalAddress

(* The packets a request may be answered with: one, or none.               *)
Answers(request) ==
    CASE Solicits(request) ->
            { Advertisement(request.source, SubSeq(request.payload, 9, 24), 96) }
      [] request.nextHeader = 58 /\ request.payload[1] = 128 ->
            { EchoReply(request, residue) : residue \in Residue }
      [] request.nextHeader = 17 /\ UdpPort(request) = 3824 -> { UdpEcho(request) }
      [] OTHER -> {}

-----------------------------------------------------------------------------
(* What arrives: frames of the neighbors, as they were sent or with one    *)
(* byte changed on the way.                                                *)

FromPeer(address, nextHeader, payload, at) ==
    PeerWithChecksum([source |-> address, destination |-> ipv6LinkLocalAddress,
                      nextHeader |-> nextHeader, payload |-> payload], at)

(* Solicitations for this interface and for another one, an echo request   *)
(* of an odd length, a multicast listener query, which is read and         *)
(* forgotten, and datagrams to the echo port and to another one.           *)
Requests(address) ==
    { FromPeer(address, 58, <<135, 0, 0, 0, 0, 0, 0, 0>> \o target, 3) :
        target \in {ipv6LinkLocalAddress, address} }
    \cup { FromPeer(address, 58, <<128, 0, 0, 0, 18, 52, 0, 1, 170, 187, 204>>, 3),
           FromPeer(address, 58, <<130, 0, 0, 0, 0, 0, 0, 0>>, 3) }
    \cup { FromPeer(address, 17, SourcePort \o <<14, port, 0, 9, 0, 0, 255>>, 7) :
            port \in {240, 241} }

(* The high bit of one byte of the source address, or of the payload.      *)
Flipped(byte) == (byte + 128) % 256

Damages(packet) ==
    { [packet EXCEPT !.source[16] = Flipped(@)],
      [packet EXCEPT !.payload[1] = Flipped(@)],
      [packet EXCEPT !.payload[Len(packet.payload)] = Flipped(@)] }

(* Every such change shows in the checksum.                                *)
DamageIsDetected ==
    \A address \in PeerAddress : \A request \in Requests(address) :
        \A damaged \in Damages(request) : ~ChecksumFits(damaged)

-----------------------------------------------------------------------------
(* Steps of the main loop.                                                 *)

(* createFrame() and transmitIpPacket(): the cache after it, and the frame *)
(* that is handed over to the driver, if any.                              *)
Send(cache, packet, asker) ==
    LET mac == Resolved(cache, packet.destination) IN
    /\ neighborCache' = Used(cache, packet.destination)
    /\ exchange' = [asker |-> asker, destination |-> packet.destination, sent |->
            IF mac = NoMac THEN {}
            ELSE {[destination |-> mac, source |-> OwnMac, packet |-> packet]}]

(* poll() sees that the link has come up: the interface announces itself.  *)
LinkUp(room) ==
    /\ ~linkStatus
    /\ linkStatus' = TRUE
    /\ IF room
       THEN Send(neighborCache, Advertisement(AllNodes, ipv6LinkLocalAddress, 32), NoMac)
       ELSE exchange' = Nothing /\ UNCHANGED neighborCache
    /\ UNCHANGED <<announced, intact>>

(* poll() sees that the link was lost.                                     *)
LinkLost ==
    /\ linkStatus
    /\ linkStatus' = FALSE
    /\ neighborCache' = Invalidated(neighborCache)
    /\ announced' = [address \in PeerAddress |-> NoMac]
    /\ exchange' = Nothing
    /\ UNCHANGED intact

(* The driver's received(): a frame the EMAC marked as damaged, one of     *)
(* another protocol, and one of IPv4, none of whose handlers does a thing  *)
(* but to turn the fields round (Icmp.hpp, Udp.hpp, Tcp.hpp).              *)
Discard ==
    /\ exchange' = Nothing
    /\ UNCHANGED <<neighborCache, linkStatus, announced, intact>>

(* received(): a packet that fails the test is forgotten.                  *)
Ignore(packet) ==
    /\ ~ChecksumFits(packet)
    /\ exchange' = Nothing
    /\ UNCHANGED <<neighborCache, linkStatus, announced, intact>>

(* Any other is learnt from if it solicits, and answered if createFrame()  *)
(* finds the link up and room in the ring.  (The ring may still hold a     *)
(* frame when the link is lost.)  A datagram to the echo port needs that   *)
(* room: its handler goes on with a frame at address 0 otherwise, which is *)
(* not followed here.                                                      *)
Receive(mac, request, original, room) ==
    LET learnt == IF Solicits(request)
                  THEN Added(neighborCache, mac, request.source)
                  ELSE neighborCache
        framed == room /\ linkStatus
    IN
    /\ ChecksumFits(request)
    /\ request.nextHeader = 17 => framed
    /\ announced' = IF Solicits(request)
                    THEN [announced EXCEPT ![request.source] = mac] ELSE announced
    /\ IF framed /\ Answers(request) # {}
       THEN \E answer \in Answers(request) :
                Send(learnt, answer, IF Solicits(request) THEN mac ELSE NoMac)
       ELSE exchange' = Nothing /\ neighborCache' = learnt
    /\ intact' = (request = original)
    /\ UNCHANGED linkStatus

StackInit ==
    /\ neighborCache = [e \in Entry |-> Vacated]
    /\ linkStatus = FALSE
    /\ announced = [address \in PeerAddress |-> NoMac]
    /\ exchange = Nothing
    /\ intact = TRUE

StackNext ==
    \/ \E room \in BOOLEAN : LinkUp(room)
    \/ LinkLost
    \/ Discard
    \/ \E mac \in PeerMac, room \in BOOLEAN : \E address \in AddressesOf[mac] :
        \E request \in Requests(address) : Receive(mac, request, request, room)
    \/ \E mac \in PeerMac : \E address \in AddressesOf[mac] :
        \E request \in Requests(address) : \E damaged \in Damages(request) :
            Ignore(damaged) \/ Receive(mac, damaged, request, TRUE)

StackSpec == StackInit /\ [][StackNext]_stackVars

-----------------------------------------------------------------------------
(* Properties.                                                             *)

Live(e) == neighborCache[e].usageCounter > 0

(* The shape of the cache and of what is sent: a frame goes from the own   *)
(* MAC address to one of six bytes.                                        *)
StackTypeOK ==
    /\ \A e \in Entry :
        /\ neighborCache[e].ipv6Address \in PeerAddress \cup {Zeros(16)}
        /\ neighborCache[e].macAddress \in PeerMac \cup {Zeros(6)}
        /\ neighborCache[e].usageCounter \in 0..(CounterSpace - 1)
    /\ linkStatus \in BOOLEAN
    /\ \A address \in PeerAddress : announced[address] \in PeerMac \cup {NoMac}
    /\ \A frame \in exchange.sent :
        Len(frame.destination) = 6 /\ frame.source = OwnMac

(* No two live entries are for one address, and a live entry has the MAC   *)
(* its address announced last, and that since the link was last lost:      *)
(* whatever is evicted, counted round to zero or moved to another station. *)
CacheIsCurrent ==
    \A e \in Entry : Live(e) =>
        /\ neighborCache[e].macAddress = announced[neighborCache[e].ipv6Address]
        /\ \A other \in Entry \ {e} :
            Live(other) => neighborCache[other].ipv6Address # neighborCache[e].ipv6Address

(* The answer to a neighbor solicitation goes to the station that asked,   *)
(* also when the cache is full or the address has moved from another one.  *)
(* The exception is an entry whose counter passed its limit on this very   *)
(* solicitation: then the answer goes to the MAC in the address, or is     *)
(* dropped.                                                                *)
AskerIsAnswered ==
    LET known   == { e \in Entry : neighborCache[e].ipv6Address = exchange.destination }
        wrapped == known # {} /\ \A e \in known : ~Live(e)
    IN
    exchange.asker # NoMac =>
        \/ exchange.sent # {} /\ \A frame \in exchange.sent :
                frame.destination = exchange.asker
        \/ wrapped

(* Whatever is sent passes the checksum test of its receiver, for payloads *)
(* of even and odd length and whatever carries occur in the sum.  There is *)
(* one exception, and the code makes it: when the checksum of an answer of *)
(* the echo port comes out as 0, 0 is what is sent (Udp.hpp:33-34), which  *)
(* over IPv6 stands for no checksum and is discarded, although the sum is  *)
(* right.                                                                  *)
SentIsAccepted ==
    \A frame \in exchange.sent :
        \/ PeerAccepts(frame.packet)
        \/ WithoutChecksum(frame.packet) /\ PeerAddsUp(frame.packet)

(* A packet with a damaged byte under the checksum is not answered and     *)
(* teaches the cache nothing.                                              *)
DamagedIsIgnored == intact
=============================================================================
