----------------------------- MODULE MCIpv6Stack -----------------------------
EXTENDS Ipv6Stack

(* The MAC address of main(), and two stations: each has the link-local    *)
(* address made from its MAC, and a global address moves between them.     *)
MCOwnMac == <<54, 201, 227, 241, 184, 5>>

StationA == <<2, 0, 0, 0, 0, 10>>
StationB == <<240, 255, 255, 1, 2, 3>>
Global == <<32, 1, 13, 184>> \o Zeros(11) \o <<1>>

(* From this port the checksum of the answer to Global comes out as 0.     *)
MCSourcePort == <<245, 239>>

MCAddressesOf ==
    [mac \in {StationA, StationB} |-> {macToIpv6(mac), Global}]
=============================================================================
