----------------------------- MODULE TcpDownload -----------------------------
(***************************************************************************)
(* The network boot of src64/Bootloader.cpp: one listening Tcp::connection *)
(* polled by the main loop until it is Finished, and the hosts that upload *)
(* an image to it.  The hosts are not in the repository; they follow the   *)
(* protocol (RFC 793), may retransmit any unacknowledged range cut in any  *)
(* way, may abort, and may knock on other ports.  The network loses and    *)
(* reorders: a segment once sent may be delivered at any time or never,    *)
(* and with Duplicating any number of times.                               *)
(***************************************************************************)
EXTENDS TcpConnection

CONSTANTS
    Peers,          \* the hosts that may upload
    Isn,            \* the initial sequence number of each of them
    StreamLength,   \* bytes of the image, numbered from 0
    MaxSegment,     \* the most bytes a host puts in one segment
    Trailings,      \* option bytes a host leaves behind an End option
    ProbePorts,     \* ports other than LocalPort that a host may knock on
    Aborts          \* the hosts that may abort with a RST

ASSUME PeersAssumption == LocalHost \notin Peers \cup {"none"} /\ "none" \notin Peers
ASSUME IsnAssumption == Isn \in [Peers -> 0 .. SequenceSpace - 1]
ASSUME StreamAssumption == /\ StreamLength \in Nat \ {0} /\ MaxSegment \in Nat \ {0}
                           /\ StreamLength + 2 < SequenceSpace
ASSUME TrailingsAssumption == Trailings \subseteq Nat /\ LocalPort \notin ProbePorts

VARIABLE
    peer            \* what each host knows of its upload

vars == <<connection, receiveBuffer, network, peer>>
-----------------------------------------------------------------------------
PeerPort == 49152

Endpoint(p) == [host |-> p, port |-> PeerPort]

(* state: idle, syn (SYN sent), open (handshake done), aborted;             *)
(* sent: bytes of the image sent; finSent: and its FIN; acknowledged: bytes *)
(* acknowledged, StreamLength + 1 with the FIN; remoteNext: the next number *)
(* expected from the board, 2 once the board's FIN has arrived.             *)
InitialPeer == [state |-> "idle", sent |-> 0, finSent |-> FALSE, acknowledged |-> 0,
                remoteNext |-> 0]

(* The sequence number of byte n of p's image.                              *)
NumberOf(p, n) == Wrap(Isn[p] + 1 + n)

Sequenced(p) == peer[p].sent + (IF peer[p].finSent THEN 1 ELSE 0)
SendNext(p) == NumberOf(p, Sequenced(p))

PeerSegment(p, number) ==
    [PlainSegment(Endpoint(p), Local) EXCEPT
        !.sequenceNumber = number, !.acknowledgment = TRUE,
        !.acknowledgmentNumber = peer[p].remoteNext]

Init ==
    /\ connection = [InitialConnection EXCEPT !.status = "Listen"]
    /\ receiveBuffer = [at \in {} |-> Filler]
    /\ network = {}
    /\ peer = [p \in Peers |-> InitialPeer]
-----------------------------------------------------------------------------
(* The hosts.                                                               *)

SynOf(p) == [PlainSegment(Endpoint(p), Local) EXCEPT
                !.sequenceNumber = Isn[p], !.synchronize = TRUE]

PeerConnect(p) ==
    /\ peer[p].state \in {"idle", "syn"}
    /\ peer' = [peer EXCEPT ![p].state = "syn"]
    /\ network' = network \cup {SynOf(p)}
    /\ UNCHANGED <<connection, receiveBuffer>>

PeerProbe(p, port) ==
    /\ network' = network \cup {[SynOf(p) EXCEPT !.destination.port = port]}
    /\ UNCHANGED <<connection, receiveBuffer, peer>>

(* The board's SYN,ACK, the first or a repeated one.                        *)
PeerEstablish(p, s) ==
    /\ s \in network /\ s.source = Local /\ s.destination = Endpoint(p)
    /\ s.synchronize /\ s.acknowledgment /\ s.acknowledgmentNumber = NumberOf(p, 0)
    /\ \/ /\ peer[p].state = "syn"
          /\ peer' = [peer EXCEPT ![p].state = "open", ![p].remoteNext = Wrap(s.sequenceNumber + 1)]
       \/ peer[p].state = "open" /\ peer' = peer
    /\ network' = (network \ Delivered(s)) \cup
         {[PeerSegment(p, SendNext(p)) EXCEPT !.acknowledgmentNumber = peer'[p].remoteNext]}
    /\ UNCHANGED <<connection, receiveBuffer>>

(* Bytes from .. from + length - 1, new or again, with the FIN if they are  *)
(* the last; length 0 is the FIN on its own.                                *)
PeerSend(p, from, length, finish, trailing) ==
    /\ peer[p].state = "open"
    /\ from \in peer[p].acknowledged .. peer[p].sent
    /\ length \in 0 .. MaxSegment /\ from + length <= StreamLength
    /\ finish => from + length = StreamLength
    /\ ~finish => length > 0
    /\ peer' = [peer EXCEPT ![p].sent = IF from + length > @ THEN from + length ELSE @,
                            ![p].finSent = @ \/ finish]
    /\ network' = network \cup
         {[PeerSegment(p, NumberOf(p, from)) EXCEPT
             !.length = length, !.finish = finish, !.trailing = trailing]}
    /\ UNCHANGED <<connection, receiveBuffer>>

(* Any other segment of the board: its acknowledgment counts if it is for   *)
(* something sent and not yet acknowledged, its FIN is acknowledged.        *)
AcknowledgedBy(p, s) ==
    {n \in peer[p].acknowledged .. Sequenced(p) : s.acknowledgmentNumber = NumberOf(p, n)}

PeerReceive(p, s) ==
    /\ s \in network /\ s.source = Local /\ s.destination = Endpoint(p)
    /\ s.acknowledgment /\ ~s.synchronize
    /\ peer[p].state = "open"
    /\ \E n \in IF AcknowledgedBy(p, s) = {} THEN {peer[p].acknowledged} ELSE AcknowledgedBy(p, s) :
          peer' = [peer EXCEPT ![p].acknowledged = n,
                               ![p].remoteNext = IF s.finish /\ s.sequenceNumber = @
                                                 THEN Wrap(@ + 1) ELSE @]
    /\ network' = (network \ Delivered(s)) \cup
         (IF s.finish THEN {[PeerSegment(p, SendNext(p)) EXCEPT
                               !.acknowledgmentNumber = peer'[p].remoteNext]} ELSE {})
    /\ UNCHANGED <<connection, receiveBuffer>>

PeerAbort(p) ==
    /\ p \in Aborts /\ peer[p].state \in {"syn", "open"}
    /\ peer' = [peer EXCEPT ![p].state = "aborted"]
    /\ network' = network \cup {[PeerSegment(p, SendNext(p)) EXCEPT !.reset = TRUE]}
    /\ UNCHANGED <<connection, receiveBuffer>>

PeerStep(p) ==
    \/ PeerConnect(p)
    \/ \E port \in ProbePorts : PeerProbe(p, port)
    \/ \E s \in network : PeerEstablish(p, s) \/ PeerReceive(p, s)
    \/ \E from \in 0 .. StreamLength, length \in 0 .. MaxSegment, finish \in BOOLEAN,
          trailing \in Trailings : PeerSend(p, from, length, finish, trailing)
    \/ PeerAbort(p)
-----------------------------------------------------------------------------
(* The main loop: as long as the connection is not Finished it updates the *)
(* clock, lets the driver hand over the frames that arrived, and polls the *)
(* connection.  Frames, ticks and polls interleave freely.                  *)
Loading == connection.status # "Finished"

BoardReceive(s) ==
    /\ Loading /\ s \in network /\ s.destination = Local
    /\ \E frame, closeFrame \in FrameResults : Received(s, frame, closeFrame)
    /\ UNCHANGED peer

BoardRefuse(s) ==
    /\ Loading /\ s \in network
    /\ \E frame \in FrameResults : Refuse(s, frame)
    /\ UNCHANGED peer

BoardPoll ==
    /\ Loading
    /\ \E frame \in FrameResults : Poll(frame)
    /\ UNCHANGED peer

ClockTick == Tick /\ UNCHANGED peer

Next ==
    \/ \E p \in Peers : PeerStep(p)
    \/ \E s \in network : BoardReceive(s) \/ BoardRefuse(s)
    \/ BoardPoll
    \/ ClockTick

Spec == Init /\ [][Next]_vars
-----------------------------------------------------------------------------
Endpoints == {Endpoint(p) : p \in Peers}
Numbers == 0 .. SequenceSpace - 1

(* What travels to the board comes from a host's upload port; the board      *)
(* itself sends from Local, its refusals from the address of the refused.    *)
Between(sources, destinations) ==
    [source : sources, destination : destinations,
     sequenceNumber : Numbers, acknowledgmentNumber : Numbers,
     synchronize : BOOLEAN, acknowledgment : BOOLEAN, finish : BOOLEAN, reset : BOOLEAN,
     length : Nat, trailing : Nat]

ToBoard == Between(Endpoints, [host : {LocalHost}, port : ProbePorts \cup {LocalPort}])
FromBoard == Between({Local} \cup [host : Peers, port : ProbePorts], Endpoints \cup {NoRemote})

Bytes == [of : Endpoints \cup {NoRemote}, number : Numbers]

Connections ==
    [status : Status, remote : Endpoints \cup {NoRemote},
     localSequenceNumber : Nat, localAcknowledgment : Numbers, remoteAcknowledgment : Numbers,
     remoteInitialSequenceNumber : Numbers,
     retryTimer : 0 .. RetryPeriod, retryCounter : 0 .. CounterSpace - 1,
     remoteFinished : BOOLEAN]

Uploads ==
    [state : {"idle", "syn", "open", "aborted"}, sent : 0 .. StreamLength, finSent : BOOLEAN,
     acknowledged : 0 .. StreamLength + 1, remoteNext : Numbers]

(* Every variable keeps the shape the code gives it: sequence numbers stay   *)
(* 32-bit numbers, the retry counter an 8-bit one, the timer within its      *)
(* period, and nothing but segments is on the wire.                          *)
TypeOK ==
    /\ connection \in Connections
    /\ receiveBuffer \in [DOMAIN receiveBuffer -> Bytes]
    /\ DOMAIN receiveBuffer \subseteq Int
    /\ network \subseteq ToBoard \cup FromBoard
    /\ peer \in [Peers -> Uploads]

(* The upload of p does not cross the end of the sequence space: the source  *)
(* handles no sequence number overflow and says so (Tcp.hpp:88).             *)
Fits(p) == Isn[p] + StreamLength + 2 < SequenceSpace
NoOverflow == \A p \in Peers : Fits(p)

(* Options end at an End option that is also the last byte of the header.    *)
NoTrailing == Trailings = {0}

(* How much of p's stream, FIN included, the board has acknowledged.         *)
Accepted(p) == Wrap(connection.localAcknowledgment - (Isn[p] + 1))

Stored(p, n) ==
    LET at == NumberOf(p, n) - connection.remoteInitialSequenceNumber
    IN  at \in DOMAIN receiveBuffer /\ receiveBuffer[at] = Byte(Endpoint(p), NumberOf(p, n))

(* What received() acknowledges it has copied: every payload byte below      *)
(* localAcknowledgment is in receiveBuffer, at its distance from             *)
(* remoteInitialSequenceNumber, whatever was lost, repeated, cut differently *)
(* or reordered on the way.                                                  *)
AckedPayloadStored ==
    \A p \in Peers, n \in 0 .. StreamLength - 1 :
        connection.remote = Endpoint(p) /\ n < Accepted(p) => Stored(p, n)

(* The other end of the same promise: what an uploading host takes as        *)
(* delivered, and will never send again, is in receiveBuffer; the host is    *)
(* then the one the connection is bound to.                                  *)
DeliveredPayloadStored ==
    \A p \in Peers, n \in 0 .. StreamLength - 1 :
        n < peer[p].acknowledged => connection.remote = Endpoint(p) /\ Stored(p, n)

(* receiveBuffer holds bytes of the bound remote only, each at the place its *)
(* sequence number gives: segments of other hosts, old retransmissions and   *)
(* early segments never put a byte anywhere else.                            *)
StoredInPlace ==
    \A at \in DOMAIN receiveBuffer :
        /\ receiveBuffer[at].of = connection.remote
        /\ receiveBuffer[at].number = at + connection.remoteInitialSequenceNumber

(* The main loop stops waiting only after both directions are closed: in     *)
(* TimedClose and Finished the remote has sent its FIN and seen the board's, *)
(* and the whole image and its FIN are in.                                   *)
FinishedIsMutual ==
    connection.status \in {"TimedClose", "Finished"} =>
        \E p \in Peers : /\ connection.remote = Endpoint(p)
                         /\ peer[p].finSent /\ peer[p].remoteNext = 2
                         /\ Fits(p) => Accepted(p) = StreamLength + 1

(* "closes after the remote finishes" (Tcp.hpp:420): a FIN of the board      *)
(* exists only once the remote's whole stream is in, and the download never  *)
(* waits for the remote to finish.                                           *)
ClosesAfterRemote ==
    /\ connection.status # "WaitingForRemoteToFinish"
    /\ \A s \in network : s.source = Local /\ s.finish =>
          \E p \in Peers : s.destination = Endpoint(p) /\ Accepted(p) = StreamLength + 1

(* A download fails for one of two reasons only: the bound remote sent a     *)
(* RST, or more polls than MaxRetries found the retry timer expired.         *)
ClosedForCause ==
    connection.status = "Closed" =>
        \/ connection.retryCounter > MaxRetries
        \/ \E p \in Peers : connection.remote = Endpoint(p) /\ peer[p].state = "aborted"

(* Once bound, a connection stays with its remote, never takes back an       *)
(* acknowledgment, keeps the base that places the payload, and never         *)
(* changes a byte it has stored.                                             *)
NeverTakenBack ==
    [][connection.remote # NoRemote =>
        /\ connection'.remote = connection.remote
        /\ connection'.localAcknowledgment >= connection.localAcknowledgment
        /\ connection.status \notin {"SynReceived"} =>
              connection'.remoteInitialSequenceNumber = connection.remoteInitialSequenceNumber
        /\ \A at \in DOMAIN receiveBuffer :
              at \in DOMAIN receiveBuffer' /\ receiveBuffer'[at] = receiveBuffer[at]]_vars

(* "writes directly to receiveBuffer" (Tcp.hpp:420) and Bootloader.cpp:67,   *)
(* which takes the start of receiveBuffer for the header of the image: once  *)
(* byte 0 of the image is acknowledged it is at position 0.                  *)
PayloadAtBufferStart ==
    \A p \in Peers : connection.remote = Endpoint(p) /\ 0 < Accepted(p) =>
        0 \in DOMAIN receiveBuffer /\ receiveBuffer[0] = Byte(Endpoint(p), NumberOf(p, 0))
-----------------------------------------------------------------------------
(* The download as its contract sees it: TimedClose and Finished are both a  *)
(* completed download, Closed after a remote was accepted a failed one.      *)
DeliveredBytes ==
    {n \in 0 .. StreamLength - 1 :
        \E p \in Peers : connection.remote = Endpoint(p) /\ n < Accepted(p) /\ Stored(p, n)}

Outcome ==
    CASE connection.status \in {"TimedClose", "Finished"} -> "complete"
      [] connection.status = "Closed" -> "failed"
      [] OTHER -> "pending"

Contract == INSTANCE StreamDelivery WITH
    Sources <- Endpoints, NoSource <- NoRemote, Length <- StreamLength,
    source <- connection.remote, delivered <- DeliveredBytes, outcome <- Outcome

(* The connection implements the stream contract: every step of segments,    *)
(* timers and frames is a step of StreamDelivery or none.                    *)
StreamContract == Contract!StreamSpec
=============================================================================
