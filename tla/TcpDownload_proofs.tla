------------------------- MODULE TcpDownload_proofs -------------------------
(***************************************************************************)
(* Proofs about TcpDownload, for every set of hosts, every image length,   *)
(* every segment size, every number of retries and every behaviour of the  *)
(* network and of createFrame: first its type correctness, then what it    *)
(* stores, as long as no upload crosses the end of the sequence space and  *)
(* options are padded in front of their End.                               *)
(***************************************************************************)
EXTENDS TcpDownload, TLAPS

(* A sequence number taken modulo the sequence space is a sequence number,  *)
(* and one that is within it already stays as it is.                        *)
LEMMA WrapType == \A n \in Int : Wrap(n) \in Numbers
  BY SequenceSpaceAssumption DEF Wrap, Numbers

LEMMA WrapSmall == \A n \in Int : 0 <= n /\ n < SequenceSpace => Wrap(n) = n
  BY SequenceSpaceAssumption DEF Wrap

LEMMA EndpointFacts ==
    /\ \A p, q \in Peers : Endpoint(p) = Endpoint(q) => p = q
    /\ \A p \in Peers : Endpoint(p) # NoRemote /\ Endpoint(p) # Local
    /\ NoRemote # Local
  BY PeersAssumption DEF Endpoint, NoRemote, Local

(* Whatever reaches the board was sent by a host from its upload port.      *)
LEMMA ToBoardOnly ==
    ASSUME NEW s \in ToBoard \cup FromBoard, s.destination.host = LocalHost
    PROVE  s \in ToBoard
  BY PeersAssumption DEF FromBoard, ToBoard, Between, Endpoints, Endpoint, NoRemote

-----------------------------------------------------------------------------
(* The operators of the connection keep its type.                           *)
LEMMA OutgoingType ==
    ASSUME NEW c \in Connections
    PROVE  Outgoing(c) \in FromBoard
  <1> DEFINE acknowledged == IF Acknowledging(c) THEN Wrap(c.localAcknowledgment) ELSE 0
             trailing == IF Handshaking(c) THEN 2 ELSE 0
  <1>1. 0 \in Numbers
    BY SequenceSpaceAssumption DEF Numbers
  <1>2. Wrap(c.localSequenceNumber) \in Numbers /\ acknowledged \in Numbers /\ trailing \in Nat
    BY <1>1, WrapType DEF Connections, Numbers
  <1>3. Acknowledging(c) \in BOOLEAN /\ Handshaking(c) \in BOOLEAN /\ FinDue(c) \in BOOLEAN
    BY DEF Acknowledging, Handshaking, FinDue
  <1>4. PlainSegment(Local, c.remote) \in FromBoard
    BY <1>1 DEF PlainSegment, FromBoard, Between, Connections
  <1>5. \A n, m \in Numbers, a, h, f \in BOOLEAN, k \in Nat :
          [PlainSegment(Local, c.remote) EXCEPT
              !.sequenceNumber = n, !.acknowledgment = a, !.acknowledgmentNumber = m,
              !.synchronize = h, !.trailing = k, !.finish = f] \in FromBoard
    BY <1>4 DEF FromBoard, Between
  <1> QED
    BY <1>2, <1>3, <1>5, Zenon DEF Outgoing

LEMMA ArmedType ==
    ASSUME NEW c \in Connections, NEW frame \in BOOLEAN
    PROVE  /\ Armed(c, frame) \in Connections
           /\ Sends(c, frame) \subseteq FromBoard
  <1>1. Armed(c, frame) \in Connections
    BY RetryPeriodAssumption DEF Armed, Connections
  <1>2. Sends(c, frame) \subseteq FromBoard
    BY OutgoingType DEF Sends
  <1> QED
    BY <1>1, <1>2

LEMMA AfterCloseType ==
    ASSUME NEW c \in Connections, NEW frame \in BOOLEAN
    PROVE  /\ AfterClose(c, frame) \in Connections
           /\ CloseSends(c, frame) \subseteq FromBoard
  <1>1. [c EXCEPT !.status = "Closed"] \in Connections /\ [c EXCEPT !.status = "FinSent"] \in Connections
    BY DEF Connections, Status
  <1>2. AfterClose(c, frame) \in Connections
    BY <1>1, ArmedType DEF AfterClose
  <1>3. CloseSends(c, frame) \subseteq FromBoard
    BY <1>1, ArmedType DEF CloseSends
  <1> QED
    BY <1>2, <1>3

LEMMA ConcludeType ==
    ASSUME NEW c \in Connections, NEW s, NEW answers \in BOOLEAN,
           NEW frame \in BOOLEAN, NEW closeFrame \in BOOLEAN,
           Conclude(s, c, answers, frame, closeFrame), network \subseteq ToBoard \cup FromBoard
    PROVE  connection' \in Connections /\ network' \subseteq ToBoard \cup FromBoard
  <1> DEFINE answered == IF answers THEN Armed(c, frame) ELSE c
  <1>1. answered \in Connections
    BY ArmedType
  <1>2. AfterClose(answered, closeFrame) \in Connections
    BY <1>1, AfterCloseType
  <1>3. connection' \in Connections
    BY <1>1, <1>2 DEF Conclude
  <1>4. network' \subseteq ToBoard \cup FromBoard
    BY ArmedType, AfterCloseType DEF Conclude
  <1> QED
    BY <1>3, <1>4

LEMMA AfterSynType ==
    ASSUME NEW c \in Connections, NEW s \in ToBoard,
           ~Ignored(c, s), ~s.reset, s.synchronize
    PROVE  [AfterSyn(c, s) EXCEPT !.localAcknowledgment = Wrap(s.sequenceNumber + 1)] \in Connections
  <1>1. c.status \in {"Listen", "SynSent", "SynReceived"}
    BY DEF Ignored
  <1>2. s.source \in Endpoints /\ s.sequenceNumber \in Numbers /\ s.acknowledgment \in BOOLEAN
    BY DEF ToBoard, Between
  <1>3. Wrap(s.sequenceNumber + 1) \in Numbers
    BY <1>2, WrapType DEF Numbers
  <1>4. CASE c.status = "Listen"
    <2>1. "SynReceived" \in Status /\ 0 \in Nat
      BY DEF Status
    <2> QED
      BY <1>2, <1>3, <1>4, <2>1 DEF AfterSyn, Connections
  <1>5. CASE c.status = "SynSent"
    <2>1. /\ "SynReceived" \in Status /\ "Established" \in Status
          /\ c.localSequenceNumber + 1 \in Nat
      BY DEF Status, Connections
    <2> QED
      BY <1>2, <1>3, <1>5, <2>1 DEF AfterSyn, Establish, Connections
  <1>6. CASE c.status = "SynReceived"
    BY <1>3, <1>6 DEF AfterSyn, Connections
  <1> QED
    BY <1>1, <1>4, <1>5, <1>6

LEMMA AfterSegmentType ==
    ASSUME NEW c \in Connections, NEW s \in ToBoard
    PROVE  /\ AfterAcknowledgment(c, s) \in Connections
           /\ AfterFinish(c, s) \in Connections
           /\ AfterPayload(c, s) \in Connections
  <1>1. /\ s.sequenceNumber \in Numbers /\ s.acknowledgmentNumber \in Numbers
        /\ s.length \in Nat /\ s.finish \in BOOLEAN
    BY DEF ToBoard, Between
  <1>2. EndOf(s) \in Numbers
    BY <1>1, WrapType DEF EndOf, Numbers
  <1>3. /\ c.localSequenceNumber + 1 \in Nat /\ RetryPeriod \in 0 .. RetryPeriod
        /\ \A status \in {"Established", "TimedClose", "WaitingForRemoteToFinish"} : status \in Status
    BY RetryPeriodAssumption DEF Connections, Status
  <1>4. Establish(c, s) \in Connections
    BY <1>1, <1>3 DEF Establish, Connections
  <1>5. FinAcknowledged(c) \in Connections
    BY <1>3 DEF FinAcknowledged, StartTimedClose, Connections
  <1>6. AfterAcknowledgment(c, s) \in Connections
    <2> DEFINE moved == CASE c.status = "SynReceived" -> Establish(c, s)
                          [] AcknowledgesFin(c, s) -> FinAcknowledged(c)
                          [] OTHER -> c
    <2>1. moved \in Connections
      BY <1>4, <1>5
    <2>2. \A n \in Numbers : [moved EXCEPT !.remoteAcknowledgment = n] \in Connections
      BY <2>1 DEF Connections
    <2>3. (IF s.acknowledgmentNumber > moved.remoteAcknowledgment THEN s.acknowledgmentNumber
             ELSE moved.remoteAcknowledgment) \in Numbers
      BY <1>1, <2>1 DEF Connections
    <2>4. AfterAcknowledgment(c, s) =
            [moved EXCEPT !.remoteAcknowledgment =
                IF s.acknowledgmentNumber > moved.remoteAcknowledgment THEN s.acknowledgmentNumber
                ELSE moved.remoteAcknowledgment]
      BY DEF AfterAcknowledgment
    <2> QED
      BY <2>2, <2>3, <2>4
  <1>7. AfterFinish(c, s) \in Connections
    BY <1>3 DEF AfterFinish, StartTimedClose, Connections
  <1>8. AfterPayload(c, s) \in Connections
    BY <1>2 DEF AfterPayload, Connections
  <1> QED
    BY <1>6, <1>7, <1>8

LEMMA AfterStoreType ==
    ASSUME NEW c \in Connections, NEW s \in ToBoard,
           receiveBuffer \in [DOMAIN receiveBuffer -> Bytes], DOMAIN receiveBuffer \subseteq Int
    PROVE  /\ AfterStore(c, s) \in [DOMAIN AfterStore(c, s) -> Bytes]
           /\ DOMAIN AfterStore(c, s) \subseteq Int
  <1>1. /\ s.sequenceNumber \in Int /\ s.length \in Nat /\ s.trailing \in Nat
        /\ s.source \in Endpoints /\ c.remoteInitialSequenceNumber \in Int
    BY DEF ToBoard, Between, Numbers, Connections
  <1> DEFINE first == s.sequenceNumber - c.remoteInitialSequenceNumber
             cells == first .. first + s.length - 1
  <1>2. cells \subseteq Int /\ DOMAIN Copied(c, s) = cells
    BY <1>1 DEF Copied
  <1>3. Filler \in Bytes
    BY SequenceSpaceAssumption DEF Filler, Byte, Bytes, Numbers
  <1>4. \A at \in cells : Byte(s.source, Wrap(s.sequenceNumber + at - first - s.trailing)) \in Bytes
    BY <1>1, WrapType DEF Byte, Bytes
  <1>5. Copied(c, s) \in [cells -> Bytes]
    BY <1>3, <1>4 DEF Copied
  <1>6. Overwritten(receiveBuffer, Copied(c, s)) \in [cells \cup DOMAIN receiveBuffer -> Bytes]
    BY <1>2, <1>5 DEF Overwritten
  <1> QED
    BY <1>2, <1>6 DEF AfterStore
-----------------------------------------------------------------------------
(* The hosts keep to the types.                                             *)
LEMMA NumberOfType == \A p \in Peers, n \in Nat : NumberOf(p, n) \in Numbers
  BY IsnAssumption, SequenceSpaceAssumption, WrapType DEF NumberOf

LEMMA PeerSegmentType ==
    ASSUME TypeOK, NEW p \in Peers, NEW number \in Numbers
    PROVE  /\ PeerSegment(p, number) \in ToBoard
           /\ \A n \in Numbers :
                [PeerSegment(p, number) EXCEPT !.acknowledgmentNumber = n] \in ToBoard
           /\ [PeerSegment(p, number) EXCEPT !.reset = TRUE] \in ToBoard
           /\ \A length \in Nat, finish \in BOOLEAN, trailing \in Nat :
                [PeerSegment(p, number) EXCEPT
                    !.length = length, !.finish = finish, !.trailing = trailing] \in ToBoard
  <1>1. 0 \in Numbers /\ peer[p].remoteNext \in Numbers
    BY SequenceSpaceAssumption DEF TypeOK, Uploads, Numbers
  <1>2. PeerSegment(p, number) \in ToBoard
    BY <1>1 DEF PeerSegment, PlainSegment, ToBoard, Between, Endpoints, Local
  <1> QED
    BY <1>2 DEF ToBoard, Between

LEMMA SequencedType ==
    ASSUME TypeOK, NEW p \in Peers
    PROVE  /\ Sequenced(p) \in 0 .. StreamLength + 1
           /\ SendNext(p) \in Numbers
  <1>1. Sequenced(p) \in 0 .. StreamLength + 1
    BY StreamAssumption DEF TypeOK, Uploads, Sequenced
  <1> QED
    BY <1>1, NumberOfType DEF SendNext

LEMMA PeerStepType ==
    ASSUME TypeOK, NEW p \in Peers, PeerStep(p)
    PROVE  TypeOK'
  <1>1. SynOf(p) \in ToBoard
    <2>1. Isn[p] \in Numbers /\ 0 \in Numbers
      BY IsnAssumption, SequenceSpaceAssumption DEF Numbers
    <2> QED
      BY <2>1 DEF SynOf, PlainSegment, ToBoard, Between, Endpoints, Local
  <1>2. peer[p] \in Uploads
    BY DEF TypeOK
  <1>3. SUFFICES peer' \in [Peers -> Uploads] /\ network' \subseteq ToBoard \cup FromBoard
    BY DEF TypeOK, PeerStep, PeerConnect, PeerProbe, PeerEstablish, PeerReceive, PeerSend, PeerAbort
  <1>4. CASE PeerConnect(p)
    BY <1>1, <1>2, <1>4 DEF PeerConnect, TypeOK, Uploads
  <1>5. ASSUME NEW port \in ProbePorts, PeerProbe(p, port)
        PROVE  peer' \in [Peers -> Uploads] /\ network' \subseteq ToBoard \cup FromBoard
    <2>1. [SynOf(p) EXCEPT !.destination.port = port] \in ToBoard
      BY <1>1 DEF ToBoard, Between
    <2> QED
      BY <1>5, <2>1 DEF PeerProbe, TypeOK
  <1>6. ASSUME NEW s \in network, PeerEstablish(p, s)
        PROVE  peer' \in [Peers -> Uploads] /\ network' \subseteq ToBoard \cup FromBoard
    <2>1. Wrap(s.sequenceNumber + 1) \in Numbers
      BY WrapType DEF TypeOK, ToBoard, FromBoard, Between, Numbers
    <2>2. peer' \in [Peers -> Uploads]
      BY <1>2, <1>6, <2>1 DEF PeerEstablish, TypeOK, Uploads
    <2>3. peer'[p].remoteNext \in Numbers
      BY <2>2 DEF Uploads
    <2>4. network' \subseteq ToBoard \cup FromBoard
      <3>1. [PeerSegment(p, SendNext(p)) EXCEPT !.acknowledgmentNumber = peer'[p].remoteNext] \in ToBoard
        BY <2>3, SequencedType, PeerSegmentType
      <3> QED
        BY <1>6, <3>1 DEF PeerEstablish, TypeOK
    <2> QED
      BY <2>2, <2>4
  <1>7. ASSUME NEW s \in network, PeerReceive(p, s)
        PROVE  peer' \in [Peers -> Uploads] /\ network' \subseteq ToBoard \cup FromBoard
    <2>1. Wrap(peer[p].remoteNext + 1) \in Numbers
      BY <1>2, WrapType DEF Uploads, Numbers
    <2>2. AcknowledgedBy(p, s) \subseteq 0 .. StreamLength + 1
      BY <1>2, SequencedType, StreamAssumption DEF AcknowledgedBy, Uploads
    <2>3. PICK n \in 0 .. StreamLength + 1 :
            peer' = [peer EXCEPT ![p].acknowledged = n,
                                 ![p].remoteNext = IF s.finish /\ s.sequenceNumber = @
                                                   THEN Wrap(@ + 1) ELSE @]
      BY <1>2, <1>7, <2>2 DEF PeerReceive, Uploads
    <2>4. peer' \in [Peers -> Uploads]
      BY <1>2, <2>1, <2>3 DEF TypeOK, Uploads
    <2>5. peer'[p].remoteNext \in Numbers
      BY <2>4 DEF Uploads
    <2>6. network' \subseteq ToBoard \cup FromBoard
      <3>1. [PeerSegment(p, SendNext(p)) EXCEPT !.acknowledgmentNumber = peer'[p].remoteNext] \in ToBoard
        BY <2>5, SequencedType, PeerSegmentType
      <3> QED
        BY <1>7, <3>1 DEF PeerReceive, TypeOK
    <2> QED
      BY <2>4, <2>6
  <1>8. ASSUME NEW from \in 0 .. StreamLength, NEW length \in 0 .. MaxSegment,
               NEW finish \in BOOLEAN, NEW trailing \in Trailings,
               PeerSend(p, from, length, finish, trailing)
        PROVE  peer' \in [Peers -> Uploads] /\ network' \subseteq ToBoard \cup FromBoard
    <2>1. /\ from + length \in 0 .. StreamLength /\ trailing \in Nat
          /\ length \in Nat /\ NumberOf(p, from) \in Numbers
      BY <1>8, StreamAssumption, TrailingsAssumption, NumberOfType DEF PeerSend
    <2>2. (peer[p].finSent \/ finish) \in BOOLEAN
      OBVIOUS
    <2>3. \A n \in 0 .. StreamLength, f \in BOOLEAN :
            [peer EXCEPT ![p].sent = n, ![p].finSent = f] \in [Peers -> Uploads]
      BY <1>2 DEF TypeOK, Uploads
    <2>4. (IF from + length > peer[p].sent THEN from + length ELSE peer[p].sent) \in 0 .. StreamLength
      BY <1>2, <2>1 DEF Uploads
    <2>5. peer' \in [Peers -> Uploads]
      BY <1>8, <2>2, <2>3, <2>4, Zenon DEF PeerSend
    <2>6. network' \subseteq ToBoard \cup FromBoard
      <3>1. [PeerSegment(p, NumberOf(p, from)) EXCEPT
                !.length = length, !.finish = finish, !.trailing = trailing] \in ToBoard
        BY <2>1, PeerSegmentType
      <3> QED
        BY <1>8, <3>1 DEF PeerSend, TypeOK
    <2> QED
      BY <2>5, <2>6
  <1>9. CASE PeerAbort(p)
    <2>1. [PeerSegment(p, SendNext(p)) EXCEPT !.reset = TRUE] \in ToBoard
      BY SequencedType, PeerSegmentType
    <2>2. network' \subseteq ToBoard \cup FromBoard
      BY <1>9, <2>1 DEF PeerAbort, TypeOK
    <2>3. peer' \in [Peers -> Uploads]
      BY <1>2, <1>9 DEF PeerAbort, TypeOK, Uploads
    <2> QED
      BY <2>2, <2>3
  <1> QED
    BY <1>4, <1>5, <1>6, <1>7, <1>8, <1>9 DEF PeerStep

(* The board keeps to the types.                                            *)
LEMMA ReceivedType ==
    ASSUME TypeOK, NEW s \in network, s.destination = Local,
           NEW frame \in BOOLEAN, NEW closeFrame \in BOOLEAN, Received(s, frame, closeFrame)
    PROVE  /\ connection' \in Connections
           /\ receiveBuffer' \in [DOMAIN receiveBuffer' -> Bytes]
           /\ DOMAIN receiveBuffer' \subseteq Int
           /\ network' \subseteq ToBoard \cup FromBoard
  <1> USE DEF TypeOK
  <1>1. s \in ToBoard
    BY ToBoardOnly DEF Local
  <1>2. s.finish \in BOOLEAN /\ s.length \in Nat
    BY <1>1 DEF ToBoard, Between
  <1>3. CASE ReceiveIgnored(s, frame, closeFrame)
    BY <1>3, ConcludeType DEF ReceiveIgnored
  <1>4. CASE ReceiveReset(s, frame, closeFrame)
    <2>1. [connection EXCEPT !.status = "Closed"] \in Connections
      BY DEF Connections, Status
    <2> QED
      BY <1>4, <2>1, ConcludeType DEF ReceiveReset
  <1>5. CASE ReceiveSyn(s, frame, closeFrame)
    <2> DEFINE c == [AfterSyn(connection, s)
                        EXCEPT !.localAcknowledgment = Wrap(s.sequenceNumber + 1)]
    <2>1. c \in Connections
      BY <1>1, <1>5, AfterSynType DEF ReceiveSyn
    <2>2. Conclude(s, c, TRUE, frame, closeFrame) /\ receiveBuffer' = receiveBuffer
      BY <1>5 DEF ReceiveSyn
    <2> HIDE DEF c
    <2> QED
      BY <2>1, <2>2, ConcludeType
  <1>6. CASE ReceiveStaleFinish(s, frame, closeFrame)
    BY <1>1, <1>6, AfterSegmentType, ConcludeType DEF ReceiveStaleFinish
  <1>7. CASE ReceiveSegment(s, frame, closeFrame)
    <2> DEFINE c == AfterFinish(AfterAcknowledgment(connection, s), s)
    <2>1. c \in Connections /\ AfterPayload(c, s) \in Connections
      BY <1>1, AfterSegmentType
    <2>2. (s.finish \/ s.length > 0) \in BOOLEAN
      OBVIOUS
    <2>3. Conclude(s, AfterPayload(c, s), s.finish \/ s.length > 0, frame, closeFrame)
      BY <1>7 DEF ReceiveSegment
    <2>4. receiveBuffer' = AfterStore(c, s)
      BY <1>7 DEF ReceiveSegment
    <2> HIDE DEF c
    <2>5. connection' \in Connections /\ network' \subseteq ToBoard \cup FromBoard
      BY <2>1, <2>2, <2>3, ConcludeType
    <2> QED
      BY <1>1, <2>1, <2>4, <2>5, AfterStoreType
  <1> QED
    BY <1>3, <1>4, <1>5, <1>6, <1>7 DEF Received

LEMMA PollType ==
    ASSUME TypeOK, NEW frame \in BOOLEAN, Poll(frame)
    PROVE  connection' \in Connections /\ network' \subseteq ToBoard \cup FromBoard
  <1>1. Counted(connection) \in Connections
    <2>1. (connection.retryCounter + 1) % CounterSpace \in 0 .. CounterSpace - 1
      BY DEF TypeOK, Connections, CounterSpace
    <2> QED
      BY <2>1 DEF TypeOK, Connections, Counted
  <1>2. CASE PollFinish
    BY <1>2 DEF PollFinish, TypeOK, Connections, Status
  <1>3. CASE PollGiveUp
    BY <1>1, <1>3 DEF PollGiveUp, TypeOK, Connections, Status
  <1>4. CASE PollRetry(frame)
    BY <1>1, <1>4, ArmedType DEF PollRetry, Transmit, TypeOK
  <1> QED
    BY <1>2, <1>3, <1>4 DEF Poll

LEMMA TypeInductive ==
    ASSUME TypeOK, [Next]_vars
    PROVE  TypeOK'
  <1>1. ASSUME NEW p \in Peers, PeerStep(p)
        PROVE  TypeOK'
    BY <1>1, PeerStepType
  <1>2. ASSUME NEW s \in network, BoardReceive(s)
        PROVE  TypeOK'
    BY <1>2, ReceivedType, FrameResultsAssumption DEF BoardReceive, TypeOK
  <1>3. ASSUME NEW s \in network, BoardRefuse(s)
        PROVE  TypeOK'
    <2>1. s \in ToBoard
      BY <1>3, ToBoardOnly DEF BoardRefuse, Refuse, TypeOK
    <2>2. 0 \in Numbers
      BY SequenceSpaceAssumption DEF Numbers
    <2>3. s.source \in Endpoints /\ s.destination.port \in ProbePorts
      BY <1>3, <2>1 DEF BoardRefuse, Refuse, ToBoard, Between, Local
    <2>4. s.source.host \in Peers
      BY <2>3 DEF Endpoints, Endpoint
    <2>5. Refusal(s) \in FromBoard
      BY <2>2, <2>3, <2>4 DEF Refusal, PlainSegment, FromBoard, Between
    <2> QED
      BY <1>3, <2>5 DEF BoardRefuse, Refuse, TypeOK
  <1>4. CASE BoardPoll
    <2>1. receiveBuffer' = receiveBuffer /\ peer' = peer
      BY <1>4 DEF BoardPoll, Poll, PollFinish, PollGiveUp, PollRetry
    <2> QED
      BY <1>4, <2>1, PollType, FrameResultsAssumption DEF BoardPoll, TypeOK
  <1>5. CASE ClockTick
    BY <1>5, RetryPeriodAssumption DEF ClockTick, Tick, TypeOK, Connections
  <1>6. CASE UNCHANGED vars
    BY <1>6 DEF vars, TypeOK
  <1> QED
    BY <1>1, <1>2, <1>3, <1>4, <1>5, <1>6 DEF Next

LEMMA TypeInitial ==
    ASSUME Init
    PROVE  TypeOK
  <1>1. 0 \in Numbers
    BY SequenceSpaceAssumption DEF Numbers
  <1>2. connection \in Connections
    <2>1. InitialConnection \in Connections
      BY <1>1, RetryPeriodAssumption DEF InitialConnection, Connections, Status, CounterSpace
    <2> QED
      BY <2>1 DEF Init, Connections, Status
  <1>3. DOMAIN receiveBuffer = {} /\ receiveBuffer \in [{} -> Bytes]
    BY DEF Init
  <1>4. peer \in [Peers -> Uploads]
    BY <1>1, StreamAssumption DEF Init, InitialPeer, Uploads
  <1> QED
    BY <1>2, <1>3, <1>4 DEF TypeOK, Init

(* Type correctness of the whole download: every variable keeps its shape,  *)
(* and no segment but a host's own ever reaches received().                 *)
THEOREM TypeCorrect == Spec => []TypeOK
  BY TypeInitial, TypeInductive, PTL DEF Spec

-----------------------------------------------------------------------------
(* What the download stores.                                               *)

(* A segment to the board is a SYN without payload, or carries numbers of    *)
(* the stream, with the FIN behind the last byte.                            *)
WellFormed(s) ==
    \A p \in Peers : s.source = Endpoint(p) =>
        /\ s.trailing = 0
        /\ s.synchronize => s.sequenceNumber = Isn[p]
        /\ ~s.synchronize =>
              /\ s.sequenceNumber >= Isn[p] + 1
              /\ s.sequenceNumber + s.length + (IF s.finish THEN 1 ELSE 0) <= Isn[p] + StreamLength + 2
        /\ s.finish => s.sequenceNumber + s.length = Isn[p] + 1 + StreamLength

WellFormedNetwork == \A s \in network : s.destination = Local => WellFormed(s)

Unbound == {"Listen", "SynSent", "SynReceived"}

(* What connection c and a buffer have to do with each other: before the    *)
(* handshake ends there is nothing but the number of the SYN, then every    *)
(* acknowledged payload number has a cell and every cell has its byte.      *)
Storage(c, buffer) ==
    /\ c.status # "SynSent"
    /\ c.status = "Listen" <=> c.remote = NoRemote
    /\ c.status \in Unbound => DOMAIN buffer = {} /\ ~c.remoteFinished
    /\ \A p \in Peers : c.remote = Endpoint(p) =>
          /\ c.localAcknowledgment \in Isn[p] + 1 .. Isn[p] + StreamLength + 2
          /\ c.status = "SynReceived" => c.localAcknowledgment = Isn[p] + 1
          /\ \A number \in Isn[p] + 1 .. Isn[p] + StreamLength :
                number < c.localAcknowledgment =>
                    number - c.remoteInitialSequenceNumber \in DOMAIN buffer
    /\ \A at \in DOMAIN buffer :
          /\ buffer[at].of = c.remote
          /\ buffer[at].number = at + c.remoteInitialSequenceNumber

StorageInv == TypeOK /\ WellFormedNetwork /\ Storage(connection, receiveBuffer)
-----------------------------------------------------------------------------
(* Without overflow the numbers of an image are consecutive.                *)
LEMMA NumberOfStream ==
    ASSUME NoOverflow, NEW p \in Peers, NEW n \in 0 .. StreamLength + 1
    PROVE  NumberOf(p, n) = Isn[p] + 1 + n
  <1>1. Isn[p] \in Nat /\ Isn[p] + StreamLength + 2 < SequenceSpace
    BY IsnAssumption, SequenceSpaceAssumption DEF NoOverflow, Fits
  <1>2. Isn[p] + 1 + n \in Int /\ 0 <= Isn[p] + 1 + n /\ Isn[p] + 1 + n < SequenceSpace
    BY <1>1, StreamAssumption, SequenceSpaceAssumption
  <1> QED
    BY <1>2, WrapSmall DEF NumberOf

(* The board never sends to itself.                                         *)
LEMMA FromBoardElsewhere == \A s \in FromBoard : s.destination # Local
  BY EndpointFacts DEF FromBoard, Between, Endpoints

(* Storage depends on no more than what the lemma names.                    *)
LEMMA StorageKept ==
    ASSUME NEW c \in Connections, NEW d \in Connections, NEW buffer, Storage(c, buffer),
           d.remote = c.remote, d.localAcknowledgment = c.localAcknowledgment,
           d.remoteInitialSequenceNumber = c.remoteInitialSequenceNumber,
           \/ d.status = c.status /\ d.remoteFinished = c.remoteFinished
           \/ d.status \notin Unbound /\ c.status # "Listen"
    PROVE  Storage(d, buffer)
  BY DEF Storage, Unbound

LEMMA ArmedKeeps ==
    ASSUME NEW c \in Connections, NEW frame \in BOOLEAN
    PROVE  /\ Armed(c, frame).remote = c.remote
           /\ Armed(c, frame).status = c.status
           /\ Armed(c, frame).remoteFinished = c.remoteFinished
           /\ Armed(c, frame).localAcknowledgment = c.localAcknowledgment
           /\ Armed(c, frame).remoteInitialSequenceNumber = c.remoteInitialSequenceNumber
  BY DEF Armed, Connections

LEMMA AfterCloseKeeps ==
    ASSUME NEW c \in Connections, NEW frame \in BOOLEAN, c.status \notin Unbound
    PROVE  /\ AfterClose(c, frame).remote = c.remote
           /\ AfterClose(c, frame).status \notin Unbound
           /\ AfterClose(c, frame).remoteFinished = c.remoteFinished
           /\ AfterClose(c, frame).localAcknowledgment = c.localAcknowledgment
           /\ AfterClose(c, frame).remoteInitialSequenceNumber = c.remoteInitialSequenceNumber
  <1>1. [c EXCEPT !.status = "FinSent"] \in Connections
    BY DEF Connections, Status
  <1>2. CASE c.status \in ClosesAtOnce
    BY <1>2 DEF AfterClose, Connections, Unbound
  <1>3. CASE c.status \notin ClosesAtOnce /\ c.status \in ClosesWithFin
    <2> DEFINE d == [c EXCEPT !.status = "FinSent"]
    <2>1. AfterClose(c, frame) = Armed(d, frame)
      BY <1>3 DEF AfterClose
    <2>2. /\ d.remote = c.remote /\ d.status = "FinSent" /\ d.remoteFinished = c.remoteFinished
          /\ d.localAcknowledgment = c.localAcknowledgment
          /\ d.remoteInitialSequenceNumber = c.remoteInitialSequenceNumber
      BY DEF Connections
    <2>3. d \in Connections
      BY <1>1
    <2> HIDE DEF d
    <2> QED
      BY <2>1, <2>2, <2>3, ArmedKeeps DEF Unbound
  <1>4. CASE c.status \notin ClosesAtOnce /\ c.status \notin ClosesWithFin
    BY <1>4 DEF AfterClose
  <1> QED
    BY <1>2, <1>3, <1>4

(* The end of every received segment keeps the storage, and what it sends   *)
(* goes elsewhere.                                                          *)
LEMMA ConcludeKeeps ==
    ASSUME NEW c \in Connections, NEW s, NEW answers \in BOOLEAN,
           NEW frame \in BOOLEAN, NEW closeFrame \in BOOLEAN, NEW buffer,
           Conclude(s, c, answers, frame, closeFrame), Storage(c, buffer)
    PROVE  /\ Storage(connection', buffer)
           /\ connection'.remote = c.remote
           /\ connection'.localAcknowledgment = c.localAcknowledgment
           /\ connection'.remoteInitialSequenceNumber = c.remoteInitialSequenceNumber
           /\ network' \subseteq network \cup FromBoard
  <1> DEFINE answered == IF answers THEN Armed(c, frame) ELSE c
  <1>1. /\ answered \in Connections
        /\ answered.remote = c.remote /\ answered.status = c.status
        /\ answered.remoteFinished = c.remoteFinished
        /\ answered.localAcknowledgment = c.localAcknowledgment
        /\ answered.remoteInitialSequenceNumber = c.remoteInitialSequenceNumber
    BY ArmedKeeps, ArmedType
  <1>2. connection' = IF c.remoteFinished THEN AfterClose(answered, closeFrame) ELSE answered
    BY DEF Conclude
  <1>3. network' \subseteq network \cup FromBoard
    BY ArmedType, AfterCloseType DEF Conclude
  <1> HIDE DEF answered
  <1>4. CASE ~c.remoteFinished
    BY <1>1, <1>2, <1>3, <1>4, StorageKept
  <1>5. CASE c.remoteFinished
    <2>1. c.status \notin Unbound
      BY <1>5 DEF Storage
    <2>2. connection' \in Connections
      BY <1>1, <1>2, AfterCloseType, <1>5
    <2>3. /\ connection'.remote = c.remote
          /\ connection'.localAcknowledgment = c.localAcknowledgment
          /\ connection'.remoteInitialSequenceNumber = c.remoteInitialSequenceNumber
          /\ connection'.status \notin Unbound
      BY <1>1, <1>2, <1>5, <2>1, AfterCloseKeeps
    <2>4. Storage(connection', buffer)
      BY <2>1, <2>2, <2>3, StorageKept DEF Unbound
    <2> QED
      BY <1>3, <2>3, <2>4
  <1> QED
    BY <1>4, <1>5, <1>3
-----------------------------------------------------------------------------
(* received(), way by way.                                                  *)
LEMMA SynKeeps ==
    ASSUME NoOverflow, NEW c \in Connections, NEW s \in ToBoard, NEW buffer,
           Storage(c, buffer), WellFormed(s), ~Ignored(c, s), ~s.reset, s.synchronize
    PROVE  LET opened == [AfterSyn(c, s) EXCEPT !.localAcknowledgment = Wrap(s.sequenceNumber + 1)]
           IN  /\ Storage(opened, buffer)
               /\ opened.status = "SynReceived"
               /\ c.remote # NoRemote =>
                     /\ opened.remote = c.remote
                     /\ opened.localAcknowledgment = c.localAcknowledgment
                     /\ opened.remoteInitialSequenceNumber = c.remoteInitialSequenceNumber
  <1> DEFINE opened == [AfterSyn(c, s) EXCEPT !.localAcknowledgment = Wrap(s.sequenceNumber + 1)]
  <1>1. PICK p \in Peers : s.source = Endpoint(p)
    BY DEF ToBoard, Between, Endpoints
  <1>2. Wrap(s.sequenceNumber + 1) = Isn[p] + 1
    <2>1. s.sequenceNumber = Isn[p]
      BY <1>1 DEF WellFormed
    <2>2. Isn[p] \in Nat /\ Isn[p] + 1 < SequenceSpace
      BY IsnAssumption, SequenceSpaceAssumption, StreamAssumption DEF NoOverflow, Fits
    <2> QED
      BY <2>1, <2>2, WrapSmall
  <1>3. c.status \in {"Listen", "SynReceived"}
    BY DEF Ignored, Storage
  <1>4. opened.status = "SynReceived" /\ opened.remote = s.source
        /\ opened.localAcknowledgment = Isn[p] + 1
        /\ opened.remoteInitialSequenceNumber = c.remoteInitialSequenceNumber
        /\ opened.remoteFinished = c.remoteFinished
    <2>1. CASE c.status = "Listen"
      BY <1>2, <2>1 DEF AfterSyn, Connections
    <2>2. CASE c.status = "SynReceived"
      <3>1. c.remote = s.source
        BY <2>2 DEF Ignored, Foreign
      <3> QED
        BY <1>2, <2>2, <3>1 DEF AfterSyn, Connections
    <2> QED
      BY <1>3, <2>1, <2>2
  <1>5. DOMAIN buffer = {} /\ ~c.remoteFinished
    BY <1>3 DEF Storage, Unbound
  <1> HIDE DEF opened
  <1>6. Storage(opened, buffer)
    <2>1. opened.remote = Endpoint(p) /\ opened.remote # NoRemote
      BY <1>1, <1>4, EndpointFacts
    <2>2. \A q \in Peers : opened.remote = Endpoint(q) => q = p
      BY <2>1, EndpointFacts
    <2>3. Isn[p] \in Int /\ StreamLength \in Nat
      BY IsnAssumption, SequenceSpaceAssumption, StreamAssumption
    <2> QED
      BY <1>4, <1>5, <2>1, <2>2, <2>3 DEF Storage
  <1>7. ASSUME c.remote # NoRemote
        PROVE  /\ opened.remote = c.remote
               /\ opened.localAcknowledgment = c.localAcknowledgment
               /\ opened.remoteInitialSequenceNumber = c.remoteInitialSequenceNumber
    <2>1. c.status = "SynReceived"
      BY <1>3, <1>7 DEF Storage
    <2>2. c.remote = s.source
      BY <2>1 DEF Ignored, Foreign
    <2>3. c.localAcknowledgment = Isn[p] + 1
      BY <1>1, <2>1, <2>2 DEF Storage
    <2> QED
      BY <1>4, <2>2, <2>3
  <1> QED
    BY <1>4, <1>6, <1>7 DEF opened

LEMMA AcknowledgmentKeeps ==
    ASSUME NEW c \in Connections, NEW s \in ToBoard, NEW buffer,
           Storage(c, buffer), Carries(c, s)
    PROVE  LET d == AfterAcknowledgment(c, s)
           IN  /\ Storage(d, buffer)
               /\ d.status \notin Unbound
               /\ s.source = c.remote /\ d.remote = c.remote
               /\ d.localAcknowledgment = c.localAcknowledgment
               /\ c.status # "SynReceived" =>
                     d.remoteInitialSequenceNumber = c.remoteInitialSequenceNumber
  <1> DEFINE d == AfterAcknowledgment(c, s)
             moved == CASE c.status = "SynReceived" -> Establish(c, s)
                        [] AcknowledgesFin(c, s) -> FinAcknowledged(c)
                        [] OTHER -> c
  <1>1. c.status \notin {"Closed", "Listen", "SynSent"} /\ s.source = c.remote
    BY DEF Carries, Ignored, Foreign
  <1>2. d \in Connections
    BY AfterSegmentType
  <1>3. /\ moved.remote = c.remote
        /\ moved.localAcknowledgment = c.localAcknowledgment
        /\ moved.status \notin Unbound
        /\ c.status # "SynReceived" => moved.remoteInitialSequenceNumber = c.remoteInitialSequenceNumber
        /\ moved \in Connections
    <2>1. CASE c.status = "SynReceived"
      <3>1. /\ c.localSequenceNumber + 1 \in Nat /\ s.sequenceNumber \in Numbers
            /\ "Established" \in Status
        BY DEF Connections, ToBoard, Between, Status
      <3>2. moved = Establish(c, s)
        BY <2>1 DEF AcknowledgesFin
      <3> HIDE DEF moved
      <3> QED
        BY <2>1, <3>1, <3>2 DEF Establish, Connections, Unbound
    <2>2. CASE c.status # "SynReceived" /\ AcknowledgesFin(c, s)
      <3>1. /\ c.localSequenceNumber + 1 \in Nat /\ RetryPeriod \in 0 .. RetryPeriod
            /\ "TimedClose" \in Status /\ "WaitingForRemoteToFinish" \in Status
        BY RetryPeriodAssumption DEF Connections, Status
      <3> QED
        BY <2>2, <3>1 DEF FinAcknowledged, StartTimedClose, Connections, Unbound
    <2>3. CASE c.status # "SynReceived" /\ ~AcknowledgesFin(c, s)
      BY <1>1, <2>3 DEF Unbound
    <2> QED
      BY <2>1, <2>2, <2>3
  <1>4. /\ d.remote = moved.remote /\ d.status = moved.status
        /\ d.localAcknowledgment = moved.localAcknowledgment
        /\ d.remoteInitialSequenceNumber = moved.remoteInitialSequenceNumber
    <2>1. d = [moved EXCEPT !.remoteAcknowledgment =
                IF s.acknowledgmentNumber > moved.remoteAcknowledgment THEN s.acknowledgmentNumber
                ELSE moved.remoteAcknowledgment]
      BY DEF AfterAcknowledgment
    <2> HIDE DEF d, moved
    <2> QED
      BY <1>3, <2>1 DEF Connections
  <1> HIDE DEF d, moved
  <1>5. Storage(d, buffer)
    <2>1. CASE c.status = "SynReceived"
      <3>1. DOMAIN buffer = {} /\ c.remote # NoRemote
        BY <2>1 DEF Storage, Unbound
      <3>2. \A p \in Peers : Isn[p] \in Int
        BY IsnAssumption, SequenceSpaceAssumption
      <3> QED
        BY <1>3, <1>4, <2>1, <3>1, <3>2, StreamAssumption DEF Storage, Unbound
    <2>2. CASE c.status # "SynReceived"
      BY <1>1, <1>2, <1>3, <1>4, <2>2, StorageKept
    <2> QED
      BY <2>1, <2>2
  <1> QED
    BY <1>1, <1>3, <1>4, <1>5 DEF d

LEMMA FinishKeeps ==
    ASSUME NEW c \in Connections, NEW s \in ToBoard, NEW buffer,
           Storage(c, buffer), c.status \notin Unbound
    PROVE  LET d == AfterFinish(c, s)
           IN  /\ Storage(d, buffer)
               /\ d.status \notin Unbound
               /\ d.remote = c.remote
               /\ d.localAcknowledgment = c.localAcknowledgment
               /\ d.remoteInitialSequenceNumber = c.remoteInitialSequenceNumber
  <1> DEFINE d == AfterFinish(c, s)
  <1>1. /\ d.remote = c.remote /\ d.localAcknowledgment = c.localAcknowledgment
        /\ d.remoteInitialSequenceNumber = c.remoteInitialSequenceNumber
        /\ d.status \notin Unbound
    <2>1. CASE ~s.finish
      BY <2>1 DEF AfterFinish
    <2>2. CASE s.finish /\ c.status = "WaitingForRemoteToFinish"
      BY <2>2 DEF AfterFinish, StartTimedClose, Connections, Unbound
    <2>3. CASE s.finish /\ c.status # "WaitingForRemoteToFinish"
      BY <2>3 DEF AfterFinish, Connections
    <2> QED
      BY <2>1, <2>2, <2>3
  <1>2. d \in Connections
    BY AfterSegmentType
  <1> HIDE DEF d
  <1>3. Storage(d, buffer)
    BY <1>1, <1>2, StorageKept DEF Unbound
  <1> QED
    BY <1>1, <1>3 DEF d

(* A cell of the buffer and a byte of the stream with the same number are   *)
(* the same byte.                                                           *)
LEMMA CopiedInPlace ==
    ASSUME NoOverflow, NEW c \in Connections, NEW s \in ToBoard, WellFormed(s), ~s.synchronize,
           s.source = c.remote
    PROVE  LET first == s.sequenceNumber - c.remoteInitialSequenceNumber
           IN  /\ DOMAIN Copied(c, s) = first .. first + s.length - 1
               /\ \A at \in DOMAIN Copied(c, s) :
                     Copied(c, s)[at] = Byte(c.remote, at + c.remoteInitialSequenceNumber)
  <1> DEFINE first == s.sequenceNumber - c.remoteInitialSequenceNumber
             cells == first .. first + s.length - 1
  <1>1. PICK p \in Peers : s.source = Endpoint(p)
    BY DEF ToBoard, Between, Endpoints
  <1>2. /\ s.sequenceNumber \in Nat /\ s.length \in Nat /\ s.trailing = 0
        /\ c.remoteInitialSequenceNumber \in Nat
        /\ s.sequenceNumber + s.length <= Isn[p] + StreamLength + 2
        /\ Isn[p] + StreamLength + 2 < SequenceSpace
        /\ Isn[p] \in Nat /\ StreamLength \in Nat /\ SequenceSpace \in Nat
    <2>1. /\ s.sequenceNumber \in Nat /\ s.length \in Nat /\ s.trailing = 0
          /\ c.remoteInitialSequenceNumber \in Nat
      BY <1>1, SequenceSpaceAssumption DEF WellFormed, ToBoard, Between, Numbers, Connections
    <2>2. /\ Isn[p] + StreamLength + 2 < SequenceSpace
          /\ Isn[p] \in Nat /\ StreamLength \in Nat /\ SequenceSpace \in Nat
      BY IsnAssumption, SequenceSpaceAssumption, StreamAssumption DEF NoOverflow, Fits
    <2>3. s.sequenceNumber + s.length + (IF s.finish THEN 1 ELSE 0) <= Isn[p] + StreamLength + 2
      BY <1>1 DEF WellFormed
    <2> QED
      BY <2>1, <2>2, <2>3
  <1>3. Copied(c, s) = [at \in cells |->
            IF at - first < s.trailing THEN Filler
            ELSE Byte(s.source, Wrap(s.sequenceNumber + at - first - s.trailing))]
    BY DEF Copied
  <1>4. ASSUME NEW at \in cells
        PROVE  Copied(c, s)[at] = Byte(c.remote, at + c.remoteInitialSequenceNumber)
    <2>1. /\ at \in Int /\ ~(at - first < s.trailing)
          /\ s.sequenceNumber + at - first - s.trailing = at + c.remoteInitialSequenceNumber
      BY <1>2
    <2>2. /\ at + c.remoteInitialSequenceNumber \in Int
          /\ 0 <= at + c.remoteInitialSequenceNumber
          /\ at + c.remoteInitialSequenceNumber < SequenceSpace
      BY <1>2
    <2>3. Wrap(at + c.remoteInitialSequenceNumber) = at + c.remoteInitialSequenceNumber
      BY <2>2, WrapSmall
    <2> HIDE DEF first
    <2> QED
      BY <1>3, <2>1, <2>3
  <1> QED
    BY <1>3, <1>4

(* The payload: what is acknowledged is stored, what is stored is in place, *)
(* and what was stored before is still there.                               *)
LEMMA PayloadKeeps ==
    ASSUME NoOverflow, NEW c \in Connections, NEW s \in ToBoard, WellFormed(s), ~s.synchronize,
           s.source = c.remote, c.status \notin Unbound, Storage(c, receiveBuffer),
           receiveBuffer \in [DOMAIN receiveBuffer -> Bytes], DOMAIN receiveBuffer \subseteq Int
    PROVE  /\ Storage(AfterPayload(c, s), AfterStore(c, s))
           /\ AfterPayload(c, s).remote = c.remote
           /\ AfterPayload(c, s).localAcknowledgment >= c.localAcknowledgment
           /\ AfterPayload(c, s).remoteInitialSequenceNumber = c.remoteInitialSequenceNumber
           /\ \A at \in DOMAIN receiveBuffer :
                 at \in DOMAIN AfterStore(c, s) /\ AfterStore(c, s)[at] = receiveBuffer[at]
  <1> DEFINE first == s.sequenceNumber - c.remoteInitialSequenceNumber
             d == AfterPayload(c, s)
             buffer == AfterStore(c, s)
  <1>1. PICK p \in Peers : c.remote = Endpoint(p)
    BY DEF ToBoard, Between, Endpoints
  <1>2. /\ s.sequenceNumber \in Nat /\ s.length \in Nat /\ s.finish \in BOOLEAN
        /\ c.remoteInitialSequenceNumber \in Nat /\ c.localAcknowledgment \in Nat
    BY SequenceSpaceAssumption DEF ToBoard, Between, Numbers, Connections
  <1>3. /\ Isn[p] \in Nat /\ StreamLength \in Nat /\ SequenceSpace \in Nat
        /\ Isn[p] + StreamLength + 2 < SequenceSpace
    BY IsnAssumption, SequenceSpaceAssumption, StreamAssumption DEF NoOverflow, Fits
  <1>4. /\ s.sequenceNumber >= Isn[p] + 1
        /\ s.sequenceNumber + s.length + (IF s.finish THEN 1 ELSE 0) <= Isn[p] + StreamLength + 2
        /\ s.finish => s.sequenceNumber + s.length = Isn[p] + 1 + StreamLength
    BY <1>1 DEF WellFormed
  <1>5. EndOf(s) = s.sequenceNumber + s.length + (IF s.finish THEN 1 ELSE 0)
    <2> DEFINE end == s.sequenceNumber + s.length + (IF s.finish THEN 1 ELSE 0)
    <2>1. end \in Int /\ 0 <= end /\ end < SequenceSpace
      BY <1>2, <1>3, <1>4
    <2> QED
      BY <2>1, WrapSmall DEF EndOf
  <1>6. /\ d.remote = c.remote /\ d.status = c.status /\ d.remoteFinished = c.remoteFinished
        /\ d.remoteInitialSequenceNumber = c.remoteInitialSequenceNumber
        /\ d.localAcknowledgment =
              IF Advances(c, s) /\ s.sequenceNumber = c.localAcknowledgment THEN EndOf(s)
              ELSE c.localAcknowledgment
    BY DEF AfterPayload, Connections
  <1>7. d.localAcknowledgment >= c.localAcknowledgment
    BY <1>2, <1>5, <1>6 DEF Advances
  <1> HIDE DEF d
  (* The cells of the buffer after the copy.                                *)
  <1>8. /\ \A at \in DOMAIN receiveBuffer : at \in DOMAIN buffer /\ buffer[at] = receiveBuffer[at]
        /\ \A at \in DOMAIN buffer : buffer[at].of = c.remote
                                     /\ buffer[at].number = at + c.remoteInitialSequenceNumber
        /\ Advances(c, s) /\ s.length > 0 => first .. first + s.length - 1 \subseteq DOMAIN buffer
    <2>1. CASE ~(Advances(c, s) /\ s.length > 0)
      <3>1. buffer = receiveBuffer
        BY <2>1 DEF AfterStore
      <3> QED
        BY <2>1, <3>1 DEF Storage
    <2>2. CASE Advances(c, s) /\ s.length > 0
      <3>1. buffer = Overwritten(receiveBuffer, Copied(c, s))
        BY <2>2 DEF AfterStore
      <3>2. /\ DOMAIN buffer = DOMAIN receiveBuffer \cup DOMAIN Copied(c, s)
            /\ \A at \in DOMAIN buffer : buffer[at] =
                  IF at \in DOMAIN Copied(c, s) THEN Copied(c, s)[at] ELSE receiveBuffer[at]
        BY <3>1 DEF Overwritten
      <3>3. /\ DOMAIN Copied(c, s) = first .. first + s.length - 1
            /\ \A at \in DOMAIN Copied(c, s) :
                  Copied(c, s)[at] = Byte(c.remote, at + c.remoteInitialSequenceNumber)
        BY CopiedInPlace
      <3> HIDE DEF buffer, first
      <3>4. \A number : /\ Byte(c.remote, number).of = c.remote
                       /\ Byte(c.remote, number).number = number
        BY DEF Byte
      <3>5. \A at \in DOMAIN receiveBuffer :
               receiveBuffer[at] = Byte(c.remote, at + c.remoteInitialSequenceNumber)
        BY DEF Storage, Bytes, Byte
      <3> QED
        BY <3>2, <3>3, <3>4, <3>5
    <2> QED
      BY <2>1, <2>2
  <1> HIDE DEF buffer
  <1>9. ASSUME NEW number \in Isn[p] + 1 .. Isn[p] + StreamLength, number < d.localAcknowledgment
        PROVE  number - d.remoteInitialSequenceNumber \in DOMAIN buffer
    <2>1. CASE number < c.localAcknowledgment
      <3>1. number - c.remoteInitialSequenceNumber \in DOMAIN receiveBuffer
        BY <1>1, <2>1 DEF Storage
      <3> QED
        BY <1>6, <1>8, <3>1
    <2>2. CASE ~(number < c.localAcknowledgment)
      <3>1. Advances(c, s) /\ s.sequenceNumber = c.localAcknowledgment
        BY <1>6, <1>9, <2>2
      <3>2. s.sequenceNumber <= number /\ number < s.sequenceNumber + s.length
        BY <1>2, <1>3, <1>4, <1>5, <1>6, <1>9, <2>2, <3>1
      <3>3. s.length > 0 /\ number - c.remoteInitialSequenceNumber \in first .. first + s.length - 1
        BY <1>2, <1>3, <3>2
      <3> HIDE DEF first
      <3> QED
        BY <1>6, <1>8, <3>1, <3>3
    <2> QED
      BY <2>1, <2>2
  <1>10. d.localAcknowledgment \in Isn[p] + 1 .. Isn[p] + StreamLength + 2
    <2>1. c.localAcknowledgment \in Isn[p] + 1 .. Isn[p] + StreamLength + 2
      BY <1>1 DEF Storage
    <2> QED
      BY <1>2, <1>3, <1>4, <1>5, <1>6, <2>1
  <1>11. Storage(d, buffer)
    <2>1. \A q \in Peers : c.remote = Endpoint(q) => q = p
      BY <1>1, EndpointFacts
    <2>2. c.status # "Listen" /\ c.remote # NoRemote
      BY <1>1, EndpointFacts DEF Unbound
    <2> QED
      BY <1>6, <1>8, <1>9, <1>10, <2>1, <2>2 DEF Storage, Unbound
  <1> QED
    BY <1>6, <1>7, <1>8, <1>11 DEF d, buffer
-----------------------------------------------------------------------------
(* What every step of the board and of the hosts keeps, and what it may     *)
(* change in connection and receiveBuffer.                                  *)
Preserving ==
    connection.remote # NoRemote =>
        /\ connection'.remote = connection.remote
        /\ connection'.localAcknowledgment >= connection.localAcknowledgment
        /\ connection.status # "SynReceived" =>
              connection'.remoteInitialSequenceNumber = connection.remoteInitialSequenceNumber
        /\ \A at \in DOMAIN receiveBuffer :
              at \in DOMAIN receiveBuffer' /\ receiveBuffer'[at] = receiveBuffer[at]

LEMMA ReceivedKeeps ==
    ASSUME NoOverflow, StorageInv, NEW s \in network, s.destination = Local,
           NEW frame \in BOOLEAN, NEW closeFrame \in BOOLEAN, Received(s, frame, closeFrame)
    PROVE  /\ Storage(connection', receiveBuffer')
           /\ network' \subseteq network \cup FromBoard
           /\ Preserving
  <1>1. s \in ToBoard
    BY ToBoardOnly DEF Local, StorageInv, TypeOK
  <1>2. WellFormed(s)
    BY DEF StorageInv, WellFormedNetwork
  <1>3. connection \in Connections /\ Storage(connection, receiveBuffer)
    BY DEF StorageInv, TypeOK
  <1>4. connection.localAcknowledgment >= connection.localAcknowledgment
    BY <1>3, SequenceSpaceAssumption DEF Connections, Numbers
  <1>5. CASE ReceiveIgnored(s, frame, closeFrame)
    BY <1>3, <1>4, <1>5, ConcludeKeeps DEF ReceiveIgnored, Preserving
  <1>6. CASE ReceiveReset(s, frame, closeFrame)
    <2> DEFINE d == [connection EXCEPT !.status = "Closed"]
    <2>1. /\ d \in Connections /\ d.remote = connection.remote /\ d.status = "Closed"
          /\ d.localAcknowledgment = connection.localAcknowledgment
          /\ d.remoteInitialSequenceNumber = connection.remoteInitialSequenceNumber
      BY <1>3 DEF Connections, Status
    <2>2. connection.status # "Listen"
      BY <1>6 DEF ReceiveReset, Ignored
    <2>3. Conclude(s, d, FALSE, frame, closeFrame) /\ receiveBuffer' = receiveBuffer
      BY <1>6 DEF ReceiveReset
    <2> HIDE DEF d
    <2>4. Storage(d, receiveBuffer)
      BY <1>3, <2>1, <2>2, StorageKept DEF Unbound
    <2> QED
      BY <1>4, <2>1, <2>3, <2>4, ConcludeKeeps DEF Preserving
  <1>7. CASE ReceiveSyn(s, frame, closeFrame)
    <2> DEFINE d == [AfterSyn(connection, s) EXCEPT !.localAcknowledgment = Wrap(s.sequenceNumber + 1)]
    <2>1. ~Ignored(connection, s) /\ ~s.reset /\ s.synchronize
      BY <1>7 DEF ReceiveSyn
    <2>2. Conclude(s, d, TRUE, frame, closeFrame) /\ receiveBuffer' = receiveBuffer
      BY <1>7 DEF ReceiveSyn
    <2>3. d \in Connections
      BY <1>1, <1>3, <2>1, AfterSynType
    <2>4. /\ Storage(d, receiveBuffer)
          /\ connection.remote # NoRemote =>
                /\ d.remote = connection.remote
                /\ d.localAcknowledgment = connection.localAcknowledgment
                /\ d.remoteInitialSequenceNumber = connection.remoteInitialSequenceNumber
      BY <1>1, <1>2, <1>3, <2>1, SynKeeps
    <2> HIDE DEF d
    <2> QED
      BY <1>4, <2>2, <2>3, <2>4, ConcludeKeeps DEF Preserving
  <1>8. CASE ReceiveStaleFinish(s, frame, closeFrame)
    <2> DEFINE d == AfterAcknowledgment(connection, s)
    <2>1. /\ Carries(connection, s) /\ Conclude(s, d, FALSE, frame, closeFrame)
          /\ receiveBuffer' = receiveBuffer
      BY <1>8 DEF ReceiveStaleFinish
    <2>2. d \in Connections
      BY <1>1, <1>3, AfterSegmentType
    <2>3. /\ Storage(d, receiveBuffer) /\ d.remote = connection.remote
          /\ d.localAcknowledgment = connection.localAcknowledgment
          /\ connection.status # "SynReceived" =>
                d.remoteInitialSequenceNumber = connection.remoteInitialSequenceNumber
      BY <1>1, <1>3, <2>1, AcknowledgmentKeeps
    <2> HIDE DEF d
    <2> QED
      BY <1>4, <2>1, <2>2, <2>3, ConcludeKeeps DEF Preserving
  <1>9. CASE ReceiveSegment(s, frame, closeFrame)
    <2> DEFINE d == AfterAcknowledgment(connection, s)
               c == AfterFinish(d, s)
               e == AfterPayload(c, s)
    <2>1. /\ Carries(connection, s) /\ receiveBuffer' = AfterStore(c, s)
          /\ Conclude(s, e, s.finish \/ s.length > 0, frame, closeFrame)
      BY <1>9 DEF ReceiveSegment
    <2>2. d \in Connections /\ c \in Connections /\ e \in Connections
      BY <1>1, <1>3, AfterSegmentType
    <2>3. /\ Storage(d, receiveBuffer) /\ d.status \notin Unbound
          /\ s.source = connection.remote /\ d.remote = connection.remote
          /\ d.localAcknowledgment = connection.localAcknowledgment
          /\ connection.status # "SynReceived" =>
                d.remoteInitialSequenceNumber = connection.remoteInitialSequenceNumber
      BY <1>1, <1>3, <2>1, AcknowledgmentKeeps
    <2> HIDE DEF d
    <2>4. /\ Storage(c, receiveBuffer) /\ c.status \notin Unbound /\ c.remote = d.remote
          /\ c.localAcknowledgment = d.localAcknowledgment
          /\ c.remoteInitialSequenceNumber = d.remoteInitialSequenceNumber
      BY <1>1, <2>2, <2>3, FinishKeeps
    <2> HIDE DEF c
    <2>5. /\ Storage(e, receiveBuffer') /\ e.remote = c.remote
          /\ e.localAcknowledgment >= c.localAcknowledgment
          /\ e.remoteInitialSequenceNumber = c.remoteInitialSequenceNumber
          /\ \A at \in DOMAIN receiveBuffer :
                at \in DOMAIN receiveBuffer' /\ receiveBuffer'[at] = receiveBuffer[at]
      <3>1. receiveBuffer \in [DOMAIN receiveBuffer -> Bytes] /\ DOMAIN receiveBuffer \subseteq Int
        BY DEF StorageInv, TypeOK
      <3>2. ~s.synchronize /\ s.source = c.remote
        BY <2>1, <2>3, <2>4 DEF Carries
      <3> QED
        BY <1>1, <1>2, <2>1, <2>2, <2>4, <3>1, <3>2, PayloadKeeps
    <2> HIDE DEF e
    <2>6. (s.finish \/ s.length > 0) \in BOOLEAN
      OBVIOUS
    <2>7. /\ Storage(connection', receiveBuffer')
          /\ connection'.remote = e.remote
          /\ connection'.localAcknowledgment = e.localAcknowledgment
          /\ connection'.remoteInitialSequenceNumber = e.remoteInitialSequenceNumber
          /\ network' \subseteq network \cup FromBoard
      BY <2>1, <2>2, <2>5, <2>6, ConcludeKeeps
    <2> QED
      BY <2>3, <2>4, <2>5, <2>7 DEF Preserving
  <1> QED
    BY <1>5, <1>6, <1>7, <1>8, <1>9 DEF Received

LEMMA PollKeeps ==
    ASSUME StorageInv, NEW frame \in BOOLEAN, Poll(frame)
    PROVE  /\ Storage(connection', receiveBuffer')
           /\ network' \subseteq network \cup FromBoard
           /\ Preserving
  <1>1. connection \in Connections /\ Storage(connection, receiveBuffer)
    BY DEF StorageInv, TypeOK
  <1>2. connection.localAcknowledgment >= connection.localAcknowledgment
    BY <1>1, SequenceSpaceAssumption DEF Connections, Numbers
  <1> DEFINE d == Counted(connection)
  <1>3. /\ d \in Connections /\ d.remote = connection.remote /\ d.status = connection.status
        /\ d.remoteFinished = connection.remoteFinished
        /\ d.localAcknowledgment = connection.localAcknowledgment
        /\ d.remoteInitialSequenceNumber = connection.remoteInitialSequenceNumber
    <2>1. (connection.retryCounter + 1) % CounterSpace \in 0 .. CounterSpace - 1
      BY <1>1 DEF Connections, CounterSpace
    <2> QED
      BY <1>1, <2>1 DEF Connections, Counted
  <1>4. connection' \in Connections
    BY PollType DEF StorageInv
  <1>5. /\ receiveBuffer' = receiveBuffer
        /\ connection'.remote = connection.remote
        /\ connection'.localAcknowledgment = connection.localAcknowledgment
        /\ connection'.remoteInitialSequenceNumber = connection.remoteInitialSequenceNumber
        /\ \/ connection'.status = connection.status
              /\ connection'.remoteFinished = connection.remoteFinished
           \/ connection'.status \notin Unbound /\ connection.status # "Listen"
        /\ network' \subseteq network \cup FromBoard
    <2>1. CASE PollFinish
      BY <1>1, <2>1 DEF PollFinish, Due, Connections, Unbound
    <2>2. CASE PollGiveUp
      <3>1. /\ connection' = [d EXCEPT !.status = "Closed"] /\ network' = network
            /\ receiveBuffer' = receiveBuffer /\ connection.status # "Listen"
        BY <2>2 DEF PollGiveUp, Due
      <3> HIDE DEF d
      <3> QED
        BY <1>3, <3>1 DEF Connections, Unbound
    <2>3. CASE PollRetry(frame)
      <3>1. /\ connection' = Armed(d, frame) /\ network' = network \cup Sends(d, frame)
            /\ receiveBuffer' = receiveBuffer
        BY <2>3 DEF PollRetry, Transmit
      <3> HIDE DEF d
      <3> QED
        BY <1>3, <3>1, ArmedKeeps, ArmedType
    <2> QED
      BY <2>1, <2>2, <2>3 DEF Poll
  <1>6. Storage(connection', receiveBuffer')
    BY <1>1, <1>4, <1>5, StorageKept
  <1> QED
    BY <1>2, <1>5, <1>6 DEF Preserving
-----------------------------------------------------------------------------
(* The hosts put well-formed segments on the wire and touch nothing else.   *)
HostSegment(p, s) == s.source = Endpoint(p) /\ WellFormed(s)

LEMMA PlainWellFormed ==
    ASSUME NEW p \in Peers, NEW s,
           s.source = Endpoint(p), s.trailing = 0,
           s.synchronize => s.sequenceNumber = Isn[p],
           ~s.synchronize =>
              /\ s.sequenceNumber >= Isn[p] + 1
              /\ s.sequenceNumber + s.length + (IF s.finish THEN 1 ELSE 0) <= Isn[p] + StreamLength + 2,
           s.finish => s.sequenceNumber + s.length = Isn[p] + 1 + StreamLength
    PROVE  HostSegment(p, s)
  <1>1. \A q \in Peers : s.source = Endpoint(q) => q = p
    BY EndpointFacts
  <1> QED
    BY <1>1 DEF WellFormed, HostSegment

LEMMA PeerKeeps ==
    ASSUME NoOverflow, NoTrailing, TypeOK, NEW p \in Peers, PeerStep(p)
    PROVE  /\ connection' = connection /\ receiveBuffer' = receiveBuffer
           /\ \A s \in network' : s \in network \/ HostSegment(p, s)
  <1>1. peer[p] \in Uploads /\ Isn[p] \in Nat /\ StreamLength \in Nat
    BY IsnAssumption, SequenceSpaceAssumption, StreamAssumption DEF TypeOK
  <1>2. Sequenced(p) \in 0 .. StreamLength + 1 /\ SendNext(p) = Isn[p] + 1 + Sequenced(p)
    BY SequencedType, NumberOfStream DEF SendNext
  <1>3. connection' = connection /\ receiveBuffer' = receiveBuffer
    BY DEF PeerStep, PeerConnect, PeerProbe, PeerEstablish, PeerReceive, PeerSend, PeerAbort
  <1>4. HostSegment(p, SynOf(p)) /\ \A port : HostSegment(p, [SynOf(p) EXCEPT !.destination.port = port])
    <2>1. /\ SynOf(p).source = Endpoint(p) /\ SynOf(p).trailing = 0
          /\ SynOf(p).sequenceNumber = Isn[p] /\ SynOf(p).synchronize = TRUE
          /\ SynOf(p).finish = FALSE
      BY DEF SynOf, PlainSegment
    <2>2. ASSUME NEW port
          PROVE  HostSegment(p, [SynOf(p) EXCEPT !.destination.port = port])
      <3> DEFINE s == [SynOf(p) EXCEPT !.destination.port = port]
      <3>1. /\ s.source = Endpoint(p) /\ s.trailing = 0
            /\ s.sequenceNumber = Isn[p] /\ s.synchronize = TRUE /\ s.finish = FALSE
        BY DEF SynOf, PlainSegment
      <3> HIDE DEF s
      <3> QED
        BY <3>1, PlainWellFormed DEF s
    <2> QED
      BY <2>1, <2>2, PlainWellFormed
  <1>5. ASSUME NEW number
        PROVE  HostSegment(p, [PeerSegment(p, SendNext(p)) EXCEPT !.acknowledgmentNumber = number])
    <2> DEFINE s == [PeerSegment(p, SendNext(p)) EXCEPT !.acknowledgmentNumber = number]
    <2>1. /\ s.source = Endpoint(p) /\ s.trailing = 0 /\ s.length = 0
          /\ s.sequenceNumber = SendNext(p) /\ s.synchronize = FALSE /\ s.finish = FALSE
      BY DEF PeerSegment, PlainSegment
    <2> HIDE DEF s
    <2>2. HostSegment(p, s)
      BY <1>1, <1>2, <2>1, PlainWellFormed
    <2> QED
      BY <2>2 DEF s
  <1>6. CASE PeerConnect(p)
    BY <1>3, <1>4, <1>6 DEF PeerConnect
  <1>7. ASSUME NEW port \in ProbePorts, PeerProbe(p, port)
        PROVE  \A s \in network' : s \in network \/ HostSegment(p, s)
    BY <1>4, <1>7 DEF PeerProbe
  <1>8. ASSUME NEW m \in network, PeerEstablish(p, m) \/ PeerReceive(p, m)
        PROVE  \A s \in network' : s \in network \/ HostSegment(p, s)
    <2>1. network' \subseteq network \cup
            {[PeerSegment(p, SendNext(p)) EXCEPT !.acknowledgmentNumber = peer'[p].remoteNext]}
      BY <1>8 DEF PeerEstablish, PeerReceive
    <2> QED
      BY <1>5, <2>1
  <1>9. ASSUME NEW from \in 0 .. StreamLength, NEW length \in 0 .. MaxSegment,
               NEW finish \in BOOLEAN, NEW trailing \in Trailings,
               PeerSend(p, from, length, finish, trailing)
        PROVE  \A s \in network' : s \in network \/ HostSegment(p, s)
    <2> DEFINE s == [PeerSegment(p, NumberOf(p, from)) EXCEPT
                        !.length = length, !.finish = finish, !.trailing = trailing]
    <2>1. /\ s.source = Endpoint(p) /\ s.trailing = trailing /\ s.length = length
          /\ s.sequenceNumber = NumberOf(p, from) /\ s.synchronize = FALSE /\ s.finish = finish
      BY DEF PeerSegment, PlainSegment
    <2>2. NumberOf(p, from) = Isn[p] + 1 + from /\ trailing = 0
      BY <1>1, NumberOfStream DEF NoTrailing
    <2>3. from + length <= StreamLength /\ (finish => from + length = StreamLength)
      BY <1>9 DEF PeerSend
    <2>4. network' = network \cup {s}
      BY <1>9 DEF PeerSend
    <2> HIDE DEF s
    <2>5. length \in Nat
      BY StreamAssumption
    <2>6. HostSegment(p, s)
      BY <1>1, <2>1, <2>2, <2>3, <2>5, PlainWellFormed
    <2> QED
      BY <2>4, <2>6
  <1>10. CASE PeerAbort(p)
    <2> DEFINE s == [PeerSegment(p, SendNext(p)) EXCEPT !.reset = TRUE]
    <2>1. /\ s.source = Endpoint(p) /\ s.trailing = 0 /\ s.length = 0
          /\ s.sequenceNumber = SendNext(p) /\ s.synchronize = FALSE /\ s.finish = FALSE
      BY DEF PeerSegment, PlainSegment
    <2>2. network' = network \cup {s}
      BY <1>10 DEF PeerAbort
    <2> HIDE DEF s
    <2>3. HostSegment(p, s)
      BY <1>1, <1>2, <2>1, PlainWellFormed
    <2> QED
      BY <1>3, <2>2, <2>3
  <1> QED
    BY <1>3, <1>6, <1>7, <1>8, <1>9, <1>10 DEF PeerStep
-----------------------------------------------------------------------------
LEMMA StorageStep ==
    ASSUME NoOverflow, NoTrailing, StorageInv, [Next]_vars
    PROVE  StorageInv' /\ (Preserving \/ UNCHANGED <<connection, receiveBuffer>>)
  <1>1. TypeOK' /\ TypeOK
    BY TypeInductive DEF StorageInv
  <1>2. Storage(connection, receiveBuffer) /\ WellFormedNetwork
    BY DEF StorageInv
  <1>3. ASSUME NEW p \in Peers, PeerStep(p)
        PROVE  StorageInv' /\ UNCHANGED <<connection, receiveBuffer>>
    <2>1. /\ connection' = connection /\ receiveBuffer' = receiveBuffer
          /\ \A s \in network' : s \in network \/ WellFormed(s)
      BY <1>1, <1>3, PeerKeeps DEF HostSegment
    <2>2. WellFormedNetwork'
      BY <1>2, <2>1 DEF WellFormedNetwork, WellFormed
    <2> QED
      BY <1>1, <1>2, <2>1, <2>2 DEF StorageInv
  <1>4. ASSUME network' \subseteq network \cup FromBoard
        PROVE  WellFormedNetwork'
    BY <1>2, <1>4, FromBoardElsewhere DEF WellFormedNetwork, WellFormed
  <1>5. ASSUME NEW s \in network, BoardReceive(s)
        PROVE  StorageInv' /\ Preserving
    <2>1. PICK frame \in BOOLEAN, closeFrame \in BOOLEAN : Received(s, frame, closeFrame)
      BY <1>5, FrameResultsAssumption DEF BoardReceive
    <2>2. s.destination = Local
      BY <1>5 DEF BoardReceive
    <2> QED
      BY <1>1, <1>4, <2>1, <2>2, ReceivedKeeps DEF StorageInv
  <1>6. ASSUME NEW s \in network, BoardRefuse(s)
        PROVE  StorageInv' /\ UNCHANGED <<connection, receiveBuffer>>
    <2>1. s \in ToBoard
      BY <1>1, <1>6, ToBoardOnly DEF BoardRefuse, Refuse, TypeOK
    <2>2. Refusal(s).destination # Local
      BY <2>1, EndpointFacts DEF Refusal, PlainSegment, ToBoard, Between, Endpoints
    <2>3. network' \subseteq network \cup {Refusal(s)} /\ UNCHANGED <<connection, receiveBuffer>>
      BY <1>6 DEF BoardRefuse, Refuse
    <2>4. WellFormedNetwork'
      BY <1>2, <2>2, <2>3 DEF WellFormedNetwork, WellFormed
    <2> QED
      BY <1>1, <1>2, <2>3, <2>4 DEF StorageInv
  <1>7. CASE BoardPoll
    <2>1. PICK frame \in BOOLEAN : Poll(frame)
      BY <1>7, FrameResultsAssumption DEF BoardPoll
    <2> QED
      BY <1>1, <1>4, <2>1, PollKeeps DEF StorageInv
  <1>8. CASE ClockTick
    <2>1. /\ receiveBuffer' = receiveBuffer /\ network' = network
          /\ connection'.remote = connection.remote
          /\ connection'.status = connection.status
          /\ connection'.remoteFinished = connection.remoteFinished
          /\ connection'.localAcknowledgment = connection.localAcknowledgment
          /\ connection'.remoteInitialSequenceNumber = connection.remoteInitialSequenceNumber
      BY <1>1, <1>8 DEF ClockTick, Tick, TypeOK, Connections
    <2>2. connection \in Connections /\ connection' \in Connections
      BY <1>1 DEF TypeOK
    <2>3. Storage(connection', receiveBuffer')
      BY <1>2, <2>1, <2>2, StorageKept
    <2>4. connection.localAcknowledgment >= connection.localAcknowledgment
      BY <2>2, SequenceSpaceAssumption DEF Connections, Numbers
    <2> QED
      BY <1>1, <1>4, <2>1, <2>3, <2>4 DEF StorageInv, Preserving
  <1>9. CASE UNCHANGED vars
    BY <1>1, <1>2, <1>9 DEF vars, StorageInv, WellFormedNetwork, WellFormed
  <1> QED
    BY <1>3, <1>5, <1>6, <1>7, <1>8, <1>9 DEF Next

LEMMA StorageInitial ==
    ASSUME Init
    PROVE  StorageInv
  <1>1. /\ connection.status = "Listen" /\ connection.remote = NoRemote
        /\ connection.remoteFinished = FALSE
    BY DEF Init, InitialConnection
  <1>2. DOMAIN receiveBuffer = {} /\ network = {}
    BY DEF Init
  <1> QED
    BY <1>1, <1>2, TypeInitial, EndpointFacts DEF StorageInv, Storage, WellFormedNetwork

(* The numbers below localAcknowledgment count the bytes that are stored.   *)
StoredIn(c, buffer, p, n) ==
    LET at == NumberOf(p, n) - c.remoteInitialSequenceNumber
    IN  at \in DOMAIN buffer /\ buffer[at] = Byte(Endpoint(p), NumberOf(p, n))

LEMMA StorageMeans ==
    ASSUME NoOverflow, NEW c \in Connections, NEW buffer, buffer \in [DOMAIN buffer -> Bytes],
           Storage(c, buffer), NEW p \in Peers, c.remote = Endpoint(p)
    PROVE  /\ Wrap(c.localAcknowledgment - (Isn[p] + 1)) = c.localAcknowledgment - (Isn[p] + 1)
           /\ \A n \in 0 .. StreamLength - 1 :
                 n < c.localAcknowledgment - (Isn[p] + 1) => StoredIn(c, buffer, p, n)
  <1>1. /\ Isn[p] \in Nat /\ StreamLength \in Nat /\ SequenceSpace \in Nat
        /\ Isn[p] + StreamLength + 2 < SequenceSpace
    BY IsnAssumption, SequenceSpaceAssumption, StreamAssumption DEF NoOverflow, Fits
  <1>2. c.localAcknowledgment \in Isn[p] + 1 .. Isn[p] + StreamLength + 2
    BY DEF Storage
  <1>3. Wrap(c.localAcknowledgment - (Isn[p] + 1)) = c.localAcknowledgment - (Isn[p] + 1)
    <2>1. /\ c.localAcknowledgment - (Isn[p] + 1) \in Int
          /\ 0 <= c.localAcknowledgment - (Isn[p] + 1)
          /\ c.localAcknowledgment - (Isn[p] + 1) < SequenceSpace
      BY <1>1, <1>2
    <2> QED
      BY <2>1, WrapSmall
  <1>4. ASSUME NEW n \in 0 .. StreamLength - 1, n < c.localAcknowledgment - (Isn[p] + 1)
        PROVE  StoredIn(c, buffer, p, n)
    <2> DEFINE number == Isn[p] + 1 + n
               at == number - c.remoteInitialSequenceNumber
    <2>1. NumberOf(p, n) = number
      BY <1>1, NumberOfStream
    <2>2. number \in Isn[p] + 1 .. Isn[p] + StreamLength /\ number < c.localAcknowledgment
      BY <1>1, <1>2, <1>4
    <2>3. at \in DOMAIN buffer
      BY <2>2 DEF Storage
    <2>4. /\ buffer[at] \in Bytes /\ buffer[at].of = Endpoint(p)
          /\ buffer[at].number = at + c.remoteInitialSequenceNumber
      BY <2>3 DEF Storage
    <2>5. at + c.remoteInitialSequenceNumber = number
      BY <1>1, SequenceSpaceAssumption DEF Connections, Numbers
    <2>6. buffer[at] = Byte(Endpoint(p), number)
      <3> HIDE DEF at, number
      <3> QED
        BY <2>4, <2>5 DEF Bytes, Byte
    <2> HIDE DEF number
    <2> QED
      BY <2>1, <2>3, <2>6 DEF StoredIn
  <1> QED
    BY <1>3, <1>4

LEMMA StorageSuffices ==
    ASSUME NoOverflow, StorageInv
    PROVE  AckedPayloadStored /\ StoredInPlace
  <1>1. /\ Storage(connection, receiveBuffer) /\ connection \in Connections
        /\ receiveBuffer \in [DOMAIN receiveBuffer -> Bytes]
    BY DEF StorageInv, TypeOK
  <1>2. StoredInPlace
    BY <1>1 DEF Storage, StoredInPlace
  <1>3. ASSUME NEW p \in Peers, NEW n \in 0 .. StreamLength - 1,
               connection.remote = Endpoint(p), n < Accepted(p)
        PROVE  Stored(p, n)
    BY <1>1, <1>3, StorageMeans DEF Accepted, Stored, StoredIn
  <1> QED
    BY <1>2, <1>3 DEF AckedPayloadStored

(* received() acknowledges nothing that it has not stored, for every host,  *)
(* image, cut of the image into segments and network.                       *)
THEOREM AcknowledgedIsStored ==
    ASSUME NoOverflow, NoTrailing
    PROVE  Spec => []AckedPayloadStored
  BY StorageInitial, StorageStep, StorageSuffices, PTL DEF Spec

(* Every byte in receiveBuffer is the bound remote's, at its own place.     *)
THEOREM StoredBytesInPlace ==
    ASSUME NoOverflow, NoTrailing
    PROVE  Spec => []StoredInPlace
  BY StorageInitial, StorageStep, StorageSuffices, PTL DEF Spec

(* No step takes back an acknowledgment, a stored byte, the remote or, once *)
(* established, the origin of receiveBuffer.                                *)
THEOREM NothingTakenBack ==
    ASSUME NoOverflow, NoTrailing
    PROVE  Spec => NeverTakenBack
  <1>1. ASSUME StorageInv, [Next]_vars
        PROVE  [connection.remote # NoRemote =>
                  /\ connection'.remote = connection.remote
                  /\ connection'.localAcknowledgment >= connection.localAcknowledgment
                  /\ connection.status \notin {"SynReceived"} =>
                        connection'.remoteInitialSequenceNumber = connection.remoteInitialSequenceNumber
                  /\ \A at \in DOMAIN receiveBuffer :
                        at \in DOMAIN receiveBuffer' /\ receiveBuffer'[at] = receiveBuffer[at]]_vars
    <2>1. connection.localAcknowledgment >= connection.localAcknowledgment
      BY <1>1, SequenceSpaceAssumption DEF StorageInv, TypeOK, Connections, Numbers
    <2> QED
      BY <1>1, <2>1, StorageStep DEF Preserving
  <1> QED
    BY <1>1, StorageInitial, StorageStep, PTL DEF Spec, NeverTakenBack
=============================================================================
