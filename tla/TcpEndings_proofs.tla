-------------------------- MODULE TcpEndings_proofs --------------------------
(***************************************************************************)
(* Proofs about how a download ends and who may trust it: why a connection *)
(* is Closed or Finished, how long it takes to give up, and that what a    *)
(* host takes as delivered is in receiveBuffer.  The first half needs no   *)
(* assumption about sequence numbers: it follows the flags of segments     *)
(* from the side that sets them to the side that acts on them.             *)
(***************************************************************************)
EXTENDS TcpPatience, TcpContract_proofs

(* The states main()'s connection goes through, and the two numbers it      *)
(* gives away: 0 to its SYN, 1 to its FIN.                                  *)
Phased(c) ==
    /\ c.status \notin {"SynSent", "WaitingForRemoteToFinish"}
    /\ c.status = "Listen" <=> c.remote = NoRemote
    /\ c.status \in {"Listen", "SynReceived"} => c.localSequenceNumber = 0 /\ ~c.remoteFinished
    /\ c.status \in {"Established", "FinSent"} => c.localSequenceNumber = 1
    /\ c.status \in {"FinSent", "TimedClose", "Finished"} => c.remoteFinished

(* A segment the board sends in state c.                                    *)
BoardSegment(c, m) ==
    /\ m.source = Local /\ m.destination = c.remote /\ c.remote # NoRemote
    /\ m.synchronize => m.sequenceNumber = 0
    /\ m.finish => m.sequenceNumber = 1
    /\ m.acknowledgmentNumber = c.localAcknowledgment

(* Every segment of the board went to the bound remote.                     *)
BoardSaid(c, m) ==
    m.source = Local =>
        /\ c.remote # NoRemote /\ m.destination = c.remote
        /\ m.synchronize => m.sequenceNumber = 0
        /\ m.finish => m.sequenceNumber = 1

(* What a segment of host p tells about p is true, and stays true.          *)
HostSaid(p, m) ==
    m.source = Endpoint(p) =>
        /\ m.acknowledgmentNumber <= peer[p].remoteNext
        /\ m.finish => peer[p].finSent
        /\ m.reset => peer[p].state = "aborted"

HostCounts(p) ==
    /\ peer[p].remoteNext \in 0 .. 2
    /\ peer[p].state \in {"idle", "syn"} => peer[p].remoteNext = 0

(* The board believes of the bound remote only what it did.                 *)
Justified(c, p) ==
    c.remote = Endpoint(p) =>
        /\ c.remoteFinished => peer[p].finSent
        /\ c.status \in {"TimedClose", "Finished"} => peer[p].remoteNext = 2
        /\ c.status = "Closed" => c.retryCounter > MaxRetries \/ peer[p].state = "aborted"

EndingsInv ==
    /\ TypeOK
    /\ Phased(connection)
    /\ \A m \in network : BoardSaid(connection, m) /\ \A p \in Peers : HostSaid(p, m)
    /\ \A p \in Peers : HostCounts(p) /\ Justified(connection, p)

(* How segment s may move the connection from c to d.                       *)
Moves(c, d, s) ==
    /\ d \in Connections /\ Phased(d)
    /\ c.remote # NoRemote => d.remote = c.remote
    /\ d.remoteFinished => c.remoteFinished \/ (s.finish /\ s.source = d.remote)
    /\ d.status \in {"TimedClose", "Finished"} =>
          \/ c.status \in {"TimedClose", "Finished"}
          \/ s.acknowledgmentNumber = 2 /\ s.source = d.remote
    /\ d.status = "Closed" => c.status = "Closed" \/ (s.reset /\ s.source = d.remote)
    /\ c.status = "Closed" => d.status = "Closed"
    /\ d.retryCounter = c.retryCounter
    /\ d.retryTimer \in {c.retryTimer, RetryPeriod}
-----------------------------------------------------------------------------
LEMMA SendsSegments ==
    ASSUME NEW c \in Connections, Phased(c), c.remote # NoRemote, NEW frame \in BOOLEAN
    PROVE  \A m \in Sends(c, frame) : BoardSegment(c, m)
  <1>1. /\ Outgoing(c).source = Local /\ Outgoing(c).destination = c.remote
        /\ Outgoing(c).synchronize = Handshaking(c) /\ Outgoing(c).finish = FinDue(c)
        /\ Outgoing(c).sequenceNumber = Wrap(c.localSequenceNumber)
        /\ Outgoing(c).acknowledgmentNumber =
              IF Acknowledging(c) THEN Wrap(c.localAcknowledgment) ELSE 0
    BY DEF Outgoing, PlainSegment
  <1>2. Wrap(0) = 0 /\ Wrap(1) = 1
    BY WrapSmall, SequenceSpaceAssumption
  <1>3. Wrap(c.localAcknowledgment) = c.localAcknowledgment
    BY WrapSmall, SequenceSpaceAssumption DEF Connections, Numbers
  <1>4. /\ Handshaking(c) => c.localSequenceNumber = 0
        /\ FinDue(c) => c.localSequenceNumber = 1
        /\ Acknowledging(c)
    BY DEF Phased, Handshaking, FinDue, Acknowledging
  <1> QED
    BY <1>1, <1>2, <1>3, <1>4 DEF Sends, BoardSegment

LEMMA ArmedMoves ==
    ASSUME NEW c \in Connections, NEW frame \in BOOLEAN
    PROVE  /\ Armed(c, frame).localSequenceNumber = c.localSequenceNumber
           /\ Armed(c, frame).retryCounter = c.retryCounter
           /\ Armed(c, frame).retryTimer = IF frame THEN RetryPeriod ELSE c.retryTimer
  BY DEF Armed, Connections

(* The end of every received segment: it may close an established           *)
(* connection whose remote has finished, and do nothing else to the status. *)
LEMMA ConcludeMoves ==
    ASSUME NEW b, NEW c \in Connections, NEW s, NEW answers \in BOOLEAN,
           NEW frame \in BOOLEAN, NEW closeFrame \in BOOLEAN,
           Conclude(s, c, answers, frame, closeFrame), Moves(b, c, s),
           c.status # "Finished", answers => c.remote # NoRemote
    PROVE  /\ Moves(b, connection', s)
           /\ connection'.remote = c.remote
           /\ answers /\ frame => connection'.retryTimer = RetryPeriod
           /\ connection'.localAcknowledgment = c.localAcknowledgment
           /\ \A m \in network' : m \in network \/ BoardSegment(connection', m)
  <1> DEFINE answered == IF answers THEN Armed(c, frame) ELSE c
             d == [c EXCEPT !.status = "FinSent"]
             e == [answered EXCEPT !.status = "FinSent"]
  <1>1. /\ connection' = IF c.remoteFinished THEN AfterClose(answered, closeFrame) ELSE answered
        /\ network' = (network \ Delivered(s))
                              \cup (IF answers THEN Sends(c, frame) ELSE {})
                              \cup (IF c.remoteFinished THEN CloseSends(c, closeFrame) ELSE {})
    BY DEF Conclude
  <1>2. /\ answered \in Connections
        /\ answered.remote = c.remote /\ answered.status = c.status
        /\ answered.remoteFinished = c.remoteFinished
        /\ answered.localAcknowledgment = c.localAcknowledgment
        /\ answered.localSequenceNumber = c.localSequenceNumber
        /\ answered.retryCounter = c.retryCounter
        /\ answered.retryTimer \in {c.retryTimer, RetryPeriod}
        /\ answers /\ frame => answered.retryTimer = RetryPeriod
    BY ArmedKeeps, ArmedMoves, ArmedType
  <1>3. Phased(c)
    BY DEF Moves
  <1> HIDE DEF answered
  <1>4. /\ e \in Connections /\ e.status = "FinSent" /\ e.remote = c.remote
        /\ e.remoteFinished = c.remoteFinished
        /\ e.localAcknowledgment = c.localAcknowledgment
        /\ e.localSequenceNumber = c.localSequenceNumber
        /\ e.retryCounter = c.retryCounter /\ e.retryTimer = answered.retryTimer
    BY <1>2 DEF Connections, Status
  <1>5. d \in Connections /\ d.status = "FinSent" /\ d.remote = c.remote
        /\ d.remoteFinished = c.remoteFinished
        /\ d.localAcknowledgment = c.localAcknowledgment
        /\ d.localSequenceNumber = c.localSequenceNumber
    BY DEF Connections, Status
  <1> HIDE DEF d, e
  <1>6. CASE c.remoteFinished /\ c.status = "Established"
    <2>1. connection' = Armed(e, closeFrame)
      BY <1>1, <1>2, <1>6 DEF AfterClose, ClosesAtOnce, ClosesWithFin, e
    <2>2. /\ connection' \in Connections /\ connection'.status = "FinSent"
          /\ connection'.remote = c.remote /\ connection'.remoteFinished = c.remoteFinished
          /\ connection'.localAcknowledgment = c.localAcknowledgment
          /\ connection'.localSequenceNumber = c.localSequenceNumber
          /\ connection'.retryCounter = c.retryCounter
          /\ connection'.retryTimer \in {c.retryTimer, RetryPeriod}
          /\ answers /\ frame => connection'.retryTimer = RetryPeriod
      BY <1>2, <1>4, <2>1, ArmedKeeps, ArmedMoves, ArmedType
    <2>3. c.remote # NoRemote
      BY <1>3, <1>6 DEF Phased
    <2>4. Phased(connection') /\ Phased(d)
      BY <1>3, <1>5, <1>6, <2>2 DEF Phased
    <2>5. Moves(b, connection', s)
      BY <1>6, <2>2, <2>4 DEF Moves
    <2>6. \A m \in Sends(c, frame) \cup Sends(d, closeFrame) : BoardSegment(connection', m)
      BY <1>3, <1>5, <2>2, <2>3, <2>4, SendsSegments DEF BoardSegment
    <2>7. CloseSends(c, closeFrame) = Sends(d, closeFrame)
      BY <1>6 DEF CloseSends, ClosesWithFin, d
    <2> QED
      BY <1>1, <2>2, <2>5, <2>6, <2>7
  <1>7. CASE ~(c.remoteFinished /\ c.status = "Established")
    <2>1. connection' = answered
      BY <1>1, <1>2, <1>3, <1>7 DEF AfterClose, ClosesAtOnce, ClosesWithFin, Phased
    <2>2. c.remoteFinished => CloseSends(c, closeFrame) = {}
      BY <1>3, <1>7 DEF CloseSends, ClosesWithFin, Phased
    <2>3. Moves(b, connection', s)
      BY <1>2, <1>3, <2>1 DEF Moves, Phased
    <2>4. answers => \A m \in Sends(c, frame) : BoardSegment(connection', m)
      BY <1>2, <1>3, <2>1, SendsSegments DEF BoardSegment
    <2> QED
      BY <1>1, <1>2, <2>1, <2>2, <2>3, <2>4
  <1> QED
    BY <1>6, <1>7
-----------------------------------------------------------------------------
(* received(), way by way.                                                  *)
LEMMA SynMoves ==
    ASSUME NEW c \in Connections, Phased(c), NEW s \in ToBoard,
           ~Ignored(c, s), ~s.reset, s.synchronize
    PROVE  LET opened == [AfterSyn(c, s) EXCEPT !.localAcknowledgment = Wrap(s.sequenceNumber + 1)]
           IN  Moves(c, opened, s) /\ opened.status = "SynReceived"
  <1> DEFINE opened == [AfterSyn(c, s) EXCEPT !.localAcknowledgment = Wrap(s.sequenceNumber + 1)]
  <1>1. opened \in Connections
    BY AfterSynType
  <1>2. c.status \in {"Listen", "SynReceived"} /\ s.source # NoRemote
    BY EndpointFacts DEF Phased, Ignored, ToBoard, Between, Endpoints
  <1>3. CASE c.status = "Listen"
    <2>1. /\ opened.status = "SynReceived" /\ opened.remote = s.source
          /\ opened.localSequenceNumber = 0 /\ opened.remoteFinished = c.remoteFinished
          /\ opened.retryCounter = c.retryCounter /\ opened.retryTimer = c.retryTimer
      BY <1>3 DEF AfterSyn, Connections
    <2>2. c.remote = NoRemote /\ ~c.remoteFinished
      BY <1>3 DEF Phased
    <2> HIDE DEF opened
    <2>3. Moves(c, opened, s)
      BY <1>1, <1>2, <2>1, <2>2 DEF Moves, Phased
    <2> QED
      BY <2>1, <2>3 DEF opened
  <1>4. CASE c.status = "SynReceived"
    <2>1. /\ opened.status = c.status /\ opened.remote = c.remote
          /\ opened.localSequenceNumber = c.localSequenceNumber
          /\ opened.remoteFinished = c.remoteFinished
          /\ opened.retryCounter = c.retryCounter /\ opened.retryTimer = c.retryTimer
      BY <1>4 DEF AfterSyn, Connections
    <2> HIDE DEF opened
    <2>2. Moves(c, opened, s)
      BY <1>1, <1>4, <2>1 DEF Moves, Phased
    <2> QED
      BY <1>4, <2>1, <2>2 DEF opened
  <1> QED
    BY <1>2, <1>3, <1>4

(* An acknowledgment ends the handshake, or the board's FIN, number 1.      *)
LEMMA AcknowledgmentMoves ==
    ASSUME NEW c \in Connections, Phased(c), NEW s \in ToBoard, Carries(c, s)
    PROVE  LET d == AfterAcknowledgment(c, s)
           IN  /\ Moves(c, d, s) /\ s.source = c.remote /\ c.remote # NoRemote
               /\ d.status \notin {"Listen", "SynReceived", "Closed"}
               /\ c.status # "Finished" => d.status # "Finished"
  <1> DEFINE d == AfterAcknowledgment(c, s)
             moved == CASE c.status = "SynReceived" -> Establish(c, s)
                        [] AcknowledgesFin(c, s) -> FinAcknowledged(c)
                        [] OTHER -> c
  <1>1. c.status \notin {"Closed", "Listen"} /\ s.source = c.remote /\ c.remote # NoRemote
    BY DEF Carries, Ignored, Foreign, Phased
  <1>2. d \in Connections
    BY AfterSegmentType
  <1>3. /\ moved \in Connections /\ Moves(c, moved, s)
        /\ moved.status \notin {"Listen", "SynReceived", "Closed"}
        /\ c.status # "Finished" => moved.status # "Finished"
    <2>1. CASE c.status = "SynReceived"
      <3>1. /\ c.localSequenceNumber = 0 /\ c.localSequenceNumber + 1 \in Nat
            /\ s.sequenceNumber \in Numbers
            /\ "Established" \in Status /\ ~c.remoteFinished
        BY <2>1 DEF Phased, ToBoard, Between, Status
      <3>2. moved = Establish(c, s)
        BY <2>1 DEF AcknowledgesFin
      <3> HIDE DEF moved
      <3>3. /\ moved.status = "Established" /\ moved.remote = c.remote
            /\ moved.localSequenceNumber = c.localSequenceNumber + 1
            /\ moved.remoteFinished = c.remoteFinished
            /\ moved.retryCounter = c.retryCounter /\ moved.retryTimer = c.retryTimer
            /\ moved \in Connections
        BY <2>1, <3>1, <3>2 DEF Establish, Connections
      <3> QED
        BY <1>1, <3>1, <3>3 DEF Moves, Phased
    <2>2. CASE c.status # "SynReceived" /\ AcknowledgesFin(c, s)
      <3>1. /\ c.localSequenceNumber = 1 /\ c.remoteFinished /\ s.acknowledgmentNumber = 2
            /\ c.localSequenceNumber + 1 \in Nat /\ RetryPeriod \in 0 .. RetryPeriod
            /\ "TimedClose" \in Status
        BY <2>2, RetryPeriodAssumption DEF AcknowledgesFin, Phased, Status
      <3>2. moved = StartTimedClose([c EXCEPT !.localSequenceNumber = @ + 1])
        BY <2>2, <3>1 DEF FinAcknowledged, Connections
      <3> HIDE DEF moved
      <3>3. /\ moved.status = "TimedClose" /\ moved.remote = c.remote
            /\ moved.remoteFinished
            /\ moved.retryCounter = c.retryCounter /\ moved.retryTimer = RetryPeriod
            /\ moved \in Connections
        BY <2>2, <3>1, <3>2 DEF StartTimedClose, Connections
      <3> QED
        BY <1>1, <3>1, <3>3 DEF Moves, Phased
    <2>3. CASE c.status # "SynReceived" /\ ~AcknowledgesFin(c, s)
      BY <1>1, <2>3 DEF Moves
    <2> QED
      BY <2>1, <2>2, <2>3
  <1>4. /\ d.remote = moved.remote /\ d.status = moved.status
        /\ d.localSequenceNumber = moved.localSequenceNumber
        /\ d.remoteFinished = moved.remoteFinished
        /\ d.retryCounter = moved.retryCounter /\ d.retryTimer = moved.retryTimer
    <2>1. d = [moved EXCEPT !.remoteAcknowledgment =
                IF s.acknowledgmentNumber > moved.remoteAcknowledgment THEN s.acknowledgmentNumber
                ELSE moved.remoteAcknowledgment]
      BY DEF AfterAcknowledgment
    <2> HIDE DEF d, moved
    <2> QED
      BY <1>3, <2>1 DEF Connections
  <1> HIDE DEF d, moved
  <1>5. Moves(c, d, s)
    BY <1>2, <1>3, <1>4 DEF Moves, Phased
  <1> QED
    BY <1>1, <1>3, <1>4, <1>5 DEF d

(* FIN and payload of a segment in sequence.                                *)
LEMMA SegmentMoves ==
    ASSUME NEW b, NEW c \in Connections, NEW s \in ToBoard, Moves(b, c, s),
           c.status \notin {"Listen", "SynReceived"}, s.source = c.remote
    PROVE  LET d == AfterPayload(AfterFinish(c, s), s)
           IN  Moves(b, d, s) /\ d.status = c.status /\ d.remote = c.remote
  <1> DEFINE f == AfterFinish(c, s)
             d == AfterPayload(f, s)
  <1>1. f \in Connections /\ d \in Connections
    BY AfterSegmentType
  <1>2. /\ f.status = c.status /\ f.remote = c.remote
        /\ f.localSequenceNumber = c.localSequenceNumber
        /\ f.remoteFinished = (c.remoteFinished \/ s.finish)
        /\ f.retryCounter = c.retryCounter /\ f.retryTimer = c.retryTimer
    <2>1. c.status # "WaitingForRemoteToFinish" /\ s.finish \in BOOLEAN
      BY DEF Moves, Phased, ToBoard, Between
    <2>2. CASE ~s.finish
      BY <2>2 DEF AfterFinish, Connections
    <2>3. CASE s.finish
      BY <2>1, <2>3 DEF AfterFinish, Connections
    <2> QED
      BY <2>1, <2>2, <2>3
  <1> HIDE DEF f
  <1>3. /\ d.status = f.status /\ d.remote = f.remote
        /\ d.localSequenceNumber = f.localSequenceNumber
        /\ d.remoteFinished = f.remoteFinished
        /\ d.retryCounter = f.retryCounter /\ d.retryTimer = f.retryTimer
    BY <1>1 DEF AfterPayload, Connections
  <1> HIDE DEF d
  <1>4. Moves(b, d, s)
    BY <1>1, <1>2, <1>3 DEF Moves, Phased
  <1> QED
    BY <1>2, <1>3, <1>4 DEF d, f

LEMMA ReceivedMoves ==
    ASSUME TypeOK, Phased(connection), Loading, NEW s \in network, s.destination = Local,
           NEW frame \in BOOLEAN, NEW closeFrame \in BOOLEAN, Received(s, frame, closeFrame)
    PROVE  /\ Moves(connection, connection', s)
           /\ \A m \in network' : m \in network \/ BoardSegment(connection', m)
           /\ connection.remote = NoRemote =>
                 connection'.remote = NoRemote \/ (frame => connection'.retryTimer = RetryPeriod)
  <1> DEFINE Goal == /\ Moves(connection, connection', s)
                     /\ \A m \in network' : m \in network \/ BoardSegment(connection', m)
                     /\ connection.remote = NoRemote =>
                           connection'.remote = NoRemote \/ (frame => connection'.retryTimer = RetryPeriod)
  <1>1. s \in ToBoard /\ connection \in Connections /\ connection.status # "Finished"
    BY ToBoardOnly DEF Local, TypeOK, Loading
  <1>2. CASE ReceiveIgnored(s, frame, closeFrame)
    <2>1. Moves(connection, connection, s)
      BY <1>1 DEF Moves
    <2> QED
      BY <1>1, <1>2, <2>1, ConcludeMoves DEF ReceiveIgnored
  <1>3. CASE ReceiveReset(s, frame, closeFrame)
    <2> DEFINE d == [connection EXCEPT !.status = "Closed"]
    <2>1. /\ d \in Connections /\ d.remote = connection.remote /\ d.status = "Closed"
          /\ d.remoteFinished = connection.remoteFinished
          /\ d.retryCounter = connection.retryCounter /\ d.retryTimer = connection.retryTimer
      BY <1>1 DEF Connections, Status
    <2>2. connection.status # "Listen" /\ s.source = connection.remote /\ s.reset
      BY <1>3 DEF ReceiveReset, Ignored, Foreign
    <2>3. Conclude(s, d, FALSE, frame, closeFrame)
      BY <1>3 DEF ReceiveReset
    <2> HIDE DEF d
    <2>4. Moves(connection, d, s) /\ connection.remote # NoRemote
      BY <2>1, <2>2 DEF Moves, Phased
    <2> QED
      BY <2>1, <2>3, <2>4, ConcludeMoves
  <1>4. CASE ReceiveSyn(s, frame, closeFrame)
    <2> DEFINE d == [AfterSyn(connection, s) EXCEPT !.localAcknowledgment = Wrap(s.sequenceNumber + 1)]
    <2>1. ~Ignored(connection, s) /\ ~s.reset /\ s.synchronize
      BY <1>4 DEF ReceiveSyn
    <2>2. Conclude(s, d, TRUE, frame, closeFrame)
      BY <1>4 DEF ReceiveSyn
    <2>3. Moves(connection, d, s) /\ d.status = "SynReceived"
      BY <1>1, <2>1, SynMoves
    <2> HIDE DEF d
    <2>4. d \in Connections /\ d.remote # NoRemote
      BY <2>3 DEF Moves, Phased
    <2> QED
      BY <2>2, <2>3, <2>4, ConcludeMoves
  <1>5. CASE ReceiveStaleFinish(s, frame, closeFrame)
    <2> DEFINE d == AfterAcknowledgment(connection, s)
    <2>1. Carries(connection, s) /\ Conclude(s, d, FALSE, frame, closeFrame)
      BY <1>5 DEF ReceiveStaleFinish
    <2>2. Moves(connection, d, s) /\ connection.remote # NoRemote /\ d.status # "Finished"
      BY <1>1, <2>1, AcknowledgmentMoves
    <2> HIDE DEF d
    <2>3. d \in Connections
      BY <2>2 DEF Moves
    <2> QED
      BY <2>1, <2>2, <2>3, ConcludeMoves
  <1>6. CASE ReceiveSegment(s, frame, closeFrame)
    <2> DEFINE d == AfterAcknowledgment(connection, s)
               e == AfterPayload(AfterFinish(d, s), s)
    <2>1. /\ Carries(connection, s)
          /\ Conclude(s, e, s.finish \/ s.length > 0, frame, closeFrame)
      BY <1>6 DEF ReceiveSegment
    <2>2. /\ Moves(connection, d, s) /\ connection.remote # NoRemote /\ d.status # "Finished"
          /\ d.status \notin {"Listen", "SynReceived", "Closed"} /\ s.source = connection.remote
      BY <1>1, <2>1, AcknowledgmentMoves
    <2> HIDE DEF d
    <2>3. d \in Connections /\ d.remote = connection.remote
      BY <2>2 DEF Moves
    <2>4. Moves(connection, e, s) /\ e.status = d.status /\ e.remote = d.remote
      BY <1>1, <2>2, <2>3, SegmentMoves
    <2> HIDE DEF e
    <2>5. e \in Connections /\ (s.finish \/ s.length > 0) \in BOOLEAN
      BY <2>4 DEF Moves
    <2> QED
      BY <2>1, <2>2, <2>3, <2>4, <2>5, ConcludeMoves
  <1> QED
    BY <1>2, <1>3, <1>4, <1>5, <1>6 DEF Received

(* poll() counts, and gives up only past MaxRetries.                        *)
LEMMA PollMoves ==
    ASSUME TypeOK, Phased(connection), NEW frame \in BOOLEAN, Poll(frame)
    PROVE  /\ Phased(connection') /\ connection'.remote = connection.remote
           /\ connection'.remoteFinished = connection.remoteFinished
           /\ connection'.localAcknowledgment = connection.localAcknowledgment
           /\ connection.retryTimer = 0 /\ connection.remote # NoRemote
           /\ \/ /\ connection.status = "TimedClose" /\ connection'.status = "Finished"
                 /\ connection'.retryCounter = connection.retryCounter
                 /\ connection'.retryTimer = connection.retryTimer
              \/ /\ connection.status # "Closed" /\ connection'.status = "Closed"
                 /\ connection'.retryCounter = (connection.retryCounter + 1) % CounterSpace
                 /\ connection'.retryCounter > MaxRetries
              \/ /\ connection'.status = connection.status
                 /\ connection.status # "Closed"
                 /\ connection'.retryCounter = (connection.retryCounter + 1) % CounterSpace
                 /\ connection'.retryCounter <= MaxRetries
                 /\ frame => connection'.retryTimer = RetryPeriod
           /\ \A m \in network' : m \in network \/ BoardSegment(connection', m)
  <1> DEFINE d == Counted(connection)
  <1>1. connection \in Connections
    BY DEF TypeOK
  <1>2. /\ d \in Connections /\ d.remote = connection.remote /\ d.status = connection.status
        /\ d.remoteFinished = connection.remoteFinished
        /\ d.localAcknowledgment = connection.localAcknowledgment
        /\ d.localSequenceNumber = connection.localSequenceNumber
        /\ d.retryCounter = (connection.retryCounter + 1) % CounterSpace
        /\ d.retryTimer = connection.retryTimer
    <2>1. (connection.retryCounter + 1) % CounterSpace \in 0 .. CounterSpace - 1
      BY <1>1 DEF Connections, CounterSpace
    <2> QED
      BY <1>1, <2>1 DEF Connections, Counted
  <1>3. Due(connection)
    BY DEF Poll, PollFinish, PollGiveUp, PollRetry
  <1>4. connection.retryTimer = 0 /\ connection.remote # NoRemote /\ connection.status # "Closed"
    BY <1>3 DEF Due, Phased
  <1>5. CASE PollFinish
    <2>1. /\ connection'.status = "Finished" /\ connection'.remote = connection.remote
          /\ connection'.remoteFinished = connection.remoteFinished
          /\ connection'.localAcknowledgment = connection.localAcknowledgment
          /\ connection'.retryCounter = connection.retryCounter
          /\ connection'.retryTimer = connection.retryTimer
          /\ connection.status = "TimedClose" /\ network' = network
      BY <1>1, <1>5 DEF PollFinish, Connections
    <2> QED
      BY <1>4, <2>1 DEF Phased
  <1>6. CASE PollGiveUp
    <2>1. /\ connection' = [d EXCEPT !.status = "Closed"] /\ network' = network
          /\ d.retryCounter > MaxRetries
      BY <1>6 DEF PollGiveUp
    <2> HIDE DEF d
    <2>2. /\ connection'.status = "Closed" /\ connection'.remote = connection.remote
          /\ connection'.remoteFinished = connection.remoteFinished
          /\ connection'.localAcknowledgment = connection.localAcknowledgment
          /\ connection'.retryCounter = d.retryCounter
      BY <1>2, <2>1 DEF Connections
    <2> QED
      BY <1>2, <1>4, <2>1, <2>2 DEF Phased
  <1>7. CASE PollRetry(frame)
    <2>1. /\ connection' = Armed(d, frame) /\ network' = network \cup Sends(d, frame)
          /\ d.retryCounter <= MaxRetries
      BY <1>7 DEF PollRetry, Transmit
    <2> HIDE DEF d
    <2>2. /\ connection'.status = d.status /\ connection'.remote = d.remote
          /\ connection'.remoteFinished = d.remoteFinished
          /\ connection'.localAcknowledgment = d.localAcknowledgment
          /\ connection'.localSequenceNumber = d.localSequenceNumber
          /\ connection'.retryCounter = d.retryCounter
          /\ frame => connection'.retryTimer = RetryPeriod
      BY <1>2, <2>1, ArmedKeeps, ArmedMoves
    <2>3. Phased(d) /\ Phased(connection')
      BY <1>2, <2>2 DEF Phased
    <2>4. \A m \in Sends(d, frame) : BoardSegment(connection', m)
      BY <1>2, <1>4, <2>2, <2>3, SendsSegments DEF BoardSegment
    <2> QED
      BY <1>2, <1>4, <2>1, <2>2, <2>3, <2>4
  <1> QED
    BY <1>5, <1>6, <1>7 DEF Poll
-----------------------------------------------------------------------------
(* What a step of host p changes: more acknowledged, more finished, and     *)
(* nothing said that is not so.                                             *)
HostMoves(p) ==
    /\ connection' = connection /\ receiveBuffer' = receiveBuffer
    /\ \A q \in Peers \ {p} : peer'[q] = peer[q]
    /\ peer'[p].remoteNext \in 0 .. 2 /\ peer'[p].remoteNext >= peer[p].remoteNext
    /\ peer'[p].state \in {"idle", "syn"} => peer'[p].remoteNext = 0
    /\ peer[p].finSent => peer'[p].finSent
    /\ peer[p].state = "aborted" => peer'[p].state = "aborted"
    /\ \A m \in network' : m \in network \/
          /\ m.source = Endpoint(p) /\ m.acknowledgmentNumber <= peer'[p].remoteNext
          /\ m.finish => peer'[p].finSent
          /\ m.reset => peer'[p].state = "aborted"

LEMMA PeerMoves ==
    ASSUME EndingsInv, NEW p \in Peers, PeerStep(p)
    PROVE  HostMoves(p)
  <1>1. /\ peer \in [Peers -> Uploads] /\ peer[p] \in Uploads
        /\ peer[p].remoteNext \in 0 .. 2
        /\ peer[p].state \in {"idle", "syn"} => peer[p].remoteNext = 0
    BY DEF EndingsInv, TypeOK, HostCounts
  <1>2. Wrap(1) = 1 /\ Wrap(2) = 2
    BY WrapSmall, SequenceSpaceAssumption, StreamAssumption
  <1>3. connection' = connection /\ receiveBuffer' = receiveBuffer
    BY DEF PeerStep, PeerConnect, PeerProbe, PeerEstablish, PeerReceive, PeerSend, PeerAbort
  <1>4. /\ SynOf(p).source = Endpoint(p) /\ SynOf(p).acknowledgmentNumber = 0
        /\ SynOf(p).finish = FALSE /\ SynOf(p).reset = FALSE
    BY DEF SynOf, PlainSegment
  <1>5. CASE PeerConnect(p)
    <2>1. /\ \A q \in Peers \ {p} : peer'[q] = peer[q]
          /\ peer'[p].state = "syn" /\ peer'[p].finSent = peer[p].finSent
          /\ peer'[p].remoteNext = peer[p].remoteNext
          /\ network' = network \cup {SynOf(p)} /\ peer[p].state \in {"idle", "syn"}
      BY <1>1, <1>5 DEF PeerConnect, Uploads
    <2> QED
      BY <1>1, <1>3, <1>4, <2>1 DEF HostMoves
  <1>6. ASSUME NEW port \in ProbePorts, PeerProbe(p, port)
        PROVE  HostMoves(p)
    <2> DEFINE m == [SynOf(p) EXCEPT !.destination.port = port]
    <2>1. peer' = peer /\ network' = network \cup {m}
      BY <1>6 DEF PeerProbe
    <2>2. /\ m.source = Endpoint(p) /\ m.acknowledgmentNumber = 0
          /\ m.finish = FALSE /\ m.reset = FALSE
      BY DEF SynOf, PlainSegment
    <2> HIDE DEF m
    <2> QED
      BY <1>1, <1>3, <2>1, <2>2 DEF HostMoves
  <1>7. ASSUME NEW s \in network, PeerEstablish(p, s)
        PROVE  HostMoves(p)
    <2>1. s.sequenceNumber = 0
      BY <1>7 DEF PeerEstablish, EndingsInv, BoardSaid
    <2>2. /\ \A q \in Peers \ {p} : peer'[q] = peer[q]
          /\ peer'[p].finSent = peer[p].finSent
          /\ peer'[p].state = "open" /\ peer[p].state \in {"syn", "open"}
          /\ \/ peer[p].state = "syn" /\ peer'[p].remoteNext = Wrap(s.sequenceNumber + 1)
             \/ peer'[p].remoteNext = peer[p].remoteNext
      BY <1>1, <1>7 DEF PeerEstablish, Uploads
    <2>3. /\ peer'[p].remoteNext \in 0 .. 2 /\ peer'[p].remoteNext >= peer[p].remoteNext
      BY <1>1, <1>2, <2>1, <2>2
    <2> DEFINE m == [PeerSegment(p, SendNext(p)) EXCEPT !.acknowledgmentNumber = peer'[p].remoteNext]
    <2>4. network' = (network \ Delivered(s)) \cup {m}
      BY <1>7 DEF PeerEstablish
    <2>5. /\ m.source = Endpoint(p) /\ m.acknowledgmentNumber = peer'[p].remoteNext
          /\ m.finish = FALSE /\ m.reset = FALSE
      BY DEF PeerSegment, PlainSegment
    <2> HIDE DEF m
    <2> QED
      BY <1>3, <2>2, <2>3, <2>4, <2>5 DEF HostMoves
  <1>8. ASSUME NEW s \in network, PeerReceive(p, s)
        PROVE  HostMoves(p)
    <2>1. s.finish => s.sequenceNumber = 1
      BY <1>8 DEF PeerReceive, EndingsInv, BoardSaid
    <2>2. PICK n : peer' = [peer EXCEPT ![p].acknowledged = n,
                               ![p].remoteNext = IF s.finish /\ s.sequenceNumber = @
                                                 THEN Wrap(@ + 1) ELSE @]
      BY <1>8 DEF PeerReceive
    <2>3. /\ \A q \in Peers \ {p} : peer'[q] = peer[q]
          /\ peer'[p].finSent = peer[p].finSent /\ peer'[p].state = peer[p].state
          /\ peer'[p].remoteNext = IF s.finish /\ s.sequenceNumber = peer[p].remoteNext
                                   THEN Wrap(peer[p].remoteNext + 1) ELSE peer[p].remoteNext
          /\ peer[p].state = "open"
      BY <1>1, <1>8, <2>2 DEF PeerReceive, Uploads
    <2>4. /\ peer'[p].remoteNext \in 0 .. 2 /\ peer'[p].remoteNext >= peer[p].remoteNext
      BY <1>1, <1>2, <2>1, <2>3
    <2> DEFINE m == [PeerSegment(p, SendNext(p)) EXCEPT !.acknowledgmentNumber = peer'[p].remoteNext]
    <2>5. network' \subseteq network \cup {m}
      BY <1>8 DEF PeerReceive
    <2>6. /\ m.source = Endpoint(p) /\ m.acknowledgmentNumber = peer'[p].remoteNext
          /\ m.finish = FALSE /\ m.reset = FALSE
      BY DEF PeerSegment, PlainSegment
    <2> HIDE DEF m
    <2> QED
      BY <1>3, <2>3, <2>4, <2>5, <2>6 DEF HostMoves
  <1>9. ASSUME NEW from \in 0 .. StreamLength, NEW length \in 0 .. MaxSegment,
               NEW finish \in BOOLEAN, NEW trailing \in Trailings,
               PeerSend(p, from, length, finish, trailing)
        PROVE  HostMoves(p)
    <2>1. /\ \A q \in Peers \ {p} : peer'[q] = peer[q]
          /\ peer[p].finSent \/ finish => peer'[p].finSent
          /\ peer'[p].state = peer[p].state /\ peer'[p].remoteNext = peer[p].remoteNext
          /\ peer[p].state = "open"
      BY <1>1, <1>9 DEF PeerSend, Uploads
    <2> DEFINE m == [PeerSegment(p, NumberOf(p, from)) EXCEPT
                       !.length = length, !.finish = finish, !.trailing = trailing]
    <2>2. network' = network \cup {m}
      BY <1>9 DEF PeerSend
    <2>3. /\ m.source = Endpoint(p) /\ m.acknowledgmentNumber = peer[p].remoteNext
          /\ m.finish = finish /\ m.reset = FALSE
      BY DEF PeerSegment, PlainSegment
    <2> HIDE DEF m
    <2> QED
      BY <1>1, <1>3, <2>1, <2>2, <2>3 DEF HostMoves
  <1>10. CASE PeerAbort(p)
    <2>1. /\ \A q \in Peers \ {p} : peer'[q] = peer[q]
          /\ peer'[p].finSent = peer[p].finSent
          /\ peer'[p].state = "aborted" /\ peer'[p].remoteNext = peer[p].remoteNext
      BY <1>1, <1>10 DEF PeerAbort, Uploads
    <2> DEFINE m == [PeerSegment(p, SendNext(p)) EXCEPT !.reset = TRUE]
    <2>2. network' = network \cup {m}
      BY <1>10 DEF PeerAbort
    <2>3. /\ m.source = Endpoint(p) /\ m.acknowledgmentNumber = peer[p].remoteNext
          /\ m.finish = FALSE
      BY DEF PeerSegment, PlainSegment
    <2> HIDE DEF m
    <2> QED
      BY <1>1, <1>3, <2>1, <2>2, <2>3 DEF HostMoves
  <1> QED
    BY <1>5, <1>6, <1>7, <1>8, <1>9, <1>10 DEF PeerStep

(* Refusals say nothing, whoever they seem to come from.                    *)
LEMMA RefusalSays ==
    ASSUME TypeOK, NEW s \in network, BoardRefuse(s)
    PROVE  /\ Refusal(s).source # Local /\ Refusal(s).acknowledgmentNumber = 0
           /\ Refusal(s).acknowledgment = FALSE
           /\ Refusal(s).finish = FALSE /\ Refusal(s).reset = FALSE
           /\ network' \subseteq network \cup {Refusal(s)}
           /\ UNCHANGED <<connection, receiveBuffer, peer>>
  <1>1. s \in ToBoard
    BY ToBoardOnly DEF BoardRefuse, Refuse, TypeOK
  <1>2. s.source.host \in Peers
    BY <1>1 DEF ToBoard, Between, Endpoints, Endpoint
  <1>3. Refusal(s).source # Local
    BY <1>2, PeersAssumption DEF Refusal, PlainSegment, Local
  <1> QED
    BY <1>3 DEF Refusal, PlainSegment, BoardRefuse, Refuse

LEMMA EndingsStep ==
    ASSUME EndingsInv, [Next]_vars
    PROVE  EndingsInv'
  <1>1. /\ TypeOK /\ TypeOK' /\ connection \in Connections /\ Phased(connection)
        /\ \A p \in Peers : peer[p] \in Uploads
    BY TypeInductive DEF EndingsInv, TypeOK
  <1>2. ASSUME NEW p \in Peers, PeerStep(p)
        PROVE  EndingsInv'
    <2>1. HostMoves(p)
      BY <1>2, PeerMoves
    <2>2. \A m \in network' : BoardSaid(connection, m)
      BY <2>1, EndpointFacts DEF HostMoves, EndingsInv, BoardSaid
    <2>3. /\ peer[p].remoteNext \in 0 .. 2 /\ peer'[p].remoteNext \in 0 .. 2
          /\ peer'[p].remoteNext >= peer[p].remoteNext
      BY <2>1 DEF HostMoves, EndingsInv, HostCounts
    <2>4. ASSUME NEW m \in network', NEW q \in Peers, m.source = Endpoint(q)
          PROVE  /\ m.acknowledgmentNumber <= peer'[q].remoteNext
                 /\ m.finish => peer'[q].finSent
                 /\ m.reset => peer'[q].state = "aborted"
      <3>1. CASE m \in network
        <4>1. m.acknowledgmentNumber \in Nat
          BY <1>1, <3>1 DEF TypeOK, ToBoard, FromBoard, Between, Numbers
        <4> QED
          BY <2>1, <2>3, <2>4, <3>1, <4>1 DEF HostMoves, EndingsInv, HostSaid
      <3>2. CASE m \notin network
        BY <2>1, <2>4, <3>2, EndpointFacts DEF HostMoves
      <3> QED
        BY <3>1, <3>2
    <2>5. ASSUME NEW q \in Peers
          PROVE  HostCounts(q)' /\ Justified(connection, q)'
      <3>1. HostCounts(q) /\ Justified(connection, q)
        BY DEF EndingsInv
      <3>2. CASE q # p
        BY <2>1, <3>1, <3>2 DEF HostMoves, HostCounts, Justified
      <3>3. CASE q = p
        BY <2>1, <2>3, <3>1, <3>3 DEF HostMoves, HostCounts, Justified
      <3> QED
        BY <3>2, <3>3
    <2> QED
      BY <1>1, <2>1, <2>2, <2>4, <2>5 DEF EndingsInv, HostMoves, BoardSaid, HostSaid, Phased
  <1>3. ASSUME peer' = peer, Phased(connection'),
               connection.remote # NoRemote => connection'.remote = connection.remote,
               \A m \in network' : m \in network \/ BoardSegment(connection', m),
               \A p \in Peers : Justified(connection', p)
        PROVE  EndingsInv'
    <2>1. ASSUME NEW m \in network'
          PROVE  BoardSaid(connection', m) /\ \A p \in Peers : HostSaid(p, m)'
      <3>1. CASE m \in network
        BY <1>3, <3>1 DEF EndingsInv, BoardSaid, HostSaid
      <3>2. CASE BoardSegment(connection', m)
        BY <3>2, EndpointFacts DEF BoardSegment, BoardSaid, HostSaid
      <3> QED
        BY <1>3, <3>1, <3>2
    <2>2. \A p \in Peers : HostCounts(p)'
      BY <1>3 DEF EndingsInv, HostCounts
    <2> QED
      BY <1>1, <1>3, <2>1, <2>2 DEF EndingsInv, Phased, BoardSaid, HostSaid, Justified
  <1>4. ASSUME NEW s \in network, BoardReceive(s)
        PROVE  EndingsInv'
    <2>1. PICK frame \in BOOLEAN, closeFrame \in BOOLEAN : Received(s, frame, closeFrame)
      BY <1>4, FrameResultsAssumption DEF BoardReceive
    <2>2. s.destination = Local /\ Loading /\ peer' = peer
      BY <1>4 DEF BoardReceive
    <2>3. /\ Moves(connection, connection', s)
          /\ \A m \in network' : m \in network \/ BoardSegment(connection', m)
      BY <1>1, <2>1, <2>2, ReceivedMoves
    <2>4. ASSUME NEW p \in Peers, connection'.remote = Endpoint(p)
          PROVE  /\ connection'.remoteFinished => peer[p].finSent
                 /\ connection'.status \in {"TimedClose", "Finished"} => peer[p].remoteNext = 2
                 /\ connection'.status = "Closed" =>
                       connection'.retryCounter > MaxRetries \/ peer[p].state = "aborted"
      <3>1. /\ s.source = Endpoint(p) =>
                  /\ s.acknowledgmentNumber <= peer[p].remoteNext
                  /\ s.finish => peer[p].finSent
                  /\ s.reset => peer[p].state = "aborted"
            /\ peer[p].remoteNext \in 0 .. 2
        BY DEF EndingsInv, HostSaid, HostCounts
      <3>2. \/ connection.remote = Endpoint(p)
            \/ connection.status = "Listen" /\ ~connection.remoteFinished
        BY <1>1, <2>3, <2>4 DEF Moves, Phased
      <3>3. /\ Justified(connection, p)
        BY DEF EndingsInv
      <3> QED
        BY <2>3, <2>4, <3>1, <3>2, <3>3 DEF Moves, Justified
    <2>5. \A p \in Peers : Justified(connection', p)
      BY <2>2, <2>4 DEF Justified
    <2> QED
      BY <1>3, <2>2, <2>3, <2>5 DEF Moves
  <1>5. ASSUME NEW s \in network, BoardRefuse(s)
        PROVE  EndingsInv'
    <2>1. /\ Refusal(s).source # Local /\ Refusal(s).acknowledgmentNumber = 0
          /\ Refusal(s).finish = FALSE /\ Refusal(s).reset = FALSE
          /\ network' \subseteq network \cup {Refusal(s)}
          /\ connection' = connection /\ peer' = peer
      BY <1>1, <1>5, RefusalSays
    <2>2. ASSUME NEW m \in network'
          PROVE  BoardSaid(connection, m) /\ \A p \in Peers : HostSaid(p, m)
      <3>1. CASE m \in network
        BY <3>1 DEF EndingsInv
      <3>2. CASE m = Refusal(s)
        BY <2>1, <3>2 DEF BoardSaid, HostSaid, EndingsInv, HostCounts
      <3> QED
        BY <2>1, <3>1, <3>2
    <2> QED
      BY <1>1, <2>1, <2>2 DEF EndingsInv, Phased, BoardSaid, HostSaid, HostCounts, Justified
  <1>6. CASE BoardPoll
    <2>1. PICK frame \in BOOLEAN : Poll(frame)
      BY <1>6, FrameResultsAssumption DEF BoardPoll
    <2>2. peer' = peer
      BY <1>6 DEF BoardPoll
    <2>3. \A p \in Peers : Justified(connection', p)
      BY <1>1, <2>1, PollMoves DEF EndingsInv, Justified
    <2> QED
      BY <1>1, <1>3, <2>1, <2>2, <2>3, PollMoves
  <1>7. CASE ClockTick
    <2>1. /\ network' = network /\ peer' = peer
          /\ connection'.remote = connection.remote
          /\ connection'.status = connection.status
          /\ connection'.remoteFinished = connection.remoteFinished
          /\ connection'.localSequenceNumber = connection.localSequenceNumber
          /\ connection'.retryCounter = connection.retryCounter
      BY <1>1, <1>7 DEF ClockTick, Tick, Connections
    <2>2. Phased(connection') /\ \A p \in Peers : Justified(connection', p)
      BY <1>1, <2>1 DEF EndingsInv, Phased, Justified
    <2> QED
      BY <1>3, <2>1, <2>2
  <1>8. CASE UNCHANGED vars
    BY <1>1, <1>8 DEF vars, EndingsInv, Phased, BoardSaid, HostSaid, HostCounts, Justified
  <1> QED
    BY <1>2, <1>4, <1>5, <1>6, <1>7, <1>8 DEF Next

LEMMA EndingsInitial ==
    ASSUME Init
    PROVE  EndingsInv
  <1>1. /\ connection.status = "Listen" /\ connection.remote = NoRemote
        /\ connection.localSequenceNumber = 0 /\ connection.remoteFinished = FALSE
        /\ network = {}
        /\ \A p \in Peers : peer[p].remoteNext = 0
    BY DEF Init, InitialConnection, InitialPeer
  <1> QED
    BY <1>1, TypeInitial, EndpointFacts DEF EndingsInv, Phased, HostCounts, Justified

LEMMA EndingsSuffice ==
    ASSUME EndingsInv
    PROVE  ClosedForCause
  <1>1. connection \in Connections /\ Phased(connection)
    BY DEF EndingsInv, TypeOK
  <1>2. ASSUME connection.status = "Closed"
        PROVE  \E p \in Peers : connection.remote = Endpoint(p)
    <2>1. connection.remote # NoRemote /\ connection.remote \in Endpoints \cup {NoRemote}
      BY <1>1, <1>2 DEF Phased, Connections
    <2> QED
      BY <2>1 DEF Endpoints
  <1> QED
    BY <1>2 DEF EndingsInv, Justified, ClosedForCause

(* A download fails only because the bound host sent a RST or because more  *)
(* polls than MaxRetries found the retry timer expired: for every number of *)
(* hosts, image, network and number of retries, sequence numbers that wrap  *)
(* and options behind an End included.                                      *)
THEOREM FailsForCause == Spec => []ClosedForCause
  BY EndingsInitial, EndingsStep, EndingsSuffice, PTL DEF Spec
-----------------------------------------------------------------------------
(* What follows needs an image that does not cross the end of the sequence  *)
(* space: then acknowledgments are numbers that only grow.                  *)

LEMMA MutualSuffices ==
    ASSUME NoOverflow, ContractInv, EndingsInv
    PROVE  FinishedIsMutual
  <1>1. /\ connection \in Connections /\ Storage(connection, receiveBuffer)
        /\ receiveBuffer \in [DOMAIN receiveBuffer -> Bytes]
        /\ Ending(connection)
    BY DEF ContractInv, StorageInv, TypeOK
  <1>2. ASSUME connection.status \in {"TimedClose", "Finished"}
        PROVE  \E p \in Peers : /\ connection.remote = Endpoint(p)
                               /\ peer[p].finSent /\ peer[p].remoteNext = 2
                               /\ Accepted(p) = StreamLength + 1
    <2>1. connection.remoteFinished
      BY <1>1, <1>2 DEF Ending
    <2>2. PICK p \in Peers : /\ connection.remote = Endpoint(p)
                             /\ connection.localAcknowledgment = Isn[p] + StreamLength + 2
      BY <1>1, <2>1 DEF Ending
    <2>3. Accepted(p) = connection.localAcknowledgment - (Isn[p] + 1)
      BY <1>1, <2>2, StorageMeans DEF Accepted
    <2>4. Isn[p] \in Int /\ StreamLength \in Int
      BY IsnAssumption, SequenceSpaceAssumption, StreamAssumption
    <2>5. Accepted(p) = StreamLength + 1
      BY <2>2, <2>3, <2>4
    <2>6. peer[p].finSent /\ peer[p].remoteNext = 2
      BY <1>2, <2>1, <2>2 DEF EndingsInv, Justified
    <2> QED
      BY <2>2, <2>5, <2>6
  <1> QED
    BY <1>2 DEF FinishedIsMutual

(* The main loop stops waiting only when the host has sent its FIN behind   *)
(* the whole image, the board has taken both, and the host has seen the     *)
(* board's FIN.                                                             *)
THEOREM FinishIsMutual ==
    ASSUME NoOverflow, NoTrailing
    PROVE  Spec => []FinishedIsMutual
  <1>1. Init => ContractInv /\ EndingsInv
    BY ContractInitial, EndingsInitial
  <1>2. ContractInv /\ EndingsInv /\ [Next]_vars => (ContractInv /\ EndingsInv)'
    BY ContractStep, EndingsStep
  <1>3. ContractInv /\ EndingsInv => FinishedIsMutual
    BY MutualSuffices
  <1> QED
    BY <1>1, <1>2, <1>3, PTL DEF Spec

(* No acknowledgment on the wire is ahead of the board, and none that a     *)
(* host has taken.                                                          *)
TakenInv ==
    /\ \A m \in network : m.source = Local /\ m.acknowledgment =>
          m.acknowledgmentNumber <= connection.localAcknowledgment
    /\ \A p \in Peers : peer[p].acknowledged > 0 =>
          /\ connection.remote = Endpoint(p)
          /\ connection.localAcknowledgment >= Isn[p] + 1 + peer[p].acknowledged

LEMMA PeerTakes ==
    ASSUME NoOverflow, TypeOK, NEW p \in Peers, PeerStep(p)
    PROVE  \/ peer'[p].acknowledged = peer[p].acknowledged
           \/ \E s \in network : /\ s.source = Local /\ s.destination = Endpoint(p)
                                 /\ s.acknowledgment
                                 /\ s.acknowledgmentNumber = Isn[p] + 1 + peer'[p].acknowledged
  <1>1. peer \in [Peers -> Uploads] /\ peer[p] \in Uploads
    BY DEF TypeOK
  <1>2. CASE PeerConnect(p)
    BY <1>1, <1>2 DEF PeerConnect, Uploads
  <1>3. ASSUME NEW port \in ProbePorts, PeerProbe(p, port)
        PROVE  peer'[p].acknowledged = peer[p].acknowledged
    BY <1>3 DEF PeerProbe
  <1>4. ASSUME NEW s \in network, PeerEstablish(p, s)
        PROVE  peer'[p].acknowledged = peer[p].acknowledged
    BY <1>1, <1>4 DEF PeerEstablish, Uploads
  <1>5. ASSUME NEW s \in network, PeerReceive(p, s)
        PROVE  \/ peer'[p].acknowledged = peer[p].acknowledged
               \/ /\ s.source = Local /\ s.destination = Endpoint(p) /\ s.acknowledgment
                  /\ s.acknowledgmentNumber = Isn[p] + 1 + peer'[p].acknowledged
    <2>1. PICK n \in IF AcknowledgedBy(p, s) = {} THEN {peer[p].acknowledged} ELSE AcknowledgedBy(p, s) :
             peer' = [peer EXCEPT ![p].acknowledged = n,
                               ![p].remoteNext = IF s.finish /\ s.sequenceNumber = @
                                                 THEN Wrap(@ + 1) ELSE @]
      BY <1>5 DEF PeerReceive
    <2>2. peer'[p].acknowledged = n
      BY <1>1, <2>1 DEF Uploads
    <2>3. ASSUME AcknowledgedBy(p, s) # {}
          PROVE  s.acknowledgmentNumber = Isn[p] + 1 + n
      <3>1. n \in peer[p].acknowledged .. Sequenced(p) /\ s.acknowledgmentNumber = NumberOf(p, n)
        BY <2>1, <2>3 DEF AcknowledgedBy
      <3>2. n \in 0 .. StreamLength + 1
        BY <1>1, <3>1, SequencedType, StreamAssumption DEF Uploads
      <3> QED
        BY <3>1, <3>2, NumberOfStream
    <2>4. s.source = Local /\ s.destination = Endpoint(p) /\ s.acknowledgment
      BY <1>5 DEF PeerReceive
    <2> QED
      BY <2>1, <2>2, <2>3, <2>4
  <1>6. ASSUME NEW from \in 0 .. StreamLength, NEW length \in 0 .. MaxSegment,
               NEW finish \in BOOLEAN, NEW trailing \in Trailings,
               PeerSend(p, from, length, finish, trailing)
        PROVE  peer'[p].acknowledged = peer[p].acknowledged
    BY <1>1, <1>6 DEF PeerSend, Uploads
  <1>7. CASE PeerAbort(p)
    BY <1>1, <1>7 DEF PeerAbort, Uploads
  <1> QED
    BY <1>2, <1>3, <1>4, <1>5, <1>6, <1>7 DEF PeerStep

LEMMA TakenStep ==
    ASSUME NoOverflow, NoTrailing, ContractInv, EndingsInv, TakenInv, [Next]_vars
    PROVE  TakenInv'
  <1>1. /\ TypeOK /\ connection \in Connections /\ connection' \in Connections
        /\ Phased(connection)
        /\ \A p \in Peers : peer[p] \in Uploads /\ peer'[p] \in Uploads /\ Isn[p] \in Nat
        /\ connection.localAcknowledgment \in Nat /\ connection'.localAcknowledgment \in Nat
    BY TypeInductive, IsnAssumption, SequenceSpaceAssumption
    DEF EndingsInv, TypeOK, Connections, Numbers
  <1>2. Preserving \/ UNCHANGED <<connection, receiveBuffer>>
    BY StorageStep DEF ContractInv
  <1>3. connection.remote # NoRemote =>
          /\ connection'.remote = connection.remote
          /\ connection'.localAcknowledgment >= connection.localAcknowledgment
    BY <1>1, <1>2 DEF Preserving
  <1>4. \A m \in network : m.source = Local =>
          connection.remote # NoRemote /\ m.destination = connection.remote
    BY DEF EndingsInv, BoardSaid
  <1>5. ASSUME NEW m \in network, m.source = Local, m.acknowledgment
        PROVE  m.acknowledgmentNumber <= connection'.localAcknowledgment
    <2>1. m.acknowledgmentNumber \in Nat
      BY <1>1 DEF TypeOK, ToBoard, FromBoard, Between, Numbers
    <2> QED
      BY <1>1, <1>3, <1>4, <1>5, <2>1 DEF TakenInv
  <1>6. ASSUME NEW p \in Peers, peer[p].acknowledged > 0
        PROVE  /\ connection'.remote = Endpoint(p)
               /\ connection'.localAcknowledgment >= Isn[p] + 1 + peer[p].acknowledged
    <2>1. peer[p].acknowledged \in Nat
      BY <1>1, StreamAssumption DEF Uploads
    <2> QED
      BY <1>1, <1>3, <1>6, <2>1, EndpointFacts DEF TakenInv
  <1>7. ASSUME NEW p \in Peers, PeerStep(p)
        PROVE  TakenInv'
    <2>1. HostMoves(p)
      BY <1>7, PeerMoves
    <2>2. \A m \in network' : m \in network \/ m.source # Local
      BY <2>1, EndpointFacts DEF HostMoves
    <2>3. ASSUME NEW q \in Peers, peer'[q].acknowledged > 0
          PROVE  /\ connection'.remote = Endpoint(q)
                 /\ connection'.localAcknowledgment >= Isn[q] + 1 + peer'[q].acknowledged
      <3>1. CASE peer'[q].acknowledged = peer[q].acknowledged
        BY <1>6, <2>3, <3>1
      <3>2. CASE q = p /\ peer'[q].acknowledged # peer[q].acknowledged
        <4>1. PICK s \in network : /\ s.source = Local /\ s.destination = Endpoint(p)
                                 /\ s.acknowledgment
                                 /\ s.acknowledgmentNumber = Isn[p] + 1 + peer'[p].acknowledged
          BY <1>1, <1>7, <3>2, PeerTakes
        <4>2. connection'.localAcknowledgment >= s.acknowledgmentNumber
          BY <1>1, <1>5, <4>1
        <4> QED
          BY <1>3, <1>4, <3>2, <4>1, <4>2
      <3> QED
        BY <2>1, <3>1, <3>2 DEF HostMoves
    <2> QED
      BY <1>5, <2>2, <2>3 DEF TakenInv
  <1>8. ASSUME peer' = peer,
               \A m \in network' : \/ m \in network \/ m.source # Local
                                   \/ BoardSegment(connection', m)
        PROVE  TakenInv'
    <2>1. ASSUME NEW m \in network', m.source = Local, m.acknowledgment
          PROVE  m.acknowledgmentNumber <= connection'.localAcknowledgment
      <3>1. CASE m \in network
        BY <1>5, <2>1, <3>1
      <3>2. CASE BoardSegment(connection', m)
        BY <1>1, <3>2 DEF BoardSegment
      <3> QED
        BY <1>8, <2>1, <3>1, <3>2
    <2> QED
      BY <1>6, <1>8, <2>1 DEF TakenInv
  <1>9. ASSUME NEW s \in network, BoardReceive(s)
        PROVE  TakenInv'
    <2>1. PICK frame \in BOOLEAN, closeFrame \in BOOLEAN : Received(s, frame, closeFrame)
      BY <1>9, FrameResultsAssumption DEF BoardReceive
    <2>2. s.destination = Local /\ Loading /\ peer' = peer
      BY <1>9 DEF BoardReceive
    <2> QED
      BY <1>1, <1>8, <2>1, <2>2, ReceivedMoves
  <1>10. ASSUME NEW s \in network, BoardRefuse(s)
         PROVE  TakenInv'
    BY <1>1, <1>8, <1>10, RefusalSays
  <1>11. CASE BoardPoll
    <2>1. PICK frame \in BOOLEAN : Poll(frame)
      BY <1>11, FrameResultsAssumption DEF BoardPoll
    <2> QED
      BY <1>1, <1>8, <1>11, <2>1, PollMoves DEF BoardPoll
  <1>12. CASE ClockTick
    BY <1>8, <1>12 DEF ClockTick, Tick
  <1>13. CASE UNCHANGED vars
    BY <1>8, <1>13 DEF vars
  <1> QED
    BY <1>7, <1>9, <1>10, <1>11, <1>12, <1>13 DEF Next

LEMMA TakenSuffices ==
    ASSUME NoOverflow, ContractInv, TakenInv
    PROVE  DeliveredPayloadStored
  <1>1. /\ connection \in Connections /\ Storage(connection, receiveBuffer)
        /\ receiveBuffer \in [DOMAIN receiveBuffer -> Bytes]
        /\ \A p \in Peers : peer[p] \in Uploads
    BY DEF ContractInv, StorageInv, TypeOK
  <1>2. ASSUME NEW p \in Peers, NEW n \in 0 .. StreamLength - 1, n < peer[p].acknowledged
        PROVE  connection.remote = Endpoint(p) /\ Stored(p, n)
    <2>1. /\ Isn[p] \in Nat /\ StreamLength \in Nat /\ peer[p].acknowledged \in Nat
          /\ connection.localAcknowledgment \in Nat
      BY <1>1, IsnAssumption, StreamAssumption, SequenceSpaceAssumption
      DEF Uploads, Connections, Numbers
    <2>2. /\ connection.remote = Endpoint(p)
          /\ connection.localAcknowledgment >= Isn[p] + 1 + peer[p].acknowledged
      BY <1>2, <2>1 DEF TakenInv
    <2>3. n < connection.localAcknowledgment - (Isn[p] + 1)
      BY <1>2, <2>1, <2>2
    <2> QED
      BY <1>1, <2>2, <2>3, StorageMeans DEF Stored, StoredIn
  <1> QED
    BY <1>2 DEF DeliveredPayloadStored

(* What an uploading host takes as delivered, and will never send again, is *)
(* in receiveBuffer: no order of lost, repeated or late acknowledgments     *)
(* tells a host more than the board has stored.                             *)
THEOREM DeliveredIsStored ==
    ASSUME NoOverflow, NoTrailing
    PROVE  Spec => []DeliveredPayloadStored
  <1> DEFINE Inv == ContractInv /\ EndingsInv /\ TakenInv
  <1>1. Init => TakenInv
    BY DEF Init, InitialPeer, TakenInv
  <1>2. Init => Inv
    BY <1>1, ContractInitial, EndingsInitial
  <1>3. Inv /\ [Next]_vars => Inv'
    BY ContractStep, EndingsStep, TakenStep
  <1>4. Inv => DeliveredPayloadStored
    BY TakenSuffices
  <1> QED
    BY <1>2, <1>3, <1>4, PTL DEF Spec
-----------------------------------------------------------------------------
(* Patience, for the specification with the stopwatch.                      *)
PatienceInv ==
    /\ waited \in 0 .. Patience
    /\ FrameResults = {TRUE} =>
          /\ connection.remote = NoRemote => connection.retryCounter = 0
          /\ connection.status # "Closed" => connection.retryCounter <= MaxRetries
          /\ connection.status # "Closed" /\ connection.remote # NoRemote =>
                connection.retryCounter * RetryPeriod + (RetryPeriod - connection.retryTimer) <= waited
          /\ connection.status = "Closed" =>
                waited >= Patience \/ \E p \in Peers : peer[p].state = "aborted"

LEMMA TimesMonotone ==
    ASSUME NEW a \in Nat, NEW b \in Nat, NEW k \in Nat, a <= b
    PROVE  a * k <= b * k /\ a * k \in Nat /\ (a + 1) * k = a * k + k
  <1>1. PICK d \in Nat : b = a + d
    <2>1. b - a \in Nat /\ b = a + (b - a)
      OBVIOUS
    <2> QED
      BY <2>1
  <1>2. b * k = a * k + d * k
    BY <1>1
  <1>3. a * k \in Nat /\ d * k \in Nat
    OBVIOUS
  <1> QED
    BY <1>2, <1>3

LEMMA PatienceStep ==
    ASSUME EndingsInv, PatienceInv, [PatienceNext]_patienceVars
    PROVE  PatienceInv' /\ EndingsInv'
  <1>1. [Next]_vars
    BY DEF PatienceNext, PatienceTick, Next, patienceVars, vars
  <1>2. EndingsInv'
    BY <1>1, EndingsStep
  <1> DEFINE rc == connection.retryCounter
             timer == connection.retryTimer
             used == rc * RetryPeriod
  <1>3. /\ TypeOK /\ connection \in Connections /\ connection' \in Connections
        /\ Phased(connection)
        /\ rc \in 0 .. 255 /\ timer \in 0 .. RetryPeriod /\ connection'.retryTimer \in 0 .. RetryPeriod
        /\ \A p \in Peers : peer[p] \in Uploads
    BY <1>2 DEF EndingsInv, TypeOK, Connections, CounterSpace
  <1>4. /\ RetryPeriod \in Nat /\ MaxRetries \in 0 .. 254 /\ used \in Nat
        /\ Patience = MaxRetries * RetryPeriod + RetryPeriod /\ Patience \in Nat
        /\ MaxRetries * RetryPeriod \in Nat
        /\ (rc + 1) * RetryPeriod = used + RetryPeriod
        /\ rc <= MaxRetries => used <= MaxRetries * RetryPeriod
        /\ (MaxRetries + 1) * RetryPeriod = MaxRetries * RetryPeriod + RetryPeriod
    <2>1. RetryPeriod \in Nat /\ MaxRetries \in 0 .. 254
      BY RetryPeriodAssumption, MaxRetriesAssumption
    <2>2. used \in Nat /\ (rc + 1) * RetryPeriod = used + RetryPeriod
      BY <1>3, <2>1, TimesMonotone
    <2>3. ASSUME rc <= MaxRetries
          PROVE  used <= MaxRetries * RetryPeriod
      <3>1. rc \in Nat /\ MaxRetries \in Nat
        BY <1>3, <2>1
      <3> HIDE DEF rc
      <3> QED
        BY <2>1, <2>3, <3>1, TimesMonotone
    <2>4. /\ MaxRetries * RetryPeriod \in Nat
          /\ (MaxRetries + 1) * RetryPeriod = MaxRetries * RetryPeriod + RetryPeriod
      BY <2>1, TimesMonotone
    <2> QED
      BY <2>1, <2>2, <2>3, <2>4 DEF Patience
  <1> HIDE DEF used
  <1>5. /\ waited \in 0 .. Patience
        /\ FrameResults = {TRUE} =>
              /\ connection.remote = NoRemote => rc = 0
              /\ connection.status # "Closed" => rc <= MaxRetries
              /\ connection.status # "Closed" /\ connection.remote # NoRemote =>
                    used + (RetryPeriod - timer) <= waited
              /\ connection.status = "Closed" =>
                    waited >= Patience \/ \E p \in Peers : peer[p].state = "aborted"
    BY DEF PatienceInv, used
  <1>6. ASSUME connection' = connection, waited' = waited,
               \A p \in Peers : peer[p].state = "aborted" => peer'[p].state = "aborted"
        PROVE  PatienceInv'
    BY <1>6 DEF PatienceInv, Patience
  <1>7. ASSUME NEW p \in Peers, PeerStep(p), waited' = waited
        PROVE  PatienceInv'
    <2>1. HostMoves(p)
      BY <1>7, PeerMoves
    <2> QED
      BY <1>6, <1>7, <2>1 DEF HostMoves
  <1>8. ASSUME NEW s \in network, BoardReceive(s), waited' = waited
        PROVE  PatienceInv'
    <2>1. PICK frame \in FrameResults, closeFrame \in FrameResults : Received(s, frame, closeFrame)
      BY <1>8 DEF BoardReceive
    <2>2. s.destination = Local /\ Loading /\ peer' = peer
      BY <1>8 DEF BoardReceive
    <2>3. frame \in BOOLEAN /\ closeFrame \in BOOLEAN
      BY FrameResultsAssumption
    <2>4. /\ Moves(connection, connection', s)
          /\ connection.remote = NoRemote =>
                connection'.remote = NoRemote \/ (frame => connection'.retryTimer = RetryPeriod)
      BY <1>3, <2>1, <2>2, <2>3, ReceivedMoves
    <2>5. ASSUME FrameResults = {TRUE}
          PROVE  /\ connection'.remote = NoRemote => connection'.retryCounter = 0
                 /\ connection'.status # "Closed" => connection'.retryCounter <= MaxRetries
                 /\ connection'.status # "Closed" /\ connection'.remote # NoRemote =>
                       used + (RetryPeriod - connection'.retryTimer) <= waited
                 /\ connection'.status = "Closed" =>
                       waited >= Patience \/ \E p \in Peers : peer[p].state = "aborted"
      <3>1. frame
        BY <2>1, <2>5
      <3>2. connection'.remote = NoRemote => rc = 0
        BY <1>5, <2>4, <2>5 DEF Moves
      <3>3. connection'.retryCounter = rc
        BY <2>4 DEF Moves
      <3>4. ASSUME connection'.status # "Closed", connection'.remote # NoRemote
            PROVE  used + (RetryPeriod - connection'.retryTimer) <= waited
        <4>1. connection.status # "Closed"
          BY <2>4, <3>4 DEF Moves
        <4>2. CASE connection.remote = NoRemote
          <5>1. rc = 0 /\ connection'.retryTimer = RetryPeriod
            BY <1>5, <2>4, <2>5, <3>1, <3>4, <4>2
          <5>2. used = 0
            BY <1>4, <5>1 DEF used
          <5> QED
            BY <1>4, <1>5, <5>1, <5>2
        <4>3. CASE connection.remote # NoRemote
          BY <1>3, <1>4, <1>5, <2>4, <2>5, <4>1, <4>3 DEF Moves
        <4> QED
          BY <4>2, <4>3
      <3>5. ASSUME connection'.status = "Closed", connection.status # "Closed"
            PROVE  \E p \in Peers : peer[p].state = "aborted"
        <4>1. connection'.remote # NoRemote /\ connection'.remote \in Endpoints \cup {NoRemote}
          BY <1>3, <2>4, <3>5 DEF Moves, Phased, Connections
        <4>2. PICK p \in Peers : connection'.remote = Endpoint(p)
          BY <4>1 DEF Endpoints
        <4>3. s.reset /\ s.source = Endpoint(p)
          BY <2>4, <3>5, <4>2 DEF Moves
        <4> QED
          BY <4>3 DEF EndingsInv, HostSaid
      <3> QED
        BY <1>5, <2>4, <2>5, <3>2, <3>3, <3>4, <3>5 DEF Moves
    <2>6. connection'.retryCounter = rc
      BY <2>4 DEF Moves
    <2> QED
      BY <1>5, <1>8, <2>2, <2>5, <2>6 DEF PatienceInv, Patience, used
  <1>9. ASSUME NEW s \in network, BoardRefuse(s), waited' = waited
        PROVE  PatienceInv'
    BY <1>3, <1>6, <1>9, RefusalSays
  <1>10. ASSUME BoardPoll, waited' = waited
         PROVE  PatienceInv'
    <2>1. PICK frame \in FrameResults : Poll(frame)
      BY <1>10 DEF BoardPoll
    <2>2. frame \in BOOLEAN /\ peer' = peer
      BY <1>10, FrameResultsAssumption DEF BoardPoll
    <2>3. timer = 0 /\ connection.remote # NoRemote /\ connection'.remote = connection.remote
      BY <1>3, <2>1, <2>2, PollMoves
    <2>4. CASE /\ connection.status = "TimedClose" /\ connection'.status = "Finished"
               /\ connection'.retryCounter = connection.retryCounter
               /\ connection'.retryTimer = connection.retryTimer
      BY <1>10, <2>2, <2>3, <2>4 DEF PatienceInv, Patience
    <2>5. CASE /\ connection.status # "Closed"
               /\ connection'.retryCounter = (rc + 1) % CounterSpace
               /\ \/ connection'.status = "Closed" /\ connection'.retryCounter > MaxRetries
                  \/ /\ connection'.status = connection.status
                     /\ connection'.retryCounter <= MaxRetries
                     /\ frame => connection'.retryTimer = RetryPeriod
      <3> SUFFICES ASSUME FrameResults = {TRUE}
                   PROVE  PatienceInv'
        BY <1>5, <1>10, <2>2 DEF PatienceInv, Patience
      <3>1. rc <= MaxRetries /\ used + RetryPeriod <= waited /\ frame
        BY <1>3, <1>4, <1>5, <2>1, <2>3, <2>5
      <3>2. connection'.retryCounter = rc + 1
        BY <1>3, <1>4, <2>5, <3>1 DEF CounterSpace
      <3>3. connection'.retryCounter * RetryPeriod = used + RetryPeriod
        BY <1>4, <3>2
      <3>4. CASE connection'.status = "Closed"
        <4>1. rc = MaxRetries
          BY <1>3, <1>4, <2>5, <3>1, <3>2, <3>4
        <4>2. waited >= Patience
          BY <1>4, <3>1, <4>1 DEF used
        <4> QED
          BY <1>5, <1>10, <2>2, <2>3, <3>4, <4>2 DEF PatienceInv, Patience
      <3>5. CASE connection'.status # "Closed"
        <4>1. connection'.retryTimer = RetryPeriod /\ connection'.retryCounter <= MaxRetries
          BY <2>5, <3>1, <3>5
        <4>2. connection'.retryCounter * RetryPeriod + (RetryPeriod - connection'.retryTimer) <= waited'
          BY <1>4, <1>5, <1>10, <3>1, <3>3, <4>1
        <4> QED
          BY <1>5, <1>10, <2>3, <3>5, <4>1, <4>2 DEF PatienceInv, Patience
      <3> QED
        BY <3>4, <3>5
    <2> QED
      BY <1>3, <2>1, <2>2, <2>4, <2>5, PollMoves
  <1>11. ASSUME ClockTick,
                waited' = IF connection.remote # NoRemote /\ waited < Patience THEN waited + 1 ELSE waited
         PROVE  PatienceInv'
    <2>1. /\ peer' = peer
          /\ connection'.remote = connection.remote
          /\ connection'.status = connection.status
          /\ connection'.retryCounter = rc
          /\ connection'.retryTimer = IF timer > 0 THEN timer - 1 ELSE 0
      BY <1>3, <1>11 DEF ClockTick, Tick, Connections
    <2>2. waited' \in 0 .. Patience /\ waited' >= waited
      BY <1>4, <1>5, <1>11
    <2>3. ASSUME FrameResults = {TRUE}, connection.status # "Closed", connection.remote # NoRemote
          PROVE  used + (RetryPeriod - connection'.retryTimer) <= waited'
      <3>1. used + (RetryPeriod - timer) <= waited /\ used <= MaxRetries * RetryPeriod
        BY <1>4, <1>5, <2>3
      <3>2. CASE waited < Patience
        BY <1>3, <1>4, <1>5, <1>11, <2>1, <2>3, <3>1, <3>2
      <3>3. CASE waited >= Patience
        BY <1>3, <1>4, <1>5, <1>11, <2>1, <3>1, <3>3
      <3> QED
        BY <1>4, <1>5, <3>2, <3>3
    <2>4. FrameResults = {TRUE} /\ connection.status = "Closed" /\ waited >= Patience => waited' >= Patience
      BY <1>4, <1>5, <2>2
    <2> QED
      BY <1>5, <2>1, <2>2, <2>3, <2>4 DEF PatienceInv, Patience, used
  <1>12. CASE UNCHANGED patienceVars
    <2>1. connection' = connection /\ waited' = waited /\ peer' = peer
      BY <1>12 DEF patienceVars, vars
    <2> QED
      BY <1>2, <1>6, <2>1
  <1> QED
    BY <1>2, <1>7, <1>8, <1>9, <1>10, <1>11, <1>12 DEF PatienceNext, PatienceTick

LEMMA PatienceInitial ==
    ASSUME PatienceInit
    PROVE  PatienceInv /\ EndingsInv
  <1>1. /\ connection.status = "Listen" /\ connection.remote = NoRemote
        /\ connection.retryCounter = 0 /\ waited = 0
    BY DEF PatienceInit, Init, InitialConnection
  <1>2. Patience \in Nat
    BY RetryPeriodAssumption, MaxRetriesAssumption, TimesMonotone DEF Patience
  <1>3. connection.remote = NoRemote /\ connection.retryCounter <= MaxRetries
    BY <1>1, MaxRetriesAssumption
  <1>4. waited \in 0 .. Patience
    BY <1>1, <1>2
  <1>5. connection.status # "Closed"
    BY <1>1
  <1>6. PatienceInv
    BY <1>1, <1>3, <1>4, <1>5, Zenon DEF PatienceInv
  <1> QED
    BY <1>6, EndingsInitial DEF PatienceInit

LEMMA PatienceSuffices ==
    ASSUME EndingsInv, PatienceInv
    PROVE  GivesUpLate /\ RetriesTakeTime
  <1>1. connection.retryTimer \in 0 .. RetryPeriod /\ RetryPeriod \in Nat /\ waited \in Nat
    BY RetryPeriodAssumption DEF EndingsInv, TypeOK, Connections, PatienceInv
  <1>2. GivesUpLate
    BY DEF PatienceInv, GivesUpLate
  <1>3. ASSUME FrameResults = {TRUE}, connection.status # "Closed"
        PROVE  connection.retryCounter * RetryPeriod + (RetryPeriod - connection.retryTimer)
                 <= waited + (IF connection.remote = NoRemote THEN RetryPeriod ELSE 0)
    <2>1. CASE connection.remote = NoRemote
      <3>1. connection.retryCounter * RetryPeriod = 0
        BY <1>1, <1>3, <2>1 DEF PatienceInv
      <3> QED
        BY <1>1, <2>1, <3>1
    <2>2. CASE connection.remote # NoRemote
      BY <1>1, <1>3, <2>2 DEF PatienceInv
    <2> QED
      BY <2>1, <2>2
  <1> QED
    BY <1>2, <1>3 DEF RetriesTakeTime

(* As long as createFrame has a frame for every transmission, the board     *)
(* gives an upload up no sooner than MaxRetries + 1 full timer periods      *)
(* after it began, whatever the number of retries and the period.           *)
THEOREM GivingUpTakesTime == PatienceSpec => []GivesUpLate
  BY PatienceInitial, PatienceStep, PatienceSuffices, PTL DEF PatienceSpec

(* The retries used so far never outrun the clock.                          *)
THEOREM RetriesAreTimed == PatienceSpec => []RetriesTakeTime
  BY PatienceInitial, PatienceStep, PatienceSuffices, PTL DEF PatienceSpec
=============================================================================
