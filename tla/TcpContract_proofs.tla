-------------------------- MODULE TcpContract_proofs --------------------------
(***************************************************************************)
(* Proofs about how a download ends: the board's FIN, and the connection    *)
(* as an implementation of StreamDelivery.                                  *)
(***************************************************************************)
EXTENDS TcpDownload_proofs

(* The board closes only after it has taken the remote's FIN, and that FIN  *)
(* is behind the whole image.                                               *)
Ending(c) ==
    /\ c.status # "WaitingForRemoteToFinish"
    /\ c.status \in {"FinSent", "TimedClose", "Finished"} => c.remoteFinished
    /\ c.remoteFinished =>
          \E p \in Peers : c.remote = Endpoint(p) /\ c.localAcknowledgment = Isn[p] + StreamLength + 2

FinsAreAnswers ==
    \A s \in network : s.source = Local /\ s.finish =>
        s.destination = connection.remote /\ connection.remoteFinished

ContractInv == StorageInv /\ Ending(connection) /\ FinsAreAnswers

(* How a step may change the status, next to the acknowledgment.            *)
StatusStep ==
    /\ connection.status = "Listen" => connection'.status \in {"Listen", "SynReceived"}
    /\ connection.status = "Closed" =>
          /\ connection'.status = "Closed"
          /\ connection'.localAcknowledgment = connection.localAcknowledgment
    /\ connection.status \in {"TimedClose", "Finished"} => connection'.status \in {"TimedClose", "Finished"}
    /\ connection'.status \in {"TimedClose", "Finished"} =>
          connection.status \in {"FinSent", "TimedClose", "Finished"}
    /\ connection'.status = "Closed" =>
          connection'.localAcknowledgment = connection.localAcknowledgment
    /\ connection.remoteFinished => connection'.remoteFinished

FinStep ==
    \A m \in network' : \/ m \in network
                        \/ ~(m.source = Local /\ m.finish)
                        \/ m.destination = connection'.remote /\ connection'.remoteFinished
-----------------------------------------------------------------------------
LEMMA OutgoingFields ==
    ASSUME NEW c \in Connections
    PROVE  /\ Outgoing(c).destination = c.remote
           /\ Outgoing(c).finish = FinDue(c)
  BY DEF Outgoing, PlainSegment

(* The end of a received segment: an established connection whose remote    *)
(* has finished goes on to FinSent, any other keeps its status.             *)
LEMMA ConcludeEnds ==
    ASSUME NEW c \in Connections, NEW s, NEW answers \in BOOLEAN,
           NEW frame \in BOOLEAN, NEW closeFrame \in BOOLEAN, NEW buffer,
           Conclude(s, c, answers, frame, closeFrame), Storage(c, buffer), Ending(c),
           c.status # "Finished"
    PROVE  /\ Ending(connection')
           /\ connection'.remoteFinished = c.remoteFinished
           /\ \/ connection'.status = c.status
              \/ c.status = "Established" /\ connection'.status = "FinSent"
           /\ connection'.remote = c.remote
           /\ connection'.localAcknowledgment = c.localAcknowledgment
           /\ FinStep
  <1> DEFINE answered == IF answers THEN Armed(c, frame) ELSE c
             d == [c EXCEPT !.status = "FinSent"]
  <1>1. /\ answered \in Connections
        /\ answered.remote = c.remote /\ answered.status = c.status
        /\ answered.remoteFinished = c.remoteFinished
        /\ answered.localAcknowledgment = c.localAcknowledgment
    BY ArmedKeeps, ArmedType
  <1>2. /\ connection' = IF c.remoteFinished THEN AfterClose(answered, closeFrame) ELSE answered
        /\ network' = (network \ Delivered(s))
                              \cup (IF answers THEN Sends(c, frame) ELSE {})
                              \cup (IF c.remoteFinished THEN CloseSends(c, closeFrame) ELSE {})
    BY DEF Conclude
  <1>3. d \in Connections /\ d.remote = c.remote
    BY DEF Connections, Status
  <1> HIDE DEF answered
  <1>4. /\ connection'.remote = c.remote /\ connection'.remoteFinished = c.remoteFinished
        /\ connection'.localAcknowledgment = c.localAcknowledgment
        /\ \/ connection'.status = c.status
           \/ c.status = "Established" /\ c.remoteFinished /\ connection'.status = "FinSent"
    <2>1. CASE ~c.remoteFinished
      BY <1>1, <1>2, <2>1
    <2>2. CASE c.remoteFinished
      <3>1. c.status \notin Unbound /\ c.status \notin ClosesAtOnce
        BY <2>2 DEF Storage, Unbound, ClosesAtOnce
      <3>2. connection' = AfterClose(answered, closeFrame)
        BY <1>2, <2>2
      <3>3. /\ connection'.remote = c.remote /\ connection'.remoteFinished = c.remoteFinished
            /\ connection'.localAcknowledgment = c.localAcknowledgment
        BY <1>1, <3>1, <3>2, AfterCloseKeeps
      <3>4. CASE c.status \in ClosesWithFin
        <4>1. c.status = "Established"
          BY <3>1, <3>4 DEF Unbound, ClosesWithFin
        <4>2. [answered EXCEPT !.status = "FinSent"] \in Connections
          BY <1>1 DEF Connections, Status
        <4>3. connection' = Armed([answered EXCEPT !.status = "FinSent"], closeFrame)
          BY <1>1, <3>1, <3>2, <3>4 DEF AfterClose
        <4>4. connection'.status = "FinSent"
          BY <1>1, <4>2, <4>3, ArmedKeeps DEF Connections
        <4> QED
          BY <2>2, <3>3, <4>1, <4>4
      <3>5. CASE c.status \notin ClosesWithFin
        BY <1>1, <3>1, <3>2, <3>3, <3>5 DEF AfterClose
      <3> QED
        BY <3>4, <3>5
    <2> QED
      BY <2>1, <2>2
  <1>5. Ending(connection')
    BY <1>4 DEF Ending
  <1>6. FinStep
    <2>1. \A m \in Sends(c, frame) : m.finish => m.destination = c.remote /\ c.remoteFinished
      BY OutgoingFields DEF Sends, FinDue, Ending
    <2>2. \A m \in CloseSends(c, closeFrame) : m.destination = c.remote
      BY <1>3, OutgoingFields DEF CloseSends, Sends
    <2>3. \A m \in network' : \/ m \in network
                              \/ m \in Sends(c, frame)
                              \/ m \in CloseSends(c, closeFrame) /\ c.remoteFinished
      BY <1>2
    <2> QED
      BY <1>4, <2>1, <2>2, <2>3 DEF FinStep
  <1> QED
    BY <1>4, <1>5, <1>6

(* The acknowledgment and the FIN of a segment.                             *)
LEMMA AcknowledgmentEnds ==
    ASSUME NEW c \in Connections, NEW s \in ToBoard, Carries(c, s), Ending(c)
    PROVE  LET d == AfterAcknowledgment(c, s)
           IN  /\ d.status = IF c.status = "SynReceived" THEN "Established"
                             ELSE IF AcknowledgesFin(c, s) THEN "TimedClose" ELSE c.status
               /\ d.remoteFinished = c.remoteFinished
               /\ d.remote = c.remote
               /\ d.localAcknowledgment = c.localAcknowledgment
               /\ Ending(d)
  <1> DEFINE moved == CASE c.status = "SynReceived" -> Establish(c, s)
                        [] AcknowledgesFin(c, s) -> FinAcknowledged(c)
                        [] OTHER -> c
             d == AfterAcknowledgment(c, s)
  <1>1. /\ moved.status = IF c.status = "SynReceived" THEN "Established"
                          ELSE IF AcknowledgesFin(c, s) THEN "TimedClose" ELSE c.status
        /\ moved.remoteFinished = c.remoteFinished
        /\ moved.remote = c.remote
        /\ moved.localAcknowledgment = c.localAcknowledgment
        /\ moved \in Connections
    <2>1. CASE c.status = "SynReceived"
      <3>1. /\ c.localSequenceNumber + 1 \in Nat /\ s.sequenceNumber \in Numbers
            /\ "Established" \in Status
        BY DEF Connections, ToBoard, Between, Status
      <3>2. moved = Establish(c, s)
        BY <2>1 DEF AcknowledgesFin
      <3> HIDE DEF moved
      <3> QED
        BY <2>1, <3>1, <3>2 DEF Establish, Connections
    <2>2. CASE c.status # "SynReceived" /\ AcknowledgesFin(c, s)
      <3>1. /\ c.localSequenceNumber + 1 \in Nat /\ RetryPeriod \in 0 .. RetryPeriod
            /\ "TimedClose" \in Status
        BY RetryPeriodAssumption DEF Connections, Status
      <3>2. moved = StartTimedClose([c EXCEPT !.localSequenceNumber = @ + 1])
        BY <2>2 DEF AcknowledgesFin, Ending, FinAcknowledged, Connections
      <3> HIDE DEF moved
      <3> QED
        BY <2>2, <3>1, <3>2 DEF StartTimedClose, Connections
    <2>3. CASE c.status # "SynReceived" /\ ~AcknowledgesFin(c, s)
      BY <2>3
    <2> QED
      BY <2>1, <2>2, <2>3
  <1>2. d = [moved EXCEPT !.remoteAcknowledgment =
              IF s.acknowledgmentNumber > moved.remoteAcknowledgment THEN s.acknowledgmentNumber
              ELSE moved.remoteAcknowledgment]
    BY DEF AfterAcknowledgment
  <1> HIDE DEF d, moved
  <1>3. /\ d.status = moved.status /\ d.remoteFinished = moved.remoteFinished
        /\ d.remote = moved.remote /\ d.localAcknowledgment = moved.localAcknowledgment
    BY <1>1, <1>2 DEF Connections
  <1>4. Ending(d)
    BY <1>1, <1>3 DEF Ending, AcknowledgesFin
  <1> QED
    BY <1>1, <1>3, <1>4 DEF d

(* A FIN in sequence completes the stream.                                  *)
LEMMA SegmentEnds ==
    ASSUME NoOverflow, NEW c \in Connections, NEW s \in ToBoard, WellFormed(s), ~s.synchronize,
           s.source = c.remote, Ending(c), ~OutOfSequenceFin(c, s)
    PROVE  LET d == AfterPayload(AfterFinish(c, s), s)
           IN  /\ d.status = c.status
               /\ c.remoteFinished => d.remoteFinished
               /\ Ending(d)
  <1> DEFINE f == AfterFinish(c, s)
             d == AfterPayload(f, s)
  <1>1. PICK p \in Peers : c.remote = Endpoint(p)
    BY DEF ToBoard, Between, Endpoints
  <1>2. /\ s.sequenceNumber \in Nat /\ s.length \in Nat /\ s.finish \in BOOLEAN
        /\ c.localAcknowledgment \in Nat
    BY SequenceSpaceAssumption DEF ToBoard, Between, Numbers, Connections
  <1>3. /\ Isn[p] \in Nat /\ StreamLength \in Nat /\ SequenceSpace \in Nat
        /\ Isn[p] + StreamLength + 2 < SequenceSpace
    BY IsnAssumption, SequenceSpaceAssumption, StreamAssumption DEF NoOverflow, Fits
  <1>4. /\ s.sequenceNumber + s.length + (IF s.finish THEN 1 ELSE 0) <= Isn[p] + StreamLength + 2
        /\ s.finish => s.sequenceNumber + s.length = Isn[p] + 1 + StreamLength
    BY <1>1 DEF WellFormed
  <1>5. EndOf(s) = s.sequenceNumber + s.length + (IF s.finish THEN 1 ELSE 0)
    <2> DEFINE end == s.sequenceNumber + s.length + (IF s.finish THEN 1 ELSE 0)
    <2>1. end \in Int /\ 0 <= end /\ end < SequenceSpace
      BY <1>2, <1>3, <1>4
    <2> QED
      BY <2>1, WrapSmall DEF EndOf
  <1>6. /\ f.status = c.status /\ f.remote = c.remote
        /\ f.localAcknowledgment = c.localAcknowledgment
        /\ f.remoteFinished = (c.remoteFinished \/ s.finish)
    <2>1. CASE ~s.finish
      BY <2>1 DEF AfterFinish, Connections
    <2>2. CASE s.finish
      BY <2>2 DEF AfterFinish, Ending, Connections
    <2> QED
      BY <2>1, <2>2
  <1>7. f \in Connections
    BY AfterSegmentType
  <1> HIDE DEF f
  <1>8. /\ d.status = f.status /\ d.remote = f.remote /\ d.remoteFinished = f.remoteFinished
        /\ d.localAcknowledgment =
              IF Advances(f, s) /\ s.sequenceNumber = f.localAcknowledgment THEN EndOf(s)
              ELSE f.localAcknowledgment
    BY <1>7 DEF AfterPayload, Connections
  <1> HIDE DEF d
  <1>9. ASSUME d.remoteFinished
        PROVE  d.localAcknowledgment = Isn[p] + StreamLength + 2
    <2>1. CASE s.finish
      <3>1. s.sequenceNumber = c.localAcknowledgment
        BY <2>1 DEF OutOfSequenceFin
      <3>2. EndOf(s) = Isn[p] + StreamLength + 2 /\ Advances(f, s)
        BY <1>2, <1>3, <1>4, <1>5, <1>6, <2>1, <3>1 DEF Advances
      <3> QED
        BY <1>6, <1>8, <3>1, <3>2
    <2>2. CASE ~s.finish
      <3>1. c.localAcknowledgment = Isn[p] + StreamLength + 2
        BY <1>1, <1>6, <1>8, <1>9, <2>2, EndpointFacts DEF Ending
      <3>2. ~Advances(f, s)
        BY <1>2, <1>3, <1>4, <1>5, <1>6, <3>1 DEF Advances
      <3> QED
        BY <1>6, <1>8, <3>1, <3>2
    <2> QED
      BY <2>1, <2>2
  <1>10. Ending(d)
    BY <1>1, <1>6, <1>8, <1>9 DEF Ending
  <1> QED
    BY <1>6, <1>8, <1>10 DEF d, f
-----------------------------------------------------------------------------
(* What a segment does to the status, way by way.                           *)
LEMMA ReceivedEnds ==
    ASSUME NoOverflow, ContractInv, Loading, NEW s \in network, s.destination = Local,
           NEW frame \in BOOLEAN, NEW closeFrame \in BOOLEAN, Received(s, frame, closeFrame)
    PROVE  Ending(connection') /\ StatusStep /\ FinStep
  <1>1. s \in ToBoard
    BY ToBoardOnly DEF Local, ContractInv, StorageInv, TypeOK
  <1>2. WellFormed(s)
    BY DEF ContractInv, StorageInv, WellFormedNetwork
  <1>3. /\ connection \in Connections /\ Storage(connection, receiveBuffer)
        /\ Ending(connection) /\ connection.status # "Finished"
    BY DEF ContractInv, StorageInv, TypeOK, Loading
  <1>4. CASE ReceiveIgnored(s, frame, closeFrame)
    BY <1>3, <1>4, ConcludeEnds DEF ReceiveIgnored, StatusStep
  <1>5. CASE ReceiveReset(s, frame, closeFrame)
    <2> DEFINE d == [connection EXCEPT !.status = "Closed"]
    <2>1. /\ d \in Connections /\ d.remote = connection.remote /\ d.status = "Closed"
          /\ d.localAcknowledgment = connection.localAcknowledgment
          /\ d.remoteInitialSequenceNumber = connection.remoteInitialSequenceNumber
          /\ d.remoteFinished = connection.remoteFinished
      BY <1>3 DEF Connections, Status
    <2>2. connection.status \notin {"Closed", "Listen", "TimedClose"}
      BY <1>5 DEF ReceiveReset, Ignored
    <2>3. Conclude(s, d, FALSE, frame, closeFrame)
      BY <1>5 DEF ReceiveReset
    <2> HIDE DEF d
    <2>4. Storage(d, receiveBuffer)
      BY <1>3, <2>1, <2>2, StorageKept DEF Unbound
    <2>5. Ending(d)
      BY <1>3, <2>1 DEF Ending
    <2> QED
      BY <1>3, <2>1, <2>2, <2>3, <2>4, <2>5, ConcludeEnds DEF StatusStep
  <1>6. CASE ReceiveSyn(s, frame, closeFrame)
    <2> DEFINE d == [AfterSyn(connection, s) EXCEPT !.localAcknowledgment = Wrap(s.sequenceNumber + 1)]
    <2>1. ~Ignored(connection, s) /\ ~s.reset /\ s.synchronize
      BY <1>6 DEF ReceiveSyn
    <2>2. Conclude(s, d, TRUE, frame, closeFrame)
      BY <1>6 DEF ReceiveSyn
    <2>3. d \in Connections
      BY <1>1, <1>3, <2>1, AfterSynType
    <2>4. Storage(d, receiveBuffer) /\ d.status = "SynReceived"
      BY <1>1, <1>2, <1>3, <2>1, SynKeeps
    <2>5. connection.status \in {"Listen", "SynReceived"}
      BY <1>3, <2>1 DEF Ignored, Storage
    <2> HIDE DEF d
    <2>6. Ending(d) /\ ~d.remoteFinished /\ ~connection.remoteFinished
      BY <1>3, <2>4, <2>5 DEF Ending, Storage, Unbound
    <2> QED
      BY <2>2, <2>3, <2>4, <2>5, <2>6, ConcludeEnds DEF StatusStep
  <1>7. CASE ReceiveStaleFinish(s, frame, closeFrame)
    <2> DEFINE d == AfterAcknowledgment(connection, s)
    <2>1. Carries(connection, s) /\ Conclude(s, d, FALSE, frame, closeFrame)
      BY <1>7 DEF ReceiveStaleFinish
    <2>2. d \in Connections
      BY <1>1, <1>3, AfterSegmentType
    <2>3. Storage(d, receiveBuffer)
      BY <1>1, <1>3, <2>1, AcknowledgmentKeeps
    <2>4. /\ d.status = IF connection.status = "SynReceived" THEN "Established"
                        ELSE IF AcknowledgesFin(connection, s) THEN "TimedClose" ELSE connection.status
          /\ d.remoteFinished = connection.remoteFinished
          /\ d.localAcknowledgment = connection.localAcknowledgment
          /\ Ending(d)
      BY <1>1, <1>3, <2>1, AcknowledgmentEnds
    <2>5. connection.status \notin {"Closed", "Listen", "SynSent"}
      BY <2>1 DEF Carries, Ignored
    <2> HIDE DEF d
    <2> QED
      BY <1>3, <2>1, <2>2, <2>3, <2>4, <2>5, ConcludeEnds DEF StatusStep, AcknowledgesFin
  <1>8. CASE ReceiveSegment(s, frame, closeFrame)
    <2> DEFINE d == AfterAcknowledgment(connection, s)
               c == AfterFinish(d, s)
               e == AfterPayload(c, s)
    <2>1. /\ Carries(connection, s) /\ ~OutOfSequenceFin(c, s)
          /\ Conclude(s, e, s.finish \/ s.length > 0, frame, closeFrame)
      BY <1>8 DEF ReceiveSegment
    <2>2. d \in Connections /\ c \in Connections /\ e \in Connections
      BY <1>1, <1>3, AfterSegmentType
    <2>3. /\ Storage(d, receiveBuffer) /\ d.status \notin Unbound
          /\ s.source = connection.remote /\ d.remote = connection.remote
      BY <1>1, <1>3, <2>1, AcknowledgmentKeeps
    <2>4. /\ d.status = IF connection.status = "SynReceived" THEN "Established"
                        ELSE IF AcknowledgesFin(connection, s) THEN "TimedClose" ELSE connection.status
          /\ d.remoteFinished = connection.remoteFinished
          /\ Ending(d)
      BY <1>1, <1>3, <2>1, AcknowledgmentEnds
    <2>5. connection.status \notin {"Closed", "Listen", "SynSent"} /\ ~s.synchronize
      BY <2>1 DEF Carries, Ignored
    <2> HIDE DEF d
    <2>6. /\ Storage(c, receiveBuffer) /\ c.status \notin Unbound /\ c.remote = d.remote
          /\ c.localAcknowledgment = d.localAcknowledgment
      BY <1>1, <2>2, <2>3, FinishKeeps
    <2>7. /\ e.status = d.status
          /\ d.remoteFinished => e.remoteFinished
          /\ Ending(e)
      <3>1. ~OutOfSequenceFin(d, s)
        BY <2>1, <2>6 DEF OutOfSequenceFin
      <3> QED
        BY <1>1, <1>2, <2>2, <2>3, <2>4, <2>5, <3>1, SegmentEnds
    <2> HIDE DEF c
    <2>8. Storage(e, AfterStore(c, s))
      <3>1. receiveBuffer \in [DOMAIN receiveBuffer -> Bytes] /\ DOMAIN receiveBuffer \subseteq Int
        BY DEF ContractInv, StorageInv, TypeOK
      <3>2. s.source = c.remote
        BY <2>3, <2>6
      <3> QED
        BY <1>1, <1>2, <2>2, <2>5, <2>6, <3>1, <3>2, PayloadKeeps
    <2> HIDE DEF e
    <2>9. (s.finish \/ s.length > 0) \in BOOLEAN
      OBVIOUS
    <2>10. e.status # "Finished"
      BY <1>3, <2>4, <2>7
    <2>11. /\ Ending(connection') /\ FinStep
           /\ connection'.remoteFinished = e.remoteFinished
           /\ \/ connection'.status = e.status
              \/ e.status = "Established" /\ connection'.status = "FinSent"
      BY <2>1, <2>2, <2>7, <2>8, <2>9, <2>10, ConcludeEnds
    <2> QED
      BY <1>3, <2>4, <2>5, <2>7, <2>11 DEF StatusStep, AcknowledgesFin
  <1> QED
    BY <1>4, <1>5, <1>6, <1>7, <1>8 DEF Received

LEMMA PollEnds ==
    ASSUME ContractInv, Loading, NEW frame \in BOOLEAN, Poll(frame)
    PROVE  Ending(connection') /\ StatusStep /\ FinStep
  <1>1. connection \in Connections /\ Ending(connection)
    BY DEF ContractInv, StorageInv, TypeOK
  <1> DEFINE d == Counted(connection)
  <1>2. /\ d \in Connections /\ d.remote = connection.remote /\ d.status = connection.status
        /\ d.remoteFinished = connection.remoteFinished
        /\ d.localAcknowledgment = connection.localAcknowledgment
    <2>1. (connection.retryCounter + 1) % CounterSpace \in 0 .. CounterSpace - 1
      BY <1>1 DEF Connections, CounterSpace
    <2> QED
      BY <1>1, <2>1 DEF Connections, Counted
  <1>3. /\ connection'.remote = connection.remote
        /\ connection'.localAcknowledgment = connection.localAcknowledgment
        /\ connection'.remoteFinished = connection.remoteFinished
        /\ \/ connection'.status = connection.status
           \/ connection'.status = "Finished" /\ connection.status = "TimedClose"
           \/ connection'.status = "Closed" /\ connection.status \notin {"TimedClose", "Finished", "Listen"}
        /\ network' \subseteq network \cup Sends(d, frame)
    <2>1. CASE PollFinish
      BY <1>1, <2>1 DEF PollFinish, Connections
    <2>2. CASE PollGiveUp
      <3>1. /\ connection' = [d EXCEPT !.status = "Closed"] /\ network' = network
            /\ connection.status \notin {"TimedClose", "Finished", "Listen"}
        BY <2>2 DEF PollGiveUp, Due, Loading
      <3> HIDE DEF d
      <3> QED
        BY <1>2, <3>1 DEF Connections
    <2>3. CASE PollRetry(frame)
      <3>1. connection' = Armed(d, frame) /\ network' = network \cup Sends(d, frame)
        BY <2>3 DEF PollRetry, Transmit
      <3> HIDE DEF d
      <3> QED
        BY <1>2, <3>1, ArmedKeeps
    <2> QED
      BY <2>1, <2>2, <2>3 DEF Poll
  <1> HIDE DEF d
  <1>4. Ending(connection')
    BY <1>1, <1>3 DEF Ending
  <1>5. FinStep
    <2>1. \A m \in Sends(d, frame) : m.finish => m.destination = d.remote /\ d.remoteFinished
      BY <1>1, <1>2, OutgoingFields DEF Sends, FinDue, Ending
    <2> QED
      BY <1>2, <1>3, <2>1 DEF FinStep
  <1> QED
    BY <1>3, <1>4, <1>5 DEF StatusStep
-----------------------------------------------------------------------------
LEMMA ContractStep ==
    ASSUME NoOverflow, NoTrailing, ContractInv, [Next]_vars
    PROVE  /\ ContractInv'
           /\ \/ Preserving /\ StatusStep
              \/ UNCHANGED <<connection, receiveBuffer>>
  <1>1. StorageInv' /\ (Preserving \/ UNCHANGED <<connection, receiveBuffer>>)
    BY StorageStep DEF ContractInv
  <1>2. /\ TypeOK /\ connection \in Connections /\ Ending(connection) /\ FinsAreAnswers
        /\ connection.localAcknowledgment >= connection.localAcknowledgment
    BY SequenceSpaceAssumption DEF ContractInv, StorageInv, TypeOK, Connections, Numbers
  <1>3. ASSUME UNCHANGED <<connection, receiveBuffer>>,
               \A m \in network' : m \in network \/ ~(m.source = Local /\ m.finish)
        PROVE  ContractInv'
    BY <1>1, <1>2, <1>3 DEF ContractInv, Ending, FinsAreAnswers
  <1>4. ASSUME Ending(connection'), StatusStep, FinStep
        PROVE  ContractInv' /\ ((Preserving /\ StatusStep) \/ UNCHANGED <<connection, receiveBuffer>>)
    <2>1. ASSUME NEW m \in network', m.source = Local, m.finish
          PROVE  m.destination = connection'.remote /\ connection'.remoteFinished
      <3>1. CASE m \in network
        <4>1. m.destination = connection.remote /\ connection.remoteFinished
          BY <1>2, <2>1, <3>1 DEF FinsAreAnswers
        <4>2. connection.remote # NoRemote
          BY <1>2, <4>1, EndpointFacts DEF Ending
        <4>3. connection'.remote = connection.remote
          BY <1>1, <4>2 DEF Preserving
        <4> QED
          BY <1>4, <4>1, <4>3 DEF StatusStep
      <3>2. CASE m \notin network
        BY <1>4, <2>1, <3>2 DEF FinStep
      <3> QED
        BY <3>1, <3>2
    <2>2. FinsAreAnswers'
      BY <2>1 DEF FinsAreAnswers
    <2>3. Ending(connection)'
      BY <1>4 DEF Ending
    <2> QED
      BY <1>1, <1>4, <2>2, <2>3 DEF ContractInv
  <1>5. ASSUME NEW p \in Peers, PeerStep(p)
        PROVE  ContractInv' /\ UNCHANGED <<connection, receiveBuffer>>
    <2>1. /\ UNCHANGED <<connection, receiveBuffer>>
          /\ \A m \in network' : m \in network \/ m.source = Endpoint(p)
      BY <1>2, <1>5, PeerKeeps DEF HostSegment
    <2> QED
      BY <1>3, <2>1, EndpointFacts
  <1>6. ASSUME NEW s \in network, BoardReceive(s)
        PROVE  Ending(connection') /\ StatusStep /\ FinStep
    <2>1. PICK frame \in BOOLEAN, closeFrame \in BOOLEAN : Received(s, frame, closeFrame)
      BY <1>6, FrameResultsAssumption DEF BoardReceive
    <2>2. s.destination = Local /\ Loading
      BY <1>6 DEF BoardReceive
    <2> QED
      BY <2>1, <2>2, ReceivedEnds
  <1>7. ASSUME NEW s \in network, BoardRefuse(s)
        PROVE  ContractInv' /\ UNCHANGED <<connection, receiveBuffer>>
    <2>1. network' \subseteq network \cup {Refusal(s)} /\ UNCHANGED <<connection, receiveBuffer>>
      BY <1>7 DEF BoardRefuse, Refuse
    <2>2. Refusal(s).finish = FALSE
      BY DEF Refusal, PlainSegment
    <2> QED
      BY <1>3, <2>1, <2>2
  <1>8. CASE BoardPoll
    <2>1. PICK frame \in BOOLEAN : Poll(frame)
      BY <1>8, FrameResultsAssumption DEF BoardPoll
    <2> QED
      BY <1>4, <1>8, <2>1, PollEnds DEF BoardPoll
  <1>9. CASE ClockTick
    <2>1. /\ network' = network
          /\ connection'.remote = connection.remote
          /\ connection'.status = connection.status
          /\ connection'.remoteFinished = connection.remoteFinished
          /\ connection'.localAcknowledgment = connection.localAcknowledgment
      BY <1>2, <1>9 DEF ClockTick, Tick, Connections
    <2>2. Ending(connection') /\ StatusStep /\ FinStep
      BY <1>2, <2>1 DEF Ending, StatusStep, FinStep
    <2> QED
      BY <1>4, <2>2
  <1>10. CASE UNCHANGED vars
    BY <1>3, <1>10 DEF vars
  <1> QED
    BY <1>4, <1>5, <1>6, <1>7, <1>8, <1>9, <1>10 DEF Next

LEMMA ContractInitial ==
    ASSUME Init
    PROVE  ContractInv
  <1>1. connection.status = "Listen" /\ connection.remoteFinished = FALSE /\ network = {}
    BY DEF Init, InitialConnection
  <1> QED
    BY <1>1, StorageInitial DEF ContractInv, Ending, FinsAreAnswers

LEMMA ContractSuffices ==
    ASSUME NoOverflow, ContractInv
    PROVE  ClosesAfterRemote
  <1>1. /\ connection \in Connections /\ Storage(connection, receiveBuffer)
        /\ receiveBuffer \in [DOMAIN receiveBuffer -> Bytes]
        /\ Ending(connection) /\ FinsAreAnswers
    BY DEF ContractInv, StorageInv, TypeOK
  <1>2. ASSUME NEW s \in network, s.source = Local, s.finish
        PROVE  \E p \in Peers : s.destination = Endpoint(p) /\ Accepted(p) = StreamLength + 1
    <2>1. s.destination = connection.remote /\ connection.remoteFinished
      BY <1>1, <1>2 DEF FinsAreAnswers
    <2>2. PICK p \in Peers : /\ connection.remote = Endpoint(p)
                             /\ connection.localAcknowledgment = Isn[p] + StreamLength + 2
      BY <1>1, <2>1 DEF Ending
    <2>3. Accepted(p) = connection.localAcknowledgment - (Isn[p] + 1)
      BY <1>1, <2>2, StorageMeans DEF Accepted
    <2>4. Isn[p] \in Int /\ StreamLength \in Int
      BY IsnAssumption, SequenceSpaceAssumption, StreamAssumption
    <2>5. Accepted(p) = StreamLength + 1
      BY <2>2, <2>3, <2>4
    <2> QED
      BY <2>1, <2>2, <2>5
  <1> QED
    BY <1>1, <1>2 DEF ClosesAfterRemote, Ending

(* The board's FIN exists only behind the remote's whole stream, for every  *)
(* host, image, cut of the image into segments and network.                 *)
THEOREM FinBehindStream ==
    ASSUME NoOverflow, NoTrailing
    PROVE  Spec => []ClosesAfterRemote
  BY ContractInitial, ContractStep, ContractSuffices, PTL DEF Spec
-----------------------------------------------------------------------------
(* The refinement.  Taken counts the payload numbers acknowledged, and      *)
(* DeliveredBytes is the prefix of that length.                             *)
DeliveredOf(c, buffer) ==
    {n \in 0 .. StreamLength - 1 :
        \E p \in Peers : /\ c.remote = Endpoint(p)
                         /\ n < Wrap(c.localAcknowledgment - (Isn[p] + 1))
                         /\ StoredIn(c, buffer, p, n)}

OutcomeOf(status) ==
    CASE status \in {"TimedClose", "Finished"} -> "complete"
      [] status = "Closed" -> "failed"
      [] OTHER -> "pending"

Taken(c, p) == c.localAcknowledgment - (Isn[p] + 1)

LEMMA DeliveredMeans ==
    ASSUME NoOverflow, NEW c \in Connections, NEW buffer, buffer \in [DOMAIN buffer -> Bytes],
           Storage(c, buffer)
    PROVE  /\ c.remote = NoRemote => DeliveredOf(c, buffer) = {}
           /\ \A p \in Peers : c.remote = Endpoint(p) =>
                 /\ Taken(c, p) \in 0 .. StreamLength + 1
                 /\ DeliveredOf(c, buffer) = {n \in 0 .. StreamLength - 1 : n < Taken(c, p)}
  <1>1. c.remote = NoRemote => DeliveredOf(c, buffer) = {}
    BY EndpointFacts DEF DeliveredOf
  <1>2. ASSUME NEW p \in Peers, c.remote = Endpoint(p)
        PROVE  /\ Taken(c, p) \in 0 .. StreamLength + 1
               /\ DeliveredOf(c, buffer) = {n \in 0 .. StreamLength - 1 : n < Taken(c, p)}
    <2>1. \A q \in Peers : c.remote = Endpoint(q) => q = p
      BY <1>2, EndpointFacts
    <2>2. /\ Wrap(c.localAcknowledgment - (Isn[p] + 1)) = Taken(c, p)
          /\ \A n \in 0 .. StreamLength - 1 : n < Taken(c, p) => StoredIn(c, buffer, p, n)
      BY <1>2, StorageMeans DEF Taken
    <2>3. c.localAcknowledgment \in Isn[p] + 1 .. Isn[p] + StreamLength + 2
      BY <1>2 DEF Storage
    <2>4. Taken(c, p) \in 0 .. StreamLength + 1
      BY <2>3, IsnAssumption, SequenceSpaceAssumption, StreamAssumption DEF Taken
    <2> QED
      BY <1>2, <2>1, <2>2, <2>4 DEF DeliveredOf
  <1> QED
    BY <1>1, <1>2

LEMMA ContractNext ==
    ASSUME NoOverflow, ContractInv, ContractInv', Preserving, StatusStep
    PROVE  [Contract!StreamNext]_Contract!streamVars
  <1> DEFINE d == DeliveredOf(connection, receiveBuffer)
             e == DeliveredOf(connection', receiveBuffer')
  <1>1. /\ connection \in Connections /\ Storage(connection, receiveBuffer)
        /\ receiveBuffer \in [DOMAIN receiveBuffer -> Bytes] /\ Ending(connection)
    BY DEF ContractInv, StorageInv, TypeOK
  <1>2. /\ connection' \in Connections /\ Storage(connection', receiveBuffer')
        /\ receiveBuffer' \in [DOMAIN receiveBuffer' -> Bytes]
    <2>1. StorageInv'
      BY DEF ContractInv
    <2>2. TypeOK' /\ Storage(connection, receiveBuffer)'
      BY <2>1 DEF StorageInv
    <2>3. Storage(connection', receiveBuffer')
      BY <2>2 DEF Storage
    <2> QED
      BY <2>2, <2>3 DEF TypeOK
  <1>3. DeliveredBytes = d /\ DeliveredBytes' = e
    BY DEF DeliveredBytes, DeliveredOf, Accepted, Stored, StoredIn
  <1>4. Outcome = OutcomeOf(connection.status) /\ Outcome' = OutcomeOf(connection'.status)
    BY DEF Outcome, OutcomeOf
  <1>5. CASE connection.remote = NoRemote
    <2>1. connection.status = "Listen" /\ connection'.status \in {"Listen", "SynReceived"} /\ d = {}
      BY <1>1, <1>5, DeliveredMeans DEF Storage, StatusStep
    <2>2. Outcome = "pending" /\ Outcome' = "pending"
      BY <1>4, <2>1 DEF OutcomeOf
    <2>3. CASE connection'.status = "Listen"
      <3>1. connection'.remote = NoRemote /\ e = {}
        BY <1>2, <2>3, DeliveredMeans DEF Storage
      <3> HIDE DEF d, e
      <3> QED
        BY <1>3, <1>5, <2>1, <2>2, <3>1 DEF Contract!streamVars
    <2>4. CASE connection'.status = "SynReceived"
      <3>1. connection'.remote # NoRemote
        BY <1>2, <2>4 DEF Storage
      <3>2. PICK p \in Peers : connection'.remote = Endpoint(p)
        BY <1>2, <3>1 DEF Connections, Endpoints
      <3>3. Taken(connection', p) = 0
        BY <1>2, <2>4, <3>2, IsnAssumption, SequenceSpaceAssumption DEF Storage, Taken
      <3>4. e = {n \in 0 .. StreamLength - 1 : n < Taken(connection', p)}
        BY <1>2, <3>2, DeliveredMeans
      <3>5. e = {}
        BY <3>3, <3>4, StreamAssumption
      <3>6. Endpoint(p) \in Endpoints
        BY DEF Endpoints
      <3> HIDE DEF d, e
      <3>7. Contract!Accept(Endpoint(p))
        BY <1>3, <1>5, <2>1, <2>2, <3>2, <3>5 DEF Contract!Accept
      <3> QED
        BY <3>6, <3>7 DEF Contract!StreamNext
    <2> QED
      BY <2>1, <2>3, <2>4
  <1>6. CASE connection.remote # NoRemote
    <2>1. PICK p \in Peers : connection.remote = Endpoint(p)
      BY <1>1, <1>6 DEF Connections, Endpoints
    <2>2. /\ connection'.remote = connection.remote
          /\ connection'.localAcknowledgment >= connection.localAcknowledgment
      BY <1>6 DEF Preserving
    <2> DEFINE k == Taken(connection, p)
               l == Taken(connection', p)
    <2>3. /\ k \in 0 .. StreamLength + 1 /\ d = {n \in 0 .. StreamLength - 1 : n < k}
          /\ l \in 0 .. StreamLength + 1 /\ e = {n \in 0 .. StreamLength - 1 : n < l}
      BY <1>1, <1>2, <2>1, <2>2, DeliveredMeans
    <2>4. /\ k <= l
          /\ connection'.localAcknowledgment = connection.localAcknowledgment => k = l
          /\ connection.localAcknowledgment = Isn[p] + StreamLength + 2 => k = StreamLength + 1
      BY <1>1, <1>2, <2>2, IsnAssumption, SequenceSpaceAssumption, StreamAssumption
      DEF Taken, Connections, Numbers
    <2>5. StreamLength \in Nat
      BY StreamAssumption
    <2>6. k = l => d = e
      BY <2>3
    <2>7. k = StreamLength + 1 => d = 0 .. StreamLength - 1 /\ k = l
      BY <2>3, <2>4, <2>5
    <2>8. connection.status \in {"FinSent", "TimedClose", "Finished"} => k = StreamLength + 1
      BY <1>1, <2>1, <2>4, EndpointFacts DEF Ending
    <2>9. connection.status # "Listen"
      BY <1>1, <1>6 DEF Storage
    <2> HIDE DEF d, e, k, l
    <2>10. CASE connection'.status \in {"TimedClose", "Finished"}
      <3>1. connection.status \in {"FinSent", "TimedClose", "Finished"}
        BY <2>10 DEF StatusStep
      <3>2. d = e /\ d = 0 .. StreamLength - 1
        BY <2>6, <2>7, <2>8, <3>1
      <3>3. Outcome' = "complete"
        BY <1>4, <2>10 DEF OutcomeOf
      <3>4. CASE connection.status = "FinSent"
        <4>1. Outcome = "pending"
          BY <1>4, <3>4 DEF OutcomeOf
        <4>2. Contract!Complete
          BY <1>3, <1>6, <2>2, <3>2, <3>3, <4>1 DEF Contract!Complete, Contract!Prefix
        <4> QED
          BY <4>2 DEF Contract!StreamNext
      <3>5. CASE connection.status \in {"TimedClose", "Finished"}
        <4>1. Outcome = "complete"
          BY <1>4, <3>5 DEF OutcomeOf
        <4> QED
          BY <1>3, <2>2, <3>2, <3>3, <4>1 DEF Contract!streamVars
      <3> QED
        BY <3>1, <3>4, <3>5
    <2>11. CASE connection'.status = "Closed"
      <3>1. d = e
        BY <2>4, <2>6, <2>11 DEF StatusStep
      <3>2. Outcome' = "failed"
        BY <1>4, <2>11 DEF OutcomeOf
      <3>3. connection.status \notin {"TimedClose", "Finished"}
        BY <2>11 DEF StatusStep
      <3>4. CASE connection.status = "Closed"
        <4>1. Outcome = "failed"
          BY <1>4, <3>4 DEF OutcomeOf
        <4> QED
          BY <1>3, <2>2, <3>1, <3>2, <4>1 DEF Contract!streamVars
      <3>5. CASE connection.status # "Closed"
        <4>1. Outcome = "pending"
          BY <1>4, <3>3, <3>5 DEF OutcomeOf
        <4>2. Contract!Fail
          BY <1>3, <1>6, <2>2, <3>1, <3>2, <4>1 DEF Contract!Fail
        <4> QED
          BY <4>2 DEF Contract!StreamNext
      <3> QED
        BY <3>4, <3>5
    <2>12. CASE connection'.status \notin {"TimedClose", "Finished", "Closed"}
      <3>1. connection.status \notin {"TimedClose", "Finished", "Closed"}
        BY <2>12 DEF StatusStep
      <3>2. Outcome = "pending" /\ Outcome' = "pending"
        BY <1>4, <2>12, <3>1 DEF OutcomeOf
      <3>3. CASE d = e
        BY <1>3, <2>2, <3>2, <3>3 DEF Contract!streamVars
      <3>4. CASE d # e
        <4> DEFINE n == IF l <= StreamLength THEN l ELSE StreamLength
        <4>1. n \in 1 .. StreamLength /\ e = 0 .. n - 1 /\ d \subseteq 0 .. n - 1
          BY <2>3, <2>4, <2>5, <2>6, <3>4
        <4> HIDE DEF n
        <4>2. Contract!Deliver(n)
          BY <1>3, <1>6, <2>2, <3>2, <3>4, <4>1 DEF Contract!Deliver, Contract!Prefix
        <4> QED
          BY <4>1, <4>2 DEF Contract!StreamNext
      <3> QED
        BY <3>3, <3>4
    <2> QED
      BY <2>10, <2>11, <2>12
  <1> QED
    BY <1>5, <1>6

(* The connection implements StreamDelivery: it accepts one remote, takes   *)
(* that remote's bytes in order and without a gap, and ends once, complete  *)
(* only with all of them.                                                   *)
THEOREM ImplementsDelivery ==
    ASSUME NoOverflow, NoTrailing
    PROVE  Spec => StreamContract
  <1>1. ASSUME Init
        PROVE  Contract!StreamInit
    <2>1. connection.status = "Listen" /\ connection.remote = NoRemote
      BY <1>1 DEF Init, InitialConnection
    <2>2. DeliveredBytes = {}
      BY <2>1, EndpointFacts DEF DeliveredBytes
    <2>3. Outcome = "pending"
      BY <2>1 DEF Outcome
    <2> QED
      BY <2>1, <2>2, <2>3 DEF Contract!StreamInit
  <1>2. ASSUME ContractInv, [Next]_vars
        PROVE  [Contract!StreamNext]_Contract!streamVars
    <2>1. CASE UNCHANGED <<connection, receiveBuffer>>
      BY <2>1 DEF Contract!streamVars, DeliveredBytes, Accepted, Stored, Outcome
    <2>2. CASE Preserving /\ StatusStep
      BY <1>2, <2>2, ContractStep, ContractNext
    <2> QED
      BY <1>2, <2>1, <2>2, ContractStep
  <1> QED
    BY <1>1, <1>2, ContractInitial, ContractStep, PTL
    DEF Spec, StreamContract, Contract!StreamSpec
=============================================================================
