---------------------------- MODULE TcpConnection ----------------------------
(***************************************************************************)
(* Tcp::Connection of src/include/Net/Tcp.hpp, one endpoint of the TCP     *)
(* implementation: transmit(), received() together with the static wrapper *)
(* Tcp::received(), poll(), listen(), connect(), close(), and the reply to *)
(* a segment for another port, transmitReset().  The module fixes no       *)
(* environment: modules that extend or instantiate it decide which         *)
(* segments arrive and who calls what.                                     *)
(*                                                                         *)
(* Left out: the fields that are written and never read (window sizes,     *)
(* window scales, segment sizes, SACK flag, localInitialSequenceNumber,    *)
(* localAddress, which the reply path takes from the last segment), the    *)
(* checksums and the byte order.  A payload byte is represented by its     *)
(* sender and its sequence number.                                         *)
(***************************************************************************)
EXTENDS Integers

CONSTANTS
    LocalHost,       \* the host this endpoint runs on
    LocalPort,       \* Connection::localPort
    SequenceSpace,   \* sequence numbers of a segment are taken modulo this, 2^32 in the code
    MaxRetries,      \* the polls that retransmit before the connection gives up, 5 in the code
    RetryPeriod,     \* clock ticks from a transmission to the expiry of retryTimer
    Duplicating,     \* whether the network may deliver a segment again after it was delivered
    FrameResults     \* what createFrame may do: TRUE a frame, FALSE nullptr (link down, ring full)

ASSUME SequenceSpaceAssumption == SequenceSpace \in Nat /\ SequenceSpace > 1
ASSUME RetryPeriodAssumption == RetryPeriod \in Nat /\ RetryPeriod > 0
ASSUME DuplicatingAssumption == Duplicating \in BOOLEAN
ASSUME MaxRetriesAssumption == MaxRetries \in 0 .. 254
ASSUME FrameResultsAssumption == FrameResults \subseteq BOOLEAN /\ FrameResults # {}

VARIABLES
    connection,      \* the members of the Connection that control reads
    receiveBuffer,   \* the bytes written so far, by position; positions may be negative
    network          \* the segments that may be delivered

tcpVars == <<connection, receiveBuffer, network>>
-----------------------------------------------------------------------------
CounterSpace == 256      \* retryCounter is a Natural8

Status == {"Closed", "Listen", "SynSent", "SynReceived", "Established", "FinSent",
           "WaitingForRemoteToFinish", "TimedClose", "Finished"}

Wrap(n) == n % SequenceSpace

Local == [host |-> LocalHost, port |-> LocalPort]
NoRemote == [host |-> "none", port |-> 0]

(* retryTimer counts down the ticks that are left, 0 once now >= retryTimer. *)
InitialConnection ==
    [status |-> "Closed", remote |-> NoRemote,
     localSequenceNumber |-> 0, localAcknowledgment |-> 0, remoteAcknowledgment |-> 0,
     remoteInitialSequenceNumber |-> 0,
     retryTimer |-> 0, retryCounter |-> 0, remoteFinished |-> FALSE]

(* trailing is the number of option bytes behind an End option.             *)
PlainSegment(from, to) ==
    [source |-> from, destination |-> to, sequenceNumber |-> 0, acknowledgmentNumber |-> 0,
     synchronize |-> FALSE, acknowledgment |-> FALSE, finish |-> FALSE, reset |-> FALSE,
     length |-> 0, trailing |-> 0]
-----------------------------------------------------------------------------
(* transmit(): the segment sent in state c.  A handshake segment carries SYN *)
(* and never FIN, and FIN waits until the remote acknowledged all before it. *)
Handshaking(c) == c.status \in {"SynSent", "SynReceived"}
Acknowledging(c) == c.status # "SynSent"
FinDue(c) == c.status = "FinSent" /\ c.remoteAcknowledgment >= c.localSequenceNumber

(* Mutant of Outgoing: a FIN already while established.                     *)
OutgoingEagerFin(c) ==
    [PlainSegment(Local, c.remote) EXCEPT
        !.sequenceNumber = Wrap(c.localSequenceNumber),
        !.acknowledgment = Acknowledging(c),
        !.acknowledgmentNumber = IF Acknowledging(c) THEN Wrap(c.localAcknowledgment) ELSE 0,
        !.synchronize = Handshaking(c),
        !.finish = c.status \in {"Established", "FinSent"}]

Outgoing(c) ==
    [PlainSegment(Local, c.remote) EXCEPT
        !.sequenceNumber = Wrap(c.localSequenceNumber),
        !.acknowledgment = Acknowledging(c),
        !.acknowledgmentNumber = IF Acknowledging(c) THEN Wrap(c.localAcknowledgment) ELSE 0,
        !.synchronize = Handshaking(c),
        !.trailing = IF Handshaking(c) THEN 2 ELSE 0,
        !.finish = FinDue(c)]

(* Without a frame nothing is sent and the timer stays as it is.            *)
Sends(c, frame) == IF frame THEN {Outgoing(c)} ELSE {}
Armed(c, frame) == IF frame THEN [c EXCEPT !.retryTimer = RetryPeriod] ELSE c

Transmit(c, frame) ==
    /\ connection' = Armed(c, frame)
    /\ network' = network \cup Sends(c, frame)
-----------------------------------------------------------------------------
(* close(): the status it leads to, and whether it transmits.               *)
ClosesAtOnce == {"Listen", "SynSent", "Finished"}
ClosesWithFin == {"SynReceived", "Established"}

AfterClose(c, frame) ==
    IF c.status \in ClosesAtOnce THEN [c EXCEPT !.status = "Closed"]
    ELSE IF c.status \in ClosesWithFin THEN Armed([c EXCEPT !.status = "FinSent"], frame)
    ELSE c

CloseSends(c, frame) ==
    IF c.status \in ClosesWithFin THEN Sends([c EXCEPT !.status = "FinSent"], frame) ELSE {}

Close(frame) ==
    /\ connection.status \in ClosesAtOnce \cup ClosesWithFin
    /\ connection' = AfterClose(connection, frame)
    /\ network' = network \cup CloseSends(connection, frame)
    /\ UNCHANGED receiveBuffer

(* What the delivery of s takes from the network.                           *)
Delivered(s) == IF Duplicating THEN {} ELSE {s}

(* The end of every received segment: in state c received() answers with   *)
(* transmit() or does not, and Tcp::received() then closes if the remote   *)
(* has finished.  Each of the two transmissions gets a frame or not.       *)
(* Mutant of Conclude: Tcp::received() does not close.                      *)
ConcludeOpen(s, c, answers, frame, closeFrame) ==
    /\ connection' = IF answers THEN Armed(c, frame) ELSE c
    /\ network' = (network \ Delivered(s)) \cup (IF answers THEN Sends(c, frame) ELSE {})

Conclude(s, c, answers, frame, closeFrame) ==
    LET answered == IF answers THEN Armed(c, frame) ELSE c
    IN  /\ connection' = IF c.remoteFinished THEN AfterClose(answered, closeFrame) ELSE answered
        /\ network' = (network \ Delivered(s))
                              \cup (IF answers THEN Sends(c, frame) ELSE {})
                              \cup (IF c.remoteFinished THEN CloseSends(c, closeFrame) ELSE {})
-----------------------------------------------------------------------------
(* received(), one action per way through it.  s is addressed to Local.     *)

(* Mutant of Foreign: the source of a segment is not compared.              *)
ForeignNever(c, s) == FALSE

Foreign(c, s) == c.status # "Listen" /\ s.source # c.remote

(* Mutant of Ignored: a RST counts in TimedClose too.                       *)
IgnoredButReset(c, s) ==
    \/ c.status = "Closed" \/ Foreign(c, s)
    \/ s.reset /\ c.status = "Listen"
    \/ ~s.reset /\ s.synchronize /\ c.status \notin {"Listen", "SynSent", "SynReceived"}
    \/ ~s.reset /\ ~s.synchronize /\ c.status \in {"Listen", "SynSent"}

(* Mutant of Ignored: the answer to connect() acknowledges one too few.     *)
IgnoredOffByOne(c, s) ==
    \/ c.status = "Closed" \/ Foreign(c, s)
    \/ s.reset /\ c.status \in {"Listen", "TimedClose"}
    \/ /\ s.synchronize /\ c.status = "SynSent" /\ s.acknowledgment
       /\ s.acknowledgmentNumber # c.localSequenceNumber
    \/ s.synchronize /\ c.status \notin {"Listen", "SynSent", "SynReceived"}
    \/ ~s.synchronize /\ c.status \in {"Listen", "SynSent"}

(* The early returns without an assignment.                                 *)
Ignored(c, s) ==
    \/ c.status = "Closed"
    \/ Foreign(c, s)
    \/ s.reset /\ c.status \in {"Listen", "TimedClose"}
    \/ /\ ~s.reset /\ s.synchronize
       /\ \/ c.status = "Listen" /\ s.acknowledgment
          \/ /\ c.status = "SynSent" /\ s.acknowledgment
             /\ s.acknowledgmentNumber # c.localSequenceNumber + 1
          \/ c.status \notin {"Listen", "SynSent", "SynReceived"}
    \/ ~s.reset /\ ~s.synchronize /\ c.status \in {"Listen", "SynSent"}

ReceiveIgnored(s, frame, closeFrame) ==
    /\ Ignored(connection, s)
    /\ Conclude(s, connection, FALSE, frame, closeFrame)
    /\ UNCHANGED receiveBuffer

ReceiveReset(s, frame, closeFrame) ==
    /\ ~Ignored(connection, s) /\ s.reset
    /\ Conclude(s, [connection EXCEPT !.status = "Closed"], FALSE, frame, closeFrame)
    /\ UNCHANGED receiveBuffer

(* Mutant of Establish: the SYN does not count as a sequence number.        *)
EstablishUncounted(c, s) ==
    [c EXCEPT !.status = "Established", !.remoteInitialSequenceNumber = s.sequenceNumber]

(* setEstablished()                                                         *)
Establish(c, s) ==
    [c EXCEPT !.status = "Established",
              !.localSequenceNumber = @ + 1,
              !.remoteInitialSequenceNumber = s.sequenceNumber]

(* setTimedClose()                                                          *)
StartTimedClose(c) == [c EXCEPT !.status = "TimedClose", !.retryTimer = RetryPeriod]

(* A SYN binds a listening connection to its sender, opens a connection    *)
(* from both ends, or repeats one already answered; a SYN that answers     *)
(* connect() establishes.  None of them looks at remoteAcknowledgment.     *)
AfterSyn(c, s) ==
    CASE c.status = "Listen" ->
            [c EXCEPT !.status = "SynReceived", !.remote = s.source, !.localSequenceNumber = 0]
      [] c.status = "SynSent" /\ ~s.acknowledgment -> [c EXCEPT !.status = "SynReceived"]
      [] c.status = "SynSent" /\ s.acknowledgment -> Establish(c, s)
      [] c.status = "SynReceived" -> c

ReceiveSyn(s, frame, closeFrame) ==
    /\ ~Ignored(connection, s) /\ ~s.reset /\ s.synchronize
    /\ LET opened == [AfterSyn(connection, s) EXCEPT
                        !.localAcknowledgment = Wrap(s.sequenceNumber + 1)]
       IN  Conclude(s, opened, TRUE, frame, closeFrame)
    /\ UNCHANGED receiveBuffer

(* The effect of the acknowledgment number.  A segment that reaches         *)
(* SynReceived establishes whatever it acknowledges.                        *)
(* Mutant of AcknowledgesFin: off by one.                                   *)
AcknowledgesBeforeFin(c, s) ==
    c.status = "FinSent" /\ s.acknowledgmentNumber = c.localSequenceNumber

AcknowledgesFin(c, s) ==
    c.status = "FinSent" /\ s.acknowledgmentNumber = c.localSequenceNumber + 1

FinAcknowledged(c) ==
    LET counted == [c EXCEPT !.localSequenceNumber = @ + 1]
    IN  IF c.remoteFinished THEN StartTimedClose(counted)
        ELSE [counted EXCEPT !.status = "WaitingForRemoteToFinish"]

AfterAcknowledgment(c, s) ==
    LET moved == CASE c.status = "SynReceived" -> Establish(c, s)
                   [] AcknowledgesFin(c, s) -> FinAcknowledged(c)
                   [] OTHER -> c
    IN  [moved EXCEPT !.remoteAcknowledgment =
            IF s.acknowledgmentNumber > @ THEN s.acknowledgmentNumber ELSE @]

(* Mutant of OutOfSequenceFin: every FIN counts.                            *)
OutOfSequenceNever(c, s) == FALSE

(* A FIN counts only in sequence; otherwise received() returns at once.     *)
OutOfSequenceFin(c, s) == s.finish /\ s.sequenceNumber # c.localAcknowledgment

AfterFinish(c, s) ==
    IF ~s.finish THEN c
    ELSE IF c.status = "WaitingForRemoteToFinish"
         THEN StartTimedClose([c EXCEPT !.remoteFinished = TRUE])
         ELSE [c EXCEPT !.remoteFinished = TRUE]

(* remoteSequenceNumber: the number behind the segment, a Natural32.        *)
EndOf(s) == Wrap(s.sequenceNumber + s.length + (IF s.finish THEN 1 ELSE 0))

Advances(c, s) == c.localAcknowledgment < EndOf(s)

(* Mutants of AfterPayload: an early segment is acknowledged over the gap   *)
(* before it; an old one takes an acknowledgment back.                      *)
AfterPayloadOverGap(c, s) ==
    IF Advances(c, s) THEN [c EXCEPT !.localAcknowledgment = EndOf(s)] ELSE c

AfterPayloadAnyway(c, s) == [c EXCEPT !.localAcknowledgment = EndOf(s)]

AfterPayload(c, s) ==
    IF Advances(c, s) /\ s.sequenceNumber = c.localAcknowledgment
    THEN [c EXCEPT !.localAcknowledgment = EndOf(s)] ELSE c

(* memcpy to receiveBuffer+sequenceNumber-remoteInitialSequenceNumber, from *)
(* optionsEnd: the bytes behind an End option are copied first.             *)
Byte(from, number) == [of |-> from, number |-> number]
Filler == Byte(NoRemote, 0)

(* Mutant of Copied: the position is taken from the acknowledgment.         *)
CopiedAtAcknowledgment(c, s) ==
    LET first == c.localAcknowledgment - c.remoteInitialSequenceNumber
    IN  [at \in first .. first + s.length - 1 |->
            Byte(s.source, Wrap(s.sequenceNumber + at - first))]

Copied(c, s) ==
    LET first == s.sequenceNumber - c.remoteInitialSequenceNumber
    IN  [at \in first .. first + s.length - 1 |->
            IF at - first < s.trailing THEN Filler
            ELSE Byte(s.source, Wrap(s.sequenceNumber + at - first - s.trailing))]

Overwritten(buffer, bytes) ==
    [at \in DOMAIN buffer \cup DOMAIN bytes |->
        IF at \in DOMAIN bytes THEN bytes[at] ELSE buffer[at]]

(* Mutant of AfterStore: the payload in front of a FIN is not copied.       *)
AfterStoreNoFin(c, s) ==
    IF Advances(c, s) /\ s.length > 0 /\ ~s.finish THEN Overwritten(receiveBuffer, Copied(c, s))
    ELSE receiveBuffer

AfterStore(c, s) ==
    IF Advances(c, s) /\ s.length > 0 THEN Overwritten(receiveBuffer, Copied(c, s)) ELSE receiveBuffer

Carries(c, s) == ~Ignored(c, s) /\ ~s.reset /\ ~s.synchronize

ReceiveStaleFinish(s, frame, closeFrame) ==
    LET c == AfterAcknowledgment(connection, s)
    IN  /\ Carries(connection, s) /\ OutOfSequenceFin(c, s)
        /\ Conclude(s, c, FALSE, frame, closeFrame)
        /\ UNCHANGED receiveBuffer

ReceiveSegment(s, frame, closeFrame) ==
    LET c == AfterFinish(AfterAcknowledgment(connection, s), s)
    IN  /\ Carries(connection, s) /\ ~OutOfSequenceFin(c, s)
        /\ receiveBuffer' = AfterStore(c, s)
        /\ Conclude(s, AfterPayload(c, s), s.finish \/ s.length > 0, frame, closeFrame)

Received(s, frame, closeFrame) ==
    \/ ReceiveIgnored(s, frame, closeFrame)
    \/ ReceiveReset(s, frame, closeFrame)
    \/ ReceiveSyn(s, frame, closeFrame)
    \/ ReceiveStaleFinish(s, frame, closeFrame)
    \/ ReceiveSegment(s, frame, closeFrame)

(* A segment for another port of this host: transmitReset().  The reply    *)
(* sets no flag, and its source address is the destination it was just     *)
(* given, the sender's own.                                                *)
Refusal(s) == PlainSegment([host |-> s.source.host, port |-> s.destination.port], s.source)

Refuse(s, frame) ==
    /\ s.destination.host = LocalHost /\ s.destination # Local
    /\ network' = (network \ Delivered(s)) \cup (IF frame THEN {Refusal(s)} ELSE {})
    /\ UNCHANGED <<connection, receiveBuffer>>
-----------------------------------------------------------------------------
(* Mutants of Due: the timer is not looked at; a timed close never ends.    *)
DueAtOnce(c) == c.status \notin {"Closed", "Listen", "WaitingForRemoteToFinish", "Established"}

DueUntilTimedClose(c) ==
    /\ c.retryTimer = 0
    /\ c.status \notin {"Closed", "Listen", "WaitingForRemoteToFinish", "TimedClose"}
    /\ ~(c.status = "Established" /\ c.remoteAcknowledgment = c.localSequenceNumber)

(* poll(): nothing before the timer expires, nor in a state that waits.     *)
Due(c) ==
    /\ c.retryTimer = 0
    /\ c.status \notin {"Closed", "Listen", "WaitingForRemoteToFinish"}
    /\ ~(c.status = "Established" /\ c.remoteAcknowledgment = c.localSequenceNumber)

(* Mutant of Counted: a poll counts twice.                                  *)
CountedTwice(c) == [c EXCEPT !.retryCounter = (@ + 2) % CounterSpace]

Counted(c) == [c EXCEPT !.retryCounter = (@ + 1) % CounterSpace]

PollFinish ==
    /\ Due(connection) /\ connection.status = "TimedClose"
    /\ connection' = [connection EXCEPT !.status = "Finished"]
    /\ UNCHANGED <<receiveBuffer, network>>

PollGiveUp ==
    /\ Due(connection) /\ connection.status # "TimedClose"
    /\ Counted(connection).retryCounter > MaxRetries
    /\ connection' = [Counted(connection) EXCEPT !.status = "Closed"]
    /\ UNCHANGED <<receiveBuffer, network>>

PollRetry(frame) ==
    /\ Due(connection) /\ connection.status # "TimedClose"
    /\ Counted(connection).retryCounter <= MaxRetries
    /\ Transmit(Counted(connection), frame)
    /\ UNCHANGED receiveBuffer

Poll(frame) == PollFinish \/ PollGiveUp \/ PollRetry(frame)
-----------------------------------------------------------------------------
ListenCall ==
    /\ connection.status = "Closed"
    /\ connection' = [connection EXCEPT !.status = "Listen"]
    /\ UNCHANGED <<receiveBuffer, network>>

(* connect(), after its caller has set remoteAddress and remotePort.        *)
Connect(remote, frame) ==
    /\ connection.status \in {"Closed", "Listen"}
    /\ Transmit([connection EXCEPT !.status = "SynSent", !.remote = remote,
                                   !.localSequenceNumber = 0], frame)
    /\ UNCHANGED receiveBuffer

(* Mutant of Tick: the time left runs below zero.                           *)
TickBelowZero ==
    /\ connection' = [connection EXCEPT !.retryTimer = @ - 1]
    /\ UNCHANGED <<receiveBuffer, network>>

(* The uptime advances by one tick.                                         *)
Tick ==
    /\ connection' = [connection EXCEPT !.retryTimer = IF @ > 0 THEN @ - 1 ELSE 0]
    /\ UNCHANGED <<receiveBuffer, network>>
=============================================================================
