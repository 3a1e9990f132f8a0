---------------------------- MODULE TcpPair_proofs ----------------------------
(***************************************************************************)
(* Two endpoints of this code agree on their numbers and on who has closed *)
(* and who knows it, whoever opens and whoever closes, over a network that *)
(* loses, repeats, delays and reorders.  What is said about an endpoint    *)
(* does not depend on which of the two it is: me is its own address, you   *)
(* the other one's.                                                        *)
(***************************************************************************)
EXTENDS TcpPair, TLAPS

(* No application closes a connection whose SYN is not acknowledged yet:    *)
(* the number that acknowledges the SYN would pass for the FIN's.           *)
ClosesWhenOpen == \A h \in {"a", "b"} : "SynReceived" \notin ClosesIn[h]

(* The states behind the own FIN.                                           *)
Acknowledged == {"WaitingForRemoteToFinish", "TimedClose", "Finished"}

(* Nothing is sent but a SYN and a FIN.                                     *)
Numbers == 0 .. 2

Endpoints(you) ==
    [status : A!Status, remote : {A!NoRemote, you},
     localSequenceNumber : Numbers, localAcknowledgment : Numbers,
     remoteAcknowledgment : Numbers, remoteInitialSequenceNumber : Numbers,
     retryTimer : Nat, retryCounter : Nat, remoteFinished : BOOLEAN]

(* The numbers of a connection in each of its states: 0 is that of the SYN, *)
(* 1 that of the FIN.                                                       *)
Numbered(c) ==
    /\ c.remote = A!NoRemote => c.status \in {"Closed", "Listen"} /\ ~c.remoteFinished
    /\ c.status = "Listen" => c.remote = A!NoRemote
    /\ c.status \in {"SynSent", "SynReceived"} => c.localSequenceNumber = 0 /\ ~c.remoteFinished
    /\ c.status \in {"Established", "FinSent"} => c.localSequenceNumber = 1
    /\ c.status \in Acknowledged => c.localSequenceNumber = 2
    /\ c.status = "WaitingForRemoteToFinish" => ~c.remoteFinished
    /\ c.status \in {"TimedClose", "Finished"} => c.remoteFinished
    /\ c.status \in Open \cup {"SynReceived"} =>
          c.localAcknowledgment = IF c.remoteFinished THEN 2 ELSE 1
    /\ c.localAcknowledgment = 2 => c.remoteFinished

(* Between two calls: received() does not return from Established with the  *)
(* remote finished, because it closes.                                      *)
Phased(c) == Numbered(c) /\ (c.status = "Established" => ~c.remoteFinished)

(* It has closed its side, or given up.                                     *)
Concluded(c) == c.status \in Concluding /\ c.remote # A!NoRemote

(* What segment m says about c, the connection that sent it.                *)
True(c, m) ==
    /\ m.finish => Concluded(c)
    /\ m.acknowledgmentNumber = 2 => c.remoteFinished

Segments(me, you) ==
    { m \in [source : {me}, destination : {you}, sequenceNumber : Numbers,
             acknowledgmentNumber : Numbers, synchronize : BOOLEAN, acknowledgment : BOOLEAN,
             finish : BOOLEAN, reset : {FALSE}, length : {0}, trailing : {0, 2}] :
        /\ m.synchronize => m.sequenceNumber = 0 /\ ~m.finish
        /\ m.finish => m.sequenceNumber = 1 }

(* What c believes of d, the other side, is true.                           *)
Justified(c, d) ==
    /\ c.remoteFinished => Concluded(d)
    /\ c.status \in Acknowledged => d.remoteFinished

PairInv ==
    /\ connA \in Endpoints(B!Local) /\ Phased(connA)
    /\ connB \in Endpoints(A!Local) /\ Phased(connB)
    /\ \A m \in network :
        \/ m \in Segments(A!Local, B!Local) /\ True(connA, m)
        \/ m \in Segments(B!Local, A!Local) /\ True(connB, m)
    /\ Justified(connA, connB) /\ Justified(connB, connA)

-----------------------------------------------------------------------------
LEMMA Addresses ==
    /\ A!Local # B!Local /\ A!Local # A!NoRemote /\ B!Local # A!NoRemote
    /\ A!NoRemote = B!NoRemote /\ A!InitialConnection = B!InitialConnection
  BY DEF A!Local, B!Local, A!NoRemote, B!NoRemote, A!InitialConnection, B!InitialConnection

LEMMA NumbersAre == 0 \in Numbers /\ 1 \in Numbers /\ 2 \in Numbers
  BY DEF Numbers

LEMMA SmallNumbers == \A n \in 0 .. 2 : A!Wrap(n) = n /\ B!Wrap(n) = n
  <1>1. SUFFICES ASSUME NEW n \in 0 .. 2
                 PROVE  n % SequenceSpace = n
    BY DEF A!Wrap, B!Wrap
  <1> QED
    BY PairSpaceAssumption

(* What a step that takes a connection from c to e may have learnt.         *)
Keeps(c, e) ==
    /\ c.remoteFinished => e.remoteFinished
    /\ Concluded(c) => Concluded(e)

LearntFrom(c, e, s) ==
    /\ e.remoteFinished => c.remoteFinished \/ s.finish
    /\ e.status \in Acknowledged => c.status \in Acknowledged \/ s.acknowledgmentNumber = 2

TakesSyn(c, s, e) ==
    /\ ~A!Ignored(c, s) /\ ~s.reset /\ s.synchronize
    /\ e = [A!AfterSyn(c, s) EXCEPT !.localAcknowledgment = A!Wrap(s.sequenceNumber + 1)]

TakesFinish(c, s, e) ==
    LET f == A!AfterFinish(c, s)
    IN  ~A!OutOfSequenceFin(f, s) /\ e = A!AfterPayload(f, s)

(* received() up to its end or return: state e, and whether it answers.     *)
Processed(c, s, e, answers) ==
    \/ A!Ignored(c, s) /\ e = c /\ ~answers
    \/ TakesSyn(c, s, e) /\ answers
    \/ A!Carries(c, s) /\ e = A!AfterAcknowledgment(c, s) /\ ~answers
    \/ A!Carries(c, s) /\ TakesFinish(A!AfterAcknowledgment(c, s), s, e)

LEMMA SynProcessed ==
    ASSUME NEW me, NEW you, you # A!NoRemote, NEW c \in Endpoints(you), Phased(c),
           NEW s \in Segments(you, me), NEW e, TakesSyn(c, s, e)
    PROVE  /\ e \in Endpoints(you) /\ Numbered(e) /\ Keeps(c, e) /\ LearntFrom(c, e, s)
           /\ e.remote = you
  <1>1. s.sequenceNumber = 0 /\ ~s.reset /\ s.source = you /\ s.synchronize
    BY DEF Segments, TakesSyn
  <1>2. A!Wrap(s.sequenceNumber + 1) = 1
    BY <1>1, SmallNumbers
  <1>3. c.status \in {"Listen", "SynSent", "SynReceived"}
    BY <1>1 DEF A!Ignored, TakesSyn
  <1>4. CASE c.status = "Listen"
    <2>1. e = [c EXCEPT !.status = "SynReceived", !.remote = you,
                        !.localSequenceNumber = 0, !.localAcknowledgment = 1]
      BY <1>1, <1>2, <1>4 DEF A!AfterSyn, Endpoints, TakesSyn
    <2>2. /\ e \in Endpoints(you) /\ e.status = "SynReceived" /\ e.remote = you
          /\ e.localSequenceNumber = 0 /\ e.localAcknowledgment = 1
          /\ e.remoteFinished = c.remoteFinished
      BY <2>1, NumbersAre DEF Endpoints, A!Status
    <2> QED
      BY <1>4, <2>2 DEF Phased, Numbered, Keeps, LearntFrom, Concluded, Concluding,
                        Acknowledged, Open
  <1>5. CASE c.status = "SynSent" /\ ~s.acknowledgment
    <2>1. e = [c EXCEPT !.status = "SynReceived", !.localAcknowledgment = 1]
      BY <1>2, <1>5 DEF A!AfterSyn, Endpoints, TakesSyn
    <2>2. /\ e \in Endpoints(you) /\ e.status = "SynReceived" /\ e.remote = c.remote
          /\ e.localSequenceNumber = c.localSequenceNumber /\ e.localAcknowledgment = 1
          /\ e.remoteFinished = c.remoteFinished
      BY <2>1, NumbersAre DEF Endpoints, A!Status
    <2>3. c.remote = you
      BY <1>5 DEF Endpoints, Phased, Numbered
    <2> QED
      BY <1>5, <2>2, <2>3 DEF Phased, Numbered, Keeps, LearntFrom, Concluded, Concluding,
                              Acknowledged, Open
  <1>6. CASE c.status = "SynSent" /\ s.acknowledgment
    <2>1. c.localSequenceNumber = 0
      BY <1>6 DEF Phased, Numbered
    <2>2. e = [c EXCEPT !.status = "Established", !.localSequenceNumber = 1,
                        !.remoteInitialSequenceNumber = 0, !.localAcknowledgment = 1]
      <3>1. A!AfterSyn(c, s) = A!Establish(c, s)
        BY <1>6 DEF A!AfterSyn
      <3>2. A!Establish(c, s) = [c EXCEPT !.status = "Established", !.localSequenceNumber = 1,
                                          !.remoteInitialSequenceNumber = 0]
        BY <1>1, <2>1 DEF A!Establish, Endpoints
      <3> QED
        BY <1>2, <3>1, <3>2 DEF Endpoints, TakesSyn
    <2>3. /\ e \in Endpoints(you) /\ e.status = "Established" /\ e.remote = c.remote
          /\ e.localSequenceNumber = 1 /\ e.localAcknowledgment = 1
          /\ e.remoteFinished = c.remoteFinished
      BY <2>2, NumbersAre DEF Endpoints, A!Status
    <2>4. c.remote = you
      BY <1>6 DEF Endpoints, Phased, Numbered
    <2> QED
      BY <1>6, <2>3, <2>4 DEF Phased, Numbered, Keeps, LearntFrom, Concluded, Concluding,
                              Acknowledged, Open
  <1>7. CASE c.status = "SynReceived"
    <2>1. e = [c EXCEPT !.localAcknowledgment = 1]
      BY <1>2, <1>7 DEF A!AfterSyn, Endpoints, TakesSyn
    <2>2. /\ e \in Endpoints(you) /\ e.status = "SynReceived" /\ e.remote = c.remote
          /\ e.localSequenceNumber = c.localSequenceNumber /\ e.localAcknowledgment = 1
          /\ e.remoteFinished = c.remoteFinished
      BY <1>7, <2>1, NumbersAre DEF Endpoints
    <2>3. c.remote = you
      BY <1>7 DEF Endpoints, Phased, Numbered
    <2> QED
      BY <1>7, <2>2, <2>3 DEF Phased, Numbered, Keeps, LearntFrom, Concluded, Concluding,
                              Acknowledged, Open
  <1> QED
    BY <1>3, <1>4, <1>5, <1>6, <1>7

(* The acknowledgment number: it establishes, or it is that of the FIN.     *)
LEMMA AcknowledgmentProcessed ==
    ASSUME NEW me, NEW you, you # A!NoRemote, NEW c \in Endpoints(you), Phased(c),
           NEW s \in Segments(you, me), A!Carries(c, s), NEW e, e = A!AfterAcknowledgment(c, s)
    PROVE  /\ e \in Endpoints(you) /\ Numbered(e) /\ Keeps(c, e) /\ LearntFrom(c, e, s)
           /\ e.remote = you /\ e.remoteFinished = c.remoteFinished
           /\ e.status \in Open
  <1>1. /\ s.sequenceNumber \in 0 .. 2 /\ s.acknowledgmentNumber \in 0 .. 2
        /\ ~s.reset /\ ~s.synchronize /\ s.source = you
        /\ s.sequenceNumber \in Numbers
    BY DEF Segments, A!Carries, Numbers
  <1>2. c.status \in {"SynReceived"} \cup Open /\ c.remote = you
    BY <1>1 DEF A!Carries, A!Ignored, Endpoints, A!Status, Open, Phased, Numbered
  <1>3. \A a \in Numbers :
            (IF s.acknowledgmentNumber > a THEN s.acknowledgmentNumber ELSE a) \in Numbers
    BY <1>1 DEF Numbers
  <1> DEFINE acked == IF s.acknowledgmentNumber > c.remoteAcknowledgment
                      THEN s.acknowledgmentNumber ELSE c.remoteAcknowledgment
  <1>4. acked \in Numbers
    BY <1>3 DEF Endpoints
  <1>8. \A d : d.remoteAcknowledgment = c.remoteAcknowledgment =>
            [d EXCEPT !.remoteAcknowledgment =
                IF s.acknowledgmentNumber > @ THEN s.acknowledgmentNumber ELSE @]
            = [d EXCEPT !.remoteAcknowledgment = acked]
    OBVIOUS
  <1>9. /\ c.status = "SynReceived" =>
                e = [A!Establish(c, s) EXCEPT !.remoteAcknowledgment =
                        IF s.acknowledgmentNumber > @ THEN s.acknowledgmentNumber ELSE @]
        /\ A!AcknowledgesFin(c, s) =>
                e = [A!FinAcknowledged(c) EXCEPT !.remoteAcknowledgment =
                        IF s.acknowledgmentNumber > @ THEN s.acknowledgmentNumber ELSE @]
        /\ c.status # "SynReceived" /\ ~A!AcknowledgesFin(c, s) =>
                e = [c EXCEPT !.remoteAcknowledgment =
                        IF s.acknowledgmentNumber > @ THEN s.acknowledgmentNumber ELSE @]
    BY DEF A!AfterAcknowledgment, A!AcknowledgesFin
  <1> HIDE DEF acked
  <1>5. CASE c.status = "SynReceived"
    <2>1. c.localSequenceNumber = 0
      BY <1>5 DEF Phased, Numbered
    <2>2. e = [c EXCEPT !.status = "Established", !.localSequenceNumber = 1,
                        !.remoteInitialSequenceNumber = s.sequenceNumber,
                        !.remoteAcknowledgment = acked]
      <3>1. A!Establish(c, s) = [c EXCEPT !.status = "Established", !.localSequenceNumber = 1,
                                          !.remoteInitialSequenceNumber = s.sequenceNumber]
        BY <2>1 DEF A!Establish, Endpoints
      <3>2. A!Establish(c, s).remoteAcknowledgment = c.remoteAcknowledgment
        BY <3>1 DEF Endpoints
      <3> QED
        BY <1>5, <1>8, <1>9, <3>1, <3>2
    <2>3. /\ e \in Endpoints(you) /\ e.status = "Established" /\ e.remote = c.remote
          /\ e.localSequenceNumber = 1 /\ e.localAcknowledgment = c.localAcknowledgment
          /\ e.remoteFinished = c.remoteFinished
      BY <1>1, <1>4, <2>2, NumbersAre DEF Endpoints, A!Status
    <2> QED
      BY <1>2, <1>5, <2>3 DEF Phased, Numbered, Keeps, LearntFrom, Concluded, Concluding,
                              Acknowledged, Open
  <1>6. CASE A!AcknowledgesFin(c, s)
    <2>1. c.status = "FinSent" /\ c.localSequenceNumber = 1 /\ s.acknowledgmentNumber = 2
      BY <1>6 DEF A!AcknowledgesFin, Phased, Numbered
    <2>2. CASE c.remoteFinished
      <3>1. e = [c EXCEPT !.localSequenceNumber = 2, !.status = "TimedClose",
                          !.retryTimer = RetryPeriod, !.remoteAcknowledgment = acked]
        <4>1. A!FinAcknowledged(c) =
                [c EXCEPT !.localSequenceNumber = 2, !.status = "TimedClose",
                          !.retryTimer = RetryPeriod]
          BY <2>1, <2>2 DEF A!FinAcknowledged, A!StartTimedClose, Endpoints
        <4>2. A!FinAcknowledged(c).remoteAcknowledgment = c.remoteAcknowledgment
          BY <4>1 DEF Endpoints
        <4> QED
          BY <1>6, <1>8, <1>9, <4>1, <4>2
      <3>2. /\ e \in Endpoints(you) /\ e.status = "TimedClose" /\ e.remote = c.remote
            /\ e.localSequenceNumber = 2 /\ e.localAcknowledgment = c.localAcknowledgment
            /\ e.remoteFinished = c.remoteFinished
        BY <1>4, <3>1, PairPeriodAssumption, NumbersAre DEF Endpoints, A!Status
      <3> QED
        BY <1>2, <2>1, <2>2, <3>2
           DEF Phased, Numbered, Keeps, LearntFrom, Concluded, Concluding, Acknowledged, Open
    <2>3. CASE ~c.remoteFinished
      <3>1. e = [c EXCEPT !.localSequenceNumber = 2, !.status = "WaitingForRemoteToFinish",
                          !.remoteAcknowledgment = acked]
        <4>1. A!FinAcknowledged(c) =
                [c EXCEPT !.localSequenceNumber = 2, !.status = "WaitingForRemoteToFinish"]
          BY <2>1, <2>3 DEF A!FinAcknowledged, Endpoints
        <4>2. A!FinAcknowledged(c).remoteAcknowledgment = c.remoteAcknowledgment
          BY <4>1 DEF Endpoints
        <4> QED
          BY <1>6, <1>8, <1>9, <4>1, <4>2
      <3>2. /\ e \in Endpoints(you) /\ e.status = "WaitingForRemoteToFinish" /\ e.remote = c.remote
            /\ e.localSequenceNumber = 2 /\ e.localAcknowledgment = c.localAcknowledgment
            /\ e.remoteFinished = c.remoteFinished
        BY <1>4, <3>1, NumbersAre DEF Endpoints, A!Status
      <3> QED
        BY <1>2, <2>1, <2>3, <3>2
           DEF Phased, Numbered, Keeps, LearntFrom, Concluded, Concluding, Acknowledged, Open
    <2> QED
      BY <2>2, <2>3
  <1>7. CASE c.status # "SynReceived" /\ ~A!AcknowledgesFin(c, s)
    <2>1. e = [c EXCEPT !.remoteAcknowledgment = acked]
      BY <1>7, <1>8, <1>9
    <2>2. /\ e \in Endpoints(you) /\ e.status = c.status /\ e.remote = c.remote
          /\ e.localSequenceNumber = c.localSequenceNumber /\ e.localAcknowledgment = c.localAcknowledgment
          /\ e.remoteFinished = c.remoteFinished
      BY <1>4, <2>1, NumbersAre DEF Endpoints
    <2> QED
      BY <1>2, <1>7, <2>2 DEF Phased, Numbered, Keeps, LearntFrom, Concluded, Concluding,
                              Acknowledged, Open
  <1> QED
    BY <1>5, <1>6, <1>7

(* A FIN in sequence moves the acknowledgment from 1 to 2; nothing else     *)
(* moves it.                                                                *)
LEMMA FinishProcessed ==
    ASSUME NEW me, NEW you, NEW c, NEW e \in Endpoints(you), Numbered(e), Keeps(c, e),
           NEW s \in Segments(you, me), LearntFrom(c, e, s),
           e.remote = you, you # A!NoRemote, e.status \in Open, NEW g,
           TakesFinish(e, s, g)
    PROVE  /\ g \in Endpoints(you) /\ Numbered(g) /\ Keeps(c, g) /\ LearntFrom(c, g, s)
           /\ g.remote = you
  <1>1. s.sequenceNumber \in 0 .. 2 /\ s.length = 0 /\ (s.finish => s.sequenceNumber = 1)
    BY DEF Segments, Numbers
  <1>2. e.localAcknowledgment = IF e.remoteFinished THEN 2 ELSE 1
    BY DEF Numbered
  <1>3. CASE ~s.finish
    <2>1. A!EndOf(s) = s.sequenceNumber
      BY <1>1, <1>3, SmallNumbers DEF A!EndOf
    <2>2. A!AfterFinish(e, s) = e
      BY <1>3 DEF A!AfterFinish
    <2>3. ~(A!Advances(e, s) /\ s.sequenceNumber = e.localAcknowledgment)
      BY <1>1, <1>2, <2>1 DEF A!Advances
    <2>4. g = e
      BY <2>2, <2>3 DEF A!AfterPayload, TakesFinish
    <2> QED
      BY <2>4
  <1>4. CASE s.finish
    <2>1. A!EndOf(s) = 2
      BY <1>1, <1>4, SmallNumbers DEF A!EndOf
    <2>2. A!AfterFinish(e, s).localAcknowledgment = e.localAcknowledgment
      BY <1>4 DEF A!AfterFinish, A!StartTimedClose, Endpoints
    <2>3. e.localAcknowledgment = 1 /\ ~e.remoteFinished
      BY <1>1, <1>2, <1>4, <2>2 DEF A!OutOfSequenceFin, TakesFinish
    <2>4. A!Advances(A!AfterFinish(e, s), s)
      BY <2>1, <2>2, <2>3 DEF A!Advances
    <2>5. g = [A!AfterFinish(e, s) EXCEPT !.localAcknowledgment = 2]
      BY <1>1, <1>4, <2>1, <2>2, <2>3, <2>4 DEF A!AfterPayload, TakesFinish
    <2>6. CASE e.status = "WaitingForRemoteToFinish"
      <3>1. g = [e EXCEPT !.remoteFinished = TRUE, !.status = "TimedClose",
                          !.retryTimer = RetryPeriod, !.localAcknowledgment = 2]
        BY <1>4, <2>5, <2>6 DEF A!AfterFinish, A!StartTimedClose, Endpoints
      <3>2. /\ g \in Endpoints(you) /\ g.status = "TimedClose" /\ g.remote = e.remote
            /\ g.localSequenceNumber = e.localSequenceNumber /\ g.localAcknowledgment = 2
            /\ g.remoteFinished = TRUE
        BY <3>1, PairPeriodAssumption, NumbersAre DEF Endpoints, A!Status
      <3> QED
        BY <1>4, <2>6, <3>2
           DEF Numbered, Keeps, LearntFrom, Concluded, Concluding, Acknowledged, Open
    <2>7. CASE e.status # "WaitingForRemoteToFinish"
      <3>1. g = [e EXCEPT !.remoteFinished = TRUE, !.localAcknowledgment = 2]
        BY <1>4, <2>5, <2>7 DEF A!AfterFinish, Endpoints
      <3>2. /\ g \in Endpoints(you) /\ g.status = e.status /\ g.remote = e.remote
            /\ g.localSequenceNumber = e.localSequenceNumber /\ g.localAcknowledgment = 2
            /\ g.remoteFinished = TRUE
        BY <3>1, NumbersAre DEF Endpoints
      <3> QED
        BY <1>4, <2>3, <2>7, <3>2
           DEF Numbered, Keeps, LearntFrom, Concluded, Concluding, Acknowledged, Open
    <2> QED
      BY <2>6, <2>7
  <1> QED
    BY <1>3, <1>4

LEMMA ReceivedProcessed ==
    ASSUME NEW me, NEW you, you # A!NoRemote, NEW c \in Endpoints(you), Phased(c),
           NEW s \in Segments(you, me), NEW e, NEW answers, Processed(c, s, e, answers)
    PROVE  /\ e \in Endpoints(you) /\ Numbered(e) /\ Keeps(c, e) /\ LearntFrom(c, e, s)
           /\ answers => e.remote = you
  <1>1. CASE A!Ignored(c, s) /\ e = c /\ ~answers
    BY <1>1 DEF Phased, Keeps, LearntFrom
  <1>2. CASE TakesSyn(c, s, e)
    BY <1>2, SynProcessed
  <1>3. CASE A!Carries(c, s) /\ e = A!AfterAcknowledgment(c, s)
    BY <1>3, AcknowledgmentProcessed
  <1>4. CASE A!Carries(c, s) /\ TakesFinish(A!AfterAcknowledgment(c, s), s, e)
    <2> DEFINE h == A!AfterAcknowledgment(c, s)
    <2>1. /\ h \in Endpoints(you) /\ Numbered(h) /\ Keeps(c, h) /\ LearntFrom(c, h, s)
          /\ h.remote = you /\ h.status \in Open
      BY <1>4, AcknowledgmentProcessed
    <2>2. TakesFinish(h, s, e)
      BY <1>4
    <2> HIDE DEF h
    <2> QED
      BY <2>1, <2>2, FinishProcessed
  <1> QED
    BY <1>1, <1>2, <1>3, <1>4 DEF Processed
-----------------------------------------------------------------------------
(* What an endpoint says.  The operators of both instances that do not      *)
(* name the endpoint itself are the same.                                   *)
From(me, c) ==
    [A!PlainSegment(me, c.remote) EXCEPT
        !.sequenceNumber = A!Wrap(c.localSequenceNumber),
        !.acknowledgment = A!Acknowledging(c),
        !.acknowledgmentNumber = IF A!Acknowledging(c) THEN A!Wrap(c.localAcknowledgment) ELSE 0,
        !.synchronize = A!Handshaking(c),
        !.trailing = IF A!Handshaking(c) THEN 2 ELSE 0,
        !.finish = A!FinDue(c)]

Finishing(c) == [c EXCEPT !.status = "FinSent"]

LEMMA SentByEither ==
    \A c : A!Outgoing(c) = From(A!Local, c) /\ B!Outgoing(c) = From(B!Local, c)
  <1> TAKE c
  <1>1. /\ A!Wrap(c.localSequenceNumber) = B!Wrap(c.localSequenceNumber)
        /\ A!Wrap(c.localAcknowledgment) = B!Wrap(c.localAcknowledgment)
        /\ A!Acknowledging(c) = B!Acknowledging(c)
        /\ A!Handshaking(c) = B!Handshaking(c) /\ A!FinDue(c) = B!FinDue(c)
    BY DEF A!Wrap, A!Acknowledging, A!Handshaking, A!FinDue,
           B!Wrap, B!Acknowledging, B!Handshaking, B!FinDue
  <1>2. A!Outgoing(c) = From(A!Local, c)
    BY DEF From, A!Outgoing
  <1>3. B!Outgoing(c) = From(B!Local, c)
    <2>1. B!PlainSegment(B!Local, c.remote) = A!PlainSegment(B!Local, c.remote)
      BY DEF A!PlainSegment, B!PlainSegment
    <2> QED
      BY <1>1, <2>1 DEF From, B!Outgoing
  <1> QED
    BY <1>2, <1>3

LEMMA SameSteps ==
    /\ \A c, s : /\ B!Ignored(c, s) <=> A!Ignored(c, s)
                 /\ B!Carries(c, s) <=> A!Carries(c, s)
                 /\ B!AfterSyn(c, s) = A!AfterSyn(c, s)
                 /\ B!AfterAcknowledgment(c, s) = A!AfterAcknowledgment(c, s)
                 /\ B!AfterFinish(c, s) = A!AfterFinish(c, s)
                 /\ B!OutOfSequenceFin(c, s) <=> A!OutOfSequenceFin(c, s)
                 /\ B!AfterPayload(c, s) = A!AfterPayload(c, s)
    /\ \A c, frame : /\ B!AfterClose(c, frame) = A!AfterClose(c, frame)
                     /\ B!Armed(c, frame) = A!Armed(c, frame)
    /\ \A c : B!Counted(c) = A!Counted(c) /\ (B!Due(c) <=> A!Due(c))
    /\ \A n : B!Wrap(n) = A!Wrap(n)
    /\ B!ClosesWithFin = A!ClosesWithFin /\ B!ClosesAtOnce = A!ClosesAtOnce
  BY DEF A!Ignored, A!Foreign, A!Carries, A!AfterSyn, A!Establish, A!AfterAcknowledgment,
         A!AcknowledgesFin, A!FinAcknowledged, A!StartTimedClose, A!AfterFinish,
         A!OutOfSequenceFin, A!AfterPayload, A!Advances, A!EndOf, A!Wrap, A!AfterClose,
         A!ClosesAtOnce, A!ClosesWithFin, A!Armed, A!Counted, A!CounterSpace, A!Due,
         B!Ignored, B!Foreign, B!Carries, B!AfterSyn, B!Establish, B!AfterAcknowledgment,
         B!AcknowledgesFin, B!FinAcknowledged, B!StartTimedClose, B!AfterFinish,
         B!OutOfSequenceFin, B!AfterPayload, B!Advances, B!EndOf, B!Wrap, B!AfterClose,
         B!ClosesAtOnce, B!ClosesWithFin, B!Armed, B!Counted, B!CounterSpace, B!Due

LEMMA SaysTheTruth ==
    ASSUME NEW me, NEW you, you # A!NoRemote, NEW c \in Endpoints(you), Numbered(c), c.remote = you
    PROVE  From(me, c) \in Segments(me, you) /\ True(c, From(me, c))
  <1> DEFINE m == From(me, c)
  <1>1. /\ c.localSequenceNumber \in 0 .. 2 /\ c.localAcknowledgment \in 0 .. 2
        /\ c.localSequenceNumber \in Numbers /\ c.localAcknowledgment \in Numbers
    BY DEF Endpoints, Numbers
  <1>2. /\ m.sequenceNumber = c.localSequenceNumber
        /\ m.acknowledgmentNumber = IF A!Acknowledging(c) THEN c.localAcknowledgment ELSE 0
        /\ m.synchronize = A!Handshaking(c) /\ m.finish = A!FinDue(c)
    BY <1>1, SmallNumbers DEF From, A!PlainSegment
  <1>3. A!FinDue(c) => c.status = "FinSent" /\ c.localSequenceNumber = 1 /\ Concluded(c)
    BY DEF A!FinDue, Numbered, Concluded, Concluding
  <1>4. A!Handshaking(c) => c.localSequenceNumber = 0 /\ c.status # "FinSent"
    BY DEF A!Handshaking, Numbered
  <1>5. True(c, m)
    BY <1>2, <1>3 DEF True, Numbered
  <1>6. /\ m.synchronize => m.sequenceNumber = 0 /\ ~m.finish
        /\ m.finish => m.sequenceNumber = 1
    BY <1>2, <1>3, <1>4
  <1>7. m \in [source : {me}, destination : {you}, sequenceNumber : Numbers,
              acknowledgmentNumber : Numbers, synchronize : BOOLEAN, acknowledgment : BOOLEAN,
              finish : BOOLEAN, reset : {FALSE}, length : {0}, trailing : {0, 2}]
    <2>1. A!Wrap(c.localSequenceNumber) \in Numbers /\ A!Wrap(c.localAcknowledgment) \in Numbers
      BY <1>1, SmallNumbers
    <2>2. A!Handshaking(c) \in BOOLEAN /\ A!Acknowledging(c) \in BOOLEAN /\ A!FinDue(c) \in BOOLEAN
      BY DEF A!Handshaking, A!Acknowledging, A!FinDue
    <2> QED
      BY <2>1, <2>2, NumbersAre DEF From, A!PlainSegment
  <1> HIDE DEF m
  <1>8. m \in Segments(me, you)
    BY <1>6, <1>7 DEF Segments
  <1> QED
    BY <1>5, <1>8 DEF m

LEMMA StaysTrue ==
    ASSUME NEW c, NEW d, NEW m, True(c, m), Keeps(c, d)
    PROVE  True(d, m)
  BY DEF True, Keeps

(* close(), by the application or at the end of received().                 *)
LEMMA AfterCloseIs ==
    ASSUME NEW you, you # A!NoRemote, NEW c \in Endpoints(you), Numbered(c),
           c.status # "SynReceived", NEW frame, NEW d, d = A!AfterClose(c, frame)
    PROVE  /\ d \in Endpoints(you) /\ Phased(d) /\ Keeps(c, d)
           /\ d.remoteFinished = c.remoteFinished
           /\ d.status \in Acknowledged => c.status \in Acknowledged
           /\ c.status \in A!ClosesWithFin =>
                /\ c.remote = you /\ Finishing(c) \in Endpoints(you) /\ Numbered(Finishing(c))
                /\ Finishing(c).remote = you /\ Keeps(Finishing(c), d)
  <1>1. CASE c.status \in A!ClosesAtOnce
    <2>1. d = [c EXCEPT !.status = "Closed"]
      BY <1>1 DEF A!AfterClose
    <2>2. /\ d \in Endpoints(you) /\ d.status = "Closed" /\ d.remote = c.remote
          /\ d.remoteFinished = c.remoteFinished
          /\ d.localAcknowledgment = c.localAcknowledgment
      BY <2>1 DEF Endpoints, A!Status
    <2> QED
      BY <1>1, <2>2 DEF A!ClosesAtOnce, A!ClosesWithFin, Phased, Numbered, Keeps, Concluded,
                        Concluding, Acknowledged, Open
  <1>2. CASE c.status \in A!ClosesWithFin
    <2> DEFINE e == Finishing(c)
    <2>1. c.status = "Established" /\ c.remote = you
      BY <1>2 DEF A!ClosesWithFin, Numbered, Endpoints
    <2>2. /\ e \in Endpoints(you) /\ e.status = "FinSent" /\ e.remote = you
          /\ e.remoteFinished = c.remoteFinished
          /\ e.localSequenceNumber = c.localSequenceNumber
          /\ e.localAcknowledgment = c.localAcknowledgment
      BY <2>1 DEF Finishing, Endpoints, A!Status
    <2>3. d = A!Armed(e, frame)
      BY <1>2, <2>1 DEF A!AfterClose, A!ClosesAtOnce, Finishing
    <2> HIDE DEF e
    <2>4. /\ d \in Endpoints(you) /\ d.status = "FinSent" /\ d.remote = you
          /\ d.remoteFinished = c.remoteFinished
          /\ d.localSequenceNumber = c.localSequenceNumber
          /\ d.localAcknowledgment = c.localAcknowledgment
      BY <2>2, <2>3, PairPeriodAssumption DEF A!Armed, Endpoints
    <2>5. Phased(d) /\ Keeps(c, d) /\ d.status \notin Acknowledged
      BY <2>1, <2>4 DEF Phased, Numbered, Keeps, Concluded, Concluding, Acknowledged, Open
    <2>6. Numbered(e) /\ Keeps(e, d)
      BY <2>1, <2>2, <2>4 DEF Numbered, Keeps, Concluded, Concluding, Acknowledged, Open
    <2> QED
      BY <2>1, <2>2, <2>4, <2>5, <2>6 DEF e
  <1>3. CASE c.status \notin A!ClosesAtOnce \cup A!ClosesWithFin
    <2>1. d = c
      BY <1>3 DEF A!AfterClose
    <2> QED
      BY <1>3, <2>1 DEF A!ClosesWithFin, Phased, Keeps
  <1> QED
    BY <1>1, <1>2, <1>3

LEMMA ArmedIs ==
    ASSUME NEW you, NEW c \in Endpoints(you), NEW frame, NEW d, d = A!Armed(c, frame)
    PROVE  /\ d \in Endpoints(you) /\ Keeps(c, d) /\ Keeps(d, c)
           /\ d.status = c.status /\ d.remote = c.remote /\ d.remoteFinished = c.remoteFinished
           /\ Numbered(c) => Numbered(d)
  <1>1. /\ d \in Endpoints(you) /\ d.status = c.status /\ d.remote = c.remote
        /\ d.remoteFinished = c.remoteFinished
        /\ d.localSequenceNumber = c.localSequenceNumber
        /\ d.localAcknowledgment = c.localAcknowledgment
    BY PairPeriodAssumption DEF A!Armed, Endpoints
  <1> QED
    BY <1>1 DEF Keeps, Concluded, Numbered

(* The end of received(): the state it leaves, and what it has sent.        *)
Leaves(e, answers, frame, closeFrame, d) ==
    LET answered == IF answers THEN A!Armed(e, frame) ELSE e
    IN  d = IF e.remoteFinished THEN A!AfterClose(answered, closeFrame) ELSE answered

Answerable(you, e, answers) ==
    e \in Endpoints(you) /\ Numbered(e) /\ (answers => e.remote = you)

Left(me, you, e, answers, d) ==
    /\ d \in Endpoints(you) /\ Phased(d) /\ Keeps(e, d)
    /\ d.remoteFinished = e.remoteFinished
    /\ d.status \in Acknowledged => e.status \in Acknowledged
    /\ answers => From(me, e) \in Segments(me, you) /\ True(d, From(me, e))
    /\ e.remoteFinished /\ e.status \in A!ClosesWithFin =>
        From(me, Finishing(e)) \in Segments(me, you) /\ True(d, From(me, Finishing(e)))

LEMMA ConcludesWell ==
    ASSUME NEW me, NEW you, you # A!NoRemote, NEW e, NEW answers,
           Answerable(you, e, answers), NEW frame, NEW closeFrame, NEW d,
           Leaves(e, answers, frame, closeFrame, d)
    PROVE  Left(me, you, e, answers, d)
  <1>0. e \in Endpoints(you) /\ Numbered(e) /\ (answers => e.remote = you)
    BY DEF Answerable
  <1> DEFINE answered == IF answers THEN A!Armed(e, frame) ELSE e
  <1>1. /\ answered \in Endpoints(you) /\ Numbered(answered) /\ Keeps(e, answered)
        /\ answered.status = e.status /\ answered.remoteFinished = e.remoteFinished
    BY <1>0, ArmedIs DEF Keeps
  <1>2. d = IF e.remoteFinished THEN A!AfterClose(answered, closeFrame) ELSE answered
    BY DEF Leaves
  <1> HIDE DEF answered
  <1>3. e.remoteFinished => e.status # "SynReceived"
    BY <1>0 DEF Numbered
  <1>4. CASE e.remoteFinished
    <2>1. /\ d \in Endpoints(you) /\ Phased(d) /\ Keeps(answered, d)
          /\ d.remoteFinished = answered.remoteFinished
          /\ d.status \in Acknowledged => answered.status \in Acknowledged
      <3>1. d = A!AfterClose(answered, closeFrame) /\ answered.status # "SynReceived"
        BY <1>1, <1>2, <1>3, <1>4
      <3> QED
        BY <1>1, <3>1, AfterCloseIs
    <2>2. Keeps(e, d)
      BY <1>1, <2>1 DEF Keeps
    <2>3. answers => From(me, e) \in Segments(me, you) /\ True(d, From(me, e))
      BY <1>0, <2>2, SaysTheTruth, StaysTrue
    <2>4. ASSUME e.status \in A!ClosesWithFin
          PROVE  From(me, Finishing(e)) \in Segments(me, you) /\ True(d, From(me, Finishing(e)))
      <3>1. /\ Finishing(e) \in Endpoints(you) /\ Numbered(Finishing(e))
            /\ Finishing(e).remote = you
        BY <1>0, <1>3, <1>4, <2>4, AfterCloseIs
      <3>2. /\ From(me, Finishing(e)) \in Segments(me, you)
            /\ True(Finishing(e), From(me, Finishing(e)))
        BY <3>1, SaysTheTruth
      <3>3. Finishing(e).remoteFinished = e.remoteFinished
        BY <1>0 DEF Finishing, Endpoints
      <3>4. Concluded(d)
        <4>1. d = A!Armed(Finishing(answered), closeFrame) /\ answered.remote = you
          BY <1>0, <1>1, <1>2, <1>3, <1>4, <2>4, AfterCloseIs
             DEF A!AfterClose, A!ClosesAtOnce, A!ClosesWithFin, Finishing
        <4>2. d.status = "FinSent" /\ d.remote = you
          BY <1>1, <4>1 DEF A!Armed, Finishing, Endpoints
        <4> QED
          BY <4>2 DEF Concluded, Concluding
      <3> QED
        BY <1>1, <2>1, <3>2, <3>3, <3>4 DEF True
    <2> QED
      BY <1>1, <2>1, <2>2, <2>3, <2>4 DEF Left
  <1>5. CASE ~e.remoteFinished
    <2>1. d = answered
      BY <1>2, <1>5
    <2>2. answers => From(me, e) \in Segments(me, you) /\ True(d, From(me, e))
      BY <1>0, <1>1, <2>1, SaysTheTruth, StaysTrue
    <2> QED
      BY <1>1, <1>5, <2>1, <2>2 DEF Phased, Left
  <1> QED
    BY <1>4, <1>5
-----------------------------------------------------------------------------
(* The steps of the two endpoints.  A step of one learns from what the      *)
(* other has sent, and says what is true of the state it leads to.          *)
Moves(me, you, c, d) ==
    /\ d \in Endpoints(you) /\ Phased(d) /\ Keeps(c, d)
    /\ d.remoteFinished => c.remoteFinished \/ \E m \in network : m \in Segments(you, me) /\ m.finish
    /\ d.status \in Acknowledged =>
          \/ c.status \in Acknowledged
          \/ \E m \in network : m \in Segments(you, me) /\ m.acknowledgmentNumber = 2
    /\ \A m \in network' : m \in network \/ (m \in Segments(me, you) /\ True(d, m))

LEMMA ReceivedByA ==
    ASSUME PairInv, NEW s \in network, s.destination = A!Local, NEW frame, NEW closeFrame,
           A!Received(s, frame, closeFrame)
    PROVE  Moves(A!Local, B!Local, connA, connA')
  <1>1. connA \in Endpoints(B!Local) /\ Phased(connA) /\ B!Local # A!NoRemote
    BY Addresses DEF PairInv
  <1>2. s \in Segments(B!Local, A!Local)
    BY Addresses DEF PairInv, Segments
  <1>3. \E e, answers : Processed(connA, s, e, answers) /\ A!Conclude(s, e, answers, frame, closeFrame)
    <2>1. CASE A!ReceiveIgnored(s, frame, closeFrame)
      <3>1. Processed(connA, s, connA, FALSE) /\ A!Conclude(s, connA, FALSE, frame, closeFrame)
        BY <2>1, SameSteps DEF A!ReceiveIgnored, Processed
      <3> QED
        BY <3>1
    <2>2. CASE A!ReceiveReset(s, frame, closeFrame)
      BY <1>2, <2>2 DEF A!ReceiveReset, Segments
    <2>3. CASE A!ReceiveSyn(s, frame, closeFrame)
      <3> DEFINE e == [A!AfterSyn(connA, s) EXCEPT !.localAcknowledgment = A!Wrap(s.sequenceNumber + 1)]
      <3>1. TakesSyn(connA, s, e) /\ A!Conclude(s, e, TRUE, frame, closeFrame)
        BY <2>3, SameSteps DEF A!ReceiveSyn, TakesSyn
      <3> HIDE DEF e
      <3>2. Processed(connA, s, e, TRUE)
        BY <3>1 DEF Processed
      <3> QED
        BY <3>1, <3>2
    <2>4. CASE A!ReceiveStaleFinish(s, frame, closeFrame)
      <3> DEFINE e == A!AfterAcknowledgment(connA, s)
      <3>1. A!Carries(connA, s) /\ A!Conclude(s, e, FALSE, frame, closeFrame)
        BY <2>4, SameSteps DEF A!ReceiveStaleFinish
      <3>2. Processed(connA, s, e, FALSE)
        BY <3>1 DEF Processed
      <3> QED
        BY <3>1, <3>2
    <2>5. CASE A!ReceiveSegment(s, frame, closeFrame)
      <3> DEFINE f == A!AfterFinish(A!AfterAcknowledgment(connA, s), s)
                 e == A!AfterPayload(f, s)
                 answers == s.finish \/ s.length > 0
      <3>1. /\ A!Carries(connA, s) /\ ~A!OutOfSequenceFin(f, s)
            /\ A!Conclude(s, e, answers, frame, closeFrame)
        BY <2>5, SameSteps DEF A!ReceiveSegment
      <3>2. Processed(connA, s, e, answers)
        BY <3>1 DEF Processed, TakesFinish
      <3> QED
        BY <3>1, <3>2
    <2> QED
      BY <2>1, <2>2, <2>3, <2>4, <2>5 DEF A!Received
  <1>4. PICK e, answers : Processed(connA, s, e, answers) /\ A!Conclude(s, e, answers, frame, closeFrame)
    BY <1>3
  <1>5. /\ e \in Endpoints(B!Local) /\ Numbered(e) /\ Keeps(connA, e) /\ LearntFrom(connA, e, s)
        /\ answers => e.remote = B!Local
    BY <1>1, <1>2, <1>4, ReceivedProcessed
  <1>6. Leaves(e, answers, frame, closeFrame, connA')
    BY <1>4, SameSteps DEF A!Conclude, Leaves
  <1>7. \A m \in network' :
            \/ m \in network
            \/ answers /\ m = From(A!Local, e)
            \/ /\ e.remoteFinished /\ e.status \in A!ClosesWithFin
               /\ m = From(A!Local, Finishing(e))
    <2>1. \A m \in A!Sends(e, frame) : m = From(A!Local, e)
      BY SentByEither DEF A!Sends
    <2>2. \A m \in A!CloseSends(e, closeFrame) :
            e.status \in A!ClosesWithFin /\ m = From(A!Local, Finishing(e))
      BY SameSteps, SentByEither DEF A!CloseSends, A!Sends, Finishing
    <2> QED
      BY <1>4, <2>1, <2>2 DEF A!Conclude
  <1>8. /\ connA' \in Endpoints(B!Local) /\ Phased(connA') /\ Keeps(e, connA')
        /\ connA'.remoteFinished = e.remoteFinished
        /\ connA'.status \in Acknowledged => e.status \in Acknowledged
        /\ answers => /\ From(A!Local, e) \in Segments(A!Local, B!Local)
                      /\ True(connA', From(A!Local, e))
        /\ e.remoteFinished /\ e.status \in A!ClosesWithFin =>
                /\ From(A!Local, Finishing(e)) \in Segments(A!Local, B!Local)
                /\ True(connA', From(A!Local, Finishing(e)))
    <2>1. Answerable(B!Local, e, answers)
      BY <1>5 DEF Answerable
    <2>2. Left(A!Local, B!Local, e, answers, connA')
      BY <1>1, <1>6, <2>1, ConcludesWell
    <2> QED
      BY <2>2 DEF Left
  <1>9. Keeps(connA, connA')
    BY <1>5, <1>8 DEF Keeps
  <1>10. /\ connA'.remoteFinished => connA.remoteFinished \/ s.finish
         /\ connA'.status \in Acknowledged =>
                connA.status \in Acknowledged \/ s.acknowledgmentNumber = 2
    BY <1>5, <1>8 DEF LearntFrom
  <1>11. \A m \in network' : m \in network \/ (m \in Segments(A!Local, B!Local) /\ True(connA', m))
    BY <1>7, <1>8
  <1> QED
    BY <1>2, <1>8, <1>9, <1>10, <1>11 DEF Moves

LEMMA CalledOnA ==
    ASSUME ClosesWhenOpen, PairInv, OpenA \/ CloseA \/ PollA \/ TickA
    PROVE  Moves(A!Local, B!Local, connA, connA')
  <1>1. connA \in Endpoints(B!Local) /\ Phased(connA) /\ B!Local # A!NoRemote
    BY Addresses DEF PairInv
  <1>2. CASE OpenA /\ "a" \in Opening
    <2>1. PICK frame \in FrameResults : A!Connect(B!Local, frame)
      BY <1>2 DEF OpenA
    <2> DEFINE e == [connA EXCEPT !.status = "SynSent", !.remote = B!Local,
                                  !.localSequenceNumber = 0]
    <2>2. connA = A!InitialConnection
      BY <1>2 DEF OpenA, Fresh
    <2>3. /\ e \in Endpoints(B!Local) /\ e.status = "SynSent" /\ e.remote = B!Local
          /\ e.localSequenceNumber = 0 /\ e.localAcknowledgment = connA.localAcknowledgment
          /\ e.remoteFinished = connA.remoteFinished
      BY <1>1, NumbersAre DEF Endpoints, A!Status
    <2>4. /\ connA.status = "Closed" /\ connA.remote = A!NoRemote
          /\ connA.localAcknowledgment = 0 /\ ~connA.remoteFinished
      BY <2>2 DEF A!InitialConnection
    <2>5. connA' = A!Armed(e, frame) /\ network' = network \cup A!Sends(e, frame)
      BY <2>1, SameSteps DEF A!Connect, A!Transmit
    <2> HIDE DEF e
    <2>6. Numbered(e) /\ Keeps(connA, e)
      BY <1>1, <2>3, <2>4 DEF Numbered, Keeps, Concluded, Acknowledged, Open
    <2>7. /\ connA' \in Endpoints(B!Local) /\ Numbered(connA') /\ Keeps(e, connA')
          /\ connA'.status = "SynSent" /\ ~connA'.remoteFinished
      BY <2>3, <2>4, <2>5, <2>6, ArmedIs
    <2>8. From(A!Local, e) \in Segments(A!Local, B!Local) /\ True(connA', From(A!Local, e))
      BY <1>1, <2>3, <2>6, <2>7, SaysTheTruth, StaysTrue
    <2>9. \A m \in network' : m \in network \/ m = From(A!Local, e)
      BY <2>5, SentByEither DEF A!Sends
    <2> QED
      BY <2>6, <2>7, <2>8, <2>9 DEF Moves, Phased, Keeps, Acknowledged
  <1>3. CASE OpenA /\ "a" \notin Opening
    <2>1. connA' = [connA EXCEPT !.status = "Listen"] /\ network' = network
      BY <1>3 DEF OpenA, A!ListenCall
    <2>2. connA.remote = A!NoRemote /\ ~connA.remoteFinished
      BY <1>3 DEF OpenA, Fresh, A!InitialConnection
    <2>3. /\ connA' \in Endpoints(B!Local) /\ connA'.status = "Listen"
          /\ connA'.remote = connA.remote /\ connA'.remoteFinished = connA.remoteFinished
          /\ connA'.localAcknowledgment = connA.localAcknowledgment
      BY <1>1, <2>1 DEF Endpoints, A!Status
    <2> QED
      BY <1>1, <2>1, <2>2, <2>3 DEF Moves, Phased, Numbered, Keeps, Concluded, Acknowledged, Open
  <1>4. CASE CloseA
    <2>1. PICK frame \in FrameResults : A!Close(frame)
      BY <1>4 DEF CloseA
    <2>2. connA.status # "SynReceived"
      BY <1>4 DEF CloseA, ClosesWhenOpen
    <2>3. connA' = A!AfterClose(connA, frame) /\ network' = network \cup A!CloseSends(connA, frame)
      BY <2>1, SameSteps DEF A!Close
    <2>4. /\ connA' \in Endpoints(B!Local) /\ Phased(connA') /\ Keeps(connA, connA')
          /\ connA'.remoteFinished = connA.remoteFinished
          /\ connA'.status \in Acknowledged => connA.status \in Acknowledged
          /\ connA.status \in A!ClosesWithFin =>
                /\ Finishing(connA) \in Endpoints(B!Local) /\ Numbered(Finishing(connA))
                /\ Finishing(connA).remote = B!Local /\ Keeps(Finishing(connA), connA')
      BY <1>1, <2>2, <2>3, AfterCloseIs DEF Phased
    <2>5. \A m \in A!CloseSends(connA, frame) :
            connA.status \in A!ClosesWithFin /\ m = From(A!Local, Finishing(connA))
      BY SameSteps, SentByEither DEF A!CloseSends, A!Sends, Finishing
    <2>6. connA.status \in A!ClosesWithFin =>
            /\ From(A!Local, Finishing(connA)) \in Segments(A!Local, B!Local)
            /\ True(connA', From(A!Local, Finishing(connA)))
      BY <1>1, <2>4, SaysTheTruth, StaysTrue
    <2> QED
      BY <2>3, <2>4, <2>5, <2>6 DEF Moves
  <1>5. CASE PollA
    <2>1. PICK frame \in FrameResults : A!Poll(frame)
      BY <1>5 DEF PollA
    <2> DEFINE e == A!Counted(connA)
    <2>2. /\ e \in Endpoints(B!Local) /\ e.status = connA.status /\ e.remote = connA.remote
          /\ e.localSequenceNumber = connA.localSequenceNumber
          /\ e.localAcknowledgment = connA.localAcknowledgment
          /\ e.remoteFinished = connA.remoteFinished
      <3>1. connA.retryCounter \in Nat
        BY <1>1 DEF Endpoints
      <3>2. (connA.retryCounter + 1) % 256 \in Nat
        BY <3>1
      <3> QED
        BY <1>1, <3>2 DEF A!Counted, A!CounterSpace, Endpoints
    <2> HIDE DEF e
    <2>3. Phased(e) /\ Keeps(connA, e)
      BY <1>1, <2>2 DEF Phased, Numbered, Keeps, Concluded
    <2>4. CASE A!PollFinish
      <3>1. /\ connA' = [connA EXCEPT !.status = "Finished"] /\ network' = network
            /\ connA.status = "TimedClose"
        BY <2>4 DEF A!PollFinish
      <3>2. /\ connA' \in Endpoints(B!Local) /\ connA'.status = "Finished"
            /\ connA'.remote = connA.remote /\ connA'.remoteFinished = connA.remoteFinished
            /\ connA'.localSequenceNumber = connA.localSequenceNumber
            /\ connA'.localAcknowledgment = connA.localAcknowledgment
        BY <1>1, <3>1 DEF Endpoints, A!Status
      <3> QED
        BY <1>1, <3>1, <3>2
           DEF Moves, Phased, Numbered, Keeps, Concluded, Concluding, Acknowledged, Open
    <2>5. CASE A!PollGiveUp
      <3>1. connA' = [e EXCEPT !.status = "Closed"] /\ network' = network
        BY <2>5, SameSteps DEF A!PollGiveUp, e
      <3>2. /\ connA' \in Endpoints(B!Local) /\ connA'.status = "Closed"
            /\ connA'.remote = e.remote /\ connA'.remoteFinished = e.remoteFinished
            /\ connA'.localAcknowledgment = e.localAcknowledgment
        BY <2>2, <3>1 DEF Endpoints, A!Status
      <3> QED
        BY <1>1, <2>2, <2>3, <3>1, <3>2
           DEF Moves, Phased, Numbered, Keeps, Concluded, Concluding, Acknowledged, Open
    <2>6. CASE A!PollRetry(frame)
      <3>1. connA' = A!Armed(e, frame) /\ network' = network \cup A!Sends(e, frame)
        BY <2>6, SameSteps DEF A!PollRetry, A!Transmit, e
      <3>2. e.remote = B!Local
        BY <1>1, <2>2, <2>6 DEF A!PollRetry, A!Due, Phased, Numbered, Endpoints
      <3>3. /\ connA' \in Endpoints(B!Local) /\ Numbered(connA') /\ Keeps(e, connA')
            /\ connA'.status = e.status /\ connA'.remoteFinished = e.remoteFinished
        BY <2>2, <2>3, <3>1, ArmedIs DEF Phased
      <3>4. From(A!Local, e) \in Segments(A!Local, B!Local) /\ True(connA', From(A!Local, e))
        BY <1>1, <2>2, <2>3, <3>2, <3>3, SaysTheTruth, StaysTrue DEF Phased
      <3>5. \A m \in network' : m \in network \/ m = From(A!Local, e)
        BY <3>1, SentByEither DEF A!Sends
      <3> QED
        BY <2>2, <2>3, <3>3, <3>4, <3>5 DEF Moves, Phased, Keeps
    <2> QED
      BY <2>1, <2>4, <2>5, <2>6 DEF A!Poll
  <1>6. CASE TickA
    <2>1. /\ connA' = [connA EXCEPT !.retryTimer = IF @ > 0 THEN @ - 1 ELSE 0]
          /\ network' = network
      BY <1>6 DEF TickA, A!Tick
    <2>2. (IF connA.retryTimer > 0 THEN connA.retryTimer - 1 ELSE 0) \in Nat
      BY <1>1 DEF Endpoints
    <2>3. /\ connA' \in Endpoints(B!Local) /\ connA'.status = connA.status
          /\ connA'.remote = connA.remote /\ connA'.remoteFinished = connA.remoteFinished
          /\ connA'.localSequenceNumber = connA.localSequenceNumber
          /\ connA'.localAcknowledgment = connA.localAcknowledgment
      BY <1>1, <2>1, <2>2 DEF Endpoints
    <2> QED
      BY <1>1, <2>1, <2>3 DEF Moves, Phased, Numbered, Keeps, Concluded
  <1> QED
    BY <1>2, <1>3, <1>4, <1>5, <1>6

LEMMA StepOfAKeepsInv ==
    ASSUME PairInv, Moves(A!Local, B!Local, connA, connA'), connB' = connB
    PROVE  PairInv'
  <1>1. /\ connA' \in Endpoints(B!Local) /\ Phased(connA') /\ Keeps(connA, connA')
        /\ connB' \in Endpoints(A!Local) /\ Phased(connB')
    BY DEF PairInv, Moves
  <1>2. ASSUME NEW m \in network'
        PROVE  \/ m \in Segments(A!Local, B!Local) /\ True(connA', m)
               \/ m \in Segments(B!Local, A!Local) /\ True(connB', m)
    <2>1. CASE m \in network
      BY <1>1, <2>1, StaysTrue DEF PairInv
    <2>2. CASE m \in Segments(A!Local, B!Local) /\ True(connA', m)
      BY <2>2
    <2> QED
      BY <2>1, <2>2 DEF Moves
  <1>3. \A m \in network : m \in Segments(B!Local, A!Local) => True(connB, m)
    BY Addresses DEF PairInv, Segments
  <1>4. connA'.remoteFinished => Concluded(connB)
    BY <1>3 DEF Moves, True, PairInv, Justified
  <1>5. connA'.status \in Acknowledged => connB.remoteFinished
    BY <1>3 DEF Moves, True, PairInv, Justified
  <1>6. Justified(connA', connB')
    BY <1>4, <1>5 DEF Justified
  <1>7. Justified(connB', connA')
    BY <1>1 DEF PairInv, Justified, Keeps
  <1> QED
    BY <1>1, <1>2, <1>6, <1>7 DEF PairInv

LEMMA ReceivedByB ==
    ASSUME PairInv, NEW s \in network, s.destination = B!Local, NEW frame, NEW closeFrame,
           B!Received(s, frame, closeFrame)
    PROVE  Moves(B!Local, A!Local, connB, connB')
  <1>1. connB \in Endpoints(A!Local) /\ Phased(connB) /\ A!Local # A!NoRemote
    BY Addresses DEF PairInv
  <1>2. s \in Segments(A!Local, B!Local)
    BY Addresses DEF PairInv, Segments
  <1>3. \E e, answers : Processed(connB, s, e, answers) /\ B!Conclude(s, e, answers, frame, closeFrame)
    <2>1. CASE B!ReceiveIgnored(s, frame, closeFrame)
      <3>1. Processed(connB, s, connB, FALSE) /\ B!Conclude(s, connB, FALSE, frame, closeFrame)
        BY <2>1, SameSteps DEF B!ReceiveIgnored, Processed
      <3> QED
        BY <3>1
    <2>2. CASE B!ReceiveReset(s, frame, closeFrame)
      BY <1>2, <2>2 DEF B!ReceiveReset, Segments
    <2>3. CASE B!ReceiveSyn(s, frame, closeFrame)
      <3> DEFINE e == [A!AfterSyn(connB, s) EXCEPT !.localAcknowledgment = A!Wrap(s.sequenceNumber + 1)]
      <3>1. TakesSyn(connB, s, e) /\ B!Conclude(s, e, TRUE, frame, closeFrame)
        BY <2>3, SameSteps DEF B!ReceiveSyn, TakesSyn
      <3> HIDE DEF e
      <3>2. Processed(connB, s, e, TRUE)
        BY <3>1 DEF Processed
      <3> QED
        BY <3>1, <3>2
    <2>4. CASE B!ReceiveStaleFinish(s, frame, closeFrame)
      <3> DEFINE e == A!AfterAcknowledgment(connB, s)
      <3>1. A!Carries(connB, s) /\ B!Conclude(s, e, FALSE, frame, closeFrame)
        BY <2>4, SameSteps DEF B!ReceiveStaleFinish
      <3>2. Processed(connB, s, e, FALSE)
        BY <3>1 DEF Processed
      <3> QED
        BY <3>1, <3>2
    <2>5. CASE B!ReceiveSegment(s, frame, closeFrame)
      <3> DEFINE f == A!AfterFinish(A!AfterAcknowledgment(connB, s), s)
                 e == A!AfterPayload(f, s)
                 answers == s.finish \/ s.length > 0
      <3>1. /\ A!Carries(connB, s) /\ ~A!OutOfSequenceFin(f, s)
            /\ B!Conclude(s, e, answers, frame, closeFrame)
        BY <2>5, SameSteps DEF B!ReceiveSegment
      <3>2. Processed(connB, s, e, answers)
        BY <3>1 DEF Processed, TakesFinish
      <3> QED
        BY <3>1, <3>2
    <2> QED
      BY <2>1, <2>2, <2>3, <2>4, <2>5 DEF B!Received
  <1>4. PICK e, answers : Processed(connB, s, e, answers) /\ B!Conclude(s, e, answers, frame, closeFrame)
    BY <1>3
  <1>5. /\ e \in Endpoints(A!Local) /\ Numbered(e) /\ Keeps(connB, e) /\ LearntFrom(connB, e, s)
        /\ answers => e.remote = A!Local
    BY <1>1, <1>2, <1>4, ReceivedProcessed
  <1>6. Leaves(e, answers, frame, closeFrame, connB')
    BY <1>4, SameSteps DEF B!Conclude, Leaves
  <1>7. \A m \in network' :
            \/ m \in network
            \/ answers /\ m = From(B!Local, e)
            \/ /\ e.remoteFinished /\ e.status \in A!ClosesWithFin
               /\ m = From(B!Local, Finishing(e))
    <2>1. \A m \in B!Sends(e, frame) : m = From(B!Local, e)
      BY SentByEither DEF B!Sends
    <2>2. \A m \in B!CloseSends(e, closeFrame) :
            e.status \in A!ClosesWithFin /\ m = From(B!Local, Finishing(e))
      BY SameSteps, SentByEither DEF B!CloseSends, B!Sends, Finishing
    <2> QED
      BY <1>4, <2>1, <2>2 DEF B!Conclude
  <1>8. /\ connB' \in Endpoints(A!Local) /\ Phased(connB') /\ Keeps(e, connB')
        /\ connB'.remoteFinished = e.remoteFinished
        /\ connB'.status \in Acknowledged => e.status \in Acknowledged
        /\ answers => /\ From(B!Local, e) \in Segments(B!Local, A!Local)
                      /\ True(connB', From(B!Local, e))
        /\ e.remoteFinished /\ e.status \in A!ClosesWithFin =>
                /\ From(B!Local, Finishing(e)) \in Segments(B!Local, A!Local)
                /\ True(connB', From(B!Local, Finishing(e)))
    <2>1. Answerable(A!Local, e, answers)
      BY <1>5 DEF Answerable
    <2>2. Left(B!Local, A!Local, e, answers, connB')
      BY <1>1, <1>6, <2>1, ConcludesWell
    <2> QED
      BY <2>2 DEF Left
  <1>9. Keeps(connB, connB')
    BY <1>5, <1>8 DEF Keeps
  <1>10. /\ connB'.remoteFinished => connB.remoteFinished \/ s.finish
         /\ connB'.status \in Acknowledged =>
                connB.status \in Acknowledged \/ s.acknowledgmentNumber = 2
    BY <1>5, <1>8 DEF LearntFrom
  <1>11. \A m \in network' : m \in network \/ (m \in Segments(B!Local, A!Local) /\ True(connB', m))
    BY <1>7, <1>8
  <1> QED
    BY <1>2, <1>8, <1>9, <1>10, <1>11 DEF Moves

LEMMA CalledOnB ==
    ASSUME ClosesWhenOpen, PairInv, OpenB \/ CloseB \/ PollB \/ TickB
    PROVE  Moves(B!Local, A!Local, connB, connB')
  <1>1. connB \in Endpoints(A!Local) /\ Phased(connB) /\ A!Local # A!NoRemote
    BY Addresses DEF PairInv
  <1>2. CASE OpenB /\ "b" \in Opening
    <2>1. PICK frame \in FrameResults : B!Connect(A!Local, frame)
      BY <1>2 DEF OpenB
    <2> DEFINE e == [connB EXCEPT !.status = "SynSent", !.remote = A!Local,
                                  !.localSequenceNumber = 0]
    <2>2. connB = A!InitialConnection
      BY <1>2 DEF OpenB, Fresh
    <2>3. /\ e \in Endpoints(A!Local) /\ e.status = "SynSent" /\ e.remote = A!Local
          /\ e.localSequenceNumber = 0 /\ e.localAcknowledgment = connB.localAcknowledgment
          /\ e.remoteFinished = connB.remoteFinished
      BY <1>1, NumbersAre DEF Endpoints, A!Status
    <2>4. /\ connB.status = "Closed" /\ connB.remote = A!NoRemote
          /\ connB.localAcknowledgment = 0 /\ ~connB.remoteFinished
      BY <2>2 DEF A!InitialConnection
    <2>5. connB' = A!Armed(e, frame) /\ network' = network \cup B!Sends(e, frame)
      BY <2>1, SameSteps DEF B!Connect, B!Transmit
    <2> HIDE DEF e
    <2>6. Numbered(e) /\ Keeps(connB, e)
      BY <1>1, <2>3, <2>4 DEF Numbered, Keeps, Concluded, Acknowledged, Open
    <2>7. /\ connB' \in Endpoints(A!Local) /\ Numbered(connB') /\ Keeps(e, connB')
          /\ connB'.status = "SynSent" /\ ~connB'.remoteFinished
      BY <2>3, <2>4, <2>5, <2>6, ArmedIs
    <2>8. From(B!Local, e) \in Segments(B!Local, A!Local) /\ True(connB', From(B!Local, e))
      BY <1>1, <2>3, <2>6, <2>7, SaysTheTruth, StaysTrue
    <2>9. \A m \in network' : m \in network \/ m = From(B!Local, e)
      BY <2>5, SentByEither DEF B!Sends
    <2> QED
      BY <2>6, <2>7, <2>8, <2>9 DEF Moves, Phased, Keeps, Acknowledged
  <1>3. CASE OpenB /\ "b" \notin Opening
    <2>1. connB' = [connB EXCEPT !.status = "Listen"] /\ network' = network
      BY <1>3 DEF OpenB, B!ListenCall
    <2>2. connB.remote = A!NoRemote /\ ~connB.remoteFinished
      BY <1>3 DEF OpenB, Fresh, A!InitialConnection
    <2>3. /\ connB' \in Endpoints(A!Local) /\ connB'.status = "Listen"
          /\ connB'.remote = connB.remote /\ connB'.remoteFinished = connB.remoteFinished
          /\ connB'.localAcknowledgment = connB.localAcknowledgment
      BY <1>1, <2>1 DEF Endpoints, A!Status
    <2> QED
      BY <1>1, <2>1, <2>2, <2>3 DEF Moves, Phased, Numbered, Keeps, Concluded, Acknowledged, Open
  <1>4. CASE CloseB
    <2>1. PICK frame \in FrameResults : B!Close(frame)
      BY <1>4 DEF CloseB
    <2>2. connB.status # "SynReceived"
      BY <1>4 DEF CloseB, ClosesWhenOpen
    <2>3. connB' = A!AfterClose(connB, frame) /\ network' = network \cup B!CloseSends(connB, frame)
      BY <2>1, SameSteps DEF B!Close
    <2>4. /\ connB' \in Endpoints(A!Local) /\ Phased(connB') /\ Keeps(connB, connB')
          /\ connB'.remoteFinished = connB.remoteFinished
          /\ connB'.status \in Acknowledged => connB.status \in Acknowledged
          /\ connB.status \in A!ClosesWithFin =>
                /\ Finishing(connB) \in Endpoints(A!Local) /\ Numbered(Finishing(connB))
                /\ Finishing(connB).remote = A!Local /\ Keeps(Finishing(connB), connB')
      BY <1>1, <2>2, <2>3, AfterCloseIs DEF Phased
    <2>5. \A m \in B!CloseSends(connB, frame) :
            connB.status \in A!ClosesWithFin /\ m = From(B!Local, Finishing(connB))
      BY SameSteps, SentByEither DEF B!CloseSends, B!Sends, Finishing
    <2>6. connB.status \in A!ClosesWithFin =>
            /\ From(B!Local, Finishing(connB)) \in Segments(B!Local, A!Local)
            /\ True(connB', From(B!Local, Finishing(connB)))
      BY <1>1, <2>4, SaysTheTruth, StaysTrue
    <2> QED
      BY <2>3, <2>4, <2>5, <2>6 DEF Moves
  <1>5. CASE PollB
    <2>1. PICK frame \in FrameResults : B!Poll(frame)
      BY <1>5 DEF PollB
    <2> DEFINE e == A!Counted(connB)
    <2>2. /\ e \in Endpoints(A!Local) /\ e.status = connB.status /\ e.remote = connB.remote
          /\ e.localSequenceNumber = connB.localSequenceNumber
          /\ e.localAcknowledgment = connB.localAcknowledgment
          /\ e.remoteFinished = connB.remoteFinished
      <3>1. connB.retryCounter \in Nat
        BY <1>1 DEF Endpoints
      <3>2. (connB.retryCounter + 1) % 256 \in Nat
        BY <3>1
      <3> QED
        BY <1>1, <3>2 DEF A!Counted, A!CounterSpace, Endpoints
    <2> HIDE DEF e
    <2>3. Phased(e) /\ Keeps(connB, e)
      BY <1>1, <2>2 DEF Phased, Numbered, Keeps, Concluded
    <2>4. CASE B!PollFinish
      <3>1. /\ connB' = [connB EXCEPT !.status = "Finished"] /\ network' = network
            /\ connB.status = "TimedClose"
        BY <2>4 DEF B!PollFinish
      <3>2. /\ connB' \in Endpoints(A!Local) /\ connB'.status = "Finished"
            /\ connB'.remote = connB.remote /\ connB'.remoteFinished = connB.remoteFinished
            /\ connB'.localSequenceNumber = connB.localSequenceNumber
            /\ connB'.localAcknowledgment = connB.localAcknowledgment
        BY <1>1, <3>1 DEF Endpoints, A!Status
      <3> QED
        BY <1>1, <3>1, <3>2
           DEF Moves, Phased, Numbered, Keeps, Concluded, Concluding, Acknowledged, Open
    <2>5. CASE B!PollGiveUp
      <3>1. connB' = [e EXCEPT !.status = "Closed"] /\ network' = network
        BY <2>5, SameSteps DEF B!PollGiveUp, e
      <3>2. /\ connB' \in Endpoints(A!Local) /\ connB'.status = "Closed"
            /\ connB'.remote = e.remote /\ connB'.remoteFinished = e.remoteFinished
            /\ connB'.localAcknowledgment = e.localAcknowledgment
        BY <2>2, <3>1 DEF Endpoints, A!Status
      <3> QED
        BY <1>1, <2>2, <2>3, <3>1, <3>2
           DEF Moves, Phased, Numbered, Keeps, Concluded, Concluding, Acknowledged, Open
    <2>6. CASE B!PollRetry(frame)
      <3>1. connB' = A!Armed(e, frame) /\ network' = network \cup B!Sends(e, frame)
        BY <2>6, SameSteps DEF B!PollRetry, B!Transmit, e
      <3>2. e.remote = A!Local
        BY <1>1, <2>2, <2>6 DEF B!PollRetry, B!Due, Phased, Numbered, Endpoints
      <3>3. /\ connB' \in Endpoints(A!Local) /\ Numbered(connB') /\ Keeps(e, connB')
            /\ connB'.status = e.status /\ connB'.remoteFinished = e.remoteFinished
        BY <2>2, <2>3, <3>1, ArmedIs DEF Phased
      <3>4. From(B!Local, e) \in Segments(B!Local, A!Local) /\ True(connB', From(B!Local, e))
        BY <1>1, <2>2, <2>3, <3>2, <3>3, SaysTheTruth, StaysTrue DEF Phased
      <3>5. \A m \in network' : m \in network \/ m = From(B!Local, e)
        BY <3>1, SentByEither DEF B!Sends
      <3> QED
        BY <2>2, <2>3, <3>3, <3>4, <3>5 DEF Moves, Phased, Keeps
    <2> QED
      BY <2>1, <2>4, <2>5, <2>6 DEF B!Poll
  <1>6. CASE TickB
    <2>1. /\ connB' = [connB EXCEPT !.retryTimer = IF @ > 0 THEN @ - 1 ELSE 0]
          /\ network' = network
      BY <1>6 DEF TickB, B!Tick
    <2>2. (IF connB.retryTimer > 0 THEN connB.retryTimer - 1 ELSE 0) \in Nat
      BY <1>1 DEF Endpoints
    <2>3. /\ connB' \in Endpoints(A!Local) /\ connB'.status = connB.status
          /\ connB'.remote = connB.remote /\ connB'.remoteFinished = connB.remoteFinished
          /\ connB'.localSequenceNumber = connB.localSequenceNumber
          /\ connB'.localAcknowledgment = connB.localAcknowledgment
      BY <1>1, <2>1, <2>2 DEF Endpoints
    <2> QED
      BY <1>1, <2>1, <2>3 DEF Moves, Phased, Numbered, Keeps, Concluded
  <1> QED
    BY <1>2, <1>3, <1>4, <1>5, <1>6

LEMMA StepOfBKeepsInv ==
    ASSUME PairInv, Moves(B!Local, A!Local, connB, connB'), connA' = connA
    PROVE  PairInv'
  <1>1. /\ connB' \in Endpoints(A!Local) /\ Phased(connB') /\ Keeps(connB, connB')
        /\ connA' \in Endpoints(B!Local) /\ Phased(connA')
    BY DEF PairInv, Moves
  <1>2. ASSUME NEW m \in network'
        PROVE  \/ m \in Segments(B!Local, A!Local) /\ True(connB', m)
               \/ m \in Segments(A!Local, B!Local) /\ True(connA', m)
    <2>1. CASE m \in network
      BY <1>1, <2>1, StaysTrue DEF PairInv
    <2>2. CASE m \in Segments(B!Local, A!Local) /\ True(connB', m)
      BY <2>2
    <2> QED
      BY <2>1, <2>2 DEF Moves
  <1>3. \A m \in network : m \in Segments(A!Local, B!Local) => True(connA, m)
    BY Addresses DEF PairInv, Segments
  <1>4. connB'.remoteFinished => Concluded(connA)
    BY <1>3 DEF Moves, True, PairInv, Justified
  <1>5. connB'.status \in Acknowledged => connA.remoteFinished
    BY <1>3 DEF Moves, True, PairInv, Justified
  <1>6. Justified(connB', connA')
    BY <1>4, <1>5 DEF Justified
  <1>7. Justified(connA', connB')
    BY <1>1 DEF PairInv, Justified, Keeps
  <1> QED
    BY <1>1, <1>2, <1>6, <1>7 DEF PairInv

-----------------------------------------------------------------------------
LEMMA PairInitial ==
    ASSUME Init
    PROVE  PairInv
  <1> DEFINE c == A!InitialConnection
  <1>1. connA = c /\ connB = c /\ network = {}
    BY Addresses DEF Init
  <1>2. /\ c.status = "Closed" /\ c.remote = A!NoRemote /\ ~c.remoteFinished
        /\ c.localAcknowledgment = 0
    BY DEF A!InitialConnection
  <1>3. \A you : c \in Endpoints(you)
    BY NumbersAre DEF A!InitialConnection, Endpoints, A!Status
  <1> HIDE DEF c
  <1>4. Phased(c) /\ Justified(c, c)
    BY <1>2 DEF Phased, Numbered, Justified, Acknowledged, Open
  <1> QED
    BY <1>1, <1>3, <1>4 DEF PairInv

LEMMA PairStep ==
    ASSUME ClosesWhenOpen, PairInv, [Next]_vars
    PROVE  PairInv'
  <1>1. CASE OpenA \/ CloseA \/ PollA \/ TickA
    <2>1. connB' = connB
      BY <1>1 DEF OpenA, CloseA, PollA, TickA
    <2> QED
      BY <1>1, <2>1, CalledOnA, StepOfAKeepsInv
  <1>2. CASE OpenB \/ CloseB \/ PollB \/ TickB
    <2>1. connA' = connA
      BY <1>2 DEF OpenB, CloseB, PollB, TickB
    <2> QED
      BY <1>2, <2>1, CalledOnB, StepOfBKeepsInv
  <1>3. ASSUME NEW s \in network, ReceiveA(s)
        PROVE  PairInv'
    <2>1. PICK frame, closeFrame \in FrameResults : A!Received(s, frame, closeFrame)
      BY <1>3 DEF ReceiveA
    <2>2. s.destination = A!Local /\ connB' = connB
      BY <1>3 DEF ReceiveA
    <2> QED
      BY <2>1, <2>2, ReceivedByA, StepOfAKeepsInv
  <1>4. ASSUME NEW s \in network, ReceiveB(s)
        PROVE  PairInv'
    <2>1. PICK frame, closeFrame \in FrameResults : B!Received(s, frame, closeFrame)
      BY <1>4 DEF ReceiveB
    <2>2. s.destination = B!Local /\ connA' = connA
      BY <1>4 DEF ReceiveB
    <2> QED
      BY <2>1, <2>2, ReceivedByB, StepOfBKeepsInv
  <1>5. CASE UNCHANGED vars
    BY <1>5 DEF vars, PairInv, Justified, True, Concluded
  <1> QED
    BY <1>1, <1>2, <1>3, <1>4, <1>5 DEF Next

LEMMA PairSuffices ==
    ASSUME PairInv
    PROVE  NumbersAgree /\ FinishedMeansClosed /\ FinAcknowledgedMeansTaken
  <1>1. FinishedMeansClosed /\ FinAcknowledgedMeansTaken
    BY DEF PairInv, Justified, Concluded, FinishedMeansClosed, FinAcknowledgedMeansTaken, Acknowledged
  <1>2. ASSUME NEW c, NEW d, Phased(c), Phased(d), Justified(c, d), Justified(d, c),
               c.status \in Open, d.status \in Open
        PROVE  c.localAcknowledgment = d.localSequenceNumber
                    + (IF c.remoteFinished /\ d.status = "FinSent" THEN 1 ELSE 0)
    <2>1. c.localAcknowledgment = IF c.remoteFinished THEN 2 ELSE 1
      BY <1>2 DEF Phased, Numbered
    <2>2. d.localSequenceNumber = IF d.status \in Acknowledged THEN 2 ELSE 1
      BY <1>2 DEF Phased, Numbered, Open, Acknowledged
    <2>3. d.status \in Acknowledged => c.remoteFinished
      BY <1>2 DEF Justified
    <2>4. c.remoteFinished => d.status \in Acknowledged \/ d.status = "FinSent"
      BY <1>2 DEF Justified, Concluded, Concluding, Open, Acknowledged
    <2>5. d.status = "FinSent" => d.status \notin Acknowledged
      BY DEF Acknowledged
    <2> QED
      BY <2>1, <2>2, <2>3, <2>4, <2>5
  <1>3. NumbersAgree
    BY <1>2 DEF PairInv, NumbersAgree
  <1> QED
    BY <1>1, <1>3

(* Of two open endpoints each has acknowledged what the other has sent, and *)
(* one more between taking a FIN and its sender learning of it.             *)
THEOREM BothCountTheSame ==
    ASSUME ClosesWhenOpen
    PROVE  Spec => []NumbersAgree
  BY PairInitial, PairStep, PairSuffices, PTL DEF Spec

(* A remote counts as finished only if it did close, or gave up.            *)
THEOREM FinishIsReal ==
    ASSUME ClosesWhenOpen
    PROVE  Spec => []FinishedMeansClosed
  BY PairInitial, PairStep, PairSuffices, PTL DEF Spec

(* A FIN counts as acknowledged only if the other side has taken it.        *)
THEOREM AcknowledgedFinWasTaken ==
    ASSUME ClosesWhenOpen
    PROVE  Spec => []FinAcknowledgedMeansTaken
  BY PairInitial, PairStep, PairSuffices, PTL DEF Spec
=============================================================================
