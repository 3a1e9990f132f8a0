------------------------------ MODULE TcpPair ------------------------------
(***************************************************************************)
(* Two endpoints of TcpConnection that talk to each other: what connect(), *)
(* listen() and close() do when both sides run this code.  The code sends  *)
(* no payload, so the traffic is the handshake and the FINs.  Each side    *)
(* opens once.                                                             *)
(***************************************************************************)
EXTENDS Integers

CONSTANTS
    Opening,         \* the hosts that call connect(); the others listen
    ClosesIn,        \* per host, the states in which its application may call close()
    Prompt,          \* whether a segment arrives before the clock ticks again
    SequenceSpace, MaxRetries, RetryPeriod, Duplicating, FrameResults

ASSUME PairSpaceAssumption == SequenceSpace \in Nat /\ SequenceSpace > 2
ASSUME PairPeriodAssumption == RetryPeriod \in Nat /\ RetryPeriod > 0

VARIABLES connA, connB, bufferA, bufferB, network

vars == <<connA, connB, bufferA, bufferB, network>>

Port == 1337

A == INSTANCE TcpConnection WITH
        LocalHost <- "a", LocalPort <- Port, connection <- connA, receiveBuffer <- bufferA
B == INSTANCE TcpConnection WITH
        LocalHost <- "b", LocalPort <- Port, connection <- connB, receiveBuffer <- bufferB

Init ==
    /\ connA = A!InitialConnection /\ connB = B!InitialConnection
    /\ bufferA = <<>> /\ bufferB = <<>>
    /\ network = {}

Fresh(c) == c = A!InitialConnection

OpenA ==
    /\ Fresh(connA)
    /\ IF "a" \in Opening THEN \E frame \in FrameResults : A!Connect(B!Local, frame)
       ELSE A!ListenCall
    /\ UNCHANGED <<connB, bufferB>>

OpenB ==
    /\ Fresh(connB)
    /\ IF "b" \in Opening THEN \E frame \in FrameResults : B!Connect(A!Local, frame)
       ELSE B!ListenCall
    /\ UNCHANGED <<connA, bufferA>>

CloseA ==
    /\ connA.status \in ClosesIn["a"]
    /\ \E frame \in FrameResults : A!Close(frame)
    /\ UNCHANGED <<connB, bufferB>>

CloseB ==
    /\ connB.status \in ClosesIn["b"]
    /\ \E frame \in FrameResults : B!Close(frame)
    /\ UNCHANGED <<connA, bufferA>>

ReceiveA(s) ==
    /\ s \in network /\ s.destination = A!Local
    /\ \E frame, closeFrame \in FrameResults : A!Received(s, frame, closeFrame)
    /\ UNCHANGED <<connB, bufferB>>

ReceiveB(s) ==
    /\ s \in network /\ s.destination = B!Local
    /\ \E frame, closeFrame \in FrameResults : B!Received(s, frame, closeFrame)
    /\ UNCHANGED <<connA, bufferA>>

(* A main loop like the bootloader's ends when its connection is Finished.  *)
PollA ==
    /\ connA.status # "Finished"
    /\ \E frame \in FrameResults : A!Poll(frame)
    /\ UNCHANGED <<connB, bufferB>>

PollB ==
    /\ connB.status # "Finished"
    /\ \E frame \in FrameResults : B!Poll(frame)
    /\ UNCHANGED <<connA, bufferA>>

(* The two clocks run at their own pace.                                    *)
TickA ==
    /\ Prompt => network = {}
    /\ A!Tick
    /\ UNCHANGED <<connB, bufferB>>

TickB ==
    /\ Prompt => network = {}
    /\ B!Tick
    /\ UNCHANGED <<connA, bufferA>>

Next ==
    \/ OpenA \/ OpenB \/ CloseA \/ CloseB \/ PollA \/ PollB \/ TickA \/ TickB
    \/ \E s \in network : ReceiveA(s) \/ ReceiveB(s)

Spec == Init /\ [][Next]_vars

(* Both programs are called and keep polling, both clocks run, and no       *)
(* segment is lost: what is in flight arrives.                              *)
Fairness ==
    /\ WF_vars(OpenA) /\ WF_vars(OpenB)
    /\ WF_vars(PollA) /\ WF_vars(PollB) /\ WF_vars(TickA) /\ WF_vars(TickB)
    /\ WF_vars(\E s \in network : ReceiveA(s))
    /\ WF_vars(\E s \in network : ReceiveB(s))

FairSpec == Spec /\ Fairness
-----------------------------------------------------------------------------
Open == {"Established", "FinSent", "WaitingForRemoteToFinish", "TimedClose", "Finished"}
Concluding == {"FinSent", "WaitingForRemoteToFinish", "TimedClose", "Finished", "Closed"}

(* Both ends count the same: of two open endpoints each has acknowledged     *)
(* what the other has sent, and one more between taking a FIN and its sender *)
(* learning of it.  No loss, repetition or failed frame makes them drift.    *)
NumbersAgree ==
    connA.status \in Open /\ connB.status \in Open =>
        /\ connA.localAcknowledgment = connB.localSequenceNumber
              + (IF connA.remoteFinished /\ connB.status = "FinSent" THEN 1 ELSE 0)
        /\ connB.localAcknowledgment = connA.localSequenceNumber
              + (IF connB.remoteFinished /\ connA.status = "FinSent" THEN 1 ELSE 0)

(* A remote counts as finished only if it did close: no handshake segment,   *)
(* duplicate or late acknowledgment passes for a FIN.                        *)
FinishedMeansClosed ==
    /\ connA.remoteFinished => connB.status \in Concluding
    /\ connB.remoteFinished => connA.status \in Concluding

(* A FIN counts as acknowledged only if the other side has taken it.         *)
FinAcknowledgedMeansTaken ==
    /\ connA.status \in {"WaitingForRemoteToFinish", "TimedClose", "Finished"} => connB.remoteFinished
    /\ connB.status \in {"WaitingForRemoteToFinish", "TimedClose", "Finished"} => connA.remoteFinished

Unretried == connA.retryCounter = 0 /\ connB.retryCounter = 0

(* "Connect / Listen / Close" (README.md:73): where everything arrives before *)
(* a timer expires, connect() to a listening side leads to a connection      *)
(* established on both sides.                                                *)
OpenCompletes ==
    connA.status = "SynSent" /\ connB.status = "Listen" /\ Unretried
        ~> connA.status = "Established" /\ connB.status = "Established"

(* "Connect / Listen / Close" (README.md:73): where everything arrives before *)
(* a timer expires, an established connection that one side closes finishes  *)
(* on both sides.                                                            *)
CloseCompletes ==
    {connA.status, connB.status} = {"Established", "FinSent"} /\ Unretried
        ~> connA.status = "Finished" /\ connB.status = "Finished"
=============================================================================
