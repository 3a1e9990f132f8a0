---------------------------- MODULE TransmitRing ----------------------------
(***************************************************************************)
(* The transmit side of AllwinnerEMACDriver (Net/Net.hpp): a ring of       *)
(* descriptors which the program fills and the DMA engine of the EMAC      *)
(* empties.                                                                *)
(*                                                                         *)
(* The program is one thread.  It takes a frame with createFrame(), fills  *)
(* it and hands it over with transmit(), or drops it without a word, which *)
(* is what transmitIpPacket() does with an address it cannot resolve; and  *)
(* in between it polls, which takes back the descriptors of frames that    *)
(* were sent.  The engine runs beside it: it reads the descriptor it       *)
(* stands at, sends the buffer if it owns it, and suspends itself if not.  *)
(* Reading the descriptor and showing TransmitSuspended are two steps.     *)
(***************************************************************************)
EXTENDS Naturals, Sequences

CONSTANTS
    Slots,          \* transmitBufferCount: 128
    MaxFragments,   \* the longest frame, in buffers of bufferSize
    MaxFrames       \* bound: frames taken from createFrame()

ASSUME TransmitSlotsAssumption == Slots \in Nat \ {0, 1}
ASSUME TransmitFragmentsAssumption == MaxFragments \in 1..Slots
ASSUME TransmitFramesAssumption == MaxFrames \in Nat

VARIABLES
    transmitRing,           \* the descriptors and what their buffers hold
    transmitedDescriptor,   \* the oldest descriptor that was not taken back
    transmitableDescriptor, \* the next descriptor to be claimed
    claimed,                \* first descriptor and number of the frame in hand
    caller,                 \* what the program is doing
    transmitLeft,           \* poll()'s left
    sender,                 \* the DMA engine
    created,                \* frames taken so far
    handedOver,             \* frames given to transmit(), in order
    wire                    \* frames sent, each the sequence of its buffers

transmitVars ==
    <<transmitRing, transmitedDescriptor, transmitableDescriptor, claimed,
      caller, transmitLeft, sender, created, handedOver, wire>>

Slot == 0..(Slots - 1)
AdvancedPast(slot, n) == slot + n

Advanced(slot, n) == (slot + n) % Slots

(* A descriptor: who owns it, whether bufferSize > 0, whether it ends a    *)
(* frame, and which part of which frame is in its buffer.                  *)
Vacant == [DMAOwnership |-> FALSE, filled |-> FALSE, last |-> FALSE,
           holds |-> <<0, 0>>]

TransmitInit ==
    /\ transmitRing = [slot \in Slot |-> Vacant]
    /\ transmitedDescriptor = 0
    /\ transmitableDescriptor = 0
    /\ claimed = [start |-> 0, count |-> 0]
    /\ caller = "idle"
    /\ transmitLeft = 0
    /\ sender = [status |-> "Stopped", at |-> 0, parts |-> <<>>]
    /\ created = 0
    /\ handedOver = <<>>
    /\ wire = <<>>

-----------------------------------------------------------------------------
(* createFrame() and transmit().                                           *)

HasSpaceAtFirst(n) == ~transmitRing[transmitableDescriptor].filled

(* Every descriptor the frame needs has bufferSize = 0.                    *)
HasSpace(n) ==
    \A k \in 0..(n - 1) :
        ~transmitRing[Advanced(transmitableDescriptor, k)].filled

ClaimedOwned(slot, k, n) ==
    [DMAOwnership |-> TRUE, filled |-> TRUE, last |-> k = n - 1,
     holds |-> <<created + 1, k + 1>>]

(* Descriptor k of n of a claimed frame.  All but the first are given to   *)
(* the engine at once.  The caller writes the frame as one piece of        *)
(* memory.  What goes beyond the last buffer of the ring ends up in the    *)
(* receive buffers behind it (ReceiveRing has what that does there), and   *)
(* the buffers at the start of this ring keep what they held.              *)
Claimed(slot, k, n) ==
    [DMAOwnership |-> k > 0, filled |-> TRUE, last |-> k = n - 1,
     holds |-> IF transmitableDescriptor + k < Slots
               THEN <<created + 1, k + 1>> ELSE transmitRing[slot].holds]

(* createFrame() that finds room.  (Without room or link it returns        *)
(* nullptr and changes nothing.)                                           *)
CreateFrame(n) ==
    /\ caller = "idle"
    /\ created < MaxFrames
    /\ HasSpace(n)
    /\ created' = created + 1
    /\ transmitRing' =
        [slot \in Slot |->
            LET k == (slot + Slots - transmitableDescriptor) % Slots IN
            IF k < n THEN Claimed(slot, k, n) ELSE transmitRing[slot]]
    /\ claimed' = [start |-> transmitableDescriptor, count |-> n]
    /\ transmitableDescriptor' = Advanced(transmitableDescriptor, n)
    /\ caller' = "filling"
    /\ UNCHANGED <<transmitedDescriptor, transmitLeft, sender, handedOver, wire>>

(* transmit() gives the frame's first descriptor to the engine ...         *)
HandOver ==
    /\ caller = "filling"
    /\ transmitRing' = [transmitRing EXCEPT ![claimed.start].DMAOwnership = TRUE]
    /\ handedOver' = Append(handedOver, created)
    /\ caller' = "handed"
    /\ UNCHANGED <<transmitedDescriptor, transmitableDescriptor, claimed,
                   transmitLeft, sender, created, wire>>

IdleStoppedOnly == sender.status = "Stopped"

(* The engine shows TransmitStopped or TransmitSuspended.                  *)
Idle == sender.status \in {"Stopped", "Suspended"}

(* ... and then starts the engine if it looks idle.                        *)
StartSender ==
    /\ caller = "handed"
    /\ sender' = IF Idle THEN [sender EXCEPT !.status = "Fetching"] ELSE sender
    /\ caller' = "idle"
    /\ claimed' = [start |-> 0, count |-> 0]
    /\ UNCHANGED <<transmitRing, transmitedDescriptor, transmitableDescriptor,
                   transmitLeft, created, handedOver, wire>>

(* transmitIpPacket() returns false: nobody undoes the claim.              *)
DropFrame ==
    /\ caller = "filling"
    /\ caller' = "idle"
    /\ claimed' = [start |-> 0, count |-> 0]
    /\ UNCHANGED <<transmitRing, transmitedDescriptor, transmitableDescriptor,
                   transmitLeft, sender, created, handedOver, wire>>

-----------------------------------------------------------------------------
(* poll(), up to the receive ring.                                         *)

StartReclaim ==
    /\ caller = "idle"
    /\ caller' = "reclaiming"
    /\ transmitLeft' = Slots
    /\ UNCHANGED <<transmitRing, transmitedDescriptor, transmitableDescriptor,
                   claimed, sender, created, handedOver, wire>>

OldestSlots(n) == { Advanced(transmitedDescriptor, k) : k \in 0..(n - 1) }

(* The oldest frame has n descriptors, none of them owned by the engine.   *)
OldestSent(n) ==
    /\ \A slot \in OldestSlots(n) :
        ~transmitRing[slot].DMAOwnership /\ transmitRing[slot].filled
    /\ \A k \in 0..(n - 1) :
        transmitRing[Advanced(transmitedDescriptor, k)].last <=> k = n - 1

(* Whether it was sent or dropped does not show: transmited() is called    *)
(* and the descriptors become vacant.                                      *)
Reclaim(n) ==
    /\ caller = "reclaiming"
    /\ transmitLeft > 0
    /\ OldestSent(n)
    /\ transmitRing' =
        [slot \in Slot |->
            IF slot \in OldestSlots(n)
            THEN [transmitRing[slot] EXCEPT !.filled = FALSE]
            ELSE transmitRing[slot]]
    /\ transmitedDescriptor' = Advanced(transmitedDescriptor, n)
    /\ transmitLeft' = transmitLeft - 1
    /\ UNCHANGED <<transmitableDescriptor, claimed, caller, sender, created,
                   handedOver, wire>>

StopsWhenSent == sender.status # "Stopped"

(* The oldest descriptor is vacant.                                        *)
AllReclaimed ==
    /\ ~transmitRing[transmitedDescriptor].DMAOwnership
    /\ ~transmitRing[transmitedDescriptor].filled

(* The loop ends: at a vacant descriptor the engine is switched off, at a  *)
(* frame the engine has not finished with, or after `left` frames.         *)
EndReclaim ==
    /\ caller = "reclaiming"
    /\ transmitLeft = 0 \/ \A n \in 1..MaxFragments : ~OldestSent(n)
    /\ caller' = "reclaimed"
    /\ sender' = IF transmitLeft > 0 /\ AllReclaimed
                 THEN [sender EXCEPT !.status = "Stopped"] ELSE sender
    /\ transmitLeft' = 0
    /\ UNCHANGED <<transmitRing, transmitedDescriptor, transmitableDescriptor,
                   claimed, created, handedOver, wire>>

(* Behind the loop an engine that shows TransmitSuspended is switched off. *)
StopSuspended ==
    /\ caller = "reclaimed"
    /\ sender' = IF sender.status = "Suspended"
                 THEN [sender EXCEPT !.status = "Stopped"] ELSE sender
    /\ caller' = "idle"
    /\ UNCHANGED <<transmitRing, transmitedDescriptor, transmitableDescriptor,
                   claimed, transmitLeft, created, handedOver, wire>>

-----------------------------------------------------------------------------
(* The DMA engine, as the driver uses it: it stands at a descriptor, which *)
(* only initialize() sets, and goes on from there when it is started.      *)

Here == transmitRing[sender.at]

(* It reads the descriptor.  "FoundNone" still shows as                    *)
(* TransmitFetchingDescriptor.                                             *)
SenderFetch ==
    /\ sender.status = "Fetching"
    /\ sender' = [sender EXCEPT
            !.status = IF Here.DMAOwnership THEN "Passing" ELSE "FoundNone"]
    /\ UNCHANGED <<transmitRing, transmitedDescriptor, transmitableDescriptor,
                   claimed, caller, transmitLeft, created, handedOver, wire>>

SenderSuspend ==
    /\ sender.status = "FoundNone"
    /\ sender' = [sender EXCEPT !.status = "Suspended"]
    /\ UNCHANGED <<transmitRing, transmitedDescriptor, transmitableDescriptor,
                   claimed, caller, transmitLeft, created, handedOver, wire>>

(* It passes the buffer on, and the frame with its last buffer, and gives  *)
(* the descriptor back.                                                    *)
SenderPass ==
    /\ sender.status = "Passing"
    /\ LET parts == Append(sender.parts, Here.holds) IN
        /\ wire' = IF Here.last THEN Append(wire, parts) ELSE wire
        /\ sender' = [status |-> "Fetching", at |-> Advanced(sender.at, 1),
                      parts |-> IF Here.last THEN <<>> ELSE parts]
    /\ transmitRing' = [transmitRing EXCEPT ![sender.at].DMAOwnership = FALSE]
    /\ UNCHANGED <<transmitedDescriptor, transmitableDescriptor, claimed,
                   caller, transmitLeft, created, handedOver>>

SenderStep == SenderFetch \/ SenderSuspend \/ SenderPass

-----------------------------------------------------------------------------
(* Frames of several buffers and dropped frames are not mixed.  (A dropped *)
(* frame of several buffers blocks the ring for good: poll() waits for the *)
(* second descriptor, which is the engine's, and the engine for the first. *)
(* And an engine left behind at a dropped frame takes a later descriptor   *)
(* there, the second of its frame, for the start of one.)                  *)
NoFrameDropped ==
    created = Len(handedOver) + (IF caller = "filling" THEN 1 ELSE 0)

Creatable == IF NoFrameDropped THEN 1..MaxFragments ELSE {1}

(* The engine needs some bus cycles from reading a descriptor to showing   *)
(* the result.  The program takes much longer from one transmit() to the   *)
(* next createFrame(): the two do not fall into the same gap.              *)
TransmitNext ==
    \/ sender.status # "FoundNone" /\ \E n \in Creatable : CreateFrame(n)
    \/ HandOver
    \/ StartSender
    \/ claimed.count = 1 /\ DropFrame
    \/ StartReclaim
    \/ \E n \in 1..MaxFragments : Reclaim(n)
    \/ EndReclaim
    \/ StopSuspended
    \/ SenderFetch
    \/ SenderSuspend
    \/ SenderPass

(* The engine runs, the main loop polls, and a program that took a frame   *)
(* goes on with it.  Nobody has to take another frame.                     *)
TransmitFairness ==
    /\ WF_transmitVars(SenderStep)
    /\ WF_transmitVars(HandOver \/ DropFrame)
    /\ WF_transmitVars(StartSender)
    /\ WF_transmitVars(\/ StartReclaim \/ EndReclaim \/ StopSuspended
                       \/ \E n \in 1..MaxFragments : Reclaim(n))

TransmitSpec ==
    TransmitInit /\ [][TransmitNext]_transmitVars /\ TransmitFairness

-----------------------------------------------------------------------------
SentName(i) == wire[i][1][1]

Contract == INSTANCE FrameQueue
    WITH Frame <- 1..MaxFrames, accepted <- handedOver,
         passed <- [i \in 1..Len(wire) |-> SentName(i)],
         ordered <- NoFrameDropped
-----------------------------------------------------------------------------
(* Properties.                                                             *)

(* The shape of every variable of the transmit side.                       *)
TransmitTypeOK ==
    LET Part == (0..MaxFrames) \X (0..MaxFragments) IN
    /\ transmitRing \in
        [Slot -> [DMAOwnership : BOOLEAN, filled : BOOLEAN, last : BOOLEAN,
                  holds : Part]]
    /\ transmitedDescriptor \in Slot /\ transmitableDescriptor \in Slot
    /\ claimed \in [start : Slot, count : 0..MaxFragments]
    /\ caller \in {"idle", "filling", "handed", "reclaiming", "reclaimed"}
    /\ transmitLeft \in 0..Slots
    /\ sender.status \in
        {"Stopped", "Fetching", "FoundNone", "Passing", "Suspended"}
    /\ sender.at \in Slot /\ sender.parts \in Seq(Part)
    /\ created \in 0..MaxFrames
    /\ handedOver \in Seq(1..created)
    /\ wire \in Seq(Seq(Part))

(* The driver keeps the contract of a queue: only frames that were handed  *)
(* over to transmit() are sent, each once, and in order as long as no      *)
(* caller has dropped a frame it took from createFrame().                  *)
TransmitContract == Contract!QueueSpec

(* The first n buffers are the caller's, and the others what an earlier    *)
(* frame left behind.                                                      *)
Written(parts, frame, n) ==
    \A k \in 1..Len(parts) :
        IF k <= n THEN parts[k] = <<frame, k>> ELSE parts[k][1] < frame

(* What is sent is what the caller wrote: no buffer is taken back, or      *)
(* claimed for another frame, before the engine has read it.  The second   *)
(* and later buffers of a frame that goes around the end of the ring are   *)
(* the exception: the caller wrote them into the receive buffers.          *)
FramesSentAsWritten ==
    \A i \in 1..Len(wire) :
        \E n \in 1..Len(wire[i]) : Written(wire[i], SentName(i), n)

(* poll() never switches the engine off while it has a frame in hand or a  *)
(* handed over frame to go on with, unless it has suspended itself.        *)
NeverCutOff ==
    [][(sender'.status = "Stopped" /\ sender.status # "Stopped")
        => \/ sender.status = "Suspended"
           \/ sender.parts = <<>> /\ ~Here.DMAOwnership]_transmitVars

(* A frame that was handed over is sent once another one is handed over,   *)
(* even if the engine looked at its descriptor just before, as long as no  *)
(* frame was dropped.  (The last frame may have to wait for its successor: *)
(* transmit() may find the engine not yet suspended.)                      *)
FollowedFrameIsSent ==
    \A i \in 1..MaxFrames :
        (Len(handedOver) > i) ~> (Len(wire) >= i \/ ~NoFrameDropped)
=============================================================================
