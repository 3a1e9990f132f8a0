----------------------------- MODULE ReceiveRing -----------------------------
(***************************************************************************)
(* The receive side of AllwinnerEMACDriver (Net/Net.hpp): the DMA engine   *)
(* stores arriving frames in the descriptors it owns; poll() passes them   *)
(* to received() and gives the descriptors back, at most receiveBudget     *)
(* frames at a time, and restarts an engine that has run out of them.      *)
(*                                                                         *)
(* The engine looks ahead: it closes a descriptor after it has looked at   *)
(* the next one, and ends a frame as truncated if there is none for it.    *)
(* A frame that arrives while the engine does not wait for one is lost,    *)
(* also at a suspended engine: poll() has to restart it.  (One that would  *)
(* wake up by itself, at a descriptor poll() has just given back, would    *)
(* store where poll() does not look next.)                                 *)
(*                                                                         *)
(* The receive buffers lie right behind the transmit buffers.  A transmit  *)
(* frame of several buffers that is claimed around the end of its ring is  *)
(* written on into the first of them; TransmitRing has the descriptors of  *)
(* that frame, and Spill here is what it does to the frames received.      *)
(***************************************************************************)
EXTENDS Naturals, Sequences

CONSTANTS
    ReceiveSlots,       \* receiveBufferCount: 128
    MaxParts,           \* the longest frame, in buffers of bufferSize
    MaxArrivals,        \* bound: frames that begin to arrive
    MaxSpill            \* receive buffers a transmit frame reaches beyond its own

ASSUME ReceiveSlotsAssumption == ReceiveSlots \in Nat \ {0, 1}
ASSUME ReceivePartsAssumption == MaxParts \in 1..(ReceiveSlots - 1)
ASSUME ReceiveArrivalsAssumption == MaxArrivals \in Nat
ASSUME ReceiveSpillAssumption == MaxSpill \in 0..ReceiveSlots

VARIABLES
    receiveRing,        \* the descriptors and what their buffers hold
    receivedDescriptor, \* the oldest descriptor that was not passed on
    poller,             \* what the program is doing
    receiveLeft,        \* poll()'s left
    receiver,           \* the DMA engine
    arrived,            \* frames that began to arrive at a waiting engine
    stored,             \* the frames the engine closed, in order
    delivered,          \* what received() was called with, in order
    spoiled,            \* buffers of frames in the ring that were written over
    spilled             \* a transmit frame was written into receive buffers

receiveVars ==
    <<receiveRing, receivedDescriptor, poller, receiveLeft, receiver, arrived,
      stored, delivered, spoiled, spilled>>

ReceiveSlot == 0..(ReceiveSlots - 1)
BehindPast(slot, n) == slot + n

Behind(slot, n) == (slot + n) % ReceiveSlots
ReceiveBudget == ReceiveSlots \div 2

(* What is not part of any received frame.                                 *)
Foreign == <<0, 0>>

ReceiveInit ==
    /\ receiveRing =
        [slot \in ReceiveSlot |->
            [DMAOwnership |-> TRUE, last |-> FALSE, error |-> FALSE,
             holds |-> Foreign]]
    /\ receivedDescriptor = 0
    /\ poller = "idle"
    /\ receiveLeft = 0
    /\ receiver = [status |-> "Fetching", at |-> 0, part |-> 1, parts |-> 0]
    /\ arrived = 0
    /\ stored = <<>>
    /\ delivered = <<>>
    /\ spoiled = {}
    /\ spilled = FALSE

-----------------------------------------------------------------------------
(* The DMA engine.                                                         *)

Free(slot) == receiveRing[slot].DMAOwnership

ReceiverFetch ==
    /\ receiver.status = "Fetching"
    /\ receiver' = [receiver EXCEPT
            !.status = IF Free(receiver.at) THEN "Waiting" ELSE "FoundNone"]
    /\ UNCHANGED <<receiveRing, receivedDescriptor, poller, receiveLeft,
                   arrived, stored, delivered, spoiled, spilled>>

ReceiverSuspend ==
    /\ receiver.status = "FoundNone"
    /\ receiver' = [receiver EXCEPT !.status = "Suspended"]
    /\ UNCHANGED <<receiveRing, receivedDescriptor, poller, receiveLeft,
                   arrived, stored, delivered, spoiled, spilled>>

(* A frame of n buffers begins to arrive.                                  *)
Arrive(n) ==
    /\ arrived < MaxArrivals
    /\ receiver.status = "Waiting"
    /\ arrived' = arrived + 1
    /\ receiver' = [receiver EXCEPT !.status = "Passing", !.part = 1, !.parts = n]
    /\ UNCHANGED <<receiveRing, receivedDescriptor, poller, receiveLeft,
                   stored, delivered, spoiled, spilled>>

(* The engine closes a descriptor: the last of the frame, or the last it   *)
(* can get for it.                                                         *)
ReceiverStore ==
    LET complete  == receiver.part = receiver.parts
        next      == Behind(receiver.at, 1)
        truncated == ~complete /\ ~Free(next)
    IN
    /\ receiver.status = "Passing"
    /\ receiveRing' = [receiveRing EXCEPT ![receiver.at] =
            [DMAOwnership |-> FALSE, last |-> complete \/ truncated,
             error |-> truncated, holds |-> <<arrived, receiver.part>>]]
    /\ stored' = IF complete \/ truncated THEN Append(stored, arrived) ELSE stored
    /\ receiver' = [receiver EXCEPT
            !.at = next, !.part = @ + 1,
            !.status = IF complete \/ truncated THEN "Fetching" ELSE "Passing"]
    /\ UNCHANGED <<receivedDescriptor, poller, receiveLeft, arrived, delivered,
                   spoiled, spilled>>

ReceiverStep == ReceiverFetch \/ ReceiverSuspend \/ ReceiverStore

-----------------------------------------------------------------------------
(* poll(), from the receive ring on.                                       *)

StartReceive ==
    /\ poller = "idle"
    /\ poller' = "receiving"
    /\ receiveLeft' = ReceiveBudget
    /\ UNCHANGED <<receiveRing, receivedDescriptor, receiver, arrived, stored,
                   delivered, spoiled, spilled>>

Oldest(n) == { Behind(receivedDescriptor, k) : k \in 0..(n - 1) }

FirstEnds(n) ==
    /\ ~Free(receivedDescriptor)
    /\ \A k \in 0..(n - 1) :
        receiveRing[Behind(receivedDescriptor, k)].last <=> k = n - 1

(* The next frame has n descriptors, none of them owned by the engine.     *)
FrameIn(n) ==
    /\ \A slot \in Oldest(n) : ~Free(slot)
    /\ \A k \in 0..(n - 1) :
        receiveRing[Behind(receivedDescriptor, k)].last <=> k = n - 1

(* What received() reads: one piece of memory from the first buffer on,    *)
(* which beyond the last buffer of the ring is not the frame's, and where  *)
(* it was written over no longer.                                          *)
Contents(n) ==
    [k \in 1..n |->
        LET slot == receivedDescriptor + k - 1 IN
        IF slot < ReceiveSlots /\ slot \notin spoiled
        THEN receiveRing[slot].holds ELSE Foreign]

(* received() is called with the frame ...                                 *)
Deliver(n) ==
    /\ poller = "receiving"
    /\ receiveLeft > 0
    /\ FrameIn(n)
    /\ delivered' = Append(delivered,
            [frame |-> receiveRing[receivedDescriptor].holds[1],
             at |-> receivedDescriptor, parts |-> Contents(n),
             error |-> receiveRing[Behind(receivedDescriptor, n - 1)].error])
    /\ poller' = "returning"
    /\ UNCHANGED <<receiveRing, receivedDescriptor, receiveLeft, receiver,
                   arrived, stored, spoiled, spilled>>

(* The buffer the engine is writing now.                                   *)
BeingFilled == IF receiver.status = "Passing" THEN {receiver.at} ELSE {}

(* ... which may answer it with a frame of several buffers: the echo of    *)
(* UDP does, and copies its payload there (Udp.hpp:65).  If that frame is  *)
(* claimed around the end of its ring, the first n receive buffers are     *)
(* written: what waits there for received() is lost, and so may be what    *)
(* the engine is writing.                                                  *)
Spill(n) ==
    /\ poller = "returning"
    /\ ~delivered[Len(delivered)].error
    /\ \E hit \in SUBSET BeingFilled :
        spoiled' = spoiled \cup { slot \in 0..(n - 1) : ~Free(slot) \/ slot \in hit }
    /\ spilled' = TRUE
    /\ UNCHANGED <<receiveRing, receivedDescriptor, poller, receiveLeft,
                   receiver, arrived, stored, delivered>>

(* The descriptors that go back to the engine.                             *)
Returned(n) == Oldest(n)

(* ... and behind it the frame's descriptors are given back.               *)
GiveBack(n) ==
    /\ poller = "returning"
    /\ FrameIn(n)
    /\ receiveRing' =
        [slot \in ReceiveSlot |->
            IF slot \in Returned(n)
            THEN [receiveRing[slot] EXCEPT !.DMAOwnership = TRUE]
            ELSE receiveRing[slot]]
    /\ receivedDescriptor' = Behind(receivedDescriptor, n)
    /\ receiveLeft' = receiveLeft - 1
    /\ poller' = "receiving"
    /\ spoiled' = spoiled \ Returned(n)
    /\ UNCHANGED <<receiver, arrived, stored, delivered, spilled>>

(* The loop ends at a descriptor of the engine or after `left` frames.     *)
EndReceive ==
    /\ poller = "receiving"
    /\ receiveLeft = 0 \/ \A n \in 1..MaxParts : ~FrameIn(n)
    /\ poller' = "received"
    /\ receiveLeft' = 0
    /\ UNCHANGED <<receiveRing, receivedDescriptor, receiver, arrived, stored,
                   delivered, spoiled, spilled>>

RestartsNever(status) == FALSE

RestartAtFirst == 0

(* Where it goes on: the oldest descriptor that was not passed on.         *)
RestartAt == receivedDescriptor

Restarts(status) == status \in {"Stopped", "Suspended"}

(* Behind the loop an engine that has stopped is started again.  It has    *)
(* read its descriptor before the program, which polls the link first,     *)
(* looks at the ring again.                                                *)
RestartReceiver ==
    /\ poller = "received"
    /\ receiver' = IF Restarts(receiver.status)
                   THEN [receiver EXCEPT
                            !.status = IF Free(RestartAt)
                                       THEN "Waiting" ELSE "FoundNone",
                            !.at = RestartAt]
                   ELSE receiver
    /\ poller' = "idle"
    /\ UNCHANGED <<receiveRing, receivedDescriptor, receiveLeft, arrived,
                   stored, delivered, spoiled, spilled>>

ReceiveNext ==
    \/ ReceiverFetch
    \/ ReceiverSuspend
    \/ \E n \in 1..MaxParts : Arrive(n)
    \/ ReceiverStore
    \/ StartReceive
    \/ \E n \in 1..MaxParts : Deliver(n)
    \/ \E n \in 1..MaxSpill : Spill(n)
    \/ \E n \in 1..MaxParts : GiveBack(n)
    \/ EndReceive
    \/ RestartReceiver

(* The engine runs and the main loop polls; nobody has to send a frame.    *)
ReceiveFairness ==
    /\ WF_receiveVars(ReceiverStep)
    /\ WF_receiveVars(\/ StartReceive \/ EndReceive \/ RestartReceiver
                      \/ \E n \in 1..MaxParts : Deliver(n) \/ GiveBack(n))

ReceiveSpec == ReceiveInit /\ [][ReceiveNext]_receiveVars /\ ReceiveFairness

-----------------------------------------------------------------------------
(* Properties.                                                             *)

(* The shape of every variable of the receive side.                        *)
ReceiveTypeOK ==
    LET Part == (0..MaxArrivals) \X (0..MaxParts) IN
    /\ receiveRing \in
        [ReceiveSlot -> [DMAOwnership : BOOLEAN, last : BOOLEAN,
                         error : BOOLEAN, holds : Part]]
    /\ receivedDescriptor \in ReceiveSlot
    /\ poller \in {"idle", "receiving", "returning", "received"}
    /\ receiveLeft \in 0..ReceiveBudget
    /\ receiver \in
        [status : {"Stopped", "Fetching", "FoundNone", "Waiting", "Passing",
                   "Suspended"},
         at : ReceiveSlot, part : 1..(MaxParts + 1), parts : 0..MaxParts]
    /\ arrived \in 0..MaxArrivals
    /\ stored \in Seq(1..arrived)
    /\ delivered \in Seq([frame : 0..MaxArrivals, at : ReceiveSlot,
                          parts : Seq(Part), error : BOOLEAN])
    /\ spoiled \subseteq ReceiveSlot
    /\ spilled \in BOOLEAN

Received == INSTANCE FrameQueue
    WITH Frame <- 1..MaxArrivals, accepted <- stored,
         passed <- [i \in 1..Len(delivered) |-> delivered[i].frame],
         ordered <- TRUE

(* The driver keeps the contract of a queue: received() is called for each *)
(* frame the engine stored, once, and in order of arrival, although poll() *)
(* stops half way and sets the engine to another descriptor.               *)
ReceiveContract == Received!QueueSpec

(* Behind the buffers, or in one a transmit frame may have spilled into.   *)
Exposed(slot) == slot >= ReceiveSlots \/ (spilled /\ slot < MaxSpill)

(* A frame is delivered as it was stored: the engine has not written into  *)
(* a buffer before received() was called, also when it is set to another   *)
(* descriptor on the way.  The code makes two exceptions, and both are at  *)
(* the ends of the ring: of a frame that goes around its end, received()   *)
(* reads on behind the buffers; and once a transmit frame went around the  *)
(* end of its ring, the first receive buffers may hold that                *)
(* (Net.hpp:15-17).                                                        *)
FramesReceivedAsStored ==
    \A i \in 1..Len(delivered) :
        LET received == delivered[i] IN
        \A k \in 1..Len(received.parts) :
            \/ received.parts[k] = <<received.frame, k>>
            \/ received.parts[k] = Foreign /\ Exposed(received.at + k - 1)

(* Every stored frame is delivered.                                        *)
StoredIsDelivered ==
    \A i \in 1..MaxArrivals : (Len(stored) >= i) ~> (Len(delivered) >= i)

(* An engine that ran out of descriptors waits for frames again.           *)
ReceiverRecovers ==
    (receiver.status = "Suspended") ~> (receiver.status \in {"Waiting", "Passing"})
=============================================================================
